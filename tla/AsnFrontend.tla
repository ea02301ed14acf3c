----------------------------- MODULE AsnFrontend -----------------------------
(***************************************************************************)
(* What reading a module is for: the tokenizer and the parser of           *)
(* ModelParser against a reference that goes the other way, from a model   *)
(* to the words X.680 writes for it, and against a reference of what a     *)
(* word and a comment are.                                                 *)
(***************************************************************************)
EXTENDS ModelParser

CONSTANTS
    Meaning     \* for some of Texts, the model they are written for

ASSUME MeaningAssumption == DOMAIN Meaning \subseteq Texts

-----------------------------------------------------------------------------
(* The notation: a model's words, each a sequence of characters *)

Kw(k) == <<<<k>>>>                   \* one word of one letter
Comma == Kw(",")
Braced(words) == Kw("{") \o words \o Kw("}")
Parenthesised(words) == Kw("(") \o words \o Kw(")")
Assigned == <<<<":", ":", "=">>>>
Dots == <<<<".", ".">>>>
Marked == <<<<".", ".", ".">>>>

\* Lists of words with a comma between each two.
Separated(lists) ==
    FlattenSeq([i \in 1 .. Len(lists) |-> IF i = 1 THEN lists[i] ELSE Comma \o lists[i]])

DigitOf(n) == CHOOSE d \in DOMAIN DigitValue : DigitValue[d] = n
Digits(n) == IF n < 10 THEN <<DigitOf(n)>> ELSE <<DigitOf(n \div 10), DigitOf(n % 10)>>
Number(n) == IF n < 0 THEN <<"-">> \o Digits(-n) ELSE Digits(n)

NumberOrName(x) == IF "lit" \in DOMAIN x THEN <<Number(x.lit)>> ELSE <<x.ref>>
EndOr(option, word) ==
    IF option = {} THEN Kw(word) ELSE NumberOrName(CHOOSE x \in option : TRUE)
Extended(e) == IF e THEN Comma \o Marked ELSE <<>>

SizeWords(s) ==
    IF s = AnySize THEN <<>>
    ELSE Kw("SIZE") \o Parenthesised(
           (IF "fix" \in DOMAIN s THEN NumberOrName(s.fix)
            ELSE NumberOrName(s.min) \o Dots \o
                 (IF s.max = Lit(MaxI64) THEN Kw("MAX") ELSE NumberOrName(s.max)))
           \o Extended(s.extensible))

SizeConstraint(s) == IF s = AnySize THEN <<>> ELSE Parenthesised(SizeWords(s))

RangeWords(r) ==
    IF r = <<{}, {}, FALSE>> THEN <<>>
    ELSE Parenthesised(EndOr(r[1], "MIN") \o Dots \o EndOr(r[2], "MAX") \o Extended(r[3]))

NamedNumbers(constants) ==
    IF constants = <<>> THEN <<>>
    ELSE Braced(Separated([i \in DOMAIN constants |->
             <<constants[i][1]>> \o Parenthesised(<<Number(constants[i][2])>>)]))

HexDigit(n) == CHOOSE d \in DOMAIN HexValue : HexValue[d] = n

\* A string or octets are one word, their delimiters and blanks included.
LiteralWords(v) ==
    CASE "boolean" \in DOMAIN v -> Kw(IF v.boolean THEN "TRUE" ELSE "FALSE")
      [] "integer" \in DOMAIN v -> <<Number(v.integer)>>
      [] "string" \in DOMAIN v -> <<<<"\"">> \o v.string \o <<"\"">>>>
      [] "octets" \in DOMAIN v ->
           <<<<"'">> \o FlattenSeq([i \in DOMAIN v.octets |->
                          <<HexDigit(v.octets[i] \div 16), HexDigit(v.octets[i] % 16)>>])
             \o <<"'", "H">>>>

TagWords(option) ==
    IF option = {} THEN <<>>
    ELSE LET t == CHOOSE x \in option : TRUE
         IN  Kw("[") \o (IF t.class = "" THEN <<>> ELSE Kw(t.class)) \o <<Number(t.number)>>
               \o Kw("]")

\* Entries, with the extension marker behind the one of the given index.
Entries(lists, extensionAfter) ==
    Separated(IF extensionAfter = {} THEN lists
              ELSE InsertAt(lists, (CHOOSE i \in extensionAfter : TRUE) + 2, Marked))

RECURSIVE TypeWords(_)
FieldWords(f) ==
    LET optional == f.role.type.type = "OPTIONAL"
        default == IF f.role.default = {} THEN <<>>
                   ELSE LET d == CHOOSE x \in f.role.default : TRUE
                        IN  Kw("DEFAULT") \o
                              (IF "lit" \in DOMAIN d THEN LiteralWords(d.lit) ELSE <<d.ref>>)
    IN  <<f.name>> \o TagWords(f.role.tag)
          \o TypeWords(IF optional THEN f.role.type.of ELSE f.role.type)
          \o (IF optional THEN Kw("OPTIONAL") ELSE <<>>) \o default

TypeWords(t) ==
    CASE t.type \in {"BOOLEAN", "NULL"} -> Kw(t.type)
      [] t.type = "INTEGER" -> Kw("INTEGER") \o NamedNumbers(t.constants) \o RangeWords(t.range)
      [] t.type = "STRING" -> Kw(t.charset) \o SizeConstraint(t.size)
      [] t.type = "OCTET STRING" -> Kw("OCTET") \o Kw("STRING") \o SizeConstraint(t.size)
      [] t.type = "BIT STRING" ->
           Kw("BIT") \o Kw("STRING") \o NamedNumbers(t.constants) \o SizeConstraint(t.size)
      [] t.type \in {"SEQUENCE", "SET"} ->
           Kw(t.type) \o Braced(Entries([i \in DOMAIN t.fields |-> FieldWords(t.fields[i])],
                                        t.extensionAfter))
      [] t.type = "SEQUENCE OF" ->
           Kw("SEQUENCE") \o SizeWords(t.size) \o Kw("OF") \o TypeWords(t.of)
      [] t.type = "SET OF" -> Kw("SET") \o SizeConstraint(t.size) \o Kw("OF") \o TypeWords(t.of)
      [] t.type = "ENUMERATED" ->
           Kw("ENUMERATED") \o Braced(Entries([i \in DOMAIN t.variants |->
               LET v == t.variants[i]
               IN  <<v.name>> \o (IF v.number = {} THEN <<>>
                                  ELSE Parenthesised(<<Number(CHOOSE n \in v.number : TRUE)>>))],
               t.extensionAfter))
      [] t.type = "CHOICE" ->
           Kw("CHOICE") \o Braced(Entries([i \in DOMAIN t.variants |->
               <<t.variants[i].name>> \o TagWords(t.variants[i].tag) \o TypeWords(t.variants[i].of)],
               t.extensionAfter))
      [] t.type = "REFERENCE" -> <<t.name>>

OidWords(option) ==
    IF option = {} THEN <<>>
    ELSE LET oid == CHOOSE x \in option : TRUE
         IN  Braced(FlattenSeq([i \in DOMAIN oid |->
               LET c == oid[i]
                   number == IF "number" \in DOMAIN c THEN <<Number(c.number)>> ELSE <<>>
               IN  IF "name" \notin DOMAIN c THEN number
                   ELSE <<c.name>> \o (IF number = <<>> THEN <<>> ELSE Parenthesised(number))]))

ImportWords(imports) ==
    IF imports = <<>> THEN <<>>
    ELSE Kw("IMPORTS") \o FlattenSeq([i \in DOMAIN imports |->
           Separated([j \in DOMAIN imports[i].what |-> <<imports[i].what[j]>>])
             \o Kw("FROM") \o <<imports[i].from>> \o OidWords(imports[i].oid)]) \o Kw(";")

DefinitionWords(d) == <<d[1]>> \o Assigned \o TagWords(d[2].tag) \o TypeWords(d[2].type)
ValueWords(v) == <<v.name>> \o TypeWords(v.role.type) \o Assigned \o LiteralWords(v.value)

ModuleWords(m) ==
    <<m.name>> \o OidWords(m.oid) \o Kw("DEFINITIONS") \o Assigned \o Kw("BEGIN")
      \o ImportWords(m.imports)
      \o FlattenSeq([i \in DOMAIN m.definitions |-> DefinitionWords(m.definitions[i])])
      \o FlattenSeq([i \in DOMAIN m.values |-> ValueWords(m.values[i])]) \o Kw("END")

-----------------------------------------------------------------------------
(* Words and comments, without a scan *)

\* The characters of a text up to its one-line comments, with their places.
Characters ==
    FlattenSeq([l \in 1 .. Len(text) |->
        [c \in 1 .. Len(Content(text[l])) |->
            [line |-> l, column |-> c, char |-> Content(text[l])[c]]]])

\* A pair of characters stands at the n-th character and the one behind it.
PairAt(cs, n, a, b) ==
    /\ n < Len(cs) /\ cs[n].char = a /\ cs[n + 1].char = b
    /\ cs[n].line = cs[n + 1].line

\* The characters outside of block comments: a comment ends with the first
\* asterisk and slash behind the slash that opened it.
Uncommented(cs) ==
    LET from[n \in 1 .. Len(cs) + 2] ==
          IF n > Len(cs) THEN {}
          ELSE IF ~PairAt(cs, n, "/", "*") THEN {n} \cup from[n + 1]
          ELSE LET ends == {e \in n + 1 .. Len(cs) : PairAt(cs, e, "*", "/")}
               IN  IF ends = {} THEN {}
                   ELSE from[(CHOOSE e \in ends : \A f \in ends : e <= f) + 2]
    IN  from[1]

\* The texts and separators of a text.  A letter begins a text unless the last
\* character outside of comments, control characters aside, is a letter of the
\* same line; the text then has all letters up to the next beginning.
WordsOf(cs) ==
    LET kept == {n \in Uncommented(cs) : cs[n].char \notin Control}
        letters == {n \in kept : cs[n].char \notin Separators \cup Blanks}
        Follows(n) ==
            \E m \in letters : /\ m < n /\ cs[m].line = cs[n].line
                              /\ \A k \in m + 1 .. n - 1 : k \notin kept
        begins == {n \in letters : ~Follows(n)} \cup {n \in kept : cs[n].char \in Separators}
        places == [n \in 1 .. Len(cs) |-> n]
        Word(n) ==
            IF n \notin letters THEN <<n>>
            ELSE SelectSeq(places, LAMBDA m : /\ m \in letters /\ m >= n
                                             /\ \A k \in n + 1 .. m : k \notin begins)
        Chars(word) == [i \in 1 .. Len(word) |-> cs[word[i]].char]
        sorted == SelectSeq(places, LAMBDA n : n \in begins)
    IN  [i \in 1 .. Len(sorted) |->
           [kind |-> IF sorted[i] \in letters THEN "text" ELSE "separator",
            line |-> cs[sorted[i]].line, column |-> cs[sorted[i]].column,
            text |-> Chars(Word(sorted[i]))]]

-----------------------------------------------------------------------------

\* Type invariant of the parser: it never takes a token that is not there,
\* and it has a model only from a text that is tokenized.
TypeOK ==
    /\ TokenizerTypeOK
    /\ stage \in {"name", "oid", "begin", "body", "done", "refused"}
    /\ pos \in 1 .. Len(tokens) + 1
    /\ DOMAIN model = {"name", "oid", "imports", "definitions", "values"}
    /\ stage # "name" => Tokenized /\ previous = <<>>

\* The tokens are the words of the text as the reference finds them, at their
\* places: whatever comments, blanks, line ends and control characters stand
\* between and inside of words (Tokenizer::parse, parser.rs:131-213; its tests
\* cover single comments).
WordsAreTokens == Tokenized => tokens = WordsOf(Characters)

\* What is written for a model is read as that model: no constraint, tag,
\* default, name, order or extension marker is lost or taken for another
\* (Model::try_from and every reader below it).  The meanings leave out what
\* the code deliberately takes for less: INTEGER(0..MAX) and
\* INTEGER(MIN..i64::MAX) are no range, SIZE(0..MAX) no size.
WrittenIsRead ==
    (stage \in {"done", "refused"} /\ text \in DOMAIN Meaning) =>
        /\ stage = "done"
        /\ model = Meaning[text]

\* The names among words.
Reserved ==
    {<<k>> : k \in {"INTEGER", "BOOLEAN", "NULL", "OCTET", "BIT", "STRING", "ENUMERATED",
                    "CHOICE", "SEQUENCE", "SET", "OF", "SIZE", "MIN", "MAX", "OPTIONAL",
                    "DEFAULT", "TRUE", "FALSE", "UNIVERSAL", "APPLICATION", "PRIVATE",
                    "DEFINITIONS", "BEGIN", "IMPORTS", "FROM", "END"} \cup StringWords}
    \cup {c[2] : c \in OtherCase}
IsName(word) ==
    /\ word \notin Reserved /\ word # <<>>
    /\ ~AllDigits(word) /\ word[1] # "-" /\ word[1] \notin Separators

\* The body's names that were read: all texts behind BEGIN outside of IMPORTS
\* and of WITH COMPONENTS, which readers pass over in silence.
NamesRead ==
    LET begin == CHOOSE p \in 1 .. pos : IsWord(p, "BEGIN") /\ \A q \in 1 .. p - 1 : ~IsWord(q, "BEGIN")
        body == begin + 1 .. pos - 1
        passedOver == {p \in body : \E a \in body :
            /\ a <= p
            /\ \/ IsWord(a, "IMPORTS") /\ \A q \in a .. p - 1 : ~IsSeparator(q, ";")
               \/ IsWord(a, "WITH") /\ \A q \in a .. p : ~IsSeparator(q + 1, ":")}
    IN  {tokens[p].text : p \in {q \in body \ passedOver : IsText(q) /\ IsName(tokens[q].text)}}

NamesKept ==
    {w \in Range(FlattenSeq([i \in DOMAIN model.definitions |-> DefinitionWords(model.definitions[i])])
                 \o FlattenSeq([i \in DOMAIN model.values |-> ValueWords(model.values[i])])) : IsName(w)}

\* An accepted module keeps all it names: whatever tokens are missing, too
\* many or exchanged, the parser either refuses them or has every name of a
\* definition, a field, a variant, a number, a referenced type or value in
\* its model, and no other (each reader under Model::try_from, each token of
\* which is consumed once).  Literals are left out: strings hold any text.
NamesAreKept == stage = "done" => (text \in DOMAIN Meaning \/ NamesKept = NamesRead)
=============================================================================
