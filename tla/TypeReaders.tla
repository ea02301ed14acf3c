----------------------------- MODULE TypeReaders -----------------------------
(***************************************************************************)
(* How the types, constraints and values of an ASN.1 module are read from  *)
(* its tokens: src/asn1rs-model/src/model/mod.rs with components.rs,       *)
(* choice.rs, enumerated.rs, size.rs, int.rs, bit_string.rs, tag.rs,       *)
(* oid.rs, itc.rs and the literals of asn.rs beside it; peeking and        *)
(* consuming are those of parse.rs.                                        *)
(*                                                                         *)
(* A reader takes the position of its first token and gives the set of its *)
(* results: one record with the value v and the position p behind it, or   *)
(* none when the code returns an error (which one is not modelled).        *)
(* An Option is the empty set or the set of its value.                     *)
(*                                                                         *)
(* A keyword is a text of one letter, an integer the digits it consists    *)
(* of; i64 and usize are scaled down to MaxI64 and MaxU64.                 *)
(***************************************************************************)
EXTENDS Tokenizer, Integers, SequencesExt

CONSTANTS
    MaxI64,      \* the greatest i64
    OtherCase    \* pairs of a keyword and a word that differs from it in case only

ASSUME MaxAssumption == MaxI64 \in Nat \ {0}

MaxU64 == 2 * MaxI64 + 1

-----------------------------------------------------------------------------
(* parse.rs: peeking and consuming *)

IsText(p) == p <= Len(tokens) /\ tokens[p].kind = "text"

IsSeparator(p, c) ==
    p <= Len(tokens) /\ tokens[p].kind = "separator" /\ tokens[p].text = <<c>>

\* eq_text_ignore_ascii_case
IsWord(p, word) ==
    IsText(p) /\ (tokens[p].text = <<word>> \/ <<word, tokens[p].text>> \in OtherCase)

Got(v, p) == {[v |-> v, p |-> p]}

AnyToken(p) == IF p <= Len(tokens) THEN Got(tokens[p], p + 1) ELSE {}

NextText(p) == IF IsText(p) THEN Got(tokens[p].text, p + 1) ELSE {}

\* The position behind these separators, if they are what is next.
After(p, separators) ==
    IF \A i \in 1 .. Len(separators) : IsSeparator(p + i - 1, separators[i])
    THEN {p + Len(separators)} ELSE {}

\* The position behind these words, if they are what is next.
AfterWords(p, words) ==
    IF \A i \in 1 .. Len(words) : IsWord(p + i - 1, words[i])
    THEN {p + Len(words)} ELSE {}

\* The results that these separators follow.
Closed(results, separators) ==
    UNION {UNION {Got(r.v, q) : q \in After(r.p, separators)} : r \in results}

\* The values of the results turned into others.
Map(results, F(_)) == {[v |-> F(r.v), p |-> r.p] : r \in results}

\* loop_ctrl_separator!: go on behind a comma, be done behind a brace.
Continued(results, Continue(_, _)) ==
    UNION {UNION {Continue(r.v, q) : q \in After(r.p, <<",">>)} : r \in results}
        \cup Closed(results, <<"}">>)

-----------------------------------------------------------------------------
(* Numbers and literals *)

DigitValue == [d \in {"0", "1", "2", "3", "4", "5", "6", "7", "8", "9"} |->
    CASE d = "0" -> 0 [] d = "1" -> 1 [] d = "2" -> 2 [] d = "3" -> 3 [] d = "4" -> 4
      [] d = "5" -> 5 [] d = "6" -> 6 [] d = "7" -> 7 [] d = "8" -> 8 [] d = "9" -> 9]

AllDigits(s) == \A i \in 1 .. Len(s) : s[i] \in DOMAIN DigitValue

ValueOf(digits) == FoldLeft(LAMBDA n, d : 10 * n + DigitValue[d], 0, digits)

\* str::parse for the integers of lo..hi: a sign, then digits.
ParseInt(s, lo, hi) ==
    LET signs == IF lo < 0 THEN {"+", "-"} ELSE {"+"}
        digits == IF s[1] \in signs THEN Tail(s) ELSE s
        n == IF s[1] = "-" THEN -ValueOf(digits) ELSE ValueOf(digits)
    IN  IF digits # <<>> /\ AllDigits(digits) /\ n \in lo .. hi THEN {n} ELSE {}

ParseI64(s) == ParseInt(s, -MaxI64 - 1, MaxI64)
ParseU64(s) == ParseInt(s, 0, MaxU64)

Lit(v) == [lit |-> v]
Ref(s) == [ref |-> s]

\* A text as a number, otherwise as a reference to a value.
LitOrRef(s, numbers) == IF numbers = {} THEN Ref(s) ELSE Lit(CHOOSE n \in numbers : TRUE)

LooksLikeInteger(s) ==
    AllDigits(s) \/ (s[1] = "-" /\ Len(s) > 1 /\ AllDigits(Tail(s)))

StartsLiteral(p) ==
    \/ IsWord(p, "TRUE") \/ IsWord(p, "FALSE")
    \/ IsText(p) /\ LooksLikeInteger(tokens[p].text)
    \/ IsSeparator(p, "\"") \/ IsSeparator(p, "'")

Spaces(n) == [i \in 1 .. n |-> " "]
Gap(from, to) == Spaces(IF from < to THEN to - from ELSE 0)

\* The rest of a string up to its delimiter: the tokens' columns tell how
\* many blanks stood between them.
RECURSIVE StringRest(_, _, _, _)
StringRest(p, delimiter, column0, string) ==
    IF IsSeparator(p, delimiter) THEN Got(string, p + 1)
    ELSE UNION {StringRest(p + 1, delimiter, r.v.column + Len(r.v.text),
                           string \o Gap(column0, r.v.column) \o r.v.text) :
                  r \in AnyToken(p)}

\* read_string_literal: the content; the first token is taken for content
\* whatever it is, and as nothing when it is a separator.
StringLiteral(p, delimiter) ==
    UNION {UNION {LET first == IF r.v.kind = "text" THEN r.v.text ELSE <<>>
                  IN  StringRest(r.p, delimiter, r.v.column + Len(first), first) :
                    r \in AnyToken(q)} : q \in After(p, <<delimiter>>)}

HexValue == DigitValue @@ [d \in {"A", "B", "F"} |->
    CASE d = "A" -> 10 [] d = "B" -> 11 [] d = "F" -> 15]

\* The octets of digits that are n to an octet, filled up from the left.
Octets(digits, n, base, Value) ==
    LET padded == [i \in 1 .. ((n - (Len(digits) % n)) % n) |-> "0"] \o digits
    IN  [i \in 1 .. Len(padded) \div n |->
           FoldLeft(LAMBDA v, d : base * v + Value[d], 0,
                    SubSeq(padded, (i - 1) * n + 1, i * n))]

\* read_hex_or_bit_string_literal and its arms of try_from_asn_str.
OctetsLiteral(s, hex) ==
    IF hex
    THEN IF Range(s) \subseteq DOMAIN HexValue
         THEN {[octets |-> Octets(s, 2, 16, HexValue)]} ELSE {}
    ELSE IF Range(s) \subseteq {"0", "1"}
         THEN {[octets |-> Octets(s, 8, 2, DigitValue)]} ELSE {}

HexOrBitLiteral(p) ==
    UNION {UNION {Got(o, s.p + 1) : o \in OctetsLiteral(s.v, IsWord(s.p, "H"))} :
             s \in {r \in StringLiteral(p, "'") : IsWord(r.p, "H") \/ IsWord(r.p, "B")}}

\* read_literal with LiteralValue::try_from_asn_str.
ReadLiteral(p) ==
    IF IsWord(p, "TRUE") THEN Got([boolean |-> TRUE], p + 1)
    ELSE IF IsWord(p, "FALSE") THEN Got([boolean |-> FALSE], p + 1)
    ELSE IF IsSeparator(p, "\"")
    THEN Map(StringLiteral(p, "\""), LAMBDA s : [string |-> s])
    ELSE IF IsSeparator(p, "'") THEN HexOrBitLiteral(p)
    ELSE IF IsText(p) /\ LooksLikeInteger(tokens[p].text)
    THEN UNION {Got([integer |-> n], p + 1) : n \in ParseI64(tokens[p].text)}
    ELSE {}

-----------------------------------------------------------------------------
(* Tags, sizes, ranges, named numbers *)

TagNumber(class, p) ==
    IF IsText(p)
    THEN {[v |-> [class |-> class, number |-> n], p |-> p + 1] : n \in ParseU64(tokens[p].text)}
    ELSE {}

ReadTag(p) ==
    LET named == {class \in {"UNIVERSAL", "APPLICATION", "PRIVATE"} : IsWord(p, class)}
    IN  IF named = {} THEN TagNumber("", p)
        ELSE UNION {TagNumber(class, p + 1) : class \in named}

\* next_with_opt_tag: the tag, and the position of the token behind it.
OptTag(p) ==
    IF IsSeparator(p, "[") THEN Map(Closed(ReadTag(p + 1), <<"]">>), LAMBDA t : {t})
    ELSE Got({}, p)

Ellipsis == <<".", ".", ".">>

\* Nothing, or a comma and the extension marker.
ReadExtensible(p) ==
    IF IsSeparator(p, ",") THEN {[v |-> TRUE, p |-> q] : q \in After(p + 1, Ellipsis)}
    ELSE Got(FALSE, p)

AnySize == [any |-> TRUE]
FixSize(n, e) == [fix |-> n, extensible |-> e]
RangeSize(a, b, e) == [min |-> a, max |-> b, extensible |-> e]

\* An end of a size: nothing for the word that means no end, for a separator,
\* and for the number that says the same.
SizeEnd(token, open, same) ==
    IF token.kind = "text" /\ token.text # <<open>> /\ <<open, token.text>> \notin OtherCase
    THEN {LitOrRef(token.text, ParseU64(token.text))} \ {Lit(same)}
    ELSE {}

OrLit(option, n) == IF option = {} THEN Lit(n) ELSE CHOOSE x \in option : TRUE

\* Two open ends are no size.  Mutant: one is enough.
EitherOpen(start, end) == start = {} \/ end = {}
BothOpen(start, end) == start = {} /\ end = {}

\* What follows the two dots of a size.
SizeRange(start, p) ==
    UNION {LET end == SizeEnd(e.v, "MAX", MaxI64)
               min == OrLit(start, 0)
               max == OrLit(end, MaxI64)
           IN  IF BothOpen(start, end) THEN Closed(Got(AnySize, e.p), <<")">>)
               ELSE Closed(Map(ReadExtensible(e.p),
                               LAMBDA x : IF min = max THEN FixSize(min, x)
                                          ELSE RangeSize(min, max, x)), <<")">>) :
             e \in AnyToken(p)}

\* Size::try_from
ReadSize(p) ==
    UNION {UNION {LET start == SizeEnd(s.v, "MIN", 0)
                  IN  IF IsSeparator(s.p, ".")
                      THEN UNION {SizeRange(start, r) : r \in After(s.p, <<".", ".">>)}
                      ELSE Closed(Map(ReadExtensible(s.p),
                                      LAMBDA x : FixSize(OrLit(start, 0), x)), <<")">>) :
                    s \in UNION {AnyToken(r) : r \in After(q, <<"(">>)}} :
             q \in AfterWords(p, <<"SIZE">>)}

MaybeSize(p) ==
    IF IsSeparator(p, "(") THEN Closed(ReadSize(p + 1), <<")">>)
    ELSE IF IsWord(p, "SIZE") THEN ReadSize(p)
    ELSE Got(AnySize, p)

RangeEnd(token, open) ==
    IF token.kind = "text" /\ token.text # <<open>> /\ <<open, token.text>> \notin OtherCase
    THEN {LitOrRef(token.text, ParseI64(token.text))} ELSE {}

\* The range of an INTEGER: two ends that say no more than i64 does are none.
RangeBetween(start, end, e) ==
    IF \/ start = {Lit(0)} /\ end = {}
       \/ start = {} /\ end = {Lit(MaxI64)}
    THEN <<{}, {}, e>> ELSE <<start, end, e>>

ReadRange(p) ==
    IF ~IsSeparator(p, "(") THEN Got(<<{}, {}, FALSE>>, p)
    ELSE UNION {Closed(Map(ReadExtensible(e.p), LAMBDA x :
                           RangeBetween(RangeEnd(tokens[p + 1], "MIN"), RangeEnd(e.v, "MAX"), x)),
                       <<")">>) :
                  e \in UNION {AnyToken(q) : q \in After(p + 2, <<".", ".">>)}}

RECURSIVE ConstantsFrom(_, _, _)

\* read_constant, with the numbers its parser accepts.
ReadConstant(p, signed) ==
    UNION {UNION {{[v |-> <<name.v, n>>, p |-> r] :
                     n \in IF IsText(q)
                           THEN (IF signed THEN ParseI64(tokens[q].text)
                                 ELSE ParseU64(tokens[q].text))
                           ELSE {},
                     r \in After(q + 1, <<")">>)} :
             q \in After(name.p, <<"(">>)} : name \in NextText(p)}

ConstantsFrom(p, signed, constants) ==
    Continued({[v |-> Append(constants, r.v), p |-> r.p] : r \in ReadConstant(p, signed)},
              LAMBDA cs, q : ConstantsFrom(q, signed, cs))

MaybeConstants(p, signed) ==
    IF IsSeparator(p, "{") THEN ConstantsFrom(p + 1, signed, <<>>) ELSE Got(<<>>, p)

ReadInteger(p) ==
    UNION {Map(ReadRange(c.p), LAMBDA r : [type |-> "INTEGER", range |-> r, constants |-> c.v]) :
             c \in MaybeConstants(p, TRUE)}

ReadBitString(p) ==
    UNION {Map(MaybeSize(c.p), LAMBDA s : [type |-> "BIT STRING", size |-> s, constants |-> c.v]) :
             c \in MaybeConstants(p, FALSE)}

-----------------------------------------------------------------------------
(* Inner type constraints: WITH COMPONENTS is read, and dropped *)

RECURSIVE AfterValueConstraint(_, _)
\* Any tokens up to the parenthesis that closes the first one.
AfterValueConstraint(p, level) ==
    IF level = 0 /\ IsSeparator(p, ")") THEN {p + 1}
    ELSE IF p > Len(tokens) THEN {}
    ELSE AfterValueConstraint(p + 1, IF IsSeparator(p, "(") THEN level + 1
                                     ELSE IF IsSeparator(p, ")") THEN level - 1 ELSE level)

AfterPresence(p) ==
    IF ~IsText(p) THEN IF p <= Len(tokens) THEN {p} ELSE {}
    ELSE UNION {AfterWords(p, <<w>>) : w \in {"PRESENT", "ABSENT", "OPTIONAL"}}

RECURSIVE AfterEntries(_)
AfterEntries(p) ==
    IF IsSeparator(p, "}") THEN {p + 1}
    ELSE UNION {UNION {IF IsSeparator(r, ",") THEN AfterEntries(r + 1) ELSE After(r, <<"}">>) :
                         r \in UNION {AfterPresence(q) :
                                        q \in IF IsSeparator(name.p, "(")
                                              THEN AfterValueConstraint(name.p + 1, 0)
                                              ELSE {name.p}}} :
                  name \in NextText(p)}

AfterComponentsConstraint(p) ==
    UNION {UNION {AfterEntries(r) :
                    r \in IF IsSeparator(q, ".")
                          THEN {IF IsSeparator(e, ",") THEN e + 1 ELSE e : e \in After(q, Ellipsis)}
                          ELSE {q}} :
             q \in UNION {After(w, <<"{">>) : w \in AfterWords(p, <<"WITH", "COMPONENTS">>)}}

MaybeComponentsConstraint(p) ==
    IF IsSeparator(p, "(")
    THEN UNION {After(q, <<")">>) : q \in AfterComponentsConstraint(p + 1)}
    ELSE {p}

-----------------------------------------------------------------------------
(* Types *)

RECURSIVE ReadType(_), ComponentsFrom(_, _, _), VariantsFrom(_, _, _), EnumeratedFrom(_, _, _)

\* read_field without the separator behind it.  A value that is no literal
\* is the name of one.
ReadDefault(p) ==
    IF StartsLiteral(p) THEN Map(ReadLiteral(p), Lit) ELSE Map(NextText(p), Ref)

Role(tag, type, default) == [tag |-> tag, type |-> type, default |-> default]
Optional(type) == [type |-> "OPTIONAL", of |-> type]

\* Mutant: the word is consumed and forgotten.
FieldRoleForgotten(tag, r) ==
    IF IsWord(r.p, "OPTIONAL") THEN Got(Role(tag, r.v, {}), r.p + 1)
    ELSE IF IsWord(r.p, "DEFAULT")
    THEN Map(ReadDefault(r.p + 1), LAMBDA d : Role(tag, r.v, {d}))
    ELSE Got(Role(tag, r.v, {}), r.p)
FieldRole(tag, r) ==
    IF IsWord(r.p, "OPTIONAL") THEN Got(Role(tag, Optional(r.v), {}), r.p + 1)
    ELSE IF IsWord(r.p, "DEFAULT")
    THEN Map(ReadDefault(r.p + 1), LAMBDA d : Role(tag, r.v, {d}))
    ELSE Got(Role(tag, r.v, {}), r.p)

ReadField(p) ==
    UNION {UNION {UNION {Map(FieldRole(t.v, r), LAMBDA role : [name |-> name.v, role |-> role]) :
                           r \in ReadType(t.p)} :
                    t \in OptTag(name.p)} : name \in NextText(p)}

\* ComponentTypeList::try_from behind its brace.  A brace may follow a comma;
\* an extension marker replaces the one before and may be the first entry.
ComponentsFrom(p, fields, extensionAfter) ==
    LET list == [fields |-> fields, extensionAfter |-> extensionAfter]
    IN  IF IsSeparator(p, "}") THEN Got(list, p + 1)
        ELSE Continued(
               IF IsSeparator(p, ".")
               THEN {[v |-> [list EXCEPT !.extensionAfter =
                               {IF fields = <<>> THEN 0 ELSE Len(fields) - 1}],
                      p |-> q] : q \in After(p, Ellipsis)}
               ELSE {[v |-> [list EXCEPT !.fields = Append(fields, f.v)], p |-> f.p] :
                       f \in ReadField(p)},
               LAMBDA l, q : ComponentsFrom(q, l.fields, l.extensionAfter))

\* read_sequence_or_sequence_of and read_set_or_set_of
ReadListOrListOf(p, kind) ==
    UNION {IF IsWord(s.p, "OF")
           THEN Map(ReadType(s.p + 1), LAMBDA t : [type |-> kind \o " OF", of |-> t, size |-> s.v])
           ELSE UNION {Map(ComponentsFrom(q, <<>>, {}),
                           LAMBDA l : [type |-> kind, fields |-> l.fields,
                                       extensionAfter |-> l.extensionAfter]) :
                         q \in After(s.p, <<"{">>)} :
             s \in MaybeSize(p)}

\* The one place for an extension marker among variants: behind the first.
Marker(p, list) ==
    IF list.variants = <<>> \/ list.extensionAfter # {} THEN {}
    ELSE {[v |-> [list EXCEPT !.extensionAfter = {Len(list.variants) - 1}], p |-> q] :
            q \in After(p, Ellipsis)}

ReadVariant(p) ==
    UNION {UNION {Map(ReadType(t.p), LAMBDA r : [name |-> name.v, tag |-> t.v, of |-> r]) :
                    t \in OptTag(name.p)} : name \in NextText(p)}

\* Choice::try_from behind its brace
VariantsFrom(p, variants, extensionAfter) ==
    LET list == [type |-> "CHOICE", variants |-> variants, extensionAfter |-> extensionAfter]
    IN  Continued(IF IsSeparator(p, ".") THEN Marker(p, list)
                  ELSE {[v |-> [list EXCEPT !.variants = Append(variants, r.v)], p |-> r.p] :
                          r \in ReadVariant(p)},
                  LAMBDA l, q : VariantsFrom(q, l.variants, l.extensionAfter))

ReadEnumeratedVariant(p) ==
    UNION {IF IsSeparator(name.p, "(")
           THEN IF IsText(name.p + 1)
                THEN {[v |-> [name |-> name.v, number |-> {n}], p |-> q] :
                        n \in ParseU64(tokens[name.p + 1].text), q \in After(name.p + 2, <<")">>)}
                ELSE {}
           ELSE Got([name |-> name.v, number |-> {}], name.p) : name \in NextText(p)}

\* Enumerated::try_from behind its brace
EnumeratedFrom(p, variants, extensionAfter) ==
    LET list == [type |-> "ENUMERATED", variants |-> variants, extensionAfter |-> extensionAfter]
    IN  Continued(IF IsSeparator(p, ".") THEN Marker(p, list)
                  ELSE {[v |-> [list EXCEPT !.variants = Append(variants, r.v)], p |-> r.p] :
                          r \in ReadEnumeratedVariant(p)},
                  LAMBDA l, q : EnumeratedFrom(q, l.variants, l.extensionAfter))

StringWords == {"UTF8String", "IA5String", "NumericString", "PrintableString", "VisibleString"}

\* read_role_given_text.  What is none of these words is a reference.
ReadType(p) ==
    IF ~IsText(p) THEN {}
    ELSE IF IsWord(p, "INTEGER") THEN ReadInteger(p + 1)
    ELSE IF IsWord(p, "BOOLEAN") THEN Got([type |-> "BOOLEAN"], p + 1)
    ELSE IF IsWord(p, "NULL") THEN Got([type |-> "NULL"], p + 1)
    ELSE IF \E w \in StringWords : IsWord(p, w)
    THEN Map(MaybeSize(p + 1), LAMBDA s :
             [type |-> "STRING", charset |-> CHOOSE w \in StringWords : IsWord(p, w), size |-> s])
    ELSE IF IsWord(p, "OCTET")
    THEN UNION {Map(MaybeSize(q), LAMBDA s : [type |-> "OCTET STRING", size |-> s]) :
                  q \in AfterWords(p + 1, <<"STRING">>)}
    ELSE IF IsWord(p, "BIT")
    THEN UNION {ReadBitString(q) : q \in AfterWords(p + 1, <<"STRING">>)}
    ELSE IF IsWord(p, "ENUMERATED")
    THEN UNION {EnumeratedFrom(q, <<>>, {}) : q \in After(p + 1, <<"{">>)}
    ELSE IF IsWord(p, "CHOICE")
    THEN UNION {VariantsFrom(q, <<>>, {}) : q \in After(p + 1, <<"{">>)}
    ELSE IF IsWord(p, "SEQUENCE") THEN ReadListOrListOf(p + 1, "SEQUENCE")
    ELSE IF IsWord(p, "SET") THEN ReadListOrListOf(p + 1, "SET")
    ELSE {[v |-> [type |-> "REFERENCE", name |-> tokens[p].text], p |-> q] :
            q \in MaybeComponentsConstraint(p + 1)}
=============================================================================
