---------------------------- MODULE MCAsnFrontend ----------------------------
(* Texts: what is written for a few hundred models, in one layout each and in *)
(* many for one of them; modules with a token missing, doubled, exchanged or  *)
(* replaced; and all short texts of the characters that make comments.        *)
EXTENDS AsnFrontend

A == <<"a">>
B == <<"b", "-", "c">>
T == <<"T">>

Bounds == {<<{}, {}, FALSE>>, <<{Lit(0)}, {Lit(7)}, FALSE>>, <<{Lit(-8)}, {}, TRUE>>,
           <<{}, {Ref(B)}, FALSE>>, <<{Ref(A)}, {Lit(5)}, TRUE>>, <<{}, {}, TRUE>>,
           <<{Lit(5)}, {}, FALSE>>, <<{Lit(0)}, {Ref(A)}, TRUE>>}
Sizes == {AnySize, FixSize(Lit(0), FALSE), FixSize(Lit(3), TRUE), FixSize(Ref(A), FALSE),
          RangeSize(Lit(0), Lit(10), FALSE), RangeSize(Lit(1), Lit(MaxI64), TRUE),
          RangeSize(Ref(A), Ref(B), TRUE), RangeSize(Lit(2), Ref(B), FALSE)}

Reference(n) == [type |-> "REFERENCE", name |-> n]
Boolean == [type |-> "BOOLEAN"]
Plain == {Boolean, [type |-> "NULL"], Reference(T)}
Integers == {[type |-> "INTEGER", range |-> r, constants |-> c] :
               r \in Bounds, c \in {<<>>, <<<<A, -3>>, <<B, 5>>>>}}
Sized == {[type |-> "STRING", charset |-> "UTF8String", size |-> s] : s \in Sizes}
         \cup {[type |-> "STRING", charset |-> w, size |-> FixSize(Lit(1), FALSE)] : w \in StringWords}
         \cup {[type |-> "OCTET STRING", size |-> s] : s \in Sizes}
         \cup {[type |-> "BIT STRING", size |-> s, constants |-> c] :
                 s \in {AnySize, FixSize(Lit(3), TRUE)}, c \in {<<>>, <<<<A, 12>>>>}}
         \cup {[type |-> k, of |-> t, size |-> s] : k \in {"SEQUENCE OF", "SET OF"}, s \in Sizes,
                 t \in {Boolean, [type |-> "INTEGER", range |-> <<{Lit(0)}, {Lit(7)}, FALSE>>,
                                  constants |-> <<>>]}}
Enumerateds == {[type |-> "ENUMERATED", variants |-> vs, extensionAfter |-> e] :
    vs \in {<<[name |-> A, number |-> {}], [name |-> B, number |-> {}]>>,
            <<[name |-> A, number |-> {15}], [name |-> B, number |-> {}]>>,
            <<[name |-> A, number |-> {1}], [name |-> B, number |-> {0}]>>},
    e \in {{}, {0}, {1}}}

Tags == {{}, {[class |-> "", number |-> 3]}, {[class |-> "PRIVATE", number |-> 0]},
         {[class |-> "UNIVERSAL", number |-> 12]}, {[class |-> "APPLICATION", number |-> 1]}}

ChoiceTypes == {[type |-> "CHOICE", extensionAfter |-> e,
             variants |-> <<[name |-> A, tag |-> g, of |-> t], [name |-> B, tag |-> {}, of |-> u]>>] :
    e \in {{}, {0}, {1}}, g \in Tags,
    t \in {Boolean, [type |-> "INTEGER", range |-> <<{}, {Lit(3)}, FALSE>>, constants |-> <<>>]},
    u \in {[type |-> "NULL"]} \cup {CHOOSE t \in Enumerateds : TRUE}}

\* Strings as the tokens give them back: not empty, no blank at either end.
Literals == {[boolean |-> TRUE], [boolean |-> FALSE], [integer |-> -8], [integer |-> 7],
             [string |-> <<"x">>], [string |-> <<"x", " ", " ", "y", ".", "z">>],
             [string |-> <<"x", "{", " ", "}">>],
             [octets |-> <<>>], [octets |-> <<1, 255>>], [octets |-> <<171>>]} \ {[octets |-> <<>>]}

Roles == {Role(g, t, {}) : g \in Tags, t \in {Boolean, Optional(Boolean), Optional(Reference(T))}}
         \cup {Role(g, [type |-> "OCTET STRING", size |-> AnySize], {Lit(v)}) :
                 g \in {{}, {[class |-> "", number |-> 3]}}, v \in Literals}
         \cup {Role({}, Reference(T), {Ref(B)})}
Lists == {[type |-> k, fields |-> fs, extensionAfter |-> e] : k \in {"SEQUENCE", "SET"},
            e \in {{}, {0}, {1}},
            fs \in {<<[name |-> A, role |-> r], [name |-> B, role |-> Role({}, t, {})]>> :
                      r \in Roles, t \in {[type |-> "NULL"]}}}
         \cup {[type |-> "SEQUENCE", fields |-> <<>>, extensionAfter |-> e] : e \in {{}}}
         \cup {[type |-> "SEQUENCE", extensionAfter |-> {},
                fields |-> <<[name |-> A, role |-> Role({}, t, {})]>>] :
                 t \in Enumerateds \cup {CHOOSE c \in ChoiceTypes : c.extensionAfter = {1}}}

Module(imports, definitions, values) ==
    [name |-> <<"M">>, oid |-> {}, imports |-> imports,
     definitions |-> definitions, values |-> values]
Define(t) == Module(<<>>, <<<<T, t>>>>, <<>>)
Value(t, v) == [name |-> A, role |-> Role({}, t, {}), value |-> v]

Oid == {<<[number |-> 1], [name |-> A], [name |-> B, number |-> 4]>>}
Imported == <<[what |-> <<T, A>>, from |-> <<"N">>, oid |-> {}],
              [what |-> <<B>>, from |-> <<"O">>, oid |-> Oid]>>

Whole == [Module(Imported, <<<<T, Role({}, Boolean, {})>>,
                             <<<<"U">>, Role({[class |-> "", number |-> 3]}, Reference(T), {})>>>>,
                 <<Value(Boolean, [boolean |-> TRUE]),
                   Value(Reference(T), [string |-> <<"x", " ", "y">>])>>) EXCEPT !.oid = Oid]


Models ==
    {Define(Role({}, t, {})) : t \in Plain \cup Integers \cup Sized \cup Enumerateds \cup ChoiceTypes \cup Lists}
    \cup {Define(Role(g, t, {})) : g \in Tags, t \in Plain \cup {CHOOSE l \in Lists : TRUE}}
    \cup {Module(<<>>, <<>>, <<Value(Boolean, v)>>) : v \in Literals}
    \cup {Whole}

-----------------------------------------------------------------------------

\* A line of these words with this between each two.
RECURSIVE Laid(_, _)
Laid(words, gap) ==
    IF words = <<>> THEN <<>> ELSE words[1] \o gap \o Laid(Tail(words), gap)

\* Every word on a line of its own, the last character of each before a comment.
Lines(words, end) == [i \in 1 .. Len(words) |-> words[i] \o end]

\* Lines of a few words each.
FewALine(words) ==
    [l \in 1 .. ((Len(words) + 5) \div 6) |->
       Laid(SubSeq(words, 6 * l - 5, IF 6 * l <= Len(words) THEN 6 * l ELSE Len(words)), <<" ">>)]

Layouts(words) ==
    {<<Laid(words, g)>> : g \in {<<"tab", " ">>, <<" ", "/", "*", "-", "x", " ", "*", "/", " ">>,
                                 <<"/", "*", "/", "cr">>}}
    \cup {Lines(words, e) : e \in {<<>>, <<"-", "-", "x">>, <<" ", "/", "*", "END", "*", "/">>,
                                   <<"NUL">>}}
    \cup {Laid([i \in 1 .. Len(words) |-> <<words[i] \o <<"/", "*", "x">>,
                                            <<"-", "-", "*", "/">>, <<"*", "*", "/", "-", "-">>>>],
               <<>>)}

Written ==
    {<<FewALine(ModuleWords(m)), m>> : m \in Models}
    \cup {<<l, Whole>> : l \in Layouts(ModuleWords(Whole))}

MCMeaning ==
    LET all == Written IN [t \in {w[1] : w \in all} |-> (CHOOSE w \in all : w[1] = t)[2]]

\* Modules with one token changed.
Garble(words) ==
    LET at == 1 .. Len(words)
        Others == {Kw(w) : w \in {",", "}", "(", ".", "[", "x", "5", "SIZE", "MAX", "End",
                                  "Choice"}}
    IN  {RemoveAt(words, i) : i \in at}
        \cup {SubSeq(words, 1, i) : i \in at}
        \cup {InsertAt(words, i, words[i]) : i \in at}
        \cup {[words EXCEPT ![i] = words[i + 1], ![i + 1] = words[i]] : i \in 1 .. Len(words) - 1}
        \cup {ReplaceAt(words, i, o[1]) : i \in at, o \in Others}

N(k) == <<k>>
\* Every kind of reader once, with a name of its own at every place.
Base1 == ModuleWords(Module(<<>>,
    <<<<N("D"), Role({[class |-> "PRIVATE", number |-> 2]},
        [type |-> "SEQUENCE", extensionAfter |-> {0}, fields |->
           <<[name |-> N("f"), role |-> Role({[class |-> "", number |-> 3]},
                [type |-> "INTEGER", constants |-> <<<<N("g"), 1>>>>,
                 range |-> <<{Lit(2)}, {Ref(N("h"))}, TRUE>>], {Ref(N("i"))})],
             [name |-> N("j"), role |-> Role({}, Optional(
                [type |-> "OCTET STRING", size |-> RangeSize(Lit(1), Ref(N("k")), FALSE)]), {})]>>], {})>>>>,
    <<[name |-> N("v"), role |-> Role({}, Reference(N("V")), {}), value |-> [integer |-> 4]]>>))
Base2 == ModuleWords(Module(<<[what |-> <<N("p")>>, from |-> N("Q"), oid |-> {}]>>,
    <<<<N("E"), Role({}, [type |-> "CHOICE", extensionAfter |-> {0}, variants |->
         <<[name |-> N("l"), tag |-> {[class |-> "", number |-> 1]},
            of |-> [type |-> "ENUMERATED", extensionAfter |-> {0}, variants |->
                      <<[name |-> N("m"), number |-> {6}], [name |-> N("n"), number |-> {}]>>]],
           [name |-> N("o"), tag |-> {}, of |->
              [type |-> "SEQUENCE OF", of |-> Reference(N("R")), size |-> FixSize(Ref(N("s")), FALSE)]]>>], {})>>>>,
    <<>>))
\* A constraint that is read and dropped.
Base3 == Kw("M") \o Kw("BEGIN") \o Kw("D") \o Assigned \o Kw("R") \o Kw("(") \o Kw("WITH")
         \o Kw("COMPONENTS") \o Braced(Marked \o Comma \o Kw("f") \o Parenthesised(Kw("5"))
                                       \o Kw("PRESENT") \o Comma \o Kw("g") \o Kw("ABSENT"))
         \o Kw(")") \o Kw("END")

Garbled == {FewALine(w) : w \in Garble(Base1) \cup Garble(Base2) \cup Garble(Base3)}

Short == UNION {[1 .. n -> {"/", "*", "-", "x", "NUL", " ", "."}] : n \in 0 .. 4}
ShortTexts == {<<s>> : s \in Short} \cup {<<s, <<"x", "*", "/", "y">>>> : s \in [1 .. 3 -> {"/", "*", "-", "x"}]}

MCTexts == {w[1] : w \in Written} \cup Garbled \cup ShortTexts

MCOtherCase == {<<"NULL", <<"Null">>>>, <<"CHOICE", <<"Choice">>>>, <<"END", <<"End">>>>}
=============================================================================
