------------------------------ MODULE MCSqlStore ------------------------------
(* Schemas with a type Top of one or two parts of every kind and the types it *)
(* refers to, before or behind it, and schemas for each limit that is stated. *)
EXTENDS SqlStore

Part(name, of, to, opt, list) ==
    [name |-> name, of |-> of, to |-> to, opt |-> opt, list |-> list]
Struct(name, parts) == [name |-> name, kind |-> "struct", parts |-> parts]
Choice(name, parts) == [name |-> name, kind |-> "choice", parts |-> parts]
Tuple(name, part) == [name |-> name, kind |-> "tuple", parts |-> <<part>>]
Enum(name) == [name |-> name, kind |-> "enum", variants |-> 2]

A == <<"a", "">>  B == <<"b", "">>  C == <<"c", "">>
Number(name) == Part(name, "int4", <<>>, FALSE, FALSE)
One(name, to) == Part(name, "ref", to, FALSE, FALSE)
Many(name, to) == Part(name, "ref", to, FALSE, TRUE)

TopName == <<<<"T", "op">>>>     EnumName == <<<<"C", "olor">>>>
PointName == <<<<"P", "oint">>>> PairName == <<<<"P", "air">>>>
MixName == <<<<"M", "ix">>>>     NumName == <<<<"N", "um">>>>
ListName == <<<<"L", "ines">>>>  AgeName == <<<<"A", "ge">>>>

Point == Struct(PointName, <<Number(A)>>)
Pair == Struct(PairName, <<One(A, PointName), One(B, EnumName)>>)
Mix == Choice(MixName, <<Part(A, "bytes", <<>>, FALSE, FALSE), One(B, PointName),
                         Part(C, "null", <<>>, FALSE, FALSE)>>)
Num == Choice(NumName, <<Number(A), One(B, PointName), Part(C, "text", <<>>, FALSE, FALSE)>>)
Lines == Tuple(ListName, Many(A, PointName))
Age == Tuple(AgeName, Number(A))

\* Names beyond the limit: a list of a type with a name of 70 letters; two
\* types whose trigger functions get one name.
Long(first) ==
    <<<<"T", first>>, <<"Q", "uick">>, <<"B", "rown">>, <<"F", "ox">>, <<"J", "umps">>,
      <<"O", "ver">>, <<"T", "he">>, <<"L", "azy">>, <<"D", "og">>, <<"T", "he">>,
      <<"Q", "uick">>, <<"B", "rown">>, <<"F", "ox">>, <<"J", "umps">>, <<"O", "ver">>,
      <<"T", "he">>>>
LongName == Long("he") \o <<<<"L", "azy">>, <<"D", "og">>>>

Leaf(n) == <<<<n>>, <<>>>>
PointOf(n) == <<<<n>>>>

\* Elements of each type.
ValuesOf(to) ==
    CASE to = EnumName  -> {0, 1}
      [] to = PointName -> {PointOf(1), PointOf(2)}
      [] to = PairName  -> {<<<<PointOf(1)>>, <<1>>>>}
      [] to = MixName   -> {<<<<7>>, <<>>, <<>>>>, <<<<>>, <<PointOf(2)>>, <<>>>>,
                            <<<<>>, <<>>, <<0>>>>}
      [] to = NumName   -> {<<<<>>, <<PointOf(2)>>, <<>>>>, <<<<>>, <<>>, <<5>>>>}
      [] to = ListName  -> {<<<<PointOf(1), PointOf(1)>>>>}
      [] to = AgeName   -> {<<<<3>>>>}
      [] to = LongName  -> {<<<<PointOf(1)>>>>}
      [] to = TopName   -> {Leaf(2), <<<<2>>, <<Leaf(3)>>>>}
      [] OTHER          -> {1, 2}

PartValues(part) ==
    LET elements == IF part.of = "null" THEN {0} ELSE ValuesOf(part.to)
        first == CHOOSE e \in elements : TRUE
    IN  IF part.list
        THEN {<<>>} \cup {<<first, e>> : e \in elements}
        ELSE (IF part.opt THEN {<<>>} ELSE {})
             \cup {<<e>> : e \in IF part.of = "ref" THEN elements ELSE {first}}

ValuesOfTop(s) ==
    LET parts == (CHOOSE t \in ToSet(s.types) : t.name = s.top).parts
    IN  IF Len(parts) = 1 THEN {<<v>> : v \in PartValues(parts[1])}
        ELSE {<<v, w>> : v \in PartValues(parts[1]), w \in PartValues(parts[2])}

TypeList == <<Enum(EnumName), Point, Pair, Mix, Num, Lines, Age>>

Used(top) ==
    LET direct(ts) == UNION {{p.to : p \in {p \in ToSet(t.parts) : p.of = "ref"}} :
                             t \in {t \in ts : t.kind # "enum"}}
        named(ns) == {t \in ToSet(TypeList) : t.name \in ns}
        first == named(direct({top}))
    IN  first \cup named(direct(first))

WithTop(top) ==
    {[top |-> top.name, types |-> types] :
        types \in {<<top>> \o SelectSeq(TypeList, LAMBDA t : t \in Used(top)),
                   Reverse(SelectSeq(TypeList, LAMBDA t : t \in Used(top))) \o <<top>>,
                   <<top>> \o Reverse(SelectSeq(TypeList, LAMBDA t : t \in Used(top)))}}

Kinds == {<<"int4", <<>>>>, <<"text", <<>>>>, <<"null", <<>>>>} \cup
         {<<"ref", n>> : n \in {EnumName, PointName, PairName, MixName, NumName, ListName, AgeName}}

PartsNamed(name) ==
    {p \in {Part(name, k[1], k[2], opt, list) : k \in Kinds, opt \in BOOLEAN, list \in BOOLEAN} :
        p.opt => p.of # "null" /\ ~p.list}

OnePart == UNION {WithTop(Struct(TopName, <<p, Number(B)>>)) : p \in PartsNamed(A)}

TwoParts ==
    UNION {WithTop(Struct(TopName, <<p, q>>)) :
            p \in {One(A, PairName), Many(A, EnumName), One(A, ListName)},
            q \in {One(B, EnumName), Many(B, PointName)}}

\* A type that lists itself, and two that refer to each other.
NodeName == <<<<"N", "ode">>>>
Trees == {[top |-> TopName, types |-> <<Struct(TopName, <<Number(A), Many(B, TopName)>>)>>]}
Circle ==
    {[top |-> TopName,
      types |-> <<Struct(TopName, <<Part(A, "ref", NodeName, TRUE, FALSE)>>),
                  Struct(NodeName, <<Part(A, "ref", TopName, TRUE, FALSE)>>)>>]}

\* A list of a type that refers to a type with the name of the list's entries,
\* where the walk does not end, and a list whose entries are named as the
\* trigger function of another type, in every order of the types.
AName == <<<<"A", "">>>>
DelChilds == <<<<"D", "el">>, <<"C", "hilds">>>>
Crossed ==
    LET entries == TupleEntryName(TopName)
        types == <<Struct(AName, <<One(A, PointName)>>), Struct(DelChilds, <<Many(A, NodeName)>>),
                   Point, Struct(NodeName, <<Number(A)>>)>>
    IN  {[top |-> TopName,
          types |-> <<Tuple(TopName, Many(A, PairName)), Struct(PairName, <<One(A, entries)>>),
                      Struct(entries, <<>>)>>]}
        \cup {[top |-> AName, types |-> [i \in 1 .. 4 |-> types[order[i]]]] :
                order \in Permutations(1 .. 4)}

\* A choice with a list, one with an alternative id, a type with the name of
\* the entries of another one.
Rejected ==
    {[top |-> t.name, types |-> <<t>>] :
        t \in {Choice(TopName, <<Part(A, "int4", <<>>, FALSE, TRUE)>>),
               Choice(TopName, <<Number(FOREIGN_KEY_DEFAULT_COLUMN)>>)}}
    \cup {[top |-> PointName,
           types |-> <<Lines, Point, Struct(TupleEntryName(ListName), <<>>)>>]}

ASSUME CarvedAsTested ==
    /\ Size(LongName) = 70
    /\ Carved(LongName) = CarvedBefore(LongName, 4)
    /\ LET twenty == "abcdefghijklmnopqrst"
       IN  Carved(<<<<"T", twenty \o twenty \o twenty \o twenty>>>>) = <<<<"T", "">>>>

LongNames ==
    {[top |-> TopName,
      types |-> <<Point, Struct(LongName, <<q>>), Struct(TopName, <<Number(B), p>>)>>] :
        p \in {Many(A, LongName), One(A, LongName)}, q \in {One(A, PointName), Number(A)}}
    \cup {[top |-> Long("he"),
           types |-> <<Struct(Long("he"), <<One(A, PointName)>>),
                       Struct(Long("ho"), <<One(B, PointName)>>), Point>>]}

AllSchemas == OnePart \cup TwoParts \cup Trees \cup Circle \cup Crossed \cup Rejected \cup LongNames
=============================================================================
