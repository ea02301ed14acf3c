---------------------------- MODULE MCSchemaMeaning ----------------------------
(* Small schemas, each about one way in which names, tags and additions meet. *)
EXTENDS SchemaMeaning

Plain(tag) == [kind |-> "plain", tag |-> tag, needs |-> <<>>]
Bounded(tag, wants, name) ==
    [kind |-> "plain", tag |-> tag,
     needs |-> <<[wants |-> wants, name |-> name, through |-> NoName]>>]
Ref(name) == [kind |-> "reference", to |-> name]
Enum(items) == [kind |-> "enumerated", tag |-> Universal(10), items |-> items]
ChoiceOf(of, roots) == [kind |-> "choice", of |-> of, roots |-> roots]
SetOf(of, roots) == [kind |-> "set", tag |-> Universal(17), of |-> of, roots |-> roots]
Component(tag, type) == [tag |-> tag, type |-> type, default |-> NoName]
Bool == Plain(Universal(1))
Number == Plain(Universal(2))

Def(name, tag, type) == [name |-> name, tag |-> tag, type |-> type]
Const(name, v) == [name |-> name, integer |-> TRUE, v |-> v, needs |-> <<>>]
Module(name, oid, imports, values, definitions) ==
    [name |-> name, oid |-> oid, imports |-> imports, values |-> values,
     definitions |-> definitions]
Import(what, from, oid) == [what |-> what, from |-> from, fromOid |-> oid]

-----------------------------------------------------------------------------
(* Three modules that declare the value n and the type T or not, and import
   both from each other or not.  The first one has a SET that needs them. *)

Imports == [1..3 -> 0..3]
Declaring == SUBSET (1..3)

\* How modules are named, and imports name them.
NamingModules ==
    {"names", "identifiers", "renamed", "clash", "crossed", "unknown", "doubled", "twins"}
NameOf(how, m) == IF how = "clash" /\ m = 3 THEN "B" ELSE <<"A", "B", "C">>[m]
OidOf(how, m) ==
    CASE how = "names" -> NoOid [] how = "twins" /\ m = 3 -> 2 [] OTHER -> m
ImportOf(how, m) ==
    Import({"n", "T"},
           CASE how = "renamed" -> "Z" [] how = "crossed" -> NameOf(how, (m % 3) + 1)
             [] OTHER -> NameOf(how, m),
           IF how = "unknown" THEN 9 ELSE OidOf(how, m))

User == Def("S", NoTag,
    SetOf(<<Component(Application(3), Bounded(Universal(2), "integer", "n")),
            [tag |-> NoTag, type |-> Ref("T"), default |-> "n"]>>, 2))

Importing(how, declaring, from) ==
    [m \in 1..3 |->
        Module(NameOf(how, m), OidOf(how, m),
            (IF from[m] = 0 THEN <<>> ELSE <<ImportOf(how, from[m])>>)
            \o (IF how = "doubled" /\ m = 1 THEN <<ImportOf(how, 3)>> ELSE <<>>),
            IF m \in declaring THEN <<Const("n", m)>> ELSE <<>>,
            (IF m \in declaring THEN <<Def("T", Application(2 * m), Number)>> ELSE <<>>)
            \o (IF m = 1 THEN <<User>> ELSE <<>>))]

Imported == {Importing(how, declaring, from) :
    how \in NamingModules, declaring \in Declaring,
    from \in {f \in Imports : \A m \in 1..3 : f[m] # m}}

-----------------------------------------------------------------------------
(* One module with three types that refer to each other. *)

TypesOver(names) ==
    {<<NoTag, Number>>, <<Application(4), Number>>}
    \cup {<<NoTag, Ref(n)>> : n \in names}
    \cup {<<NoTag, ChoiceOf(<<Component(Private(1), Bool),
                              Component(NoTag, Ref(n))>>, 2)>> : n \in names}
    \cup {<<NoTag, ChoiceOf(<<Component(NoTag, Ref(n)),
                              Component(NoTag, Bool)>>, 1)>> : n \in names}

Among == {"T1", "T2", "T3", "missing"}

Mixed == SetOf(<<Component(ContextSpecific(2), Number), Component(NoTag, Ref("T1")),
                 Component(NoTag, Ref("T2"))>>, 2)

Referring == {<<Module("A", NoOid, <<>>, <<>>,
                 <<Def("S", NoTag, Mixed), Def("T1", t1[1], t1[2]),
                   Def("T2", t2[1], t2[2]), Def("T3", t3[1], t3[2])>>)>> :
    t1 \in TypesOver(Among), t2 \in TypesOver({"T3", "T1"}), t3 \in TypesOver({"T1"})}

-----------------------------------------------------------------------------
(* SETs of four components, tagged and extended in every way. *)

OwnTags == {NoTag, ContextSpecific(0), ContextSpecific(1), Application(3)}
Extended == {<<Module("A", NoOid, <<>>, <<>>, <<Def("S", NoTag,
                SetOf(<<Component(a, Number), Component(b, Bool), Component(c, Number),
                        Component(d, Bool)>>, roots))>>)>> :
    a, b, c, d \in OwnTags, roots \in 1..4}

-----------------------------------------------------------------------------
(* Defaults that name a value, an item, or both, bounds that are no numbers,
   and sizes. *)

Valued(value, type, default) ==
    <<Module("A", NoOid, <<>>, value, <<
        Def("E", NoTag, type),
        Def("S", NoTag, SetOf(<<[tag |-> NoTag, type |-> Ref("E"), default |-> default],
                                Component(NoTag, Number)>>, 2))>>)>>

Values == {<<>>, <<Const("n", 5)>>, <<Const("n", -5)>>,
           <<[name |-> "n", integer |-> FALSE, v |-> 7, needs |-> <<>>]>>,
           <<[name |-> "m", integer |-> TRUE, v |-> 7,
              needs |-> <<[wants |-> "integer", name |-> "n", through |-> NoName]>>],
             Const("n", 1)>>}

Defaults == {Valued(value, type, default) : value \in Values, default \in {NoName, "n"},
    type \in {Enum({"m", "o"}), Enum({"n"}), Number, Bounded(Universal(2), "integer", "n"),
              Bounded(Universal(4), "size", "n")}}

AllPrograms == Imported \cup Referring \cup Extended \cup Defaults
=============================================================================
