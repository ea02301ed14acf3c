----------------------------- MODULE MCRustCodegen -----------------------------
(***************************************************************************)
(* Schemas of two modules: every kind of type in every role, components    *)
(* in every order of their tags, markers in every place, and names whose   *)
(* letters are hard to tell apart.                                         *)
(***************************************************************************)
EXTENDS RustCodegen

\* Names
A == <<"A">>
B == <<"B">>
Colour == <<"C","o","l">>
Far == <<"F","a","r">>
Gone == <<"G">>
f == <<"f">>
g == <<"g">>
h == <<"h">>
TheReservedWords == {<<"i","n">>, <<"s","e","l","f">>, <<"S","e","l","f">>}

FieldNames ==
    {<<"a">>, <<"a","B">>, <<"a","-","b">>, <<"a","B","C">>, <<"a","-","b","C","d">>, <<"a","1">>,
     <<"a","-","1">>, <<"t","y","p","e">>, <<"i","n">>, <<"s","e","l","f">>, <<"u","s","e">>,
     <<"a","-","v","a","l","u","e","s">>}
TypeNames == {<<"A">>, <<"A","B">>, <<"A","b">>, <<"A","-","b","C">>, <<"A","B","c">>, <<"T","2">>}

\* Types
Boolean == [k |-> "boolean"]
Null == [k |-> "null"]
IntOf(min, max, ext, constants) ==
    [k |-> "integer", min |-> min, max |-> max, ext |-> ext, constants |-> constants]
Named(name, value) == [name |-> name, value |-> value]
AnyInteger == IntOf({}, {}, FALSE, <<>>)
SmallInt == IntOf({0}, {7}, TRUE, <<Named(<<"l","o">>, 0)>>)
SignedInt == IntOf({-3}, {5}, FALSE, <<>>)
Size(min, max, ext) == {[min |-> min, max |-> max, ext |-> ext]}
Text1(charset, size) == [k |-> "string", charset |-> charset, size |-> size]
Octets(size) == [k |-> "octets", size |-> size]
Bits(size, constants) == [k |-> "bits", size |-> size, constants |-> constants]
Ref(name) == [k |-> "reference", to |-> name, tag |-> {}]
ListOf(type, size) == [k |-> "sequence_of", of |-> type, size |-> size]
BagOf(type, size) == [k |-> "set_of", of |-> type, size |-> size]
Enumerated(names, ext) == [k |-> "enumerated", members |-> names, ext |-> ext]
Comp(name, tag, type, default) == [name |-> name, tag |-> tag, type |-> type, default |-> default]
Struct(k, members, ext) == [k |-> k, members |-> members, ext |-> ext]
Opt(type) == [k |-> "optional", of |-> type]

Plain == {Boolean, Null, AnyInteger, SmallInt, SignedInt, Text1("utf8", {}), Text1("ia5", Size(1, 3, TRUE)),
          Octets(Size(2, 2, TRUE)), Bits(Size(1, 4, FALSE), <<Named(<<"b","-","0">>, 1)>>)}
Refs == {Ref(B), Ref(Colour), Ref(Far), Ref(Gone)}
Inline == {Enumerated(<<f, g>>, {1}),
           Struct("sequence", <<Comp(f, {}, Boolean, {}), Comp(g, {}, Opt(Ref(B)), {})>>, {1}),
           Struct("choice", <<Comp(f, {}, Boolean, {}), Comp(g, {}, Ref(B), {})>>, {}),
           Struct("sequence", <<>>, {1})}
Lists == {ListOf(t, Size(0, 2, FALSE)) : t \in {SmallInt, Ref(B), ListOf(Boolean, {}), Enumerated(<<f>>, {})}}
         \cup {BagOf(t, {}) : t \in {Boolean, Ref(Far), Struct("sequence", <<Comp(f, {}, Null, {})>>, {})}}
Deeper ==
    {Struct(k, <<Comp(f, {}, t, {}), Comp(g, {}, Opt(t), {})>>, ext) :
        k \in {"sequence", "set", "choice"}, ext \in {{}, {1}}, t \in Inline \cup {Ref(B)}}
Types == Plain \cup Refs \cup Inline \cup Lists

Literal(lit, v, path) == [lit |-> lit, v |-> v, path |-> path]
Defaults ==
    {<<Boolean, Literal("boolean", "true", <<>>)>>, <<SignedInt, Literal("integer", "-3", <<>>)>>,
     <<Text1("utf8", {}), Literal("string", "text", <<>>)>>,
     <<Octets({}), Literal("octets", "00", <<>>)>>,
     <<Ref(Far), Literal("integer", "3", <<>>)>>,
     <<Ref(Colour), Literal("variant", "", <<Colour, <<"a","-","b">>>>)>>}

Context5 == <<CONTEXT, 5>>
Private1 == <<PRIVATE, 1>>

\* A type in a field that may be optional, tagged or behind the marker.
InField ==
    {Struct(k, <<Comp(g, {}, Boolean, {}), Comp(f, tag, t, {})>>, ext) :
        k \in {"sequence", "set"}, tag \in {{}, {Context5}}, ext \in {{}, {1}, {2}},
        t \in Types \cup {Opt(t) : t \in Types}}
InDefault ==
    {Struct(k, <<Comp(f, tag, d[1], {d[2]}), Comp(g, {}, Boolean, {})>>, ext) :
        k \in {"sequence", "set"}, tag \in {{}, {Context5}}, d \in Defaults, ext \in {{}, {1}}}
InNested ==
    {Struct(k, <<Comp(f, {}, t, {}), Comp(<<"a","B">>, {}, u, {})>>, {}) :
        k \in {"sequence", "choice"}, t, u \in Deeper}
\* Names side by side.
ByName ==
    {Struct("sequence", <<Comp(m, {}, ListOf(Boolean, {}), {}), Comp(n, {}, t, {})>>, ext) :
        m, n \in FieldNames, ext \in {{}, {1}}, t \in {SmallInt, Enumerated(<<f>>, {})}}
    \cup {Struct("choice", <<Comp(m, {}, Boolean, {}), Comp(n, {}, AnyInteger, {})>>, {1}) :
            m, n \in FieldNames}
    \cup {Enumerated(<<m, n>>, {1}) : m, n \in FieldNames}
\* Components whose tags are in no order.
ByTag ==
    {Struct("set", <<Comp(f, s, t, {}), Comp(g, {}, u, {}), Comp(h, {}, Boolean, {})>>, ext) :
        s \in {{}, {Private1}, {Universal(0)}}, ext \in {{}, {1}, {2}},
        t, u \in {AnyInteger, Ref(B), Ref(Far), Ref(Gone), Null, Opt(SmallInt),
                     Text1("ia5", {}), Opt(Ref(Colour))} \cup Inline}
InChoice ==
    {Struct("choice", <<Comp(f, s, t, {}), Comp(g, {}, u, {})>>, ext) :
        s \in {{}, {Context5}}, ext \in {{}, {1}, {2}}, t, u \in {AnyInteger, Ref(Far), Ref(Gone)} \cup Inline}

\* Modules
FarModule(definition) ==
    [name |-> <<"M","y","-","F","a","r">>, imports |-> <<>>, definitions |-> <<definition>>, values |-> <<>>]
FarAway == [name |-> Far, tag |-> {<<APPLICATION, 1>>}, type |-> SmallInt]
Near(name, tag, type, values) ==
    [name |-> <<"N">>,
     imports |-> <<[what |-> {Far, <<"m","a","x">>}, from |-> <<"M","y","-","F","a","r">>]>>,
     definitions |-> <<[name |-> name, tag |-> tag, type |-> type],
                       [name |-> B, tag |-> {}, type |-> Ref(Colour)],
                       [name |-> Colour, tag |-> {}, type |-> Enumerated(<<f, <<"a","-","b">>>>, {})]>>,
     values |-> values]
SomeValues ==
    <<[name |-> <<"m","y","M","a","x">>, type |-> SmallInt, value |-> Literal("integer", "7", <<>>)],
      [name |-> <<"m","y","B">>, type |-> Ref(B), value |-> Literal("variant", "", <<Colour, f>>)],
      [name |-> <<"l","s">>, type |-> ListOf(Boolean, {}), value |-> Literal("integer", "0", <<>>)]>>

Schema(name, tag, type) == <<Near(name, tag, type, <<>>), FarModule(FarAway)>>
TheSchemas ==
    {Schema(A, {}, t) : t \in InField \cup InNested \cup InDefault \cup ByName \cup ByTag \cup InChoice}
    \cup {Schema(name, tag, t) : name \in TypeNames, tag \in {{}, {Context5}}, t \in Types}
    \cup {<<FarModule(FarAway), Near(A, {}, t, SomeValues)>> : t \in {Boolean, Struct("sequence", <<>>, {1})}}
=============================================================================
