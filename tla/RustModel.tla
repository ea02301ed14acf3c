------------------------------- MODULE RustModel -------------------------------
(***************************************************************************)
(* From a resolved ASN.1 model to the Rust model:                          *)
(* src/asn1rs-model/src/model/rust/mod.rs and tag_resolver.rs.             *)
(*                                                                         *)
(* An Option is the empty set or the set of its value.  A type is a record *)
(* with its kind k; a Rust type has the record of the ASN.1 type it stands *)
(* for where the two carry the same.  A tag is <<class, number>>, classes  *)
(* being numbered in their canonical order.  An extension marker is the    *)
(* number of the component or alternative before it.                       *)
(***************************************************************************)
EXTENDS RustNames, Integers

CONSTANTS
    MaxI64  \* i64::MAX

None == {}
Some(v) == {v}
Value(option) == CHOOSE v \in option : TRUE
Or(option, other) == IF option # None THEN option ELSE other

UNIVERSAL == 0
APPLICATION == 1
CONTEXT == 2
PRIVATE == 3
TagBefore(s, t) == s[1] < t[1] \/ (s[1] = t[1] /\ s[2] < t[2])

\* The tags that kinds of types have of themselves; strings have those of
\* their charset.
DefaultNumber == [boolean |-> 1, integer |-> 2, bits |-> 3, octets |-> 4, null |-> 5,
                  enumerated |-> 10, sequence |-> 16, sequence_of |-> 16,
                  set |-> 17, set_of |-> 17]
CharsetNumber == [utf8 |-> 12, numeric |-> 18, printable |-> 19, ia5 |-> 22, visible |-> 26]
Universal(number) == <<UNIVERSAL, number>>
DefaultTag(type) ==
    Universal(IF type.k = "string" THEN CharsetNumber[type.charset] ELSE DefaultNumber[type.k])

Definitions(model, name) == SelectSeq(model.definitions, LAMBDA d : d.name = name)
Importing(model, name) == SelectSeq(model.imports, LAMBDA i : name \in i.what)

-----------------------------------------------------------------------------
(* Tags of types and names, for types that do not lead to themselves *)

RECURSIVE resolve_tag(_, _, _), resolve_type_tag(_, _, _)

\* How many alternatives or items of a CHOICE or ENUMERATED are in its root.
Roots(members, ext) == IF ext = None THEN Len(members) ELSE Value(ext)

resolve_type_tag(type, model, scope) ==
    CASE type.k \in {"optional", "default"} -> resolve_type_tag(type.of, model, scope)
      [] type.k = "reference" -> Or(type.tag, resolve_tag(type.to, model, scope))
      [] type.k = "choice" ->
           LET tags == [i \in 1 .. Roots(type.members, type.ext) |->
                          Or(type.members[i].tag,
                             resolve_type_tag(type.members[i].type, model, scope))]
               all == UNION Range(tags)
           IN  IF None \in Range(tags) THEN None
               ELSE {t \in all : \A u \in all : ~TagBefore(u, t)}
      [] OTHER -> Some(DefaultTag(type))

resolve_tag(name, model, scope) ==
    LET imports == Importing(model, name)
        found == IF imports = <<>> THEN <<>>
                 ELSE SelectSeq(scope, LAMBDA m : m.name = imports[1].from)
        own == Definitions(model, name)
    IN  Or(IF found = <<>> THEN None ELSE resolve_tag(name, found[1], scope),
           IF own = <<>> THEN None
           ELSE Or(own[1].tag, resolve_type_tag(own[1].type, model, scope)))

NoModel == [imports |-> <<>>, definitions |-> <<>>]
resolve_default(type) == resolve_type_tag(type, NoModel, <<>>)

resolve_no_default(type, model, scope) ==
    LET resolved == resolve_type_tag(type, model, scope)
    IN  IF resolved = resolve_default(type) THEN None ELSE resolved

-----------------------------------------------------------------------------
(* Rust types *)

Complex(name, tag) == [k |-> "complex", name |-> name, tag |-> tag]
Option(type) == [k |-> "option", of |-> type]
Default(type, value) == [k |-> "default", of |-> type, value |-> value]
Vec(type, size, sort) == [k |-> "vec", of |-> type, size |-> size, sort |-> sort]

RECURSIVE no_option(_)
no_option(type) ==
    IF type.k = "option" THEN type.of
    ELSE IF type.k = "default" THEN no_option(type.of) ELSE type

is_optional(type) == type.k \in {"option", "default"}

\* The tag of a Rust type.
RECURSIVE RustTag(_)
RustTag(type) ==
    CASE type.k = "complex" -> type.tag
      [] type.k \in {"option", "default"} -> RustTag(type.of)
      [] type.k = "vec" -> Some(DefaultTag([k |-> IF type.sort THEN "set_of" ELSE "sequence_of"]))
      [] OTHER -> Some(DefaultTag(type))

\* asn_extensible_integer_to_rust and asn_fixed_integer_to_rust_type for
\* numbers that an i64 holds; named numbers are kept elsewhere.
IntegerToRust(int) ==
    LET unbounded == int.min \subseteq {0} /\ int.max \subseteq {MaxI64}
        natural == \A b \in int.min \cup int.max : b >= 0
    IN  [k |-> "integer", ext |-> int.ext,
         min |-> IF unbounded THEN None
                 ELSE IF int.ext /\ natural THEN int.min
                 ELSE Or(int.min, Some(IF int.ext THEN -MaxI64 - 1 ELSE 0)),
         max |-> IF unbounded THEN None
                 ELSE IF int.ext /\ natural THEN int.max
                 ELSE Or(int.max, Some(MaxI64))]

\* The types that need no definition of their own, but for references.
FlatType(type) ==
    CASE type.k = "integer" -> IntegerToRust(type)
      [] type.k = "bits" -> [k |-> "bits", size |-> type.size]
      [] OTHER -> type

Flat == {"boolean", "null", "integer", "string", "octets", "bits"}
Constructed == {"sequence", "set", "choice", "enumerated"}

\* The type of a value reference, if it can have a constant.
RECURSIVE map_asn_type_to_rust_type_flat(_)
map_asn_type_to_rust_type_flat(type) ==
    CASE type.k \in Flat -> Some(FlatType(type))
      [] type.k = "optional" -> {Option(t) : t \in map_asn_type_to_rust_type_flat(type.of)}
      [] type.k = "default" ->
           {Default(t, type.value) : t \in map_asn_type_to_rust_type_flat(type.of)}
      [] type.k = "reference" -> Some(Complex(type.to, type.tag))
      [] OTHER -> None

-----------------------------------------------------------------------------
(* Definitions.  ctxt has the model, the scope of the TagResolver and      *)
(* whether names are to be made nice.                                      *)

Nice(ctxt, name) == IF ctxt.nice THEN rust_struct_or_enum_name(name) ELSE name
NiceField(ctxt, name) == IF ctxt.nice THEN rust_field_name(name) ELSE name
NiceConstant(ctxt, name) == IF ctxt.nice THEN rust_constant_name(name) ELSE name
NiceModule(ctxt, name) == IF ctxt.nice THEN rust_module_name(name, FALSE) ELSE name

to_rust_constants(type, ctxt) ==
    IF type.k \in {"integer", "bits"}
    THEN [i \in DOMAIN type.constants |->
            [type.constants[i] EXCEPT !.name = NiceConstant(ctxt, @)]]
    ELSE <<>>

\* A struct, an enum or a tuple struct; an enum's variants have no type, and
\* the one member of a tuple struct is named "0".
Definition(name, rust, tag, members, ext, sort) ==
    [name |-> name, rust |-> rust, tag |-> tag, members |-> members, ext |-> ext, sort |-> sort]
Member(name, tag, type, constants) ==
    [name |-> name, tag |-> tag, type |-> type, constants |-> constants]
TupleStruct(name, tag, type, constants) ==
    Definition(name, "tuple", tag, <<Member(<<"0">>, None, type, constants)>>, None, FALSE)
NoType == [k |-> "none"]

\* What a type is to be referred to as, and the definitions that needs.
Typed(type, definitions) == [type |-> type, definitions |-> definitions]
Within(typed, Of(_)) == [typed EXCEPT !.type = Of(@)]

RECURSIVE definition_to_rust(_, _, _, _), definition_type_to_rust_type(_, _, _, _)

definition_type_to_rust_type(name, type, tag, ctxt) ==
    LET inner == definition_type_to_rust_type(name, type.of,
                     Or(tag, resolve_no_default(type.of, ctxt.model, ctxt.scope)), ctxt)
        own == Nice(ctxt, name)
    IN  CASE type.k \in Flat -> Typed(FlatType(type), <<>>)
          [] type.k = "optional" -> Within(inner, Option)
          [] type.k = "default" -> Within(inner, LAMBDA t : Default(t, type.value))
          [] type.k = "sequence_of" -> Within(inner, LAMBDA t : Vec(t, type.size, FALSE))
          [] type.k = "set_of" -> Within(inner, LAMBDA t : Vec(t, type.size, TRUE))
          [] type.k \in Constructed ->
               Typed(Complex(own, Or(tag, resolve_type_tag(type, ctxt.model, ctxt.scope))),
                     definition_to_rust(own, type, tag, ctxt))
          [] type.k = "reference" ->
               Typed(Complex(Nice(ctxt, type.to),
                             Or(type.tag, resolve_tag(type.to, ctxt.model, ctxt.scope))), <<>>)

\* Mutant: only DEFAULT makes an addition optional.
FieldTypeAsWritten(type, field, isAddition) ==
    IF field.default # None THEN Default(no_option(type), Value(field.default)) ELSE type

\* A default replaces OPTIONAL, and an addition is optional whether it says so or not.
FieldType(type, field, isAddition) ==
    IF field.default # None THEN Default(no_option(type), Value(field.default))
    ELSE IF isAddition /\ ~is_optional(type) THEN Option(type) ELSE type

\* What the fields of a SEQUENCE or SET and the alternatives of a CHOICE are
\* referred to as: they name the definitions of what they contain.
Inner(name, member, ctxt) ==
    definition_type_to_rust_type(name \o Nice(ctxt, member.name), member.type, member.tag, ctxt)
Nested(name, members, ctxt) ==
    FlattenSeq([i \in DOMAIN members |-> Inner(name, members[i], ctxt).definitions])

asn_fields_to_rust_fields(name, fields, ext, ctxt) ==
    [i \in DOMAIN fields |->
        Member(NiceField(ctxt, fields[i].name), fields[i].tag,
               FieldType(Inner(name, fields[i], ctxt).type, fields[i],
                         ext # None /\ i > Value(ext)),
               to_rust_constants(fields[i].type, ctxt))]

\* A definition and, before it, those that its parts need.
definition_to_rust(name, type, tag, ctxt) ==
    LET typed(inner, itsTag) == definition_type_to_rust_type(name, inner, itsTag, ctxt)
        tuple(t, itsTag, Of(_)) ==
            Append(t.definitions, TupleStruct(name, itsTag, Of(t.type),
                                              to_rust_constants(type, ctxt)))
    IN  CASE type.k \in Flat -> tuple(typed(type, tag), tag, LAMBDA t : t)
          [] type.k = "reference" -> tuple(typed(type, type.tag), type.tag, LAMBDA t : t)
          [] type.k = "optional" -> tuple(typed(type.of, tag), tag, Option)
          [] type.k = "default" ->
               tuple(typed(type.of, tag), tag, LAMBDA t : Default(t, type.value))
          [] type.k = "sequence_of" ->
               tuple(typed(type.of, tag), None, LAMBDA t : Vec(t, type.size, FALSE))
          [] type.k = "set_of" ->
               tuple(typed(type.of, tag), tag, LAMBDA t : Vec(t, type.size, TRUE))
          [] type.k \in {"sequence", "set"} ->
               Append(Nested(name, type.members, ctxt),
                      Definition(name, "struct", tag,
                          asn_fields_to_rust_fields(name, type.members, type.ext, ctxt),
                          type.ext, type.k = "set"))
          [] type.k = "choice" ->
               Append(Nested(name, type.members, ctxt),
                      Definition(name, "data enum", tag,
                          [i \in DOMAIN type.members |->
                             Member(Nice(ctxt, type.members[i].name), type.members[i].tag,
                                    Inner(name, type.members[i], ctxt).type, <<>>)],
                          type.ext, FALSE))
          [] type.k = "enumerated" ->
               <<Definition(name, "enum", tag,
                     [i \in DOMAIN type.members |->
                        Member(Nice(ctxt, type.members[i]), None, NoType, <<>>)],
                     type.ext, FALSE)>>
=============================================================================
