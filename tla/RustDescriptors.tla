---------------------------- MODULE RustDescriptors ----------------------------
(***************************************************************************)
(* The descriptors that the macro generates for an item, by which readers  *)
(* and writers go over its values:                                         *)
(* src/asn1rs-model/src/gen/rust/walker.rs.                                *)
(*                                                                         *)
(* A constraint is a record of what its type is, its tag and, for a type   *)
(* around another, the constraint of that one.  Where the code panics      *)
(* there is none.                                                          *)
(***************************************************************************)
EXTENDS RustItems, FiniteSets

FIELD == <<"F","i","e","l","d">>
VALUE == <<"V","a","l","u","e">>
VALUES == <<"V","a","l","u","e","s">>

-----------------------------------------------------------------------------
(* Constraints *)

Constraint(is, tag, of) == [is |-> is, tag |-> tag, of |-> of]

\* write_default_constraint
SuitsDefault(type, value) ==
    LET t == IF type.k = "option" THEN type.of ELSE type
    IN  CASE t.k = "default" -> FALSE
          [] t.k = "boolean" -> value.lit = "boolean"
          [] t.k = "string" -> value.lit = "string"
          [] OTHER -> TRUE

RECURSIVE write_field_constraint(_, _)
write_field_constraint(type, tag) ==
    CASE type.k = "vec" ->
           {Constraint([k |-> "vec", size |-> type.size, sort |-> type.sort],
                       Or(tag, Some(DefaultTag([k |-> "sequence_of"]))), <<c>>) :
               c \in write_field_constraint(type.of, None)}
      [] type.k = "option" ->
           {Constraint([k |-> "option"], c.tag, <<c>>) : c \in write_field_constraint(type.of, tag)}
      [] type.k = "default" ->
           IF ~SuitsDefault(type.of, type.value) THEN {}
           ELSE {Constraint([k |-> "default", value |-> type.value],
                            Or(tag, Some(DefaultTag([k |-> "sequence_of"]))), <<c>>) :
                    c \in write_field_constraint(type.of, tag)}
      [] type.k = "complex" ->
           IF Or(tag, type.tag) = None THEN {}
           ELSE {Constraint([k |-> "complex", name |-> type.name], Or(tag, type.tag), <<>>)}
      [] OTHER -> {Constraint(type, Or(tag, Some(DefaultTag(type))), <<>>)}

\* ITU-T X.680, G.2.12.3: tags are automatic when none is written.
assign_implicit_tags(fields) ==
    IF \E i \in DOMAIN fields : fields[i].tag # None THEN fields
    ELSE [i \in DOMAIN fields |-> [fields[i] EXCEPT !.tag = Some(<<CONTEXT, i - 1>>)]]

\* Mutant: additions are sorted among the root.
SortedWithAdditions(fields, ext) ==
    LET tag(f) == Or(f.tag, RustTag(f.type))
        before(i, j) ==
            \/ TagBefore(Value(tag(fields[i])), Value(tag(fields[j])))
            \/ ~TagBefore(Value(tag(fields[j])), Value(tag(fields[i]))) /\ i < j
        order == SortSeq([i \in DOMAIN fields |-> i], before)
    IN  IF \E i \in DOMAIN fields : tag(fields[i]) = None THEN {}
        ELSE {[i \in DOMAIN fields |-> fields[order[i]]]}

\* The root in the order of its tags, then the additions in that of theirs; a
\* field without a tag is a panic.
sort_fields_canonically(fields, ext) ==
    LET tag(f) == Or(f.tag, RustTag(f.type))
        addition(i) == ext # None /\ i > Value(ext)
        before(i, j) ==
            \/ ~addition(i) /\ addition(j)
            \/ /\ addition(i) = addition(j)
               /\ \/ TagBefore(Value(tag(fields[i])), Value(tag(fields[j])))
                  \/ ~TagBefore(Value(tag(fields[j])), Value(tag(fields[i]))) /\ i < j
        order == SortSeq([i \in DOMAIN fields |-> i], before)
    IN  IF \E i \in DOMAIN fields : tag(fields[i]) = None THEN {}
        ELSE {[i \in DOMAIN fields |-> fields[order[i]]]}

\* The constraints of all fields, or none where one has none.
Constraints(fields) ==
    LET of == [i \in DOMAIN fields |-> write_field_constraint(fields[i].type, fields[i].tag)]
    IN  IF {} \in Range(of) THEN {}
        ELSE {[i \in DOMAIN fields |-> [name |-> fields[i].name, constraint |-> Value(of[i])]]}

-----------------------------------------------------------------------------
(* Names *)

vec_virtual_field_name(name) == name \o VALUES
default_virtual_field_name(name) == name \o VALUE
combined_field_type_name(base, name) ==
    GeneratedVariantName(base) \o FIELD \o GeneratedVariantName(name)

\* The names of the constraints that are declared for a field
\* (write_field_constraints), without what is before and behind all of them.
RECURSIVE DeclaredConstraints(_, _, _)
DeclaredConstraints(base, name, type) ==
    LET inner(virtual) == DeclaredConstraints(base, virtual, type.of)
    IN  CASE type.k = "option" -> inner(name)
          [] type.k = "vec" ->
               <<combined_field_type_name(base, name)>> \o inner(vec_virtual_field_name(name))
          [] type.k = "default" ->
               <<combined_field_type_name(base, name)>> \o inner(default_virtual_field_name(name))
          [] OTHER -> <<combined_field_type_name(base, name)>>

\* Mutant: the elements of a default are named like those of a list.
type_declaration_values(type, name) ==
    CASE type.k \in {"boolean", "null"} -> {}
      [] type.k = "default" -> {name, vec_virtual_field_name(name)}
      [] OTHER -> {name}

\* The names of the constraints that the type of a field is declared with.
RECURSIVE type_declaration(_, _)
type_declaration(type, name) ==
    CASE type.k \in {"boolean", "null"} -> {}
      [] type.k = "option" -> type_declaration(type.of, name)
      [] type.k = "vec" -> {name} \cup type_declaration(type.of, vec_virtual_field_name(name))
      [] type.k = "default" ->
           {name} \cup type_declaration(type.of, default_virtual_field_name(name))
      [] OTHER -> {name}

-----------------------------------------------------------------------------
(* Descriptors *)

\* The constants that count the root come from the marker, that of a struct
\* being the place of the last field in the root.
StdVariants(definition) == Roots(definition.members, definition.ext)
StdOptionalFields(fields, ext) ==
    Cardinality({i \in DOMAIN fields : is_optional(fields[i].type) /\ (ext # None => i <= Value(ext))})

Names_of(definition) ==
    [declared |-> FlattenSeq([i \in DOMAIN definition.members |->
                      DeclaredConstraints(definition.name, definition.members[i].name,
                                          definition.members[i].type)]),
     used |-> UNION {type_declaration(definition.members[i].type,
                         combined_field_type_name(definition.name, definition.members[i].name)) :
                       i \in DOMAIN definition.members}]
NoNames == [declared |-> <<>>, used |-> {}]

Descriptor(definition, k, tag, count, std, fields, names) ==
    [name |-> definition.name, k |-> k, tag |-> tag, count |-> count, std |-> std,
     extensible |-> definition.ext # None, ext |-> definition.ext, fields |-> fields,
     names |-> names]

write_sequence_or_set_constraint(definition, kind, fields) ==
    UNION {{Descriptor(definition, kind, Or(definition.tag, Some(DefaultTag([k |-> "sequence"]))),
                       Len(fields), StdOptionalFields(ordered, definition.ext), constraints,
                       Names_of(definition)) : constraints \in Constraints(ordered)} :
              ordered \in IF kind = "set" THEN sort_fields_canonically(fields, definition.ext)
                                          ELSE {fields}}

write_enumerated_constraint(definition) ==
    {Descriptor(definition, "enumerated", Or(definition.tag, Some(DefaultTag([k |-> "enumerated"]))),
                Len(definition.members), StdVariants(definition),
                [i \in DOMAIN definition.members |-> [name |-> definition.members[i].name]],
                NoNames)}

write_choice_constraint(definition, variants) ==
    IF definition.tag = None THEN {}
    ELSE {Descriptor(definition, "choice", definition.tag, Len(variants), StdVariants(definition),
                     constraints, Names_of(definition)) : constraints \in Constraints(variants)}

\* A tuple struct is a SEQUENCE of one field that has the tag of the whole.
write_constraints(definition) ==
    LET tagged == assign_implicit_tags(definition.members)
    IN  CASE definition.rust = "struct" ->
               write_sequence_or_set_constraint(definition,
                   IF definition.sort THEN "set" ELSE "sequence", tagged)
          [] definition.rust = "enum" -> write_enumerated_constraint(definition)
          [] definition.rust = "data enum" -> write_choice_constraint(definition, tagged)
          [] definition.rust = "tuple" ->
               write_sequence_or_set_constraint(definition, "tuple",
                   [definition.members EXCEPT ![1].tag = definition.tag])

\* The attribute macro on an item (asn and expand).
Expand(item) ==
    UNION {write_constraints(to_rust_keep_names(definition)) :
              definition \in parse_asn_definition(item)}
=============================================================================
