------------------------------ MODULE RustCodegen ------------------------------
(***************************************************************************)
(* From a schema to compiled descriptors: the converter turns each module  *)
(* into a Rust model, that into a file of items, and the compiler runs the *)
(* attribute macro on each item (src/src/converter.rs, model/rust/mod.rs,  *)
(* gen/rust/mod.rs, ast/mod.rs and gen/rust/walker.rs of                   *)
(* src/asn1rs-model/src).                                                  *)
(***************************************************************************)
EXTENDS RustDescriptors

CONSTANTS
    Schemas  \* sequences of resolved modules: [name, imports, definitions, values]

ASSUME CodegenAssumption == MaxI64 \in Nat

VARIABLES
    models,    \* the modules of the schema
    phase,     \* what is being done, and how it ended
    module,    \* the module, or file, it is done to
    rust,      \* the Rust model of this module, as far as it is converted
    items,     \* the items generated for it
    files,     \* the files written, one for each module
    compiled   \* for each file what became of its items: no or one descriptor

vars == <<models, phase, module, rust, items, files, compiled>>

Context == [model |-> models[module], scope |-> models, nice |-> TRUE]

\* convert_asn_to_rust, before the definitions
Begun(model) ==
    LET ctxt == [nice |-> TRUE]
    IN  [name |-> NiceModule(ctxt, model.name),
         imports |-> [i \in DOMAIN model.imports |->
                        [what |-> {Nice(ctxt, w) : w \in model.imports[i].what},
                         from |-> NiceModule(ctxt, model.imports[i].from)]],
         definitions |-> <<>>, values |-> <<>>, read |-> 0]

Init ==
    /\ models \in Schemas
    /\ phase = "definitions"
    /\ module = 1
    /\ rust = Begun(models[1])
    /\ items = <<>>
    /\ files = <<>>
    /\ compiled = <<>>

ConvertDefinition ==
    /\ phase = "definitions"
    /\ rust.read < Len(models[module].definitions)
    /\ LET asn == models[module].definitions[rust.read + 1]
       IN  rust' = [rust EXCEPT !.read = @ + 1,
                       !.definitions = @ \o definition_to_rust(Nice(Context, asn.name), asn.type,
                                                               asn.tag, Context)]
    /\ UNCHANGED <<models, phase, module, items, files, compiled>>

\* The values, of which those of types without constants are ignored.
ConvertValues ==
    /\ phase = "definitions"
    /\ rust.read = Len(models[module].definitions)
    /\ LET values == models[module].values
           flat == SelectSeq(values, LAMBDA v : map_asn_type_to_rust_type_flat(v.type) # None)
       IN  rust' = [rust EXCEPT !.values =
                       [i \in DOMAIN flat |->
                          [name |-> NiceConstant(Context, flat[i].name),
                           type |-> Value(map_asn_type_to_rust_type_flat(flat[i].type)),
                           value |-> as_rust_const_literal(flat[i].value, TRUE)]]]
    /\ phase' = "items"
    /\ UNCHANGED <<models, module, items, files, compiled>>

AddDefinition ==
    /\ phase = "items"
    /\ Len(items) < Len(rust.definitions)
    /\ LET definition == rust.definitions[Len(items) + 1]
       IN  IF Panics(definition)
           THEN phase' = "panicked" /\ UNCHANGED items
           ELSE items' = Append(items, add_definition(definition)) /\ UNCHANGED phase
    /\ UNCHANGED <<models, module, rust, files, compiled>>

\* model_to_file, the file being written before the next module is converted
WriteFile ==
    /\ phase = "items"
    /\ Len(items) = Len(rust.definitions)
    /\ files' = Append(files,
                  [file |-> GeneratedModuleName(rust.name), items |-> items, values |-> rust.values,
                   uses |-> [i \in DOMAIN rust.imports |->
                               [what |-> rust.imports[i].what,
                                file |-> GeneratedModuleName(rust.imports[i].from)]]])
    /\ items' = <<>>
    /\ compiled' = Append(compiled, <<>>)
    /\ IF module < Len(models)
       THEN /\ module' = module + 1
            /\ rust' = Begun(models[module + 1])
            /\ phase' = "definitions"
       ELSE /\ module' = 1
            /\ phase' = "compile"
            /\ UNCHANGED rust
    /\ UNCHANGED models

ExpandItem ==
    /\ phase = "compile"
    /\ Len(compiled[module]) < Len(files[module].items)
    /\ compiled' = [compiled EXCEPT ![module] =
                       Append(@, Expand(files[module].items[Len(@) + 1]))]
    /\ UNCHANGED <<models, phase, module, rust, items, files>>

NextFile ==
    /\ phase = "compile"
    /\ Len(compiled[module]) = Len(files[module].items)
    /\ IF module < Len(files) THEN module' = module + 1 /\ UNCHANGED phase
                              ELSE phase' = "done" /\ UNCHANGED module
    /\ UNCHANGED <<models, rust, items, files, compiled>>

Next ==
    \/ ConvertDefinition \/ ConvertValues \/ AddDefinition \/ WriteFile
    \/ ExpandItem \/ NextFile

Spec == Init /\ [][Next]_vars

-----------------------------------------------------------------------------
(* What a schema means to a codec *)

RECURSIVE Parts(_)
Parts(type) ==
    {type} \cup
    CASE type.k \in {"optional", "sequence_of", "set_of"} -> Parts(type.of)
      [] type.k \in {"sequence", "set", "choice"} ->
           UNION {Parts(type.members[i].type) : i \in DOMAIN type.members}
      [] OTHER -> {}

IsAddition(type, i) == type.ext # None /\ i > Value(type.ext)

Presence(type, i) ==
    IF type.members[i].default # None THEN "default"
    ELSE IF type.members[i].type.k = "optional" \/ IsAddition(type, i) THEN "optional"
    ELSE "mandatory"

\* The component that comes in the given place: those of a SET come in the
\* order of their tags, root before additions.
InPlace(type, place, model) ==
    LET tagged == \E i \in DOMAIN type.members : type.members[i].tag # None
        tag(i) == Value(Or(type.members[i].tag,
                           resolve_type_tag(type.members[i].type, model, models)))
        before(i, j) ==
            \/ ~IsAddition(type, i) /\ IsAddition(type, j)
            \/ /\ IsAddition(type, i) = IsAddition(type, j)
               /\ IF type.k = "set" /\ tagged /\ tag(i) # tag(j)
                  THEN TagBefore(tag(i), tag(j)) ELSE i < j
    IN  CHOOSE i \in DOMAIN type.members :
            Cardinality({j \in DOMAIN type.members : before(j, i)}) = place - 1

RECURSIVE Meaning(_, _)
Meaning(type, model) ==
    CASE type.k = "integer" -> [k |-> "integer", min |-> type.min, max |-> type.max, ext |-> type.ext]
      [] type.k = "bits" -> [k |-> "bits", size |-> type.size]
      [] type.k = "reference" -> [k |-> "reference", to |-> rust_variant_name(type.to)]
      [] type.k = "optional" -> Meaning(type.of, model)
      [] type.k \in {"sequence_of", "set_of"} ->
           [k |-> type.k, size |-> type.size, of |-> Meaning(type.of, model)]
      [] type.k = "enumerated" ->
           [k |-> "enumerated", count |-> Len(type.members), ext |-> type.ext # None,
            roots |-> Roots(type.members, type.ext)]
      [] type.k = "choice" ->
           [k |-> "choice", ext |-> type.ext # None, roots |-> Roots(type.members, type.ext),
            of |-> [i \in DOMAIN type.members |-> Meaning(type.members[i].type, model)]]
      [] type.k \in {"sequence", "set"} ->
           [k |-> type.k, ext |-> type.ext,
            optional |-> Cardinality({i \in DOMAIN type.members :
                           Presence(type, i) # "mandatory" /\ ~IsAddition(type, i)}),
            of |-> [place \in DOMAIN type.members |->
                      LET i == InPlace(type, place, model)
                      IN  [presence |-> Presence(type, i),
                           default |-> {as_rust_const_literal(v, TRUE) : v \in type.members[i].default},
                           type |-> Meaning(type.members[i].type, model)]]]
      [] OTHER -> type

-----------------------------------------------------------------------------
(* What compiled descriptors make a codec do *)

ItemNamed(m, name) == CHOOSE i \in DOMAIN files[m].items : files[m].items[i].name = name

\* The names that a module's own names and imports have in Rust.
DeclaredNames(m) ==
    {rust_variant_name(d.name) : d \in Range(models[m].definitions)}
        \cup UNION {files[m].uses[i].what : i \in DOMAIN files[m].uses}

\* Without a descriptor there is no effect: the empty set of them.
RECURSIVE Effect(_, _), EffectOf(_, _)
Effect(constraint, m) ==
    LET is == constraint.is
    IN  CASE is.k = "vec" ->
               {[k |-> IF is.sort THEN "set_of" ELSE "sequence_of", size |-> is.size, of |-> e] :
                   e \in Effect(constraint.of[1], m)}
          [] is.k \in {"option", "default"} -> Effect(constraint.of[1], m)
          [] is.k = "complex" ->
               IF is.name \in DeclaredNames(m) THEN {[k |-> "reference", to |-> is.name]}
               ELSE EffectOf(is.name, m)
          [] OTHER -> {is}

Effects(fields, m) ==
    LET of == [i \in DOMAIN fields |-> Effect(fields[i].constraint, m)]
    IN  IF {} \in Range(of) THEN {} ELSE {[i \in DOMAIN fields |-> Value(of[i])]}

Field(constraint, effect) ==
    [presence |-> CASE constraint.is.k = "option" -> "optional"
                    [] constraint.is.k = "default" -> "default"
                    [] OTHER -> "mandatory",
     default |-> IF constraint.is.k = "default" THEN {constraint.is.value} ELSE {},
     type |-> effect]

EffectOf(name, m) ==
    UNION {CASE d.k = "tuple" -> Effect(d.fields[1].constraint, m)
             [] d.k = "enumerated" ->
                  {[k |-> "enumerated", count |-> d.count, ext |-> d.extensible, roots |-> d.std]}
             [] d.k = "choice" ->
                  {[k |-> "choice", ext |-> d.extensible, roots |-> d.std, of |-> of] :
                      of \in Effects(d.fields, m)}
             [] d.k \in {"sequence", "set"} ->
                  {[k |-> d.k, ext |-> d.ext, optional |-> d.std,
                    of |-> [i \in DOMAIN of |-> Field(d.fields[i].constraint, of[i])]] :
                      of \in Effects(d.fields, m)} :
              d \in compiled[m][ItemNamed(m, name)]}

-----------------------------------------------------------------------------
(* Properties *)

Distinct(s) == Cardinality(Range(s)) = Len(s)

\* A type that the generated code cannot have: a name that Rust reserves, a
\* marker behind a field whose name was escaped, a default of octets, a name
\* that leads to no tag.
Refusable(type, m) ==
    \E t \in Parts(type) :
        \/ /\ t.k \in {"sequence", "set"}
           /\ \/ \E i \in DOMAIN t.members : rust_field_name(t.members[i].name) \in ReservedWords
              \/ \E i \in t.ext : rust_field_name(t.members[i].name) \in KEYWORDS
              \/ \E i \in DOMAIN t.members : \E v \in t.members[i].default : v.lit = "octets"
        \/ t.k = "reference" /\ resolve_tag(t.to, models[m], models) = None
        \/ /\ t.k = "choice"
           /\ \E i \in DOMAIN t.members : rust_variant_name(t.members[i].name) \in ReservedWords
        \/ /\ t.k = "enumerated"
           /\ \E i \in DOMAIN t.members : rust_variant_name(t.members[i]) \in ReservedWords

\* Where no two names of a file have become one: names of items, of members of
\* an item, and of constraints.
NoClash(m) ==
    LET descriptors == UNION {compiled[m][i] : i \in DOMAIN compiled[m]}
    IN  /\ Distinct(Names(files[m].items))
        /\ \A i \in DOMAIN files[m].items : Distinct(Names(files[m].items[i].members))
        /\ \A d \in descriptors : Distinct(d.names.declared)

\* Generated code does what the schema says, whatever ways that was written down
\* and read back on, or else it is refused, just where it has to be: kinds, bounds and sizes, what may be absent
\* and what then holds, the order of a SET, the alternatives, and where the root
\* ends (convert_asn_to_rust, add_definition, parse_asn_definition, expand,
\* AsnDefWriter).  Only a struct of nothing but a marker stops the generator.
CompiledAsDeclared ==
    /\ phase = "done" =>
         \A m \in DOMAIN models : NoClash(m) =>
            \A d \in Range(models[m].definitions) :
                EffectOf(rust_variant_name(d.name), m) =
                    IF Refusable(d.type, m) THEN {} ELSE {Meaning(d.type, models[m])}
    /\ phase = "panicked" =>
         \E d \in Range(models[module].definitions) : \E t \in Parts(d.type) :
            t.k \in {"sequence", "set"} /\ t.members = <<>> /\ t.ext # None

\* A name as it is written but for case, hyphens and underscores.
Squash(name) ==
    LET letters == SelectSeq(name, LAMBDA c : ~IsBreak(c))
    IN  [i \in DOMAIN letters |-> ToLower(letters[i])]

\* The types that need items, by the names on the way to them, inner ones first.
RECURSIVE Paths(_, _)
Paths(path, type) ==
    CASE type.k \in {"optional", "sequence_of", "set_of"} -> Paths(path, type.of)
      [] type.k \in {"sequence", "set", "choice"} ->
           Append(FlattenSeq([i \in DOMAIN type.members |->
                      Paths(path \o type.members[i].name, type.members[i].type)]), path)
      [] type.k = "enumerated" -> <<path>>
      [] OTHER -> <<>>
ItemPaths(definition) ==
    LET inner == Paths(definition.name, definition.type)
    IN  IF definition.type.k \in Constructed THEN inner ELSE Append(inner, definition.name)

\* The names of a definition's fields, alternatives or items.
MemberNames(type) ==
    IF type.k = "enumerated" THEN type.members
    ELSE IF type.k \in Constructed THEN Names(type.members) ELSE <<>>

\* Names of items, fields and alternatives stay those of the schema but for
\* case and hyphens, so that two of them become one only if they were that much
\* alike.
NamesAreKept(m) ==
    LET paths == FlattenSeq([i \in DOMAIN models[m].definitions |->
                               ItemPaths(models[m].definitions[i])])
    IN  /\ Squash(files[m].file) = Squash(models[m].name)
        /\ Len(paths) = Len(files[m].items)
        /\ \A i \in DOMAIN paths : Squash(files[m].items[i].name) = Squash(paths[i])
        /\ \A d \in Range(models[m].definitions) :
            LET item == Last(SelectSeq(files[m].items, LAMBDA i : Squash(i.name) = Squash(d.name)))
                names == MemberNames(d.type)
            IN  \A i \in DOMAIN names : Squash(item.members[i].name) = Squash(names[i])

\* What is imported is in the file of that name, if it is a type there.
ImportsMeet(m) ==
    \A i \in DOMAIN files[m].uses, f \in DOMAIN files :
        models[f].name = models[m].imports[i].from =>
            /\ files[m].uses[i].file = files[f].file
            /\ \A what \in models[m].imports[i].what :
                 Definitions(models[f], what) # <<>> =>
                    Nice([nice |-> TRUE], what) \in files[m].uses[i].what
                        \cap Range(Names(files[f].items))

\* The type of a field or alternative, and the variant that is its default.
RECURSIVE TypesMeet(_, _)
TypesMeet(constraint, m) ==
    LET is == constraint.is
        names == Range(Names(files[m].items)) \cup DeclaredNames(m)
    IN  /\ is.k = "complex" => is.name \in names
        /\ is.k = "default" /\ is.value.lit = "variant" =>
             /\ is.value.path[1] \in names
             /\ is.value.path[1] \in Range(Names(files[m].items)) =>
                  is.value.path[2] \in
                      Range(Names(files[m].items[ItemNamed(m, is.value.path[1])].members))
        /\ \A inner \in Range(constraint.of) : TypesMeet(inner, m)

\* Generated names are those of the schema, and what generated code refers to
\* is there: the files and types of imports, the types of fields and values,
\* the variant that is a default, the constraints that a field is declared with
\* (the names of model/rust/mod.rs and of gen/rust/mod.rs, type_declaration,
\* write_field_constraints, model_to_file).  A value of a type whose name is not
\* already one of Rust, and an import of a value, are exempted.
NamesMeet ==
    phase = "done" =>
        \A m \in DOMAIN files :
            /\ NamesAreKept(m)
            /\ ImportsMeet(m)
            /\ \A v \in Range(files[m].values) :
                 v.type.k = "complex" /\ rust_variant_name(v.type.name) = v.type.name =>
                    v.type.name \in DeclaredNames(m)
            /\ \A i \in DOMAIN compiled[m] : \A d \in compiled[m][i] :
                 /\ d.names.used \subseteq Range(d.names.declared)
                 /\ d.k # "enumerated" =>
                      \A j \in DOMAIN d.fields : TypesMeet(d.fields[j].constraint, m)
=============================================================================
