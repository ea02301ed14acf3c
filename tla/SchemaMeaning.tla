----------------------------- MODULE SchemaMeaning -----------------------------
(***************************************************************************)
(* What names and tags of a schema mean, stated without walking: the       *)
(* reference that SchemaResolution is checked against.                     *)
(***************************************************************************)
EXTENDS SchemaResolution, FiniteSets

\* The modules that an import means: an object identifier tells modules apart,
\* without one the name has to do.
Meant(import) ==
    {m \in DOMAIN models :
        IF import.fromOid # NoOid THEN models[m].oid = import.fromOid
                                  ELSE models[m].name = import.from}

Importers(m, name) == {i \in DOMAIN models[m].imports : name \in models[m].imports[i].what}
ImportedFrom(m, name) == UNION {Meant(models[m].imports[i]) : i \in Importers(m, name)}

Declares(m, for, name) ==
    IF for = "type" THEN Definition(m, name) # 0 ELSE Value(m, name) # 0

\* The modules that a name leads to through imports.
Passes(m, for, name) == IF Declares(m, for, name) THEN {} ELSE ImportedFrom(m, name)
Reached(from, for, name) ==
    {m \in DOMAIN models : \A closed \in SUBSET DOMAIN models :
        from \subseteq closed /\ (\A n \in closed : Passes(n, for, name) \subseteq closed)
            => m \in closed}

\* The modules that declare what a name means in a module.
Declarers(m, for, name) == {d \in Reached({m}, for, name) : Declares(d, for, name)}

\* Modules that import a name from each other in a ring without declaring it.
ImportLoop(m, for, name) ==
    \E r \in Reached({m}, for, name) : r \in Reached(Passes(r, for, name), for, name)

\* A module is told from others by its name and by its identifier, an import
\* names no other module than it identifies, and no name is imported twice.
Identified ==
    /\ \A m, n \in DOMAIN models :
          \/ models[m].name = models[n].name
          \/ models[m].oid # NoOid /\ models[m].oid = models[n].oid
          => m = n
    /\ \A m, n \in DOMAIN models : \A i \in DOMAIN models[m].imports :
          models[n].name = models[m].imports[i].from => n \in Meant(models[m].imports[i])
    /\ \A m \in DOMAIN models : \A i, j \in DOMAIN models[m].imports :
          i # j => models[m].imports[i].what \cap models[m].imports[j].what = {}

\* Besides, imports know modules by their names, and none is of a type that the
\* module declares itself.
Unambiguous ==
    /\ Identified
    /\ \A m \in DOMAIN models : \A i \in DOMAIN models[m].imports :
          /\ \A n \in Meant(models[m].imports[i]) : models[n].name = models[m].imports[i].from
          /\ \A name \in models[m].imports[i].what : Definition(m, name) = 0

\* What a look-up means: an item of the type of the component, or a value.
IsItem(m, lookup) ==
    /\ lookup.through # NoName
    /\ \E d \in Declarers(m, "type", lookup.through) :
          LET type == models[d].definitions[Definition(d, lookup.through)].type
          IN  type.kind = "enumerated" /\ lookup.name \in type.items
MeantValues(m, lookup) ==
    {models[d].values[Value(d, lookup.name)] : d \in Declarers(m, "value", lookup.name)}

\* What decides the tag of a type is the type, or the untagged alternatives in
\* the root of a CHOICE: by tags of their own, or as names of other types.
Roots(type) == {type.of[c] : c \in 1..type.roots}
Parts(type) ==
    IF type.kind = "choice" THEN {c.type : c \in {c \in Roots(type) : c.tag = NoTag}} ELSE {type}
TagsIn(type) ==
    {p.tag : p \in {p \in Parts(type) : p.kind # "reference"}}
    \cup IF type.kind = "choice" THEN {c.tag : c \in Roots(type)} \ {NoTag} ELSE {}
NamesIn(type) == {p.to : p \in {p \in Parts(type) : p.kind = "reference"}}

\* The definitions that these names mean, and where they lead to: an untagged
\* definition is as good as its type.
Definitions == UNION {{<<m, d>> : d \in DOMAIN models[m].definitions} : m \in DOMAIN models}
TagOf(x) == models[x[1]].definitions[x[2]].tag
TypeOf(x) == models[x[1]].definitions[x[2]].type

Meanings(m, type) ==
    UNION {{<<d, Definition(d, name)>> : d \in Declarers(m, "type", name)} :
               name \in NamesIn(type)}
Behind(m, type) ==
    LET leads == UNION {{<<x, y>> : y \in Meanings(x[1], TypeOf(x))} :
                           x \in {x \in Definitions : TagOf(x) = NoTag}}
    IN  {x \in Definitions : \A closed \in SUBSET Definitions :
            /\ Meanings(m, type) \subseteq closed
            /\ \A l \in leads : l[1] \in closed => l[2] \in closed
            => x \in closed}

\* A type that leads to itself has no tag, nor has one that leads to a name
\* that nobody declares.
TypeLoop(m, type) ==
    \E x \in Behind(m, type) : TagOf(x) = NoTag /\ x \in Behind(x[1], TypeOf(x))
Lost(m, type) == \E name \in NamesIn(type) : Declarers(m, "type", name) = {}
Dangling(m, type) ==
    \/ Lost(m, type)
    \/ \E x \in Behind(m, type) : TagOf(x) = NoTag /\ Lost(x[1], TypeOf(x))

AllTags(m, type) ==
    TagsIn(type) \cup UNION {IF TagOf(x) = NoTag THEN TagsIn(TypeOf(x)) ELSE {TagOf(x)} :
                                 x \in Behind(m, type)}
MeantTag(m, type) == IF Dangling(m, type) THEN NoTag ELSE Min(AllTags(m, type))

-----------------------------------------------------------------------------
(* Properties *)

\* One type invariant for the state of the resolver.
TypeOK ==
    /\ phase \in Ended \cup {"resolve", "tag"}
    /\ current \in DOMAIN models
    /\ Len(search) <= 1
    /\ search # <<>> => /\ phase \in {"resolve"} \cup Ended
                        /\ todo # <<>>
                        /\ search[1].depth \in 1..MaxDepth
    /\ Len(frames) <= MaxDepth
    /\ answer # Pending => phase = "tag"

\* Whatever the order in which modules were loaded, a name that was looked up
\* has the value that it is declared with, in the module that its IMPORTS lead
\* to (value_reference, definition, Resolver::resolve); a DEFAULT is taken for an
\* item exactly if the type of its component has one of that name; and
\* try_resolve_all fails only for a name without a meaning, or one that is no
\* number where a number is needed.  Exempted are modules that are not Identified
\* (model_with_imported_item takes the first that fits), and a negative number
\* used as a size.
FoundAsDeclared ==
    Identified =>
        /\ \A f \in Range(found) :
              /\ f.result.item <=> IsItem(f.model, f.lookup)
              /\ ~f.result.item => \E value \in MeantValues(f.model, f.lookup) :
                    \/ f.result.v = value.v
                    \/ f.lookup.wants = "size" /\ value.v < 0
        /\ phase = "unresolved" => MeantValues(current, Head(todo)) = {}
        /\ phase = "unparsed" => \E value \in MeantValues(current, Head(todo)) : ~value.integer

\* A resolved tag is the smallest one that the type leads to, in the module
\* that its name means: the TagResolver takes the same way through IMPORTS as
\* the ResolveScope (resolve_tag, resolve_type_tag), as long as there is no
\* doubt about the way.
TagsAsMeant ==
    \A t \in Range(tags) :
        Unambiguous => t.tag = MeantTag(t.question.model, t.question.type)

\* Neither walk runs out of stack but in a ring of imports, or of types that
\* are nothing but names and alternatives of each other, as long as names lead
\* one way (value_reference, definition, resolve_tag, resolve_type_tag).
OverflowOnlyInLoops ==
    LET question == Head(asked)
        names == {f.name : f \in {f \in Range(frames) : f.op = "reference"}}
    IN  /\ phase = "overflow" /\ search # <<>> /\ Identified =>
             ImportLoop(current, search[1].for, Sought)
        /\ phase = "overflow" /\ search = <<>> /\ Unambiguous =>
             \/ TypeLoop(question.model, question.type)
             \/ \E m \in DOMAIN models, name \in names : ImportLoop(m, "type", name)

\* Additions come in the order of their tags, and if none of the root has a
\* tag then no addition has one (X.680 demands the latter).
AdditionsAscend(m, d) ==
    LET type == models[m].definitions[d].type
        all == Len(type.of)
    IN  /\ \A a, b \in (type.roots + 1)..all :
              a < b => ComponentTag(m, d, a, all) < ComponentTag(m, d, b, all)
        /\ Implicit(type, type.roots) => Implicit(type, all)

\* Two promises of generated code about the tags of components.  A SET with
\* further additions is written like the SET without them, followed by the
\* additions, which a peer of an older version relies on
\* (sort_fields_canonically, assign_implicit_tags); and the tag of a CHOICE is
\* the smallest of those its root alternatives carry, if one of them is tagged
\* in the schema (write_constraints, parse_choice).
ComponentsAsPromised ==
    phase = "done" => \A m \in DOMAIN models : \A d \in DOMAIN models[m].definitions :
        LET definition == models[m].definitions[d]
            type == definition.type
            all == Len(type.of)
        IN  /\ type.kind = "set" /\ AdditionsAscend(m, d) =>
                 \A keep \in type.roots..all :
                     Sorted(m, d, keep) = SubSeq(Sorted(m, d, all), 1, keep)
            /\ type.kind = "choice" /\ definition.tag = NoTag /\ ~Implicit(type, all) =>
                 Resolved(m, d, 0) = Min({ComponentTag(m, d, c, all) : c \in 1..type.roots})

\* Resolving ends, and in a stack overflow only where it has to.
ResolutionEnds == <>(phase \in Ended) /\ []OverflowOnlyInLoops
=============================================================================
