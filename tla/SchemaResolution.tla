--------------------------- MODULE SchemaResolution ---------------------------
(***************************************************************************)
(* From parsed modules to what generated code is told of tags and order:   *)
(*                                                                         *)
(*   "resolve"  MultiModuleResolver::try_resolve_all: names that stand for *)
(*              numbers and default values are looked up through IMPORTS   *)
(*              (asn1rs-model/src/model/rs.rs, asn.rs).  One failure is    *)
(*              the failure of all.                                        *)
(*   "tag"      Converter::to_rust and the macros: types that carry no tag *)
(*              are asked for theirs (model/tag_resolver.rs), again        *)
(*              through IMPORTS, by other rules.                           *)
(*   "done"     the components of every SET have a place on the wire       *)
(*              (gen/rust/walker.rs).                                      *)
(*                                                                         *)
(* Both walks are recursive functions without any memory of where they     *)
(* have been; the calls in progress are explicit here.                     *)
(*                                                                         *)
(* Types: a "reference" names another type, a "choice" and a "set" have    *)
(* components, the other types are known by their default tag.  Types that *)
(* are written inline are given names of their own, as definition_to_rust  *)
(* does.  OPTIONAL changes no step and is left out; TypeReference holds no *)
(* tag after parsing.  A component has a tag of its own or NoTag, and its  *)
(* default, where that is a name and not a literal.                        *)
(***************************************************************************)
EXTENDS Integers, Sequences, SequencesExt, FiniteSetsExt

NoName == ""
NoOid == 0
NoTag == -1
Pending == -2

CONSTANTS
    Programs,      \* the sequences of modules to resolve, in the order of loading
    MaxDepth,      \* calls that fit the stack
    UsizeModulus   \* 2^64 in the code

\* What the parser makes of modules.  A CHOICE has an alternative in its root,
\* numbers are i64.
AnyLookup ==
    [wants : {"integer", "size", "value"}, name : STRING, through : STRING \cup {NoName}]
AnyOwnTag == Nat \cup {NoTag}
AnySimpleType ==
    [kind : {"plain"}, tag : Nat, needs : Seq(AnyLookup)]
    \cup [kind : {"enumerated"}, tag : Nat, items : SUBSET STRING]
    \cup [kind : {"reference"}, to : STRING]
AnyComponent == [tag : AnyOwnTag, type : AnySimpleType, default : STRING \cup {NoName}]
AnyType ==
    AnySimpleType
    \cup {t \in [kind : {"choice"}, of : Seq(AnyComponent), roots : Nat \ {0}] :
              t.roots <= Len(t.of)}
    \cup {t \in [kind : {"set"}, tag : Nat, of : Seq(AnyComponent), roots : Nat] :
              t.roots <= Len(t.of)}
AnyModule ==
    [name : STRING, oid : Nat,
     imports : Seq([what : SUBSET STRING, from : STRING, fromOid : Nat]),
     values : Seq({v \in [name : STRING, integer : BOOLEAN, v : Int, needs : Seq(AnyLookup)] :
                      v.v < UsizeModulus}),
     definitions : Seq([name : STRING, tag : AnyOwnTag, type : AnyType])]

ASSUME ProgramsAssumption ==
    /\ MaxDepth \in Nat \ {0} /\ UsizeModulus \in Nat \ {0}
    /\ \A p \in Programs : p # <<>> /\ p \in Seq(AnyModule)

VARIABLES
    models,   \* MultiModuleResolver.models
    phase,
    current,  \* index of the module being resolved
    todo,     \* names still to look up in it
    search,   \* the look-up in progress: <<>> or <<[at, for, depth]>>
    found,    \* what was looked up
    asked,    \* types still to be asked for their tags
    frames,   \* calls of the TagResolver in progress, innermost first
    answer,   \* what the last of them returned
    tags      \* the tags resolved

resolving == <<current, todo, search, found>>
tagging == <<asked, frames, answer, tags>>
vars == <<models, phase, resolving, tagging>>

Ended == {"done", "unresolved", "unparsed", "untagged", "overflow"}

Universal(n) == n
Application(n) == 1000 + n
ContextSpecific(n) == 2000 + n
Private(n) == 3000 + n

-----------------------------------------------------------------------------
(* Looking names up *)

\* The import of a module that names an item: 0 or its index.
Naming(m, item) == SelectInSeq(models[m].imports, LAMBDA i : item \in i.what)

\* The module that resolve_tag goes to: the first one of that name.
TagModel(m, name) ==
    LET i == Naming(m, name)
    IN  IF i = 0 THEN 0
        ELSE SelectInSeq(models, LAMBDA other : other.name = models[m].imports[i].from)

\* The module that a ResolveScope goes to: the first one with that object
\* identifier or that name.
ModelWithImportedItem(m, item) ==
    LET i == Naming(m, item)
    IN  IF i = 0 THEN 0
        ELSE LET import == models[m].imports[i]
             IN  SelectInSeq(models, LAMBDA other :
                    \/ other.oid # NoOid /\ other.oid = import.fromOid
                    \/ other.name = import.from)

\* Where a module declares a value, or a type: 0 or the index.
Value(m, name) == SelectInSeq(models[m].values, LAMBDA v : v.name = name)
Definition(m, name) == SelectInSeq(models[m].definitions, LAMBDA d : d.name = name)

\* The names that resolving a type looks up, in that order.
ComponentLookups(c) ==
    (IF c.type.kind = "plain" THEN c.type.needs ELSE <<>>)
    \o (IF c.default = NoName THEN <<>>
        ELSE <<[wants |-> "value", name |-> c.default,
                through |-> IF c.type.kind = "reference" THEN c.type.to ELSE NoName]>>)

TypeLookups(type) ==
    CASE type.kind = "plain" -> type.needs
      [] type.kind \in {"choice", "set"} ->
           FlattenSeq([i \in DOMAIN type.of |-> ComponentLookups(type.of[i])])
      [] OTHER -> <<>>

Lookups(m) ==
    FlattenSeq([i \in DOMAIN models[m].values |-> models[m].values[i].needs])
    \o FlattenSeq([i \in DOMAIN models[m].definitions |->
                      TypeLookups(models[m].definitions[i].type)])

Init ==
    /\ models \in Programs
    /\ phase = "resolve"
    /\ current = 1
    /\ todo = Lookups(1)
    /\ search = <<>> /\ found = <<>>
    /\ asked = <<>> /\ frames = <<>> /\ answer = Pending /\ tags = <<>>

Sought == IF search[1].for = "type" THEN Head(todo).through ELSE Head(todo).name
Here == IF search[1].for = "type"
        THEN Definition(search[1].at, Sought) ELSE Value(search[1].at, Sought)

Searching(for) == <<[at |-> current, for |-> for, depth |-> 1]>>

\* A name is looked up; the DEFAULT of a component whose type is a name is
\* first taken for an item of an ENUMERATED.
StartLookup ==
    /\ phase = "resolve" /\ search = <<>> /\ todo # <<>>
    /\ search' = Searching(IF Head(todo).through = NoName THEN "value" ELSE "type")
    /\ UNCHANGED <<models, phase, current, todo, found, tagging>>

Fails(how) ==
    /\ phase' = how
    /\ UNCHANGED <<models, resolving, tagging>>

\* Mutant: the next name is searched from where this one was found.
FindsAndStays(result) ==
    /\ found' = Append(found, [model |-> current, lookup |-> Head(todo),
                               at |-> search[1].at, result |-> result])
    /\ todo' = Tail(todo)
    /\ UNCHANGED <<models, phase, current, search, tagging>>

Finds(result) ==
    /\ found' = Append(found, [model |-> current, lookup |-> Head(todo),
                               at |-> search[1].at, result |-> result])
    /\ todo' = Tail(todo)
    /\ search' = <<>>
    /\ UNCHANGED <<models, phase, current, tagging>>

LookForValueInstead ==
    /\ search' = Searching("value")
    /\ UNCHANGED <<models, phase, current, todo, found, tagging>>

AsUsize(v) == v % UsizeModulus

Item == [item |-> TRUE, v |-> 0]
Literal(v) == [item |-> FALSE, v |-> v]

\* value_reference finds the name in the module it is at.
FindValue ==
    /\ phase = "resolve" /\ search # <<>>
    /\ Here # 0 /\ search[1].for = "value"
    /\ LET value == models[search[1].at].values[Here]
           wants == Head(todo).wants
       IN  \/ wants = "value" /\ Finds(Literal(value.v))
           \/ wants # "value" /\ ~value.integer /\ Fails("unparsed")
           \/ wants = "integer" /\ value.integer /\ Finds(Literal(value.v))
           \/ wants = "size" /\ value.integer /\ Finds(Literal(AsUsize(value.v)))

\* Mutant: any default of an ENUMERATED is taken for one of its items.
FindTypeOfAnyItem ==
    /\ phase = "resolve" /\ search # <<>>
    /\ Here # 0 /\ search[1].for = "type"
    /\ IF models[search[1].at].definitions[Here].type.kind = "enumerated"
       THEN Finds(Item) ELSE LookForValueInstead

\* definition finds the type of a component with a default.
FindType ==
    /\ phase = "resolve" /\ search # <<>>
    /\ Here # 0 /\ search[1].for = "type"
    /\ LET type == models[search[1].at].definitions[Here].type
       IN  IF type.kind = "enumerated" /\ Head(todo).name \in type.items
           THEN Finds(Item)
           ELSE LookForValueInstead

\* Not here: the module that it is imported from is searched.
FollowImport ==
    /\ phase = "resolve" /\ search # <<>>
    /\ Here = 0
    /\ LET next == ModelWithImportedItem(search[1].at, Sought)
       IN  /\ next # 0
           /\ IF search[1].depth = MaxDepth THEN Fails("overflow")
              ELSE /\ search' = <<[at |-> next, for |-> search[1].for,
                                    depth |-> search[1].depth + 1]>>
                   /\ UNCHANGED <<models, phase, current, todo, found, tagging>>

\* Neither here nor imported.
Miss ==
    /\ phase = "resolve" /\ search # <<>>
    /\ Here = 0 /\ ModelWithImportedItem(search[1].at, Sought) = 0
    /\ IF search[1].for = "type" THEN LookForValueInstead ELSE Fails("unresolved")

\* What to_rust and the macros ask the TagResolver for: the tag of every
\* component, of a CHOICE without a tag also its own.
Questions(m) ==
    FlattenSeq([d \in DOMAIN models[m].definitions |->
        LET definition == models[m].definitions[d]
            type == definition.type
            of == IF type.kind \in {"choice", "set"} THEN type.of ELSE <<>>
        IN  [c \in DOMAIN of |->
                [model |-> m, definition |-> d, component |-> c, type |-> of[c].type]]
            \o IF type.kind = "choice" /\ definition.tag = NoTag
               THEN <<[model |-> m, definition |-> d, component |-> 0, type |-> type]>>
               ELSE <<>>])

\* All names of a module are resolved: on to the next one, and behind the last
\* one to the tags.
NextModel ==
    /\ phase = "resolve" /\ search = <<>> /\ todo = <<>>
    /\ IF current < Len(models)
       THEN /\ current' = current + 1
            /\ todo' = Lookups(current')
            /\ UNCHANGED <<phase, asked>>
       ELSE /\ phase' = "tag"
            /\ asked' = FlattenSeq([m \in DOMAIN models |-> Questions(m)])
            /\ UNCHANGED <<current, todo>>
    /\ UNCHANGED <<models, search, found, frames, answer, tags>>

-----------------------------------------------------------------------------
(* TagResolver *)

Top == frames[1]
Below == Tail(frames)

TypeCall(at, type) == [op |-> "type", at |-> at, type |-> type]
ReferenceCall(at, name) ==
    [op |-> "reference", at |-> at, name |-> name, from |-> "imports"]
ChoiceCall(at, type) ==
    [op |-> "choice", at |-> at, least |-> NoTag,
     left |-> SubSeq(type.of, 1, type.roots)]

Tagging == phase = "tag" /\ UNCHANGED <<models, resolving, asked, tags>>

Calls(op) == Tagging /\ frames # <<>> /\ answer = Pending /\ Top.op = op
Returned(op) == Tagging /\ frames # <<>> /\ answer # Pending /\ Top.op = op

Return(tag) == frames' = Below /\ answer' = tag /\ UNCHANGED phase
Goto(call) == frames' = <<call>> \o Below /\ answer' = Pending /\ UNCHANGED phase

Push(call) ==
    IF Len(frames) = MaxDepth
    THEN phase' = "overflow" /\ UNCHANGED <<frames, answer>>
    ELSE frames' = <<call>> \o frames /\ answer' = Pending /\ UNCHANGED phase

AskTag ==
    /\ Tagging /\ frames = <<>> /\ answer = Pending /\ asked # <<>>
    /\ frames' = <<TypeCall(Head(asked).model, Head(asked).type)>>
    /\ UNCHANGED <<phase, answer>>

\* resolve_type_tag
ResolveTypeTag ==
    /\ Calls("type")
    /\ CASE Top.type.kind = "reference" -> Goto(ReferenceCall(Top.at, Top.type.to))
         [] Top.type.kind = "choice" -> Goto(ChoiceCall(Top.at, Top.type))
         [] OTHER -> Return(Top.type.tag)

\* resolve_tag: first what is imported ...
ResolveImportedTag ==
    /\ Calls("reference") /\ Top.from = "imports"
    /\ LET next == TagModel(Top.at, Top.name)
       IN  IF next # 0 THEN Push(ReferenceCall(next, Top.name))
           ELSE Goto([Top EXCEPT !.from = "definitions"])

\* ... then what the module itself defines.
ResolveLocalTag ==
    /\ Calls("reference") /\ Top.from = "definitions"
    /\ LET d == Definition(Top.at, Top.name)
       IN  IF d = 0 THEN Return(NoTag)
           ELSE LET definition == models[Top.at].definitions[d]
                IN  IF definition.tag # NoTag THEN Return(definition.tag)
                    ELSE Push(TypeCall(Top.at, definition.type))

ReferenceReturned ==
    /\ Returned("reference")
    /\ IF answer = NoTag /\ Top.from = "imports"
       THEN Goto([Top EXCEPT !.from = "definitions"])
       ELSE Return(answer)

Least(a, b) == IF a = NoTag \/ b < a THEN b ELSE a

\* Mutant: the tag of a CHOICE is that of its first alternative.
ResolveFirstVariantTag ==
    /\ Calls("choice")
    /\ IF Top.left = <<>> \/ Top.least # NoTag THEN Return(Top.least)
       ELSE IF Head(Top.left).tag # NoTag
       THEN Goto([Top EXCEPT !.least = Least(@, Head(Top.left).tag), !.left = Tail(@)])
       ELSE Push(TypeCall(Top.at, Head(Top.left).type))

\* The alternatives of the root, one after the other.
ResolveVariantTag ==
    /\ Calls("choice")
    /\ IF Top.left = <<>> THEN Return(Top.least)
       ELSE IF Head(Top.left).tag # NoTag
       THEN Goto([Top EXCEPT !.least = Least(@, Head(Top.left).tag), !.left = Tail(@)])
       ELSE Push(TypeCall(Top.at, Head(Top.left).type))

\* Mutant: an alternative that has its tag is asked for it again.
VariantReturnedAgain ==
    /\ Returned("choice")
    /\ IF answer = NoTag THEN Return(NoTag)
       ELSE Goto([Top EXCEPT !.least = Least(@, answer)])

VariantReturned ==
    /\ Returned("choice")
    /\ IF answer = NoTag THEN Return(NoTag)
       ELSE Goto([Top EXCEPT !.least = Least(@, answer), !.left = Tail(@)])

TagAnswered ==
    /\ phase = "tag" /\ frames = <<>> /\ answer # Pending
    /\ tags' = Append(tags, [question |-> Head(asked), tag |-> answer])
    /\ asked' = Tail(asked)
    /\ answer' = Pending
    /\ UNCHANGED <<models, phase, resolving, frames>>

-----------------------------------------------------------------------------
(* What generated code is told *)

Resolved(m, d, c) ==
    tags[SelectInSeq(tags, LAMBDA t : /\ t.question.model = m
                                     /\ t.question.definition = d
                                     /\ t.question.component = c)].tag

\* assign_implicit_tags, for a type that has the first so many components: none
\* of them has a tag of its own.
Implicit(type, keep) == \A c \in 1..keep : type.of[c].tag = NoTag

\* The tag of a component in its constraint, or that sorts it.
ComponentTag(m, d, c, keep) ==
    LET type == models[m].definitions[d].type
    IN  CASE Implicit(type, keep) -> ContextSpecific(c - 1)
          [] type.of[c].tag # NoTag -> type.of[c].tag
          [] OTHER -> Resolved(m, d, c)

\* A definition for which write_complex_constraint, sort_fields_canonically or
\* write_choice_constraint panics.
Untagged(m, d) ==
    LET definition == models[m].definitions[d]
    IN  /\ definition.type.kind \in {"choice", "set"}
        /\ \/ \E c \in DOMAIN definition.type.of :
                 ComponentTag(m, d, c, Len(definition.type.of)) = NoTag
           \/ /\ definition.type.kind = "choice" /\ definition.tag = NoTag
              /\ Resolved(m, d, 0) = NoTag

Generate ==
    /\ phase = "tag" /\ asked = <<>>
    /\ phase' = IF \E m \in DOMAIN models :
                       \E d \in DOMAIN models[m].definitions : Untagged(m, d)
                THEN "untagged" ELSE "done"
    /\ UNCHANGED <<models, resolving, tagging>>

\* Mutant: additions are sorted in between the components of the root.
SortedWithoutRoot(m, d, keep) ==
    SetToSortSeq(1..keep, LAMBDA a, b :
        \/ ComponentTag(m, d, a, keep) < ComponentTag(m, d, b, keep)
        \/ ComponentTag(m, d, a, keep) = ComponentTag(m, d, b, keep) /\ a < b)

\* sort_fields_canonically, for the first so many components of a SET.
Sorted(m, d, keep) ==
    LET extended(c) == c > models[m].definitions[d].type.roots
    IN  SetToSortSeq(1..keep, LAMBDA a, b :
            \/ extended(b) /\ ~extended(a)
            \/ /\ extended(a) <=> extended(b)
               /\ \/ ComponentTag(m, d, a, keep) < ComponentTag(m, d, b, keep)
                  \/ ComponentTag(m, d, a, keep) = ComponentTag(m, d, b, keep) /\ a < b)

Next ==
    \/ StartLookup \/ FindValue \/ FindType \/ FollowImport \/ Miss \/ NextModel
    \/ AskTag \/ ResolveTypeTag
    \/ ResolveImportedTag \/ ResolveLocalTag \/ ReferenceReturned
    \/ ResolveVariantTag \/ VariantReturned \/ TagAnswered
    \/ Generate

Spec == Init /\ [][Next]_vars

\* The compiler is one thread that runs until it is through.
FairSpec == Spec /\ WF_vars(Next)
=============================================================================
