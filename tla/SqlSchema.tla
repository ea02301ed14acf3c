------------------------------ MODULE SqlSchema ------------------------------
(***************************************************************************)
(* From the Rust model of a schema to a database: Model::convert_rust_to_- *)
(* sql makes tables, indexes, trigger functions and rules of every type,   *)
(* fix_table_declaration_occurrence sorts them by the depth that a walk    *)
(* along the references finds, and the generated file is executed.         *)
(*                                                                         *)
(* A name is a sequence of words <<initial, rest>>: the initial is what    *)
(* sql_definition_name keeps of a word (no lower case letter), the rest    *)
(* its lower case letters.                                                 *)
(***************************************************************************)
EXTENDS Integers, Sequences, SequencesExt, FiniteSets

CONSTANTS
    Schemas,   \* the schemas: [types, top]
    MaxDepth   \* frames of walk_graph that the stack has room for

TYPENAME_LENGTH_LIMIT_PSQL == 63

VARIABLES
    schema,       \* the member of Schemas
    phase,        \* "convert", "walk", "create", "use", ...
    definitions,  \* Model<Sql>::definitions
    depths,       \* the map depth of fix_table_declaration_occurrence
    frames,       \* calls of walk_graph to be made, [at, depth], the next one first
    next,         \* index of the next type, definition or statement
    created       \* the definitions that the database has executed

schemaVars == <<schema, phase, definitions, depths, frames, next, created>>

\* What the Rust model of a module is made of.
AnyName == Seq(STRING \X STRING)
Capital == [a |-> "A", b |-> "B", c |-> "C", i |-> "I"]
PartName == (DOMAIN Capital) \X STRING
AnyPart ==
    [name : PartName, of : {"int4", "text", "bytes", "null", "ref"},
     to : AnyName, opt : BOOLEAN, list : BOOLEAN]
AnyType ==
    [name : AnyName, kind : {"struct", "choice", "tuple"}, parts : Seq(AnyPart)]
        \cup [name : AnyName, kind : {"enum"}, variants : Nat]

\* A name refers to a type of the schema, the parts of a type have names of
\* their own, and a tuple has one.  No identifier ends with a hyphen.
ASSUME SchemasAssumption ==
    \A s \in Schemas :
        /\ s.types \in Seq(AnyType)
        /\ \A t \in {t \in ToSet(s.types) : t.kind # "enum"} :
            /\ \A i \in DOMAIN t.parts :
                /\ t.parts[i].of = "ref" => \E u \in ToSet(s.types) : u.name = t.parts[i].to
                /\ t.parts[i].name # <<"i", "d_">>
                /\ \A j \in DOMAIN t.parts : t.parts[i].name = t.parts[j].name => i = j
            /\ t.kind = "tuple" => Len(t.parts) = 1

\* The stack has room for the walk along a path that meets no type twice.
ASSUME DepthAssumption ==
    MaxDepth \in Nat /\ \A s \in Schemas : Len(s.types) < MaxDepth

\* The elements of the sequence that are in the set, in order.
Kept(s, set) ==
    LET kept[k \in 0 .. Len(s)] ==
            IF k = 0 THEN <<>>
            ELSE IF s[k] \in set THEN Append(kept[k - 1], s[k]) ELSE kept[k - 1]
    IN  kept[Len(s)]

-----------------------------------------------------------------------------
(* Names *)

NoRest == ""
Letters(rest) == IF rest = NoRest THEN 0 ELSE Len(rest)

Size(name) ==
    LET upTo[k \in 0 .. Len(name)] ==
            IF k = 0 THEN 0 ELSE upTo[k - 1] + 1 + Letters(name[k][2])
    IN  upTo[Len(name)]

\* The name without the lower case letters of its first k - 1 words.
CarvedBefore(name, k) ==
    [i \in DOMAIN name |-> IF i < k THEN <<name[i][1], NoRest>> ELSE name[i]]

\* sql_definition_name.
Carved(name) ==
    LET fitting == {k \in DOMAIN name :
                        Size(CarvedBefore(name, k)) <= TYPENAME_LENGTH_LIMIT_PSQL}
        least == CHOOSE k \in fitting : \A l \in fitting : k <= l
        initials == CarvedBefore(name, Len(name) + 1)
    IN  IF Size(name) <= TYPENAME_LENGTH_LIMIT_PSQL THEN name
        ELSE IF fitting # {} THEN CarvedBefore(name, least)
        ELSE IF Len(name) <= TYPENAME_LENGTH_LIMIT_PSQL THEN initials
        ELSE SubSeq(initials, 1, TYPENAME_LENGTH_LIMIT_PSQL)

FOREIGN_KEY_DEFAULT_COLUMN == <<"i", "d">>
TUPLE_LIST_ENTRY_PARENT_COLUMN == <<"l", "ist">>
TUPLE_LIST_ENTRY_VALUE_COLUMN == <<"v", "alue">>
Underline == <<"_", NoRest>>

\* sql_column_name.
ColumnName(part) ==
    IF part = FOREIGN_KEY_DEFAULT_COLUMN THEN <<"i", "d_">> ELSE part

ListEntryName(struct, part) ==
    Carved(struct \o <<Underline, <<Capital[part[1]], part[2]>>>>)

TupleEntryName(name) == Carved(name \o <<<<"L", "ist">>, <<"E", "ntry">>>>)

-----------------------------------------------------------------------------
(* Conversion of types *)

\* The column type of a part, without NOT NULL.
ToSql(part) ==
    IF part.list THEN "array"
    ELSE CASE part.of = "int4"  -> "int4"
           [] part.of = "text"  -> "text"
           [] part.of = "bytes" -> "bytea"
           [] part.of = "null"  -> "bytea"
           [] part.of = "ref"   -> "references"

Column(name, sql, to, notNull) ==
    [name |-> name, sql |-> sql, to |-> to, notNull |-> notNull]
Id == Column(FOREIGN_KEY_DEFAULT_COLUMN, "serial", <<>>, TRUE)
PartColumn(part, notNull) == Column(ColumnName(part.name), ToSql(part), part.to, notNull)

Table(name, columns, oneNotNull) ==
    [kind |-> "table", name |-> name, columns |-> columns, oneNotNull |-> oneNotNull]
Index(table, column) ==
    [kind |-> "index", on |-> table, column |-> column,
     name |-> Carved(table \o <<Underline, <<"I", "ndex">>, <<"_", column[1] \o column[2]>>>>)]
\* children: the columns of the table and the tables they refer to
AbandonChildren(table, children) ==
    [kind |-> "abandon", on |-> table, children |-> children,
     name |-> Carved(<<<<"D", "el">>, <<"C", "hilds">>, Underline>> \o table)]
PreventDelete(table) ==
    [kind |-> "prevent", on |-> table,
     name |-> Carved(<<<<"S", "ilently">>, <<"P", "revent">>, <<"A", "ny">>,
                       <<"D", "elete">>, <<"O", "n">>>> \o table)]

\* An entry deletes what it refers to.
AbandonValue(entry, part) ==
    IF part.of = "ref"
    THEN <<AbandonChildren(entry, <<[column |-> TUPLE_LIST_ENTRY_VALUE_COLUMN,
                                     table |-> part.to]>>)>>
    ELSE <<>>

\* add_list_table: both columns are the primary key.
ListTable(table, entry, part) ==
    <<Table(entry, <<Column(TUPLE_LIST_ENTRY_PARENT_COLUMN, "references", table, TRUE),
                     Column(TUPLE_LIST_ENTRY_VALUE_COLUMN, ToSql([part EXCEPT !.list = FALSE]),
                            part.to, TRUE)>>, <<>>),
      Index(entry, TUPLE_LIST_ENTRY_PARENT_COLUMN),
      Index(entry, TUPLE_LIST_ENTRY_VALUE_COLUMN)>>
    \o AbandonValue(entry, part)

IndexesAndAbandon(table, parts) ==
    LET refs == Kept(parts, {part \in ToSet(parts) : part.of = "ref" /\ ~part.list})
    IN  [i \in DOMAIN refs |-> Index(table, ColumnName(refs[i].name))]
        \o IF refs = <<>> THEN <<>>
           ELSE <<AbandonChildren(table, [i \in DOMAIN refs |->
                    [column |-> ColumnName(refs[i].name), table |-> refs[i].to]])>>

StructToTable(table, parts) ==
    LET embedded == Kept(parts, {part \in ToSet(parts) : ~part.list})
        lists == Kept(parts, {part \in ToSet(parts) : part.list})
    IN  <<Table(table, <<Id>> \o [i \in DOMAIN embedded |->
                    PartColumn(embedded[i], ~embedded[i].opt /\ embedded[i].of # "null")], <<>>)>>
        \o IndexesAndAbandon(table, parts)
        \o FlattenSeq([i \in DOMAIN lists |->
                ListTable(table, ListEntryName(table, lists[i].name), lists[i])])

DataEnumToTable(table, parts) ==
    LET hasId == \E i \in DOMAIN parts : parts[i].name = FOREIGN_KEY_DEFAULT_COLUMN
    IN  <<Table(table,
                (IF hasId THEN <<>> ELSE <<Id>>)
                \o [i \in DOMAIN parts |-> PartColumn(parts[i], FALSE)],
                [i \in DOMAIN parts |-> parts[i].name])>>
        \o IndexesAndAbandon(table, parts)

\* Mutant: nothing keeps the rows of an enum from being deleted.
EnumToTableUnprotected(table, variants) ==
    <<[kind |-> "enum", name |-> table, variants |-> variants]>>

EnumToTable(table, variants) ==
    <<[kind |-> "enum", name |-> table, variants |-> variants], PreventDelete(table)>>

DefinitionToSql(type) ==
    LET table == Carved(type.name)
    IN  CASE type.kind = "struct" -> StructToTable(table, type.parts)
          [] type.kind = "choice" -> DataEnumToTable(table, type.parts)
          [] type.kind = "enum"   -> EnumToTable(table, type.variants)
          [] type.kind = "tuple"  -> <<Table(table, <<Id>>, <<>>)>>
                \o ListTable(table, TupleEntryName(table), type.parts[1])

SchemaInit ==
    /\ schema \in Schemas
    /\ phase = "convert"
    /\ definitions = <<>>
    /\ depths = <<>>
    /\ frames = <<>>
    /\ next = 1
    /\ created = <<>>

Convert ==
    /\ phase = "convert"
    /\ IF next <= Len(schema.types)
       THEN /\ definitions' = definitions \o DefinitionToSql(schema.types[next])
            /\ next' = next + 1
            /\ UNCHANGED phase
       ELSE /\ phase' = "walk"
            /\ next' = 1
            /\ UNCHANGED definitions
    /\ UNCHANGED <<schema, depths, frames, created>>

-----------------------------------------------------------------------------
(* fix_table_declaration_occurrence *)

\* The names a definition is walked on from, as they are written in it.
WalkedNames(definition) ==
    CASE definition.kind = "table" ->
            LET refs == Kept(definition.columns,
                             {c \in ToSet(definition.columns) : c.sql = "references"})
            IN  [i \in DOMAIN refs |-> refs[i].to]
      [] definition.kind = "enum" -> <<>>
      [] OTHER -> <<definition.on>>

\* walk_from_name: a call for the first definition of that name.
CallsFor(name, depth) ==
    LET named == {i \in DOMAIN definitions : definitions[i].name = name}
    IN  IF named = {} THEN <<>>
        ELSE <<[at |-> CHOOSE i \in named : \A j \in named : i <= j, depth |-> depth]>>

\* Mutant: what a definition refers to is put no deeper than itself.
DepthOfCallSame(depth) == depth

DepthOfCall(depth) == depth + 1

StartWalk ==
    /\ phase = "walk" /\ frames = <<>> /\ next <= Len(definitions)
    /\ frames' = <<[at |-> next, depth |-> 0]>>
    /\ next' = next + 1
    /\ UNCHANGED <<schema, phase, definitions, depths, created>>

WalkGraph ==
    /\ phase = "walk" /\ frames # <<>>
    /\ LET call == Head(frames)
           name == definitions[call.at].name
           depth == IF name \in DOMAIN depths /\ depths[name] >= call.depth
                    THEN depths[name] ELSE call.depth
           names == WalkedNames(definitions[call.at])
       IN  /\ depths' = [n \in DOMAIN depths \cup {name} |->
                            IF n = name THEN depth ELSE depths[n]]
           /\ frames' = FlattenSeq([i \in DOMAIN names |->
                                        CallsFor(names[i], DepthOfCall(depth))])
                        \o Tail(frames)
           /\ phase' = IF depth > MaxDepth THEN "overflow" ELSE phase
    /\ UNCHANGED <<schema, definitions, next, created>>

\* The deepest first; what has the same depth stays in order.
Before(i, j) ==
    LET depth(k) == depths[definitions[k].name]
    IN  depth(i) > depth(j) \/ (depth(i) = depth(j) /\ i < j)

AtPlace(place) ==
    CHOOSE j \in DOMAIN definitions :
        Cardinality({i \in DOMAIN definitions : Before(i, j)}) = place - 1

SortDefinitions ==
    /\ phase = "walk" /\ frames = <<>> /\ next > Len(definitions)
    /\ definitions' = [place \in DOMAIN definitions |-> definitions[AtPlace(place)]]
    /\ phase' = "create"
    /\ next' = 1
    /\ UNCHANGED <<schema, depths, frames, created>>

-----------------------------------------------------------------------------
(* The database executes the file, one definition after the other *)

Relations == {created[i].name : i \in {i \in DOMAIN created :
                created[i].kind \in {"table", "enum", "index"}}}
Tables == {created[i] : i \in {i \in DOMAIN created : created[i].kind \in {"table", "enum"}}}
TableNames == {t.name : t \in Tables}
TableNamed(name) == CHOOSE t \in Tables : t.name = name

\* REFERENCES carves the name of the table it gives.
References(column) == Carved(column.to)

Executable(definition) ==
    CASE definition.kind = "table" ->
            LET names == [i \in DOMAIN definition.columns |-> definition.columns[i].name]
            IN  /\ definition.name \notin Relations
                /\ IsInjective(names)
                /\ ToSet(definition.oneNotNull) \subseteq ToSet(names)
                /\ \A c \in ToSet(definition.columns) :
                    /\ c.sql # "array"  \* an array of NOT NULL elements is no type
                    /\ c.sql = "references" => References(c) \in TableNames
      [] definition.kind \in {"enum", "index"} ->
            /\ definition.name \notin Relations
            /\ definition.kind = "index" => definition.on \in TableNames
      [] OTHER -> definition.on \in TableNames

Execute ==
    /\ phase = "create"
    /\ IF next > Len(definitions)
       THEN phase' = "use" /\ UNCHANGED <<next, created>>
       ELSE IF Executable(definitions[next])
       THEN created' = Append(created, definitions[next]) /\ next' = next + 1 /\ UNCHANGED phase
       ELSE phase' = "rejected" /\ UNCHANGED <<next, created>>
    /\ UNCHANGED <<schema, definitions, depths, frames>>

SchemaNext == Convert \/ StartWalk \/ WalkGraph \/ SortDefinitions \/ Execute

SchemaSpec == SchemaInit /\ [][SchemaNext]_schemaVars

-----------------------------------------------------------------------------
(* What the file promises *)

Refs(type) ==
    IF type.kind = "enum" THEN {} ELSE {p.to : p \in {p \in ToSet(type.parts) : p.of = "ref"}}

TypeNames == {t.name : t \in ToSet(schema.types)}

\* The types that the tables of this name refer to; lists are in tables of
\* their own.
RefersTo(name) ==
    UNION {{p.to : p \in {p \in ToSet(t.parts) : p.of = "ref" /\ ~p.list}} :
            t \in {t \in ToSet(schema.types) : t.name = name /\ t.kind \in {"struct", "choice"}}}

\* The least set with these names that is closed under RefersTo.
Reached(names) ==
    {n \in TypeNames : \A closed \in SUBSET TypeNames :
        names \subseteq closed /\ (\A m \in closed : RefersTo(m) \subseteq closed) => n \in closed}

\* Tables that refer to each other in a circle.
Circular == \E n \in TypeNames : n \in Reached(RefersTo(n))

\* walk_graph looks for the name as written, which no table has.
LongNameReferred ==
    \E t \in ToSet(schema.types) : \E name \in Refs(t) : Carved(name) # name

AlternativeNotSupported ==
    \E t \in ToSet(schema.types) :
        t.kind = "choice" /\ \E p \in ToSet(t.parts) :
            p.list \/ p.name = FOREIGN_KEY_DEFAULT_COLUMN

NamesClash ==
    \E i, j \in DOMAIN definitions :
        /\ i # j /\ definitions[i].name = definitions[j].name
        /\ definitions[i].kind \in {"table", "enum", "index"}
        /\ definitions[j].kind \in {"table", "enum", "index"}

\* Trigger functions of two tables that are one after carving.
FunctionsClash ==
    \E i, j \in DOMAIN definitions :
        /\ i # j /\ definitions[i].name = definitions[j].name
        /\ definitions[i].kind = "abandon" /\ definitions[j].kind = "abandon"

\* A trigger function with the name of a table, which walk_graph may take for it.
FunctionNamedAsTable ==
    \E i, j \in DOMAIN definitions :
        /\ definitions[i].name = definitions[j].name
        /\ definitions[i].kind \in {"table", "enum"}
        /\ definitions[j].kind \in {"abandon", "prevent"}

\* The generated file can be executed, and the walk ends, for every schema
\* that has none of the five things named above, and not for one with a circle,
\* an alternative that is not supported or a clash of names: each table is
\* created before it is referred to, whatever the order of the types
\* (fix_table_declaration_occurrence).
CreatedAsDeclared ==
    /\ phase = "overflow" => Circular \/ NamesClash \/ FunctionNamedAsTable
    /\ phase = "rejected" => \/ LongNameReferred \/ AlternativeNotSupported
                             \/ NamesClash \/ FunctionNamedAsTable
    /\ phase = "use" => ~(Circular \/ AlternativeNotSupported \/ NamesClash)

=============================================================================
