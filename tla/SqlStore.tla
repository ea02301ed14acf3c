------------------------------- MODULE SqlStore -------------------------------
(***************************************************************************)
(* Messages in the database of SqlSchema: generated code inserts them row  *)
(* by row and loads them again, with the synchronous client or with the    *)
(* asynchronous one, and deleting a message runs the generated triggers.   *)
(*                                                                         *)
(* A value of a struct, a choice or a tuple is a sequence with one entry   *)
(* per part, which is a sequence of elements: none for what is absent, one,*)
(* or those of a list.  An element is a number, for an enum its index, or  *)
(* the value of another type.                                              *)
(***************************************************************************)
EXTENDS SqlSchema, FiniteSets

CONSTANTS
    Clients,     \* "psql", "apsql", and "apsql direct" without a transaction
    MaxMessages, \* messages that are inserted
    Messages(_)  \* the values of the type Top of a schema

Null == -1       \* NULL in a row

VARIABLES
    client,      \* the member of Clients that is used, "" before
    rows,        \* the rows of the database, [table, cols]
    serial,      \* the last id of each table
    messages,    \* inserted so far: [value, id, ok, live]
    deleting,    \* rows that a DELETE still has to remove
    rest         \* the rows and the messages before that DELETE

vars == <<schemaVars, client, rows, serial, messages, deleting, rest>>

TypeNamed(name) == CHOOSE t \in ToSet(schema.types) : t.name = name
Top == TypeNamed(schema.top)

-----------------------------------------------------------------------------
(* Inserting.  db: [rows, serial, id, failed], id is what the last insertion *)
(* returned                                                                  *)

\* What the database does with a row; a list entry has no id.
InsertRow(db, table, cols) ==
    LET new == [table |-> table.name, cols |-> cols]
        columns == table.columns
    IN  IF \/ \E i \in DOMAIN columns : columns[i].notNull /\ cols[i] = Null
           \/ new \in db.rows
           \/ /\ table.oneNotNull # <<>>
              /\ Cardinality({i \in 2 .. Len(cols) : cols[i] # Null}) # 1
        THEN [db EXCEPT !.failed = TRUE]
        ELSE [db EXCEPT !.rows = @ \cup {new}]

InsertWithId(db, name, cols) ==
    LET id == db.serial[name] + 1
    IN  [InsertRow(db, TableNamed(name), <<id>> \o cols)
            EXCEPT !.serial[name] = id, !.id = id]

EntryTable(type, part) ==
    IF type.kind = "tuple" THEN TupleEntryName(type.name)
    ELSE ListEntryName(type.name, part.name)

\* Parts with a column in the table of the type.
Embedded(type) ==
    SelectSeq([i \in DOMAIN type.parts |-> i],
              LAMBDA i : type.kind = "choice" \/ (type.kind = "struct" /\ ~type.parts[i].list))

\* Parts with entries in a table of their own.
InEntries(type) ==
    SelectSeq([i \in DOMAIN type.parts |-> i],
              LAMBDA i : type.kind = "tuple" \/ (type.kind = "struct" /\ type.parts[i].list))

\* The INSERT of a type is no statement: it names no columns at all, or, for
\* the asynchronous client, has a parameter for a value it does not take.
NoStatement(type) ==
    \/ /\ type.kind = "struct" /\ Embedded(type) = <<>>
       /\ type.parts # <<>> \/ client # "psql"
    \/ type.kind = "tuple" /\ ~type.parts[1].list /\ client # "psql"

RECURSIVE Insert(_, _, _)

\* An element as it stands in a column, after it was inserted itself.
InsertElement(acc, part, element) ==
    IF part.of = "ref"
    THEN LET done == Insert(acc.db, TypeNamed(part.to), element)
         IN  [db |-> done, cols |-> Append(acc.cols, done.id)]
    ELSE [acc EXCEPT !.cols = Append(@, IF part.of = "null" THEN Null ELSE element)]

\* Mutant: the entries are not given the id of their list.
InsertEntryOfFirst(db, table, list, col) ==
    IF db.failed THEN db ELSE InsertRow(db, TableNamed(table), <<1, col>>)

InsertEntry(db, table, list, col) ==
    IF db.failed THEN db ELSE InsertRow(db, TableNamed(table), <<list, col>>)

\* The synchronous client inserts each element and its entry, the other one
\* all the elements (try_join_all) and then all the entries.
InsertEntries(db, type, i, elements) ==
    LET part == type.parts[i]
        list == db.id
        table == EntryTable(type, part)
        One(acc, element) ==
            LET done == InsertElement([db |-> acc, cols |-> <<>>], part, element)
            IN  InsertEntry(done.db, table, list, done.cols[1])
        all == FoldLeft(LAMBDA acc, element : InsertElement(acc, part, element),
                        [db |-> db, cols |-> <<>>], elements)
    IN  [IF client = "psql" THEN FoldLeft(One, db, elements)
         ELSE FoldLeft(LAMBDA acc, col : InsertEntry(acc, table, list, col), all.db, all.cols)
            EXCEPT !.id = list]

\* insert_with, apsql_insert: what the columns refer to, the row, the lists.
Insert(db, type, value) ==
    IF db.failed THEN db
    ELSE IF type.kind = "enum" THEN [db EXCEPT !.id = value]
    ELSE LET columns ==
                FoldLeft(LAMBDA acc, i :
                            IF value[i] = <<>> THEN [acc EXCEPT !.cols = Append(@, Null)]
                            ELSE InsertElement(acc, type.parts[i], value[i][1]),
                         [db |-> db, cols |-> <<>>], Embedded(type))
             row == IF columns.db.failed THEN columns.db
                    ELSE IF NoStatement(type) THEN [columns.db EXCEPT !.failed = TRUE]
                    ELSE InsertWithId(columns.db, Carved(type.name), columns.cols)
         IN  FoldLeft(LAMBDA acc, i : IF acc.failed THEN acc
                                      ELSE InsertEntries(acc, type, i, value[i]),
                      row, InEntries(type))

-----------------------------------------------------------------------------
(* Loading.  A list is loaded as a set, for the SELECTs have no ORDER BY    *)

Failure == [ok |-> FALSE, value |-> <<>>]
Loaded(value) == [ok |-> TRUE, value |-> value]
LoadedSet(results) ==
    IF \E r \in results : ~r.ok THEN Failure ELSE Loaded({r.value : r \in results})

RowsOf(name, column, value) ==
    {r \in rows : r.table = name /\ r.cols[column] = value}

\* Mutant: the columns are counted as if lists had one.
ColumnOfCounted(type, i) == i + 1

\* The synchronous client leaves out parts with a table of their own, the
\* asynchronous one (append_load_struct) counts them.
ColumnOf(type, i) ==
    IF client = "psql" /\ type.kind = "struct"
    THEN 1 + Cardinality({j \in 1 .. i : ~type.parts[j].list})
    ELSE i + 1

RECURSIVE Load(_, _)

LoadElement(part, col) ==
    IF part.of = "ref" THEN Load(TypeNamed(part.to), col) ELSE Loaded(col)

\* try_get: the column must exist and have the type; NULL is no value but for
\* an Option, not even for the Null of asn1rs.
LoadColumn(row, part, k) ==
    IF \/ k > Len(row.cols)
       \/ TableNamed(row.table).columns[k].sql # ToSql(part)
       \/ row.cols[k] = Null /\ ~part.opt
    THEN Failure
    ELSE IF row.cols[k] = Null THEN Loaded({})
    ELSE LoadedSet({LoadElement(part, row.cols[k])})

\* A struct selects its elements from the table as the schema names it.
LoadEntries(type, part, id) ==
    IF type.kind = "struct" /\ part.of = "ref" /\ part.to \notin TableNames
    THEN Failure
    ELSE LoadedSet({LoadElement(part, r.cols[2]) : r \in RowsOf(EntryTable(type, part), 1, id)})

LoadStruct(type, row) ==
    LET results == [i \in DOMAIN type.parts |->
                        IF type.parts[i].list
                        THEN LoadEntries(type, type.parts[i], row.cols[1])
                        ELSE LoadColumn(row, type.parts[i], ColumnOf(type, i))]
    IN  IF \E i \in DOMAIN results : ~results[i].ok THEN Failure
        ELSE Loaded([i \in DOMAIN results |-> results[i].value])

\* psql takes the first column that it can read as bytes for the chosen one;
\* apsql reads one column after the other as an INTEGER that may be NULL.
ChosenColumn(type, row) ==
    LET sql == [k \in DOMAIN row.cols |-> TableNamed(row.table).columns[k].sql]
        present == {k \in 2 .. Len(row.cols) :
                        row.cols[k] # Null /\ (client = "psql" => sql[k] = "bytea")}
        first == CHOOSE k \in present : \A l \in present : k <= l
    IN  IF present = {} THEN 0
        ELSE IF client # "psql"
                /\ \E k \in 2 .. first : sql[k] \notin {"int4", "references"}
        THEN 0
        ELSE first

LoadChoice(type, row) ==
    LET k == ChosenColumn(type, row)
        result == LoadColumn(row, type.parts[k - 1], k)
    IN  IF k = 0 \/ ~result.ok THEN Failure
        ELSE Loaded([i \in DOMAIN type.parts |-> IF i = k - 1 THEN result.value ELSE {}])

\* query_with, apsql_retrieve.
Load(type, id) ==
    IF type.kind = "enum"
    THEN IF id < type.variants THEN Loaded(id) ELSE Failure
    ELSE LET found == RowsOf(Carved(type.name), 1, id)
             row == CHOOSE r \in found : TRUE
             entries == LoadEntries(type, type.parts[1], id)
         IN  IF found = {} THEN Failure
             ELSE CASE type.kind = "struct" -> LoadStruct(type, row)
                    [] type.kind = "choice" -> LoadChoice(type, row)
                    [] type.kind = "tuple"  ->
                         IF entries.ok THEN Loaded(<<entries.value>>) ELSE Failure

-----------------------------------------------------------------------------
Init ==
    /\ SchemaInit
    /\ client = ""
    /\ rows = {}
    /\ serial = <<>>
    /\ messages = <<>>
    /\ deleting = {}
    /\ rest = <<>>

data == <<client, rows, serial, messages, deleting, rest>>

\* The last statement of the file: the tables are there, those of enums with
\* a row for each variant.
CreateDatabase ==
    /\ SchemaNext
    /\ IF phase = "create" /\ phase' = "use"
       THEN /\ client' \in Clients
            /\ rows' = UNION {{[table |-> t.name, cols |-> <<v>>] : v \in 0 .. t.variants - 1} :
                              t \in {t \in Tables : t.kind = "enum"}}
            /\ serial' = [n \in TableNames |-> 0]
            /\ UNCHANGED <<messages, deleting, rest>>
       ELSE UNCHANGED data

\* In a transaction a failure takes all of the message's rows back.
InsertMessage(value) ==
    /\ phase = "use" /\ Len(messages) < MaxMessages
    /\ LET db == Insert([rows |-> rows, serial |-> serial, id |-> 0, failed |-> FALSE],
                        Top, value)
       IN  /\ rows' = IF db.failed /\ client # "apsql direct" THEN rows ELSE db.rows
           /\ serial' = db.serial
           /\ messages' = Append(messages, [value |-> value, id |-> db.id,
                                            ok |-> ~db.failed, live |-> ~db.failed])
    /\ UNCHANGED <<schemaVars, client, deleting, rest>>

\* The program deletes the row of a message.
Delete(m) ==
    /\ phase = "use" /\ messages[m].live /\ Top.kind # "enum"
    /\ phase' = "deleting"
    /\ deleting' = RowsOf(Carved(Top.name), 1, messages[m].id)
    /\ rest' = <<rows, messages>>
    /\ messages' = [messages EXCEPT ![m].live = FALSE]
    /\ UNCHANGED <<schema, definitions, depths, frames, next, created, client, rows, serial>>

\* Rows with a reference to the row, which ON DELETE CASCADE deletes.
Cascaded(row) ==
    {r \in rows : \E k \in DOMAIN r.cols :
        /\ TableNamed(r.table).kind = "table"
        /\ TableNamed(r.table).columns[k].sql = "references"
        /\ References(TableNamed(r.table).columns[k]) = row.table
        /\ r.cols[k] = row.cols[1]}

\* The functions that the row's triggers call: of one name, the last created.
Called(row) ==
    LET functions == {i \in DOMAIN created : created[i].kind = "abandon"}
    IN  {created[CHOOSE j \in functions :
                    /\ created[j].name = created[i].name
                    /\ \A k \in functions : created[k].name = created[j].name => k <= j] :
            i \in {i \in functions : created[i].on = row.table}}

Children(row) == UNION {ToSet(f.children) : f \in Called(row)}

\* The column of the old row that a child's DELETE compares with.
Position(row, child) ==
    {k \in DOMAIN row.cols : TableNamed(row.table).columns[k].name = child.column}

Protected(name) ==
    \E i \in DOMAIN created : created[i].kind = "prevent" /\ created[i].on = name

Abandoned(row) ==
    UNION {UNION {RowsOf(c.table, 1, row.cols[k]) : k \in Position(row, c)} :
            c \in {c \in Children(row) : ~Protected(c.table)}}

TriggerFails(row) ==
    \E c \in Children(row) : Position(row, c) = {} \/ c.table \notin TableNames

\* Mutant: a row is deleted again by its own trigger.
RemainingWithRow(row) == deleting \cup Cascaded(row) \cup Abandoned(row)

Remaining(row) == (deleting \cup Cascaded(row) \cup Abandoned(row)) \ {row}

\* One row goes, in any order, and with it what refers to it and what its
\* triggers delete; where a trigger fails the statement is undone.
DeleteRow(row) ==
    /\ phase = "deleting" /\ row \in deleting
    /\ IF TriggerFails(row)
       THEN /\ rows' = rest[1]
            /\ messages' = rest[2]
            /\ deleting' = {}
       ELSE /\ rows' = rows \ {row}
            /\ deleting' = Remaining(row)
            /\ UNCHANGED messages
    /\ phase' = IF deleting' = {} THEN "use" ELSE phase
    /\ rest' = IF deleting' = {} THEN <<>> ELSE rest
    /\ UNCHANGED <<schema, definitions, depths, frames, next, created, client, serial>>

Next ==
    \/ CreateDatabase
    \/ \E value \in Messages(schema) : InsertMessage(value)
    \/ \E m \in DOMAIN messages : Delete(m)
    \/ \E row \in deleting : DeleteRow(row)

Spec == Init /\ [][Next]_vars

-----------------------------------------------------------------------------
(* Properties *)

\* A value with its lists as sets, as Load returns it.
RECURSIVE Content(_, _)
Content(type, value) ==
    IF type.kind = "enum" THEN value
    ELSE [i \in DOMAIN value |->
            {IF type.parts[i].of = "ref" THEN Content(TypeNamed(type.parts[i].to), e) ELSE e :
                e \in ToSet(value[i])}]

\* The values in a value, with their types.
RECURSIVE Within(_, _)
Within(type, value) ==
    {<<type, value>>} \cup
    IF type.kind = "enum" THEN {}
    ELSE UNION {UNION {Within(TypeNamed(type.parts[i].to), e) : e \in ToSet(value[i])} :
                i \in {i \in DOMAIN value : type.parts[i].of = "ref"}}

\* The rows of messages and of enums, each reached from the row of a message
\* by its references and by the entries of its lists.
RECURSIVE Owned(_)
Owned(found) ==
    LET referred == {r \in rows : \E f \in found : \E k \in DOMAIN f.cols :
                        /\ TableNamed(f.table).kind = "table"
                        /\ TableNamed(f.table).columns[k].sql = "references"
                        /\ References(TableNamed(f.table).columns[k]) = r.table
                        /\ f.cols[k] = r.cols[1]
                        /\ TableNamed(r.table).kind = "table"}
        entries == {r \in rows : \E f \in found :
                        /\ TableNamed(r.table).kind = "table"
                        /\ TableNamed(r.table).columns[1].name = TUPLE_LIST_ENTRY_PARENT_COLUMN
                        /\ References(TableNamed(r.table).columns[1]) = f.table
                        /\ r.cols[1] = f.cols[1]}
        more == found \cup referred \cup entries
    IN  IF more = found THEN found ELSE Owned(more)

Live == {m \in DOMAIN messages : messages[m].live}
Roots == UNION {RowsOf(Carved(Top.name), 1, messages[m].id) : m \in Live}
EnumRows ==
    UNION {{[table |-> t.name, cols |-> <<v>>] : v \in 0 .. t.variants - 1} :
            t \in {t \in Tables : t.kind = "enum"}}

TypeOK ==
    /\ phase \in {"convert", "walk", "create", "use", "deleting", "rejected", "overflow"}
    /\ next \in 1 .. Len(definitions) + Len(schema.types) + 1
    /\ \A i \in DOMAIN frames : frames[i].at \in DOMAIN definitions
    /\ \A r \in rows :
        /\ r.table \in TableNames
        /\ TableNamed(r.table).kind = "table" =>
                Len(r.cols) = Len(TableNamed(r.table).columns)
    /\ deleting \subseteq rows
    /\ phase = "deleting" <=> deleting # {}
    /\ Len(messages) <= MaxMessages

\* What insert_with cannot store: a struct whose parts are all lists, a list
\* with equal elements or with NULLs, the alternative NULL of a choice, and,
\* for the asynchronous client, a type that only names another one.
NotStored(type, value) ==
    \/ NoStatement(type)
    \/ type.kind # "enum" /\ \E i \in DOMAIN value :
        LET part == type.parts[i]
            plain == part.of # "ref" \/ TypeNamed(part.to).kind = "enum"
        IN  \/ part.list /\ plain /\ ~IsInjective(value[i])
            \/ /\ part.of = "null" /\ value[i] # <<>>
               /\ part.list \/ type.kind \in {"choice", "tuple"}

\* What query_with cannot load: a NULL, a choice that is not the octet string
\* psql looks for or not behind INTEGERs only for apsql, for apsql a part
\* behind a list, and a list of a type with a longer name.
NotLoaded(type, value) ==
    \/ /\ type.kind = "struct"
       /\ \E i \in DOMAIN value :
            \/ type.parts[i].of = "null" /\ ~type.parts[i].list
            \/ /\ client # "psql" /\ ~type.parts[i].list
               /\ \E j \in 1 .. i : type.parts[j].list
            \/ /\ type.parts[i].list /\ type.parts[i].of = "ref"
               /\ Carved(type.parts[i].to) # type.parts[i].to
    \/ /\ type.kind = "choice"
       /\ \E i \in DOMAIN value :
            /\ value[i] # <<>>
            /\ IF client = "psql" THEN type.parts[i].of # "bytes"
               ELSE \E j \in 1 .. i : type.parts[j].of \notin {"int4", "ref"}

Some(What(_, _), value) == \E n \in Within(Top, value) : What(n[1], n[2])

\* What is loaded for a message is the message, its lists in any order, however
\* many messages were stored and deleted in between (the SELECTs and the INSERTs
\* of generated code agree on tables, columns and ids).
NeverAnotherValue ==
    phase = "use" =>
        \A m \in Live :
            LET found == Load(Top, messages[m].id)
            IN  found.ok => found.value = Content(Top, messages[m].value)

\* A message is stored unless NotStored names the reason, and as long as it is
\* not deleted it can be loaded unless NotLoaded does: in no other case does
\* generated code fail, and in these it does.
StoredAndLoaded ==
    phase = "use" =>
        /\ \A m \in DOMAIN messages :
                messages[m].ok <=> ~Some(NotStored, messages[m].value)
        /\ \A m \in Live :
                Load(Top, messages[m].id).ok <=> ~Some(NotLoaded, messages[m].value)

\* Between statements the database holds the rows of the messages that are
\* stored, nothing of those that failed or were deleted, and every variant of
\* every enum; and no trigger of a DELETE fails.  Without a transaction a failed
\* insertion leaves rows behind, and names over the limit break triggers.
NothingLeftBehind ==
    /\ phase = "use" =>
        /\ EnumRows \subseteq rows
        /\ \/ rows = EnumRows \cup Owned(Roots)
           \/ client = "apsql direct" /\ \E m \in DOMAIN messages : ~messages[m].ok
    /\ phase = "deleting" =>
        \/ \A r \in deleting : ~TriggerFails(r)
        \/ LongNameReferred \/ FunctionsClash
=============================================================================
