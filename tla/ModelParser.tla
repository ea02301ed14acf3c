----------------------------- MODULE ModelParser -----------------------------
(***************************************************************************)
(* Model::try_from of src/asn1rs-model/src/model/mod.rs behind the         *)
(* tokenizer: the name and object identifier of a module, the words up to  *)
(* BEGIN, then imports, definitions and value references up to END.  One   *)
(* action per turn of the loop; `?` on any reader ends with an error.      *)
(***************************************************************************)
EXTENDS TypeReaders

VARIABLES
    pos,     \* the next token
    stage,   \* "name", "oid", "begin", "body", "done" or "refused"
    model    \* what has been read

parserVars == <<pos, stage, model>>
vars == <<tokenizerVars, parserVars>>

EmptyModel ==
    [name |-> <<>>, oid |-> {}, imports |-> <<>>, definitions |-> <<>>, values |-> <<>>]

-----------------------------------------------------------------------------
(* Object identifiers and imports *)

RECURSIVE OidFrom(_, _), ImportsFrom(_, _, _)

\* A component of an object identifier.
OidComponent(p) ==
    LET name == tokens[p].text
    IN  IF ~IsText(p) THEN {}
        ELSE IF AllDigits(name)
        THEN {[v |-> [number |-> n], p |-> p + 1] : n \in ParseU64(name)}
        ELSE IF ~IsSeparator(p + 1, "(") THEN Got([name |-> name], p + 1)
        ELSE IF ~IsText(p + 2) THEN {}
        ELSE {[v |-> [name |-> name, number |-> n], p |-> q] :
                n \in ParseU64(tokens[p + 2].text), q \in After(p + 3, <<")">>)}

\* read_oid behind its brace; the end of the tokens ends it, too.
OidFrom(p, components) ==
    IF p > Len(tokens) THEN Got(components, p)
    ELSE IF IsSeparator(p, "}") THEN Got(components, p + 1)
    ELSE UNION {OidFrom(c.p, Append(components, c.v)) : c \in OidComponent(p)}

MaybeOid(p) ==
    IF IsSeparator(p, "{") THEN Map(OidFrom(p + 1, <<>>), LAMBDA o : {o}) ELSE Got({}, p)

\* read_imports.  Any token behind a name that is neither a comma nor FROM is
\* passed over.
ImportsFrom(p, what, imports) ==
    LET names == Append(what, tokens[p].text)
    IN  IF IsSeparator(p, ";") THEN Got(imports, p + 1)
        ELSE IF ~IsText(p) \/ p = Len(tokens) THEN {}
        ELSE IF IsWord(p + 1, "FROM")
        THEN UNION {UNION {ImportsFrom(o.p, <<>>, Append(imports,
                               [what |-> names, from |-> from.v, oid |-> o.v])) :
                             o \in MaybeOid(from.p)} : from \in NextText(p + 2)}
        ELSE ImportsFrom(p + 2, names, imports)

WithoutEnd(name, end) ==
    IF IsSuffix(end, name) THEN SubSeq(name, 1, Len(name) - Len(end)) ELSE name

\* make_name_nice
NiceName(name) == WithoutEnd(WithoutEnd(name, <<"_", "Module">>), <<"Module">>)

-----------------------------------------------------------------------------
(* What may stand between BEGIN and END *)

Assign == <<":", ":", "=">>

ImportsAt(p) == IF IsWord(p, "IMPORTS") THEN ImportsFrom(p + 1, <<>>, <<>>) ELSE {}

\* A colon behind the name makes it a definition.
IsDefinition(p) == ~IsWord(p, "END") /\ ~IsWord(p, "IMPORTS") /\ IsSeparator(p + 1, ":")

DefinitionAt(p) ==
    IF ~IsDefinition(p) \/ ~IsText(p) THEN {}
    ELSE UNION {UNION {Map(ReadType(t.p), LAMBDA type : <<tokens[p].text, Role(t.v, type, {})>>) :
                         t \in OptTag(q)} : q \in After(p + 1, Assign)}

ValueReferenceAt(p) ==
    IF IsWord(p, "END") \/ IsWord(p, "IMPORTS") \/ IsDefinition(p) \/ ~IsText(p) THEN {}
    ELSE UNION {UNION {Map(ReadLiteral(q), LAMBDA value :
                             [name |-> tokens[p].text, role |-> Role({}, type.v, {}), value |-> value]) :
                         q \in After(type.p, Assign)} : type \in ReadType(p + 1)}

-----------------------------------------------------------------------------

ParserInit == pos = 1 /\ stage = "name" /\ model = EmptyModel

ReadName ==
    /\ stage = "name"
    /\ \E name \in NextText(pos) : pos' = name.p /\ model' = [model EXCEPT !.name = name.v]
    /\ stage' = "oid"

ReadOid ==
    /\ stage = "oid"
    /\ \E oid \in MaybeOid(pos) : pos' = oid.p /\ model' = [model EXCEPT !.oid = oid.v]
    /\ stage' = "begin"

SkipToBegin ==
    /\ stage = "begin"
    /\ \E p \in pos .. Len(tokens) :
          /\ IsWord(p, "BEGIN") /\ \A q \in pos .. p - 1 : ~IsWord(q, "BEGIN")
          /\ pos' = p + 1
    /\ stage' = "body"
    /\ UNCHANGED model

ReadImports ==
    /\ stage = "body"
    /\ \E i \in ImportsAt(pos) :
          pos' = i.p /\ model' = [model EXCEPT !.imports = @ \o i.v]
    /\ UNCHANGED stage

ReadDefinition ==
    /\ stage = "body"
    /\ \E d \in DefinitionAt(pos) :
          pos' = d.p /\ model' = [model EXCEPT !.definitions = Append(@, d.v)]
    /\ UNCHANGED stage

ReadValueReference ==
    /\ stage = "body"
    /\ \E v \in ValueReferenceAt(pos) :
          pos' = v.p /\ model' = [model EXCEPT !.values = Append(@, v.v)]
    /\ UNCHANGED stage

\* END, whatever follows it: make_names_nice for the names of modules.
ReadEnd ==
    /\ stage = "body" /\ IsWord(pos, "END")
    /\ pos' = pos + 1
    /\ model' = [model EXCEPT !.name = NiceName(@),
                              !.imports = [i \in DOMAIN @ |->
                                             [@[i] EXCEPT !.from = NiceName(@)]]]
    /\ stage' = "done"

\* No reader has a result: an error, and no model.
Refuse ==
    /\ \/ stage = "name" /\ NextText(pos) = {}
       \/ stage = "oid" /\ MaybeOid(pos) = {}
       \/ stage = "begin" /\ \A p \in pos .. Len(tokens) : ~IsWord(p, "BEGIN")
       \/ /\ stage = "body" /\ ~IsWord(pos, "END")
          /\ ImportsAt(pos) = {} /\ DefinitionAt(pos) = {} /\ ValueReferenceAt(pos) = {}
    /\ stage' = "refused"
    /\ UNCHANGED <<pos, model>>

Parse ==
    \/ ReadName \/ ReadOid \/ SkipToBegin \/ ReadImports \/ ReadDefinition
    \/ ReadValueReference \/ ReadEnd \/ Refuse

FrontendInit == Init /\ ParserInit

\* The tokens are complete before the parser takes the first.
FrontendNext ==
    \/ Tokenize /\ UNCHANGED parserVars
    \/ Tokenized /\ Parse /\ UNCHANGED tokenizerVars

FrontendSpec == FrontendInit /\ [][FrontendNext]_vars
=============================================================================
