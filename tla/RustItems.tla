------------------------------- MODULE RustItems -------------------------------
(***************************************************************************)
(* The Rust items of a Rust model and what the macro on them reads back:   *)
(* the generator (src/asn1rs-model/src/gen/rust/mod.rs) writes the type of *)
(* every member into an attribute, and the attribute macro                 *)
(* (src/asn1rs-model/src/ast) parses it to an ASN.1 model of one           *)
(* definition.                                                             *)
(*                                                                         *)
(* The text of an attribute is the tree of its words: a word and its       *)
(* parameters.  A reader gives the set of its results, which is empty when *)
(* the macro reports an error (which one is not modelled).                 *)
(***************************************************************************)
EXTENDS RustModel

CONSTANTS
    ReservedWords  \* names that are no identifiers of Rust, the escaped ones aside

-----------------------------------------------------------------------------
(* Writing attributes *)

\* RustType::into_asn
RECURSIVE into_asn(_)
into_asn(type) ==
    CASE type.k = "vec" -> [k |-> IF type.sort THEN "set_of" ELSE "sequence_of",
                            of |-> into_asn(type.of), size |-> type.size]
      [] type.k = "option" -> [k |-> "optional", of |-> into_asn(type.of)]
      [] type.k = "default" -> [k |-> "default", of |-> into_asn(type.of), value |-> type.value]
      [] type.k = "complex" -> [k |-> "reference", to |-> type.name, tag |-> type.tag]
      [] OTHER -> type

Text(word, parameters) == [is |-> "type", word |-> word, parameters |-> parameters]

\* to_constraint_string
SizeText(size) ==
    IF size = None THEN <<>>
    ELSE LET s == Value(size)
         IN  IF s.min = s.max THEN <<[is |-> "size", bounds |-> <<s.min>>, ext |-> s.ext]>>
                              ELSE <<[is |-> "size", bounds |-> <<s.min, s.max>>, ext |-> s.ext]>>

\* A context-specific tag has no word for its class.
ClassWord == [class \in {UNIVERSAL, APPLICATION, PRIVATE} |->
    CASE class = UNIVERSAL -> "UNIVERSAL" [] class = APPLICATION -> "APPLICATION"
      [] class = PRIVATE -> "PRIVATE"]
asn_attribute_tag(tag) ==
    [is |-> "tag", number |-> tag[2],
     class |-> IF tag[1] = CONTEXT THEN <<>> ELSE <<ClassWord[tag[1]]>>]
TagText(option) == IF option = None THEN <<>> ELSE <<asn_attribute_tag(Value(option))>>

\* A literal of the code: of these kinds, or a path of the names in it.
as_rust_const_literal(value, nice) ==
    IF value.lit # "variant" THEN value
    ELSE [value EXCEPT !.path = [i \in DOMAIN @ |-> IF nice THEN rust_variant_name(@[i]) ELSE @[i]]]

RECURSIVE asn_attribute_type(_)
asn_attribute_type(type) ==
    CASE type.k \in {"boolean", "null"} -> Text(type.k, <<>>)
      [] type.k = "integer" ->
           Text("integer", <<[is |-> "range", min |-> type.min, max |-> type.max,
                              ext |-> type.ext]>>)
      [] type.k = "string" -> Text(type.charset, SizeText(type.size))
      [] type.k = "octets" -> Text("octet_string", SizeText(type.size))
      [] type.k = "bits" -> Text("bit_string", SizeText(type.size))
      [] type.k = "optional" -> Text("optional", <<asn_attribute_type(type.of)>>)
      [] type.k = "default" ->
           Text("default", <<asn_attribute_type(type.of),
                             [is |-> "literal", value |-> as_rust_const_literal(type.value, TRUE)]>>)
      [] type.k \in {"sequence_of", "set_of"} ->
           Text(type.k, SizeText(type.size) \o <<asn_attribute_type(type.of)>>)
      [] type.k = "reference" ->
           Text("complex", <<[is |-> "name", name |-> type.to]>> \o TagText(type.tag))

asn_attribute(primary, tag, after, consts) ==
    [primary |-> primary, tag |-> TagText(tag), after |-> after, consts |-> consts]

-----------------------------------------------------------------------------
(* Writing items *)

\* Mutant: the marker names the component behind it.
ExtensibleAfterNext(definition) ==
    {definition.members[i].name :
        i \in {e + 1 : e \in definition.ext} \cap DOMAIN definition.members}

\* The name of the member before the extension marker.
ExtensibleAfter(definition) ==
    {definition.members[i].name : i \in definition.ext \cap DOMAIN definition.members}

\* `fields[index]` for a marker in a struct of nothing.
Panics(definition) ==
    definition.rust = "struct" /\ ~(definition.ext \subseteq DOMAIN definition.members)

HeaderWord(definition) ==
    CASE definition.rust = "struct" -> IF definition.sort THEN "set" ELSE "sequence"
      [] definition.rust = "enum" -> "enumerated"
      [] definition.rust = "data enum" -> "choice"
      [] definition.rust = "tuple" -> "transparent"

\* The members of an item; the names of struct fields avoid keywords.
add_struct(fields) ==
    [i \in DOMAIN fields |->
        [name |-> GeneratedFieldName(fields[i].name),
         attribute |-> asn_attribute(asn_attribute_type(into_asn(fields[i].type)),
                                     fields[i].tag, None, fields[i].constants)]]
add_enum(variants) == [i \in DOMAIN variants |-> [name |-> GeneratedVariantName(variants[i].name)]]
add_data_enum(variants) ==
    [i \in DOMAIN variants |->
        [name |-> GeneratedVariantName(variants[i].name),
         attribute |-> asn_attribute(asn_attribute_type(into_asn(variants[i].type)),
                                     variants[i].tag, None, <<>>)]]
add_tuple_struct(members) ==
    <<[name |-> members[1].name,
       attribute |-> asn_attribute(asn_attribute_type(into_asn(members[1].type)),
                                   None, None, members[1].constants)]>>

add_definition(definition) ==
    [name |-> definition.name,
     header |-> asn_attribute(HeaderWord(definition), definition.tag,
                              ExtensibleAfter(definition), <<>>),
     members |-> CASE definition.rust = "struct" -> add_struct(definition.members)
                   [] definition.rust = "enum" -> add_enum(definition.members)
                   [] definition.rust = "data enum" -> add_data_enum(definition.members)
                   [] definition.rust = "tuple" -> add_tuple_struct(definition.members)]

-----------------------------------------------------------------------------
(* Reading attributes *)

\* IntegerRange::parse
RangeOf(text) ==
    IF text.min \subseteq {0} /\ text.max = None THEN [min |-> None, max |-> None]
    ELSE [min |-> Or(text.min, {IF m > 0 THEN 0 ELSE -MaxI64 - 1 : m \in text.max}),
          max |-> Or(text.max, Some(MaxI64))]

\* Size::parse
SizeOf(text) ==
    [min |-> text.bounds[1], max |-> Last(text.bounds), ext |-> text.ext]
parse_opt_size_or_any(parameters) ==
    IF parameters = <<>> THEN None ELSE Some(SizeOf(parameters[1]))

\* AttrTag::parse
AttrTag(text) ==
    <<IF text.class = <<>> THEN CONTEXT
      ELSE CHOOSE c \in DOMAIN ClassWord : ClassWord[c] = text.class[1], text.number>>
OptTag(texts) == {AttrTag(texts[i]) : i \in DOMAIN texts}

\* A literal or a path of two names; a bracketed row of octets is neither.
DefaultLiteral(value) == IF value.lit = "octets" THEN {} ELSE {value}

RECURSIVE parse_type(_)
parse_type(text) ==
    LET last == Last(text.parameters)
        sized(type) == {[type EXCEPT !.size = parse_opt_size_or_any(text.parameters)]}
    IN  CASE text.word \in {"boolean", "null"} -> {[k |-> text.word]}
          [] text.word = "integer" ->
               {[k |-> "integer", min |-> RangeOf(last).min, max |-> RangeOf(last).max,
                 ext |-> last.ext, constants |-> <<>>]}
          [] text.word \in DOMAIN CharsetNumber ->
               sized([k |-> "string", charset |-> text.word, size |-> None])
          [] text.word = "octet_string" -> sized([k |-> "octets", size |-> None])
          [] text.word = "bit_string" -> sized([k |-> "bits", size |-> None, constants |-> <<>>])
          [] text.word = "optional" -> {[k |-> "optional", of |-> t] : t \in parse_type(last)}
          [] text.word = "default" ->
               {[k |-> "default", of |-> t, value |-> v] :
                   t \in parse_type(text.parameters[1]), v \in DefaultLiteral(last.value)}
          [] text.word \in {"sequence_of", "set_of"} ->
               {[k |-> text.word, of |-> t, size |-> parse_opt_size_or_any(Front(text.parameters))] :
                   t \in parse_type(last)}
          [] text.word = "complex" ->
               IF last.is # "tag" THEN {}
               ELSE {[k |-> "reference", to |-> text.parameters[1].name, tag |-> Some(AttrTag(last))]}

\* The numbers named for an INTEGER, optional or not.
RECURSIVE WithConstants(_, _)
WithConstants(type, consts) ==
    CASE type.k = "optional" -> [type EXCEPT !.of = WithConstants(@, consts)]
      [] type.k = "integer" -> [type EXCEPT !.constants = consts]
      [] OTHER -> type

\* parse_and_remove_first_asn_attribute_type and into_asn
ParsedMember(member) ==
    {[name |-> member.name, tag |-> OptTag(member.attribute.tag), default |-> None,
      type |-> WithConstants(t, member.attribute.consts)] :
        t \in parse_type(member.attribute.primary)}

\* Either all of them or nothing.
ParsedMembers(members) ==
    IF \E i \in DOMAIN members : ParsedMember(members[i]) = {} THEN {}
    ELSE {[i \in DOMAIN members |-> Value(ParsedMember(members[i]))]}

\* The first of the names that the header says, which must be there.
find_extensible_index(header, names) ==
    IF header.after = None THEN {None}
    ELSE LET found == {i \in DOMAIN names : names[i] \in header.after}
         IN  {{i} : i \in {j \in found : \A l \in found : j <= l}}

Names(members) == [i \in DOMAIN members |-> members[i].name]

Parsed(item, kind, members) ==
    {[name |-> item.name, tag |-> OptTag(item.header.tag),
      type |-> [k |-> kind, members |-> members, ext |-> ext]] :
        ext \in find_extensible_index(item.header, Names(item.members))}

parse_sequence_or_set(item, kind) ==
    UNION {Parsed(item, kind, members) : members \in ParsedMembers(item.members)}

parse_transparent(item) ==
    {[name |-> item.name, tag |-> OptTag(item.header.tag), type |-> member.type] :
        member \in ParsedMember(item.members[1])}

parse_enumerated(item) == Parsed(item, "enumerated", Names(item.members))

\* A CHOICE without a tag gets the least one of its root alternatives.
parse_choice(item) ==
    {[d EXCEPT !.tag = Or(@, resolve_default(d.type))] :
        d \in parse_sequence_or_set(item, "choice")}

\* What the macro makes of an item; the compiler refuses names that it reserves.
parse_asn_definition(item) ==
    LET word == item.header.primary
    IN  IF \E i \in DOMAIN item.members : item.members[i].name \in ReservedWords THEN {}
        ELSE CASE word \in {"sequence", "set"} -> parse_sequence_or_set(item, word)
               [] word = "transparent" -> parse_transparent(item)
               [] word = "enumerated" -> parse_enumerated(item)
               [] word = "choice" -> parse_choice(item)

\* expand: the Rust definition that the macro makes of its model, names kept;
\* there are no inline types any more.
to_rust_keep_names(definition) ==
    LET model == [imports |-> <<>>, definitions |-> <<definition>>]
        ctxt == [model |-> model, scope |-> <<>>, nice |-> FALSE]
    IN  definition_to_rust(definition.name, definition.type, definition.tag, ctxt)[1]
=============================================================================
