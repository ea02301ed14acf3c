--------------------------- MODULE MCProtobufCodec ---------------------------
(* Messages for ProtobufRoundTrip: the kinds of components next to and      *)
(* inside of each other, and peers of other versions.                       *)
EXTENDS ProtobufRoundTrip

Leaf(kind) == [kind |-> kind]
Enumerated(n) == [kind |-> "enumerated", variants |-> n]
Optional(t) == [kind |-> "optional", of |-> t]
List(t) == [kind |-> "list", of |-> t]
Sequence(ts) == [kind |-> "sequence", of |-> ts]
Set(ts, tags, root) == [kind |-> "set", of |-> ts, tags |-> tags, root |-> root]
Choice(ts) == [kind |-> "choice", of |-> ts]

Number == Leaf("number")
Signed == Leaf("signed")
Boolean == Leaf("boolean")
Bytes == Leaf("bytes")
Bits == Leaf("bits")
Null == Leaf("null")

\* A message read as the type it has.
Own(t, v) == [type |-> t, readAs |-> t, value |-> v]
Other(t, r, v) == [type |-> t, readAs |-> r, value |-> v]

Inner == Sequence(<<Number, Optional(Bytes)>>)
Either == Choice(<<Number, Bytes, Inner, Null, List(Number)>>)

\* A mandatory and an optional component of each kind between two numbers.
Between(t, v) == Own(Sequence(<<Number, t, Signed>>), <<200, v, -3>>)
Present(t, v) == Own(Sequence(<<Number, Optional(t), Optional(Signed)>>),
                     <<0, <<v>>, <<-70>>>>)

\* Kinds of components with their values, empty and default ones included.
Components == <<
    <<Number, 0>>, <<Number, 16384>>, <<Signed, 64>>, <<Boolean, FALSE>>,
    <<Boolean, TRUE>>, <<Bytes, <<>>>>, <<Bytes, <<8, 1>>>>,
    <<Bits, <<<<160>>, 3>>>>, <<Bits, <<<<>>, 0>>>>, <<Enumerated(3), 2>>,
    <<Null, "null">>,
    <<Inner, <<0, <<>>>>>>, <<Inner, <<7, <<<<16, 2>>>>>>>>,
    <<Sequence(<<>>), <<>>>>,
    <<Sequence(<<Null, Number>>), <<"null", 5>>>>,
    <<Set(<<Number, Boolean, Bytes>>, <<2, 1, 0>>, 2), <<9, TRUE, <<3>>>>>>,
    <<Either, <<0, 0>>>>, <<Either, <<1, <<1>>>>>>, <<Either, <<2, <<3, <<>>>>>>>>,
    <<Either, <<3, "null">>>>, <<Either, <<4, <<>>>>>>, <<Either, <<4, <<5>>>>>>,
    <<Either, <<4, <<5, 6>>>>>>,
    <<List(Number), <<>>>>, <<List(Number), <<0, 300>>>>,
    <<List(Bytes), <<<<>>, <<1, 2>>>>>>, <<List(Inner), <<<<1, <<>>>>, <<2, <<<<>>>>>>>>>>,
    <<List(Enumerated(2)), <<1, 0>>>>,
    <<List(Either), <<<<0, 1>>, <<2, <<0, <<<<7>>>>>>>>>>>>, <<List(Null), <<"null">>>>,
    <<List(Null), <<>>>>,
    <<List(List(Number)), <<>>>>, <<List(List(Number)), <<<<1>>>>>>
>>

\* Roots, nested messages, and peers of an older or a newer version.
Old == Sequence(<<Number, Inner>>)
New == Sequence(<<Number, Sequence(<<Number, Optional(Bytes), List(Bytes)>>),
                  Optional(Either), Enumerated(2), Inner, Null>>)
NewerBits == Sequence(<<Number, Inner, Bits>>)
NewerChoice == Sequence(<<Number, Inner, Either>>)
OldValue == <<4, <<5, <<>>>>>>
NewValue == <<4, <<5, <<<<1>>>>, <<<<2>>, <<>>>>>>, <<<<1, <<6>>>>>>, 1, <<7, <<>>>>, "null">>

Special == <<
    Own(Either, <<0, 300>>), Own(Either, <<1, <<>>>>), Own(Either, <<2, <<1, <<>>>>>>),
    Own(Either, <<3, "null">>), Own(Enumerated(3), 1),
    Own(Choice(<<Either, Bytes>>), <<0, <<1, <<9>>>>>>),
    Own(Choice(<<List(Bytes), Number>>), <<0, <<<<1>>, <<2>>>>>>),
    Own(Sequence(<<Null, Optional(Null), Null>>), <<"null", <<>>, "null">>),
    Own(Sequence(<<Number, Optional(Null)>>), <<1, <<"null">>>>),
    Own(Sequence(<<Optional(Null), Number>>), <<<<"null">>, 1>>),
    Own(Sequence(<<Optional(Null), Optional(Number), Number>>),
        <<<<"null">>, <<>>, 5>>),
    Own(Sequence(<<Optional(Null), Optional(Null), Number>>),
        <<<<"null">>, <<>>, 5>>),
    Own(Sequence(<<Optional(Either), Optional(List(Number)), Optional(Inner)>>),
        <<<<>>, <<>>, <<>>>>),
    Own(Sequence(<<Optional(List(Number)), Bytes>>), <<<<<<>>>>, <<1>>>>),
    Own(New, NewValue),
    Other(Old, New, OldValue), Other(New, Old, NewValue),
    Other(Old, NewerBits, OldValue), Other(Old, NewerChoice, OldValue)
>>

\* Two components before a third, in every order: those that use a tag and
\* those that do not, present and absent, nested and plain.
Neighbours == <<
    <<Number, 0>>, <<Bytes, <<1>>>>, <<Null, "null">>,
    <<Optional(Null), <<>>>>, <<Optional(Null), <<"null">>>>,
    <<Optional(Number), <<>>>>, <<Optional(Number), <<6>>>>,
    <<Optional(Bytes), <<<<8, 2>>>>>>,
    <<List(Number), <<>>>>, <<List(Number), <<1, 2>>>>,
    <<Inner, <<7, <<<<1>>>>>>>>, <<Optional(Inner), <<<<0, <<>>>>>>>>,
    <<Either, <<1, <<2>>>>>>, <<Either, <<4, <<5, 6>>>>>>,
    <<List(Either), <<<<0, 1>>, <<3, "null">>>>>>, <<List(List(Number)), <<<<>>>>>>
>>
PairMessages ==
    [n \in 1..(Len(Neighbours) * Len(Neighbours)) |->
        LET a == Neighbours[((n - 1) \div Len(Neighbours)) + 1]
            b == Neighbours[((n - 1) % Len(Neighbours)) + 1]
        IN  Own(Sequence(<<a[1], b[1], Number>>), <<a[2], b[2], 3>>)]

\* A tag that takes two bytes.
Wide == Own(Sequence([i \in 1..32 |-> Optional(Number)] \o <<Number>>),
            [i \in 1..32 |-> <<>>] \o <<8>>)

\* Messages whose generated .proto file numbers the components otherwise.
Renumbered == <<
    Own(Set(<<Number, Boolean>>, <<1, 0>>, 2), <<9, TRUE>>),
    Own(Sequence(<<Null, Number>>), <<"null", 5>>)
>>

AllMessages ==
    [i \in DOMAIN Components |-> Between(Components[i][1], Components[i][2])]
    \o [i \in DOMAIN Components |-> Present(Components[i][1], Components[i][2])]
    \o Special \o PairMessages \o <<Wide>> \o Renumbered

RECURSIVE PartsOfType(_), PartsOfValue(_, _)
PartsOfType(t) ==
    {t} \cup CASE t.kind \in {"list", "optional"} -> PartsOfType(t.of)
               [] t.kind \in {"sequence", "set", "choice"} ->
                    UNION {PartsOfType(t.of[i]) : i \in DOMAIN t.of}
               [] OTHER -> {}
PartsOfValue(t, v) ==
    {<<t, v>>} \cup
        CASE t.kind \in {"list", "optional"} ->
               UNION {PartsOfValue(t.of, v[i]) : i \in DOMAIN v}
          [] t.kind \in {"sequence", "set"} ->
               UNION {PartsOfValue(t.of[i], v[i]) : i \in DOMAIN t.of}
          [] t.kind = "choice" -> PartsOfValue(t.of[v[1] + 1], v[2])
          [] OTHER -> {}

AllTypes ==
    LET messages == AllMessages
    IN  UNION {PartsOfType(messages[i].type) \cup PartsOfType(messages[i].readAs) :
                  i \in DOMAIN messages}
AllValues ==
    LET messages == AllMessages
    IN  UNION {PartsOfValue(messages[i].type, messages[i].value) : i \in DOMAIN messages}
=============================================================================
