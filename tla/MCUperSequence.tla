--------------------------- MODULE MCUperSequence ---------------------------
(* Instances of UperSequence for TLC. *)
EXTENDS UperSequence

Roots(kinds, n) == UNION {[1 .. m -> kinds] : m \in 1 .. n}
Exts(n) == UNION {[1 .. m -> ExtKinds] : m \in 0 .. n}

Extensible(root, ext, peerExt) ==
    [root |-> root, ext |-> ext, peerExt |-> peerExt, extensible |-> TRUE]

\* Definitions without extension marker.
Plain ==
    {[root |-> r, ext |-> <<>>, peerExt |-> <<>>, extensible |-> FALSE] :
        r \in Roots(RootKinds, 3)}

\* Receivers that know all or fewer of the sender's additions.
SameOrOlder ==
    UNION {{Extensible(r, e, SubSeq(e, 1, n)) : n \in 0 .. Len(e)} :
              r \in Roots(RootKinds \ {"null"}, 2), e \in Exts(3)}

SamePeers == Plain \cup SameOrOlder

\* Receivers that know more additions.
NewerPeers ==
    {Extensible(<<"bool">>, e, e \o f) :
        e \in Exts(2) \ {<<>>}, f \in Exts(2) \ {<<>>}}

\* Extensible definitions with a NULL in the root.
NullPeers ==
    {Extensible(r, e, e) : r \in {<<"null">>, <<"bool", "null">>},
                           e \in Exts(1)}
=============================================================================
