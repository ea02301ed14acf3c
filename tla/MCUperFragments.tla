--------------------------- MODULE MCUperFragments ---------------------------
(* Encodings of octet and bit strings at the edges of every length form. *)
EXTENDS UperFragments

Lengths == {0, 1, 2, 3, 127, 128, 16383, 16384, 16385, 32768, 65535, 65536,
            65537, 81920, 131072, 131077, 4194303, 4194304, 4210688, 5242880}

\* No SIZE; SIZE(0); fixed sizes below and from 64K; two sizes below 64K; a
\* range up to 64K and more; a lower bound alone.
Bounds == {<<NoBound, NoBound>>, <<0, 0>>, <<1, 1>>, <<16384, 16384>>,
           <<65535, 65535>>, <<65536, 65536>>, <<1, 2>>, <<0, 65535>>,
           <<2, 65535>>, <<0, 65536>>, <<2, 65536>>, <<1, Unlimited>>}

Case(k, b, e, n, v) ==
    [kind |-> k, min |-> b[1], max |-> b[2], extensible |-> e, len |-> n, valid |-> v]

AllCases ==
    {Case(k, b, e, n, TRUE) : k \in {"octets", "bits", "elements", "characters"},
                              b \in Bounds, e \in BOOLEAN, n \in Lengths}
    \cup {Case("characters", b, FALSE, 2, FALSE) : b \in Bounds}
    \cup {Case("open", <<NoBound, NoBound>>, FALSE, n, TRUE) : n \in Lengths}
=============================================================================
