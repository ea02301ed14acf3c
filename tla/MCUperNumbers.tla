---------------------------- MODULE MCUperNumbers ----------------------------
(* INTEGERs with bounds at the edges of every type, in words with octets of  *)
(* two bits (an i64 has 16), and variants around the short form of an index. *)
EXTENDS UperNumbers

Edges == {I64_MIN, I64_MIN + 1, -129, -128, -9, -2, -1, 0, 3, 4, 15, 127, 255, 256,
           I64_MAX - 1, I64_MAX}

EdgeRanges ==
    {[min |-> a, max |-> b, extensible |-> e] :
        a \in {Open} \cup Edges, b \in {Open} \cup Edges, e \in BOOLEAN}

Ordered == {r \in EdgeRanges : r.min # Open /\ r.max # Open => r.min <= r.max}

EdgeValues == Edges \cup {1, 7, 128, I64_MAX + 1, 2^WordBits - 1}

SomeVariants ==
    {v \in [std : {1, 2, 3, 5}, count : {1, 2, 3, 5, 6, 70, 300}, extensible : BOOLEAN,
            known : {1, 2, 3, 5, 66, 300}] :
        /\ v.std <= v.known /\ v.known <= v.count
        /\ v.extensible \/ v.std = v.count}
=============================================================================
