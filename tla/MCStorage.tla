----------------------------- MODULE MCStorage -----------------------------
(* Threads and lists for RWStorage: one thread of each kind, as main starts   *)
(* them, or fewer.                                                          *)
EXTENDS RWStorage
CONSTANTS f1, f2, f3, s1, s2, s3
None == {}
BothPrograms == {"mutex", "rwlock"}
TwoCounters == {f1, f2}
ThreeCounters == {f1, f2, f3}
TwoSwappers == {s1, s2}
ThreeSwappers == {s1, s2, s3}

Kinds == [t \in Threads |-> IF t \in {f1, s1} THEN "increase"
                            ELSE IF t \in {f2, s2} THEN "decrease"
                            ELSE "equal"]
\* The first node stays, so that two of the kinds swap wherever they arrive.
LengthsMoving == <<2, 1, 1, 1, 1, 1>>
Lengths5 == <<1, 2, 2, 1, 3>>
=============================================================================
