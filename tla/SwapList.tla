------------------------------ MODULE SwapList ------------------------------
(***************************************************************************)
(* What the swapper threads of sync/good_job promise: the list changes     *)
(* only by exchanging two neighbours after its first node, in one step.    *)
(***************************************************************************)
CONSTANTS
  Nodes,
  Null,         \* what follows the last node
  InitialNext   \* the list that initStorage leaves

VARIABLE succ   \* the node that follows each node

Init == succ = InitialNext

\* The list s with the two nodes after p in each other's place.
Exchanged(s, p) ==
  LET a == s[p]
      b == s[a]
  IN  [s EXCEPT ![p] = b, ![b] = a, ![a] = s[b]]

\* Every list that one exchange makes of s.
Exchanges(s) ==
  {Exchanged(s, p) : p \in {q \in Nodes : s[q] # Null /\ s[s[q]] # Null}}

\* (s is succ, which TLC then computes once.)
Next == \E s \in {succ} : succ' \in Exchanges(s)

Spec == Init /\ [][Next]_succ
=============================================================================
