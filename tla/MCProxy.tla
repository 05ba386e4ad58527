------------------------------ MODULE MCProxy ------------------------------
(* Small proxies: one or two fetches at a time, memory for as many records   *)
(* as the cache and the fetches need.                                        *)
EXTENDS Proxy, TLC
CONSTANTS m, f1, f2, c1, c2, c3, u1, u2, u3, r1, r2, r3, r4,
  q1, q2, q3,   \* requests with references of their own
  same,         \* one whose reference is that of q1, up to the first 'H'
  short, hostless
TwoThreads == {m, f1}
ThreeThreads == {m, f1, f2}
TwoClients == {c1, c2}
ThreeClients == {c1, c2, c3}
ThreeUrls == {u1, u2, u3}
LongUrl == {u3}
TwoRecords == {r1, r2}
FourRecords == {r1, r2, r3, r4}

GoodRequests == {q1, q2, q3, same}
OddRequests == {q1, q2, q3, short, hostless}
References ==
  [q \in Requests |-> CASE q \in {q1, same, hostless} -> u1
                        [] q = q2 -> u2
                        [] q = q3 -> u3
                        [] OTHER -> NULL]
ShortRequests == {short} \cap Requests
HostlessRequests == {hostless} \cap Requests

\* The requests of the same reference may be exchanged.
Symmetry == Permutations(Records) \cup Permutations(Fetchers)
            \cup Permutations(Clients) \cup {q1 :> same @@ same :> q1}
=============================================================================
