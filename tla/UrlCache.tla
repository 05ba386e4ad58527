------------------------------ MODULE UrlCache ------------------------------
(***************************************************************************)
(* What proxy/cache.c promises about which responses it keeps: a response  *)
(* is added once, at most MAX_CACHE_SIZE are kept, and one is dropped only *)
(* from a full cache, to make room.  A slot may be spoilt: it counts, but  *)
(* nobody can find the response in it.                                     *)
(***************************************************************************)
EXTENDS Naturals, FiniteSets

CONSTANTS Urls, MAX_CACHE_SIZE

VARIABLES
  cached,   \* the URLs whose responses are kept
  spoilt    \* the slots that are lost for them

vars == <<cached, spoilt>>

Used == Cardinality(cached) + Cardinality(spoilt)

Init == cached = {} /\ spoilt = {}

Add(u) ==
  /\ u \notin cached /\ Used < MAX_CACHE_SIZE
  /\ cached' = cached \cup {u} /\ UNCHANGED spoilt

Drop(u) ==
  /\ u \in cached /\ Used = MAX_CACHE_SIZE
  /\ cached' = cached \ {u} /\ UNCHANGED spoilt

Spoil(i) ==
  /\ i \notin spoilt /\ Used < MAX_CACHE_SIZE
  /\ spoilt' = spoilt \cup {i} /\ UNCHANGED cached

Recover(i) ==
  /\ i \in spoilt /\ Used = MAX_CACHE_SIZE
  /\ spoilt' = spoilt \ {i} /\ UNCHANGED cached

Next ==
  \/ \E u \in Urls : Add(u) \/ Drop(u)
  \/ \E i \in 1..MAX_CACHE_SIZE : Spoil(i) \/ Recover(i)

Spec == Init /\ [][Next]_vars
=============================================================================
