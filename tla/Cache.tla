------------------------------- MODULE Cache -------------------------------
(***************************************************************************)
(* The response cache of the proxy, proxy/cache.c, as steps of the threads *)
(* that call it (Proxy gives the rest of those threads).  add_to_cache     *)
(* takes cache_mutex; get_data_from_cache does not, and hands out the      *)
(* pointer kept in the cache, so each access of either is a step.  Slots   *)
(* are numbered from 1.                                                    *)
(***************************************************************************)
EXTENDS Integers, FiniteSets

CONSTANTS
  Threads,         \* every thread of the proxy
  Requests,
  Reference,       \* extractReference: what the cache knows a request by
  Urls,            \* references that the cache may be asked for ...
  Long,            \* ... those that do not fit in url[MAX_URL_LEN]
  Torn,            \* a URL in the middle of strcpy; what freed memory holds
  Garbled,         \* a long URL with its tail overwritten by item.data
  Records,         \* memory for MemStructs; free() makes it reusable
  NULL,            \* the null pointer, nobody, nothing
  MAX_CACHE_SIZE,
  MAX_HITS         \* bound: an item's count stays there

ASSUME CacheAssumption ==
  /\ Reference \in [Requests -> Urls \cup {NULL}] /\ Long \subseteq Urls
  /\ NULL \notin Threads \cup Urls \cup Records \cup Requests
  /\ Torn \notin Urls \cup Requests \cup {NULL}
  /\ Garbled \notin Urls \cup {NULL, Torn}
  /\ MAX_CACHE_SIZE \in Nat \ {0} /\ MAX_HITS \in Nat \ {0}

VARIABLES
  slot,         \* cache->cache
  count,        \* cache->count
  cache_mutex,  \* the thread that holds it, or NULL
  live,         \* records (MemStructs) malloc'ed and not freed
  content,      \* the request whose response a record holds, NULL when empty
  buffers,      \* how many buffers for responses are allocated ...
  lost,         \* ... and how many of them no record points to any more
  destroyed,    \* the cache itself has been freed
  evicted,      \* a cached response has been replaced by another
  pc,           \* what each thread does next
  local         \* the local variables of each thread's call

heap == <<live, content, buffers, lost, destroyed>>
cacheVars == <<slot, count, cache_mutex, evicted, heap>>

Slots == 1..MAX_CACHE_SIZE

\* initialize_cache
CacheInit ==
  /\ slot = [i \in Slots |-> [url |-> NULL, data |-> NULL, count |-> 0]]
  /\ count = 0 /\ cache_mutex = NULL
  /\ live = {} /\ content = [r \in Records |-> NULL]
  /\ buffers = 0 /\ lost = 0 /\ destroyed = FALSE /\ evicted = FALSE

Goto(t, from, to, l) ==
  /\ pc[t] = from
  /\ pc' = [pc EXCEPT ![t] = to]
  /\ local' = [local EXCEPT ![t] = l]
-----------------------------------------------------------------------------
(* get_data_from_cache: rec is the result, i the loop variable.             *)

\* The reference that the call is about.
Url(l) == Reference[l.request]

Calling(l) == [l EXCEPT !.i = 1, !.rec = NULL]

\* i < cache->count, strcmp and, if it finds the URL, the load of the item's
\* count.  A torn array may compare either way, a garbled one is no URL.
LookAt(t) ==
  LET l == local[t] IN
  /\ pc[t] = "lookup"
  /\ \/ l.i > count /\ Goto(t, "lookup", "found", [l EXCEPT !.i = 0])
     \/ /\ l.i <= count /\ slot[l.i].url \in {Url(l), Torn}
        /\ Goto(t, "lookup", "bump", [l EXCEPT !.reg = slot[l.i].count])
     \/ /\ l.i <= count /\ slot[l.i].url # Url(l)
        /\ Goto(t, "lookup", "lookup", [l EXCEPT !.i = @ + 1])
  /\ UNCHANGED cacheVars

\* The store of count++.
Bump(t) ==
  LET l == local[t] IN
  /\ Goto(t, "bump", "take", l)
  /\ slot' = [slot EXCEPT ![l.i].count = IF l.reg < MAX_HITS THEN l.reg + 1
                                         ELSE MAX_HITS]
  /\ UNCHANGED <<count, cache_mutex, evicted, heap>>

\* return cache->cache[i].data
Take(t) ==
  LET l == local[t] IN
  /\ Goto(t, "take", "found", [l EXCEPT !.rec = slot[l.i].data,
                                        !.i = 0, !.reg = 0])
  /\ UNCHANGED cacheVars

get_data_from_cache(t) == LookAt(t) \/ Bump(t) \/ Take(t)
-----------------------------------------------------------------------------
(* add_to_cache(cache, Url(local[t]), local[t].rec); the caller goes on with *)
(* a lookup.                                                                *)

\* BUG (mutant): the cache is not searched again before adding.
Known_Never(u) == FALSE

Known(u) == \E i \in 1..count : slot[i].url = u

\* BUG (mutant): the last slot is never used.
HasRoom_OffByOne == count < MAX_CACHE_SIZE - 1

HasRoom == count < MAX_CACHE_SIZE

Lock(t) == cache_mutex = NULL /\ cache_mutex' = t

\* BUG (mutant): the cached record is freed instead of the new one.
AddKnown_FreesOther(t) ==
  /\ Goto(t, "add", "lookup", Calling(local[t]))
  /\ cache_mutex = NULL /\ Known(Url(local[t]))
  /\ live' = live \ {slot[i].data : i \in {j \in 1..count :
                                        slot[j].url = Url(local[t])}}
  /\ buffers' = buffers - 1
  /\ UNCHANGED <<slot, count, cache_mutex, evicted, content, lost, destroyed>>

\* The mutex is free, and the search finds the URL: the new record and
\* its buffer are freed.
AddKnown(t) ==
  /\ Goto(t, "add", "lookup", Calling(local[t]))
  /\ cache_mutex = NULL /\ Known(Url(local[t]))
  /\ live' = live \ {local[t].rec} /\ buffers' = buffers - 1
  /\ UNCHANGED <<slot, count, cache_mutex, evicted, content, lost, destroyed>>

\* The mutex is taken, and the search does not find the URL.
AddLock(t) ==
  /\ Goto(t, "add", IF HasRoom THEN "insert" ELSE "scan",
          [local[t] EXCEPT !.i = 1])
  /\ ~Known(Url(local[t]))
  /\ Lock(t)
  /\ UNCHANGED <<slot, count, evicted, heap>>

\* What an item's array holds when item.data is set after strcpy: the tail of
\* a long URL lies where the pointer is.
Stored(l) == IF Url(l) \in Long THEN Garbled ELSE Url(l)

Item(l) == [url |-> Stored(l), data |-> l.rec, count |-> 1]

\* BUG (mutant): the mutex is not released after an insertion.
Insert_Locked(t) ==
  /\ Goto(t, "insert", "lookup", Calling(local[t]))
  /\ slot' = [slot EXCEPT ![count + 1] = Item(local[t])]
  /\ count' = count + 1
  /\ UNCHANGED <<cache_mutex, evicted, heap>>

\* BUG (mutant): the new slot is not counted.
Insert_NotCounted(t) ==
  /\ Goto(t, "insert", "lookup", Calling(local[t]))
  /\ slot' = [slot EXCEPT ![count + 1] = Item(local[t])]
  /\ cache_mutex' = NULL
  /\ UNCHANGED <<count, evicted, heap>>

\* The next slot is filled; count++ shows it to the lookups.
Insert(t) ==
  /\ Goto(t, "insert", "lookup", Calling(local[t]))
  /\ slot' = [slot EXCEPT ![count + 1] = Item(local[t])]
  /\ count' = count + 1
  /\ cache_mutex' = NULL
  /\ UNCHANGED <<evicted, heap>>

\* The search for the least count: reg is min, victim is minInd.
Scan(t) ==
  LET l == local[t] IN
  /\ IF l.i > count THEN Goto(t, "scan", "evict", [l EXCEPT !.i = 0])
     ELSE Goto(t, "scan", "scan",
               IF l.i = 1 \/ slot[l.i].count < l.reg
               THEN [l EXCEPT !.i = @ + 1, !.reg = slot[l.i].count,
                              !.victim = l.i]
               ELSE [l EXCEPT !.i = @ + 1])
  /\ UNCHANGED cacheVars

\* strcpy overwrites the URL, and is done.  (What else it overwrites if the
\* URL is long shows in EvictData, and in FollowsWild of Proxy.)
EvictUrl(t) ==
  /\ Goto(t, "evict", "copied", local[t])
  /\ slot' = [slot EXCEPT ![local[t].victim].url = Torn]
  /\ evicted' = TRUE
  /\ UNCHANGED <<count, cache_mutex, heap>>

EvictCopied(t) ==
  /\ Goto(t, "copied", "free", local[t])
  /\ slot' = [slot EXCEPT ![local[t].victim].url = Url(local[t])]
  /\ UNCHANGED <<count, cache_mutex, evicted, heap>>

\* free of the old MemStruct; the buffer it points to is not freed.
EvictFree(t) ==
  /\ Goto(t, "free", "data", local[t])
  /\ live' = live \ {slot[local[t].victim].data} /\ lost' = lost + 1
  /\ UNCHANGED <<slot, count, cache_mutex, evicted, content, buffers, destroyed>>

\* BUG (mutant): the freed record stays in the slot.
EvictData_Kept(t) ==
  /\ Goto(t, "data", "reset", local[t])
  /\ UNCHANGED cacheVars

EvictData(t) ==
  /\ Goto(t, "data", "reset", local[t])
  /\ slot' = [slot EXCEPT ![local[t].victim].data = local[t].rec,
                          ![local[t].victim].url = Stored(local[t])]
  /\ UNCHANGED <<count, cache_mutex, evicted, heap>>

\* count = 1, and the mutex is released.
EvictReset(t) ==
  /\ Goto(t, "reset", "lookup",
          [Calling(local[t]) EXCEPT !.victim = 0, !.reg = 0])
  /\ slot' = [slot EXCEPT ![local[t].victim].count = 1]
  /\ cache_mutex' = NULL
  /\ UNCHANGED <<count, evicted, heap>>

add_to_cache(t) ==
  \/ AddKnown(t) \/ AddLock(t) \/ Insert(t) \/ Scan(t) \/ EvictUrl(t)
  \/ EvictCopied(t) \/ EvictFree(t) \/ EvictData(t) \/ EvictReset(t)

\* The loop and the free of destroy_cache: the records and their buffers, and
\* the cache.
FreeCache ==
  /\ live' = live \ {slot[i].data : i \in 1..count}
  /\ buffers' = buffers - count
  /\ destroyed' = TRUE
  /\ UNCHANGED <<slot, count, evicted, content, lost>>

\* destroy_cache as one step, for a thread that is not interrupted in it.
destroy_cache == cache_mutex = NULL /\ FreeCache /\ UNCHANGED cache_mutex
-----------------------------------------------------------------------------
Adding == {"insert", "scan", "evict", "copied", "free", "data", "reset"}

CacheTypeOK ==
  /\ slot \in [Slots -> [url : Urls \cup {Torn, Garbled, NULL},
                         data : Records \cup {NULL}, count : 0..MAX_HITS]]
  /\ count \in 0..MAX_CACHE_SIZE
  /\ cache_mutex \in Threads \cup {NULL}
  /\ live \subseteq Records
  /\ content \in [Records -> Requests \cup {NULL}]
  /\ buffers \in Int /\ lost \in Nat
  /\ destroyed \in BOOLEAN /\ evicted \in BOOLEAN

\* Two fetches of one URL may both get as far as add_to_cache; still no URL
\* is in two slots (cache.c:35-45), so a lookup never finds a stale copy
\* behind a fresh one.
OneCopyPerUrl ==
  \A i, j \in 1..count :
    slot[i].url = slot[j].url => i = j \/ slot[i].url = Garbled

\* The slot that is being evicted, if any.
Victims == {local[t].victim : t \in {u \in Threads :
              pc[u] \in {"copied", "free", "data"}}}

\* The response to a request with the reference u.
ResponseTo(q, u) == q \in Requests /\ Reference[q] = u

\* Outside the slot being replaced, what the cache holds for a URL is a
\* response to a request with that reference, in memory that has not been
\* freed.
EntriesSound ==
  destroyed \/ \A i \in (1..count) \ Victims :
    /\ slot[i].data \in live
    /\ slot[i].url = Garbled \/ ResponseTo(content[slot[i].data], slot[i].url)

\* cache.c keeps the set of responses that UrlCache describes.  A slot with a
\* long URL is of no use to it.
Store == INSTANCE UrlCache WITH
  Urls <- Urls \ Long,
  cached <- {slot[i].url : i \in 1..count} \cap (Urls \ Long),
  spoilt <- {i \in 1..count : slot[i].url \in Long \cup {Garbled}}
CacheSpec == Store!Spec
=============================================================================
