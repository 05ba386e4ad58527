----------------------------- MODULE ProxyProof -----------------------------
(***************************************************************************)
(* What holds of the proxy for any numbers of threads, clients, requests,  *)
(* URLs, cache slots, permits and SIGINTs.  The invariants build on each   *)
(* other: places and types, the mutex, the URLs in the cache, the permits, *)
(* who owns which record, the sockets, and the answers.                    *)
(***************************************************************************)
EXTENDS Proxy, FiniteSetTheorems, TLAPS

-----------------------------------------------------------------------------
(* The invariants.                                                         *)

Callers == {"lookup", "bump", "take", "found"}
Evicting == {"copied", "free", "data", "reset"}
HasUrl == Callers \cup Adding \cup {"create", "connect", "relay", "failed", "add"}

MainPlaces == Callers \cup {"accept", "recv", "create", "shutdown",
                            "destroying", "returning"}
FetchPlaces == Callers \cup Adding
                 \cup {"idle", "connect", "relay", "failed", "add", "post"}

Items == [url : Urls \cup {Torn, Garbled, NULL}, data : Records \cup {NULL},
          count : 0..MAX_HITS]

Handlers == [Threads -> {"none", "entered", "freed"}]

\* The types, but for the upper bounds that come from PermitsAccounted.
Shape ==
  /\ CacheTypeOK
  /\ pc \in [Threads -> MainPlaces \cup FetchPlaces]
  /\ local \in [Threads -> Locals]
  /\ peer \in [Sockets -> Clients \cup {NULL}]
  /\ asked \in [Clients -> Requests \cup {NULL, Torn}]
  /\ got \in [Clients -> SUBSET (Requests \cup {NULL, Torn})]
  /\ thread_semaphore \in Nat /\ failures \in Nat
  /\ unconnected \in BOOLEAN /\ handler \in Handlers
  /\ process \in {"running", "exited", "crashed", "killed"}

\* Where the threads can be, and what they have there.
Places ==
  /\ pc[Main] \in MainPlaces
  /\ \A f \in Fetchers : pc[f] \in FetchPlaces
  /\ \A t \in Threads :
       /\ pc[t] \in HasUrl => local[t].request \in Requests /\ Url(local[t]) \in Urls
       /\ pc[t] \in HasUrl \cup {"recv"} => local[t].sock # NoSocket

\* The indices into the cache are in range.
Indices ==
  \A t \in Threads :
    /\ pc[t] \in {"lookup", "scan"} => local[t].i >= 1
    /\ pc[t] \in {"bump", "take"} => local[t].i \in 1..count
    /\ pc[t] = "insert" => count < MAX_CACHE_SIZE
    /\ pc[t] \in {"scan", "evict", "copied"} => count = MAX_CACHE_SIZE
    /\ pc[t] = "scan" /\ local[t].i > 1 => local[t].victim \in 1..count
    /\ pc[t] \in {"evict"} \cup Evicting => local[t].victim \in 1..count
    /\ pc[t] \in Evicting => evicted

\* No URL is in the cache twice, nor is one that is about to be added.
UrlsInv ==
  /\ OneCopyPerUrl /\ \A i \in 1..count : slot[i].url # NULL
  /\ \A t \in Threads : pc[t] \in {"insert", "scan", "evict", "copied"} =>
       \A i \in 1..count : slot[i].url # Url(local[t])
  /\ \A i \in 1..count : slot[i].url = Torn =>
       \E t \in Threads : pc[t] = "copied" /\ local[t].victim = i
  /\ \A t \in Threads : pc[t] \in {"copied", "free", "data"} =>
       slot[local[t].victim].url = IF pc[t] = "copied" THEN Torn ELSE Url(local[t])

\* Each record has one owner, a fetch or a slot, and holds the response to a
\* request with its owner's URL, unless that was too long for its array.
Kept == (1..count) \ {local[f].victim : f \in {g \in Fetchers : pc[g] = "data"}}
Clean == (1..count) \ Victims
Answers(i) == slot[i].url = Garbled \/ ResponseTo(content[slot[i].data], slot[i].url)
OwnersInv ==
  /\ \A f \in Private : local[f].rec \in live
  /\ \A f, g \in Private : local[f].rec = local[g].rec => f = g
  /\ \A i \in Kept : /\ slot[i].data \in live
                     /\ \A f \in Private : slot[i].data # local[f].rec
  /\ \A i, j \in Kept : slot[i].data = slot[j].data => i = j
  /\ \A f \in Private : pc[f] \in {"add"} \cup Adding =>
       content[local[f].rec] = local[f].request
  /\ \A i \in Clean : Answers(i)

\* A record that is allocated is in a slot or with a fetch.
NoLeak ==
  \A r \in live : \/ \E i \in Kept : slot[i].data = r
                 \/ \E f \in Private : local[f].rec = r

\* There is a buffer for every record, and for every record freed alone.
BuffersInv == IsFiniteSet(live) /\ buffers = Cardinality(live) + lost

\* A client is behind one descriptor, and only one thread has it.
SocketsInv ==
  /\ \A n, s \in Sockets : peer[n] = peer[s] /\ peer[n] # NULL => n = s
  /\ SocketsNotShared

\* While no slot has been reused, what a lookup has found is in the cache.
FoundInv ==
  \A t \in Threads :
    /\ pc[t] = "lookup" => local[t].rec = NULL
    /\ pc[t] \in {"bump", "take"} => slot[local[t].i].url = Url(local[t])
    /\ pc[t] = "found" /\ local[t].rec # NULL =>
         \E i \in 1..count :
           slot[i].url = Url(local[t]) /\ slot[i].data = local[t].rec

\* While no slot has been reused, a thread finds what it has added, if the
\* URL fitted.
AddedInv ==
  \A f \in Fetchers :
    /\ pc[f] = "lookup" /\ Url(local[f]) \notin Long =>
         \E i \in 1..count : i >= local[f].i /\ slot[i].url = Url(local[f])
    /\ pc[f] = "found" /\ Url(local[f]) \notin Long => local[f].rec # NULL

\* A client has received only responses to requests like its own, and the
\* thread that serves it works on what it has asked for.
AskedInv ==
  /\ \A c \in Clients : \A q \in got[c] :
       asked[c] \in Requests /\ ResponseTo(q, Reference[asked[c]])
  /\ \A t \in Threads : HasClient(t) =>
       asked[peer[local[t].sock]]
         = (IF pc[t] = "recv" THEN NULL ELSE local[t].request)

IInv ==
  /\ Shape /\ Places /\ Indices /\ MutexInv /\ UrlsInv
  /\ PermitsAccounted
  /\ destroyed \/ (OwnersInv /\ NoLeak /\ BuffersInv)
  /\ SocketsInv
  /\ evicted \/ destroyed \/ (FoundInv /\ AddedInv)
  /\ evicted \/ unconnected \/ destroyed \/ AskedInv
-----------------------------------------------------------------------------
(* The steps, by who takes them, with what becomes of each local variable. *)

\* t goes from one place to another, and this is what its locals are then.
Moved(t, from, to, request, sock, rec, i, victim) ==
  /\ pc[t] = from /\ pc'[t] = to
  /\ pc' \in [Threads -> MainPlaces \cup FetchPlaces]
  /\ local' \in [Threads -> Locals]
  /\ local'[t].request = request /\ local'[t].sock = sock /\ local'[t].rec = rec
  /\ local'[t].i = i /\ local'[t].victim = victim
  /\ \A u \in Threads \ {t} : pc'[u] = pc[u] /\ local'[u] = local[u]

\* Slot i gets a URL and a record.
Put(i, url, data) ==
  /\ slot' \in [Slots -> Items]
  /\ slot'[i].url = url /\ slot'[i].data = data
  /\ \A j \in Slots \ {i} : slot'[j] = slot[j]

\* The process ends, a thread is interrupted, or nothing happens.
Ends ==
  /\ process' \in {process, "killed", "exited", "crashed"}
  /\ handler' \in Handlers
  /\ UNCHANGED <<cacheVars, pc, local, peer, asked, got, permits, unconnected>>

MainStep ==
  \/ Accept \/ Recv \/ RecvNothing \/ Hit \/ Miss \/ Create \/ CreateFails
  \/ LeaveLoop
MainDone ==
  LET l == local[Main] IN
  \/ /\ \E c \in Clients, s \in Sockets :
          /\ asked[c] = NULL /\ peer[s] = NULL /\ \A n \in Sockets : peer[n] # c
          /\ Moved(Main, "accept", "recv", NULL, s, NULL, 0, 0)
          /\ peer' = [peer EXCEPT ![s] = c]
     /\ UNCHANGED <<cacheVars, asked, got, permits, status>>
  \/ /\ peer[l.sock] # NULL
     /\ \E q \in Requests :
          /\ Reference[q] \in Urls
          /\ Moved(Main, "recv", "lookup", q, l.sock, NULL, 1, l.victim)
          /\ asked' = [asked EXCEPT ![peer[l.sock]] = q]
     /\ UNCHANGED <<cacheVars, peer, got, permits, status>>
  \/ /\ Moved(Main, "recv", "accept", NULL, NoSocket, NULL, 0, 0)
     /\ asked' = [c \in Clients |-> IF c = peer[l.sock] THEN Torn ELSE asked[c]]
     /\ Close(l.sock)
     /\ UNCHANGED <<cacheVars, got, permits, status>>
  \/ /\ l.rec # NULL
     /\ Moved(Main, "found", "accept", NULL, NoSocket, NULL, 0, 0)
     /\ Write(l.sock, Held(l)) /\ Close(l.sock)
     /\ UNCHANGED <<cacheVars, asked, permits, status>>
  \/ /\ Moved(Main, "found", "create", l.request, l.sock, l.rec, l.i, l.victim)
     /\ thread_semaphore > 0 /\ thread_semaphore' = thread_semaphore - 1
     /\ UNCHANGED <<cacheVars, peer, asked, got, failures, status>>
  \/ /\ Moved(Main, "create", "accept", NULL, NoSocket, NULL, 0, 0)
     /\ failures' = failures + 1 /\ Close(l.sock)
     /\ UNCHANGED <<cacheVars, asked, got, thread_semaphore, status>>
  \/ /\ Moved(Main, "accept", "shutdown", NULL, NoSocket, NULL, 0, 0)
     /\ UNCHANGED <<cacheVars, proxyVars>>

\* Main's request becomes the fetch f.
Started(f) ==
  /\ pc[Main] = "create" /\ pc[f] = "idle"
  /\ pc' = [pc EXCEPT ![Main] = "accept", ![f] = "connect"]
  /\ local' \in [Threads -> Locals]
  /\ local'[Main] = NoLocals
  /\ local'[f].request = local[Main].request /\ local'[f].sock = local[Main].sock
  /\ \A u \in Threads \ {Main, f} : local'[u] = local[u]
  /\ UNCHANGED <<cacheVars, proxyVars>>

FetchStep(f) ==
  \/ Connect(f) \/ ConnectFailed(f) \/ Relay(f) \/ RelayFails(f)
  \/ Abandon(f) \/ Send(f) \/ Post(f)
FetchDone(f) ==
  LET l == local[f] IN
  \/ /\ \E r \in Records \ live :
          /\ Moved(f, "connect", "relay", l.request, l.sock, r, l.i, l.victim)
          /\ live' = live \cup {r} /\ content' = [content EXCEPT ![r] = NULL]
     /\ buffers' = buffers + 1
     /\ UNCHANGED <<cacheSlots, proxyVars>>
  \/ /\ \E r \in Records \ live :
          /\ Moved(f, "connect", "failed", l.request, l.sock, r, l.i, l.victim)
          /\ live' = live \cup {r} /\ content' = [content EXCEPT ![r] = NULL]
     /\ buffers' = buffers + 1
     /\ \/ Close(l.sock) /\ unconnected' = TRUE
        \/ UNCHANGED <<peer, unconnected>>
     /\ UNCHANGED <<cacheSlots, asked, got, permits, handler, process>>
  \/ /\ Moved(f, "relay", "add", l.request, l.sock, l.rec, l.i, l.victim)
     /\ content' = [content EXCEPT ![l.rec] = l.request] /\ Write(l.sock, l.request)
     /\ UNCHANGED <<cacheSlots, live, buffers, peer, asked, permits, status>>
  \/ /\ Moved(f, "relay", "failed", l.request, l.sock, l.rec, l.i, l.victim)
     /\ Write(l.sock, l.request) \/ UNCHANGED got
     /\ UNCHANGED <<cacheVars, peer, asked, permits, status>>
  \/ /\ Moved(f, "failed", "post", l.request, NoSocket, NULL, l.i, l.victim)
     /\ live' = live \ {l.rec} /\ buffers' = buffers - 1 /\ Close(l.sock)
     /\ UNCHANGED <<cacheSlots, content, asked, got, permits, status>>
  \/ /\ l.rec # NULL
     /\ Moved(f, "found", "post", l.request, NoSocket, NULL, l.i, l.victim)
     /\ Write(l.sock, Held(l)) /\ Close(l.sock)
     /\ UNCHANGED <<cacheVars, asked, permits, status>>
  \/ /\ Moved(f, "post", "idle", NULL, NoSocket, NULL, 0, 0)
     /\ thread_semaphore' = thread_semaphore + 1
     /\ UNCHANGED <<cacheVars, peer, asked, got, failures, status>>

LookStep(t) == get_data_from_cache(t) /\ UNCHANGED proxyVars
LookDone(t) ==
  LET l == local[t] IN
  /\ UNCHANGED proxyVars
  /\ \/ /\ l.i > count
        /\ Moved(t, "lookup", "found", l.request, l.sock, l.rec, 0, l.victim)
        /\ UNCHANGED cacheVars
     \/ /\ l.i <= count /\ slot[l.i].url \in {Url(l), Torn}
        /\ Moved(t, "lookup", "bump", l.request, l.sock, l.rec, l.i, l.victim)
        /\ UNCHANGED cacheVars
     \/ /\ l.i <= count /\ slot[l.i].url # Url(l)
        /\ Moved(t, "lookup", "lookup", l.request, l.sock, l.rec, l.i + 1, l.victim)
        /\ UNCHANGED cacheVars
     \/ /\ Moved(t, "bump", "take", l.request, l.sock, l.rec, l.i, l.victim)
        /\ Put(l.i, slot[l.i].url, slot[l.i].data)
        /\ UNCHANGED <<count, cache_mutex, evicted, heap>>
     \/ /\ Moved(t, "take", "found", l.request, l.sock, slot[l.i].data, 0, l.victim)
        /\ UNCHANGED cacheVars

AddStep(f) == add_to_cache(f) /\ UNCHANGED proxyVars
AddDone(f) ==
  LET l == local[f] IN
  /\ UNCHANGED <<proxyVars, destroyed>>
  /\ \/ /\ Moved(f, "add", "lookup", l.request, l.sock, NULL, 1, l.victim)
        /\ cache_mutex = NULL /\ Known(Url(l))
        /\ live' = live \ {l.rec} /\ buffers' = buffers - 1
        /\ UNCHANGED <<slot, count, cache_mutex, evicted, content, lost>>
     \/ /\ cache_mutex = NULL /\ ~Known(Url(l)) /\ cache_mutex' = f
        /\ \E to \in {IF HasRoom THEN "insert" ELSE "scan"} :
             Moved(f, "add", to, l.request, l.sock, l.rec, 1, l.victim)
        /\ UNCHANGED <<slot, count, evicted, heap>>
     \/ /\ Moved(f, "insert", "lookup", l.request, l.sock, NULL, 1, l.victim)
        /\ Put(count + 1, Stored(l), l.rec)
        /\ count' = count + 1 /\ cache_mutex' = NULL
        /\ UNCHANGED <<evicted, heap>>
     \/ /\ l.i > count /\ UNCHANGED cacheVars
        /\ Moved(f, "scan", "evict", l.request, l.sock, l.rec, 0, l.victim)
     \/ /\ l.i <= count /\ UNCHANGED cacheVars
        /\ \E v \in {l.i} \cup (IF l.i = 1 THEN {} ELSE {l.victim}) :
             Moved(f, "scan", "scan", l.request, l.sock, l.rec, l.i + 1, v)
     \/ /\ Moved(f, "evict", "copied", l.request, l.sock, l.rec, l.i, l.victim)
        /\ Put(l.victim, Torn, slot[l.victim].data) /\ evicted' = TRUE
        /\ UNCHANGED <<count, cache_mutex, heap>>
     \/ /\ Moved(f, "copied", "free", l.request, l.sock, l.rec, l.i, l.victim)
        /\ Put(l.victim, Url(l), slot[l.victim].data)
        /\ UNCHANGED <<count, cache_mutex, evicted, heap>>
     \/ /\ Moved(f, "free", "data", l.request, l.sock, l.rec, l.i, l.victim)
        /\ live' = live \ {slot[l.victim].data} /\ lost' = lost + 1
        /\ UNCHANGED <<slot, count, cache_mutex, evicted, content, buffers>>
     \/ /\ Moved(f, "data", "reset", l.request, l.sock, l.rec, l.i, l.victim)
        /\ Put(l.victim, Stored(l), l.rec)
        /\ UNCHANGED <<count, cache_mutex, evicted, heap>>
     \/ /\ Moved(f, "reset", "lookup", l.request, l.sock, NULL, 1, 0)
        /\ Put(l.victim, slot[l.victim].url, slot[l.victim].data)
        /\ cache_mutex' = NULL
        /\ UNCHANGED <<count, evicted, heap>>

\* The cache is freed, by main at its end or by a thread in the handler.
FreeStep ==
  \/ LockToDestroy \/ Destroy
  \/ \E t \in Threads :
       /\ destroy_cache /\ handler' = [handler EXCEPT ![t] = "freed"]
       /\ UNCHANGED <<pc, local, peer, asked, got, permits, unconnected, process>>
FreeDone ==
  /\ handler' \in Handlers
  /\ UNCHANGED <<slot, count, evicted, content, lost>>
  /\ UNCHANGED <<peer, asked, got, permits, unconnected, process>>
  /\ \/ /\ cache_mutex = NULL /\ cache_mutex' = Main
        /\ Moved(Main, "shutdown", "destroying", NULL, NoSocket, NULL, 0, 0)
        /\ UNCHANGED <<live, buffers, destroyed>>
     \/ /\ cache_mutex' = NULL
        /\ Moved(Main, "destroying", "returning", NULL, NoSocket, NULL, 0, 0)
        /\ live' \subseteq live /\ buffers' = buffers - count /\ destroyed' = TRUE
     \/ /\ UNCHANGED <<pc, local, cache_mutex>>
        /\ live' \subseteq live /\ buffers' = buffers - count /\ destroyed' = TRUE

\* The reference of a request and the tuple of the memory are of no interest
\* by name.
USE DEF Url, heap

\* Every step of Next is of one of these kinds.
LEMMA StepCases ==
  ASSUME Shape, [Next]_vars
  PROVE  \/ Ends \/ MainStep \/ FreeStep
         \/ \E f \in Fetchers : FetchStep(f) \/ AddStep(f)
         \/ \E t \in Threads : LookStep(t)
<1>a. handler \in Handlers
      /\ \A t \in Threads : [handler EXCEPT ![t] = "entered"] \in Handlers
  BY DEF Shape, Handlers
<1>1. CASE UNCHANGED vars
  BY <1>1, <1>a DEF vars, Ends, proxyVars, status
<1>2. CASE Accept \/ LeaveLoop
  BY <1>2 DEF MainStep
<1>3. CASE handle_client_request \/ EndOfMain
  BY <1>3, <1>a, ProxyAssumption DEF handle_client_request, EndOfMain, MainStep,
    LookStep, FreeStep, RecvShort, Return, Exit, Ends
<1>4. ASSUME NEW f \in Fetchers, fetch_and_cache_data(f)
      PROVE  Ends \/ FetchStep(f) \/ AddStep(f) \/ LookStep(f)
  <2>1. CASE SendNull(f)
    BY <2>1, <1>a DEF SendNull, Goto, Ends, Shape, Fetchers
  <2>2. CASE NoHost(f)
    BY <2>2, <1>a DEF NoHost, Ends
  <2>3. QED
    BY <1>4, <2>1, <2>2 DEF fetch_and_cache_data, FetchStep, AddStep, LookStep
<1>5. ASSUME NEW t \in Threads, UsesDestroyed(t) \/ BrokenPipe(t) \/ FollowsWild(t)
      PROVE  Ends
  BY <1>5, <1>a DEF UsesDestroyed, BrokenPipe, FollowsWild, Ends
<1>6. ASSUME NEW t \in Threads, Sigint(t) \/ signal_handler(t)
      PROVE  Ends \/ FreeStep
  BY <1>6, <1>a DEF Sigint, signal_handler, Exit, Ends, FreeStep
<1>7. QED
  BY <1>1, <1>2, <1>3, <1>4, <1>5, <1>6 DEF Next, Fetchers

-----------------------------------------------------------------------------
(* Each step does what is said above.                                      *)

\* The assumptions on the constants.
LEMMA Consts ==
  /\ MAX_CACHE_SIZE \in Nat \ {0} /\ MAX_HITS \in Nat \ {0}
  /\ MAX_USERS_COUNT \in Nat \ {0} /\ MAX_FAILURES \in Nat
  /\ Main \in Threads /\ Fetchers = Threads \ {Main} /\ Slots = 1..MAX_CACHE_SIZE
  /\ NULL \notin Threads \cup Urls \cup Records \cup Requests \cup Clients
  /\ Torn \notin Urls \cup Requests \cup {NULL}
  /\ Garbled \notin Urls \cup {NULL, Torn} /\ Long \subseteq Urls
  /\ Reference \in [Requests -> Urls \cup {NULL}]
BY CacheAssumption, ProxyAssumption DEF Fetchers, Slots

\* The locals of a thread that serves nobody.
LEMMA NoLocalsType == NoLocals \in Locals
BY CacheAssumption DEF NoLocals, Locals, NoSocket

\* What Goto does, given the type of the new locals.
LEMMA GotoMoves ==
  ASSUME Shape, NEW t \in Threads, NEW from, NEW to \in MainPlaces \cup FetchPlaces,
         NEW l \in Locals, Goto(t, from, to, l)
  PROVE  Moved(t, from, to, l.request, l.sock, l.rec, l.i, l.victim)
<1>1. pc \in [Threads -> MainPlaces \cup FetchPlaces]
      /\ local \in [Threads -> Locals]
  BY DEF Shape
<1>2. pc[t] = from /\ pc' = [pc EXCEPT ![t] = to] /\ local' = [local EXCEPT ![t] = l]
  BY DEF Goto
<1>3. QED
  BY <1>1, <1>2 DEF Moved

\* What a lookup starts with.
LEMMA CallingType ==
  ASSUME NEW l \in Locals
  PROVE  /\ Calling(l) \in Locals
         /\ Calling(l).request = l.request /\ Calling(l).sock = l.sock
         /\ Calling(l).rec = NULL /\ Calling(l).i = 1
         /\ Calling(l).reg = l.reg /\ Calling(l).victim = l.victim
<1> DEFINE m == [l EXCEPT !.i = 1]
<1>1. /\ m \in Locals
      /\ m.request = l.request /\ m.sock = l.sock /\ m.rec = l.rec /\ m.i = 1
      /\ m.reg = l.reg /\ m.victim = l.victim
  BY Consts DEF Locals
<1>2. Calling(l) = [m EXCEPT !.rec = NULL]
  BY DEF Calling
<1> HIDE DEF m
<1>3. QED
  BY Consts, <1>1, <1>2 DEF Locals

\* What the steps of main and handle_client_request do.
LEMMA MainEffect ==
  ASSUME Shape, Places, MainStep
  PROVE  MainDone \/ \E f \in Fetchers : Started(f)
<1> DEFINE l == local[Main]
           L == Locals
<1>a. l \in L /\ NoLocals \in L
  BY NoLocalsType, Consts DEF Shape
<1>b. NoLocals.request = NULL /\ NoLocals.sock = NoSocket /\ NoLocals.rec = NULL
      /\ NoLocals.i = 0 /\ NoLocals.victim = 0
  BY DEF NoLocals
<1> USE Consts
<1>1. CASE Accept
  <2>1. PICK c \in Clients, s \in Sockets \ Open :
          /\ asked[c] = NULL /\ \A n \in Sockets : peer[n] # c
          /\ Goto(Main, "accept", "recv", [NoLocals EXCEPT !.sock = s])
          /\ peer' = [peer EXCEPT ![s] = c]
          /\ UNCHANGED <<cacheVars, asked, got, permits, status>>
    BY <1>1 DEF Accept
  <2> DEFINE m == [NoLocals EXCEPT !.sock = s]
  <2>2. m \in L /\ m.request = NULL /\ m.sock = s /\ m.rec = NULL /\ m.i = 0
        /\ m.victim = 0
    BY <1>a, <1>b DEF Locals
  <2>3. Moved(Main, "accept", "recv", m.request, m.sock, m.rec, m.i, m.victim)
    BY <2>1, <2>2, GotoMoves DEF MainPlaces
  <2>4. QED
    BY <2>1, <2>2, <2>3 DEF MainDone, Open
<1>2. CASE Recv
  <2>1. PICK q \in Requests :
          /\ Reference[q] # NULL
          /\ Goto(Main, "recv", "lookup", Calling([l EXCEPT !.request = q]))
          /\ asked' = [asked EXCEPT ![peer[l.sock]] = q]
    BY <1>2 DEF Recv
  <2> DEFINE j == [l EXCEPT !.request = q]
             m == Calling(j)
  <2>2. m \in L /\ m.request = q /\ m.sock = l.sock /\ m.rec = NULL /\ m.i = 1
        /\ m.victim = l.victim
    <3>1. j \in L /\ j.request = q /\ j.sock = l.sock /\ j.victim = l.victim
      BY <1>a DEF Locals
    <3> HIDE DEF j
    <3>2. QED
      BY <3>1, CallingType
  <2>3. Goto(Main, "recv", "lookup", m)
    BY <2>1
  <2> HIDE DEF m
  <2>4. Moved(Main, "recv", "lookup", q, l.sock, NULL, 1, l.victim)
    BY <2>2, <2>3, GotoMoves DEF MainPlaces, Callers
  <2>5. /\ peer[l.sock] # NULL
        /\ UNCHANGED <<cacheVars, peer, got, permits, status>>
    BY <1>2 DEF Recv
  <2>6. Reference[q] \in Urls
    BY <2>1
  <2>7. QED
    BY <2>1, <2>4, <2>5, <2>6 DEF MainDone
<1>3. ASSUME NEW from, Goto(Main, from, "accept", NoLocals)
      PROVE  Moved(Main, from, "accept", NULL, NoSocket, NULL, 0, 0)
  BY <1>a, <1>b, <1>3, GotoMoves DEF MainPlaces
<1>4. CASE RecvNothing \/ Hit \/ CreateFails
  BY <1>3, <1>4 DEF RecvNothing, Hit, CreateFails, MainDone
<1>5. CASE Miss
  <2>1. Moved(Main, "found", "create", l.request, l.sock, l.rec, l.i, l.victim)
    BY <1>a, <1>5, GotoMoves DEF Miss, MainPlaces
  <2>2. QED
    BY <1>5, <2>1 DEF Miss, MainDone
<1>6. CASE Create
  <2>1. PICK f \in Fetchers :
          /\ pc[Main] = "create" /\ pc[f] = "idle"
          /\ pc' = [pc EXCEPT ![Main] = "accept", ![f] = "connect"]
          /\ local' = [local EXCEPT ![Main] = NoLocals,
               ![f] = [NoLocals EXCEPT !.request = l.request, !.sock = l.sock]]
          /\ UNCHANGED <<cacheVars, proxyVars>>
    BY <1>6 DEF Create
  <2> DEFINE m == [NoLocals EXCEPT !.request = l.request, !.sock = l.sock]
  <2>2. m \in L /\ m.request = l.request /\ m.sock = l.sock
    BY <1>a DEF Locals
  <2>3. local \in [Threads -> L] /\ local' = [local EXCEPT ![Main] = NoLocals, ![f] = m]
    BY <2>1 DEF Shape
  <2>4. QED
    BY ZenonT(40), <1>a, <2>1, <2>2, <2>3 DEF Started
<1>7. CASE LeaveLoop
  <2>1. Moved(Main, "accept", "shutdown", NULL, NoSocket, NULL, 0, 0)
    BY <1>a, <1>b, <1>7, GotoMoves DEF LeaveLoop, MainPlaces
  <2>2. QED
    BY <1>7, <2>1 DEF LeaveLoop, MainDone
<1>8. QED
  BY <1>1, <1>2, <1>4, <1>5, <1>6, <1>7 DEF MainStep

\* What the steps of fetch_and_cache_data do, apart from its calls.
LEMMA FetchEffect ==
  ASSUME Shape, NEW f \in Fetchers, FetchStep(f)
  PROVE  FetchDone(f)
<1> DEFINE l == local[f]
           L == Locals
<1> USE Consts
<1>a. l \in L /\ NoLocals \in L /\ NoSocket \in Sockets \cup {NoSocket}
  BY NoLocalsType DEF Shape
<1>b. NoLocals.request = NULL /\ NoLocals.sock = NoSocket /\ NoLocals.rec = NULL
      /\ NoLocals.i = 0 /\ NoLocals.victim = 0
  BY DEF NoLocals
<1>1. ASSUME NEW to \in FetchPlaces, NEW r \in Records,
             Goto(f, "connect", to, [l EXCEPT !.rec = r])
      PROVE  Moved(f, "connect", to, l.request, l.sock, r, l.i, l.victim)
  <2> DEFINE m == [l EXCEPT !.rec = r]
  <2>1. m \in L /\ m.request = l.request /\ m.sock = l.sock /\ m.rec = r /\ m.i = l.i
        /\ m.victim = l.victim
    BY <1>a DEF Locals
  <2>2. Moved(f, "connect", to, m.request, m.sock, m.rec, m.i, m.victim)
    BY <1>1, <2>1, GotoMoves
  <2>3. QED
    BY <2>1, <2>2
<1>2. ASSUME NEW from,
             Goto(f, from, "post", [l EXCEPT !.sock = NoSocket, !.rec = NULL])
      PROVE  Moved(f, from, "post", l.request, NoSocket, NULL, l.i, l.victim)
  <2> DEFINE m == [l EXCEPT !.sock = NoSocket, !.rec = NULL]
  <2>1. m \in L /\ m.request = l.request /\ m.sock = NoSocket /\ m.rec = NULL /\ m.i = l.i
        /\ m.victim = l.victim
    BY <1>a DEF Locals
  <2>2. Moved(f, from, "post", m.request, m.sock, m.rec, m.i, m.victim)
    BY <1>2, <2>1, GotoMoves DEF FetchPlaces
  <2>3. QED
    BY <2>1, <2>2
<1>3. ASSUME NEW to \in FetchPlaces, Goto(f, "relay", to, l)
      PROVE  Moved(f, "relay", to, l.request, l.sock, l.rec, l.i, l.victim)
  BY <1>a, <1>3, GotoMoves
<1>4. CASE Connect(f)
  <2>1. PICK r \in Records \ live :
          /\ Goto(f, "connect", "relay", [l EXCEPT !.rec = r])
          /\ live' = live \cup {r} /\ content' = [content EXCEPT ![r] = NULL]
          /\ buffers' = buffers + 1
          /\ UNCHANGED <<cacheSlots, proxyVars>>
    BY <1>4 DEF Connect, Allocate
  <2>2. Moved(f, "connect", "relay", l.request, l.sock, r, l.i, l.victim)
    BY <1>1, <2>1 DEF FetchPlaces
  <2>3. QED
    BY <2>1, <2>2 DEF FetchDone
<1>5. CASE ConnectFailed(f)
  <2>1. PICK r \in Records \ live :
          /\ Goto(f, "connect", "failed", [l EXCEPT !.rec = r])
          /\ live' = live \cup {r} /\ content' = [content EXCEPT ![r] = NULL]
          /\ \/ Close(l.sock) /\ unconnected' = TRUE
             \/ UNCHANGED <<peer, unconnected>>
          /\ buffers' = buffers + 1
          /\ UNCHANGED <<cacheSlots, asked, got, permits, handler, process>>
    BY <1>5 DEF ConnectFailed, Allocate
  <2>2. Moved(f, "connect", "failed", l.request, l.sock, r, l.i, l.victim)
    BY <1>1, <2>1 DEF FetchPlaces
  <2>3. QED
    BY <2>1, <2>2 DEF FetchDone
<1>6. CASE Relay(f)
  BY <1>3, <1>6 DEF Relay, FetchDone, FetchPlaces
<1>7. CASE RelayFails(f)
  BY <1>3, <1>7 DEF RelayFails, FetchDone, FetchPlaces
<1>8. CASE Abandon(f)
  BY <1>2, <1>8 DEF Abandon, FetchDone
<1>9. CASE Send(f)
  BY <1>2, <1>9 DEF Send, FetchDone
<1>10. CASE Post(f)
  <2>1. Moved(f, "post", "idle", NULL, NoSocket, NULL, 0, 0)
    <3>1. Goto(f, "post", "idle", NoLocals)
      BY <1>10 DEF Post
    <3>2. Moved(f, "post", "idle", NoLocals.request, NoLocals.sock, NoLocals.rec,
                NoLocals.i, NoLocals.victim)
      BY <1>a, <3>1, GotoMoves DEF FetchPlaces
    <3>3. QED
      BY <1>b, <3>2
  <2>2. QED
    BY <1>10, <2>1 DEF Post, FetchDone
<1>11. QED
  BY <1>4, <1>5, <1>6, <1>7, <1>8, <1>9, <1>10 DEF FetchStep

\* The locals with one of them changed.
LEMMA WithI ==
  ASSUME NEW l \in Locals, NEW x \in 0 .. MAX_CACHE_SIZE + 1
  PROVE  LET m == [l EXCEPT !.i = x] IN
         /\ m \in Locals
         /\ m.request = l.request /\ m.sock = l.sock /\ m.rec = l.rec
         /\ m.i = x /\ m.reg = l.reg /\ m.victim = l.victim
BY DEF Locals

\* Storing a record in a local variable.
LEMMA WithRec ==
  ASSUME NEW l \in Locals, NEW x \in Records \cup {NULL}
  PROVE  LET m == [l EXCEPT !.rec = x] IN
         /\ m \in Locals
         /\ m.request = l.request /\ m.sock = l.sock /\ m.rec = x
         /\ m.i = l.i /\ m.reg = l.reg /\ m.victim = l.victim
BY DEF Locals

\* Loading a use count into a local variable.
LEMMA WithReg ==
  ASSUME NEW l \in Locals, NEW x \in 0..MAX_HITS
  PROVE  LET m == [l EXCEPT !.reg = x] IN
         /\ m \in Locals
         /\ m.request = l.request /\ m.sock = l.sock /\ m.rec = l.rec
         /\ m.i = l.i /\ m.reg = x /\ m.victim = l.victim
BY DEF Locals

\* Remembering an item as the least used one.
LEMMA WithVictim ==
  ASSUME NEW l \in Locals, NEW x \in 0..MAX_CACHE_SIZE
  PROVE  LET m == [l EXCEPT !.victim = x] IN
         /\ m \in Locals
         /\ m.request = l.request /\ m.sock = l.sock /\ m.rec = l.rec
         /\ m.i = l.i /\ m.reg = l.reg /\ m.victim = x
BY DEF Locals

\* What storing in one field of a slot does.
LEMMA PutField ==
  ASSUME Shape, NEW i \in Slots
  PROVE  /\ \A u \in Urls \cup {Torn, Garbled, NULL} :
              slot' = [slot EXCEPT ![i].url = u] => Put(i, u, slot[i].data)
         /\ \A d \in Records \cup {NULL} :
              slot' = [slot EXCEPT ![i].data = d] => Put(i, slot[i].url, d)
         /\ \A n \in 0..MAX_HITS :
              slot' = [slot EXCEPT ![i].count = n]
                => Put(i, slot[i].url, slot[i].data)
<1> slot \in [Slots -> Items]
  BY DEF Shape, CacheTypeOK, Items
<1> QED
  BY DEF Put, Items

\* What replacing the data and the URL of a slot does.
LEMMA PutBoth ==
  ASSUME Shape, NEW i \in Slots, NEW d \in Records \cup {NULL},
         NEW u \in Urls \cup {Torn, Garbled, NULL},
         slot' = [slot EXCEPT ![i].data = d, ![i].url = u]
  PROVE  Put(i, u, d)
<1> DEFINE s == [slot EXCEPT ![i].data = d]
<1>1. slot \in [Slots -> Items]
  BY DEF Shape, CacheTypeOK, Items
<1>2. /\ s \in [Slots -> Items] /\ s[i].data = d
      /\ \A j \in Slots \ {i} : s[j] = slot[j]
  BY <1>1 DEF Items
<1>3. slot' = [s EXCEPT ![i].url = u]
  OBVIOUS
<1> HIDE DEF s
<1>4. [s[i] EXCEPT !.url = u] \in Items /\ [s[i] EXCEPT !.url = u].url = u
      /\ [s[i] EXCEPT !.url = u].data = d
  BY <1>2 DEF Items
<1>5. slot' \in [Slots -> Items] /\ slot'[i] = [s[i] EXCEPT !.url = u]
      /\ \A j \in Slots \ {i} : slot'[j] = s[j]
  BY <1>2, <1>3, <1>4
<1>6. QED
  BY <1>2, <1>4, <1>5 DEF Put

\* What the steps of get_data_from_cache do.
LEMMA LookEffect ==
  ASSUME Shape, Indices, NEW t \in Threads, LookStep(t)
  PROVE  LookDone(t)
<1> DEFINE l == local[t]
           L == Locals
<1> USE Consts
<1>a. l \in L /\ count \in 0..MAX_CACHE_SIZE /\ slot \in [Slots -> Items]
      /\ l.rec \in Records \cup {NULL} /\ l.i \in 0 .. MAX_CACHE_SIZE + 1
      /\ l.reg \in 0..MAX_HITS
  BY DEF Shape, CacheTypeOK, Items, Locals
<1>b. UNCHANGED proxyVars /\ get_data_from_cache(t)
  BY DEF LookStep
<1>1. CASE LookAt(t)
  <2>a. l.i >= 1 /\ UNCHANGED cacheVars
    BY <1>1 DEF LookAt, Indices
  <2>1. CASE l.i > count /\ Goto(t, "lookup", "found", [l EXCEPT !.i = 0])
    <3> DEFINE m == [l EXCEPT !.i = 0]
    <3>1. m \in L /\ m.request = l.request /\ m.sock = l.sock /\ m.rec = l.rec
          /\ m.i = 0 /\ m.victim = l.victim
      BY <1>a, WithI
    <3>2. Goto(t, "lookup", "found", m)
      BY <2>1
    <3> HIDE DEF m
    <3>3. Moved(t, "lookup", "found", l.request, l.sock, l.rec, 0, l.victim)
      BY <3>1, <3>2, GotoMoves DEF FetchPlaces, Callers
    <3>4. QED
      BY <1>b, <2>a, <2>1, <3>3 DEF LookDone
  <2>2. CASE /\ l.i <= count /\ slot[l.i].url \in {Url(l), Torn}
             /\ Goto(t, "lookup", "bump", [l EXCEPT !.reg = slot[l.i].count])
    <3>1. slot[l.i].count \in 0..MAX_HITS
      BY <1>a, <2>a, <2>2 DEF Items
    <3>2. /\ [l EXCEPT !.reg = slot[l.i].count] \in L
          /\ LET m == [l EXCEPT !.reg = slot[l.i].count] IN m.request = l.request
               /\ m.sock = l.sock /\ m.rec = l.rec /\ m.i = l.i
               /\ m.victim = l.victim
      BY <1>a, <3>1 DEF Locals
    <3>3. Moved(t, "lookup", "bump", l.request, l.sock, l.rec, l.i, l.victim)
      BY <2>2, <3>2, GotoMoves DEF FetchPlaces, Callers
    <3>4. QED
      BY <1>b, <2>a, <2>2, <3>3 DEF LookDone
  <2>3. CASE /\ l.i <= count /\ slot[l.i].url # Url(l)
             /\ Goto(t, "lookup", "lookup", [l EXCEPT !.i = @ + 1])
    <3> DEFINE m == [l EXCEPT !.i = l.i + 1]
    <3>1. l.i + 1 \in 0 .. MAX_CACHE_SIZE + 1
      BY <1>a, <2>3
    <3>2. Goto(t, "lookup", "lookup", m)
      BY <2>3
    <3>3. m \in L /\ m.request = l.request /\ m.sock = l.sock /\ m.rec = l.rec
          /\ m.i = l.i + 1 /\ m.victim = l.victim
      BY <1>a, <3>1, WithI
    <3> HIDE DEF m
    <3>4. Moved(t, "lookup", "lookup", l.request, l.sock, l.rec, l.i + 1, l.victim)
      BY <3>2, <3>3, GotoMoves DEF FetchPlaces, Callers
    <3>5. QED
      BY <1>b, <2>a, <2>3, <3>4 DEF LookDone
  <2>4. QED
    BY <1>1, <2>1, <2>2, <2>3 DEF LookAt
<1>2. CASE Bump(t)
  <2>1. /\ Goto(t, "bump", "take", l)
        /\ UNCHANGED <<count, cache_mutex, evicted, heap>>
        /\ slot' = [slot EXCEPT ![l.i].count = IF l.reg < MAX_HITS THEN l.reg + 1
                                               ELSE MAX_HITS]
    BY <1>2 DEF Bump
  <2>2. (IF l.reg < MAX_HITS THEN l.reg + 1 ELSE MAX_HITS) \in 0..MAX_HITS
    BY <1>a
  <2>3. l.i \in Slots
    BY <1>a, <2>1 DEF Indices, Goto
  <2>4. Put(l.i, slot[l.i].url, slot[l.i].data)
    BY <2>1, <2>2, <2>3, PutField
  <2>5. Moved(t, "bump", "take", l.request, l.sock, l.rec, l.i, l.victim)
    BY <1>a, <2>1, GotoMoves DEF FetchPlaces, Callers
  <2>6. QED
    BY <1>b, <2>1, <2>4, <2>5 DEF LookDone
<1>3. CASE Take(t)
  <2>1. /\ Goto(t, "take", "found", [l EXCEPT !.rec = slot[l.i].data,
                                              !.i = 0, !.reg = 0])
        /\ UNCHANGED cacheVars
    BY <1>3 DEF Take
  <2>2. l.i \in Slots
    BY <1>a, <2>1 DEF Indices, Goto
  <2>3. slot[l.i].data \in Records \cup {NULL}
    BY <1>a, <2>2 DEF Items
  <2> DEFINE j == [l EXCEPT !.rec = slot[l.i].data]
             k == [j EXCEPT !.i = 0]
             m == [k EXCEPT !.reg = 0]
  <2>4. Goto(t, "take", "found", m)
    BY <2>1
  <2>5. j \in L /\ j.request = l.request /\ j.sock = l.sock /\ j.rec = slot[l.i].data
        /\ j.victim = l.victim
    BY <1>a, <2>3, WithRec
  <2> HIDE DEF j
  <2>6. k \in L /\ k.request = l.request /\ k.sock = l.sock /\ k.rec = slot[l.i].data
        /\ k.i = 0 /\ k.victim = l.victim
    BY <2>5, WithI
  <2> HIDE DEF k
  <2>a. m \in L /\ m.request = l.request /\ m.sock = l.sock /\ m.rec = slot[l.i].data
        /\ m.i = 0 /\ m.victim = l.victim
    BY <2>6, WithReg
  <2> HIDE DEF m
  <2>7. Moved(t, "take", "found", l.request, l.sock, slot[l.i].data, 0, l.victim)
    BY <2>4, <2>a, GotoMoves DEF FetchPlaces, Callers
  <2>8. QED
    BY <1>b, <2>1, <2>7 DEF LookDone
<1>4. QED
  BY <1>b, <1>1, <1>2, <1>3 DEF get_data_from_cache

\* What the steps of add_to_cache do.
LEMMA AddEffect ==
  ASSUME Shape, Places, Indices, NEW f \in Fetchers, AddStep(f)
  PROVE  AddDone(f)
<1> DEFINE l == local[f]
           L == Locals
<1> USE Consts
<1>a. l \in L /\ count \in 0..MAX_CACHE_SIZE /\ slot \in [Slots -> Items]
      /\ l.rec \in Records \cup {NULL} /\ l.i \in 0 .. MAX_CACHE_SIZE + 1
      /\ l.reg \in 0..MAX_HITS /\ l.victim \in 0..MAX_CACHE_SIZE
  BY DEF Shape, CacheTypeOK, Items, Locals
<1>u. pc[f] \in HasUrl =>
        /\ Url(l) \in Urls /\ Stored(l) \in Urls \cup {Torn, Garbled, NULL}
  BY DEF Places, Stored, Fetchers
<1>h. pc[f] \in {"add", "insert", "copied", "data"} => pc[f] \in HasUrl
  BY DEF HasUrl, Adding
<1>b. UNCHANGED proxyVars /\ add_to_cache(f)
  BY DEF AddStep
<1>c. /\ Calling(l) \in L
      /\ Calling(l).request = l.request /\ Calling(l).sock = l.sock
      /\ Calling(l).rec = NULL /\ Calling(l).i = 1 /\ Calling(l).victim = l.victim
  BY <1>a, CallingType
<1>d. ASSUME NEW from, Goto(f, from, "lookup", Calling(l))
      PROVE  Moved(f, from, "lookup", l.request, l.sock, NULL, 1, l.victim)
  <2> HIDE DEF l
  <2>1. Moved(f, from, "lookup", Calling(l).request, Calling(l).sock,
              Calling(l).rec, Calling(l).i, Calling(l).victim)
    BY <1>c, <1>d, GotoMoves DEF FetchPlaces, Callers
  <2>2. QED
    BY <1>c, <2>1
<1>e. ASSUME NEW from, NEW to \in FetchPlaces, Goto(f, from, to, l)
      PROVE  Moved(f, from, to, l.request, l.sock, l.rec, l.i, l.victim)
  BY <1>a, <1>e, GotoMoves
<1>f. ASSUME NEW from, NEW to \in FetchPlaces, NEW x \in 0 .. MAX_CACHE_SIZE + 1,
             Goto(f, from, to, [l EXCEPT !.i = x])
      PROVE  Moved(f, from, to, l.request, l.sock, l.rec, x, l.victim)
  <2> DEFINE m == [l EXCEPT !.i = x]
  <2>1. m \in L /\ m.request = l.request /\ m.sock = l.sock /\ m.rec = l.rec
        /\ m.i = x /\ m.victim = l.victim
    BY <1>a, WithI
  <2>2. Goto(f, from, to, m)
    BY <1>f
  <2> HIDE DEF m
  <2>3. QED
    BY <2>1, <2>2, GotoMoves
<1>g. Adding \subseteq FetchPlaces
  BY DEF FetchPlaces
<1>1. CASE AddKnown(f)
  BY <1>1, <1>b, <1>d DEF AddKnown, AddDone
<1>2. CASE AddLock(f)
  <2> DEFINE to == IF HasRoom THEN "insert" ELSE "scan"
  <2>1. /\ ~Known(Url(l)) /\ Lock(f)
        /\ Goto(f, "add", to, [l EXCEPT !.i = 1])
        /\ UNCHANGED <<slot, count, evicted, heap>>
    BY <1>2 DEF AddLock
  <2>2. to \in FetchPlaces /\ 1 \in 0 .. MAX_CACHE_SIZE + 1
    BY <1>g DEF Adding
  <2> HIDE DEF to
  <2>3. Moved(f, "add", to, l.request, l.sock, l.rec, 1, l.victim)
    BY <1>f, <2>1, <2>2
  <2>4. QED
    BY <1>b, <2>1, <2>3 DEF AddDone, Lock, to
<1>3. CASE Insert(f)
  <2>1. /\ Goto(f, "insert", "lookup", Calling(l))
        /\ slot' = [slot EXCEPT ![count + 1] = Item(l)]
        /\ count' = count + 1 /\ cache_mutex' = NULL
        /\ UNCHANGED <<evicted, heap>>
    BY <1>3 DEF Insert
  <2>2. count + 1 \in Slots
    BY <1>a, <2>1 DEF Indices, Goto
  <2>3. Item(l) \in Items /\ Item(l).url = Stored(l) /\ Item(l).data = l.rec
    <3>1. pc[f] \in HasUrl
      BY <1>h, <2>1 DEF Goto
    <3>2. QED
      BY <1>a, <1>u, <3>1 DEF Item, Items
  <2>4. Put(count + 1, Stored(l), l.rec)
    BY <1>a, <2>1, <2>2, <2>3 DEF Put
  <2>5. Moved(f, "insert", "lookup", l.request, l.sock, NULL, 1, l.victim)
    BY <1>d, <2>1
  <2>6. QED
    BY <1>b, <2>1, <2>4, <2>5 DEF AddDone
<1>4. CASE Scan(f)
  <2>1. pc[f] = "scan" /\ UNCHANGED cacheVars
    BY <1>4 DEF Scan, Goto
  <2>2. l.i >= 1
    BY <2>1 DEF Indices
  <2>3. CASE l.i > count
    <3>1. Goto(f, "scan", "evict", [l EXCEPT !.i = 0])
      BY <1>4, <2>3 DEF Scan
    <3>2. Moved(f, "scan", "evict", l.request, l.sock, l.rec, 0, l.victim)
      BY <1>f, <1>g, <3>1 DEF Adding
    <3>3. QED
      BY <1>b, <2>1, <2>3, <3>2 DEF AddDone, cacheVars
  <2>4. CASE ~(l.i > count)
    <3>1. l.i \in Slots /\ l.i <= count /\ l.i + 1 \in 0 .. MAX_CACHE_SIZE + 1
      BY <1>a, <2>2, <2>4
    <3>2. slot[l.i].count \in 0..MAX_HITS
      BY <1>a, <3>1 DEF Items
    <3> DEFINE j == [l EXCEPT !.i = l.i + 1]
               k == [j EXCEPT !.reg = slot[l.i].count]
               m == [k EXCEPT !.victim = l.i]
    <3>3. \/ Goto(f, "scan", "scan", m)
          \/ l.i # 1 /\ Goto(f, "scan", "scan", j)
      BY <1>4, <2>4 DEF Scan
    <3>4. j \in L /\ j.request = l.request /\ j.sock = l.sock /\ j.rec = l.rec
          /\ j.i = l.i + 1 /\ j.victim = l.victim
      BY <1>a, <3>1, WithI
    <3> HIDE DEF j
    <3>5. k \in L /\ k.request = l.request /\ k.sock = l.sock /\ k.rec = l.rec
          /\ k.i = l.i + 1 /\ k.victim = l.victim
      BY <3>2, <3>4, WithReg
    <3> HIDE DEF k
    <3>6. m \in L /\ m.request = l.request /\ m.sock = l.sock /\ m.rec = l.rec
          /\ m.i = l.i + 1 /\ m.victim = l.i
      BY <1>a, <3>1, <3>5, WithVictim
    <3> HIDE DEF m
    <3>7. "scan" \in MainPlaces \cup FetchPlaces
      BY <1>g DEF Adding
    <3>8. CASE Goto(f, "scan", "scan", m)
      <4>a. Moved(f, "scan", "scan", m.request, m.sock, m.rec, m.i, m.victim)
        BY <3>6, <3>7, <3>8, GotoMoves
      <4>1. Moved(f, "scan", "scan", l.request, l.sock, l.rec, l.i + 1, l.i)
        BY <3>6, <4>a
      <4>2. QED
        <5>1. \E v \in {l.i} \cup (IF l.i = 1 THEN {} ELSE {l.victim}) :
                Moved(f, "scan", "scan", l.request, l.sock, l.rec, l.i + 1, v)
          BY <4>1
        <5>2. QED
          BY <1>b, <2>1, <3>1, <5>1 DEF AddDone, cacheVars
    <3>9. CASE l.i # 1 /\ Goto(f, "scan", "scan", j)
      <4>a. Moved(f, "scan", "scan", j.request, j.sock, j.rec, j.i, j.victim)
        BY <3>4, <3>7, <3>9, GotoMoves
      <4>1. Moved(f, "scan", "scan", l.request, l.sock, l.rec, l.i + 1, l.victim)
        BY <3>4, <4>a
      <4>2. QED
        <5>1. \E v \in {l.i} \cup (IF l.i = 1 THEN {} ELSE {l.victim}) :
                Moved(f, "scan", "scan", l.request, l.sock, l.rec, l.i + 1, v)
          BY <3>9, <4>1
        <5>2. QED
          BY <1>b, <2>1, <3>1, <5>1 DEF AddDone, cacheVars
    <3>10. QED
      BY <3>3, <3>8, <3>9
  <2>5. QED
    BY <2>3, <2>4
<1>5. ASSUME pc[f] \in {"evict"} \cup Evicting
      PROVE  l.victim \in Slots
  BY <1>5, <1>a DEF Indices
<1>6. CASE EvictUrl(f)
  <2>1. /\ Goto(f, "evict", "copied", l) /\ evicted' = TRUE
        /\ slot' = [slot EXCEPT ![l.victim].url = Torn]
        /\ UNCHANGED <<count, cache_mutex, heap>>
    BY <1>6 DEF EvictUrl
  <2>2. Moved(f, "evict", "copied", l.request, l.sock, l.rec, l.i, l.victim)
    BY <1>e, <1>g, <2>1 DEF Adding
  <2>3. Put(l.victim, Torn, slot[l.victim].data)
    BY <1>5, <2>1, PutField DEF Goto
  <2>4. QED
    BY <1>b, <2>1, <2>2, <2>3 DEF AddDone
<1>7. CASE EvictCopied(f)
  <2>1. /\ Goto(f, "copied", "free", l)
        /\ slot' = [slot EXCEPT ![l.victim].url = Url(l)]
        /\ UNCHANGED <<count, cache_mutex, evicted, heap>>
    BY <1>7 DEF EvictCopied
  <2>2. Moved(f, "copied", "free", l.request, l.sock, l.rec, l.i, l.victim)
    BY <1>e, <1>g, <2>1 DEF Adding
  <2>3. Put(l.victim, Url(l), slot[l.victim].data)
    <3>1. l.victim \in Slots /\ pc[f] \in HasUrl
      BY <1>5, <1>h, <2>1 DEF Goto, Evicting
    <3>2. QED
      BY <1>u, <2>1, <3>1, PutField
  <2>4. QED
    BY <1>b, <2>1, <2>2, <2>3 DEF AddDone
<1>8. CASE EvictFree(f)
  <2>1. /\ Goto(f, "free", "data", l)
        /\ live' = live \ {slot[l.victim].data} /\ lost' = lost + 1
        /\ UNCHANGED <<slot, count, cache_mutex, evicted, content, buffers, destroyed>>
    BY <1>8 DEF EvictFree
  <2>2. Moved(f, "free", "data", l.request, l.sock, l.rec, l.i, l.victim)
    BY <1>e, <1>g, <2>1 DEF Adding
  <2>3. QED
    BY <1>b, <2>1, <2>2 DEF AddDone
<1>9. CASE EvictData(f)
  <2>1. /\ Goto(f, "data", "reset", l)
        /\ slot' = [slot EXCEPT ![l.victim].data = l.rec, ![l.victim].url = Stored(l)]
        /\ UNCHANGED <<count, cache_mutex, evicted, heap>>
    BY <1>9 DEF EvictData
  <2>2. Moved(f, "data", "reset", l.request, l.sock, l.rec, l.i, l.victim)
    BY <1>e, <1>g, <2>1 DEF Adding
  <2>3. Put(l.victim, Stored(l), l.rec)
    <3>1. l.victim \in Slots /\ pc[f] \in HasUrl
      BY <1>5, <1>h, <2>1 DEF Goto, Evicting
    <3>2. Stored(l) \in Urls \cup {Torn, Garbled, NULL}
      BY <1>u, <3>1
    <3>3. l.rec \in Records \cup {NULL}
      BY <1>a
    <3> HIDE DEF l
    <3>4. QED
      BY <2>1, <3>1, <3>2, <3>3, PutBoth
  <2>4. QED
    BY <1>b, <2>1, <2>2, <2>3 DEF AddDone
<1>10. CASE EvictReset(f)
  <2> DEFINE j == [Calling(l) EXCEPT !.victim = 0]
             m == [j EXCEPT !.reg = 0]
  <2>1. /\ Goto(f, "reset", "lookup", m)
        /\ slot' = [slot EXCEPT ![l.victim].count = 1] /\ cache_mutex' = NULL
        /\ UNCHANGED <<count, evicted, heap>>
    BY <1>10 DEF EvictReset
  <2>2. j \in L /\ j.request = l.request /\ j.sock = l.sock /\ j.rec = NULL
        /\ j.i = 1 /\ j.victim = 0
    BY <1>c, WithVictim
  <2> HIDE DEF j
  <2>3. m \in L /\ m.request = l.request /\ m.sock = l.sock /\ m.rec = NULL
        /\ m.i = 1 /\ m.victim = 0
    BY <2>2, WithReg
  <2> HIDE DEF m
  <2>4. Moved(f, "reset", "lookup", l.request, l.sock, NULL, 1, 0)
    BY <2>1, <2>3, GotoMoves DEF FetchPlaces, Callers
  <2>5. Put(l.victim, slot[l.victim].url, slot[l.victim].data)
    <3>1. l.victim \in Slots /\ 1 \in 0..MAX_HITS
      BY <1>5, <2>1 DEF Goto, Evicting
    <3>2. QED
      BY <2>1, <3>1, PutField
  <2>6. QED
    BY <1>b, <2>1, <2>4, <2>5 DEF AddDone
<1>11. QED
  BY <1>b, <1>1, <1>2, <1>3, <1>4, <1>6, <1>7, <1>8, <1>9, <1>10 DEF add_to_cache

\* What destroy_cache does.
LEMMA FreeEffect ==
  ASSUME Shape, FreeStep
  PROVE  FreeDone
<1>a. /\ handler \in Handlers
      /\ \A t \in Threads : [handler EXCEPT ![t] = "freed"] \in Handlers
  BY DEF Shape, Handlers
<1>b. NoLocals \in Locals /\ NoLocals.request = NULL /\ NoLocals.sock = NoSocket
      /\ NoLocals.rec = NULL /\ NoLocals.i = 0 /\ NoLocals.victim = 0
  BY NoLocalsType DEF NoLocals
<1>1. CASE LockToDestroy
  <2>1. Moved(Main, "shutdown", "destroying", NULL, NoSocket, NULL, 0, 0)
    BY <1>b, <1>1, Consts, GotoMoves DEF LockToDestroy, MainPlaces
  <2>2. QED
    BY <1>a, <1>1, <2>1 DEF LockToDestroy, Lock, FreeDone, proxyVars, status
<1>2. CASE Destroy
  <2>1. Moved(Main, "destroying", "returning", NULL, NoSocket, NULL, 0, 0)
    BY <1>b, <1>2, Consts, GotoMoves DEF Destroy, MainPlaces
  <2>2. QED
    BY <1>a, <1>2, <2>1 DEF Destroy, FreeCache, FreeDone, proxyVars, status
<1>3. ASSUME NEW t \in Threads,
             destroy_cache /\ handler' = [handler EXCEPT ![t] = "freed"],
             UNCHANGED <<pc, local, peer, asked, got, permits, unconnected, process>>
      PROVE  FreeDone
  BY <1>a, <1>3 DEF destroy_cache, FreeCache, FreeDone
<1>4. QED
  BY <1>1, <1>2, <1>3 DEF FreeStep

\* Every step is one of those above.
LEMMA DoneCases ==
  ASSUME Shape, Places, Indices, [Next]_vars
  PROVE  \/ Ends \/ MainDone \/ FreeDone
         \/ \E f \in Fetchers : Started(f) \/ FetchDone(f) \/ AddDone(f)
         \/ \E t \in Threads : LookDone(t)
BY StepCases, MainEffect, FetchEffect, LookEffect, AddEffect, FreeEffect

-----------------------------------------------------------------------------
(* Types, places and indices.                                              *)

\* The initial states have the types, places and indices.
LEMMA InitShape == Init => Shape /\ Places /\ Indices
<1> SUFFICES ASSUME Init PROVE Shape /\ Places /\ Indices
  OBVIOUS
<1>1. Shape
  <2>1. CacheTypeOK
    <3>1. /\ slot = [i \in Slots |-> [url |-> NULL, data |-> NULL, count |-> 0]]
          /\ count = 0 /\ cache_mutex = NULL /\ live = {} /\ evicted = FALSE
          /\ content = [r \in Records |-> NULL]
          /\ buffers = 0 /\ lost = 0 /\ destroyed = FALSE
      BY DEF Init, CacheInit
    <3>2. slot \in [Slots -> [url : Urls \cup {Torn, Garbled, NULL},
                              data : Records \cup {NULL}, count : 0..MAX_HITS]]
      BY <3>1, Consts
    <3>3. QED
      <4>1. count \in 0..MAX_CACHE_SIZE
        BY <3>1, Consts
      <4>2. /\ cache_mutex \in Threads \cup {NULL} /\ live \subseteq Records
            /\ content \in [Records -> Requests \cup {NULL}]
        BY <3>1
      <4>3. evicted \in BOOLEAN /\ destroyed \in BOOLEAN
        BY ZenonT(20), <3>1
      <4>5. buffers \in Int /\ lost \in Nat
        BY <3>1
      <4>4. QED
        BY <3>2, <4>1, <4>2, <4>3, <4>5 DEF CacheTypeOK
  <2>2. pc \in [Threads -> MainPlaces \cup FetchPlaces]
    BY DEF Init, MainPlaces, FetchPlaces
  <2>3. local \in [Threads -> Locals]
    <3>1. local = [t \in Threads |-> NoLocals]
      BY DEF Init
    <3>2. QED
      BY <3>1, NoLocalsType
  <2>4. QED
    BY <2>1, <2>2, <2>3, ProxyAssumption DEF Shape, Init, Handlers
<1>2. Places /\ Indices
  BY Consts DEF Init, Places, MainPlaces, FetchPlaces, Indices, Callers, Adding,
    HasUrl, Evicting
<1>3. QED
  BY <1>1, <1>2

\* A write gives the client behind the descriptor one response more.
LEMMA WriteType ==
  ASSUME Shape, NEW s, NEW u \in Requests \cup {NULL, Torn}, Write(s, u)
  PROVE  got' \in [Clients -> SUBSET (Requests \cup {NULL, Torn})]
<1>1. got \in [Clients -> SUBSET (Requests \cup {NULL, Torn})]
  BY DEF Shape
<1>2. \A c \in Clients : got[c] \cup {u} \in SUBSET (Requests \cup {NULL, Torn})
  BY <1>1
<1>3. QED
  BY <1>1, <1>2 DEF Write

\* A close takes a client from its descriptor.
LEMMA CloseType ==
  ASSUME Shape, NEW s, Close(s)
  PROVE  peer' \in [Sockets -> Clients \cup {NULL}]
BY DEF Shape, Close

\* What is sent is the response to a request, or no response.
LEMMA HeldType ==
  ASSUME Shape, NEW t \in Threads
  PROVE  Held(local[t]) \in Requests \cup {NULL, Torn}
BY DEF Shape, CacheTypeOK, Held, Locals

\* Steps keep the types.
LEMMA ShapeStep ==
  ASSUME Shape, Places, Indices, [Next]_vars
  PROVE  Shape'
<1> USE Consts DEF cacheVars, permits, status, cacheSlots, proxyVars
<1>a. /\ pc \in [Threads -> MainPlaces \cup FetchPlaces]
      /\ local \in [Threads -> Locals]
      /\ peer \in [Sockets -> Clients \cup {NULL}]
      /\ asked \in [Clients -> Requests \cup {NULL, Torn}]
      /\ got \in [Clients -> SUBSET (Requests \cup {NULL, Torn})]
      /\ thread_semaphore \in Nat /\ failures \in Nat
      /\ unconnected \in BOOLEAN /\ handler \in Handlers
      /\ process \in {"running", "exited", "crashed", "killed"}
      /\ CacheTypeOK
  BY DEF Shape
<1>b. UNCHANGED cacheVars => CacheTypeOK'
  BY <1>a DEF CacheTypeOK
<1>1. CASE Ends
  BY <1>1, <1>a, <1>b DEF Ends, Shape
<1>2. CASE MainDone
  <2>1. CacheTypeOK' /\ pc' \in [Threads -> MainPlaces \cup FetchPlaces]
        /\ local' \in [Threads -> Locals]
    BY <1>2, <1>b DEF MainDone, Moved
  <2>2. peer' \in [Sockets -> Clients \cup {NULL}]
    BY <1>2, <1>a, CloseType DEF MainDone
  <2>3. asked' \in [Clients -> Requests \cup {NULL, Torn}]
    BY <1>2, <1>a DEF MainDone
  <2>4. got' \in [Clients -> SUBSET (Requests \cup {NULL, Torn})]
    BY <1>2, <1>a, HeldType, WriteType DEF MainDone
  <2>5. thread_semaphore' \in Nat /\ failures' \in Nat
    BY <1>2, <1>a DEF MainDone
  <2>6. unconnected' = unconnected /\ UNCHANGED <<handler, process>>
    BY <1>2 DEF MainDone
  <2>7. QED
    BY <1>a, <2>1, <2>2, <2>3, <2>4, <2>5, <2>6 DEF Shape
<1>3. ASSUME NEW f \in Fetchers, Started(f)
      PROVE  Shape'
  <2>1. pc' \in [Threads -> MainPlaces \cup FetchPlaces]
    BY <1>3, <1>a DEF Started, MainPlaces, FetchPlaces
  <2>2. QED
    BY <1>3, <1>a, <1>b, <2>1 DEF Started, Shape
<1>4. ASSUME NEW f \in Fetchers, FetchDone(f)
      PROVE  Shape'
  <2>1. pc' \in [Threads -> MainPlaces \cup FetchPlaces]
        /\ local' \in [Threads -> Locals]
    BY <1>4 DEF FetchDone, Moved
  <2>2. peer' \in [Sockets -> Clients \cup {NULL}]
    BY <1>4, <1>a, CloseType DEF FetchDone
  <2>3. pc[f] = "relay" => local[f].request \in Requests
    BY DEF Places, HasUrl
  <2>4. got' \in [Clients -> SUBSET (Requests \cup {NULL, Torn})]
    BY <1>4, <1>a, <2>3, HeldType, WriteType DEF FetchDone, Moved
  <2>5. CacheTypeOK'
    BY <1>4, <1>a, <2>3 DEF FetchDone, CacheTypeOK, Moved
  <2>6. /\ thread_semaphore' \in Nat /\ failures' = failures
        /\ UNCHANGED <<handler, process, asked>>
    BY <1>4, <1>a DEF FetchDone
  <2>a. unconnected' \in BOOLEAN
    <3>1. unconnected' = unconnected \/ unconnected' = TRUE
      BY <1>4 DEF FetchDone
    <3>2. QED
      BY <1>a, <3>1
  <2>7. QED
    BY <1>a, <2>1, <2>2, <2>4, <2>5, <2>6, <2>a DEF Shape
<1>5. ASSUME NEW t \in Threads, LookDone(t)
      PROVE  Shape'
  <2>1. CacheTypeOK'
    BY <1>5, <1>a DEF LookDone, CacheTypeOK, Put, Items
  <2>2. pc' \in [Threads -> MainPlaces \cup FetchPlaces]
        /\ local' \in [Threads -> Locals]
        /\ UNCHANGED proxyVars
    BY <1>5 DEF LookDone, Moved
  <2>3. QED
    BY <1>a, <2>1, <2>2 DEF Shape
<1>6. ASSUME NEW f \in Fetchers, AddDone(f)
      PROVE  Shape'
  <2>1. pc' \in [Threads -> MainPlaces \cup FetchPlaces]
        /\ local' \in [Threads -> Locals]
        /\ UNCHANGED proxyVars
    BY <1>6 DEF AddDone, Moved
  <2>2. pc[f] = "insert" => count < MAX_CACHE_SIZE
    BY DEF Indices
  <2>3. count' \in 0..MAX_CACHE_SIZE
    BY <1>6, <1>a, <2>2 DEF AddDone, CacheTypeOK, Moved
  <2>a. /\ slot' \in [Slots -> Items]
        /\ cache_mutex' \in Threads \cup {NULL}
    BY <1>6, <1>a DEF AddDone, CacheTypeOK, Put, Items, Fetchers
  <2>b. live' \subseteq Records /\ content' = content
        /\ buffers' \in Int /\ lost' \in Nat
    BY <1>6, <1>a DEF AddDone, CacheTypeOK
  <2>c. evicted' = evicted \/ evicted' = TRUE
    BY <1>6 DEF AddDone
  <2>d. destroyed' = destroyed
    BY <1>6 DEF AddDone
  <2>4. CacheTypeOK'
    BY <1>a, <2>3, <2>a, <2>b, <2>c, <2>d DEF CacheTypeOK, Items
  <2>5. QED
    BY <1>a, <2>1, <2>4 DEF Shape
<1>7. CASE FreeDone
  <2>a. UNCHANGED <<slot, count, evicted, content, lost>>
    BY <1>7 DEF FreeDone
  <2>b. /\ cache_mutex' \in {cache_mutex, Main, NULL} /\ live' \subseteq live
        /\ buffers' \in {buffers, buffers - count}
    BY <1>7 DEF FreeDone
  <2>c. destroyed' = destroyed \/ destroyed' = TRUE
    BY <1>7 DEF FreeDone
  <2>1. CacheTypeOK'
    <3>1. buffers' \in Int /\ live' \subseteq Records
      BY <1>a, <2>b DEF CacheTypeOK
    <3>2. cache_mutex' \in Threads \cup {NULL}
      BY <1>a, <2>b DEF CacheTypeOK
    <3>3. destroyed' \in BOOLEAN
      BY <1>a, <2>c DEF CacheTypeOK
    <3>4. /\ slot' = slot /\ count' = count /\ evicted' = evicted
          /\ content' = content /\ lost' = lost
      BY <2>a
    <3>5. QED
      BY <1>a, <3>1, <3>2, <3>3, <3>4 DEF CacheTypeOK
  <2>2. QED
    BY <1>7, <1>a, <2>1 DEF FreeDone, Moved, Shape
<1>8. QED
  BY <1>1, <1>2, <1>3, <1>4, <1>5, <1>6, <1>7, DoneCases

\* Steps keep the threads at places of their own functions.
LEMMA PlacesStep ==
  ASSUME Shape, Places, Indices, [Next]_vars
  PROVE  Places'
<1> USE Consts DEF MainPlaces, FetchPlaces, HasUrl, Callers, Adding
<1>a. Places
  OBVIOUS
<1>1. CASE Ends
  BY <1>1, <1>a DEF Ends, Places
<1>2. CASE MainDone
  <2>1. NoSocket \notin Sockets
    BY DEF NoSocket, Sockets
  <2>2. QED
    BY <1>2, <1>a, <2>1 DEF MainDone, Moved, Places
<1>3. ASSUME NEW f \in Fetchers, Started(f)
      PROVE  Places'
  BY <1>3, <1>a DEF Started, Places, Shape
<1>4. ASSUME NEW f \in Fetchers, FetchDone(f)
      PROVE  Places'
  BY <1>4, <1>a DEF FetchDone, Moved, Places
<1>5. ASSUME NEW t \in Threads, LookDone(t)
      PROVE  Places'
  BY <1>5, <1>a DEF LookDone, Moved, Places
<1>6. ASSUME NEW f \in Fetchers, AddDone(f)
      PROVE  Places'
  BY <1>6, <1>a DEF AddDone, Moved, Places
<1>7. CASE FreeDone
  BY <1>7, <1>a DEF FreeDone, Moved, Places
<1>8. QED
  BY <1>1, <1>2, <1>3, <1>4, <1>5, <1>6, <1>7, DoneCases

\* Steps keep cache_mutex with the thread that works under it.
LEMMA MutexStep ==
  ASSUME Shape, Places, Indices, MutexInv, [Next]_vars
  PROVE  MutexInv'
<1> USE Consts DEF MainPlaces, FetchPlaces, Callers, Adding, cacheVars, cacheSlots
<1>1. CASE Ends
  BY <1>1 DEF Ends, MutexInv
<1>2. CASE MainDone
  BY <1>2 DEF MainDone, Moved, Places, MutexInv
<1>3. ASSUME NEW f \in Fetchers, Started(f)
      PROVE  MutexInv'
  BY <1>3 DEF Started, MutexInv, Shape
<1>4. ASSUME NEW f \in Fetchers, FetchDone(f)
      PROVE  MutexInv'
  BY <1>4 DEF FetchDone, Moved, MutexInv
<1>5. ASSUME NEW t \in Threads, LookDone(t)
      PROVE  MutexInv'
  BY <1>5 DEF LookDone, Moved, MutexInv
<1>6. ASSUME NEW f \in Fetchers, AddDone(f)
      PROVE  MutexInv'
  BY <1>6 DEF AddDone, Moved, MutexInv
<1>7. CASE FreeDone
  BY <1>7 DEF FreeDone, Moved, MutexInv
<1>8. QED
  BY <1>1, <1>2, <1>3, <1>4, <1>5, <1>6, <1>7, DoneCases

\* Steps keep the indices into the cache in range.
LEMMA IndicesStep ==
  ASSUME Shape, Places, Indices, MutexInv, [Next]_vars
  PROVE  Indices'
<1> USE Consts DEF Callers, cacheVars, cacheSlots
<1>a. Indices /\ count \in 0..MAX_CACHE_SIZE
  BY DEF Shape, CacheTypeOK
<1>b. \A t \in Threads : local[t].i \in 0 .. MAX_CACHE_SIZE + 1
  BY DEF Shape, Locals
<1>1. CASE Ends
  BY <1>1, <1>a DEF Ends, Indices
<1>2. CASE MainDone
  BY <1>2, <1>a DEF MainDone, Moved, Indices, Evicting
<1>3. ASSUME NEW f \in Fetchers, Started(f)
      PROVE  Indices'
  BY <1>3, <1>a DEF Started, Indices, Shape, Evicting
<1>4. ASSUME NEW f \in Fetchers, FetchDone(f)
      PROVE  Indices'
  BY <1>4, <1>a DEF FetchDone, Moved, Indices, Evicting
<1>5. ASSUME NEW t \in Threads, LookDone(t)
      PROVE  Indices'
  BY <1>5, <1>a, <1>b DEF LookDone, Moved, Indices, Evicting
<1>6. ASSUME NEW f \in Fetchers, AddDone(f)
      PROVE  Indices'
  BY <1>6, <1>a, <1>b DEF AddDone, Moved, Indices, Evicting, MutexInv, Adding, HasRoom
<1>7. CASE FreeDone
  BY <1>7, <1>a DEF FreeDone, Moved, Indices, Evicting
<1>8. QED
  BY <1>1, <1>2, <1>3, <1>4, <1>5, <1>6, <1>7, DoneCases

\* The cached URLs and records and the thread with the mutex stay as they are.
CacheSteady ==
  /\ count' = count /\ evicted' = evicted
  /\ \A i \in 1..count : /\ slot'[i].url = slot[i].url
                         /\ slot'[i].data = slot[i].data
  /\ \A t \in Threads : pc'[t] \in Adding <=> pc[t] \in Adding
  /\ \A t \in Threads : pc[t] \in Adding =>
       pc'[t] = pc[t] /\ local'[t] = local[t]

\* So they do in every step but those of add_to_cache.
LEMMA UrlsSteady ==
  ASSUME Shape, Places, Indices
  PROVE  (\/ Ends \/ MainDone \/ FreeDone
          \/ \E f \in Fetchers : Started(f) \/ FetchDone(f)
          \/ \E t \in Threads : LookDone(t))
         => CacheSteady
<1> USE Consts DEF CacheSteady
<1>a. /\ count \in 0..MAX_CACHE_SIZE /\ slot \in [Slots -> Items]
      /\ 1..count \subseteq Slots
  BY DEF Shape, CacheTypeOK, Items
<1>1. ASSUME Ends PROVE CacheSteady
  <2>1. UNCHANGED <<cacheVars, pc, local>>
    BY <1>1 DEF Ends
  <2>2. QED
    BY <2>1 DEF cacheVars
<1>2. ASSUME MainDone PROVE CacheSteady
  <2>1. UNCHANGED cacheVars
    BY <1>2 DEF MainDone
  <2>2. /\ pc[Main] \notin Adding /\ pc'[Main] \notin Adding
        /\ \A t \in Threads \ {Main} : pc'[t] = pc[t] /\ local'[t] = local[t]
    BY <1>2 DEF MainDone, Moved, Places, MainPlaces, Callers, Adding
  <2>3. QED
    BY <2>1, <2>2 DEF cacheVars
<1>3. ASSUME NEW f \in Fetchers, Started(f)
      PROVE  CacheSteady
  <2>1. UNCHANGED cacheVars
    BY <1>3 DEF Started
  <2>2. \A t \in Threads \ {f, Main} : pc'[t] = pc[t] /\ local'[t] = local[t]
    BY <1>3 DEF Started, Shape
  <2>3. \A t \in {f, Main} : pc[t] \notin Adding /\ pc'[t] \notin Adding
    BY <1>3 DEF Started, Shape, Adding
  <2>4. QED
    BY <2>1, <2>2, <2>3 DEF cacheVars
<1>4. ASSUME NEW f \in Fetchers, FetchDone(f)
      PROVE  CacheSteady
  <2>1. UNCHANGED cacheSlots \/ UNCHANGED cacheVars
    BY <1>4 DEF FetchDone
  <2>2. /\ pc[f] \notin Adding /\ pc'[f] \notin Adding
        /\ \A t \in Threads \ {f} : pc'[t] = pc[t] /\ local'[t] = local[t]
    BY <1>4 DEF FetchDone, Moved, Adding
  <2>3. QED
    BY <2>1, <2>2 DEF cacheSlots, cacheVars
<1>5. ASSUME NEW t \in Threads, LookDone(t)
      PROVE  CacheSteady
  <2>1. pc[t] = "bump" => local[t].i \in 1..count
    BY DEF Indices
  <2>2. /\ pc[t] \notin Adding /\ pc'[t] \notin Adding
        /\ \A u \in Threads \ {t} : pc'[u] = pc[u] /\ local'[u] = local[u]
    BY <1>5 DEF LookDone, Moved, Adding
  <2>3. \/ UNCHANGED cacheVars
        \/ /\ UNCHANGED <<count, evicted>> /\ pc[t] = "bump"
           /\ Put(local[t].i, slot[local[t].i].url, slot[local[t].i].data)
    BY <1>5 DEF LookDone, Moved
  <2>4. /\ UNCHANGED <<count, evicted>>
        /\ \A i \in 1..count : /\ slot'[i].url = slot[i].url
                               /\ slot'[i].data = slot[i].data
    BY <1>a, <2>1, <2>3 DEF Put, cacheVars
  <2>5. QED
    BY <2>2, <2>4
<1>7. ASSUME FreeDone PROVE CacheSteady
  BY <1>7 DEF FreeDone, Moved, Adding
<1>8. QED
  BY <1>1, <1>2, <1>3, <1>4, <1>5, <1>7

\* Steps put no URL into the cache twice: only the thread with cache_mutex
\* writes the URLs, and it has searched for its own.
LEMMA UrlsStep ==
  ASSUME Shape, Places, Indices, MutexInv, UrlsInv, [Next]_vars
  PROVE  UrlsInv'
<1> USE Consts
<1>a. /\ count \in 0..MAX_CACHE_SIZE /\ slot \in [Slots -> Items]
      /\ 1..count \subseteq Slots
  BY DEF Shape, CacheTypeOK, Items
<1>b. \A t \in Threads : pc[t] \in {"copied", "free", "data"} =>
        local[t].victim \in 1..count
  BY DEF Indices, Evicting
<1>1. CASE CacheSteady
  BY <1>1, <1>b DEF CacheSteady, UrlsInv, OneCopyPerUrl, Adding
<1>2. ASSUME NEW f \in Fetchers, AddDone(f)
      PROVE  UrlsInv'
  <2> DEFINE l == local[f]
  <2>a. UrlsInv
    OBVIOUS
  <2>b. pc[f] \in Adding => \A t \in Threads \ {f} : pc[t] \notin Adding
    BY DEF MutexInv
  <2>c. pc[f] \in {"add"} \cup Adding => Url(l) \in Urls
    BY DEF Places, HasUrl
  <2>d. pc[f] \in {"evict"} \cup Evicting => l.victim \in 1..count
    BY DEF Indices
  <2>1. CASE pc[f] \in {"add", "scan", "free", "reset"}
    <3>1. /\ count' = count
          /\ \A i \in 1..count : slot'[i].url = slot[i].url
          /\ \A t \in Threads \ {f} : pc'[t] = pc[t] /\ local'[t] = local[t]
      BY <1>2, <1>a, <2>1, <2>d DEF AddDone, Moved, Put, cacheVars, Evicting
    <3>2. pc'[f] \in {"insert", "scan", "evict", "copied"} =>
            /\ Url(local'[f]) = Url(l)
            /\ pc[f] = "scan" \/ ~Known(Url(l))
      BY <1>2, <2>1 DEF AddDone, Moved
    <3>3. pc'[f] # "copied"
      BY <1>2, <2>1 DEF AddDone, Moved
    <3>4. pc'[f] \in {"free", "data"} =>
            /\ pc[f] = "free" /\ Url(local'[f]) = Url(l)
            /\ local'[f].victim = l.victim
      BY <1>2, <2>1 DEF AddDone, Moved
    <3>5. QED
      BY <1>b, <2>1, <3>1, <3>2, <3>3, <3>4 DEF UrlsInv, OneCopyPerUrl, Known
  <2>2. CASE pc[f] = "insert"
    <3>1. /\ count' = count + 1 /\ Put(count + 1, Stored(l), l.rec)
          /\ pc'[f] = "lookup"
          /\ \A t \in Threads \ {f} : pc'[t] = pc[t] /\ local'[t] = local[t]
      BY <1>2, <2>2 DEF AddDone, Moved
    <3>2. /\ \A i \in 1..count : slot'[i] = slot[i] /\ slot[i].url # Url(l)
          /\ slot'[count + 1].url \in {Url(l), Garbled}
          /\ 1..count' = 1..count \cup {count + 1}
      BY SMTT(30), <1>a, <2>2, <3>1 DEF Put, UrlsInv, Stored
    <3>3. Url(l) # Torn /\ Url(l) # NULL /\ Garbled # Torn /\ Garbled # NULL
      BY <2>2, <2>c DEF Adding
    <3>4. \A t \in Threads : pc'[t] \notin Adding
      BY <2>2, <2>b, <3>1 DEF Adding
    <3>5. \A t \in Threads : pc[t] # "copied"
      BY <2>2, <2>b DEF Adding
    <3>6. QED
      BY <3>2, <3>3, <3>4, <3>5 DEF UrlsInv, OneCopyPerUrl, Adding
  <2>3. CASE pc[f] = "evict"
    <3>1. /\ count' = count /\ Put(l.victim, Torn, slot[l.victim].data)
          /\ pc'[f] = "copied" /\ Url(local'[f]) = Url(l)
          /\ local'[f].victim = l.victim
          /\ \A t \in Threads \ {f} : pc'[t] = pc[t] /\ local'[t] = local[t]
      BY <1>2, <2>3 DEF AddDone, Moved
    <3>2. /\ \A i \in 1..count \ {l.victim} : slot'[i].url = slot[i].url
          /\ slot'[l.victim].url = Torn /\ l.victim \in 1..count
      BY <1>a, <2>3, <2>d, <3>1 DEF Put
    <3>3. \A i \in 1..count : slot[i].url # Torn
      BY <2>3, <2>b DEF UrlsInv, Adding
    <3>4. Url(l) # Torn /\ Url(l) # NULL
      BY <2>3, <2>c DEF Adding
    <3>5. \A t \in Threads \ {f} : pc'[t] \notin Adding
      BY <2>3, <2>b, <3>1 DEF Adding
    <3>6. QED
      BY SMTT(30), <2>3, <3>1, <3>2, <3>3, <3>4, <3>5 DEF UrlsInv, OneCopyPerUrl, Adding
  <2>4. CASE pc[f] = "copied"
    <3>1. /\ count' = count /\ Put(l.victim, Url(l), slot[l.victim].data)
          /\ pc'[f] = "free" /\ Url(local'[f]) = Url(l)
          /\ local'[f].victim = l.victim
          /\ \A t \in Threads \ {f} : pc'[t] = pc[t] /\ local'[t] = local[t]
      BY <1>2, <2>4 DEF AddDone, Moved
    <3>2. /\ \A i \in 1..count \ {l.victim} : slot'[i].url = slot[i].url
          /\ slot'[l.victim].url = Url(l) /\ l.victim \in 1..count
      BY <1>a, <2>4, <2>d, <3>1 DEF Put, Evicting
    <3>3. /\ \A i \in 1..count : slot[i].url # Url(l)
          /\ \A i \in 1..count \ {l.victim} : slot[i].url # Torn
      BY <2>4, <2>b DEF UrlsInv, Adding
    <3>4. Url(l) # Torn /\ Url(l) # NULL
      BY <2>4, <2>c DEF Adding
    <3>5. \A t \in Threads \ {f} : pc'[t] \notin Adding
      BY <2>4, <2>b, <3>1 DEF Adding
    <3>6. QED
      BY <2>4, <3>1, <3>2, <3>3, <3>4, <3>5 DEF UrlsInv, OneCopyPerUrl, Adding
  <2>5. CASE pc[f] = "data"
    <3>1. /\ count' = count /\ Put(l.victim, Stored(l), l.rec) /\ pc'[f] = "reset"
          /\ \A t \in Threads \ {f} : pc'[t] = pc[t] /\ local'[t] = local[t]
      BY <1>2, <2>5 DEF AddDone, Moved
    <3>2. /\ \A i \in 1..count \ {l.victim} : slot'[i].url = slot[i].url
          /\ slot'[l.victim].url \in {slot[l.victim].url, Garbled}
          /\ l.victim \in 1..count
      <4>1. slot[l.victim].url = Url(l) /\ l.victim \in 1..count
        BY <2>5, <2>d DEF UrlsInv, Fetchers, Evicting
      <4>2. QED
        BY <1>a, <3>1, <4>1 DEF Put, Stored
    <3>3. Garbled # Torn /\ Garbled # NULL
      OBVIOUS
    <3>4. \A t \in Threads : pc[t] # "copied" /\ pc'[t] \notin Adding \ {"reset"}
      BY <2>5, <2>b, <3>1 DEF Adding
    <3>5. OneCopyPerUrl' /\ \A i \in 1..count' : slot'[i].url # NULL
      BY <3>1, <3>2, <3>3 DEF UrlsInv, OneCopyPerUrl
    <3>6. \A i \in 1..count : slot'[i].url # Torn
      <4>1. \A i \in 1..count : slot[i].url # Torn
        BY <3>4 DEF UrlsInv
      <4>2. QED
        BY <3>2, <3>3, <4>1
    <3>7. QED
      BY <3>1, <3>4, <3>5, <3>6 DEF UrlsInv, Adding
  <2>6. QED
    BY <1>2, <2>1, <2>2, <2>3, <2>4, <2>5 DEF AddDone, Moved
<1>3. QED
  BY <1>1, <1>2, DoneCases, UrlsSteady

-----------------------------------------------------------------------------
(* The permits.                                                            *)

\* No thread is given a permit that was not taken, and none is forgotten.
LEMMA PermitsStep ==
  ASSUME Shape, Places, Indices, PermitsAccounted, [Next]_vars
  PROVE  PermitsAccounted'
<1> USE Consts DEF Callers, MainPlaces, FetchPlaces, Adding
<1>a. IsFiniteSet(Busy) /\ Cardinality(Busy) \in Nat
  BY ProxyAssumption, FS_Subset, FS_CardinalityType DEF Busy
<1>b. thread_semaphore \in Nat /\ failures \in Nat
  BY DEF Shape
<1> DEFINE mine == IF pc[Main] = "create" THEN 1 ELSE 0
<1>1. ASSUME Busy' = Busy, UNCHANGED permits,
             pc'[Main] = "create" <=> pc[Main] = "create"
      PROVE  PermitsAccounted'
  BY <1>1 DEF PermitsAccounted, permits
<1>2. CASE Ends
  BY <1>1, <1>2 DEF Ends, Busy
<1>3. CASE MainDone
  <2>1. Busy' = Busy
    BY <1>3 DEF MainDone, Moved, Busy
  <2>2. \/ UNCHANGED permits /\ (pc'[Main] = "create" <=> pc[Main] = "create")
        \/ /\ thread_semaphore' = thread_semaphore - 1 /\ failures' = failures
           /\ pc[Main] # "create" /\ pc'[Main] = "create"
        \/ /\ thread_semaphore' = thread_semaphore /\ failures' = failures + 1
           /\ pc[Main] = "create" /\ pc'[Main] # "create"
    BY <1>3 DEF MainDone, Moved, proxyVars, permits
  <2>3. QED
    BY SMTT(30), <1>a, <1>b, <2>1, <2>2 DEF PermitsAccounted, permits
<1>4. ASSUME NEW f \in Fetchers, Started(f)
      PROVE  PermitsAccounted'
  <2>1. pc' = [pc EXCEPT ![Main] = "accept", ![f] = "connect"]
        /\ pc[Main] = "create" /\ pc[f] = "idle" /\ UNCHANGED permits
    BY <1>4 DEF Started, proxyVars
  <2>2. f \notin Busy /\ Busy' = Busy \cup {f} /\ pc'[Main] = "accept"
    BY <2>1 DEF Shape, Busy
  <2>3. Cardinality(Busy') = Cardinality(Busy) + 1
    BY <1>a, <2>2, FS_AddElement
  <2>4. QED
    BY <1>a, <1>b, <2>1, <2>2, <2>3 DEF PermitsAccounted, permits
<1>5. ASSUME NEW f \in Fetchers, FetchDone(f)
      PROVE  PermitsAccounted'
  <2>1. pc'[Main] = pc[Main] /\ failures' = failures
    BY <1>5 DEF FetchDone, Moved, proxyVars, permits
  <2>2. CASE pc[f] = "post"
    <3>1. /\ thread_semaphore' = thread_semaphore + 1 /\ pc'[f] = "idle"
          /\ \A g \in Fetchers \ {f} : pc'[g] = pc[g]
      BY <1>5, <2>2 DEF FetchDone, Moved
    <3>2. f \in Busy /\ Busy' = Busy \ {f}
      BY <2>2, <3>1 DEF Busy
    <3>3. Cardinality(Busy') = Cardinality(Busy) - 1
      BY <1>a, <3>2, FS_RemoveElement
    <3>4. QED
      BY <1>a, <1>b, <2>1, <3>1, <3>3 DEF PermitsAccounted
  <2>3. CASE pc[f] # "post"
    <3>1. UNCHANGED permits /\ Busy' = Busy
      BY <1>5, <2>3 DEF FetchDone, Moved, Busy, proxyVars, permits
    <3>2. QED
      BY <1>1, <2>1, <3>1
  <2>4. QED
    BY <2>2, <2>3
<1>6. ASSUME NEW t \in Threads, LookDone(t)
      PROVE  PermitsAccounted'
  BY <1>1, <1>6 DEF LookDone, Moved, Busy, proxyVars
<1>7. ASSUME NEW f \in Fetchers, AddDone(f)
      PROVE  PermitsAccounted'
  BY <1>1, <1>7 DEF AddDone, Moved, Busy, proxyVars
<1>8. CASE FreeDone
  BY <1>1, <1>8 DEF FreeDone, Moved, Busy, proxyVars
<1>9. QED
  BY <1>2, <1>3, <1>4, <1>5, <1>6, <1>7, <1>8, DoneCases

-----------------------------------------------------------------------------
(* The records.                                                            *)

\* What destroy_cache has freed stays freed until the process ends.
LEMMA DestroyedStays ==
  ASSUME Shape, Places, Indices, [Next]_vars, destroyed
  PROVE  destroyed'
<1>1. CASE Ends \/ MainDone \/ FreeDone
  BY <1>1 DEF Ends, MainDone, FreeDone, cacheVars
<1>2. ASSUME NEW f \in Fetchers, Started(f) \/ FetchDone(f) \/ AddDone(f)
      PROVE  destroyed'
  BY <1>2 DEF Started, FetchDone, AddDone, cacheVars, cacheSlots
<1>3. ASSUME NEW t \in Threads, LookDone(t)
      PROVE  destroyed'
  BY <1>3 DEF LookDone, cacheVars
<1>4. QED
  BY <1>1, <1>2, <1>3, DoneCases

\* Nothing that the owners of records have changes.
OwnersSteady ==
  /\ UNCHANGED <<live, content>> /\ count' = count
  /\ \A i \in 1..count : slot'[i].url = slot[i].url /\ slot'[i].data = slot[i].data
  /\ Private' = Private /\ Kept' = Kept /\ Clean' = Clean
  /\ \A f \in Private : /\ local'[f].rec = local[f].rec
                        /\ local'[f].request = local[f].request
                        /\ pc'[f] \in {"add"} \cup Adding =>
                             pc[f] \in {"add"} \cup Adding

\* A step that changes nobody's record keeps the owners.
LEMMA SteadyOwners ==
  ASSUME OwnersInv, OwnersSteady
  PROVE  OwnersInv'
<1>1. Kept \subseteq 1..count /\ Clean \subseteq 1..count
  BY DEF Kept, Clean
<1>2. /\ live' = live /\ content' = content /\ Private' = Private
      /\ Kept' = Kept /\ Clean' = Clean
      /\ \A f \in Private : /\ local'[f].rec = local[f].rec
                            /\ local'[f].request = local[f].request
  BY DEF OwnersSteady
<1>3. /\ \A i \in Kept : slot'[i].data = slot[i].data
      /\ \A i \in Clean : slot'[i].url = slot[i].url
                           /\ slot'[i].data = slot[i].data
  BY <1>1 DEF OwnersSteady
<1>4. (\A f \in Private : local[f].rec \in live)'
  BY <1>2 DEF OwnersInv
<1>5. (\A f, g \in Private : local[f].rec = local[g].rec => f = g)'
  BY <1>2 DEF OwnersInv
<1>6. (\A i \in Kept : /\ slot[i].data \in live
                       /\ \A f \in Private : slot[i].data # local[f].rec)'
  BY <1>2, <1>3 DEF OwnersInv
<1>7. (\A i, j \in Kept : slot[i].data = slot[j].data => i = j)'
  BY <1>2, <1>3 DEF OwnersInv
<1>8. (\A f \in Private : pc[f] \in {"add"} \cup Adding =>
         content[local[f].rec] = local[f].request)'
  BY <1>2 DEF OwnersInv, OwnersSteady
<1>9. (\A i \in Clean : Answers(i))'
  BY <1>2, <1>3 DEF OwnersInv, Answers
<1>10. QED
  BY <1>4, <1>5, <1>6, <1>7, <1>8, <1>9 DEF OwnersInv

\* A new item has the URL that its record is the response to, or a garbled one.
LEMMA AnswersStored ==
  ASSUME Shape, Places, OwnersInv, NEW f \in Private, NEW i,
         pc[f] \in {"insert", "data"}, content' = content,
         slot'[i].url = Stored(local[f]), slot'[i].data = local[f].rec
  PROVE  \/ slot'[i].url = Garbled
         \/ ResponseTo(content'[slot'[i].data], slot'[i].url)
<1>1. content[local[f].rec] = local[f].request
  BY DEF OwnersInv, Adding
<1>2. local[f].request \in Requests
  BY DEF Places, HasUrl, Adding, Private, Fetchers
<1>3. slot'[i].url = Garbled \/ slot'[i].url = Reference[local[f].request]
  BY DEF Stored
<1>4. content'[slot'[i].data] = local[f].request
  BY <1>1
<1>5. QED
  BY <1>2, <1>3, <1>4 DEF ResponseTo

\* Each record keeps one owner, until the cache is destroyed.
LEMMA OwnersStep ==
  ASSUME Shape, Places, Indices, MutexInv, UrlsInv, OwnersInv, [Next]_vars,
         ~destroyed'
  PROVE  OwnersInv'
<1> USE Consts
<1>a. /\ count \in 0..MAX_CACHE_SIZE /\ slot \in [Slots -> Items]
      /\ 1..count \subseteq Slots /\ content \in [Records -> Requests \cup {NULL}]
      /\ live \subseteq Records
  BY DEF Shape, CacheTypeOK, Items
<1>c. /\ Private \subseteq Fetchers /\ Fetchers \subseteq Threads
      /\ Kept \subseteq 1..count /\ Clean \subseteq Kept
  BY DEF Private, Kept, Clean, Victims, Fetchers
<1>b. CacheSteady /\ UNCHANGED <<live, content>>
        /\ (\A f \in Fetchers : (f \in Private \/ f \in Private') =>
              pc'[f] = pc[f] /\ local'[f] = local[f])
        => OwnersInv'
  <2> SUFFICES ASSUME CacheSteady, UNCHANGED <<live, content>>,
                      \A f \in Fetchers : (f \in Private \/ f \in Private') =>
                        pc'[f] = pc[f] /\ local'[f] = local[f]
               PROVE  OwnersSteady
    BY SteadyOwners
  <2>1. Private' = Private
    BY DEF Private
  <2>2. Kept' = Kept /\ Clean' = Clean
    BY DEF CacheSteady, Kept, Clean, Victims, Adding
  <2>3. QED
    BY <2>1, <2>2 DEF CacheSteady, OwnersSteady, Private
<1>1. CASE Ends
  BY SMTT(30), <1>1, <1>b, UrlsSteady DEF Ends, cacheVars
<1>2. CASE MainDone
  BY <1>2, <1>b, UrlsSteady DEF MainDone, Moved, cacheVars, proxyVars
<1>3. ASSUME NEW f \in Fetchers, Started(f)
      PROVE  OwnersInv'
  BY <1>3, <1>b, UrlsSteady DEF Started, Private, cacheVars, proxyVars, Shape, Adding
<1>5. ASSUME NEW t \in Threads, LookDone(t)
      PROVE  OwnersInv'
  BY <1>5, <1>b, UrlsSteady DEF LookDone, Moved, Private, cacheVars, Adding
<1>7. CASE FreeDone
  <2>1. /\ UNCHANGED <<live, content>> /\ pc[Main] \notin Adding
        /\ \A f \in Fetchers : pc'[f] = pc[f] /\ local'[f] = local[f]
    BY <1>7 DEF FreeDone, Moved, Fetchers, Adding
  <2>2. QED
    BY <1>7, <1>b, <2>1, UrlsSteady
<1>4. ASSUME NEW f \in Fetchers, FetchDone(f)
      PROVE  OwnersInv'
  <2> DEFINE l == local[f]
  <2>a. UNCHANGED <<slot, count>> /\ Kept' = Kept /\ Clean' = Clean
    <3>1. UNCHANGED <<slot, count>>
      BY <1>4 DEF FetchDone, cacheSlots, cacheVars
    <3>2. CacheSteady
      BY <1>4, UrlsSteady
    <3>3. QED
      BY <3>1, <3>2 DEF CacheSteady, Kept, Clean, Victims, Adding
  <2>b. \A g \in Fetchers \ {f} : pc'[g] = pc[g] /\ local'[g] = local[g]
    BY <1>4 DEF FetchDone, Moved
  <2>c. OwnersInv
    OBVIOUS
  <2>1. CASE pc[f] = "connect"
    <3>1. PICK r \in Records \ live :
            /\ local'[f].rec = r /\ pc'[f] \in {"relay", "failed"}
            /\ live' = live \cup {r} /\ content' = [content EXCEPT ![r] = NULL]
      BY <1>4, <2>1 DEF FetchDone, Moved
    <3>2. f \notin Private /\ Private' = Private \cup {f}
      BY <2>1, <2>b, <3>1 DEF Private, Adding
    <3>3. /\ \A g \in Private : /\ local'[g] = local[g] /\ pc'[g] = pc[g]
                               /\ local[g].rec \in live
          /\ \A i \in Kept : slot'[i] = slot[i] /\ slot[i].data \in live
          /\ pc'[f] \notin {"add"} \cup Adding
          /\ r \notin live /\ \A q \in live : content'[q] = content[q]
      BY <1>a, <1>c, <2>a, <2>b, <2>c, <3>1, <3>2 DEF OwnersInv, Adding
    <3>4. (\A g \in Private : local[g].rec \in live)'
      BY <3>1, <3>2, <3>3
    <3>5. (\A g, h \in Private : local[g].rec = local[h].rec => g = h)'
      BY <2>c, <3>1, <3>2, <3>3 DEF OwnersInv
    <3>6. (\A i \in Kept : /\ slot[i].data \in live
                           /\ \A g \in Private : slot[i].data # local[g].rec)'
      BY <2>a, <2>c, <3>1, <3>2, <3>3 DEF OwnersInv
    <3>7. (\A i, j \in Kept : slot[i].data = slot[j].data => i = j)'
      BY <2>a, <2>c, <3>3 DEF OwnersInv
    <3>8. (\A g \in Private : pc[g] \in {"add"} \cup Adding =>
             content[local[g].rec] = local[g].request)'
      BY <2>c, <3>2, <3>3 DEF OwnersInv
    <3>9. (\A i \in Clean : Answers(i))'
      BY <1>c, <2>a, <2>c, <3>3 DEF OwnersInv, Answers
    <3>10. QED
      BY <3>4, <3>5, <3>6, <3>7, <3>8, <3>9 DEF OwnersInv
  <2>2. CASE pc[f] = "relay"
    <3>1. /\ local'[f].rec = l.rec /\ local'[f].request = l.request /\ live' = live
          /\ \/ pc'[f] = "add" /\ content' = [content EXCEPT ![l.rec] = l.request]
             \/ pc'[f] = "failed" /\ content' = content
      BY <1>4, <2>2 DEF FetchDone, Moved, cacheVars
    <3>2. f \in Private /\ Private' = Private
      BY <2>2, <2>b, <3>1 DEF Private, Adding
    <3>3. /\ \A g \in Private : local'[g].rec = local[g].rec
          /\ \A g \in Private \ {f} : local'[g] = local[g] /\ pc'[g] = pc[g]
          /\ \A i \in Kept : slot'[i] = slot[i] /\ slot[i].data # l.rec
          /\ \A g \in Private \ {f} : local[g].rec # l.rec
          /\ \A q \in Records \ {l.rec} : content'[q] = content[q]
          /\ l.rec \in Records
          /\ pc'[f] = "add" => content'[l.rec] = l.request
      BY <1>a, <1>c, <2>a, <2>b, <2>c, <3>1, <3>2 DEF OwnersInv
    <3>4. (\A g \in Private : local[g].rec \in live)'
      BY <2>c, <3>1, <3>2, <3>3 DEF OwnersInv
    <3>5. (\A g, h \in Private : local[g].rec = local[h].rec => g = h)'
      BY <2>c, <3>2, <3>3 DEF OwnersInv
    <3>6. (\A i \in Kept : /\ slot[i].data \in live
                           /\ \A g \in Private : slot[i].data # local[g].rec)'
      BY <2>a, <2>c, <3>1, <3>2, <3>3 DEF OwnersInv
    <3>7. (\A i, j \in Kept : slot[i].data = slot[j].data => i = j)'
      BY <2>a, <2>c, <3>3 DEF OwnersInv
    <3>8. (\A g \in Private : pc[g] \in {"add"} \cup Adding =>
             content[local[g].rec] = local[g].request)'
      <4> SUFFICES ASSUME NEW g \in Private, pc'[g] \in {"add"} \cup Adding
                   PROVE  content'[local'[g].rec] = local'[g].request
        BY <3>2
      <4>1. CASE g = f
        BY <3>1, <3>3, <4>1 DEF Adding
      <4>2. CASE g # f
        BY <1>a, <2>c, <3>3, <4>2 DEF OwnersInv
      <4>3. QED
        BY <4>1, <4>2
    <3>9. (\A i \in Clean : Answers(i))'
      BY <1>a, <1>c, <2>a, <2>c, <3>3 DEF OwnersInv, Answers
    <3>10. QED
      BY <3>4, <3>5, <3>6, <3>7, <3>8, <3>9 DEF OwnersInv
  <2>3. CASE pc[f] = "failed"
    <3>1. live' = live \ {l.rec} /\ content' = content /\ pc'[f] = "post"
      BY <1>4, <2>3 DEF FetchDone, Moved, cacheSlots
    <3>2. f \in Private /\ Private' = Private \ {f}
      BY <2>3, <2>b, <3>1 DEF Private, Adding
    <3>3. QED
      BY <1>a, <1>c, <2>a, <2>b, <2>c, <3>1, <3>2 DEF OwnersInv, Answers
  <2>4. CASE pc[f] \in {"found", "post"}
    <3>1. UNCHANGED <<live, content>> /\ pc'[f] \in {"post", "idle"}
      BY <1>4, <2>4 DEF FetchDone, Moved, cacheVars
    <3>2. QED
      BY <1>4, <1>b, <2>4, <2>b, <3>1, UrlsSteady DEF Private, Adding
  <2>5. QED
    BY <1>4, <2>1, <2>2, <2>3, <2>4 DEF FetchDone, Moved
<1>6. ASSUME NEW f \in Fetchers, AddDone(f)
      PROVE  OwnersInv'
  <2> DEFINE l == local[f]
  <2>a. OwnersInv
    OBVIOUS
  <2>b. \A t \in Threads \ {f} : pc'[t] = pc[t] /\ local'[t] = local[t]
    BY <1>6 DEF AddDone, Moved
  <2>c. pc[f] \in {"insert", "scan"} \cup {"evict"} \cup Evicting =>
          \A t \in Threads \ {f} : pc[t] \notin {"copied", "free", "data"}
    BY DEF MutexInv, Adding, Evicting
  <2>d. pc[f] \in {"evict"} \cup Evicting => l.victim \in 1..count
    BY DEF Indices
  <2>1. CASE pc[f] = "add"
    <3>1. /\ UNCHANGED <<slot, count, content>>
          /\ \/ pc'[f] = "lookup" /\ live' = live \ {l.rec}
             \/ /\ pc'[f] \in {"insert", "scan"} /\ live' = live
                /\ local'[f].rec = l.rec /\ local'[f].request = l.request
      BY <1>6, <2>1 DEF AddDone, Moved
    <3>2. Kept' = Kept /\ Clean' = Clean
      BY <2>1, <2>b, <3>1 DEF Kept, Clean, Victims
    <3>3. f \in Private
      BY <2>1 DEF Private
    <3>4. CASE pc'[f] = "lookup" /\ live' = live \ {l.rec}
      <4>1. Private' = Private \ {f}
        BY <2>b, <3>4 DEF Private, Adding
      <4>2. QED
        BY <1>a, <1>c, <2>a, <2>b, <3>1, <3>2, <3>3, <3>4, <4>1 DEF OwnersInv, Answers
    <3>5. CASE /\ pc'[f] \in {"insert", "scan"} /\ live' = live
               /\ local'[f].rec = l.rec /\ local'[f].request = l.request
      <4>1. Private' = Private
        BY <2>b, <3>3, <3>5 DEF Private, Adding
      <4>2. QED
        BY <1>a, <1>c, <2>1, <2>a, <2>b, <3>1, <3>2, <3>3, <3>5, <4>1 DEF OwnersInv, Answers
    <3>6. QED
      BY <3>1, <3>4, <3>5
  <2>2. CASE pc[f] = "insert"
    <3>1. /\ count' = count + 1 /\ Put(count + 1, Stored(l), l.rec)
          /\ pc'[f] = "lookup" /\ UNCHANGED <<live, content>>
      BY <1>6, <2>2 DEF AddDone, Moved
    <3>2. /\ \A i \in 1..count : slot'[i] = slot[i]
          /\ slot'[count + 1].url = Stored(l) /\ slot'[count + 1].data = l.rec
          /\ 1..count' = 1..count \cup {count + 1} /\ count + 1 \notin 1..count
      BY <1>a, <2>2, <3>1 DEF Put
    <3>3. /\ \A t \in Threads : pc[t] \notin {"copied", "free", "data"}
          /\ \A t \in Threads : pc'[t] \notin {"copied", "free", "data"}
      BY <2>2, <2>b, <2>c, <3>1
    <3>4. /\ Kept = 1..count /\ Kept' = 1..count \cup {count + 1}
          /\ Clean = 1..count /\ Clean' = 1..count \cup {count + 1}
      BY <3>2, <3>3 DEF Kept, Clean, Victims, Fetchers
    <3>5. f \in Private /\ Private' = Private \ {f}
      BY <2>2, <2>b, <3>1 DEF Private, Adding
    <3>6. \A i \in {count + 1} :
            \/ slot'[i].url = Garbled
            \/ ResponseTo(content'[slot'[i].data], slot'[i].url)
      BY <2>2, <2>a, <3>1, <3>2, <3>5, AnswersStored
    <3>7. \A i \in Clean' : i \in Clean \/ i = count + 1
      BY <3>4
    <3>8. (\A i \in Clean : Answers(i))'
      BY <1>c, <2>a, <3>1, <3>2, <3>6, <3>7 DEF OwnersInv, Answers
    <3>9. /\ \A g \in Private' : local'[g] = local[g] /\ pc'[g] = pc[g]
          /\ \A i \in Kept' : i \in Kept \/ i = count + 1
          /\ \A i \in Kept : slot'[i].data = slot[i].data
      BY <1>c, <2>b, <3>2, <3>4, <3>5
    <3>10. (/\ \A g \in Private : local[g].rec \in live
            /\ \A g, h \in Private : local[g].rec = local[h].rec => g = h
            /\ \A g \in Private : pc[g] \in {"add"} \cup Adding =>
                 content[local[g].rec] = local[g].request)'
      BY <2>a, <3>1, <3>5, <3>9 DEF OwnersInv
    <3>11. (\A i \in Kept : /\ slot[i].data \in live
                            /\ \A g \in Private : slot[i].data # local[g].rec)'
      BY <2>a, <3>1, <3>2, <3>5, <3>9 DEF OwnersInv
    <3>12. (\A i, j \in Kept : slot[i].data = slot[j].data => i = j)'
      BY <2>a, <3>2, <3>5, <3>9 DEF OwnersInv
    <3>13. QED
      BY <3>8, <3>10, <3>11, <3>12 DEF OwnersInv
  <2>3. CASE pc[f] \in {"scan", "evict", "copied"}
    <3>1. /\ UNCHANGED <<live, content>> /\ count' = count
          /\ pc'[f] \in {"scan", "evict", "copied", "free"}
          /\ local'[f].rec = l.rec /\ local'[f].request = l.request
          /\ pc[f] # "scan" => local'[f].victim = l.victim
          /\ pc[f] = "scan" => pc'[f] \in {"scan", "evict"} /\ slot' = slot
          /\ pc[f] = "evict" => pc'[f] = "copied"
          /\ pc[f] = "copied" => pc'[f] = "free"
      BY SMTT(30), <1>6, <2>3 DEF AddDone, Moved, cacheVars
    <3>2. /\ \A i \in 1..count : slot'[i].data = slot[i].data
          /\ pc[f] # "scan" => \A i \in 1..count \ {l.victim} : slot'[i] = slot[i]
      BY <1>6, <1>a, <2>3, <2>d, <3>1 DEF AddDone, Moved, Put, Evicting
    <3>3. Kept' = Kept
      BY <2>3, <2>b, <3>1 DEF Kept
    <3>4. Private' = Private /\ f \in Private
      BY <2>3, <2>b, <3>1 DEF Private, Adding
    <3>5. \A i \in Clean' : i \in Clean /\ slot'[i].url = slot[i].url
      BY <2>3, <2>b, <2>c, <3>1, <3>2 DEF Clean, Victims, Fetchers
    <3>6. QED
      <4>1. /\ \A g \in Private : /\ local'[g].rec = local[g].rec
                                  /\ local'[g].request = local[g].request
            /\ \A g \in Private : pc'[g] \in {"add"} \cup Adding =>
                                    pc[g] \in {"add"} \cup Adding
        BY <1>c, <2>3, <2>b, <3>1 DEF Adding
      <4>2. /\ \A i \in Clean' : i \in Clean /\ slot'[i].data = slot[i].data
            /\ \A i \in Kept : slot'[i].data = slot[i].data
        BY <1>c, <3>2, <3>5
      <4>3. QED
        BY <2>a, <3>1, <3>3, <3>4, <3>5, <4>1, <4>2 DEF OwnersInv, Answers
  <2>4. CASE pc[f] = "free"
    <3>1. /\ UNCHANGED <<slot, count, content>> /\ pc'[f] = "data"
          /\ live' = live \ {slot[l.victim].data} /\ local'[f].victim = l.victim
          /\ local'[f].rec = l.rec /\ local'[f].request = l.request
      BY <1>6, <2>4 DEF AddDone, Moved
    <3>2. l.victim \in 1..count
      BY <2>4, <2>d DEF Evicting
    <3>3. \A t \in Threads : pc[t] # "data" /\ (pc'[t] = "data" => t = f)
      BY <2>4, <2>b, <2>c DEF Evicting
    <3>4. /\ Kept = 1..count /\ Kept' = (1..count) \ {l.victim}
          /\ Clean' = (1..count) \ {l.victim}
      <4>1. \A t \in Threads \ {f} : pc'[t] \notin {"copied", "free", "data"}
        BY <2>4, <2>b, <2>c DEF Evicting
      <4>2. QED
        BY <3>1, <3>3, <4>1 DEF Kept, Clean, Victims, Fetchers
    <3>5. Clean = (1..count) \ {l.victim}
      BY <2>4, <2>c DEF Clean, Victims, Fetchers, Evicting
    <3>6. Private' = Private /\ f \in Private
      BY <2>4, <2>b, <3>1 DEF Private, Adding
    <3>7. QED
      <4>1. /\ \A g \in Private : /\ local'[g].rec = local[g].rec
                                  /\ local'[g].request = local[g].request
            /\ \A g \in Private : pc'[g] \in {"add"} \cup Adding =>
                                    pc[g] \in {"add"} \cup Adding
        BY <1>c, <2>4, <2>b, <3>1 DEF Adding
      <4>2. /\ \A g \in Private : slot[l.victim].data # local[g].rec
            /\ \A i \in Kept' : i \in Kept /\ slot[i].data # slot[l.victim].data
        BY <2>a, <3>2, <3>4 DEF OwnersInv
      <4>3. Clean' = Clean
        BY <3>4, <3>5
      <4>4. QED
        BY <2>a, <3>1, <3>6, <4>1, <4>2, <4>3 DEF OwnersInv, Answers
  <2>5. CASE pc[f] = "data"
    <3>1. /\ UNCHANGED <<live, count, content>> /\ pc'[f] = "reset"
          /\ Put(l.victim, Stored(l), l.rec)
      BY <1>6, <2>5 DEF AddDone, Moved
    <3>2. /\ l.victim \in 1..count /\ slot'[l.victim].data = l.rec
          /\ slot'[l.victim].url = Stored(l)
          /\ \A i \in 1..count \ {l.victim} : slot'[i] = slot[i]
      BY <1>a, <2>5, <2>d, <3>1 DEF Put, Evicting
    <3>3. f \in Private
      BY <2>5 DEF Private, Adding
    <3>4. \A t \in Threads \ {f} : pc[t] \notin {"copied", "free", "data"}
      BY <2>5, <2>c DEF Evicting
    <3>5. /\ Kept = (1..count) \ {l.victim} /\ Clean = (1..count) \ {l.victim}
          /\ Kept' = 1..count /\ Clean' = 1..count
      BY <2>5, <2>b, <3>1, <3>4 DEF Kept, Clean, Victims, Fetchers
    <3>6. Private' = Private \ {f}
      BY <2>5, <2>b, <3>1 DEF Private, Adding
    <3>7. \A i \in {l.victim} :
            \/ slot'[i].url = Garbled
            \/ ResponseTo(content'[slot'[i].data], slot'[i].url)
      BY <2>5, <2>a, <3>1, <3>2, <3>3, AnswersStored
    <3>8. \A i \in Clean' : i \in Clean \/ i = l.victim
      BY <3>5
    <3>9. (\A i \in Clean : Answers(i))'
      BY <2>a, <3>1, <3>2, <3>5, <3>7, <3>8 DEF OwnersInv, Answers
    <3>10. QED
      BY <1>a, <1>c, <2>5, <2>a, <2>b, <3>1, <3>2, <3>3, <3>5, <3>6, <3>9
      DEF OwnersInv, Adding
  <2>6. CASE pc[f] = "reset"
    <3>1. /\ UNCHANGED <<live, content>> /\ count' = count /\ pc'[f] = "lookup"
          /\ Put(l.victim, slot[l.victim].url, slot[l.victim].data)
      BY <1>6, <2>6 DEF AddDone, Moved
    <3>2. /\ \A i \in 1..count : slot'[i].url = slot[i].url
          /\ \A i \in 1..count : slot'[i].data = slot[i].data
      BY <1>a, <2>6, <2>d, <3>1 DEF Put, Evicting
    <3>3. Kept' = Kept /\ Clean' = Clean
      BY <2>6, <2>b, <3>1 DEF Kept, Clean, Victims
    <3>4. Private' = Private
      BY <2>6, <2>b, <3>1 DEF Private, Adding
    <3>5. f \notin Private
      BY <2>6 DEF Private, Adding
    <3>6. QED
      BY <2>b, <3>1, <3>2, <3>3, <3>4, <3>5, SteadyOwners DEF OwnersSteady, Private
  <2>7. QED
    BY <1>6, <2>1, <2>2, <2>3, <2>4, <2>5, <2>6 DEF AddDone, Moved
<1>8. QED
  BY <1>1, <1>2, <1>3, <1>4, <1>5, <1>6, <1>7, DoneCases

\* What is still allocated and stays with its owner does not leak.
LEMMA SteadyLeaks ==
  ASSUME NoLeak, live' \subseteq live,
         \A i \in Kept : slot[i].data \in live' =>
           i \in Kept' /\ slot'[i].data = slot[i].data,
         \A f \in Private : local[f].rec \in live' =>
           f \in Private' /\ local'[f].rec = local[f].rec
  PROVE  NoLeak'
<1> SUFFICES ASSUME NEW r \in live'
             PROVE  \/ \E i \in Kept' : slot'[i].data = r
                    \/ \E f \in Private' : local'[f].rec = r
  BY DEF NoLeak
<1>1. r \in live
  OBVIOUS
<1>2. CASE \E i \in Kept : slot[i].data = r
  BY <1>2
<1>3. CASE \E f \in Private : local[f].rec = r
  BY <1>3
<1>4. QED
  BY <1>1, <1>2, <1>3 DEF NoLeak

\* No record loses its owner without being freed, until the cache is
\* destroyed.
LEMMA LeakStep ==
  ASSUME Shape, Places, Indices, MutexInv, UrlsInv, OwnersInv, NoLeak,
         [Next]_vars, ~destroyed'
  PROVE  NoLeak'
<1> USE Consts
<1>a. /\ count \in 0..MAX_CACHE_SIZE /\ slot \in [Slots -> Items]
      /\ 1..count \subseteq Slots /\ live \subseteq Records
  BY DEF Shape, CacheTypeOK, Items
<1>c. /\ Private \subseteq Fetchers /\ Fetchers \subseteq Threads
      /\ Kept \subseteq 1..count
  BY DEF Private, Kept, Fetchers
<1>b. CacheSteady /\ live' = live
        /\ (\A f \in Fetchers : f \in Private =>
              pc'[f] = pc[f] /\ local'[f] = local[f])
        => NoLeak'
  <2> SUFFICES ASSUME CacheSteady, live' = live,
                      \A f \in Fetchers : f \in Private =>
                        pc'[f] = pc[f] /\ local'[f] = local[f]
               PROVE  NoLeak'
    OBVIOUS
  <2>1. \A f \in Private : f \in Private' /\ local'[f] = local[f]
    BY <1>c DEF Private
  <2>2. Kept' = Kept
    BY DEF CacheSteady, Kept, Adding
  <2>3. \A i \in Kept : slot'[i].data = slot[i].data
    BY <1>c DEF CacheSteady
  <2>4. QED
    BY <2>1, <2>2, <2>3, SteadyLeaks
<1>1. CASE Ends
  BY SMTT(30), <1>1, <1>b, UrlsSteady DEF Ends, cacheVars
<1>2. CASE MainDone
  BY <1>2, <1>b, UrlsSteady DEF MainDone, Moved, cacheVars, proxyVars
<1>3. ASSUME NEW f \in Fetchers, Started(f)
      PROVE  NoLeak'
  BY <1>3, <1>b, UrlsSteady DEF Started, Private, cacheVars, proxyVars, Shape, Adding
<1>5. ASSUME NEW t \in Threads, LookDone(t)
      PROVE  NoLeak'
  BY <1>5, <1>b, UrlsSteady DEF LookDone, Moved, Private, cacheVars, Adding
<1>7. CASE FreeDone
  <2>1. /\ live' = live
        /\ \A f \in Fetchers : pc'[f] = pc[f] /\ local'[f] = local[f]
    BY <1>7 DEF FreeDone, Moved
  <2>2. QED
    BY <1>7, <1>b, <2>1, UrlsSteady
<1>4. ASSUME NEW f \in Fetchers, FetchDone(f)
      PROVE  NoLeak'
  <2> DEFINE l == local[f]
  <2>a. slot' = slot /\ Kept' = Kept
    <3>1. slot' = slot
      BY <1>4 DEF FetchDone, cacheSlots, cacheVars
    <3>2. CacheSteady
      BY <1>4, UrlsSteady
    <3>3. QED
      BY <3>1, <3>2 DEF CacheSteady, Kept, Adding
  <2>b. \A g \in Fetchers \ {f} : pc'[g] = pc[g] /\ local'[g] = local[g]
    BY <1>4 DEF FetchDone, Moved
  <2>1. CASE pc[f] = "connect"
    <3>1. PICK r \in Records \ live :
            /\ local'[f].rec = r /\ pc'[f] \in {"relay", "failed"}
            /\ live' = live \cup {r}
      BY <1>4, <2>1 DEF FetchDone, Moved
    <3>2. f \notin Private /\ Private' = Private \cup {f}
      BY <2>1, <2>b, <3>1 DEF Private, Adding
    <3>3. \A g \in Private : local'[g] = local[g]
      BY <1>c, <2>b, <3>2
    <3>4. QED
      BY <2>a, <3>1, <3>2, <3>3 DEF NoLeak
  <2>2. CASE pc[f] = "relay"
    <3>1. local'[f].rec = l.rec /\ live' = live /\ pc'[f] \in {"add", "failed"}
      BY <1>4, <2>2 DEF FetchDone, Moved, cacheVars
    <3>2. Private' = Private /\ \A g \in Private : local'[g].rec = local[g].rec
      BY <1>c, <2>2, <2>b, <3>1 DEF Private, Adding
    <3>3. QED
      BY <2>a, <3>1, <3>2, SteadyLeaks
  <2>3. CASE pc[f] = "failed"
    <3>1. live' = live \ {l.rec} /\ pc'[f] = "post"
      BY <1>4, <2>3 DEF FetchDone, Moved
    <3>2. Private' = Private \ {f}
      BY <2>3, <2>b, <3>1 DEF Private, Adding
    <3>3. \A g \in Private : local[g].rec \in live' =>
            g \in Private' /\ local'[g].rec = local[g].rec
      BY <1>c, <2>b, <3>1, <3>2
    <3>4. QED
      BY <2>a, <3>1, <3>3, SteadyLeaks
  <2>4. CASE pc[f] \in {"found", "post"}
    <3>1. live' = live
      BY <1>4, <2>4 DEF FetchDone, Moved, cacheVars
    <3>2. QED
      BY <1>4, <1>b, <2>4, <2>b, <3>1, UrlsSteady DEF Private, Adding
  <2>5. QED
    BY <1>4, <2>1, <2>2, <2>3, <2>4 DEF FetchDone, Moved
<1>6. ASSUME NEW f \in Fetchers, AddDone(f)
      PROVE  NoLeak'
  <2> DEFINE l == local[f]
  <2>b. \A t \in Threads \ {f} : pc'[t] = pc[t] /\ local'[t] = local[t]
    BY <1>6 DEF AddDone, Moved
  <2>c. pc[f] \in {"insert", "scan"} \cup {"evict"} \cup Evicting =>
          \A t \in Threads \ {f} : pc[t] \notin {"copied", "free", "data"}
    BY DEF MutexInv, Adding, Evicting
  <2>d. pc[f] \in {"evict"} \cup Evicting => l.victim \in 1..count
    BY DEF Indices
  <2>1. CASE pc[f] = "add"
    <3>1. /\ UNCHANGED <<slot, count>>
          /\ \/ pc'[f] = "lookup" /\ live' = live \ {l.rec}
             \/ /\ pc'[f] \in {"insert", "scan"} /\ live' = live
                /\ local'[f].rec = l.rec
      BY <1>6, <2>1 DEF AddDone, Moved
    <3>2. Kept' = Kept
      BY <2>1, <2>b, <3>1 DEF Kept
    <3>3. \A g \in Private : local[g].rec \in live' =>
            g \in Private' /\ local'[g].rec = local[g].rec
      BY <1>c, <2>b, <3>1 DEF Private, Adding
    <3>4. QED
      BY <3>1, <3>2, <3>3, SteadyLeaks
  <2>2. CASE pc[f] = "insert"
    <3>1. /\ count' = count + 1 /\ Put(count + 1, Stored(l), l.rec)
          /\ pc'[f] = "lookup" /\ live' = live
      BY <1>6, <2>2 DEF AddDone, Moved
    <3>2. /\ \A i \in 1..count : slot'[i] = slot[i]
          /\ slot'[count + 1].data = l.rec
          /\ 1..count' = 1..count \cup {count + 1}
      BY <1>a, <2>2, <3>1 DEF Put
    <3>3. Kept = 1..count /\ Kept' = 1..count \cup {count + 1}
      <4>1. \A t \in Threads : pc[t] # "data" /\ pc'[t] # "data"
        BY <2>2, <2>b, <2>c, <3>1
      <4>2. QED
        BY <3>2, <4>1, <1>c DEF Kept
    <3>4. \A g \in Private \ {f} : g \in Private' /\ local'[g] = local[g]
      BY <1>c, <2>b DEF Private
    <3>5. QED
      BY <3>1, <3>2, <3>3, <3>4 DEF NoLeak
  <2>3. CASE pc[f] \in {"scan", "evict", "copied"}
    <3>1. /\ live' = live /\ count' = count /\ local'[f].rec = l.rec
          /\ pc'[f] \in {"scan", "evict", "copied", "free"}
          /\ pc[f] = "scan" => slot' = slot
      BY SMTT(30), <1>6, <2>3 DEF AddDone, Moved, cacheVars
    <3>2. \A i \in 1..count : slot'[i].data = slot[i].data
      BY <1>6, <1>a, <2>3, <2>d, <3>1 DEF AddDone, Moved, Put, Evicting
    <3>3. Kept' = Kept
      BY <2>3, <2>b, <3>1 DEF Kept
    <3>4. \A g \in Private : g \in Private' /\ local'[g].rec = local[g].rec
      BY <1>c, <2>3, <2>b, <3>1 DEF Private, Adding
    <3>5. QED
      BY <1>c, <3>1, <3>2, <3>3, <3>4, SteadyLeaks
  <2>4. CASE pc[f] = "free"
    <3>1. /\ UNCHANGED <<slot, count>> /\ pc'[f] = "data"
          /\ live' = live \ {slot[l.victim].data} /\ local'[f].victim = l.victim
          /\ local'[f].rec = l.rec
      BY <1>6, <2>4 DEF AddDone, Moved
    <3>2. Kept' = (1..count) \ {l.victim} /\ Kept = 1..count
      <4>1. \A t \in Threads : pc[t] # "data" /\ (pc'[t] = "data" => t = f)
        BY <2>4, <2>b, <2>c DEF Evicting
      <4>2. QED
        BY <3>1, <4>1, <1>c DEF Kept
    <3>3. \A g \in Private : g \in Private' /\ local'[g].rec = local[g].rec
      BY <1>c, <2>4, <2>b, <3>1 DEF Private, Adding
    <3>4. \A i \in Kept : slot[i].data \in live' => i \in Kept'
      BY <3>1, <3>2
    <3>5. QED
      BY <3>1, <3>3, <3>4, SteadyLeaks
  <2>5. CASE pc[f] = "data"
    <3>1. /\ UNCHANGED <<live, count>> /\ pc'[f] = "reset"
          /\ Put(l.victim, Stored(l), l.rec)
      BY <1>6, <2>5 DEF AddDone, Moved
    <3>2. /\ l.victim \in 1..count /\ slot'[l.victim].data = l.rec
          /\ \A i \in 1..count \ {l.victim} : slot'[i] = slot[i]
      BY <1>a, <2>5, <2>d, <3>1 DEF Put, Evicting
    <3>3. Kept = (1..count) \ {l.victim} /\ Kept' = 1..count
      <4>1. \A t \in Threads : (pc[t] = "data" => t = f) /\ pc'[t] # "data"
        BY <2>5, <2>b, <2>c, <3>1 DEF Evicting
      <4>2. QED
        BY <2>5, <3>1, <4>1, <1>c DEF Kept
    <3>4. \A g \in Private \ {f} : g \in Private' /\ local'[g] = local[g]
      BY <1>c, <2>b DEF Private
    <3>5. QED
      BY <3>1, <3>2, <3>3, <3>4 DEF NoLeak
  <2>6. CASE pc[f] = "reset"
    <3>1. /\ live' = live /\ count' = count /\ pc'[f] = "lookup"
          /\ Put(l.victim, slot[l.victim].url, slot[l.victim].data)
      BY <1>6, <2>6 DEF AddDone, Moved
    <3>2. \A i \in 1..count : slot'[i].data = slot[i].data
      BY <1>a, <2>6, <2>d, <3>1 DEF Put, Evicting
    <3>3. Kept' = Kept
      BY <2>6, <2>b, <3>1 DEF Kept
    <3>4. \A g \in Private : g \in Private' /\ local'[g].rec = local[g].rec
      BY <1>c, <2>6, <2>b DEF Private, Adding
    <3>5. QED
      BY <1>c, <3>1, <3>2, <3>3, <3>4, SteadyLeaks
  <2>7. QED
    BY <1>6, <2>1, <2>2, <2>3, <2>4, <2>5, <2>6 DEF AddDone, Moved
<1>8. QED
  BY <1>1, <1>2, <1>3, <1>4, <1>5, <1>6, <1>7, DoneCases

\* A buffer comes and goes with its record, and is lost when an evicted record
\* is freed alone, until the cache is destroyed.
LEMMA BuffersStep ==
  ASSUME Shape, Places, Indices, MutexInv, OwnersInv, BuffersInv, [Next]_vars,
         ~destroyed'
  PROVE  BuffersInv'
<1>a. IsFiniteSet(live) /\ Cardinality(live) \in Nat /\ lost \in Nat /\ buffers \in Int
      /\ buffers = Cardinality(live) + lost
  BY FS_CardinalityType DEF BuffersInv, Shape, CacheTypeOK
\* A record is allocated or freed, with a buffer or without.
<1>b. ASSUME NEW r, r \notin live, live' = live \cup {r}, buffers' = buffers + 1,
             lost' = lost
      PROVE  BuffersInv'
  <2>1. IsFiniteSet(live') /\ Cardinality(live') = Cardinality(live) + 1
    BY <1>a, <1>b, FS_AddElement
  <2>2. QED
    BY <1>a, <1>b, <2>1 DEF BuffersInv
<1>c. ASSUME NEW r \in live, live' = live \ {r},
             \/ buffers' = buffers - 1 /\ lost' = lost
             \/ buffers' = buffers /\ lost' = lost + 1
      PROVE  BuffersInv'
  <2>1. IsFiniteSet(live') /\ Cardinality(live') = Cardinality(live) - 1
    BY <1>a, <1>c, FS_RemoveElement
  <2>2. QED
    BY <1>a, <1>c, <2>1 DEF BuffersInv
<1>d. UNCHANGED <<live, buffers, lost>> => BuffersInv'
  BY DEF BuffersInv
<1>1. CASE Ends \/ MainDone \/ FreeDone
  BY <1>1, <1>d DEF Ends, MainDone, FreeDone, cacheVars
<1>2. ASSUME NEW f \in Fetchers, Started(f)
      PROVE  BuffersInv'
  BY <1>2, <1>d DEF Started, cacheVars
<1>3. ASSUME NEW t \in Threads, LookDone(t)
      PROVE  BuffersInv'
  BY <1>3, <1>d DEF LookDone, cacheVars
<1>4. ASSUME NEW f \in Fetchers, FetchDone(f)
      PROVE  BuffersInv'
  <2>1. pc[f] = "failed" => local[f].rec \in live
    BY DEF OwnersInv, Private
  <2>2. \/ UNCHANGED <<live, buffers, lost>>
        \/ /\ \E r \in Records \ live : live' = live \cup {r}
           /\ buffers' = buffers + 1 /\ lost' = lost
        \/ /\ pc[f] = "failed" /\ live' = live \ {local[f].rec}
           /\ buffers' = buffers - 1 /\ lost' = lost
    BY <1>4 DEF FetchDone, Moved, cacheVars, cacheSlots
  <2>3. QED
    BY <1>b, <1>c, <1>d, <2>1, <2>2
<1>5. ASSUME NEW f \in Fetchers, AddDone(f)
      PROVE  BuffersInv'
  <2> DEFINE l == local[f]
  <2>1. pc[f] = "add" => l.rec \in live
    BY DEF OwnersInv, Private
  <2>2. pc[f] = "free" => slot[l.victim].data \in live
    <3> SUFFICES ASSUME pc[f] = "free" PROVE slot[l.victim].data \in live
      OBVIOUS
    <3>1. \A g \in Fetchers : pc[g] # "data"
      BY DEF MutexInv, Adding, Fetchers
    <3>2. l.victim \in 1..count
      BY DEF Indices, Evicting, Fetchers
    <3>3. QED
      BY <3>1, <3>2 DEF OwnersInv, Kept
  <2>3. \/ UNCHANGED <<live, buffers, lost>>
        \/ /\ pc[f] = "add" /\ live' = live \ {l.rec}
           /\ buffers' = buffers - 1 /\ lost' = lost
        \/ /\ pc[f] = "free" /\ live' = live \ {slot[l.victim].data}
           /\ buffers' = buffers /\ lost' = lost + 1
    BY <1>5 DEF AddDone, Moved, cacheVars
  <2>4. QED
    BY <1>c, <1>d, <2>1, <2>2, <2>3
<1>6. QED
  BY <1>1, <1>2, <1>3, <1>4, <1>5, DoneCases

-----------------------------------------------------------------------------
(* The sockets.                                                            *)

\* A step that leaves every client where it was, or takes it from its thread.
LEMMA SocketsKept ==
  ASSUME Shape, SocketsInv, UNCHANGED <<peer, unconnected>>,
         \A t \in Threads : local'[t].sock \in {local[t].sock, NoSocket}
  PROVE  SocketsInv'
BY DEF SocketsInv, SocketsNotShared, HasClient

\* A thread closes its socket and has no client any more.
LEMMA SocketsClosed ==
  ASSUME Shape, SocketsInv, NEW t \in Threads, local[t].sock # NoSocket,
         local'[t].sock = NoSocket, Close(local[t].sock), unconnected' = unconnected,
         \A u \in Threads \ {t} : local'[u] = local[u]
  PROVE  SocketsInv'
<1>1. /\ peer \in [Sockets -> Clients \cup {NULL}]
      /\ \A u \in Threads : local[u].sock \in Sockets \cup {NoSocket}
      /\ peer' = [peer EXCEPT ![local[t].sock] = NULL]
  BY DEF Shape, Locals, Close
<1>2. \A n, s \in Sockets : peer'[n] = peer'[s] /\ peer'[n] # NULL => n = s
  BY <1>1 DEF SocketsInv
<1>3. SocketsNotShared'
  BY <1>1 DEF SocketsInv, SocketsNotShared, HasClient
<1>4. QED
  BY <1>2, <1>3 DEF SocketsInv

\* No descriptor is used by two threads, short of a failed connection.
LEMMA SocketsStep ==
  ASSUME Shape, Places, Indices, SocketsInv, [Next]_vars
  PROVE  SocketsInv'
<1> USE Consts DEF proxyVars, status, HasUrl, Callers, Adding
<1>a. /\ peer \in [Sockets -> Clients \cup {NULL}]
      /\ \A u \in Threads : local[u].sock \in Sockets \cup {NoSocket}
      /\ NoSocket \notin Sockets
  BY DEF Shape, Locals, Sockets, NoSocket
<1>b. \A t \in Threads : pc[t] \in {"recv", "found", "create", "connect", "failed"}
        => local[t].sock # NoSocket
  BY DEF Places
<1>c. SocketsInv
  OBVIOUS
<1>1. CASE Ends
  BY <1>1, SocketsKept DEF Ends
<1>2. CASE MainDone
  <2> DEFINE l == local[Main]
  <2>1. \A t \in Threads \ {Main} : local'[t] = local[t]
    BY <1>2 DEF MainDone, Moved
  <2>2. \/ \E c \in Clients, s \in Sockets :
             /\ peer[s] = NULL /\ \A n \in Sockets : peer[n] # c
             /\ local'[Main].sock = s /\ peer' = [peer EXCEPT ![s] = c]
             /\ unconnected' = unconnected
        \/ /\ local'[Main].sock \in {l.sock, NoSocket}
           /\ UNCHANGED <<peer, unconnected>>
        \/ /\ local'[Main].sock = NoSocket /\ Close(l.sock)
           /\ l.sock # NoSocket /\ unconnected' = unconnected
    BY <1>2, <1>b DEF MainDone, Moved
  <2>3. ASSUME NEW c \in Clients, NEW s \in Sockets,
               peer[s] = NULL, \A n \in Sockets : peer[n] # c,
               local'[Main].sock = s, peer' = [peer EXCEPT ![s] = c],
               unconnected' = unconnected
        PROVE  SocketsInv'
    <3>1. \A n, m \in Sockets : peer'[n] = peer'[m] /\ peer'[n] # NULL => n = m
      BY <1>a, <2>3 DEF SocketsInv
    <3>2. SocketsNotShared'
      BY <1>a, <2>1, <2>3 DEF SocketsInv, SocketsNotShared, HasClient
    <3>3. QED
      BY <3>1, <3>2 DEF SocketsInv
  <2>4. QED
    BY <2>1, <2>2, <2>3, SocketsKept, SocketsClosed
<1>3. ASSUME NEW f \in Fetchers, Started(f)
      PROVE  SocketsInv'
  <2>1. /\ local'[f].sock = local[Main].sock /\ local'[Main].sock = NoSocket
        /\ \A u \in Threads \ {Main, f} : local'[u] = local[u]
        /\ UNCHANGED <<peer, unconnected>>
    BY <1>3 DEF Started, NoLocals
  <2>2. SocketsNotShared'
    BY <1>a, <2>1 DEF SocketsInv, SocketsNotShared, HasClient
  <2>3. QED
    BY <2>1, <2>2 DEF SocketsInv
<1>4. ASSUME NEW f \in Fetchers, FetchDone(f)
      PROVE  SocketsInv'
  <2> DEFINE l == local[f]
  <2>1. \A t \in Threads \ {f} : local'[t] = local[t]
    BY <1>4 DEF FetchDone, Moved
  <2>2. \/ Close(l.sock) /\ unconnected'
        \/ /\ local'[f].sock \in {l.sock, NoSocket}
           /\ UNCHANGED <<peer, unconnected>>
        \/ /\ local'[f].sock = NoSocket /\ Close(l.sock)
           /\ l.sock # NoSocket /\ unconnected' = unconnected
    BY <1>4, <1>b DEF FetchDone, Moved
  <2>3. CASE Close(l.sock) /\ unconnected'
    BY <1>a, <2>3 DEF Close, SocketsInv, SocketsNotShared
  <2>4. QED
    BY <2>1, <2>2, <2>3, SocketsKept, SocketsClosed
<1>5. ASSUME NEW t \in Threads, LookDone(t)
      PROVE  SocketsInv'
  BY <1>5, SocketsKept DEF LookDone, Moved
<1>6. ASSUME NEW f \in Fetchers, AddDone(f)
      PROVE  SocketsInv'
  BY <1>6, SocketsKept DEF AddDone, Moved
<1>7. CASE FreeDone
  BY <1>7, SocketsKept DEF FreeDone, Moved
<1>8. QED
  BY <1>1, <1>2, <1>3, <1>4, <1>5, <1>6, <1>7, DoneCases

-----------------------------------------------------------------------------
(* What the lookups find.                                                  *)

\* A slot that has been reused stays so.
LEMMA EvictedStays ==
  ASSUME Shape, Places, Indices, [Next]_vars, evicted
  PROVE  evicted'
<1>1. ASSUME NEW f \in Fetchers, AddDone(f)
      PROVE  evicted'
  BY <1>1 DEF AddDone, cacheVars
<1>2. QED
  BY <1>1, DoneCases, UrlsSteady DEF CacheSteady

\* While none has been, URLs and records stay in their slots.
SlotsStay ==
  /\ count' \in {count, count + 1}
  /\ \A i \in 1..count : slot'[i].url = slot[i].url /\ slot'[i].data = slot[i].data

\* Until an item is evicted no step changes the items of the cache.
LEMMA SlotsStayStep ==
  ASSUME Shape, Places, Indices, [Next]_vars, ~evicted'
  PROVE  SlotsStay /\ \A t \in Threads : pc[t] \notin Evicting
<1>a. /\ count \in 0..MAX_CACHE_SIZE /\ slot \in [Slots -> Items]
      /\ 1..count \subseteq Slots /\ count + 1 \notin 1..count
  BY Consts DEF Shape, CacheTypeOK, Items
<1>b. \A t \in Threads : pc[t] \notin Evicting
  BY EvictedStays DEF Indices
<1>1. ASSUME NEW f \in Fetchers, AddDone(f)
      PROVE  SlotsStay
  <2>1. f \in Threads /\ pc[f] \notin Evicting
    BY <1>b DEF Fetchers
  <2>2. \/ UNCHANGED <<slot, count>>
        \/ count' = count + 1 /\ Put(count + 1, Stored(local[f]), local[f].rec)
    BY <1>1, <2>1 DEF AddDone, Moved, cacheVars, Evicting
  <2>3. QED
    BY <1>a, <2>2 DEF SlotsStay, Put
<1>2. QED
  BY <1>1, <1>b, DoneCases, UrlsSteady DEF CacheSteady, SlotsStay

\* A lookup finds what the thread has added, and what it finds is cached.
LEMMA FoundStep ==
  ASSUME Shape, Places, Indices, UrlsInv, OwnersInv, FoundInv, AddedInv,
         [Next]_vars, ~evicted'
  PROVE  FoundInv' /\ AddedInv'
<1> USE Consts DEF Callers, Adding, MainPlaces, FetchPlaces
<1>a. /\ SlotsStay /\ \A t \in Threads : pc[t] \notin Evicting
      /\ count \in Nat /\ \A t \in Threads : local[t].i \in Nat
      /\ \A t \in Threads : pc[t] = "lookup" => local[t].i >= 1
  BY SlotsStayStep DEF Shape, CacheTypeOK, Locals, Indices
<1>b. \A i \in 1..count : i \in 1..count' /\ slot'[i].url = slot[i].url
                                          /\ slot'[i].data = slot[i].data
  BY <1>a DEF SlotsStay
<1>c. \A i \in 1..count : slot[i].url # Torn /\ slot[i].data # NULL
  <2>1. \A i \in 1..count : slot[i].url # Torn
    BY <1>a DEF UrlsInv, Evicting
  <2>2. Kept = 1..count
    BY <1>a DEF Kept, Evicting
  <2>3. live \subseteq Records
    BY DEF Shape, CacheTypeOK
  <2>4. QED
    BY <2>1, <2>2, <2>3 DEF OwnersInv
\* It is enough that a thread keeps its places and locals, or goes where
\* there is nothing to show, or makes a step of a lookup.
<1> DEFINE Stays(t) == pc'[t] = pc[t] /\ local'[t] = local[t]
           Off(t) == pc'[t] \notin Callers
           Look(t) ==
             /\ pc'[t] \in Callers
             /\ pc'[t] = "lookup" => local'[t].rec = NULL
             /\ pc'[t] \in {"bump", "take"} =>
                  local'[t].i \in 1..count /\ slot[local'[t].i].url = Url(local'[t])
             /\ pc'[t] = "found" /\ local'[t].rec # NULL =>
                  \E i \in 1..count :
                    slot[i].url = Url(local'[t]) /\ slot[i].data = local'[t].rec
             /\ t # Main /\ pc'[t] = "lookup" /\ Url(local'[t]) \notin Long =>
                  \E i \in 1..count' :
                    i >= local'[t].i /\ slot'[i].url = Url(local'[t])
             /\ t # Main /\ pc'[t] = "found" /\ Url(local'[t]) \notin Long =>
                  local'[t].rec # NULL
<1>d. (\A t \in Threads : Stays(t) \/ Off(t) \/ Look(t)) => FoundInv' /\ AddedInv'
  <2> SUFFICES ASSUME \A t \in Threads : Stays(t) \/ Off(t) \/ Look(t)
               PROVE  FoundInv' /\ AddedInv'
    OBVIOUS
  <2>1. \A t \in Threads : pc[t] \in {"bump", "take"} => local[t].i \in 1..count
    BY DEF Indices
  <2>2. FoundInv'
    BY <1>b, <2>1 DEF FoundInv
  <2>3. AddedInv'
    BY <1>b DEF AddedInv
  <2>4. QED
    BY <2>2, <2>3
<1>1. CASE Ends
  BY <1>1, <1>d DEF Ends
<1>2. CASE MainDone
  <2>1. \A t \in Threads \ {Main} : Stays(t)
    BY <1>2 DEF MainDone, Moved
  <2>2. Off(Main) \/ Look(Main)
    BY <1>2 DEF MainDone, Moved
  <2>3. QED
    BY <1>d, <2>1, <2>2
<1>3. ASSUME NEW f \in Fetchers, Started(f)
      PROVE  FoundInv' /\ AddedInv'
  BY <1>3, <1>d DEF Started, Shape
<1>4. ASSUME NEW f \in Fetchers, FetchDone(f)
      PROVE  FoundInv' /\ AddedInv'
  BY <1>4, <1>d DEF FetchDone, Moved
<1>5. ASSUME NEW t \in Threads, LookDone(t)
      PROVE  FoundInv' /\ AddedInv'
  <2> DEFINE l == local[t]
  <2>a. t # Main => t \in Fetchers
    OBVIOUS
  <2>b. \A i \in 1..count' : i \in 1..count /\ slot'[i].url = slot[i].url
    BY <1>5, <1>b, UrlsSteady DEF CacheSteady
  <2>1. \A u \in Threads \ {t} : Stays(u)
    BY <1>5 DEF LookDone, Moved
  <2>2. CASE pc[t] = "lookup"
    <3>1. \/ l.i > count /\ pc'[t] = "found"
             /\ local'[t].rec = l.rec /\ Url(local'[t]) = Url(l)
          \/ /\ l.i <= count /\ slot[l.i].url = Url(l) /\ pc'[t] = "bump"
             /\ local'[t].i = l.i /\ Url(local'[t]) = Url(l)
          \/ /\ l.i <= count /\ slot[l.i].url # Url(l) /\ pc'[t] = "lookup"
             /\ local'[t].i = l.i + 1 /\ Url(local'[t]) = Url(l)
             /\ local'[t].rec = l.rec
      BY <1>5, <1>a, <1>c, <2>2 DEF LookDone, Moved
    <3>2. t # Main /\ Url(l) \notin Long =>
            \E i \in 1..count : i >= l.i /\ slot[i].url = Url(l)
      BY <2>2, <2>a DEF AddedInv
    <3>3. l.rec = NULL
      BY <2>2 DEF FoundInv
    <3>4. Look(t)
      BY <1>a, <1>b, <2>2, <3>1, <3>2, <3>3
    <3>5. QED
      BY <1>d, <2>1, <3>4
  <2>3. CASE pc[t] \in {"bump", "take"}
    <3>1. l.i \in 1..count /\ slot[l.i].url = Url(l)
      BY <2>3 DEF Indices, FoundInv
    <3>2. /\ Url(local'[t]) = Url(l)
          /\ \/ pc'[t] = "take" /\ local'[t].i = l.i
             \/ pc'[t] = "found" /\ local'[t].rec = slot[l.i].data
      BY <1>5, <2>3 DEF LookDone, Moved
    <3>3. Look(t)
      BY <1>c, <3>1, <3>2
    <3>4. QED
      BY <1>d, <2>1, <3>3
  <2>4. QED
    BY <1>5, <2>2, <2>3 DEF LookDone, Moved
<1>6. ASSUME NEW f \in Fetchers, AddDone(f)
      PROVE  FoundInv' /\ AddedInv'
  <2> DEFINE l == local[f]
  <2>1. \A t \in Threads \ {f} : Stays(t)
    BY SMTT(30), <1>6 DEF AddDone, Moved
  <2>2. CASE pc'[f] # "lookup"
    BY <1>6, <1>d, <2>1, <2>2 DEF AddDone, Moved
  <2>3. CASE pc'[f] = "lookup"
    <3>1. /\ local'[f].i = 1 /\ Url(local'[f]) = Url(l) /\ local'[f].rec = NULL
          /\ \/ Known(Url(l))
             \/ count' = count + 1 /\ Put(count + 1, Stored(l), l.rec)
      BY <1>6, <1>a, <2>3 DEF AddDone, Moved, Evicting
    <3>2. Url(l) \notin Long => \E i \in 1..count' : i >= 1 /\ slot'[i].url = Url(l)
      BY <1>a, <1>b, <3>1 DEF Known, Put, Stored
    <3>3. Look(f)
      BY <2>3, <3>1, <3>2
    <3>4. QED
      BY <1>d, <2>1, <3>3
  <2>4. QED
    BY <2>2, <2>3
<1>7. CASE FreeDone
  BY <1>7, <1>d DEF FreeDone, Moved
<1>8. QED
  BY <1>1, <1>2, <1>3, <1>4, <1>5, <1>6, <1>7, DoneCases

-----------------------------------------------------------------------------
(* The answers.                                                            *)

\* What a found record holds is a response to a request with the URL looked up.
LEMMA HeldRight ==
  ASSUME Shape, Places, Indices, OwnersInv, FoundInv, ~evicted,
         NEW t \in Threads, pc[t] = "found", local[t].rec # NULL
  PROVE  ResponseTo(Held(local[t]), Url(local[t]))
<1>1. PICK i \in 1..count :
        slot[i].url = Url(local[t]) /\ slot[i].data = local[t].rec
  BY DEF FoundInv
<1>2. i \in Kept /\ i \in Clean
  BY Consts DEF Indices, Evicting, Kept, Clean, Victims
<1>3. ResponseTo(content[slot[i].data], slot[i].url) /\ slot[i].data \in live
  BY Consts, <1>1, <1>2 DEF OwnersInv, Answers, Places, HasUrl, Callers
<1>4. QED
  BY <1>1, <1>3 DEF Held

\* A failed connection is not forgotten.
LEMMA UnconnectedStays ==
  ASSUME Shape, Places, Indices, [Next]_vars, unconnected
  PROVE  unconnected'
<1>1. CASE Ends \/ MainDone \/ FreeDone
  BY <1>1 DEF Ends, MainDone, FreeDone, proxyVars, status
<1>2. ASSUME NEW f \in Fetchers, Started(f) \/ FetchDone(f) \/ AddDone(f)
      PROVE  unconnected'
  BY <1>2 DEF Started, FetchDone, AddDone, proxyVars, status
<1>3. ASSUME NEW t \in Threads, LookDone(t)
      PROVE  unconnected'
  BY <1>3 DEF LookDone, proxyVars, status
<1>4. QED
  BY <1>1, <1>2, <1>3, DoneCases

\* The next client is asked for nothing yet; a request belongs to its client.
LEMMA AskedStep ==
  ASSUME Shape, Places, Indices, OwnersInv, SocketsInv, FoundInv, AskedInv,
         [Next]_vars, ~evicted', ~unconnected'
  PROVE  AskedInv'
<1> USE Consts DEF HasUrl, Callers, Adding, MainPlaces, FetchPlaces
<1>a. /\ peer \in [Sockets -> Clients \cup {NULL}]
      /\ asked \in [Clients -> Requests \cup {NULL, Torn}]
      /\ got \in [Clients -> SUBSET (Requests \cup {NULL, Torn})]
      /\ \A u \in Threads : local[u].sock \in Sockets \cup {NoSocket}
      /\ NoSocket \notin Sockets
  BY DEF Shape, Locals, Sockets, NoSocket
<1>b. ~unconnected /\ ~evicted
  <2>1. ~evicted
    BY EvictedStays
  <2>2. ~unconnected
    BY UnconnectedStays
  <2>3. QED
    BY <2>1, <2>2
\* The client of a thread, and that no other thread has the same.
<1> DEFINE client(t) == peer[local[t].sock]
<1>c. \A t \in Threads : HasClient(t) =>
        /\ local[t].sock \in Sockets /\ client(t) \in Clients
        /\ asked[client(t)] = (IF pc[t] = "recv" THEN NULL ELSE local[t].request)
        /\ \A u \in Threads \ {t} : HasClient(u) =>
             local[u].sock # local[t].sock /\ client(u) # client(t)
  BY <1>a, <1>b DEF HasClient, SocketsInv, SocketsNotShared, AskedInv
<1>d. \A t \in Threads : pc[t] \in HasUrl \cup {"recv"} => HasClient(t)
  BY DEF Places, HasClient
<1>e. SocketsInv'
  BY SocketsStep
\* The thread t answers, or not, and goes on with the same client or none.
<1>f. ASSUME NEW t \in Threads, pc[t] # "recv", pc'[t] # "recv", asked' = asked,
             \A u \in Threads \ {t} : pc'[u] = pc[u] /\ local'[u] = local[u],
             \/ local'[t].sock = NoSocket
             \/ local'[t].sock = local[t].sock /\ local'[t].request = local[t].request,
             peer' = peer \/ Close(local[t].sock),
             \/ got' = got
             \/ /\ HasClient(t) /\ local[t].request \in Requests
                /\ \E q \in Requests : /\ ResponseTo(q, Url(local[t]))
                                       /\ Write(local[t].sock, q)
      PROVE  AskedInv'
  <2>1. \A c \in Clients : \A q \in got'[c] :
          \/ q \in got[c]
          \/ asked[c] \in Requests /\ ResponseTo(q, Reference[asked[c]])
    <3>1. CASE got' = got
      BY <3>1
    <3>2. ASSUME HasClient(t), local[t].request \in Requests,
                 NEW r \in Requests, ResponseTo(r, Url(local[t])),
                 Write(local[t].sock, r)
          PROVE  \A c \in Clients : \A q \in got'[c] :
                   \/ q \in got[c]
                   \/ asked[c] \in Requests /\ ResponseTo(q, Reference[asked[c]])
      <4>1. asked[client(t)] = local[t].request
        BY <1>c, <1>f, <3>2
      <4>2. \A c \in Clients : got'[c] = IF c = client(t) THEN got[c] \cup {r}
                                         ELSE got[c]
        BY <3>2 DEF Write
      <4>3. QED
        BY <3>2, <4>1, <4>2
    <3>3. QED
      BY <1>f, <3>1, <3>2
  <2>2. \A c \in Clients : \A q \in got'[c] :
          asked'[c] \in Requests /\ ResponseTo(q, Reference[asked'[c]])
    BY <1>f, <2>1 DEF AskedInv
  <2>3. \A u \in Threads : HasClient(u)' => HasClient(u) /\ local'[u].sock = local[u].sock
    BY <1>f DEF HasClient
  <2>4. \A u \in Threads : HasClient(u)' => peer'[local'[u].sock] = client(u)
    BY <1>a, <1>b, <1>e, <1>f, <2>3
    DEF Close, SocketsInv, SocketsNotShared, HasClient
  <2>5. \A u \in Threads : HasClient(u)' => asked'[peer'[local'[u].sock]]
          = (IF pc'[u] = "recv" THEN NULL ELSE local'[u].request)
    BY <1>c, <1>f, <2>3, <2>4 DEF HasClient
  <2>6. QED
    BY <2>2, <2>5 DEF AskedInv
<1>1. CASE Ends
  BY <1>1 DEF Ends, AskedInv, HasClient
<1>2. CASE MainDone
  <2> DEFINE l == local[Main]
  <2>1. \A u \in Threads \ {Main} : pc'[u] = pc[u] /\ local'[u] = local[u]
    BY <1>2 DEF MainDone, Moved
  <2>2. CASE pc[Main] = "accept" /\ pc'[Main] = "recv"
    <3>1. PICK c \in Clients, s \in Sockets :
            /\ asked[c] = NULL /\ peer[s] = NULL
            /\ local'[Main].sock = s /\ peer' = [peer EXCEPT ![s] = c]
            /\ UNCHANGED <<asked, got>>
      BY <1>2, <2>2 DEF MainDone, Moved
    <3>2. \A u \in Threads \ {Main} : HasClient(u) =>
            local[u].sock # s /\ peer'[local[u].sock] = client(u)
      BY <1>a, <1>c, <3>1
    <3>3. QED
      BY <1>a, <1>c, <2>1, <2>2, <3>1, <3>2 DEF AskedInv, HasClient
  <2>3. CASE pc[Main] = "recv"
    <3>1. HasClient(Main) /\ asked[client(Main)] = NULL
      BY <1>c, <1>d, <2>3
    <3>2. /\ got' = got
          /\ \/ \E q \in Requests :
                  /\ asked' = [asked EXCEPT ![client(Main)] = q]
                  /\ local'[Main].request = q /\ local'[Main].sock = l.sock
                  /\ pc'[Main] = "lookup" /\ peer' = peer
             \/ /\ asked' = [c \in Clients |-> IF c = client(Main) THEN Torn
                                             ELSE asked[c]]
                /\ local'[Main].sock = NoSocket /\ Close(l.sock)
      BY <1>2, <2>3 DEF MainDone, Moved
    <3>3. \A c \in Clients \ {client(Main)} : asked'[c] = asked[c]
      BY <1>a, <1>c, <3>1, <3>2
    <3>4. \A c \in Clients : \A q \in got'[c] :
            asked'[c] \in Requests /\ ResponseTo(q, Reference[asked'[c]])
      <4>1. \A c \in Clients : \A q \in got[c] :
              c # client(Main) /\ asked[c] \in Requests
                /\ ResponseTo(q, Reference[asked[c]])
        BY <3>1 DEF AskedInv
      <4>2. QED
        BY <3>2, <3>3, <4>1
    <3>5. \A u \in Threads \ {Main} : HasClient(u)' =>
            /\ HasClient(u) /\ peer'[local'[u].sock] = client(u)
            /\ client(u) # client(Main)
      BY <1>a, <1>c, <2>1, <3>1, <3>2 DEF Close, HasClient
    <3>6. \A u \in Threads : HasClient(u)' => asked'[peer'[local'[u].sock]]
            = (IF pc'[u] = "recv" THEN NULL ELSE local'[u].request)
      <4>1. ASSUME HasClient(Main)'
            PROVE  asked'[peer'[local'[Main].sock]]
                     = (IF pc'[Main] = "recv" THEN NULL ELSE local'[Main].request)
        BY <1>a, <1>c, <3>1, <3>2, <4>1 DEF HasClient
      <4>2. QED
        BY <1>c, <2>1, <3>3, <3>5, <4>1
    <3>7. QED
      BY <3>4, <3>6 DEF AskedInv
  <2>4. CASE pc[Main] = "found"
    <3>1. l.rec # NULL => ResponseTo(Held(l), Url(l))
      BY <1>b, <2>4, HeldRight
    <3>2. HasClient(Main) /\ l.request \in Requests
      BY <1>d, <2>4 DEF Places
    <3>3. /\ pc'[Main] # "recv" /\ asked' = asked
          /\ \/ local'[Main].sock = NoSocket
             \/ local'[Main].sock = l.sock /\ local'[Main].request = l.request
          /\ peer' = peer \/ Close(l.sock)
          /\ got' = got \/ (l.rec # NULL /\ Write(l.sock, Held(l)))
      BY <1>2, <2>4 DEF MainDone, Moved, proxyVars
    <3>4. got' = got \/ \E q \in Requests :
                           ResponseTo(q, Url(l)) /\ Write(l.sock, q)
      BY <3>1, <3>3 DEF ResponseTo
    <3>5. QED
      BY <1>f, <2>1, <2>4, <3>2, <3>3, <3>4
  <2>5. CASE pc[Main] \notin {"recv", "found"} /\ pc'[Main] # "recv"
    <3>1. /\ asked' = asked /\ got' = got /\ local'[Main].sock = NoSocket
          /\ peer' = peer \/ Close(l.sock)
      BY <1>2, <2>5 DEF MainDone, Moved, proxyVars
    <3>2. QED
      BY <1>f, <2>1, <2>5, <3>1
  <2>6. QED
    BY <1>2, <2>2, <2>3, <2>4, <2>5 DEF MainDone, Moved
<1>3. ASSUME NEW f \in Fetchers, Started(f)
      PROVE  AskedInv'
  <2>1. /\ local'[f].sock = local[Main].sock /\ local'[f].request = local[Main].request
        /\ local'[Main].sock = NoSocket /\ UNCHANGED <<peer, asked, got>>
        /\ \A u \in Threads \ {Main, f} : pc'[u] = pc[u] /\ local'[u] = local[u]
        /\ pc'[f] = "connect" /\ pc[Main] = "create"
    BY <1>3 DEF Started, NoLocals, proxyVars, Shape
  <2>2. QED
    BY <1>c, <2>1 DEF AskedInv, HasClient
<1>4. ASSUME NEW f \in Fetchers, FetchDone(f)
      PROVE  AskedInv'
  <2> DEFINE l == local[f]
  <2>1. \A u \in Threads \ {f} : pc'[u] = pc[u] /\ local'[u] = local[u]
    BY <1>4 DEF FetchDone, Moved
  <2>2. /\ pc[f] \notin {"recv"} /\ pc'[f] # "recv" /\ asked' = asked
        /\ \/ local'[f].sock = NoSocket
           \/ local'[f].sock = l.sock /\ local'[f].request = l.request
    BY <1>4 DEF FetchDone, Moved, proxyVars
  <2>3. peer' = peer \/ Close(l.sock)
    BY <1>4 DEF FetchDone, proxyVars
  <2>4. pc[f] \in {"relay", "found"} => HasClient(f) /\ l.request \in Requests
    BY <1>d DEF Places
  <2>5. pc[f] = "found" /\ l.rec # NULL => ResponseTo(Held(l), Url(l))
    BY <1>b, HeldRight
  <2>6. got' = got \/ (pc[f] = "relay" /\ Write(l.sock, l.request))
                  \/ (pc[f] = "found" /\ l.rec # NULL /\ Write(l.sock, Held(l)))
    BY <1>4 DEF FetchDone, Moved, proxyVars
  <2>7. \/ got' = got
        \/ /\ pc[f] \in {"relay", "found"}
           /\ \E q \in Requests : ResponseTo(q, Url(l)) /\ Write(l.sock, q)
    <3>1. CASE pc[f] = "relay" /\ Write(l.sock, l.request)
      <4>1. l.request \in Requests /\ ResponseTo(l.request, Url(l))
        BY <2>4, <3>1 DEF ResponseTo
      <4>2. QED
        BY <3>1, <4>1
    <3>2. CASE pc[f] = "found" /\ l.rec # NULL /\ Write(l.sock, Held(l))
      <4>1. Held(l) \in Requests /\ ResponseTo(Held(l), Url(l))
        BY <2>5, <3>2 DEF ResponseTo
      <4>2. QED
        BY <3>2, <4>1
    <3>3. CASE got' = got
      BY <3>3
    <3>4. QED
      BY <2>6, <3>1, <3>2, <3>3
  <2>8. QED
    BY <1>f, <2>1, <2>2, <2>3, <2>4, <2>7
<1>5. ASSUME NEW t \in Threads, LookDone(t)
      PROVE  AskedInv'
  BY <1>5, <1>f DEF LookDone, Moved, proxyVars
<1>6. ASSUME NEW f \in Fetchers, AddDone(f)
      PROVE  AskedInv'
  BY <1>6, <1>f DEF AddDone, Moved, proxyVars
<1>7. CASE FreeDone
  <2>1. CASE UNCHANGED <<pc, local>>
    BY <1>7, <2>1 DEF FreeDone, AskedInv, HasClient
  <2>2. CASE /\ pc[Main] \in {"shutdown", "destroying"} /\ pc'[Main] # "recv"
             /\ local'[Main].sock = NoSocket
             /\ \A u \in Threads \ {Main} : pc'[u] = pc[u] /\ local'[u] = local[u]
    BY <1>7, <1>f, <2>2 DEF FreeDone
  <2>3. QED
    BY <1>7, <2>1, <2>2 DEF FreeDone, Moved
<1>8. QED
  BY <1>1, <1>2, <1>3, <1>4, <1>5, <1>6, <1>7, DoneCases

-----------------------------------------------------------------------------
(* The invariant, and what follows from it.                                *)

\* The proxy starts with no client, an empty cache and every permit.
LEMMA InitIInv == Init => IInv
<1> SUFFICES ASSUME Init PROVE IInv
  OBVIOUS
<1> USE Consts
<1>1. Shape /\ Places /\ Indices
  BY InitShape
<1>2. /\ count = 0 /\ cache_mutex = NULL /\ process = "running"
      /\ pc = [t \in Threads |-> IF t = Main THEN "accept" ELSE "idle"]
      /\ local = [t \in Threads |-> NoLocals]
      /\ thread_semaphore = MAX_USERS_COUNT /\ failures = 0
      /\ \A s \in Sockets : peer[s] = NULL
      /\ \A c \in Clients : got[c] = {}
  BY DEF Init, CacheInit
<1>3. MutexInv
  BY <1>2 DEF MutexInv, Adding
<1>4. UrlsInv
  BY <1>2 DEF UrlsInv, OneCopyPerUrl
<1>5. PermitsAccounted
  <2>1. Busy = {}
    BY <1>2 DEF Busy
  <2>2. Cardinality(Busy) = 0
    BY <2>1, FS_EmptySet
  <2>3. QED
    BY <1>2, <2>2 DEF PermitsAccounted
<1>6. OwnersInv /\ NoLeak /\ BuffersInv
  <2>1. Private = {} /\ Kept = {} /\ Clean = {} /\ live = {}
    BY <1>2 DEF Private, Kept, Clean, Adding, Init, CacheInit
  <2>2. IsFiniteSet(live) /\ Cardinality(live) = 0
    BY <2>1, FS_EmptySet
  <2>3. BuffersInv
    BY <2>2 DEF BuffersInv, Init, CacheInit
  <2>4. QED
    BY <2>1, <2>3 DEF OwnersInv, NoLeak
<1>7. \A t \in Threads : ~HasClient(t)
  BY <1>2 DEF HasClient, NoLocals
<1>8. SocketsInv
  BY <1>2, <1>7 DEF SocketsInv, SocketsNotShared
<1>9. FoundInv /\ AddedInv
  BY <1>2 DEF FoundInv, AddedInv
<1>10. AskedInv
  BY <1>2, <1>7 DEF AskedInv
<1>11. QED
  BY <1>1, <1>3, <1>4, <1>5, <1>6, <1>8, <1>9, <1>10 DEF IInv

\* Every step keeps the invariant.
LEMMA StepIInv == IInv /\ [Next]_vars => IInv'
<1> SUFFICES ASSUME IInv, [Next]_vars PROVE IInv'
  OBVIOUS
<1>1. Shape /\ Places /\ Indices /\ MutexInv /\ UrlsInv /\ SocketsInv
  BY DEF IInv
<1>2. Shape' /\ Places' /\ Indices' /\ MutexInv' /\ UrlsInv'
  BY <1>1, ShapeStep, PlacesStep, IndicesStep, MutexStep, UrlsStep
<1>3. PermitsAccounted'
  BY <1>1, PermitsStep DEF IInv
<1>4. SocketsInv'
  BY <1>1, SocketsStep
<1>5. destroyed' \/ (OwnersInv' /\ NoLeak' /\ BuffersInv')
  BY <1>1, OwnersStep, LeakStep, BuffersStep, DestroyedStays DEF IInv
<1>6. evicted' \/ destroyed' \/ (FoundInv' /\ AddedInv')
  BY <1>1, FoundStep, EvictedStays, DestroyedStays DEF IInv
<1>7. unconnected => unconnected'
  BY <1>1, UnconnectedStays
<1>8. evicted' \/ unconnected' \/ destroyed' \/ AskedInv'
  BY <1>1, <1>7, AskedStep, EvictedStays, DestroyedStays DEF IInv
<1>9. QED
  BY <1>2, <1>3, <1>4, <1>5, <1>6, <1>8 DEF IInv

\* The invariant of the proxy holds in every state it can reach, for any
\* numbers of clients, fetch threads, permits, URLs, items and records.
THEOREM Invariance == Spec => []IInv
BY InitIInv, StepIInv, PTL DEF Spec

\* add_to_cache never puts a URL into two slots (cache.c:35-45), whatever the
\* fetches that run at the same time, unless it is too long for its array.
THEOREM ProxyOneCopyPerUrl == Spec => []OneCopyPerUrl
<1>1. IInv => OneCopyPerUrl
  BY DEF IInv, UrlsInv
<1>2. QED
  BY <1>1, Invariance, PTL

\* thread_semaphore (proxy.c:184-205) counts every fetch, and loses a permit
\* only with a thread that cannot be started.
THEOREM ProxyPermitsAccounted == Spec => []PermitsAccounted
<1>1. IInv => PermitsAccounted
  BY DEF IInv
<1>2. QED
  BY <1>1, Invariance, PTL

\* No more than MAX_USERS_COUNT fetches run at a time.
THEOREM ProxyFetchesBounded == Spec => [](Cardinality(Busy) <= MAX_USERS_COUNT)
<1>1. IInv => Cardinality(Busy) <= MAX_USERS_COUNT
  <2>1. IsFiniteSet(Busy)
    BY ProxyAssumption, FS_Subset DEF Busy, Fetchers
  <2>2. Cardinality(Busy) \in Nat
    BY <2>1, FS_CardinalityType
  <2>3. QED
    BY <2>2, Consts DEF IInv, Shape, PermitsAccounted
<1>2. QED
  BY <1>1, Invariance, PTL

\* What the cache has for a URL (cache.c:30-82) is a response to a request with
\* that reference, in memory that has not been freed, except in the slot being
\* replaced.
THEOREM ProxyEntriesSound == Spec => []EntriesSound
<1>1. IInv => EntriesSound
  <2>1. Clean \subseteq Kept
    BY DEF Clean, Kept, Victims, Fetchers
  <2>2. QED
    BY <2>1 DEF IInv, OwnersInv, EntriesSound, Clean, Answers
<1>2. QED
  BY <1>1, Invariance, PTL

\* A fetch or a slot has one record, and no other has it.
LEMMA RecordsCounted ==
  ASSUME Shape, OwnersInv, NoLeak
  PROVE  /\ live = {slot[i].data : i \in Kept} \cup {local[f].rec : f \in Private}
         /\ Cardinality(live) = Cardinality(Kept) + Cardinality(Private)
<1> DEFINE A == {slot[i].data : i \in Kept}
           B == {local[f].rec : f \in Private}
           F == [i \in Kept |-> slot[i].data]
           G == [f \in Private |-> local[f].rec]
<1>1. live = A \cup B
  BY DEF OwnersInv, NoLeak
<1>2. IsFiniteSet(Kept)
  <2>1. count \in Nat
    BY Consts DEF Shape, CacheTypeOK
  <2>2. IsFiniteSet(1..count)
    BY <2>1, FS_Interval
  <2>3. Kept \subseteq 1..count
    BY DEF Kept
  <2>4. QED
    BY <2>2, <2>3, FS_Subset
<1>3. IsFiniteSet(Private)
  <2>1. Private \subseteq Threads
    BY DEF Private, Fetchers
  <2>2. QED
    BY <2>1, ProxyAssumption, FS_Subset
<1>4. IsFiniteSet(A) /\ Cardinality(A) = Cardinality(Kept)
  <2>1. F \in [Kept -> A] /\ \A r \in A : \E i \in Kept : F[i] = r
    OBVIOUS
  <2>2. \A i, j \in Kept : F[i] = F[j] => i = j
    BY DEF OwnersInv
  <2>3. ExistsBijection(Kept, A)
    BY <2>1, <2>2
    DEF ExistsBijection, Bijection, Injection, Surjection, IsInjective
  <2>4. QED
    BY <1>2, <2>3, FS_Bijection
<1>5. IsFiniteSet(B) /\ Cardinality(B) = Cardinality(Private)
  <2>1. G \in [Private -> B] /\ \A r \in B : \E f \in Private : G[f] = r
    OBVIOUS
  <2>2. \A f, g \in Private : G[f] = G[g] => f = g
    BY DEF OwnersInv
  <2>3. ExistsBijection(Private, B)
    BY <2>1, <2>2
    DEF ExistsBijection, Bijection, Injection, Surjection, IsInjective
  <2>4. QED
    BY <1>3, <2>3, FS_Bijection
<1>6. A \cap B = {}
  BY DEF OwnersInv
<1>7. /\ Cardinality(A) \in Nat /\ Cardinality(B) \in Nat
      /\ Cardinality(A \cup B)
           = Cardinality(A) + Cardinality(B) - Cardinality(A \cap B)
  BY <1>4, <1>5, FS_Union, FS_CardinalityType
<1>8. Cardinality(A \cap B) = 0
  BY <1>6, FS_EmptySet
<1>9. QED
  BY <1>1, <1>4, <1>5, <1>7, <1>8

\* Until the cache is destroyed, every MemStruct that is allocated
\* (proxy.c:60-147, cache.c:30-72) is in one slot or with one fetch, and in no
\* other: none leaks, and none has two owners that would free it twice.  There
\* is a buffer for each, and besides those only the buffers whose MemStructs
\* were evicted (cache.c:69 frees these alone): as many as there were evictions.
THEOREM ProxyRecordsOwned == Spec => []RecordsOwned
<1>1. IInv => RecordsOwned
  BY RecordsCounted DEF IInv, RecordsOwned, BuffersInv, Kept
<1>2. QED
  BY <1>1, Invariance, PTL

\* Short of a failed connection (proxy.c:66-87), no two threads ever have the
\* same descriptor, and none has a closed one.
THEOREM ProxySocketsNotShared == Spec => []SocketsNotShared
<1>1. IInv => SocketsNotShared
  BY DEF IInv, SocketsInv
<1>2. QED
  BY <1>1, Invariance, PTL

\* Short of an eviction, a failed connection and the end of the process, a
\* client receives nothing but responses to requests for which extractReference
\* (proxy.c:219-237) gives what it gives for its own.
THEOREM ProxyRightAnswer == Spec => []RightAnswer
<1>1. IInv => RightAnswer
  BY DEF IInv, AskedInv, RightAnswer
<1>2. QED
  BY <1>1, Invariance, PTL

\* The lookup that follows add_to_cache (proxy.c:144-145) succeeds, and with it
\* the access through its result, until a slot has been reused or the cache has
\* been freed, for every URL that fits in its array (cache.c:50).
THEOREM ProxyFindsItsResponse == Spec => []FindsItsResponse
<1>1. IInv => FindsItsResponse
  BY DEF IInv, AddedInv, FindsItsResponse
<1>2. QED
  BY <1>1, Invariance, PTL

-----------------------------------------------------------------------------
(* The cache keeps the set of responses that UrlCache describes.           *)

\* The refinement mapping.
Cached == {slot[i].url : i \in 1..count} \cap (Urls \ Long)
Spoilt == {i \in 1..count : slot[i].url \in Long \cup {Garbled}}
InUse == Cardinality(Cached) + Cardinality(Spoilt)

CachedNext ==
  \/ Cached' = Cached /\ Spoilt' = Spoilt
  \/ /\ InUse < MAX_CACHE_SIZE
     /\ \/ \E u \in Urls \ Long :
             u \notin Cached /\ Cached' = Cached \cup {u} /\ Spoilt' = Spoilt
        \/ \E i \in Slots :
             i \notin Spoilt /\ Spoilt' = Spoilt \cup {i} /\ Cached' = Cached
  \/ /\ InUse = MAX_CACHE_SIZE
     /\ \/ \E u \in Urls \ Long :
             u \in Cached /\ Cached' = Cached \ {u} /\ Spoilt' = Spoilt
        \/ \E i \in Slots :
             i \in Spoilt /\ Spoilt' = Spoilt \ {i} /\ Cached' = Cached

\* Every item that is not being overwritten keeps a URL, or is spoilt.
LEMMA InUseCounted ==
  ASSUME Shape, UrlsInv
  PROVE  InUse = Cardinality({i \in 1..count : slot[i].url # Torn})
<1> DEFINE Good == {i \in 1..count : slot[i].url \in Urls \ Long}
           F == [i \in Good |-> slot[i].url]
<1>1. IsFiniteSet(1..count)
  BY Consts, FS_Interval DEF Shape, CacheTypeOK
<1>2. IsFiniteSet(Good) /\ IsFiniteSet(Spoilt)
  <2>1. Good \subseteq 1..count /\ Spoilt \subseteq 1..count
    BY DEF Spoilt
  <2>2. QED
    BY <1>1, <2>1, FS_Subset
<1>3. Cardinality(Cached) = Cardinality(Good)
  <2>1. F \in [Good -> Cached] /\ \A u \in Cached : \E i \in Good : F[i] = u
    BY DEF Cached
  <2>2. \A i, j \in Good : F[i] = F[j] => i = j
    BY Consts DEF UrlsInv, OneCopyPerUrl
  <2>3. ExistsBijection(Good, Cached)
    BY <2>1, <2>2
    DEF ExistsBijection, Bijection, Injection, Surjection, IsInjective
  <2>4. QED
    BY <1>2, <2>3, FS_Bijection
<1>4. /\ Good \cup Spoilt = {i \in 1..count : slot[i].url # Torn}
      /\ Good \cap Spoilt = {}
  <2>1. \A i \in 1..count : slot[i].url \in Urls \cup {Torn, Garbled}
    <3>1. slot \in [Slots -> Items] /\ 1..count \subseteq Slots
      BY Consts DEF Shape, CacheTypeOK, Items
    <3>2. QED
      BY <3>1 DEF Items, UrlsInv
  <2>2. QED
    BY <2>1, Consts DEF Spoilt
<1>5. /\ Cardinality(Good) \in Nat /\ Cardinality(Spoilt) \in Nat
      /\ Cardinality(Good \cup Spoilt)
           = Cardinality(Good) + Cardinality(Spoilt) - Cardinality(Good \cap Spoilt)
  BY <1>2, FS_Union, FS_CardinalityType
<1>6. Cardinality(Good \cap Spoilt) = 0
  BY <1>4, FS_EmptySet
<1> HIDE DEF Good
<1>7. Cardinality(Good \cup Spoilt) = Cardinality(Good) + Cardinality(Spoilt)
  BY <1>5, <1>6
<1>8. InUse = Cardinality(Good \cup Spoilt)
  BY <1>3, <1>7 DEF InUse
<1>9. QED
  BY <1>4, <1>8

\* The items in use are as many as the cache counts.
LEMMA SlotsCounted ==
  ASSUME Shape
  PROVE  /\ Cardinality(1..count) = count
         /\ \A v \in 1..count : Cardinality((1..count) \ {v}) = count - 1
<1>1. count \in Nat
  BY Consts DEF Shape, CacheTypeOK
<1>2. IsFiniteSet(1..count) /\ Cardinality(1..count) = count
  BY <1>1, FS_Interval
<1>3. QED
  BY <1>1, <1>2, FS_RemoveElement

\* Inserting adds a response or spoils a slot; overwriting one drops what it
\* had, and then adds another.
LEMMA StoreStep ==
  ASSUME Shape, Places, Indices, MutexInv, UrlsInv, [Next]_vars
  PROVE  CachedNext
<1> USE Consts
<1>a. /\ count \in 0..MAX_CACHE_SIZE /\ slot \in [Slots -> Items]
      /\ 1..count \subseteq Slots
  BY DEF Shape, CacheTypeOK, Items
\* It is enough to know the URLs of the items.
<1>b. ASSUME count' = count, \A i \in 1..count : slot'[i].url = slot[i].url
      PROVE  CachedNext
  <2>1. Cached' = Cached
    BY <1>b DEF Cached
  <2>2. Spoilt' = Spoilt
    BY <1>b DEF Spoilt
  <2>3. QED
    BY <2>1, <2>2 DEF CachedNext
<1>1. CASE CacheSteady
  BY <1>1, <1>b DEF CacheSteady
<1>2. ASSUME NEW f \in Fetchers, AddDone(f)
      PROVE  CachedNext
  <2> DEFINE l == local[f]
             v == local[f].victim
             Others == (1..count) \ {v}
  <2>a. pc[f] \in Adding => \A t \in Threads \ {f} : pc[t] \notin Adding
    BY DEF MutexInv
  <2>b. pc[f] \in Adding => Url(l) \in Urls /\ Stored(l) \in {Url(l), Garbled}
          /\ (Stored(l) = Garbled <=> Url(l) \in Long)
    BY DEF Places, HasUrl, Stored
  <2>c. /\ pc[f] \in {"evict"} \cup Evicting => v \in 1..count
        /\ pc[f] = "insert" => count < MAX_CACHE_SIZE
        /\ pc[f] \in {"evict", "copied"} => count = MAX_CACHE_SIZE
    BY DEF Indices
  <2>d. pc[f] \in Adding /\ pc[f] # "copied" =>
          \A i \in 1..count : slot[i].url # Torn
    BY <2>a DEF UrlsInv, Adding
  <2>e. pc[f] \in Adding /\ pc[f] # "copied" => InUse = count
    <3> SUFFICES ASSUME pc[f] \in Adding /\ pc[f] # "copied" PROVE InUse = count
      OBVIOUS
    <3>1. {i \in 1..count : slot[i].url # Torn} = 1..count
      BY <2>d
    <3>2. QED
      BY <3>1, InUseCounted, SlotsCounted
  <2>1. CASE pc[f] \in {"add", "scan", "free", "reset"}
    <3>1. count' = count /\ \A i \in 1..count : slot'[i].url = slot[i].url
      BY <1>2, <1>a, <2>1, <2>c DEF AddDone, Moved, Put, cacheVars, Evicting
    <3>2. QED
      BY <1>b, <3>1
  <2>2. CASE pc[f] = "insert"
    <3>1. count' = count + 1 /\ Put(count + 1, Stored(l), l.rec)
      BY <1>2, <2>2 DEF AddDone, Moved
    <3>2. /\ \A i \in 1..count : slot'[i].url = slot[i].url
          /\ slot'[count + 1].url = Stored(l)
          /\ 1..count' = 1..count \cup {count + 1}
          /\ count + 1 \in Slots /\ count + 1 \notin 1..count
      BY <1>a, <2>2, <2>c, <3>1 DEF Put
    <3>3. InUse < MAX_CACHE_SIZE
      BY <2>2, <2>c, <2>e DEF Adding
    <3>4. CASE Url(l) \notin Long
      <4>1. Stored(l) = Url(l) /\ Url(l) \in Urls \ Long
        BY <2>2, <2>b, <3>4 DEF Adding
      <4>2. Url(l) \notin Cached
        BY <2>2 DEF Cached, UrlsInv
      <4>3. Cached' = Cached \cup {Url(l)}
        BY <3>2, <4>1 DEF Cached
      <4>4. Spoilt' = Spoilt
        BY <3>2, <4>1 DEF Spoilt
      <4>5. QED
        BY <3>3, <4>1, <4>2, <4>3, <4>4 DEF CachedNext
    <3>5. CASE Url(l) \in Long
      <4>1. Stored(l) = Garbled
        BY <3>5 DEF Stored
      <4>2. count + 1 \notin Spoilt
        BY <3>2 DEF Spoilt
      <4>3. Spoilt' = Spoilt \cup {count + 1}
        BY <3>2, <4>1 DEF Spoilt
      <4>4. Cached' = Cached
        BY <3>2, <4>1 DEF Cached
      <4>5. QED
        BY <3>2, <3>3, <4>2, <4>3, <4>4 DEF CachedNext
    <3>6. QED
      BY <3>4, <3>5
  <2>3. CASE pc[f] = "evict"
    <3>1. count' = count /\ Put(v, Torn, slot[v].data)
      BY <1>2, <2>3 DEF AddDone, Moved
    <3>2. /\ \A i \in Others : slot'[i].url = slot[i].url
          /\ slot'[v].url = Torn /\ v \in 1..count
      BY <1>a, <2>3, <2>c, <3>1 DEF Put
    <3>3. InUse = MAX_CACHE_SIZE
      BY <2>3, <2>c, <2>e DEF Adding
    <3>4. slot[v].url \in Urls \cup {Garbled}
      BY <1>a, <2>3, <2>d, <3>2 DEF UrlsInv, Items, Adding
    <3>5. CASE slot[v].url \in Urls \ Long
      <4>1. \A i \in Others : slot[i].url # slot[v].url
        BY <3>2, <3>5 DEF UrlsInv, OneCopyPerUrl
      <4>2. slot[v].url \in Cached
        BY <3>2, <3>5 DEF Cached
      <4>3. Cached' = Cached \ {slot[v].url}
        BY <3>1, <3>2, <4>1 DEF Cached
      <4>4. Spoilt' = Spoilt
        BY <3>1, <3>2, <3>5 DEF Spoilt
      <4>5. QED
        BY <3>3, <3>5, <4>2, <4>3, <4>4 DEF CachedNext
    <3>6. CASE slot[v].url \in Long \cup {Garbled}
      <4>1. v \in Spoilt /\ v \in Slots
        BY <1>a, <3>2, <3>6 DEF Spoilt
      <4>2. Spoilt' = Spoilt \ {v}
        BY <3>1, <3>2 DEF Spoilt
      <4>3. Cached' = Cached
        BY <3>1, <3>2, <3>6 DEF Cached
      <4>4. QED
        BY <3>3, <4>1, <4>2, <4>3 DEF CachedNext
    <3>7. QED
      BY <3>4, <3>5, <3>6
  <2>4. CASE pc[f] = "copied"
    <3>1. count' = count /\ Put(v, Url(l), slot[v].data)
      BY <1>2, <2>4 DEF AddDone, Moved
    <3>2. /\ \A i \in Others : slot'[i].url = slot[i].url
          /\ slot'[v].url = Url(l) /\ v \in 1..count
      BY <1>a, <2>4, <2>c, <3>1 DEF Put, Evicting
    <3>3. /\ \A i \in 1..count : slot[i].url # Url(l)
          /\ \A i \in Others : slot[i].url # Torn
          /\ slot[v].url = Torn
      BY <2>4, <2>a DEF UrlsInv, Adding, Fetchers
    <3>4. InUse < MAX_CACHE_SIZE
      <4>1. {i \in 1..count : slot[i].url # Torn} = Others
        BY <3>2, <3>3
      <4>2. InUse = count - 1
        BY <3>2, <4>1, InUseCounted, SlotsCounted
      <4>3. QED
        BY <1>a, <2>4, <2>c, <4>2
    <3>5. CASE Url(l) \notin Long
      <4>1. Url(l) \in Urls \ Long
        BY <2>4, <2>b, <3>5 DEF Adding
      <4>2. Url(l) \notin Cached
        BY <3>3 DEF Cached
      <4>3. Cached' = Cached \cup {Url(l)}
        BY <3>1, <3>2, <3>3, <4>1 DEF Cached
      <4>4. Spoilt' = Spoilt
        BY <3>1, <3>2, <3>3, <4>1 DEF Spoilt
      <4>5. QED
        BY <3>4, <4>1, <4>2, <4>3, <4>4 DEF CachedNext
    <3>6. CASE Url(l) \in Long
      <4>1. v \notin Spoilt /\ v \in Slots
        BY <1>a, <3>2, <3>3 DEF Spoilt
      <4>2. Spoilt' = Spoilt \cup {v}
        BY <3>1, <3>2, <3>6 DEF Spoilt
      <4>3. Cached' = Cached
        BY <3>1, <3>2, <3>3, <3>6 DEF Cached
      <4>4. QED
        BY <3>4, <4>1, <4>2, <4>3 DEF CachedNext
    <3>7. QED
      BY <3>5, <3>6
  <2>5. CASE pc[f] = "data"
    <3>1. count' = count /\ Put(v, Stored(l), l.rec)
      BY <1>2, <2>5 DEF AddDone, Moved
    <3>2. /\ \A i \in Others : slot'[i].url = slot[i].url
          /\ slot'[v].url = Stored(l) /\ v \in 1..count
      BY <1>a, <2>5, <2>c, <3>1 DEF Put, Evicting
    <3>3. slot[v].url = Url(l)
      BY <2>5 DEF UrlsInv, Fetchers
    <3>4. CASE Url(l) \notin Long
      <4>1. \A i \in 1..count : slot'[i].url = slot[i].url
        BY <3>2, <3>3, <3>4 DEF Stored
      <4>2. QED
        BY <1>b, <3>1, <4>1
    <3>5. CASE Url(l) \in Long
      <4>1. slot'[v].url = Garbled
        BY <3>2, <3>5 DEF Stored
      <4>2. Cached' = Cached
        BY <3>1, <3>2, <3>3, <3>5, <4>1 DEF Cached
      <4>3. Spoilt' = Spoilt
        BY <3>1, <3>2, <3>3, <3>5, <4>1 DEF Spoilt
      <4>4. QED
        BY <4>2, <4>3 DEF CachedNext
    <3>6. QED
      BY <3>4, <3>5
  <2>6. QED
    BY <1>2, <2>1, <2>2, <2>3, <2>4, <2>5 DEF AddDone, Moved
<1>3. QED
  BY <1>1, <1>2, DoneCases, UrlsSteady

\* cache.c keeps each response once, and drops one only from a full cache,
\* to make room; a URL that does not fit in its array takes up an item for
\* nothing, until that is overwritten.
THEOREM CacheKeepsUrls == Spec => CacheSpec
<1>1. Init => Store!Init
  BY DEF Init, CacheInit, Store!Init
<1>2. ASSUME IInv, [Next]_vars
      PROVE  [Store!Next]_Store!vars
  <2>1. CachedNext
    BY <1>2, StoreStep DEF IInv
  <2>2. CASE Cached' = Cached /\ Spoilt' = Spoilt
    BY <2>2 DEF Cached, Spoilt, Store!vars
  <2>3. ASSUME NEW u \in Urls \ Long, u \notin Cached, InUse < MAX_CACHE_SIZE,
               Cached' = Cached \cup {u}, Spoilt' = Spoilt
        PROVE  Store!Next
    <3>1. Store!Add(u)
      BY <2>3 DEF Store!Add, Store!Used, Cached, Spoilt, InUse, Cardinality,
        Store!Cardinality
    <3>2. QED
      BY <3>1 DEF Store!Next
  <2>4. ASSUME NEW u \in Urls \ Long, u \in Cached, InUse = MAX_CACHE_SIZE,
               Cached' = Cached \ {u}, Spoilt' = Spoilt
        PROVE  Store!Next
    <3>1. Store!Drop(u)
      BY <2>4 DEF Store!Drop, Store!Used, Cached, Spoilt, InUse, Cardinality,
        Store!Cardinality
    <3>2. QED
      BY <3>1 DEF Store!Next
  <2>5. ASSUME NEW i \in Slots, i \notin Spoilt, InUse < MAX_CACHE_SIZE,
               Spoilt' = Spoilt \cup {i}, Cached' = Cached
        PROVE  Store!Next
    <3>1. Store!Spoil(i)
      BY <2>5 DEF Store!Spoil, Store!Used, Cached, Spoilt, InUse, Cardinality,
        Store!Cardinality
    <3>2. QED
      BY <3>1 DEF Store!Next, Slots
  <2>6. ASSUME NEW i \in Slots, i \in Spoilt, InUse = MAX_CACHE_SIZE,
               Spoilt' = Spoilt \ {i}, Cached' = Cached
        PROVE  Store!Next
    <3>1. Store!Recover(i)
      BY <2>6 DEF Store!Recover, Store!Used, Cached, Spoilt, InUse, Cardinality,
        Store!Cardinality
    <3>2. QED
      BY <3>1 DEF Store!Next, Slots
  <2>7. QED
    BY <2>1, <2>2, <2>3, <2>4, <2>5, <2>6 DEF CachedNext
<1>3. QED
  BY <1>1, <1>2, Invariance, PTL DEF Spec, CacheSpec, Store!Spec
=============================================================================
