------------------------------- MODULE Proxy -------------------------------
(***************************************************************************)
(* The caching proxy: main (launch.c) accepts one client at a time and     *)
(* answers it from the cache, or starts a thread that fetches the response *)
(* (fetch_and_cache_data), thread_semaphore bounding how many run.  The    *)
(* chunks of a response are one step; what the code extracts from the text *)
(* of a request is given by constants.                                     *)
(***************************************************************************)
EXTENDS Cache

CONSTANTS
  Main,             \* the main thread
  Clients,          \* each connects once
  TooShort,         \* requests with less than a character of reference
  Hostless,         \* requests without a Host: of less than 50 characters
  MAX_USERS_COUNT,
  MAX_FAILURES,     \* bound: failures of pthread_create
  MAX_SIGINTS       \* bound: SIGINTs

Fetchers == Threads \ {Main}
Sockets == 1 .. Cardinality(Clients)
NoSocket == 0

ASSUME ProxyAssumption ==
  /\ Main \in Threads /\ IsFiniteSet(Threads)
  /\ NULL \notin Clients /\ IsFiniteSet(Clients)
  /\ TooShort \subseteq {q \in Requests : Reference[q] = NULL}
  /\ Hostless \subseteq Requests
  /\ MAX_USERS_COUNT \in Nat \ {0} /\ MAX_FAILURES \in Nat
  /\ MAX_SIGINTS \in Nat

VARIABLES
  peer,              \* the client at the other end of a file descriptor
  asked,             \* a client's request; NULL before it, Torn without one
  got,               \* to which requests a client received the responses
  thread_semaphore,
  failures,          \* failures of pthread_create so far
  unconnected,       \* a connection to a remote server has failed
  handler,           \* whether a thread is in signal_handler, and how far
  process            \* "running", or how it ended

permits == <<thread_semaphore, failures>>
status == <<unconnected, handler, process>>
proxyVars == <<peer, asked, got, permits, status>>
cacheSlots == <<slot, count, cache_mutex, evicted, lost, destroyed>>
vars == <<cacheVars, pc, local, proxyVars>>

NoLocals == [request |-> NULL, i |-> 0, rec |-> NULL, reg |-> 0, victim |-> 0,
             sock |-> NoSocket]

Init ==
  /\ CacheInit
  /\ pc = [t \in Threads |-> IF t = Main THEN "accept" ELSE "idle"]
  /\ local = [t \in Threads |-> NoLocals]
  /\ peer = [s \in Sockets |-> NULL]
  /\ asked = [c \in Clients |-> NULL] /\ got = [c \in Clients |-> {}]
  /\ thread_semaphore = MAX_USERS_COUNT /\ failures = 0
  /\ unconnected = FALSE /\ process = "running"
  /\ handler = [t \in Threads |-> "none"]

Open == {s \in Sockets : peer[s] # NULL}

\* close, of a descriptor that may have been closed before.
Close(s) == peer' = [peer EXCEPT ![s] = NULL]

\* write of a response to whoever is behind the descriptor now.
Write(s, response) ==
  got' = [c \in Clients |-> IF c = peer[s] THEN got[c] \cup {response}
                            ELSE got[c]]
-----------------------------------------------------------------------------
(* main, and handle_client_request.                                         *)

\* A new client gets the lowest descriptor that is not open.
Accept ==
  \E c \in Clients, s \in Sockets \ Open :
    /\ asked[c] = NULL /\ \A n \in Sockets : peer[n] # c
    /\ \A n \in Sockets \ Open : s <= n
    /\ Goto(Main, "accept", "recv", [NoLocals EXCEPT !.sock = s])
    /\ peer' = [peer EXCEPT ![s] = c]
    /\ UNCHANGED <<cacheVars, asked, got, permits, status>>

\* recv, and the reference that the request is looked up by (lines 172, 219).
Recv ==
  /\ pc[Main] = "recv" /\ peer[local[Main].sock] # NULL
  /\ \E q \in Requests :
       /\ Reference[q] # NULL
       /\ Goto(Main, "recv", "lookup",
               Calling([local[Main] EXCEPT !.request = q]))
       /\ asked' = [asked EXCEPT ![peer[local[Main].sock]] = q]
  /\ UNCHANGED <<cacheVars, peer, got, permits, status>>

\* recv fails, or the request has no "GET " or no 'H' after it: either way Torn.
RecvNothing ==
  /\ Goto(Main, "recv", "accept", NoLocals)
  /\ asked' = [c \in Clients |-> IF c = peer[local[Main].sock] THEN Torn
                                 ELSE asked[c]]
  /\ Close(local[Main].sock)
  /\ UNCHANGED <<cacheVars, got, permits, status>>

\* The first 'H' comes at once: strncpy of -1 characters, or, one character
\* later, the buffer freed twice (lines 231, 227 and 216).
RecvShort ==
  /\ pc[Main] = "recv" /\ TooShort # {}
  /\ process' = "crashed"
  /\ UNCHANGED <<cacheVars, pc, local, peer, asked, got, permits, unconnected,
                 handler>>

\* What the record at hand holds when it is read.
Held(l) == IF l.rec \in live THEN content[l.rec] ELSE Torn

Hit ==
  /\ local[Main].rec # NULL
  /\ Goto(Main, "found", "accept", NoLocals)
  /\ Write(local[Main].sock, Held(local[Main]))
  /\ Close(local[Main].sock)
  /\ UNCHANGED <<cacheVars, asked, permits, status>>

\* sem_wait(&thread_semaphore)
Miss ==
  /\ local[Main].rec = NULL
  /\ Goto(Main, "found", "create", local[Main])
  /\ thread_semaphore > 0 /\ thread_semaphore' = thread_semaphore - 1
  /\ UNCHANGED <<cacheVars, peer, asked, got, failures, status>>

\* pthread_create hands request and socket over to the thread.
Create ==
  \E f \in Fetchers :
    /\ pc[Main] = "create" /\ pc[f] = "idle"
    /\ pc' = [pc EXCEPT ![Main] = "accept", ![f] = "connect"]
    /\ local' = [local EXCEPT ![Main] = NoLocals,
         ![f] = [NoLocals EXCEPT !.request = local[Main].request,
                                 !.sock = local[Main].sock]]
    /\ UNCHANGED <<cacheVars, proxyVars>>

\* pthread_create fails: nobody will post the semaphore for this client.
CreateFails ==
  /\ failures < MAX_FAILURES /\ failures' = failures + 1
  /\ Goto(Main, "create", "accept", NoLocals)
  /\ Close(local[Main].sock)
  /\ UNCHANGED <<cacheVars, asked, got, thread_semaphore, status>>

handle_client_request ==
  \/ Recv \/ RecvNothing \/ RecvShort \/ Hit \/ Miss \/ Create \/ CreateFails
  \/ get_data_from_cache(Main) /\ UNCHANGED proxyVars
-----------------------------------------------------------------------------
(* fetch_and_cache_data.                                                    *)

\* A record and its buffer are allocated, and the host's name is found.
Allocate(f, r) ==
  /\ r \in Records \ live /\ local[f].request \notin Hostless
  /\ live' = live \cup {r} /\ content' = [content EXCEPT ![r] = NULL]
  /\ buffers' = buffers + 1
  /\ UNCHANGED cacheSlots

\* The remote server is connected and written to.
Connect(f) ==
  \E r \in Records :
    /\ Allocate(f, r)
    /\ Goto(f, "connect", "relay", [local[f] EXCEPT !.rec = r])
    /\ UNCHANGED proxyVars

\* There is no Host: in the request, or a name too long for the array (line 67).
NoHost(f) ==
  /\ pc[f] = "connect" /\ local[f].request \in Hostless
  /\ process' = "crashed"
  /\ UNCHANGED <<cacheVars, pc, local, peer, asked, got, permits, unconnected,
                 handler>>

\* BUG (mutant): a socket that the client still waits on is closed.
ConnectFailed_AlwaysCloses(f) ==
  \E r \in Records :
    /\ Allocate(f, r)
    /\ Goto(f, "connect", "failed", [local[f] EXCEPT !.rec = r])
    /\ Close(local[f].sock)
    /\ UNCHANGED <<asked, got, permits, status>>

\* The request cannot be sent.  If there was no connection, the client's
\* socket has been closed already, and will be closed again (lines 72, 84).
ConnectFailed(f) ==
  \E r \in Records :
    /\ Allocate(f, r)
    /\ Goto(f, "connect", "failed", [local[f] EXCEPT !.rec = r])
    /\ \/ Close(local[f].sock) /\ unconnected' = TRUE
       \/ UNCHANGED <<peer, unconnected>>
    /\ UNCHANGED <<asked, got, permits, handler, process>>

\* The response goes to the client as it arrives, and into the record.
Relay(f) ==
  /\ Goto(f, "relay", "add", local[f])
  /\ content' = [content EXCEPT ![local[f].rec] = local[f].request]
  /\ Write(local[f].sock, local[f].request)
  /\ UNCHANGED <<cacheSlots, live, buffers, peer, asked, permits, status>>

\* The response is an error, or the client cannot be written to.
RelayFails(f) ==
  /\ Goto(f, "relay", "failed", local[f])
  /\ \/ Write(local[f].sock, local[f].request)
     \/ UNCHANGED got
  /\ UNCHANGED <<cacheVars, peer, asked, permits, status>>

\* BUG (mutant): the record is freed without its buffer.
Abandon_KeepsBuffer(f) ==
  /\ Goto(f, "failed", "post", [local[f] EXCEPT !.sock = NoSocket, !.rec = NULL])
  /\ live' = live \ {local[f].rec}
  /\ Close(local[f].sock)
  /\ UNCHANGED <<cacheSlots, buffers, content, asked, got, permits, status>>

\* The record and its buffer are freed and the client's socket closed.
Abandon(f) ==
  /\ Goto(f, "failed", "post", [local[f] EXCEPT !.sock = NoSocket, !.rec = NULL])
  /\ live' = live \ {local[f].rec} /\ buffers' = buffers - 1
  /\ Close(local[f].sock)
  /\ UNCHANGED <<cacheSlots, content, asked, got, permits, status>>

\* What the cache has for the URL is sent, after the response itself.
Send(f) ==
  /\ local[f].rec # NULL
  /\ Goto(f, "found", "post", [local[f] EXCEPT !.sock = NoSocket, !.rec = NULL])
  /\ Write(local[f].sock, Held(local[f]))
  /\ Close(local[f].sock)
  /\ UNCHANGED <<cacheVars, asked, permits, status>>

\* The URL is not found in the cache: a null pointer is followed.
SendNull(f) ==
  /\ local[f].rec = NULL
  /\ Goto(f, "found", "found", local[f])
  /\ process' = "crashed"
  /\ UNCHANGED <<cacheVars, peer, asked, got, permits, unconnected, handler>>

\* BUG (mutant): the semaphore is not posted at the end.
Post_None(f) ==
  /\ Goto(f, "post", "idle", NoLocals)
  /\ UNCHANGED <<cacheVars, proxyVars>>

Post(f) ==
  /\ Goto(f, "post", "idle", NoLocals)
  /\ thread_semaphore' = thread_semaphore + 1
  /\ UNCHANGED <<cacheVars, peer, asked, got, failures, status>>

fetch_and_cache_data(f) ==
  \/ Connect(f) \/ NoHost(f) \/ ConnectFailed(f) \/ Relay(f) \/ RelayFails(f)
  \/ Abandon(f) \/ Send(f) \/ SendNull(f) \/ Post(f)
  \/ (add_to_cache(f) \/ get_data_from_cache(f)) /\ UNCHANGED proxyVars
-----------------------------------------------------------------------------
(* How the process ends.                                                    *)

\* A client that has gone is written to: nobody handles SIGPIPE.
BrokenPipe(t) ==
  /\ pc[t] \in {"relay", "found"} /\ handler[t] = "none"
  /\ process' = "killed"
  /\ UNCHANGED <<cacheVars, pc, local, peer, asked, got, permits, unconnected,
                 handler>>

\* SIGINT interrupts some thread, wherever it is and for good: no thread blocks
\* it, but those that are in the handler already.
Sigint(t) ==
  /\ pc[t] # "idle" /\ handler[t] = "none"
  /\ Cardinality({u \in Threads : handler[u] # "none"}) < MAX_SIGINTS
  /\ handler' = [handler EXCEPT ![t] = "entered"]
  /\ UNCHANGED <<cacheVars, pc, local, peer, asked, got, permits, unconnected,
                 process>>

server_is_on == \A t \in Threads : handler[t] = "none"

\* The process ends, in exit or by returning from main.
Exit ==
  /\ process' = "exited"
  /\ UNCHANGED <<cacheVars, pc, local, peer, asked, got, permits, unconnected,
                 handler>>

\* The handler waits for cache_mutex, whoever has it.
signal_handler(t) ==
  \/ /\ handler[t] = "entered"
     /\ destroy_cache
     /\ handler' = [handler EXCEPT ![t] = "freed"]
     /\ UNCHANGED <<pc, local, peer, asked, got, permits, unconnected, process>>
  \/ handler[t] = "freed" /\ Exit

\* main leaves its loop when another thread has handled SIGINT, destroys the
\* cache as well, and returns.
LeaveLoop ==
  /\ ~server_is_on
  /\ Goto(Main, "accept", "shutdown", NoLocals)
  /\ UNCHANGED <<cacheVars, proxyVars>>

LockToDestroy ==
  /\ Lock(Main)
  /\ Goto(Main, "shutdown", "destroying", NoLocals)
  /\ UNCHANGED <<slot, count, evicted, heap, proxyVars>>

Destroy ==
  /\ FreeCache /\ cache_mutex' = NULL
  /\ Goto(Main, "destroying", "returning", NoLocals)
  /\ UNCHANGED proxyVars

Return == pc[Main] = "returning" /\ Exit

EndOfMain == LockToDestroy \/ Destroy \/ Return

\* Where a thread reads or writes the cache in its next step.
UsesCache(t) ==
  \/ handler[t] = "entered" /\ cache_mutex = NULL
  \/ /\ handler[t] = "none"
     /\ \/ pc[t] \in {"lookup", "bump", "take", "destroying"} \cup Adding
        \/ pc[t] = "add" /\ cache_mutex = NULL

\* The cache has been freed; a thread that goes on using it may find it as it
\* was, or not.
UsesDestroyed(t) ==
  /\ destroyed /\ UsesCache(t)
  /\ process' = "crashed"
  /\ UNCHANGED <<cacheVars, pc, local, peer, asked, got, permits, unconnected,
                 handler>>

\* A long URL has overwritten the item's pointer, and add_to_cache frees what is
\* there, or a lookup takes it.
FollowsWild(t) ==
  /\ \E f \in Fetchers :
       /\ pc[f] \in {"copied", "free", "data"} /\ Url(local[f]) \in Long
       /\ \/ t = f /\ pc[t] = "free"
          \/ pc[t] = "take" /\ local[t].i = local[f].victim
  /\ handler[t] = "none"
  /\ process' = "crashed"
  /\ UNCHANGED <<cacheVars, pc, local, peer, asked, got, permits, unconnected,
                 handler>>

Running == process = "running"

\* main waits for clients, and none comes.
Idle ==
  /\ pc[Main] = "accept" /\ \A f \in Fetchers : pc[f] = "idle"
  /\ \A c \in Clients : asked[c] # NULL

\* A thread has been interrupted while it held cache_mutex: whoever wants the
\* mutex, its own handler included, waits for ever.
SelfBlocked == \E t \in Threads : cache_mutex = t /\ handler[t] # "none"

Undisturbed(t) == Running /\ handler[t] = "none"

Next ==
  \/ Undisturbed(Main) /\ (Accept \/ LeaveLoop)
  \/ Undisturbed(Main) /\ (handle_client_request \/ EndOfMain)
  \/ \E f \in Fetchers : Undisturbed(f) /\ fetch_and_cache_data(f)
  \/ Running /\ \E t \in Threads : Sigint(t) \/ signal_handler(t)
  \/ Running /\ \E t \in Threads : \/ BrokenPipe(t) \/ UsesDestroyed(t)
                                  \/ FollowsWild(t)
  \/ (Idle \/ SelfBlocked \/ ~Running) /\ UNCHANGED vars

\* The operating system runs every thread, clients send their requests, and
\* remote servers answer or fail.  Clients need not come, nor SIGINT.
Fairness ==
  /\ WF_vars(Undisturbed(Main) /\ (handle_client_request \/ EndOfMain))
  /\ \A f \in Fetchers : WF_vars(Undisturbed(f) /\ fetch_and_cache_data(f))
  /\ \A t \in Threads : WF_vars(Running /\ signal_handler(t))

Spec == Init /\ [][Next]_vars /\ Fairness
-----------------------------------------------------------------------------
Locals ==
  [request : Requests \cup {NULL}, i : 0 .. MAX_CACHE_SIZE + 1,
   rec : Records \cup {NULL}, reg : 0..MAX_HITS, victim : 0..MAX_CACHE_SIZE,
   sock : Sockets \cup {NoSocket}]

TypeOK ==
  /\ CacheTypeOK
  /\ pc \in [Threads -> Adding \cup {"accept", "recv", "lookup", "bump",
       "take", "found", "create", "shutdown", "destroying", "returning",
       "idle", "connect", "relay", "failed", "add", "post"}]
  /\ local \in [Threads -> Locals]
  /\ peer \in [Sockets -> Clients \cup {NULL}]
  /\ asked \in [Clients -> Requests \cup {NULL, Torn}]
  /\ got \in [Clients -> SUBSET (Requests \cup {NULL, Torn})]
  /\ thread_semaphore \in 0..MAX_USERS_COUNT
  /\ failures \in 0..MAX_FAILURES /\ unconnected \in BOOLEAN
  /\ handler \in [Threads -> {"none", "entered", "freed"}]
  /\ process \in {"running", "exited", "crashed", "killed"}

\* A thread is past the lock of add_to_cache or of destroy_cache exactly while
\* it has the mutex.
MutexInv ==
  \A t \in Threads : pc[t] \in Adding \cup {"destroying"} <=> cache_mutex = t

Busy == {f \in Fetchers : pc[f] # "idle"}

\* Every permit is in the semaphore, with a thread, with main about to start
\* one, or lost because a thread could not be started (proxy.c:198-205); so
\* no more than MAX_USERS_COUNT fetches run at a time.
PermitsAccounted ==
  thread_semaphore + Cardinality(Busy) + failures
    + (IF pc[Main] = "create" THEN 1 ELSE 0) = MAX_USERS_COUNT

\* The fetches that have a record which is not in the cache.
Private == {f \in Fetchers : pc[f] \in {"relay", "failed", "add"} \cup
                                       (Adding \ {"reset"})}

\* Until the cache is freed, the records that are allocated are those of the
\* cache and those of fetches in progress, each in one place: none is freed
\* twice or leaks.  Their buffers are another matter: an eviction frees the
\* record alone (cache.c:69), and every buffer that has been lost was lost so.
RecordsOwned ==
  LET kept == 1..count \ {local[f].victim : f \in {g \in Fetchers :
                                                     pc[g] = "data"}}
  IN  \/ /\ live = {slot[i].data : i \in kept} \cup {local[f].rec : f \in Private}
         /\ Cardinality(live) = Cardinality(kept) + Cardinality(Private)
         /\ buffers = Cardinality(live) + lost
      \/ destroyed

\* Until a slot is reused for another URL, a connection fails (proxy.c:72 and
\* 84 close the descriptor twice, and the second time it may be another
\* client's) or the cache is freed, a client receives nothing but responses to
\* requests with the reference of its own, although lookups take no lock and
\* descriptors are reused.  These need not be its own request: the reference
\* ends before the first 'H'.
RightAnswer ==
  evicted \/ unconnected \/ destroyed
    \/ \A c \in Clients : \A q \in got[c] :
         asked[c] \in Requests /\ ResponseTo(q, Reference[asked[c]])

\* The lookup after add_to_cache (proxy.c:144) finds the response: there is no
\* null pointer to follow until a slot is reused or the cache is freed, unless
\* the URL was too long for its array.
FindsItsResponse ==
  evicted \/ destroyed
    \/ \A f \in Fetchers : pc[f] = "found" /\ Url(local[f]) \notin Long =>
         local[f].rec # NULL

HasClient(t) == local[t].sock # NoSocket

\* As long as no connection has failed, the threads that have a client each
\* have a descriptor of their own, which is open.
SocketsNotShared ==
  unconnected \/ \A t \in Threads : HasClient(t) =>
    /\ peer[local[t].sock] # NULL
    /\ \A u \in Threads : HasClient(u) /\ local[u].sock = local[t].sock => u = t

\* Every client that is accepted is disconnected in the end, by the process
\* ending or before, unless all permits have been lost or a thread has been
\* interrupted with cache_mutex.
EveryClientReleased ==
  \A c \in Clients :
    (\E s \in Sockets : peer[s] = c)
      ~> (~Running \/ failures >= MAX_USERS_COUNT \/ SelfBlocked
          \/ \A s \in Sockets : peer[s] # c)

\* SIGINT ends the process, whichever threads handle it, with one exception:
\* the handler waits for cache_mutex (cache.c:17), and a thread that had it
\* when it was interrupted does not give it back.
SigintExits == ~server_is_on ~> (~Running \/ SelfBlocked)
=============================================================================
