# Verification of the OS-course programs

TLA+ models of the concurrent programs of this repository, checked with TLC
and, proved about with TLAPS. The programs are independent of
each other: locks written by hand (`sync/well-done`), bounded queues
(`sync/ok_job`), a shared list that threads count and reorder
(`sync/good_job`), a caching HTTP proxy (`proxy`) and thread exercises
(`threads`), the last of which schedules user-level threads.

## 1. The system

| Component | State | Operations | What is hard | What makes it correct |
|---|---|---|---|---|
| spinlock, `well-done/spin.h` | one word | lock (test-and-set loop), unlock | atomicity of the counter update; the lock is not fair | exclusion; the printed total; the phase ends |
| futex mutex, `well-done/mutex.h` | one word, the kernel's wait queue | lock, unlock with wake-up | going to sleep races with the wake-up | the same, and no lost wake-up |
| `well-done/main.c` | `sharedCounter`, five threads per phase | create, increment loop, join, print, reset; two phases | the second phase starts from what the first leaves | the lines it prints, `sharedCounter == N * ITERATIONS` |
| list queue, `ok_job/queue.c`, `queue-mutex.c`, `queue-spinlock.c` | list, `first`, `last`, `count` | `queue_add`, `queue_get` | freed memory, the dangling `last`, two views of the length | bounded FIFO; no bad pointer, no leak |
| condition-variable queue, `queue-mutex-signal.c` | list, count, mutex, one condition variable | the same, blocking | one condition variable for both sides, spurious wake-ups | FIFO; nobody sleeps for ever |
| semaphore queue, `queue-semaphores.c` | list, count, three semaphores | the same, blocking | unlocked asserts, order of the semaphores | FIFO; no empty take; no deadlock |
| life of a queue, all five variants, `queue-example.c` | what is allocated, the monitor thread | `queue_init`, the script of calls, `queue_destroy`, monitor | the monitor reads what is being freed; cancelling; a get too many | the monitor is gone before the memory; the program ends |
| drivers, `queue-threads.c` | loop counters | reader, writer | | the reader's check of the order |
| shared list, `good_job/mutex.c`, `spinlock.c`, `rwlock.c` | `next` pointers, a lock per node | three counting and three swapping loops | unlocked walks, locks found through pointers that change, three-store swaps | the list stays whole; every lock is released by its owner; no deadlock |
| proxy, `proxy/launch.c`, `proxy.c`, `http_request.c` | sockets, a semaphore | accept, answer or start a fetch thread, fetch, SIGINT | descriptors reused, permits on error paths, a handler that locks and frees | right answers; permits accounted for; every client released |
| proxy cache, `proxy/cache.c` | slots, a mutex | lookup (unlocked), add, evict least used, destroy | lookups race with evictions | one copy per URL; sound entries; no double free |
| user-level threads, `threads/thread1_7_u.c` | contexts, the table, the signal mask | create, schedule in main and on SIGALRM | the signal between two steps of a switch | a context is in its own slot; everybody runs |
| thread exercises, the rest of `threads/` | little | printing, cancelling, signals | | |
| splines, `sync/tmp.c` | floating point | sequential | | |

Components interact by calls within one process and by shared memory: the
drivers call the queues, `well-done/main.c` the locks, `proxy.c` the cache. No
two programs run together.

## 2. Plan and state of the plan

| # | Module | Composes | State |
|---|---|---|---|
| 1 | `AtomicCounter`, `Counter`, `SpinCounter`, `MutexCounter`, `Counting` | `Counting` extends both locks, which extend the workload; implements `AtomicCounter` | modelled, checked, proved |
| 2 | `FifoQueue`, `ListQueue` | implements `FifoQueue` | modelled, checked, proved |
| 3 | `CondQueue`, `SemQueue` | implement `FifoQueue` | modelled, checked, proved |
| 4 | `SwapList`, `Storage`, `RWStorage` | `RWStorage` extends `Storage`, which implements `SwapList` | modelled, checked, proved |
| 5 | `UrlCache`, `Cache`, `Proxy` | `Proxy` extends `Cache`, which implements `UrlCache` | modelled, checked, proved |
| 6 | `QueueLife` | the life of all five queues | modelled, checked, proved |
| 7 | `UThreads` | | modelled, checked, proved |

Every safety property and every refinement of the passing runs is proved for
all values of the constants, or for all that satisfy the condition without
which it is false (section 6: the lock of `ListQueue`, the number of threads of
`CondQueue`, threads of one kind in the shared list). What is left: the cancellation and cleanup of
`thread1_4.c`.

## 3. The models

A label of `pc` is a place in the code where another thread's step can matter.
Steps that touch only locals are merged with the next access to shared memory.
`Goto(t, from, to)` moves thread `t`. Operators marked `BUG (mutant)` are wrong
versions of the definition after them; nothing uses them, they exist to show
that a property notices the mistake.

**Counter, SpinCounter, MutexCounter, Counting.** `Counter` is what both phases
of `main.c` share: `Create`, the load and the store of `sharedCounter++`,
`AfterRound`, the joins and `PrintTotal` with the reset. `SpinCounter` adds the
word of `spin.h`; a failed test-and-set changes nothing, so spinning is
stuttering. `MutexCounter` adds `mutex.h`: test-and-set, `FUTEX_WAIT` (compare
and sleep in one step of the kernel, spurious returns allowed), the release
and `FUTEX_WAKE` of a sleeper that the kernel chooses. `Counting` is the
program: the phase under the spinlock, then `StartMutex`, then the phase under
the mutex, with the counter as the first phase leaves it. It refines
`AtomicCounter`, where an increment is one step: the increment maps to the
store.

**ListQueue.** Nodes are memory: `live` is what is allocated, `free` makes a
node reusable, and following a node that is not live is a `fault`. `first`,
`last`, `count` and the fields of the nodes are separate; `count++` is a load
and a store; the test `!q->first` and the store after it are separate steps.
`LOCKED` chooses between `queue-mutex.c`/`queue-spinlock.c` (one code, two
locks) and `queue.c`. The reader and the writer are those of
`queue-threads.c`, with the number `i` taken modulo `VALUES`. `Contents`, the
values along the pointers, is the abstract queue of `FifoQueue`.

**CondQueue.** The list is a sequence; `count` is kept apart from it and the
window between the two updates is a step. `Wait` is the atomic
release-and-sleep of `pthread_cond_wait`; `Signal` wakes any one sleeper;
spurious wake-ups are bounded by `MAX_SPURIOUS`. The second test of the
condition and its branch ("giveup") are modelled although they turn out to be
dead.

**SemQueue.** Three semaphores as numbers; `Assert` is the unlocked assert at
the start of each call.

**QueueLife.** `todo` is what main has still to do: `queue_init`, the adds and
gets of `queue-example.c`, the steps of `queue_destroy` in the variant's own
order, and the return. `memory` is what is allocated, the nodes being counted
in `items`. `pthread_create` of the monitor may fail. The monitor reads the
queue, prints and sleeps; a cancelled thread ends in `sleep`, or in `printf`,
which may be a cancellation point, but not while it reads. The adds and gets
are by one thread here; what they do when threads race is in the modules
before.

**Storage, RWStorage.** `next` and `holder` (who has a node's lock) per node. A
swapper walks without locks, one pointer read per step (`Walk`, `TestNext`,
`ReadNext`, `TestNextNext` are the loop's advance and the three parts of its
condition), takes three locks, compares, makes three stores, releases. A
counter locks two nodes, compares, releases the first, and **re-reads**
`current->next` to release the second and again to walk on. Following a null
pointer leads to "fault", which ends the process. `stray` becomes true when a
thread releases a lock it does not hold. The only thing that counts about a
string is its length. `storage_lock` is left out: only
`findIncreasingLengthStrings` takes it, so it excludes nobody.

`RWStorage` has `program`, which is "mutex" (the steps of `Storage`, which are
those of `mutex.c` and of `spinlock.c`) or "rwlock": there the swappers take
the same locks for writing and wait for `readers[p]`, and the counters lock
for reading, so that several may have one node. `RWSpec` also gives main's
choice of program as a choice of the first state, so that one run covers both.

**Cache, Proxy.** `Cache` gives the calls of `cache.c` as steps of the calling
thread: `LookAt`, `Bump`, `Take` for a lookup; the search under the mutex
(`AddKnown`, `AddLock`), `Insert`, and for an eviction `Scan`, `EvictUrl`,
`EvictCopied`, `EvictFree`, `EvictData`, `EvictReset`; and `FreeCache`. The
lookups and the eviction go access by access. The search, the filling of a slot
that is not counted yet, and the loop of `destroy_cache` are one step each:
under the mutex nobody else changes what they read, and a slot beyond `count`
is read by nobody. What the threads do with a cache that has been freed is a
step of its own (`UsesDestroyed`).

What the cache is asked for is not the request but what `extractReference`
makes of it: `Reference[q]` is the text up to the first `H` after `GET `, less
one character, for every request `q`. It is a constant and an arbitrary
function, so different requests may have one reference, as `/Hello` and `/Home`
of one host do, or none. `content[r]` is the request whose response is in the
record `r`, `got[c]` the requests whose responses a client has received. A
request without a usable reference is `RecvNothing` (no `GET ` or no `H`: the
socket is closed) or, if it is in `TooShort`, `RecvShort`: with an empty
reference `buffer` is freed twice, with an `H` at once the length is -1, and
the process ends. A request in `Hostless` (no `Host:`, or a name of 50
characters or more) ends it in the fetch thread (`NoHost`).

The URL of an item is an array in front of its data pointer. In the middle of
`strcpy` it is `Torn` and may compare either way. A URL in `Long` has 256 to
271 characters: it fills the array, and its tail lies where the pointer and the
count are, which are stored next, so that what is left is `Garbled`, the
reference of no request (`Stored`). In an eviction the tail is where the old
pointer was: `free` is called with it, or a lookup takes it (`FollowsWild`),
and the process ends. A pointer whose lowest byte is 0 would end the string in
the array where it begins; the model has no such addresses, nor URLs that
overwrite the next item too.

Records are memory (`live`), and each comes with a buffer of 501 MB.
`buffers` counts those that are allocated and `lost` those whose record an
eviction has freed (`EvictFree`), which nothing points to any more. The other
places that free a record free its buffer as well.

`Proxy` is the rest of the program: `main`'s loop with
`handle_client_request`, and the fetch threads. Descriptors are numbers, given
out lowest first, and `peer` says which client is behind one, so a second
`close` of a descriptor that was reused disconnects the wrong client. The
chunks of a response are one step; the connection to the remote server may
fail (`ConnectFailed`, which closes the client's socket when there was no
connection, and `unconnected` remembers it); a write to a client that has left
may fail (`RelayFails`) or end the process (`BrokenPipe`). `evicted` remembers
that a slot was reused. Descriptors of connections to remote servers are not
in the pool.

SIGINT interrupts any thread at any step, up to `MAX_SIGINTS` times
(`Sigint`): no thread masks it, but a thread in the handler is not interrupted
again. `handler[t]` is how far the handler of thread `t` is; the thread itself
does not go on. The handler waits for `cache_mutex`, frees the cache and
exits. If another thread is in the handler, main leaves its loop when it next
tests `server_is_on`, destroys the cache a second time and returns, which ends
the process too (`EndOfMain`). If the thread that is interrupted has
`cache_mutex`, nobody gets it any more: `SelfBlocked`.

`UrlCache` is the set of URLs that can be found in the cache. A slot with a
long URL counts but is of no use: it is `spoilt`.

**UThreads.** A context is the place where its thread goes on, so
`uthreads[i]` is the thread that was saved in slot `i` last. `code[t]` and
`handler[t]` are the thread's places in its own code and in
`uthread_scheduler` on its stack. `swapcontext` is two steps, `Save`, which
installs the signal mask of the next thread, and `Load`; `loading` is the
window between them. `Alarm` delivers the signal to the running thread
wherever it is. An alarm between the move of `uthread_cur` and the end of
`swapcontext` sets `early`, and the model ends there; it also ends when a
thread returns, because a context without `uc_link` takes the process with it.

## 4. What is checked

| Run | Configuration | Instance | Shows |
|---|---|---|---|
| `counting` | `Counting.cfg` | 3 threads, 2 rounds, both phases | exclusion, both totals, no lost wake-up, termination, refinement |
| `list_queue` | `ListQueue.cfg` | 1+1 threads, capacity 2, 3 nodes | no fault, agreement of fields, no leak, refinement |
| `racy_queue` | `RacyQueue.cfg` | the same, no lock | **violated**: the reader's check fails |
| `cond_queue` | `CondQueue.cfg` | 2+2, capacity 2, 2 spurious wake-ups | dead branches, not everybody asleep, calls complete, refinement |
| `sem_queue` | `SemQueue.cfg` | 2+2, capacity 2 | asserts, no empty take, no deadlock, flow, refinement |
| `queue_life` | `QueueLife.cfg` | five variants, 10 adds, 8, 10 or 12 gets | the monitor does not read freed memory, except with semaphores; the end of the program |
| `swap_threads` | `SwapThreads.cfg` | 3 swappers, 6 nodes | the list stays whole, refinement of exchanges, progress |
| `count_threads` | `CountThreads.cfg` | 3 counters, 5 nodes, mutexes and reader-writer locks | right counts, own locks, progress |
| `mixed_threads` | `MixedThreads.cfg` | 2 counters, 2 swappers, 5 nodes, both programs | what holds, deadlock freedom included, until a foreign lock is released |
| `evicting_proxy` | `EvictingProxy.cfg` | 3 clients, 4 requests with 3 references, one of them long, 2 slots, 2 fetchers | answers, descriptors, permits, memory, sound entries, one copy per URL, refinement of `UrlCache` |
| `live_proxy` | `LiveProxy.cfg` | 2 clients, 5 requests, two of them malformed, 1 slot, 1 fetcher, 2 SIGINTs | clients released, SIGINT ends the process, a fetch finds its response |
| `uthreads` | `UThreads.cfg` | main and 3 threads, as in the program | contexts kept, round robin, every thread runs |

**Bounds.** Three threads are enough for a lock to have a holder, a waiter and
a newcomer. Two rounds let a thread meet its own earlier effects. The queues
have capacity two, so that empty, full and neither occur. In `ListQueue`,
`VALUES` exceeds the number of values that can be under way, so a wrong value
is never mistaken for a right one; in `CondQueue` and `SemQueue`, whose lists
are sequences, two values are enough to tell an order from its reverse. Two
readers and two writers is the most that `SomeoneAwake` holds for with capacity
two, and includes the one and one that the program starts. `ListQueue` has one
node more than the capacity, so memory is reused at once. `QueueLife` has the
program's own numbers and, besides the twelve gets, fewer than were added and
as many. A swap needs four consecutive nodes; with six there are two places to
swap at, which overlap, and the three swappers reach the end of the list; the
lengths of `SwapThreads.cfg` make two of the three kinds swap wherever they
arrive. That is also where `ListIntact` is checked: without the second lock
(`Lock2_Skipped`) two swaps at the two places come to overlap, and a node is
lost. In `mixed_threads` five nodes leave one place to swap at, and the
counters pass over it. In `evicting_proxy` two requests have the same
reference, so that one client can be sent the response to the other's request;
the third reference evicts one of two, while the other fetch thread adds, looks
up or fails, and is a long one; four records are the two of the cache and one
for each fetch. `MAX_SIGINTS` is 0 there. `live_proxy` has two SIGINTs, one for
each thread: with only two threads, main and a fetch, both may be in the
handler at once, and the one that is interrupted second, or first, may hold the
mutex. A third SIGINT would have no thread left to interrupt. It has one permit
and one failure, so that all permits can be lost; its single slot makes every
second URL evict, `main`'s lookups meet the eviction, and one of its requests
is of each malformed kind. The number of fetch threads equals
`MAX_USERS_COUNT`, as in the code, where a thread exists only with a permit.
`MAX_HITS` caps an item's use count, `MAX_FAILURES` the failures of
`pthread_create`. The symmetry used permutes fetch threads, clients, records and
the two requests with one reference, none of which is ordered, in the run
without liveness. `UThreads` has
the numbers of the program.

**Deadlock** is checked everywhere except in `racy_queue` (the process dies)
and in `queue_life` (the eleventh get waits for ever, and without a monitor
nothing else moves). Programs that end, or that wait for clients that do not
come, stutter in an explicit step.

**Fairness** is weak fairness of each thread: the operating system runs every
thread that can run. No lock, semaphore or condition variable is assumed to be
fair, so a thread is only promised a lock that stays free. What holds without
fair locks is stated: the phases end because the other threads finish; in the
blocking queues some writer and some reader complete calls for ever, since the
other side fills or drains the queue and waits (`CallsComplete`,
`ValuesFlow`), and for the list only some thread finishes. `ListQueue` has no
liveness property at all, since its threads poll and an unfair lock may starve
one. For `Proxy`, clients that connect send a request and remote servers
answer or fail, and handlers run; nobody has to connect, and SIGINT has to come
no more than a client. In `UThreads` the processor goes on executing (weak fairness of
`Step`), an alarm that is set comes (weak fairness of `Alarm`, which is
enabled for as long as it is not blocked), and in the second until it comes
the running thread gets somewhere in its own code: strong fairness of its
steps outside the handler, because alarms keep interrupting it.

## 5. What the models say about the code

Held: everything in the passing runs. Not held, each found by TLC:

* `queue.c` without a lock gives values out of order (run `racy_queue`), the
  check of `queue-threads.c:44`.
* Condition variable: with two writers, one reader and capacity one (change
  the constants of `CondQueue`) all three can fall asleep, because a signal
  meant for the other side wakes a thread of the same side. It takes more
  threads than twice the capacity: up to that number, `FewNeverStuck` proves,
  somebody is always awake. `queue-threads.c` starts one of each.
* Semaphores: `queue_destroy` neither cancels nor joins the monitor
  (`queue-semaphores.c:58`), which may read the freed queue; the other four
  variants join it first (`MonitorReadsQueue` makes the exception).
* `queue-example.c` takes two values more than it puts in: with the condition
  variable or the semaphores it never ends (`ExampleEnds`, second case).
* List: with counters and swappers together, `OwnLocksOnly` fails in 24 steps,
  with mutexes and with reader-writer locks. Between the two unlocks
  (`mutex.c:114-115` and the copies of these lines, in `spinlock.c` and
  `rwlock.c` too) a swapper may change `current->next`; the counter then
  releases a lock that another thread holds, and leaves its own locked.
  Everything in `mixed_threads` is therefore stated up to that moment
  (`stray`), after which what the lock does is undefined.
* List: three swappers on six nodes reach a null pointer through the unlocked
  walk (`mutex.c:215`), in spite of the margin `VALUES - 4`. It needs a walker
  that is overtaken by several swaps near the end of the list, which a
  thousand nodes make rare. `swap_threads` reaches it; its properties are
  about what happens until then. Two swappers do not get there.
* Proxy: once the cache is full, a lookup can return the response to another
  URL or memory already freed, and the fetch thread's lookup of its own
  response can miss and follow a null pointer (`proxy.c:144`); so `RightAnswer`
  and `FindsItsResponse` are stated up to the first eviction.
* Proxy: the reference that `extractReference` (`proxy.c:219-237`) takes from a
  request ends at the first `H` after `GET `, not at the version. The requests
  for `/Hello` and `/Home` of one host have one reference, and the second
  client is sent the response to the first. `RightAnswer` says what is left:
  the response is one to a request with the same reference.
* Proxy: an eviction frees the `MemStruct` (`cache.c:69`) but not its buffer of
  501 MB, which nothing points to any more. `RecordsOwned` counts these
  buffers, and says that there is no other leak.
* Proxy: a URL of 256 characters or more does not fit in its array
  (`cache.c:50`): the item is never found again, takes its slot until an
  eviction, may be added again, and the fetch that added it follows a null
  pointer at once (lines 144-145), without any eviction. So `FindsItsResponse`
  is about the other URLs. If such a URL evicts another one, `free` gets a
  pointer made of its characters.
* Proxy: a request with an empty reference frees `buffer` twice (`proxy.c:227`
  and 216), one with an `H` right after `GET ` calls `strncpy` with length -1,
  and one without `Host:`, or with a name of 50 characters or more, writes
  through a bad pointer (`proxy.c:67-68`). Each ends the process.
* Proxy: SIGINT can be handled by a thread that holds `cache_mutex`, a fetch
  thread in `add_to_cache` or main in `destroy_cache`; the handler then waits
  for its own thread (`cache.c:17`), and so does every other handler. The
  process has to be killed. `SigintExits` makes this exception (`SelfBlocked`)
  and says that it is the only one. When main is in the handler already, a
  second SIGINT goes to a fetch thread for certain.
* Proxy: a failed connection closes the client's descriptor twice, and the
  second time it can be another client's; so `SocketsNotShared` and
  `RightAnswer` are stated up to the first failed connection. Each failure of
  `pthread_create` loses a permit for good.
* Proxy: between `free(cache)` in the SIGINT handler and `exit` fetch threads
  may use the freed cache, and main may leave its loop and destroy it again
  (`destroyed` in the properties).
* User-level threads: an alarm within a switch makes the handler save the
  running context in another thread's slot (`early`). The first thread to
  return from its function ends the process and all the others with it.

Apart from the first these contradict no statement of the repository, so they
are recorded here and under "hazards", and the runs state what does hold.

## 6. What is proved

| Module | Theorems | From |
|---|---|---|
| `CountingProof` | `LocksExclude`, `MutexNoLostWakeup`, `TotalsAreRight`, `ImplementsAtomicCounter` | `CounterAssumption` |
| `ListQueueProof` | `LockedTypeCorrect`, `LockedNoFault`, `LockedFieldsAgree`, `LockedNoLeak`, `LockedImplementsFifo`, `LockedReaderInOrder` | `ListQueueAssumption` (a finite set of nodes), `LOCKED`; the last, one reader and one writer |
| `CondQueueProof` | `CondTypeCorrect`, `CondNeverGivesUp`, `CondWithinCapacity`, `CondImplementsFifo`, `FewNeverStuck`, `OneToOneNeverStuck` | `CondQueueAssumption`; `FewNeverStuck`, finite sets of threads, neither empty, together at most twice the capacity; the last, one of each |
| `SemQueueProof` | `SemTypeCorrect`, `SemAssertsHold`, `SemNeverTakesFromEmpty`, `SemNeverStuck`, `SemImplementsFifo` | `SemQueueAssumption` (finite, non-empty sets of threads) |
| `QueueLifeProof` | `MonitorEndsFirst` | `QueueLifeAssumption` |
| `StorageProof`, about `Spec` of `Storage` | `StorageTypeCorrect`, `StorageNothingLeftLocked`, `StoragePairIsAdjacent`, `SwappersOwnLocksOnly`, `CountersOwnLocksOnly`, `SwappersImplementSwapList` | `StorageAssumption`; the last three, no counters or no swappers |
| `StorageProof`, about both programs (`RWSpec`) | `RWLocksGivenBack`, `RWPairIsAdjacent`, `RWListIntact`, `RWSwappersOwnLocksOnly`, `RWSwappersImplementSwapList`, `RWCountsPairs`, `RWCountersOwnLocksOnly` | the same; the last four, no counters or no swappers |
| `UThreadsProof` | `KeepsContexts`, `GoesRound` | `UThreadsAssumption` |
| `ProxyProof` | `ProxyOneCopyPerUrl`, `ProxyPermitsAccounted`, `ProxyFetchesBounded`, `ProxyRecordsOwned`, `ProxyEntriesSound`, `ProxySocketsNotShared`, `ProxyRightAnswer`, `ProxyFindsItsResponse`, `CacheKeepsUrls` | `CacheAssumption`, `ProxyAssumption` |

Each follows from an inductive invariant that is stronger than the properties:

* `CountingProof`: exclusion is not inductive by itself; `LockInv` ties the
  word of the lock in use to "somebody is in the critical section" and says
  that the register of the thread about to store is fresh. The last part is
  what makes the store map to `counter + 1` in the refinement.
  `MutexNoLostWakeup` needs no more than that somebody who is neither asleep
  nor gone exists while anyone sleeps. `TotalInv` counts: the counter is the
  cardinality of the set of increments made, which at the end is
  `Threads \X (1..ITERATIONS)`.
* `ListQueueProof`: `IInv` says that there is a sequence of nodes without
  repetition that runs along `first` and the `next` pointers to the null
  pointer and is allocated, with its last node at `last` (`ListInv`), and for
  each place of the thread inside the lock how far `count`, `last` and the new
  or removed node are from that. `last` may dangle when the list is empty. An
  added node extends the sequence, a removed one shortens it, and neither is
  seen at the other end, which is the refinement of `FifoQueue`. That the walk
  along the pointers, a recursive function, yields this sequence
  (`NodesOfList`) is an induction over its places. `LockedReaderInOrder` adds
  that the values in the list are consecutive and end at the writer's number.
* `CondQueue`: `MutexInv` (places and the mutex agree), `CountInv` (the length
  of the list as `count` tells it, with the skew of the owner between its two
  updates), `RoomInv` (past the test there is room, or a value). For
  `FewNeverStuck`, `AwakeInv` bounds the sleepers by what the threads that are
  awake can still do. `Items` is `count` without the call whose signal is to
  come, so that an item and the wake-up it causes are one step. With `c` items,
  `w` of `W` writers and `r` of `R` readers asleep, `Enough` says: while a
  writer is awake, `r < MAX_COUNT` or `w + r < 2 * MAX_COUNT - c`, because it
  can fill the queue with `MAX_COUNT - c` calls, each of which may wake a writer
  and not a reader; likewise for readers; and if all writers sleep, `r < c`.
  That is what a thread that falls asleep needs, whoever was woken before. The bound is sharp for capacities one and
  two, where TLC finds all asleep with one thread more.
* `SemQueue`: `SpacesInv` and `ItemsInv` account for every place of the list:
  a semaphore plus the calls between their wait and their effect plus those
  between their effect and their post. They are statements about
  cardinalities, so the proof first shows how each step changes the sets
  `Reserved` and `Owed`. `SemNeverStuck` follows: if all threads waited, the
  two semaphores would both be 0 and every place accounted for by nobody.
* `QueueLifeProof`: `JoinedFirst` says of main's remaining calls that the one
  that frees the queue has a join before it, or that the monitor is not
  running. It holds at the start by what `queue_destroy` of the variant does,
  and only the join takes the first alternative away.
* `StorageProof`: `HoldOK` names the nodes each thread has locked at each place
  (`Held`), `SwapOK` says that nobody but its swapper changes the nodes of a
  swap in progress. Both hold until a lock is released by a stranger, so the
  invariant has the disjunct `stray`, and with only swappers or only counters
  `stray` stays false. For reader-writer locks `RWHolds` says the same of the
  writers (`Steady(Swappers)`), of the readers (`ReadOK`), and that no node has
  both; for the mutexes it is the invariant of `Storage`.
* The refinement mapping `Settled` takes swaps in progress back, giving the
  nodes a swapper has locked the successors it read. The first two stores and
  every lock leave it alone; the third store, which releases the mapping,
  exchanges the two nodes after `current`. `StepExchanges` and
  `RWStepExchanges` say so for swappers and counters together until `stray`.
* `ListIntact` is about the list as a whole. Its invariant is that some
  function `o` from places to nodes, one to one and onto, starts with `first`
  and follows `Settled` to the null pointer (`OrderOf`). An exchange of two
  neighbours is followed by the exchange of two values of `o`
  (`ExchangeOrder`). That `Chain`, a recursive function, reads off `o` place
  by place (`ChainFollowsOrder`) is an induction over the places.
* `CountsPairs`: while nobody swaps, `next` stays what it was. `CountOK` says
  that a counter has counted the pairs it has passed (`Passed`, `Place`), which
  gives the cap of `count` room too, and that at `cunlock2` it still has the
  lock of `current + 1`, which is why line 115 releases the right one.
* `UThreadsProof`: `SwitchInv` says that only the running thread is in a
  switch and that `cur_ctx` and `uthread_cur` are those of that switch;
  `TableInv` that every other thread is in its slot, the one that main is
  about to count included. An early alarm ends both.
* `ProxyProof`: the steps are first put in one form, what becomes of each
  local of the thread that moves (`MainDone`, `FetchDone`, `LookDone`,
  `AddDone`, `FreeDone`; the lemmas `...Effect`). The parts of `IInv` then
  build on each other. `Shape`, `Places` and `Indices` are types, `MutexInv`
  makes the thread in `add_to_cache` unique, and `UrlsInv`, which includes
  that the thread under the mutex has searched for its URL, gives
  `OneCopyPerUrl`. `PermitsAccounted` is inductive by itself. `OwnersInv` says
  that each record has one owner, a fetch or a slot, and holds what its owner
  says, from which `EntriesSound` follows: a slot's record can only be freed
  by the eviction of that slot. `NoLeak` adds that no other record is allocated,
  which gives the first half of `RecordsOwned`: that as many are allocated as
  are owned is a bijection between records and owners (`RecordsCounted`).
  `BuffersInv` is the other half, that every buffer is that of a record or was
  lost: each step changes `live` by the record whose buffer it allocates or
  frees, or counts the buffer as lost (`BuffersStep`). `SocketsInv` does the same for clients and
  descriptors. Until the first eviction slots never change, so what a lookup
  has found stays what it looked for (`FoundInv`), a fetch finds what it has
  added (`AddedInv`, hence `FindsItsResponse`), and what is sent is what the
  client asked for (`AskedInv`, hence `RightAnswer`). `CacheKeepsUrls` maps
  the URLs in the slots to the set of `UrlCache`: an insertion adds one, an
  eviction takes one away and then adds one, with `Torn` between. Slots with a
  long URL go to `spoilt`, and that the two sets together count no more than
  the slots (`InUseCounted`) is what makes each step fit.

**Induction over data.** The library's induction theorems take an operator as
a parameter, which the installed provers cannot instantiate. Where a proof
needs induction over the places of a list, it takes a least counterexample
instead: `LeastMember` says that a non-empty set of numbers has a least
element, with the set as its parameter, and follows from the well-foundedness
of < on the naturals.

Only model-checked: the liveness properties (`Termination`, `CallsComplete`,
`ValuesFlow`, `SwapsContinue`, `PassesContinue`, `EveryClientReleased`,
`SigintExits`, `EveryThreadRuns`, `ExampleEnds`), because liveness under
fairness and ENABLED are beyond the installed provers.

## 7. What is not modelled

* The statistics of the queues and of the list, which are only printed, the
  values the monitor prints, and memory that runs out.
* The locks of `malloc` and `printf`, which the proxy's SIGINT handler would
  need if it interrupted a thread inside them, and SIGINT before the cache exists.
* HTTP text, name resolution, the sockets to remote servers, and the chunks of
  a response: a response that is cut short (`proxy.c:97`) or whose error
  marker is split between two reads (`proxy.c:122`) looks like any other.
* `queue_destroy` while readers and writers use the queue: no program does it.
  `freeStorage` is never reached.
* In `thread1_7_u.c` what happens after an alarm within a switch, stack sizes,
  and `printf` in a handler. `thread1_7.c` runs three contexts one after the
  other: it has nothing to interleave.
* The other thread exercises print identifiers, pass arguments, cancel a thread
  or handle a signal, with little state; two of them do not compile.
* `sync/tmp.c` computes with floating point, which TLA+ does not have.
