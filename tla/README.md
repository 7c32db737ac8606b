# dont-wait-for-me: specifications

The repository compares web servers that differ in one thing: the queue between
the thread that accepts connections and the threads that serve them. This
directory holds TLA+ specifications of those queues and of the servers around
them, TLC configurations that check them on small instances, and proofs, checked
by TLAPS, of the results that hold for every instance.

Line numbers are those of `src/` at the commit the specifications stand beside.

## The system

```
   clients ──► accept ──► queue_put ──► [ queue ] ──► queue_get ──► handleConnection
               main thread (mainLoop)                 NTHREADS workers (threadMain)
```

| Server | Source | Queue | How a worker waits |
|---|---|---|---|
| http-server | `http-server.c` | linked list under one mutex | condition variable |
| http-server-futex | `http-server-futex.c`, `libwait.c` | the same list | futex word that never changes |
| msq | `ms-queue-http-server.c`, `libwait.c` | Michael-Scott list | futex counter |
| lcrq-server | `lcrq.c`, `lcrq-server.c`, `libwait.c` | list of ring buffers (LCRQ) | futex counter |
| lcrq-yield | `lcrq-yield.c` | LCRQ | polls |

### Inventory

| Component | State | Operations | Interacts by | Correct when |
|---|---|---|---|---|
| locked queue | `first`, `last`, `length`, the heap cells, mutex, condition variable | `queue_init`, `queue_put`, `queue_get`, `queue_destroy` | called by main and by every worker; the broadcast moves sleepers | the list is whole, `length` is its length, no cell is leaked or used after `free`, nobody sleeps on a message, values leave in FIFO order once each |
| locked server | place of main, poison count, workers, descriptors, `flag_term` | `mainLoop`, `cleanup_handler`, end of `main`, `threadMain`, `handleConnection` | shares the queue; the signal handler runs on any thread | each connection is served once, the shutdown drains and ends |
| futex queue, libwait | the list as above, futex word | `queue_put`, `queue_get`, `wait`, `broadcast` | kernel futex | as the locked queue |
| Michael-Scott list | `head`, `tail`, nodes | `enqueue`, `dequeue` | compare-and-swap by all threads | FIFO, honest emptiness, lock freedom |
| counted servers | queue, counter, workers, descriptors | `queue_put`, `queue_get`, accept loop, workers | kernel futex with compare | no connection waits while everybody sleeps |
| LCRQ | rings, cells, `head`/`tail` counters | `enqueue`, `dequeue` in `lcrq.c` | fetch-and-add, double-width compare-and-swap | linearizable, honest emptiness, lock freedom |
| lcrq-yield | LCRQ, polling `queue_get` | | | a connection is found by a poll |
| HTTP request handling | what was read and sent on one connection | `handleConnection`, `handleFileRequest`, `sendStatusLine` | runs in a worker; the file system changes under it | one answer per request, the one it is due, and a file without gaps |
| learn | shared-memory list, counter | `enqueue`/`dequeue` with `free`, CAS loop | shared memory | FIFO, no use after free |
| synch: combining and locks | request nodes, their list, a tail or a lock | `applyOp` of CC-Synch, DSM-Synch, H-Synch, Oyama; `clhLock`, `clhUnlock` | swap and compare-and-swap; a combiner writes into the nodes of others | mutual exclusion, each request served once, its own result, nobody left spinning |
| synch: wait-free and lock-free | records, toggle bits, lists | `applyOp` of sim, `push`, `pop`, `enqueue`, `dequeue` | a winner applies the requests of others | as above, also when a thread stops for ever |
| synch: queues over two locks | list with a guard, two locks | `enqueue`, `dequeue` | ends of one list under different locks | FIFO |
| socket set-up, benchmarks, paper | | | | straight-line code or data |

### What is hard here

* **The wake-up test.** Every `queue_put` wakes sleepers only on a transition
  from empty. The locked queue tests `length` between the append and the
  increment; the counted servers test a counter that runs behind the queue; the
  futex queue tests under a mutex that the sleeper has already given up.
* **Reuse.** `free` and `calloc` recycle message cells; `fclose` and `accept`
  recycle descriptor numbers.
* **Shutdown.** SIGINT, poison values in the same queue as the connections,
  `pthread_join`, and a `queue_destroy` that destroys the mutex.
* **Partial failure.** A failed `fdopen` ends a worker exactly as poison does.
* **Lock-free reads.** `enqueue` and `dequeue` read three shared pointers at three
  times and act on them later.
* **Helping.** In `synch1.0.1` a thread's request is carried out by another one, from
  a node or a record that is used again for the next call; the caller must get its
  own result, once.
* **Rings.** In LCRQ an index is drawn first and used later, when its cell may
  already belong to a later round; a ring may be closed between the two, and a
  dequeuer may leave it while an enqueuer still holds one of its indices.

`PROJECT.json` lists each of these hazards at its line with the properties that
watch it.

## Modules

| Module | Models | Uses |
|---|---|---|
| `FifoQueue` | what every queue promises: put, get, return of the value, discard on destruction | |
| `LockedQueue` | the queue of `http-server.c` | implements `FifoQueue` |
| `LockedServer` | accept loop, workers, descriptors, SIGINT, shutdown of `http-server.c` | extends `LockedQueue`, whose operations its threads call |
| `LockedServerProofs` | proofs about `LockedQueue`, and about `LockedServer` around it | |
| `FutexQueue` | the queue of `http-server-futex.c` with `libwait.c` | extends `LockedQueue` and replaces wait and broadcast |
| `HttpHandler` | `handleConnection` and `handleFileRequest` | |
| `FutexServer` | all of `http-server-futex.c` | extends `FutexQueue` and `LockedServer`, with `HttpHandler` in place of the one step that serves |
| `FutexServerProofs` | proofs about `FutexQueue` and `HttpHandler`, and about `FutexServer` around them | an instance of `LockedServerProofs` |
| `MSQueue` | the list of `ms-queue-http-server.c` | implements `FifoQueue` |
| `MSQueueProofs` | proofs about `MSQueue` | |
| `OverlapQueue` | what a queue promises to callers whose puts overlap | |
| `LCRQ` | the list of rings of `lcrq.c` | implements `OverlapQueue` |
| `LCRQProofs` | proofs about `LCRQ` | |
| `CountedServer` | the futex counter and the server around it, for msq and lcrq-server | a queue with one step per operation, which `MSQueue` justifies for msq and `LCRQ` for lcrq-server |
| `CountedServerProofs` | proofs about `CountedServer` | |
| `AtomicObject` | what every program of `synch1.0.1` promises: ask, take effect once, answer | |
| `Synch` | threads, calls and the serial code of the programs of `synch1.0.1` | `AtomicObject` |
| `CCSynch`, `CCStack`, `HSynch` | `ccsynch.h`, `ccstack.h`, `hsynch.h` and the programs on them | `HSynch` uses `CLHLock` |
| `DSMSynch`, `Oyama`, `CLHLock` | `dsmsynch.h`, `oyama.h`, `clh.h` and the programs on them | |
| `LockFree`, `PSim`, `SimQueue` | `lfobject.c`, `lfstack.c`; `sim.c`, `simstack.c`; `simqueue.c` | `SimQueue` extends `PSim` |
| `TwoLockQueue` | `ccqueue.c`, `dsmqueue.c`, `hqueue.c`, `locksqueue.c` | |
| `SynchPrograms` | all these programs, one at a time, and `MSQueue` and `LCRQ` under fair scheduling | instances of the modules above, refines `AtomicObject` |
| `SynchProofs` | proofs about `SynchPrograms`: mutual exclusion | |
| `SynchCallProofs` | the calls are atomic in the programs that combine or lock, and in `lfobject`, `lfstack` | the invariants of `SynchProofs` |
| `SynchAtomicProofs` | the same for `sim` and `simstack`, and the theorems about all of them | the lemmas of `SynchCallProofs` |
| `MC*` | instances and symmetry sets for TLC | |

Operators that are commented as mutants are deliberate errors. Each is put in the
place of the operator that follows it to confirm that the property concerned
notices; no specification uses them.

### LockedQueue

`pc[t]` is the place of thread `t` inside a queue function; an action is the
code from one place to the next. Inside the mutex the steps are those the
wake-up protocol tells apart:

| Action | Code (`http-server.c`) |
|---|---|
| `PutAlloc`, `PutOutOfMemory` | 106–113: `calloc`, or `die` |
| `PutLock`, `PutAppend`, `PutWake`, `PutCount` | 116; 117–123; 125–129; 130–132 |
| `GetLock`, `GetWait`, `GetRemove`, `GetFree` | 140; 142–152; 154–162; 164–167 |
| `SpuriousWakeup` | 147–152, POSIX's permission to return without a signal |
| `DestroyLock`, `DestroyFree`, `DestroyEnd` | 88; 89–93; 94–101 |

`next` and `val` are the fields of the heap cells; `free` makes a cell available
to `calloc` again and erases its fields, so that a read after `free` would be
seen. `order` is a history variable: the cells on the list in the order of their
puts. It is compared with the pointers by `ListShape` and gives the abstract
queue of the refinement. In `LockedQueue` alone every thread may put and get, at
any time; the specification keeps the one rule the code relies on, that
`queue_destroy` is called by the last user.

### LockedServer

Main is a thread of `LockedQueue` that puts; the workers get. `fd` follows each
descriptor from `accept` to `fclose`, after which `accept` may return it again.
Serving is one step, because no shared state is touched between the `fgets`
and the `fclose`. A *silent* client never sends its request.

SIGINT may arrive at any time. If it interrupts `accept`, main leaves the loop.
The test in the code is `errno == EINTR && flag_term` after every `accept`,
whether it failed or not; a stale `EINTR` cannot reach it, because `errno` is per
thread, only the handler makes `accept` of main fail with `EINTR`, and then
`flag_term` is set and the loop ended there. A worker whose `fgets` is
interrupted closes the connection with its request unread. `getpeername` failing
for a client that is gone calls `die`, which ends the process (`PeerGone`).

A worker that dies of a failed `fdopen` leaves its poison in the queue;
`queue_destroy` frees it. `KeepsQueueRules` says that the server respects the one
rule of `LockedQueue`: its runs are runs of that specification, of which the
safety properties are proved.

### FutexQueue

`GetUnlock`, `WaitRead` and `WaitSleep` are the three steps that replace
`pthread_cond_wait`: unlock, read of the word, `FUTEX_WAIT`. `BroadcastFutex` wakes
at most `MAX_WAKEUP` sleepers. The kernel's comparison is modelled although it
always succeeds: no code assigns the word after `queue_init`, and that is the
finding below. `missed` is a history variable: the threads a broadcast passed over
since they found the list empty.

### HttpHandler and FutexServer

A request line is the set of what is wrong in it (`Fault`), a file is what stands at
its path (`Kind`), and both are chosen anew whenever the code looks: the file may be
replaced between `stat` and `fopen`. `rq[w].out` is what went out on the connection.
`due` and `seen` are history: the status the line deserves, and what stood at the
path at the looks. The result of `Send` is not used by the code after the status
line, so that a client that disconnects changes nothing but what it sees; what it
misses is not modelled.

`FutexServer` joins the three parts. The main thread and the environment are those
of `LockedServer`; the queue steps are those of `FutexQueue`; between `Open` and
`CloseConnection` a worker takes the steps of the handler. A silent client sends its
request line and then nothing. SIGINT interrupts `fgets` (`SigintInFgets`) and the
futex wait (`SigintInWait`), after which `queue_get` looks at the list again, a
third way for a sleeper to come back.

The liveness properties name what may go wrong instead of assuming it away: an
accepted connection waits for ever only if every worker is stuck, that is, dead of
a failed `fdopen`, waiting for a silent client, or asleep after a broadcast passed
it over.

### Synch and the programs of synch1.0.1

The library is kept in the repository because the servers take its primitives, its
pools and the Michael-Scott queue from it. Each program is a number of threads
that call one object. `SynchPrograms` runs one of them, chosen at the start
(`prog`); nothing is shared between programs but the harness.

`AtomicObject` is the promise: a call takes effect once, on the object alone,
between its begin and its end, and returns the result. `Synch` keeps the object
beside the algorithm: where the code of a combiner calls the serial code, the
object changes and the result the request is due is written down in `call`. What
the thread returns in the end comes from the nodes or the records, and
`ReturnsItsResult` compares the two. `fetchAndMultiply`, the object of five programs,
is abstracted to the number of operations applied, which is all that its callers can tell.

* `CCSynch`, `CCStack`, `DSMSynch`, `HSynch`, `Oyama`, `CLHLock`: one step per access to
  a shared node; the node that a thread hands over and the one it takes along are
  names, so that reuse is seen.
* `PSim` and `SimQueue`: the current record is a pointer with a sequence number; the
  copy of a record is as many steps as can be told apart; a toggle vector is the set
  of the threads whose bit is set. A record may be overwritten while it is copied,
  and the two reads of `sp` are there for that.
* `TwoLockQueue`: the four queues differ in their locks alone, and the locks are what
  the modules above are shown to provide.

Some programs do not do what the README of the library says of them. Those that
serve the wrong operation (`WrongOperation`: the combiner of `dsmstack.c` and `hstack.c`
runs its own function for everybody, `ccstack.h:94` links the node before the request
is in it) are left out of `AtomicRefinement`. Those that return a wrong value whatever
the interleaving (`WrongResult`: `simstack.c:206`, `locksstack.c:48`, `ccqueue.c:51`,
`simqueue.c:287`) are left out of `ReturnsItsResult`, for that operation. In
`oyamauobject.c` a thread can be left waiting (`Stranded`: the test of the lock is
commented out at `oyama.h:98`), and `CallsReturn` says that this is the only way.

`simqueue.c` is not compared with `AtomicObject`: an empty `dequeue` takes effect
before the step that makes it known. `ChainStaysWhole` and `EmptyIsHonest` say what is
left: the list with the batch that is being linked holds what was enqueued and not
taken, in order, and a `dequeue` reports an empty queue only if it was empty for a
moment meanwhile. The first has an exception, because the code does not keep it:
`connectQueue` reads `enq_sp` (`simqueue.c:159`) and copies the record it names (line 160)
without looking at `enq_sp` again. If the owner of the record goes round its pool in
between and is writing the record again, the copy may have the new `link_a` and the
old `link_b`, and the compare-and-swap at line 161 then ties the list into a loop.
`ChainStaysWhole` says that this step (`LinksLate`) is the only one that breaks the list.

### MSQueue

One action per access to shared memory, with the local variables of the code.
A thread takes its nodes from chunks of its own and never returns them
(`pool.h`), hence a node is used once. The back-off delays only wait and are
left out. `head` and `tail` are not `volatile` (line 66); the Makefile compiles
without optimisation, but its `OPT` variable may add it, and then the second
read of `head` or `tail` in an iteration may be the first one's value.
`MergedReads = TRUE` lets every such check succeed or be made, in any mixture:
the runs show that correctness does not rest on these checks, only on the
compare-and-swaps.

### LCRQ

One action per access to shared memory, as in `MSQueue`; a cell's index and value
are read one after the other and written together by the double-width
compare-and-swap. The bits that the code keeps in bit 63 of `tail` and of a cell's
`idx` are the fields `closed` and `unsafe`. The atomic operations are locked
x86 instructions and the Makefile compiles without optimisation, so that memory
is sequentially consistent as far as the algorithm can see, and every read is made.

| Actions | Code (`lcrq.c`) |
|---|---|
| `EnqueueTail`, `EnqueueNext`, `EnqueueHelp` | the start of an iteration: `tail`, `next`, and moving `tail` on |
| `EnqueueDraw` | fetch-and-add on `tail`; a closed ring sends the thread to link its own |
| `EnqueueIdx`, `EnqueueVal`, `EnqueueHead`, `EnqueueCas` | the two loads of the cell, the test for an unsafe cell, the exchange |
| `EnqueueFull`, `EnqueueClose` | the full ring, `close_crq` with its outright tenth try |
| `EnqueueLink`, `EnqueueSwing` | linking `nrq`, which holds the value already |
| `DequeueHead`, `DequeueDraw` | the ring, the index |
| `DequeueIdx`, `DequeueVal`, `DequeueLook` | the inner loop: the cell, and the tail now and then |
| `DequeueTake`, `DequeueMark`, `DequeueSkip`, `DequeueClose` | its four outcomes: value, unsafe, next round, out of patience |
| `DequeueTest`, `FixTail`, `FixHead`, `FixCas` | is the ring drained, and `fixState` |
| `DequeueNext`, `DequeueAgain`, `DequeueSwing` | the next ring, after a second look at this one |

Rings are numbered in the order in which they are linked; the private `nrq` comes
into being when it is linked, which nobody else can tell. `fixState` tests `tail` and
then compares and swaps it; both fail for the same reason and lead to the same
place, so that they are one step. A local variable is reset when the block that
uses it is left.

The place of a value in the queue is not decided by one step of its `enqueue`: an
enqueuer that drew a smaller index may fill its cell later, or lose it. That is why
`LCRQ` implements `OverlapQueue` and not `FifoQueue`. `OverlapQueue` orders two puts
only if one returned before the other was called, and a get takes a value before
which no completed put is left: what a caller can tell of a linearizable queue.
In lcrq-server only main puts, its puts never overlap, and `OverlapQueue` is then a
plain FIFO queue, as `CountedServer` has it. The refinement mapping takes a value out where its index and its dequeuer meet at
the cell, whichever comes second. `wasEmpty` and `before` are history variables.

Left out: `FULL` of the statistics and the hazard pointers behind `HAVE_HPTRS`, which
the build does not define. No ring is freed in this build, so that none is reused.

### CountedServer

`queue_put` is enqueue, `__sync_fetch_and_add`, and a signal if the old value was
0. `queue_get` is `FUTEX_WAIT` on the value 0, the loop test, dequeue, and
`__sync_fetch_and_sub`; an empty dequeue goes back to the wait. Each is a step.
The counter can be −1 for a moment, when a worker dequeues before main adds.
`exit(1)` follows `mainLoop` directly in these servers, so that the poison loop
and the joins behind it are dead code and are not modelled.

## Runs

| Run | Instance | Shows |
|---|---|---|
| `locked_queue` | 3 threads that all put and get, 4 cells, 2 spurious wake-ups | list, length, heap, no sleeper beside a message, refinement of `FifoQueue` |
| `locked_server` | 2 workers, 2 reused descriptors, one of a silent client, 2 signals, 1 `fdopen` failure | a descriptor is in one place; shutdown drains; queue rules kept; every connection is taken up; only a silent client delays the shutdown |
| `futex_server` | 2 workers, 2 reused descriptors, one of a silent client, 2 cells, `MaxWakeup` 1, files of 2 blocks, 1 signal, 1 `fdopen` failure | messages survive; who can be stranded; one answer, the one due; what the lost wake-ups cost the connections and the shutdown |
| `ms_queue` | 2 enqueuers, 2 dequeuers, 3 nodes | one list, honest emptiness, refinement of `FifoQueue` |
| `lcrq` | 2 enqueuers, 2 dequeuers that wait, rings of one cell | nothing is left behind in a ring, honest emptiness, refinement of `OverlapQueue` |
| `counted_server` | 3 workers, 3 descriptors, 1 failure | the counter's account; never all asleep; every connection is taken up unless a failure lost a worker |
| `synch` | 16 programs; 3 threads with 2, 1 and 1 calls, or 2 each, or in the Sim programs 2 threads, one of them with up to 4 calls, in `simqueue` 8 | mutual exclusion, refinement of `AtomicObject`, own results, what alone breaks the list of `simqueue.c`, honest emptiness, every call returns, also beside a thread that stops for ever in the programs that are free of locks |
| `sigint_missed`, `futex_lost_wakeup`, `counted_server_silent`, `counted_server_fdopen`, `dsm_stack` | smallest that shows it | the findings below, as counterexamples |

### Findings

1. **`http-server.c:514`** (`sigint_missed`). SIGINT ends the accept loop only if it
   interrupts `accept`. Delivered while main is in `queue_put`, or to a worker, it
   sets `flag_term`, and main never looks at that flag after a successful
   `accept`. The comment at line 515 reads otherwise.
2. **`http-server-futex.c:149`** (`futex_lost_wakeup`). A broadcast between the unlock
   and the sleep is lost; the thread sleeps beside a message, even with the
   real `MAX_WAKEUP` of 16. `StrandedWasMissed` (run `futex_server`) shows that this
   and the cap of `MAX_WAKEUP` are the only ways.
3. **`ms-queue-http-server.c:169`, the same in `lcrq.c`** (`counted_server_silent`). A
   connection put while the counter is positive wakes nobody. If the worker that
   is awake then gets a silent client, the connection waits for ever although
   another worker sleeps. The paper (`extended-abstract.tex:360`) says that waking
   on the transition from empty is enough. It is in the locked server, because
   that one broadcasts (`AcceptedIsHandled` of `locked_server`).
4. **`ms-queue-http-server.c:406`** (`counted_server_fdopen`). One failed `fdopen` kills
   the only worker that was awake. The counter stays positive, no later put
   signals, and the server stops for good. `NotAllAsleep` still holds in this
   state: the dead worker is not asleep.
5. **`synch1.0.1/dsmsynch.h:106`**, the same at `hsynch.h:108` (`dsm_stack`). The combiner
   calls its own `sfunc` for every request. `dsmstack.c` and `hstack.c` pass `push` or
   `pop` as `sfunc`, so that a combiner that pushes also pushes for a thread that
   asked for a pop. The library's README says that they simulate an atomic stack.

Seen while modelling, and not given a run of their own: `simqueue.c:160` copies the record
of the last batch without looking at `enq_sp` again and may link a half-written one
(run `synch` reaches it with three records per thread, as the exception of
`ChainStaysWhole`; with the 16 records of the code and 17 enqueues of one thread a
search of 1.7 million states reached it, too long for a run); `ccsynch.h:98` never initialises `counter`, which may start at the
bound and then leaves even the combiner's own request unserved; a header line of more than 999 characters is read in pieces, one of which
may look like the blank line; a directory that replaces no file between `stat` and
`fopen` is answered with 200 and no content (stated in `AnswerIsDue`).

### Bounds and why they are enough

* *Threads.* Two sides and a third thread that interferes are what the wake-up
  protocols can tell apart: one thread between unlock and sleep, one asleep, one
  in `queue_put`. The safety of the
  servers and of their queues is proved for any number of threads; of the programs of
  `synch1.0.1`, mutual exclusion is, and for all but `simqueue` that calls are
  atomic and return their own results. What else `synch` says of these, it says of its threads
  and calls, and the combining ones pass their role on in it.
* *Cells, nodes, descriptors.* `Node` of `LockedQueue` is the heap; when it is used
  up, a put waits for a `free` (or `PutOutOfMemory` ends the process), which
  removes no interleaving of the queue functions. In `LockedServer` there is a cell
  for each descriptor and each poison, so no put is ever short. Two descriptors in
  `LockedServer` suffice for reuse, because `accept` returns them again and again.
  `FutexServer` has two cells, so that a third put waits until a worker has taken one;
  the queue is never longer than that, and a sleeper that was passed over is passed over
  by the first put. The nodes of `MSQueue` are used once, so three nodes are three enqueues: one
  that is linked, one whose tail is behind, one that helps.
* `RingSize` 1 (run `lcrq`) or 2 (run `synch`) stands for 2^17, `Refresh` 2 or 3 for 1024, `Patience` 0 or 1 for
  200000, `CloseTries` 2 for 10. `Refresh` does not divide `Patience` + 1, as in the code,
  so that an impatient dequeuer decides on an old tail. Small values reach what
  large ones take long to. In `lcrq` these are reached: the second round of a ring,
  the full ring, the unsafe cell that is filled again, the failing and the last try
  of `close_crq`, the ring closed by an impatient dequeuer while indices of it are
  in use, the lost race to link a ring, the second test of a drained ring that
  fails, and `head` leaving a ring. Not reached: a last try after others have
  drawn an index; it does to the ring what the impatient dequeuer does.
  `MaxDraws` bounds the indices drawn by dequeuers and `MaxCalls` the calls; in
  `synch` the first, 20, is out of reach, so that only the calls are bounded and a
  thread that loops is not stopped by a bound.
* `MaxSpurious`, `MaxSignals`, `MaxFdopenFailure` bound events of the environment. A
  second spurious wake-up finds the state the first one found; a second SIGINT is
  the one that comes during the shutdown; one `fdopen` failure is enough to lose
  the worker that is awake.
* `MaxWakeup` is 1 in `futex_server` so that a broadcast can leave one of the two
  workers out, and 16, the real value, in `futex_lost_wakeup`.
* `HelpBound` is 2 in `synch` (3 · `N_THREADS` in the code), so that a combiner passes its
  role on with requests left; in `dsm_stack` it is not reached. `CounterStart` is what the
  uninitialised counter may hold, below the bound. `LOCAL_POOL_SIZE` is 3 in `synch` and 16 in
  the code: a thread uses a record again after three successful tries instead of
  sixteen. One thread of `sim` has four calls for that (`Short`), and one of `simqueue` has
  eight, four of them enqueues, beside a thread that dequeues (`Reuse`). Fewer than three
  fail for a reason the code does not have: the record that is current, the one that
  is being written and the one a slow reader holds must differ. That three suffice for any
  number of threads and calls is proved (`SynchProgramsAssumption` asks for more than two).
* *Loads.* Two calls show what the reuse of a node does to the next call. In the stacks
  and the queues a call of each kind is needed of each thread; `OneAndBoth` lets
  the first enqueuer of `MSQueue` and `LCRQ` put one value, for the values are alike. `simqueue` has
  two loads (`SimQueueLoads`): in `Racing` both threads enqueue and dequeue, so that they
  help each other and take nodes back, in `Reuse` records are used again. Both at
  once, 8 calls beside 2, are 450 thousand states; they were searched once, apart from
  the run, with the same outcome.
* `MaxBlocks` 2: a first block, and one that follows a block.
* *Symmetry* is used only in the runs that check safety alone, `locked_queue`,
  `futex_lost_wakeup`, `ms_queue` and `lcrq`; no member of a symmetric set is named there.

`CHECK_DEADLOCK FALSE` stands in every configuration because the process may
exit and, in the queues alone, because every thread may be blocked in `queue_get`
with nobody left who wants to put.

### Fairness

Each thread is scheduled (`WF` of its own steps) and a mutex, a `calloc` or a
futex does not starve a thread that runs: with finitely many descriptors, main
cannot put for ever while a worker waits for the mutex, so weak fairness is
enough. Clients, signals and failures are never forced. `BusyServerSpec` adds
that clients keep connecting; it is used only by `sigint_missed`, where it makes
the counterexample stronger: even a steady stream of clients does not let main
notice the flag. `FairFutexServer` is
the same for the server of http-server-futex: main and every worker run.

`FairPrograms` runs every thread of a program of `synch1.0.1`. In those that promise
progress whatever the others do (`lfobject`, `lfstack`, `sim`, `simstack`, `simqueue`, `msqueue`,
`lcrq`) the threads in `Stopped` get no fairness: they may stop anywhere for ever. The
calls are finitely many, so that lock-free loops end.

The algorithms of `synch1.0.1`, `MSQueue` and `LCRQ` are modelled under sequentially
consistent memory. That is an assumption: their updates are locked x86 instructions,
and x86 keeps plain stores in order, but a plain store may pass a later load.

## Proofs

All theorems hold for any sets that satisfy the assumptions in the modules: the
null pointer is not a thread, a cell or a value (`NullAssumption`), the bounds of the
environment are numbers, the pools of workers are finite and not empty
(`ServerAssumption`, `WorkerAssumption`), and a program of `synch1.0.1` has a thread
(`SynchAssumption`). Its help bound, and what its uninitialised counter holds, may be anything
for mutual exclusion; its pools have more than two records and its threads call finitely often
(`SynchProgramsAssumption`). The three theorems of `SynchAtomicProofs` have one hypothesis besides,
`CounterBelow`: the uninitialised counter of a combiner starts below the help bound. Where it
does not, `ccsynch.h:98` leaves the combiner's own request unserved, and the theorems are false.

**`LockedServerProofs`, the queue.** `ListShape`, `LengthAccounts`, `HeapAccounts` and
`NoSleeperWithWork` need one another, and none is inductive alone: that `length`
lags by one needs that at most one thread is between append and increment, hence
the mutex; that an appended cell is new needs the account of the heap; that the
broadcast reaches everybody needs that a message beside a sleeper is the only
one. The invariant is

```
IInv == TypeOK /\ MutexOK /\ SleepersOK /\ ListShape /\ LengthAccounts
          /\ HeapAccounts /\ MessagesOK /\ WakeOK /\ DestroyOK
```

with one lemma per action (`PutAllocKeeps`, …) and one step per conjunct in it.
`TailOfList` and `RestOfList` say what removing the head leaves of the list.
`FifoRefinementCorrect` maps each step: `PutAppend` is `Put`, `GetRemove` is `Get`,
`GetReturn` is `Return`, `DestroyFree` is `Discard`, and the rest stutter.

**`CountedServerProofs`.** `CounterCorrect` proves the account of the counter with
cardinalities of the half-done operations. `NotAllAsleepCorrect` rests on
`AsleepOnZero`: all workers sleep only on a counter of 0, or while main is about
to signal. With the account of the counter, nobody being between dequeue and
subtract, a counter of 0 means an empty queue.

**`LockedServerProofs`, the server.** `KeepsQueueRules` is a refinement: every step of the server
is a step of `LockedQueue` or a stutter. What is to be shown is that main destroys
the queue only when it is alone and that nobody calls it afterwards. `Roles` says
where main and the workers may be, and ties the end of main to it; with the
invariant of the queue, which the step lemma carries along, it is inductive
(`ServerInvariant`). Hence all that is proved of the queue holds in the server.

The last part of the module is about connections. `OnePlace` and `ShutdownDrains`
follow a connection from main to the list and to a worker. The invariant adds three parts to that of the server. `Placed`:
an open connection is in one cell of the list (`Cells`) or in the hands of one thread
(`Hands`), a free descriptor in none. `PoisonLast`: on the list no connection is behind a
poison, so that a worker that takes one leaves no connection behind. `PoisonCount`: the poison
on the list, in hands, and taken by workers that left is what main has put; a worker lost to
a failing `fdopen` takes none. So if a worker has left by poison, no connection is on the list,
and when all have left there is one such worker as long as fewer `fdopen` calls failed than
there are workers. With every worker lost nobody is left to serve, and `queue_destroy` frees
the messages of connections that stay open: `OnePlaceCorrect` excludes just that case, and
`OnePlaceBeforeDestroy` covers all that comes before it.

**`FutexServerProofs`, the queue.** The queue of http-server-futex differs from the locked one in
when a getter sleeps. `Place` maps the two places between its unlock and its sleep,
and the sleep, to `get_lock`: for the list it is a thread that wants the mutex. Under
this mapping, with nobody asleep, a step of `FutexQueue` is one of `LockedQueue` or a
stutter, so that the invariant of `LockedQueue`, taken by `INSTANCE`, holds, and with
it the account of the heap and the refinement of `FifoQueue`.
`StrandedWasMissedCorrect` is about the sleepers that the mapping hides, and has an
invariant of its own.

**`FutexServerProofs`, the handler and the server.** `RequestOK` says what a request is like before
its answer: nothing sent, and at `fopen` what `stat` saw. `FirstFault` shows that the order of
the tests gives the status that the line deserves. In the server, every step is one of the
queue, or `SigintInWait`, which the queue alone does not have and which keeps its invariant
all the same (`LeaveWaitKeeps`); `Roles` is that of the locked server with the two places in
`wait`. Seen at the requests alone, the server is the handler (`ServerIsHandler`).

**`MSQueueProofs`.** What a thread of the Michael-Scott list read may be old when it is used.
The invariant is about places in the list (`Pos`): `first` is not ahead of `head`, `last` is
neither behind `first` nor ahead of `tail`, and a `next` that was read and is not null is still
the next. All of that stays true while others run, because the list grows only at its end
and `head` and `tail` only move along it (`Advance`, `KnowledgeStays`); the second reads of
`head` and `tail` are not needed for that, so that `MergedReads` makes no difference. A null `next`
of `first` puts `first`, `last` and `head` at the last node, and the queue is empty at that
moment. `MSFifoCorrect` maps the link to `Put`, the swing of `head` to `Get`, the return to `Return`.

**`LCRQProofs`.** Everything a thread of LCRQ reads only grows: the indices of a ring, the index
of a cell, the list of rings (`Grown`, `Effect`). So what it knows stays true while the others
run (`EnqueuersKnow`, `DequeuersKnow`), and a compare-and-swap that succeeds finds the cell as
it was read. The ten actions that change the rings are reduced to nine kinds of step
(`RingStep`), and most of the invariant is shown for the kinds:

```
LCRQInv == AllTypes /\ RingsOK /\ DistinctOK /\ FinishedOK /\ PlacesOK /\ AbandonedOK
             /\ OrderOK /\ \A t : EnqueuerOK(t) /\ \A t : DequeuerOK(t)
```

* `RingsOK`, `DistinctOK`: only the last ring is open; no index is drawn twice; a value lies
  under an index that was drawn.
* `FinishedOK` is `NothingBehind` made inductive: a dequeuer that saw the ring drained after it
  saw a next ring knows that the ring is closed and every index of it drawn, and that stays.
* `PlacesOK`: a value is with one enqueuer or in one cell; with both only from the link of the
  ring that holds it to the swing of `tail`.
* `AbandonedOK`: when a dequeuer leaves its cell without a value, no enqueue will ever fill it
  for that index. The cell is of a later round, or unsafe; in the second case an enqueuer may
  have seen the unsafe bit and passed the test of `head` before, but then its index is a later
  one, or the cell is no longer what it saw. That is what the order of the reads in `enqueue`
  (cell first, `head` after) is for, and without it a value could be left in a cell for which no
  dequeue comes.
* `OrderOK`: of two puts that do not overlap, the first has the earlier place in the list.

`LCRQIsAQueue` maps the steps. A value is taken when its index and its dequeuer meet: at the
draw of the dequeuer if the cell is filled already, else at the compare-and-swap of the enqueue
that fills it, which by `AbandonedOK` finds a dequeuer waiting. `Oldest` shows that no completed
put is left before it. The put of a value with no dequeuer yet returns at that same
compare-and-swap, or after the swing of `tail` if its ring was linked with it.

**`SynchProofs`.** Nothing in `ccsynch.h`, `dsmsynch.h` or `clh.h` says "locked": a thread is inside
because of what stands in the node it waits on, and others write that node, link behind
it and use it again. Such a lock is a right that is handed on. A node that is neither
`locked` nor `completed` gives the right to the thread that waits on it (`HasLock`, `Chosen`,
`Elected`: inside, or about to be let in), and the invariant of each family says that one
thread at most has the right, and why a step cannot give it twice:

* *CLH lock, and H-Synch on it* (`ClhInv`). Every thread owns one node, its own or that of the
  thread before it, all of them different and none the last. While somebody has the right the
  last node is locked, so that a new thread waits.
* *DSM-Synch* (`DSMInv`). A node in line is linked to nothing or to a node that waits behind it,
  and no two to the same one (`LineOK`), so that the combiner which gives up its role gives it to one
  thread. `ServedOK` is about the node the combiner is at: it is nobody's next any more, and the
  thread it belongs to, once let go, may already be calling again with its other node.
* *CC-Synch, in both versions, and H-Synch* (`CCInv`). A thread takes the last node along and leaves its spare one
  as the last (`NodesOK`). The nodes still to be served form a line that ends there
  (`ChainOK`), and the node the combiner goes to next is locked, not completed, and nobody else's
  to hand on (`Ahead`, `Alone`), although threads it has served meanwhile reuse theirs
  (`CombinerOK`). That `ccstack.h` reads `next` only after it has let the owner of the node go is
  covered: of its two spare nodes the owner leaves that one alone for one more call, and this call
  waits for the combiner.
  H-Synch has such a line in each cluster, and the invariant is stated for all of them: a line
  ends at the last node of its own cluster, and at most one thread per cluster is at its front,
  waiting for the central lock or in it. What the front of one line does to the nodes of its own
  leaves those of the other as they are (`OtherCombiner`).
* *The lock bit of `oyama.h`* (`OyamaInv`) and the two locks of the queues (`TwoLockInv`): the thread
  inside is the one that set it. In `TwoLockQueue` the lock is one step, and what is proved there
  is that no path leaves an end without its lock or enters the other.

Before it was proved, this invariant was checked by TLC for three threads, each of the eleven programs
alone, with a help bound that is reached. It does not rest on what the serial code does, so that
it also holds of the programs that serve the wrong operation.

**`SynchCallProofs` and `SynchAtomicProofs`.** `AtomicObject` says what a program owes its callers; the
proof that it keeps this is split in two. `Effect(t)` describes a step of thread `t` as seen from
outside: nothing, a call, a return with the result the operation had, or a batch of requests
applied one after the other. `EffectIsAtomic` shows once, for all programs, that such a step is
one of `AtomicObject`, `EffectReturns` that it is one `ReturnsItsResult` allows, and `EffectKeepsCalls`
that the calls stay in order (`CallsOK`). A batch is a sequence, and its effect a recursive
function of it; what the proof needs of a batch of any length is shown by looking at the
first place where it could fail. What is left is one lemma per program that each of its steps is
an `Effect`, with an invariant that says where the request and the result of a call are:

* *`lfobject`, `lfstack`, `locksuobject`, `locksstack`* (`LockFreeInv`, `LocksInv`): in locals; what was
  read is still there if the compare-and-swap succeeds, or if the lock was held since.
* *`dsmuobject`, `ccuobject`, `huobject`* (`DSMCallInv`, `CCCallInv`): in the node of the thread, the request until the
  node is completed and the result from then on, although the other nodes are being reused.
  The combiner is at a node that is locked and not completed, of a thread that waits on it
  (`DSMServing`, `CCServing`), so that no request is served twice. This rests on `DSMInv` and `CCInv`.
* *`ccqueue`, `locksqueue`* (`TwoLockCallInv`): the nodes from the first on, linked by `next`, are what was
  enqueued and not taken, and of the two ends one may be a step behind.
* *`oyamauobject`* (`OyamaCallInv`): a request that is not served is on the list everybody inserts into
  or on the one the combiner took, on one of them, once; lists end, which is shown by giving
  every listed request a rank.
* *`sim`, `simstack`* (`SimCallInv`): the current record is the object, and its `applied` bits say whose
  announcements are in it. A thread whose pointer is still the one it read (`Valid`) has the
  object in its own record, then the object with the announced requests applied in some order
  (`BuildOK`), and only such a thread can install its record. A thread that is late may have copied a
  record while its owner wrote it; its swap fails, because the sequence number in the pointer
  went on. A thread that fails twice finds its request applied: who can still win after its
  first failure has seen its toggle (`TriesOK`). Its result is in every record of a set that the
  current record and the copies in the making belong to (`ResultIn`), so that it finds it in
  whatever record it reads last. That its own record and the next one in its ring are not the current one
  is `OwnerOK`; with two records to a pool this would be false.

**Model-checked only.** Liveness (the prover has no fairness reasoning); the `ChainStaysWhole` and
`EmptyIsHonest` of `simqueue.c`, where a batch is linked by three threads; and `SynchTypeOK` of
`simqueue`.

## Not modelled

* Logging, response text and the layout of requests; `createServerSocket` and
  argument parsing, which die on failure. So does `handleFileRequest` when its `malloc`
  fails (`http-server-futex.c:302`): the process ends, and no property looks further.
* Failing `pthread_create`: its result is not looked at, and joining an
  indeterminate identifier is undefined. `NTHREADS` of 0 or less: no worker, and
  nothing to check.
* `learn`: exercises no server uses. The list is written for several threads, but its only
  caller has one; the counter is one compare-and-swap loop.
* Of lcrq-yield only its queue is modelled: `queue_get` polls a `dequeue` that `LCRQ` has. The
  file includes a header that is not in the repository.
* Of `synch1.0.1`: `activeset.c`, a benchmark whose result is thrown away; toggle vectors of
  more than one word (more than 64 threads), where a vector is read word by word;
  back-off, statistics, pinning, and the harness but for its calls.
* Benchmarks, the paper, and the visualization, except where the paper states
  something about the servers.

## Plan

Done, in this order: `FifoQueue`, `LockedQueue` and its proofs, `LockedServer`,
`FutexQueue`, `CountedServer` and its proofs, `MSQueue`, `OverlapQueue`, `LCRQ`,
`synch1.0.1`, `HttpHandler`, `FutexServer`, the proofs of `FutexQueue`, `LockedServer`,
`HttpHandler`, `FutexServer`, `MSQueue` and `LCRQ`, and of `synch1.0.1` mutual exclusion and, for
twelve of its programs, atomicity.

Left: a proof of `ChainStaysWhole` of `simqueue`; toggle vectors of two words in
`PSim`; a server of lcrq-yield, if its missing header turns up.
