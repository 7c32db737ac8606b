---------------------------- MODULE LockedServer ----------------------------
(***************************************************************************)
(* The thread-pool server of http-server.c: the main thread accepts        *)
(* connections and puts their descriptors on the locked queue; the workers *)
(* get and serve them.  SIGINT is meant to end the accept loop; the main   *)
(* thread then puts one poison value per worker, joins the workers and     *)
(* destroys the queue.                                                     *)
(*                                                                         *)
(* A descriptor that was closed may be returned by accept again.  Serving  *)
(* a connection is one step, from the read of the request to fclose; a     *)
(* silent client never sends the request, so that its worker stays in      *)
(* fgets.                                                                  *)
(***************************************************************************)
EXTENDS LockedQueue

CONSTANTS
  Main,            \* the main thread
  Worker,          \* the thread pool
  Conn,            \* the descriptors accept can return
  POISON,          \* QUEUE_POISON
  Silent,          \* the descriptors whose client never sends a request
  MaxSignals,      \* bound on the number of SIGINTs
  MaxFdopenFailure \* bound on the failures of fdopen for want of memory

ASSUME ServerAssumption ==
  /\ IsFiniteSet(Worker) /\ Worker # {}
  /\ Main \notin Worker /\ Thread = Worker \cup {Main}
  /\ POISON \notin Conn /\ Value = Conn \cup {POISON}
  /\ Silent \subseteq Conn
  /\ MaxSignals \in Nat /\ MaxFdopenFailure \in Nat

VARIABLES
  mpc,          \* the place in main: which loop it is in
  poisoned,     \* the i of the poison loop
  worker,       \* per worker: in threadMain, or gone by pthread_exit
  fd,           \* per descriptor: free, accepted, open (a worker has it), leaked
  flag_term,    \* set by cleanup_handler
  signals,      \* SIGINTs so far
  failures      \* fdopen failures so far

serverVars == <<mpc, poisoned, worker, fd, flag_term, signals, failures>>
allVars == <<vars, serverVars>>

(* Except for the queue, which differs in FutexServer. *)
ServerDataTypeOK ==
  /\ mpc \in {"accept", "poison", "join", "destroy"}
  /\ poisoned \in 0..Cardinality(Worker)
  /\ worker \in [Worker -> {"running", "dead"}]
  /\ fd \in [Conn -> {"free", "accepted", "open", "leaked"}]
  /\ flag_term \in BOOLEAN
  /\ signals \in 0..MaxSignals
  /\ failures \in 0..MaxFdopenFailure

ServerTypeOK == TypeOK /\ ServerDataTypeOK

ServerInit ==
  /\ Init
  /\ mpc = "accept"
  /\ poisoned = 0
  /\ worker = [w \in Worker |-> "running"]
  /\ fd = [c \in Conn |-> "free"]
  /\ flag_term = FALSE
  /\ signals = 0 /\ failures = 0

Dead(w) == worker[w] = "dead"
SetFd(c, state) == fd' = [fd EXCEPT ![c] = state]

-----------------------------------------------------------------------------
(* mainLoop *)

(* accept returned a connection: queue_put is called on it *)
Accept(c) ==
  /\ mpc = "accept"
  /\ fd[c] = "free"
  /\ SetFd(c, "accepted")
  /\ PutAlloc(Main, c)
  /\ UNCHANGED <<mpc, poisoned, worker, flag_term, signals, failures>>

(* accept() failed, or calloc did: die *)
AcceptFails ==
  /\ mpc = "accept"
  /\ PutOutOfMemory(Main)
  /\ UNCHANGED serverVars

(* the handler ran, and its effect on the flag *)
CleanupHandler ==
  /\ ~exited
  /\ signals < MaxSignals
  /\ signals' = signals + 1
  /\ flag_term' = TRUE

(* SIGINT arrives while main sleeps in accept, which returns EINTR *)
SigintInAccept ==
  /\ mpc = "accept" /\ At(Main, "idle")
  /\ CleanupHandler
  /\ mpc' = "poison"
  /\ UNCHANGED <<vars, poisoned, worker, fd, failures>>

(* SIGINT arrives while main is outside accept, or when a connection is there
   already, or at a worker that is not in a system call it interrupts *)
SigintElsewhere ==
  /\ CleanupHandler
  /\ UNCHANGED <<vars, mpc, poisoned, worker, fd, failures>>

-----------------------------------------------------------------------------
(* The end of main *)

(* mutants: the loop stops one too early, or one too late *)
TooFew == Cardinality(Worker) - 1
TooMany == Cardinality(Worker) + 1

(* nthreads, the bound of the poison loop *)
Poisons == Cardinality(Worker)

PutPoison ==
  /\ mpc = "poison"
  /\ poisoned < Poisons
  /\ poisoned' = poisoned + 1
  /\ PutAlloc(Main, POISON)
  /\ UNCHANGED <<mpc, worker, fd, flag_term, signals, failures>>

EndOfPoison ==
  /\ mpc = "poison" /\ At(Main, "idle")
  /\ poisoned = Poisons
  /\ mpc' = "join"
  /\ UNCHANGED <<vars, poisoned, worker, fd, flag_term, signals, failures>>

(* mutant: pthread_join is not called *)
NoJoin == TRUE

Joined == \A w \in Worker : Dead(w)

(* pthread_join of every worker, then queue_destroy *)
Join ==
  /\ mpc = "join"
  /\ Joined
  /\ mpc' = "destroy"
  /\ DestroyCall(Main)
  /\ UNCHANGED <<poisoned, worker, fd, flag_term, signals, failures>>

(* return 0 from main *)
ReturnFromMain ==
  /\ mpc = "destroy" /\ At(Main, "destroyed")
  /\ Exit
  /\ UNCHANGED serverVars

-----------------------------------------------------------------------------
(* threadMain and handleConnection *)

WorkerGet(w) ==
  /\ ~Dead(w)
  /\ GetCall(w)
  /\ UNCHANGED serverVars

(* fdopen succeeded and getpeername did *)
Open(w) ==
  /\ At(w, "got") /\ sock[w] # POISON /\ fd[sock[w]] = "accepted"
  /\ SetFd(sock[w], "open")
  /\ UNCHANGED <<vars, mpc, poisoned, worker, flag_term, signals, failures>>

(* getpeername failed because the client is gone: die *)
PeerGone(w) ==
  /\ At(w, "got") /\ sock[w] # POISON /\ fd[sock[w]] = "accepted"
  /\ Exit
  /\ UNCHANGED serverVars

(* fdopen of the poison value fails: pthread_exit *)
Poisoned(w) ==
  /\ sock[w] = POISON
  /\ GetReturn(w)
  /\ worker' = [worker EXCEPT ![w] = "dead"]
  /\ UNCHANGED <<mpc, poisoned, fd, flag_term, signals, failures>>

(* fdopen of a connection failed: pthread_exit, and nobody closes it *)
FdopenFails(w) ==
  /\ At(w, "got") /\ sock[w] # POISON /\ fd[sock[w]] = "accepted"
  /\ failures < MaxFdopenFailure
  /\ failures' = failures + 1
  /\ SetFd(sock[w], "leaked")
  /\ worker' = [worker EXCEPT ![w] = "dead"]
  /\ GetReturn(w)
  /\ UNCHANGED <<mpc, poisoned, flag_term, signals>>

(* mutant: the connection is not closed *)
NoClose(w) ==
  /\ At(w, "got") /\ sock[w] # POISON /\ fd[sock[w]] = "open"
  /\ sock[w] \notin Silent
  /\ GetReturn(w)
  /\ UNCHANGED serverVars

(* the request is read, answered or refused, and the connection closed *)
Serve(w) ==
  /\ At(w, "got") /\ sock[w] # POISON /\ fd[sock[w]] = "open"
  /\ sock[w] \notin Silent
  /\ SetFd(sock[w], "free")
  /\ GetReturn(w)
  /\ UNCHANGED <<mpc, poisoned, worker, flag_term, signals, failures>>

(* SIGINT interrupts the fgets of a worker: the connection is closed with
   status 400, its request unread *)
SigintInRead(w) ==
  /\ At(w, "got") /\ sock[w] # POISON /\ fd[sock[w]] = "open"
  /\ CleanupHandler
  /\ SetFd(sock[w], "free")
  /\ GetReturn(w)
  /\ UNCHANGED <<mpc, poisoned, worker, failures>>

-----------------------------------------------------------------------------
MainStep ==
  \/ PutPoison \/ EndOfPoison \/ Join \/ ReturnFromMain
  \/ Inside(Main) /\ UNCHANGED serverVars

WorkerStep(w) ==
  \/ WorkerGet(w) \/ Open(w) \/ Poisoned(w) \/ Serve(w)
  \/ Inside(w) /\ UNCHANGED serverVars

Environment ==
  \/ \E c \in Conn : Accept(c)
  \/ AcceptFails
  \/ SigintInAccept
  \/ SigintElsewhere
  \/ \E w \in Worker : PeerGone(w) \/ FdopenFails(w) \/ SigintInRead(w)
  \/ \E t \in Thread : SpuriousWakeup(t) /\ UNCHANGED serverVars

ServerNext ==
  \/ MainStep
  \/ \E w \in Worker : WorkerStep(w)
  \/ Environment

ServerSpec == ServerInit /\ [][ServerNext]_allVars

(* Every thread runs; clients, signals and failures come as they like. *)
FairServerSpec ==
  /\ ServerSpec
  /\ WF_allVars(MainStep)
  /\ \A w \in Worker : WF_allVars(WorkerStep(w))

(* ... and clients keep connecting. *)
BusyServerSpec == FairServerSpec /\ WF_allVars(\E c \in Conn : Accept(c))

-----------------------------------------------------------------------------
(* Properties *)

(* The server keeps the rules of the queue: nobody calls queue_get while or
   after main destroys the queue, and main destroys it only when every worker
   has left it (the poison loop and the joins of main are there for that). *)
KeepsQueueRules == Spec

(* A descriptor is in one place: on the list once, or in the hands of one
   thread, or free, or leaked; so no connection is served twice, served after
   its fclose, or lost, although accept reuses closed descriptors. *)
InQueue(c) == {i \in 1..Len(order) : val[order[i]] = c}
InPut(c) == {t \in Thread : pc[t] \in {"put_lock", "put_append"} /\ val[msg[t]] = c}
InHand(c) == {t \in Thread : Taken(t) = c}
OnePlace ==
  \A c \in Conn :
    Cardinality(InQueue(c)) + Cardinality(InPut(c)) + Cardinality(InHand(c))
      = IF fd[c] \in {"accepted", "open"} THEN 1 ELSE 0

(* When the joins are over, every accepted connection has been served and the
   list is empty: poison is put after the last connection, the queue is FIFO,
   and a worker takes one poison and nothing after it ("Poison the queue to
   stop worker threads", http-server.c:582).  Only a failed fdopen, which
   kills a worker early, may leave something behind. *)
ShutdownDrains ==
  mpc = "destroy" /\ failures = 0 =>
    order = <<>> /\ \A c \in Conn : fd[c] = "free"

(* An accepted connection is eventually taken up by a worker, as long as fewer
   workers are lost to silent clients and failed fdopens than there are; or
   the process exits. *)
AcceptedIsHandled ==
  \A c \in Conn :
    fd[c] = "accepted" ~> \/ fd[c] # "accepted" \/ exited
                         \/ Cardinality(Silent) + failures >= Cardinality(Worker)

(* Once the accept loop is left, the process ends, unless a worker is stuck
   with a silent client: nothing else can keep pthread_join waiting. *)
ShutdownEnds ==
  mpc = "poison" ~> exited \/ \E w \in Worker : pc[w] = "got" /\ sock[w] \in Silent

(* What the comment at http-server.c:515 expects of SIGINT: the server leaves
   the accept loop. *)
SigintEndsAccept == flag_term ~> mpc # "accept" \/ exited
=============================================================================
