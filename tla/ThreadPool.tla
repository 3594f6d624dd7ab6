------------------------------- MODULE ThreadPool ------------------------------
(***************************************************************************)
(* ThreadPool of ThreadPool.cpp with its message queue, the                *)
(* mpmc_bounded_queue over a circular_buffer, and JobCompletion.           *)
(*                                                                         *)
(* A critical section under m_mutex is one action.  notify_one runs after  *)
(* the mutex has been released and is an action of its own.  Finish() and  *)
(* the end of a worker synchronise on the pool's Mutex.  A thread that has *)
(* been woken tests the same conditions as one that arrives.               *)
(*                                                                         *)
(* A job stands for the Func and Params of a queue item; it can be queued  *)
(* again once it is neither queued nor running.                            *)
(***************************************************************************)
EXTENDS Naturals, Sequences, FiniteSets, SequencesExt

CONSTANTS
    Clients,         \* threads that call QueueJob, each with a JobCompletion
    Workers,         \* the pool's threads
    Finishers,       \* threads that call Finish() or Join()
    Jobs,
    ItemsPerThread,  \* 6 in the code
    max_jobs,        \* capacity of each JobCompletion
    NoJob,
    NoClient         \* the NULL completion

ASSUME PoolAssumption ==
    /\ IsFiniteSet(Clients) /\ IsFiniteSet(Workers) /\ Workers # {}
    /\ ItemsPerThread \in Nat \ {0}
    /\ max_jobs \in Nat
    /\ NoJob \notin Jobs
    /\ NoClient \notin Clients
    /\ Clients \cap Workers = {}
    /\ Clients \cap Finishers = {}
    /\ Workers \cap Finishers = {}

VARIABLES
    ring,        \* the circular_buffer
    finished,    \* mpmc_bounded_queue::finished
    NumRunning,  \* workers that have not left ThreadFunc
    pc,          \* where each thread is
    job,         \* the job that each client pushes or each worker runs
    promise,     \* the client whose completion each queue item belongs to
    completion,  \* per client: promises given out and promises set
    returned     \* what Finish() has given back

vars == <<ring, finished, NumRunning, pc, job, promise, completion, returned>>

Capacity == Cardinality(Workers) * ItemsPerThread

Threads == Clients \cup Workers \cup Finishers

Slots == 0 .. Capacity - 1

-------------------------------------------------------------------------------
(* circular_buffer                                                         *)

Empty(r) == r.size = 0
Full(r)  == r.size = Capacity

PushFront(r, j) ==
    [r EXCEPT !.array[r.head] = j,
              !.head = (r.head + 1) % Capacity,
              !.size = @ + 1]

\* The item that pop_back takes, and the buffer without it.  A slot that was
\* moved from is not read again; it is cleared here.
Oldest(r) == r.array[r.tail]

PopBack(r) ==
    [r EXCEPT !.array[r.tail] = NoJob,
              !.tail = (r.tail + 1) % Capacity,
              !.size = @ - 1]

\* The items of the buffer, oldest first.
Items(r) == [i \in 1 .. r.size |-> r.array[(r.tail + i - 1) % Capacity]]

-------------------------------------------------------------------------------
Init ==
    /\ ring = [array |-> [i \in Slots |-> NoJob], head |-> 0, tail |-> 0, size |-> 0]
    /\ finished = FALSE
    /\ NumRunning = Cardinality(Workers)
    /\ pc = [t \in Threads |-> IF t \in Workers THEN "pop" ELSE "idle"]
    /\ job = [t \in Clients \cup Workers |-> NoJob]
    /\ promise = [j \in Jobs |-> NoClient]
    /\ completion = [c \in Clients |-> [nJobs |-> 0, ready |-> 0]]
    /\ returned = {}

Goto(t, label) == pc' = [pc EXCEPT ![t] = label]

Queued == ToSet(Items(ring))

Fresh(j) == j \notin Queued /\ \A t \in Clients \cup Workers : job[t] # j

At(S, label) == {t \in S : pc[t] = label}

\* condition_variable::notify_one, called by t, who goes on to label: one of
\* the sleepers wakes up and goes to its test, if there is one.
NotifyOne(t, label, sleepers, test) ==
    \/ \E u \in sleepers : pc' = [pc EXCEPT ![t] = label, ![u] = test]
    \/ sleepers = {} /\ Goto(t, label)

\* QueueJob up to push_front, with or without a completion object.  Add()
\* throws when the completion object is full.
QueueJob(c, j, tc) ==
    /\ pc[c] = "idle"
    /\ Fresh(j)
    /\ tc \in {c, NoClient}
    /\ tc = c => completion[c].nJobs < max_jobs
    /\ promise' = [promise EXCEPT ![j] = tc]
    /\ completion' = IF tc = c THEN [completion EXCEPT ![c].nJobs = @ + 1]
                     ELSE completion
    /\ job' = [job EXCEPT ![c] = j]
    /\ Goto(c, "push")
    /\ UNCHANGED <<ring, finished, NumRunning, returned>>

\* Mutant: a woken producer does not look at finished again.
PushUnchecked(c) ==
    /\ pc[c] = "push"
    /\ \/ /\ Full(ring)
          /\ Goto(c, "push_wait")
          /\ UNCHANGED <<ring, job>>
       \/ /\ ~Full(ring)
          /\ ring' = PushFront(ring, job[c])
          /\ job' = [job EXCEPT ![c] = NoJob]
          /\ Goto(c, "push_notify")
    /\ UNCHANGED <<finished, NumRunning, promise, completion, returned>>

\* push_front: give up when the queue is finished, in which case QueueJob
\* throws; wait while it is full.
Push(c) ==
    /\ pc[c] = "push"
    /\ \/ /\ finished
          /\ job' = [job EXCEPT ![c] = NoJob]
          /\ Goto(c, "idle")
          /\ promise' = [promise EXCEPT ![job[c]] = NoClient]
          /\ UNCHANGED ring
       \/ /\ ~finished /\ Full(ring)
          /\ Goto(c, "push_wait")
          /\ UNCHANGED <<ring, job, promise>>
       \/ /\ ~finished /\ ~Full(ring)
          /\ ring' = PushFront(ring, job[c])
          /\ job' = [job EXCEPT ![c] = NoJob]
          /\ Goto(c, "push_notify")
          /\ UNCHANGED promise
    /\ UNCHANGED <<finished, NumRunning, completion, returned>>

\* Mutant: the notification is skipped.
NotifyNoWorker(c) ==
    /\ pc[c] = "push_notify"
    /\ Goto(c, "idle")
    /\ UNCHANGED <<ring, finished, NumRunning, job, promise, completion, returned>>

NotifyNotEmpty(c) ==
    /\ pc[c] = "push_notify"
    /\ NotifyOne(c, "idle", At(Workers, "pop_wait"), "pop")
    /\ UNCHANGED <<ring, finished, NumRunning, job, promise, completion, returned>>

\* pop_back by ThreadFunc.
Pop(w) ==
    /\ pc[w] = "pop"
    /\ \/ /\ finished
          /\ Goto(w, "exit")
          /\ UNCHANGED <<ring, job>>
       \/ /\ ~finished /\ Empty(ring)
          /\ Goto(w, "pop_wait")
          /\ UNCHANGED <<ring, job>>
       \/ /\ ~finished /\ ~Empty(ring)
          /\ job' = [job EXCEPT ![w] = Oldest(ring)]
          /\ ring' = PopBack(ring)
          /\ Goto(w, "pop_notify")
    /\ UNCHANGED <<finished, NumRunning, promise, completion, returned>>

\* Mutant: producers are not told that there is room.
NotifyNoProducer(w) ==
    /\ pc[w] = "pop_notify"
    /\ Goto(w, "run")
    /\ UNCHANGED <<ring, finished, NumRunning, job, promise, completion, returned>>

NotifyNotFull(w) ==
    /\ pc[w] = "pop_notify"
    /\ NotifyOne(w, "run", At(Clients, "push_wait"), "push")
    /\ UNCHANGED <<ring, finished, NumRunning, job, promise, completion, returned>>

\* Mutant: the promise stays unset when the job throws.
RunQuietly(w) ==
    /\ pc[w] = "run"
    /\ promise' = [promise EXCEPT ![job[w]] = NoClient]
    /\ job' = [job EXCEPT ![w] = NoJob]
    /\ Goto(w, "pop")
    /\ UNCHANGED <<ring, finished, NumRunning, completion, returned>>

\* The job returns or throws; its promise gets the value or the exception.
Run(w) ==
    LET c == promise[job[w]]
    IN  /\ pc[w] = "run"
        /\ completion' = IF c = NoClient THEN completion
                         ELSE [completion EXCEPT ![c].ready = @ + 1]
        /\ promise' = [promise EXCEPT ![job[w]] = NoClient]
        /\ job' = [job EXCEPT ![w] = NoJob]
        /\ Goto(w, "pop")
        /\ UNCHANGED <<ring, finished, NumRunning, returned>>

\* A cancelled worker leaves ThreadFunc; the last one notifies Finish().
Exit(w) ==
    /\ pc[w] = "exit"
    /\ NumRunning' = NumRunning - 1
    /\ pc' = [t \in Threads |->
                IF t = w THEN "gone"
                ELSE IF NumRunning = 1 /\ pc[t] = "finish_wait" THEN "finish_woken"
                ELSE pc[t]]
    /\ UNCHANGED <<ring, finished, job, promise, completion, returned>>

\* Mutant: sleeping producers are forgotten.
FinishWorkersOnly(f) ==
    /\ pc[f] = "idle"
    /\ NumRunning > 0
    /\ finished' = TRUE
    /\ pc' = [t \in Threads |->
                CASE t = f -> "finish_wait"
                  [] pc[t] = "pop_wait" /\ ~finished -> "pop"
                  [] OTHER -> pc[t]]
    /\ UNCHANGED <<ring, NumRunning, job, promise, completion, returned>>

\* Finish() with running workers: mark the queue as finished, wake everyone
\* who sleeps on it, and wait for the workers.
Finish(f) ==
    /\ pc[f] = "idle"
    /\ NumRunning > 0
    /\ finished' = TRUE
    /\ pc' = [t \in Threads |->
                CASE t = f -> "finish_wait"
                  [] pc[t] = "pop_wait" /\ ~finished -> "pop"
                  [] pc[t] = "push_wait" /\ ~finished -> "push"
                  [] OTHER -> pc[t]]
    /\ UNCHANGED <<ring, NumRunning, job, promise, completion, returned>>

\* The workers are gone: Finish() takes what they left, with pop_remain.
\* Whoever comes second finds the queue empty.
FinishDrain(f) ==
    /\ pc[f] = "finish_woken"
    /\ NumRunning = 0
    /\ returned' = returned \cup Queued
    /\ ring' = [ring EXCEPT !.array = [i \in Slots |-> NoJob],
                            !.tail = (ring.tail + ring.size) % Capacity,
                            !.size = 0]
    /\ promise' = [j \in Jobs |-> IF j \in Queued THEN NoClient ELSE promise[j]]
    /\ Goto(f, "idle")
    /\ UNCHANGED <<finished, NumRunning, job, completion>>

\* JobCompletion::Wait(), entered by the client between two jobs.
Wait(c) ==
    /\ pc[c] = "idle"
    /\ completion[c].nJobs > 0
    /\ Goto(c, "waiting")
    /\ UNCHANGED <<ring, finished, NumRunning, job, promise, completion, returned>>

\* All futures are ready; the client resets the completion object.
Reset(c) ==
    /\ pc[c] = "waiting"
    /\ completion[c].ready = completion[c].nJobs
    /\ completion' = [completion EXCEPT ![c] = [nJobs |-> 0, ready |-> 0]]
    /\ Goto(c, "idle")
    /\ UNCHANGED <<ring, finished, NumRunning, job, promise, returned>>

SpuriousWakeup(t) ==
    /\ \/ pc[t] = "pop_wait" /\ Goto(t, "pop")
       \/ pc[t] = "push_wait" /\ Goto(t, "push")
    /\ UNCHANGED <<ring, finished, NumRunning, job, promise, completion, returned>>

\* Nothing runs any more and every client that is not done waits for a promise
\* that was given out and will not be set: its job was refused or is among those
\* returned.
Abandoned ==
    /\ NumRunning = 0
    /\ \A f \in Finishers : pc[f] = "idle"
    /\ \A c \in Clients :
          pc[c] # "idle" => pc[c] = "waiting" /\ completion[c].ready < completion[c].nJobs
    /\ UNCHANGED vars

WorkerStep(w) == Pop(w) \/ NotifyNotFull(w) \/ Run(w) \/ Exit(w)

ClientStep(c) == Push(c) \/ NotifyNotEmpty(c) \/ Reset(c)

Next ==
    \/ \E w \in Workers : WorkerStep(w)
    \/ \E c \in Clients : ClientStep(c) \/ Wait(c)
    \/ \E c \in Clients, j \in Jobs, tc \in Clients \cup {NoClient} : QueueJob(c, j, tc)
    \/ \E f \in Finishers : Finish(f) \/ FinishDrain(f)
    \/ \E t \in Clients \cup Workers : SpuriousWakeup(t)
    \/ Abandoned

Spec == Init /\ [][Next]_vars

\* Threads inside the pool keep running, and every job returns or throws.
Fairness ==
    /\ \A w \in Workers : WF_vars(WorkerStep(w))
    /\ \A c \in Clients : WF_vars(ClientStep(c))
    /\ \A f \in Finishers : WF_vars(FinishDrain(f))

FairSpec == Spec /\ Fairness

-------------------------------------------------------------------------------
(* Properties                                                              *)

ClientLabels   == {"idle", "push", "push_wait", "push_notify", "waiting"}
WorkerLabels   == {"pop", "pop_wait", "pop_notify", "run", "exit", "gone"}
FinisherLabels == {"idle", "finish_wait", "finish_woken"}

\* The shape of the state; a worker has a job exactly while it is about to run
\* it, a client exactly while it pushes it.
TypeOK ==
    /\ ring \in [array : [Slots -> Jobs \cup {NoJob}], head : Slots, tail : Slots,
                 size : 0 .. Capacity]
    /\ finished \in BOOLEAN
    /\ NumRunning \in Nat
    /\ pc \in [Threads -> ClientLabels \cup WorkerLabels \cup FinisherLabels]
    /\ \A c \in Clients : pc[c] \in ClientLabels
    /\ \A w \in Workers : pc[w] \in WorkerLabels
    /\ \A f \in Finishers : pc[f] \in FinisherLabels
    /\ job \in [Clients \cup Workers -> Jobs \cup {NoJob}]
    /\ \A w \in Workers : job[w] # NoJob <=> pc[w] \in {"pop_notify", "run"}
    /\ \A c \in Clients : job[c] # NoJob <=> pc[c] \in {"push", "push_wait"}
    /\ promise \in [Jobs -> Clients \cup {NoClient}]
    /\ completion \in [Clients -> [nJobs : 0 .. max_jobs, ready : 0 .. max_jobs]]
    /\ returned \subseteq Jobs

\* The ring, its two condition variables and the shutdown protocol implement a
\* FIFO queue that loses no job, starts none twice and none after Finish().
JobQueueSpec ==
    INSTANCE JobQueue WITH waiting <- Items(ring),
                           running <- [w \in Workers |-> job[w]],
                           open <- ~finished

\* Every behaviour of the pool is one of JobQueue.
ImplementsJobQueue == JobQueueSpec!Spec

\* No wake-up is lost.  No worker sleeps while there is work that nobody is on
\* the way to: each item of the queue is matched by a worker about to pop or by
\* a notification that is still to be sent.  In the same way, no client sleeps
\* in QueueJob while there is room that nobody is about to use or to announce.
\* notify_one after unlock, without a test of whether anyone waits, is enough.
NoLostWakeup ==
    /\ At(Workers, "pop_wait") # {}
          => ring.size <= Cardinality(At(Workers, "pop"))
                            + Cardinality(At(Clients, "push_notify"))
    /\ At(Clients, "push_wait") # {}
          => Capacity - ring.size <= Cardinality(At(Clients, "push"))
                                       + Cardinality(At(Workers, "pop_notify"))

\* Until Finish(), the promises a completion object still waits for are those
\* of its jobs that are being queued, queued or running.
CompletionAccounting ==
    /\ TypeOK
    /\ ~finished => \A c \in Clients :
          completion[c].nJobs - completion[c].ready
              = Cardinality({j \in Jobs : promise[j] = c})

\* A queued job is started or given back.
JobServed == \A j \in Jobs : (j \in Queued) ~> (j \notin Queued)

\* Whoever waits for the pool is released.  Wait() returns once its jobs have
\* run, unless the pool is finished first; Finish() returns, and by then no
\* worker is left and no client sleeps in QueueJob.
WaitersReturn ==
    /\ \A c \in Clients : (pc[c] = "waiting") ~> (pc[c] # "waiting" \/ finished)
    /\ \A f \in Finishers :
          (pc[f] = "finish_wait") ~> /\ pc[f] = "idle"
                                     /\ \A w \in Workers : pc[w] = "gone"
                                     /\ At(Clients, "push_wait") = {}
===============================================================================
