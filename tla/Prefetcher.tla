------------------------------- MODULE Prefetcher ------------------------------
(***************************************************************************)
(* Prefetcher of Prefetcher.cpp: its frame cache (LruCache) and its thread *)
(* pool (in the form that JobQueue promises) at work together.             *)
(*                                                                         *)
(* The threads of the cache are the clients that call GetFrame and the     *)
(* PrefetcherJobParams objects: SchedulePrefetch reserves a cache entry    *)
(* on behalf of a job, and the worker that runs the job fills it.          *)
(*                                                                         *)
(* The stride that SchedulePrefetch follows is read without               *)
(* synchronisation; any of Strides may be seen (PrefetchPattern has the    *)
(* rules for a single client).                                             *)
(***************************************************************************)
EXTENDS Integers, LruCache

CONSTANTS
    Consumers,        \* threads that call GetFrame
    Jobs,             \* bound: PrefetcherJobParams objects in use at once; a job
                      \* also stands for the handle copy ThreadWorker keeps
    Workers,          \* threads of the pool
    nPrefetchFrames,
    num_frames,
    QueueCapacity,    \* 6 per worker in the code
    Strides,
    NoJob

FrameNumbers == 0 .. num_frames - 1

\* A negative stride leads past the first frame; the child's cache clamps such a
\* number, and the prefetcher stores the frame under it.
ASSUME PrefetcherAssumption ==
    /\ Threads = Consumers \cup Jobs
    /\ Consumers \cap Jobs = {}
    /\ IsFiniteSet(Consumers) /\ IsFiniteSet(Jobs) /\ IsFiniteSet(Workers)
    /\ NoJob \notin Jobs
    /\ nPrefetchFrames \in Nat \ {0}
    /\ num_frames \in Nat
    /\ QueueCapacity \in Nat \ {0}
    /\ Strides \subseteq Int \ {0}
    /\ FrameNumbers \subseteq Keys
    /\ \A i \in 1 - nPrefetchFrames .. num_frames + nPrefetchFrames - 2, p \in Strides :
         i + p < num_frames => i + p \in Keys

VARIABLES
    call,             \* where each client is in GetFrame
    queue,            \* the pool's queue
    running,          \* the job of each worker
    open,             \* the pool has not been finished
    running_workers,
    worker_exception_present

poolVars == <<call, queue, running, open, running_workers, worker_exception_present>>
allVars == <<vars, poolVars>>

NoCall == [at |-> "idle", n |-> 0, pos |-> 0, round |-> 1, job |-> NoJob]

Abs(i) == IF i < 0 THEN -i ELSE i

InUse(j) ==
    \/ j \in ToSet(queue)
    \/ \E w \in Workers : running[w] = j
    \/ \E c \in Consumers : call[c].job = j

\* Job objects are interchangeable: of those not in use the pool hands out a fixed one.
Fresh(j) == ~InUse(j) /\ j = CHOOSE i \in Jobs : ~InUse(i)

-------------------------------------------------------------------------------
PrefetcherInit ==
    /\ Init
    /\ call = [c \in Consumers |-> NoCall]
    /\ queue = <<>>
    /\ running = [w \in Workers |-> NoJob]
    /\ open = TRUE
    /\ running_workers = 0
    /\ worker_exception_present = FALSE

At(c, label) == call[c].at = label

Continue(c, label) == call' = [call EXCEPT ![c].at = label]

\* SchedulePrefetch returns pos: to the request after the first call, to the
\* client after the second.
EndRound(c, pos) ==
    call' = [call EXCEPT ![c] = IF @.round = 1 THEN [@ EXCEPT !.at = "get", !.pos = pos]
                                ELSE NoCall]

\* GetFrame(n) by client c; it throws at once when a worker has thrown before.
GetFrame(c, n) ==
    /\ At(c, "idle")
    /\ open
    /\ ~worker_exception_present
    /\ call' = [call EXCEPT ![c] = [NoCall EXCEPT !.at = "check", !.n = n, !.pos = n]]
    /\ UNCHANGED <<vars, queue, running, open, running_workers, worker_exception_present>>

\* The loop condition of SchedulePrefetch.
Check(c) ==
    /\ At(c, "check")
    /\ IF running_workers < nPrefetchFrames /\ Abs(call[c].pos - call[c].n) < nPrefetchFrames
       THEN Continue(c, "lookup")
       ELSE EndRound(c, call[c].pos)
    /\ UNCHANGED <<vars, queue, running, open, running_workers, worker_exception_present>>

\* One turn of its loop: look up the next frame without blocking, and reserve an
\* entry for a job when the frame is not there.
LookupAhead(c, p) ==
    LET m == call[c].pos + p
        Found(label, j) == call' = [call EXCEPT ![c].at = label, ![c].pos = m, ![c].job = j]
    IN  /\ At(c, "lookup")
        /\ \/ /\ m >= num_frames
              /\ EndRound(c, m)
              /\ UNCHANGED vars
           \/ /\ m < num_frames
              /\ \/ /\ m \in DOMAIN lru.entry
                    /\ lru.entry[m].state = "AVAILABLE"
                    /\ LookupReady(c, m)
                    /\ Found("drop", NoJob)
                 \/ /\ LookupNotAvail(c, m)
                    /\ Found("check", NoJob)
                 \/ \E j \in Jobs : /\ Fresh(j)
                                    /\ LookupNotFound(j, m)
                                    /\ Found("count", j)
        /\ UNCHANGED <<queue, running, open, running_workers, worker_exception_present>>

\* The frame that was found is not needed yet.
DropResult(c) ==
    /\ At(c, "drop")
    /\ Consume(c)
    /\ Continue(c, "check")
    /\ UNCHANGED <<queue, running, open, running_workers, worker_exception_present>>

\* Mutant: the job is counted here and once more when it is queued.
CountJobTwice(c) ==
    /\ At(c, "count")
    /\ running_workers' = running_workers + 2
    /\ Continue(c, "push")
    /\ UNCHANGED <<vars, queue, running, open, worker_exception_present>>

\* ++running_workers
CountJob(c) ==
    /\ At(c, "count")
    /\ running_workers' = running_workers + 1
    /\ Continue(c, "push")
    /\ UNCHANGED <<vars, queue, running, open, worker_exception_present>>

\* QueueJob, which waits while the pool's queue is full.
PushJob(c) ==
    /\ At(c, "push")
    /\ Len(queue) < QueueCapacity
    /\ queue' = Append(queue, call[c].job)
    /\ call' = [call EXCEPT ![c].at = "check", ![c].job = NoJob]
    /\ UNCHANGED <<vars, running, open, running_workers, worker_exception_present>>

\* The request itself: a blocking lookup.
GetRequested(c) ==
    /\ At(c, "get")
    /\ LookupReady(c, call[c].n) \/ LookupWait(c, call[c].n) \/ LookupNotFound(c, call[c].n)
    /\ Continue(c, "inside")
    /\ UNCHANGED <<queue, running, open, running_workers, worker_exception_present>>

\* Inside lookup(), child->GetFrame, commit_value() and rollback().
Compute(t) ==
    /\ \/ Recheck(t) \/ Fill(t) \/ commit_value(t) \/ notify_all(t)
       \/ RollbackRemove(t) \/ RollbackPass(t) \/ notify_one(t)
    /\ UNCHANGED poolVars

\* The frame has been obtained; SchedulePrefetch goes on where it stopped.
GotFrame(c) ==
    /\ At(c, "inside")
    /\ Consume(c)
    /\ call' = [call EXCEPT ![c].at = "check", ![c].round = 2]
    /\ UNCHANGED <<queue, running, open, running_workers, worker_exception_present>>

\* child->GetFrame has thrown, and rollback() is done: GetFrame throws.
GetFrameThrows(c) ==
    /\ At(c, "inside")
    /\ pc[c] = "idle"
    /\ call' = [call EXCEPT ![c] = NoCall]
    /\ UNCHANGED <<vars, queue, running, open, running_workers, worker_exception_present>>

\* A worker of the pool takes the oldest job.
StartJob(w) ==
    /\ open
    /\ running[w] = NoJob
    /\ queue # <<>>
    /\ running' = [running EXCEPT ![w] = Head(queue)]
    /\ queue' = Tail(queue)
    /\ UNCHANGED <<vars, call, open, running_workers, worker_exception_present>>

\* Mutant: the cache entry of a job that throws is left as it is.
JobFailedNoRollback(w) ==
    /\ running[w] # NoJob
    /\ pc[running[w]] = "own"
    /\ Goto(running[w], "idle")
    /\ at' = [at EXCEPT ![running[w]] = NoFrame]
    /\ worker_exception_present' = TRUE
    /\ running_workers' = running_workers - 1
    /\ running' = [running EXCEPT ![w] = NoJob]
    /\ UNCHANGED <<mode, lru, result, call, queue, open>>

\* Mutant: the counter is decremented on success only.
JobFailedUncounted(w) ==
    /\ running[w] # NoJob
    /\ pc[running[w]] = "idle"
    /\ worker_exception_present' = TRUE
    /\ running' = [running EXCEPT ![w] = NoJob]
    /\ UNCHANGED <<vars, call, queue, open, running_workers>>

\* ThreadWorker after commit_value().
JobDone(w) ==
    /\ running[w] # NoJob
    /\ Consume(running[w])
    /\ running_workers' = running_workers - 1
    /\ running' = [running EXCEPT ![w] = NoJob]
    /\ UNCHANGED <<call, queue, open, worker_exception_present>>

\* ThreadWorker after rollback().
JobFailed(w) ==
    /\ running[w] # NoJob
    /\ pc[running[w]] = "idle"
    /\ worker_exception_present' = TRUE
    /\ running_workers' = running_workers - 1
    /\ running' = [running EXCEPT ![w] = NoJob]
    /\ UNCHANGED <<vars, call, queue, open>>

\* ~PrefetcherPimpl: the last reference is gone, so no client is inside; Finish()
\* stops the pool.
Destroy ==
    /\ open
    /\ \A c \in Consumers : At(c, "idle")
    /\ open' = FALSE
    /\ UNCHANGED <<vars, call, queue, running, running_workers, worker_exception_present>>

\* Mutant: the jobs that Finish() returns are dropped, as Join() does.
RollbackNoJob ==
    /\ ~open
    /\ \A w \in Workers : running[w] = NoJob
    /\ queue # <<>>
    /\ queue' = Tail(queue)
    /\ UNCHANGED <<vars, call, running, open, running_workers, worker_exception_present>>

\* ~PrefetcherPimpl rolls back a job that Finish() has returned.  Nobody waits
\* for its frame.
RollbackJob ==
    /\ ~open
    /\ \A w \in Workers : running[w] = NoJob
    /\ queue # <<>>
    /\ RollbackRemove(Head(queue))
    /\ queue' = Tail(queue)
    /\ UNCHANGED <<call, running, open, running_workers, worker_exception_present>>

\* The prefetcher is gone.
Destroyed ==
    /\ ~open
    /\ queue = <<>>
    /\ \A w \in Workers : running[w] = NoJob

\* What client c does once it is in GetFrame.
ClientStep(c) ==
    \/ Check(c) \/ DropResult(c) \/ CountJob(c) \/ PushJob(c)
    \/ \E p \in Strides : LookupAhead(c, p)
    \/ GetRequested(c) \/ Compute(c) \/ GotFrame(c) \/ GetFrameThrows(c)

WorkerStep(w) ==
    \/ StartJob(w) \/ JobDone(w) \/ JobFailed(w)
    \/ running[w] # NoJob /\ Compute(running[w])

PrefetcherNext ==
    \/ \E c \in Consumers, n \in FrameNumbers : GetFrame(c, n)
    \/ \E c \in Consumers : ClientStep(c) \/ (SpuriousWakeup(c) /\ UNCHANGED poolVars)
    \/ \E w \in Workers : WorkerStep(w)
    \/ Destroy
    \/ RollbackJob
    \/ Destroyed /\ UNCHANGED allVars

PrefetcherSpec == PrefetcherInit /\ [][PrefetcherNext]_allVars

\* Clients inside GetFrame and the pool's workers keep running, and the child's
\* GetFrame returns or throws.
PrefetcherFairness ==
    /\ \A c \in Consumers : WF_allVars(ClientStep(c))
    /\ \A w \in Workers : WF_allVars(WorkerStep(w))

PrefetcherFairSpec == PrefetcherSpec /\ PrefetcherFairness

-------------------------------------------------------------------------------
(* Properties                                                              *)

CallLabels == {"idle", "check", "lookup", "drop", "count", "push", "get", "inside"}

\* The prefetcher uses its cache as LruCache specifies it: every step of every
\* client and worker is a step of the cache or leaves it alone, with jobs in
\* the place of threads.
UsesLruCache == Spec

\* Until the destructor, running_workers is the number of jobs that were
\* scheduled and have not ended, whichever thread has them: a path that
\* forgets to count stops prefetching for good.
WorkersCounted ==
    open => running_workers = Cardinality({c \in Consumers : At(c, "push")}) + Len(queue)
                                + Cardinality({w \in Workers : running[w] # NoJob})

\* running_workers is tested before and incremented after the lookup, so that
\* clients may overtake each other, by one job each at most.
PrefetchBound == running_workers <= nPrefetchFrames + Cardinality(Consumers) - 1

\* An entry that is being computed has a client or a job that is going to
\* finish it; after the destructor no entry is left unfinished or locked, so
\* that nobody can ever wait for it.
NoOrphanEntry ==
    /\ \A j \in Jobs : pc[j] # "idle" => InUse(j)
    /\ Destroyed => \A k \in DOMAIN lru.entry :
                       lru.entry[k].state = "AVAILABLE" /\ lru.entry[k].locks = 0

\* GetFrame returns or throws.
GetFrameEnds == \A c \in Consumers : ~At(c, "idle") ~> At(c, "idle")
===============================================================================
