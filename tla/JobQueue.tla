-------------------------------- MODULE JobQueue -------------------------------
(***************************************************************************)
(* What a ThreadPool promises its users: jobs start in the order in which  *)
(* they were accepted, each of them once; after the pool has been closed   *)
(* none starts any more, and those that never started are given back when  *)
(* the last running one has ended.                                         *)
(***************************************************************************)
EXTENDS Naturals, Sequences, SequencesExt

CONSTANTS Jobs, Workers, Capacity, NoJob

VARIABLES
    waiting,  \* accepted jobs that have not started, oldest first
    running,  \* the job of each worker, or NoJob
    open,     \* jobs are accepted and started
    returned  \* jobs that were given back

vars == <<waiting, running, open, returned>>

Init ==
    /\ waiting = <<>>
    /\ running = [w \in Workers |-> NoJob]
    /\ open = TRUE
    /\ returned = {}

Submit(j) ==
    /\ open
    /\ Len(waiting) < Capacity
    /\ j \notin ToSet(waiting)
    /\ \A w \in Workers : running[w] # j
    /\ waiting' = Append(waiting, j)
    /\ UNCHANGED <<running, open, returned>>

Start(w) ==
    /\ open
    /\ waiting # <<>>
    /\ running[w] = NoJob
    /\ running' = [running EXCEPT ![w] = Head(waiting)]
    /\ waiting' = Tail(waiting)
    /\ UNCHANGED <<open, returned>>

End(w) ==
    /\ running[w] # NoJob
    /\ running' = [running EXCEPT ![w] = NoJob]
    /\ UNCHANGED <<waiting, open, returned>>

Close ==
    /\ open
    /\ open' = FALSE
    /\ UNCHANGED <<waiting, running, returned>>

GiveBack ==
    /\ ~open
    /\ \A w \in Workers : running[w] = NoJob
    /\ returned' = returned \cup ToSet(waiting)
    /\ waiting' = <<>>
    /\ UNCHANGED <<running, open>>

Next ==
    \/ \E j \in Jobs : Submit(j)
    \/ \E w \in Workers : Start(w) \/ End(w)
    \/ Close
    \/ GiveBack

Spec == Init /\ [][Next]_vars
===============================================================================
