------------------------------ MODULE MCThreadPool -----------------------------
(***************************************************************************)
(* Small instances of ThreadPool: in each of them one of the threads of    *)
(* Absentees stays away from the pool, so that one run covers two clients  *)
(* with one finisher and one client with two.                              *)
(***************************************************************************)
EXTENDS ThreadPool

CONSTANT Absentees

VARIABLE absent

MCInit == Init /\ absent \in Absentees

MCNext == Next /\ pc'[absent] = pc[absent] /\ UNCHANGED absent

MCFairSpec == MCInit /\ [][MCNext]_<<vars, absent>> /\ Fairness
===============================================================================
