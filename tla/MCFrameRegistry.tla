--------------------------- MODULE MCFrameRegistry ----------------------------
(***************************************************************************)
(* Small instances of FrameRegistry: all threads with frames of one size,  *)
(* and a single thread with every size of Requests.  Sizes only matter to  *)
(* GetNewFrame, which holds memory_mutex throughout.                       *)
(***************************************************************************)
EXTENDS FrameRegistry

VARIABLE instance

MCInstances ==
    {[users |-> Threads, sizes |-> {Max(Requests)}]}
        \cup {[users |-> {t}, sizes |-> Requests] : t \in Threads}

MCInit == Init /\ instance \in MCInstances

MCNext ==
    /\ \E t \in instance.users : Step(t, instance.sizes)
    /\ UNCHANGED instance

MCSpec == MCInit /\ [][MCNext]_<<vars, instance>>

\* Threads are interchangeable.
MCSymmetry == Permutations(Threads)
===============================================================================
