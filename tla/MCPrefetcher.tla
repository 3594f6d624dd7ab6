------------------------------ MODULE MCPrefetcher -----------------------------
(***************************************************************************)
(* Small instances of Prefetcher: clients that read forwards, and clients  *)
(* that read backwards from the first frame.                               *)
(***************************************************************************)
EXTENDS Prefetcher

MCThreads == Consumers \cup Jobs

MCStrides == {-1, 1}

\* The frames of the clip, and the numbers before it that are prefetched for
\* clients that read backwards.
MCKeys == -nPrefetchFrames .. num_frames - 1

\* The prefetcher's cache has a fixed size.
MCInitCap == 2 * nPrefetchFrames

MCModes == {"NO_RESIZE"}

MCNoLimits == {}

\* The direction in which the clients of an instance read.
VARIABLE direction

MCInit == PrefetcherInit /\ direction \in MCStrides

MCNext ==
    /\ PrefetcherNext
    /\ \A c \in Consumers :
          /\ direction < 0 => call'[c].n = 0
          /\ (call'[c].pos - call'[c].n) * direction >= 0
    /\ UNCHANGED direction

MCFairSpec == MCInit /\ [][MCNext]_<<allVars, direction>> /\ PrefetcherFairness
===============================================================================
