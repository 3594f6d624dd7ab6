------------------------------ MODULE MCPlayback ------------------------------
(***************************************************************************)
(* Small instances of Edit, PrefetchPattern and LruGrowth: a script is put *)
(* together, or the frames of a clip are requested, or a cache is used.    *)
(* Stride and growth do not depend on the script, nor on each other, so    *)
(* each is looked at while the others stay as they began.                  *)
(***************************************************************************)
EXTENDS PrefetchPattern, Edit, LruGrowth

\* Repeated requests, single steps and jumps in both directions.
MCSteps == {-2, -1, 0, 1, 2}

\* The frames of a clip of three, and a number before the first.
MCNumbers == -1 .. 2

MCSpf == <<2, 1>>

\* A floor of one frame, as SetCacheHints gives a cache that is in use.
MCLimits == {<<1, Unlimited>>}

\* Threads and keys are interchangeable.
MCSymmetry == Permutations(Threads) \cup Permutations(Keys)

PlaybackInit == TrackerInit /\ EditInit /\ GrowthInit

\* The script has ended.
Finished == edits > 0 /\ UNCHANGED <<trackerVars, editVars, growthVars>>

PlaybackNext ==
    \/ EditInit /\ GrowthInit /\ TrackerNext /\ UNCHANGED <<editVars, growthVars>>
    \/ TrackerInit /\ GrowthInit /\ EditNext /\ UNCHANGED <<trackerVars, growthVars>>
    \/ TrackerInit /\ EditInit /\ GrowthNext /\ UNCHANGED <<trackerVars, editVars>>
    \/ Finished

PlaybackSpec == PlaybackInit /\ [][PlaybackNext]_<<trackerVars, editVars, growthVars>>
===============================================================================
