---------------------------- MODULE PrefetchPattern ----------------------------
(***************************************************************************)
(* How Prefetcher::GetFrame learns the stride in which frames are asked    *)
(* for, which SchedulePrefetch then follows.  One thread calls GetFrame.   *)
(*                                                                         *)
(* The two counters are compared with PATTERN_LOCK_LENGTH only, so they    *)
(* saturate there.                                                         *)
(***************************************************************************)
EXTENDS Integers, Sequences, SequencesExt

CONSTANTS
    PATTERN_LOCK_LENGTH,  \* 3 in the code
    clip_frames,          \* num_frames of the clip
    Steps,                \* differences between successive requests
    MaxRun                \* bound: length of the history

ASSUME PatternAssumption ==
    /\ PATTERN_LOCK_LENGTH \in Nat \ {0}
    /\ clip_frames \in Nat \ {0}
    /\ Steps \subseteq Int
    /\ MaxRun \in Nat /\ MaxRun >= PATTERN_LOCK_LENGTH

VARIABLES
    LockedPattern, PatternHits, PatternMisses, Pattern, IsLocked,
    LastRequestedFrame,
    history  \* the patterns of the last MaxRun requests, the latest first

tracker == <<LockedPattern, PatternHits, PatternMisses, Pattern, IsLocked>>
trackerVars == <<tracker, LastRequestedFrame, history>>

TrackerInit ==
    /\ LockedPattern = 1
    /\ PatternHits = 0
    /\ PatternMisses = 0
    /\ Pattern = 1
    /\ IsLocked = FALSE
    /\ LastRequestedFrame = 0
    /\ history = <<>>

Count(n) == IF n < PATTERN_LOCK_LENGTH THEN n + 1 ELSE n

\* A repeated request counts as a step forward.
PatternOf(n) ==
    IF n = LastRequestedFrame THEN 1 ELSE n - LastRequestedFrame

\* Mutant: misses are not reset by a request that follows the locked pattern.
TrackLockedKeepsMisses(p) ==
    LET hits == IF LockedPattern # p /\ Pattern = p THEN Count(PatternHits) ELSE 0
        misses == IF LockedPattern = p THEN PatternMisses ELSE Count(PatternMisses)
        lost == misses >= PATTERN_LOCK_LENGTH
        found == lost /\ hits >= PATTERN_LOCK_LENGTH
    IN  /\ Pattern' = p
        /\ LockedPattern' = IF found THEN p ELSE LockedPattern
        /\ PatternHits' = IF found THEN 0 ELSE hits
        /\ PatternMisses' = IF found THEN 0 ELSE misses
        /\ IsLocked' = (~lost \/ found)

\* GetFrame with a locked pattern: lose it, or exchange it for the one that has
\* repeated itself meanwhile.
TrackLocked(p) ==
    LET hits == IF LockedPattern # p /\ Pattern = p THEN Count(PatternHits) ELSE 0
        misses == IF LockedPattern = p THEN 0 ELSE Count(PatternMisses)
        lost == misses >= PATTERN_LOCK_LENGTH
        found == lost /\ hits >= PATTERN_LOCK_LENGTH
    IN  /\ Pattern' = p
        /\ LockedPattern' = IF found THEN p ELSE LockedPattern
        /\ PatternHits' = IF found THEN 0 ELSE hits
        /\ PatternMisses' = IF found THEN 0 ELSE misses
        /\ IsLocked' = (~lost \/ found)

\* GetFrame without a locked pattern.  Pattern itself is not updated: it is the
\* one that was asked for last while a pattern was locked, or 1 at first.
TrackUnlocked(p) ==
    LET hits == IF Pattern = p THEN Count(PatternHits) ELSE 0
        found == hits >= PATTERN_LOCK_LENGTH
    IN  /\ PatternHits' = hits
        /\ PatternMisses' = IF Pattern = p \/ found THEN 0 ELSE Count(PatternMisses)
        /\ LockedPattern' = IF found THEN p ELSE LockedPattern
        /\ IsLocked' = found
        /\ UNCHANGED Pattern

Remember(p) ==
    <<p>> \o (IF Len(history) < MaxRun THEN history ELSE Front(history))

\* Mutant: a repeated request gives the pattern zero.
TrackPatternZero(n) ==
    LET p == n - LastRequestedFrame
    IN  /\ LastRequestedFrame' = n
        /\ IF IsLocked THEN TrackLocked(p) ELSE TrackUnlocked(p)
        /\ history' = Remember(p)

\* GetFrame: the request for frame n.
TrackPattern(n) ==
    LET p == PatternOf(n)
    IN  /\ LastRequestedFrame' = n
        /\ IF IsLocked THEN TrackLocked(p) ELSE TrackUnlocked(p)
        /\ history' = Remember(p)

TrackerNext ==
    \E s \in Steps : LastRequestedFrame + s \in 0 .. clip_frames - 1
                       /\ TrackPattern(LastRequestedFrame + s)

TrackerSpec == TrackerInit /\ [][TrackerNext]_trackerVars

-------------------------------------------------------------------------------
(* Properties                                                              *)

Patterns == (1 - clip_frames .. clip_frames - 1) \cup {1}

\* The shape of the state.  No pattern is zero: SchedulePrefetch advances by the
\* locked pattern and would never leave its loop.
TrackerTypeOK ==
    /\ LockedPattern \in Patterns \ {0}
    /\ Pattern \in Patterns \ {0}
    /\ PatternHits \in 0 .. PATTERN_LOCK_LENGTH
    /\ PatternMisses \in 0 .. PATTERN_LOCK_LENGTH
    /\ IsLocked \in BOOLEAN
    /\ LastRequestedFrame \in 0 .. clip_frames - 1

\* A pattern becomes locked only when the latest PATTERN_LOCK_LENGTH requests
\* all followed it, and is given up only when they all departed from it,
\* whatever the counters went through before.
LockFollowsRequests ==
    [][/\ IsLocked' /\ (~IsLocked \/ LockedPattern' # LockedPattern)
            => \A i \in 1 .. PATTERN_LOCK_LENGTH :
                 i <= Len(history') /\ history'[i] = LockedPattern'
       /\ IsLocked /\ (~IsLocked' \/ LockedPattern' # LockedPattern)
            => \A i \in 1 .. PATTERN_LOCK_LENGTH :
                 i <= Len(history') /\ history'[i] # LockedPattern]_trackerVars

\* Any pattern that keeps repeating itself is locked in the end, whether another
\* one is locked before or none.  MaxRun repetitions are enough to lose an earlier
\* one and to count PATTERN_LOCK_LENGTH repetitions.
RepetitionIsFound ==
    Len(history) = MaxRun /\ (\A i \in 1 .. MaxRun : history[i] = history[1])
        => IsLocked /\ LockedPattern = history[1]
===============================================================================
