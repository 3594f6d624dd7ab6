------------------------------- MODULE LruGrowth ------------------------------
(***************************************************************************)
(* When a frame cache may grow: LruCache with a history of evictions.      *)
(***************************************************************************)
EXTENDS LruCache

VARIABLE evictions  \* how often trim() has dropped each key, saturating at 2

growthVars == <<vars, evictions>>

\* Keys that leave the cache in this step, other than by rollback().
EvictedNow ==
    {k \in DOMAIN lru.entry \ DOMAIN lru'.entry :
        ~ \E t \in Threads : pc[t] = "own" /\ at[t] = k /\ pc'[t] = "idle"}

GrowthInit == Init /\ evictions = [k \in Keys |-> 0]

GrowthNext ==
    /\ Next
    /\ evictions' = [k \in Keys |-> IF k \in EvictedNow THEN Saturate(evictions[k] + 1)
                                   ELSE evictions[k]]

GrowthSpec == GrowthInit /\ [][GrowthNext]_growthVars

LimitsKept == lru'.cap.min = lru.cap.min /\ lru'.cap.max = lru.cap.max

\* The cache raises its own capacity, by one, only on a request for a frame
\* that trim() has evicted at least twice before (issues #270 and #379: one
\* eviction must not be enough, or a backward seek grows the cache by one
\* frame per step).
GrowthAfterEvictions ==
    [][LimitsKept /\ lru'.cap.real > lru.cap.real
         => /\ lru'.cap.real = lru.cap.real + 1
            /\ \E t \in Threads :
                 pc[t] = "idle" /\ pc'[t] # "idle" /\ evictions[at'[t]] = 2]_growthVars
===============================================================================
