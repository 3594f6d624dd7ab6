---------------------------- MODULE MCCacheRegistry ----------------------------
(***************************************************************************)
(* Small instances of CacheRegistry: up to four caches of one frame        *)
(* without hints of the script, and up to two of two frames with hints.    *)
(***************************************************************************)
EXTENDS CacheRegistry, TLC

CONSTANTS g1, g2, g3, g4, d1, d2, x1

VARIABLE instance   \* bounds of this behaviour

MCGuards == {g1, g2, g3, g4}

MCDevices == {d1, d2}

MCThrowers == {x1}

Instances == {[caches |-> 4, devices |-> 1, frames |-> 1, hinted |-> 0, throws |-> 0],
              [caches |-> 3, devices |-> 1, frames |-> 1, hinted |-> 0, throws |-> 1],
              [caches |-> 3, devices |-> 2, frames |-> 1, hinted |-> 0, throws |-> 0],
              [caches |-> 2, devices |-> 1, frames |-> 2, hinted |-> 1, throws |-> 0],
              [caches |-> 2, devices |-> 2, frames |-> 1, hinted |-> 1, throws |-> 0]}

MCInit == Init /\ instance \in Instances

\* Guards that have caches or hints.
Hinted == {g \in Guards : hints[g] # DefaultHints}
Known  == Hinted \cup {c[1] : c \in Live}

MCNext ==
    /\ Next
    /\ Cardinality(Live') <= instance.caches
    /\ Cardinality(Known') <= instance.caches
    /\ Cardinality(Hinted') <= instance.hinted
    /\ \A c \in Live' : caches'[c].size <= instance.frames /\ caches'[c].cap.requested <= instance.frames
    /\ Cardinality({Device(c) : c \in Live' \cup lost'}) <= instance.devices
    /\ Cardinality(lost') <= instance.throws
    /\ UNCHANGED instance

MCSpec == MCInit /\ [][MCNext]_<<vars, instance>>

\* Guards are interchangeable, and so are devices.
MCSymmetry == Permutations(MCGuards) \cup Permutations(MCDevices)
===============================================================================
