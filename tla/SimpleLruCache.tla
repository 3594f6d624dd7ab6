---------------------------- MODULE SimpleLruCache ----------------------------
(***************************************************************************)
(* The recency list of SimpleLruCache.h, shared by the frame cache and by  *)
(* its ghost list.  A list is a sequence of distinct keys, most recently   *)
(* used first; the values live in the containers that use the list.        *)
(* Capacities are the four fields of the class; Unlimited stands for       *)
(* numeric_limits<size_t>::max().                                          *)
(***************************************************************************)
EXTENDS Naturals, Sequences, Lists

CONSTANT Unlimited

ASSUME UnlimitedAssumption == Unlimited \in Nat \ {0}

\* clamp of avs/minmax.h: the lower limit wins when the limits cross.
clamp(n, lo, hi) ==
    LET m == IF n > hi THEN hi ELSE n
    IN  IF m < lo THEN lo ELSE m

Capacities == [min : Nat, max : Nat, requested : Nat, real : Nat]

\* The constructor: SimpleLruCache(capacity, ...).
InitCapacity(n) == [min |-> 0, max |-> Unlimited, requested |-> n, real |-> n]

\* The assignments of resize(): trim() is left to the caller.
ResizeCapacity(c, n) ==
    [c EXCEPT !.requested = n, !.real = clamp(n, c.min, c.max)]

\* The assignments of set_limits(), which resizes to the requested capacity.
LimitCapacity(c, lo, hi) ==
    ResizeCapacity([c EXCEPT !.min = lo, !.max = hi], c.requested)

Listed(list, k) == \E i \in DOMAIN list : list[i] = k

\* lookup() of a key that is found: splice it to the front.
MoveToFront(list, k) == <<k>> \o Drop(list, {k})

\* The keys that trim() visits, the ones past the real capacity, less those
\* whose eviction EvictEvent refuses.
Victims(list, real, pinned) ==
    {list[i] : i \in {j \in DOMAIN list : j > real}} \ pinned
===============================================================================
