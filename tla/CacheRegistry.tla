----------------------------- MODULE CacheRegistry -----------------------------
(***************************************************************************)
(* The caches of a script as ManageCache, ShrinkCache and CacheGuard see   *)
(* them: which cache gives up frames when memory is short, and which one   *)
(* gets them.                                                              *)
(*                                                                         *)
(* A CacheGuard has one AvsCache per device, made when the guard is first  *)
(* asked on that device; cache <<g, d>> is the one of guard g for device   *)
(* d.  Of the frames in a cache only their number is kept.  ManageCache    *)
(* and ShrinkCache hold memory_mutex and are one step each; a hint of the  *)
(* script does not hold it, and reads and writes the limits of each cache  *)
(* of its guard in two steps.                                              *)
(*                                                                         *)
(* The constructor of AvsCache registers the cache and may throw after     *)
(* that, when nothing unregisters it: the pointer stays, to memory that    *)
(* has been freed.  What happens when such a pointer is followed is        *)
(* undefined, and no step stands for it; that the memory goes to another   *)
(* cache, which then has the pointer twice, is left out.                   *)
(***************************************************************************)
EXTENDS SimpleLruCache, FiniteSets

CONSTANTS
    Guards,
    Devices,
    Throwers,    \* bound: what stands for the guard in the pointers left behind
    NoCache,     \* a null pointer
    HintValues,  \* what the script sets minimal and maximal capacities to
    MaxCaches,   \* bound: caches at once
    MaxFrames    \* bound: frames in a cache

ASSUME CacheRegistryAssumption ==
    /\ Guards \cap Throwers = {}
    /\ NoCache \notin (Guards \cup Throwers) \X Devices
    /\ HintValues \subseteq Nat
    /\ MaxCaches \in Nat /\ MaxFrames \in Nat

VARIABLES
    FrontCache,
    Registry,    \* CacheRegistry: least recently used first
    caches,      \* the caches there are: [cap, size]
    hints,       \* CacheHints of each guard: [min, max]
    pending,     \* for each guard, the hint that it is applying to its caches
    recent,      \* history: what is registered, the cache used last at the end
    usedInFront, \* history: what was FrontCache when it was last used
    lost         \* history: pointers that constructors which threw have left

vars == <<FrontCache, Registry, caches, hints, pending, recent, usedInFront, lost>>

Caches == Guards \X Devices

Pointers == (Guards \cup Throwers) \X Devices

Live == DOMAIN caches

Device(c) == c[2]

DefaultHints == [min |-> 0, max |-> Unlimited]

NoHint == [hint |-> "none", n |-> 0, left |-> {}, cache |-> NoCache, min |-> 0, max |-> 0]

Hints ==
    [hint : {"none", "min", "max"}, n : Nat, left : SUBSET Caches, cache : Caches \cup {NoCache},
     min : Nat, max : Nat]

CachesOf(g) == {c \in Live : c[1] = g}

\* mapped_list: push_back and move_to_back.
ToBack(list, c) == Append(Drop(list, {c}), c)

-------------------------------------------------------------------------------
(* SetCacheHints on a cache                                                *)

SetLimits(x, lo, hi) == [x EXCEPT !.cap = LimitCapacity(@, lo, hi)]

SetMax(x, n) == SetLimits(x, x.cap.min, n)

\* trim(): the frames of a busy cache are in use and stay.
Trim(x, busy) ==
    [x EXCEPT !.size = IF ~busy /\ @ > x.cap.real THEN x.cap.real ELSE @]

\* The new cache gets the hints that differ from the default.
NewCache(h) ==
    [cap |-> LET minned == IF h.min = 0 THEN InitCapacity(0)
                           ELSE LimitCapacity(InitCapacity(0), h.min, Unlimited)
             IN  IF h.max = Unlimited THEN minned ELSE LimitCapacity(minned, minned.min, h.max),
     size |-> 0]

-------------------------------------------------------------------------------
Init ==
    /\ FrontCache = NoCache
    /\ Registry = <<>>
    /\ caches = [c \in {} |-> NoCache]
    /\ hints = [g \in Guards |-> DefaultHints]
    /\ pending = [g \in Guards |-> NoHint]
    /\ recent = <<>>
    /\ usedInFront = {}
    /\ lost = {}

\* MC_RegisterCache: the newest cache is kept apart.
Register(c) ==
    /\ Registry' = IF FrontCache # NoCache THEN Append(Registry, FrontCache) ELSE Registry
    /\ FrontCache' = c
    /\ recent' = Append(recent, c)
    /\ usedInFront' = usedInFront \cup {c}

\* CacheGuard::GetCache finds no cache for the device.
Missing(g, d) == <<g, d>> \notin Live /\ pending[g] = NoHint

\* It makes one: the constructor registers the cache.
GetCache(g, d) ==
    /\ Missing(g, d) /\ Cardinality(Live) < MaxCaches
    /\ Register(<<g, d>>)
    /\ caches' = [c \in Live \cup {<<g, d>>} |-> IF c = <<g, d>> THEN NewCache(hints[g]) ELSE caches[c]]
    /\ UNCHANGED <<hints, pending, lost>>

\* The constructor throws after it has registered the cache: there is no cache,
\* and the guard may try again.  The pointer is <<x, d>>.
GetCacheThrows(g, d, x) ==
    /\ Missing(g, d) /\ <<x, d>> \notin lost
    /\ Register(<<x, d>>)
    /\ lost' = lost \cup {<<x, d>>}
    /\ UNCHANGED <<caches, hints, pending>>

\* Mutant: only the registry is searched.
UnRegisterListed(S) ==
    /\ Registry' = Drop(Registry, S)
    /\ FrontCache' = FrontCache

\* MC_UnRegisterCache, by the destructor of each cache in S.
UnRegister(S) ==
    /\ Registry' = Drop(Registry, S)
    /\ FrontCache' = IF FrontCache \in S THEN NoCache ELSE FrontCache

\* A guard is destroyed with its caches; another may be made in its place.
Release(g) ==
    LET gone == CachesOf(g)
    IN  /\ pending[g] = NoHint
        /\ UnRegister(gone)
        /\ caches' = [c \in Live \ gone |-> caches[c]]
        /\ hints' = [hints EXCEPT ![g] = DefaultHints]
        /\ recent' = Drop(recent, gone)
        /\ usedInFront' = usedInFront \ gone
        /\ UNCHANGED <<pending, lost>>

\* The script sets a limit: the guard remembers it for the caches to come, and
\* applies it to those that it has.
SetHint(g, hint, n) ==
    /\ pending[g] = NoHint
    /\ hints' = [hints EXCEPT ![g] = IF hint = "min" THEN [@ EXCEPT !.min = n] ELSE [@ EXCEPT !.max = n]]
    /\ pending' = IF CachesOf(g) = {} THEN pending
                  ELSE [pending EXCEPT ![g] = [NoHint EXCEPT !.hint = hint, !.n = n, !.left = CachesOf(g)]]
    /\ UNCHANGED <<FrontCache, Registry, caches, recent, usedInFront, lost>>

\* SetCacheHints of the next cache keeps the limit that is not set.
HintReads(g, c) ==
    LET p == pending[g]
        lo == IF p.hint = "min" THEN p.n ELSE caches[c].cap.min
        hi == IF p.hint = "max" THEN p.n ELSE caches[c].cap.max
    IN  /\ c \in p.left /\ p.cache = NoCache
        /\ pending' = [pending EXCEPT ![g] = [p EXCEPT !.left = p.left \ {c}, !.cache = c, !.min = lo, !.max = hi]]
        /\ UNCHANGED <<FrontCache, Registry, caches, hints, recent, usedInFront, lost>>

\* set_limits with what was read before: a limit that ManageCache has set in
\* between is lost.
HintWrites(g, busy) ==
    LET p == pending[g]
    IN  /\ p.cache # NoCache
        /\ caches' = [caches EXCEPT ![p.cache] = Trim(SetLimits(@, p.min, p.max), busy)]
        /\ pending' = [pending EXCEPT ![g] = IF p.left = {} THEN NoHint ELSE [p EXCEPT !.cache = NoCache]]
        /\ UNCHANGED <<FrontCache, Registry, hints, recent, usedInFront, lost>>

-------------------------------------------------------------------------------
(* The steps of AvsCache::GetFrame                                         *)

\* Both kinds of nod: the cache becomes the most recently used one.
Nod(c) ==
    /\ Registry' = IF c = FrontCache THEN Registry ELSE ToBack(Registry, c)
    /\ UNCHANGED FrontCache

Used(c) ==
    /\ recent' = ToBack(recent, c)
    /\ usedInFront' = IF c = FrontCache THEN usedInFront \cup {c} ELSE usedInFront \ {c}

\* MC_NodCache.
NodCache(c) ==
    /\ c \in Live
    /\ Nod(c)
    /\ Used(c)
    /\ UNCHANGED <<caches, hints, pending, lost>>

\* Mutant: the search begins at the wrong end.
NewestOn(c, list) ==
    LET candidates == {i \in DOMAIN list : Device(list[i]) = Device(c) /\ list[i] # c}
    IN  IF candidates = {} THEN NoCache
        ELSE list[CHOOSE i \in candidates : \A j \in candidates : j <= i]

\* The first cache in the list on the device of c.
OldestOn(c, list) ==
    LET candidates == {i \in DOMAIN list : Device(list[i]) = Device(c)}
    IN  IF candidates = {} THEN NoCache
        ELSE list[CHOOSE i \in candidates : \A j \in candidates : i <= j]

\* Every pointer that the search for the oldest cache follows is to a cache.
Walkable(c, list) ==
    \A j \in DOMAIN list : list[j] \notin Live =>
        caches[c].size # 0 /\ \E i \in DOMAIN list : i < j /\ list[i] \in Live /\ Device(list[i]) = Device(c)

\* MC_NodAndExpandCache.  The requested capacity was compared with the
\* capacity before the lock, and is compared again.  Where memory is short the
\* oldest cache of the device is limited first: to one frame less than the
\* cache that asks has, not than it has itself.  It may be the one that asks.
NodAndExpandCache(c, short, busy) ==
    LET cap    == caches[c].cap.real
        wants  == caches[c].cap.requested > cap
        giver  == IF short /\ caches[c].size # 0 THEN OldestOn(c, Registry') ELSE NoCache
        Given(k)    == IF k = giver THEN Trim(SetMax(caches[k], caches[c].size - 1), busy) ELSE caches[k]
        Expanded(k) == IF k = c THEN Trim(SetMax(Given(k), cap + 1), busy) ELSE Given(k)
    IN  /\ c \in Live
        /\ Nod(c)
        /\ Used(c)
        /\ wants /\ short => Walkable(c, Registry')
        /\ caches' = IF wants THEN [k \in Live |-> Expanded(k)] ELSE caches
        /\ UNCHANGED <<hints, pending, lost>>

\* lookup() of a frame that is not in the cache; grow when it is found among
\* the ghosts.  Frames in use may exceed the capacity.
Lookup(c, grow, busy) ==
    /\ c \in Live
    /\ caches[c].size < MaxFrames
    /\ grow => caches[c].cap.real < MaxFrames
    /\ caches' = [caches EXCEPT ![c] =
                     Trim([size |-> @.size + 1,
                           cap |-> IF grow THEN ResizeCapacity(@.cap, @.cap.real + 1) ELSE @.cap], busy)]
    /\ UNCHANGED <<FrontCache, Registry, hints, pending, recent, usedInFront, lost>>

\* Mutant: the newest cache is shrunk, too.
ShrunkAlsoFront(d) ==
    {c \in Live : Device(c) = d /\ caches[c].size # 0}

\* The caches that ShrinkCache limits.
Shrunk(d) ==
    {Registry[i] : i \in {j \in DOMAIN Registry : Device(Registry[j]) = d /\ caches[Registry[j]].size # 0}}

\* ShrinkCache, when an allocation on device d exceeds the memory limit, follows
\* every pointer in the list.
ShrinkCache(d, busy) ==
    /\ \A i \in DOMAIN Registry : Registry[i] \in Live
    /\ caches' = [k \in Live |-> IF k \in Shrunk(d) THEN Trim(SetMax(caches[k], caches[k].size - 1), k \in busy)
                                ELSE caches[k]]
    /\ UNCHANGED <<FrontCache, Registry, hints, pending, recent, usedInFront, lost>>

WithFrames == {c \in Live : caches[c].size # 0}

Next ==
    \/ \E g \in Guards, d \in Devices : GetCache(g, d)
    \/ \E g \in Guards, d \in Devices, x \in Throwers : GetCacheThrows(g, d, x)
    \/ \E g \in Guards : Release(g)
    \/ \E g \in Guards, hint \in {"min", "max"}, n \in HintValues : SetHint(g, hint, n)
    \/ \E g \in Guards, c \in Live : HintReads(g, c)
    \/ \E g \in Guards, busy \in BOOLEAN : HintWrites(g, busy)
    \/ \E c \in Live : NodCache(c)
    \/ \E c \in Live, short \in BOOLEAN, busy \in BOOLEAN : NodAndExpandCache(c, short, busy)
    \/ \E c \in Live, grow \in BOOLEAN, busy \in BOOLEAN : Lookup(c, grow, busy)
    \/ \E d \in Devices, busy \in SUBSET WithFrames : ShrinkCache(d, busy)

Spec == Init /\ [][Next]_vars

-------------------------------------------------------------------------------
(* Properties                                                              *)

InList(c) == Listed(Registry, c)

\* The shape of the state.
TypeOK ==
    /\ FrontCache \in Pointers \cup {NoCache}
    /\ Registry \in Seq(Pointers)
    /\ Live \subseteq Caches
    /\ \A c \in Live : caches[c].cap \in Capacities /\ caches[c].size \in Nat
    /\ hints \in [Guards -> [min : Nat, max : Nat]]
    /\ pending \in [Guards -> Hints]
    /\ lost \subseteq Throwers \X Devices

\* b's latest use is before c's.
UsedBefore(b, c) ==
    \E i, j \in DOMAIN recent : i < j /\ recent[i] = b /\ recent[j] = c

\* Every cache is registered exactly once, in front or in the list: ManageCache
\* and ShrinkCache overlook none.  The list is in the order of use; the one
\* exception is a cache that was in front when it was last used, and has come to
\* the list later, when the next cache was made.  What else is registered is
\* what constructors that threw after registering have left there, and nothing
\* takes it out again: those pointers are to caches that are gone.  While no
\* constructor has thrown, the registry has the caches there are and no other.
RegistryExact ==
    /\ TypeOK
    /\ \A c \in Pointers : c \in Live \cup lost <=> (c = FrontCache \/ InList(c))
    /\ ~InList(FrontCache)
    /\ \A i, j \in DOMAIN Registry : Registry[i] = Registry[j] => i = j
    /\ \A i, j \in DOMAIN Registry :
          i < j => UsedBefore(Registry[i], Registry[j]) \/ Registry[j] \in usedInFront

\* The newest cache keeps its limit when memory is short; only a hint of the
\* script lowers it.
FrontKeepsLimit ==
    [][pending' = pending /\ FrontCache \in Live \cap DOMAIN caches'
         => (caches'[FrontCache].cap.max >= caches[FrontCache].cap.max)]_vars

\* A cache that needs room changes the limit of at most one other cache: one
\* of its device that has been used before every other one in the list.  Memory
\* that is short on one device costs the caches of the others nothing.
OldestGives ==
    [][/\ recent' # recent /\ DOMAIN caches' = Live =>
             LET c == recent'[Len(recent')]
                 Rest == Live \ {c, FrontCache}
             IN  \A k \in Live \ {c} :
                    caches'[k].cap # caches[k].cap =>
                       /\ k \in Rest /\ Device(k) = Device(c)
                       /\ \A other \in Rest \ {k} :
                             /\ caches'[other] = caches[other]
                             /\ Device(other) = Device(c)
                                   => UsedBefore(k, other) \/ other \in usedInFront
       /\ \A b, c \in Live \cap DOMAIN caches' :
             caches'[b].cap # caches[b].cap /\ caches'[c].cap # caches[c].cap
                => Device(b) = Device(c)]_vars
===============================================================================
