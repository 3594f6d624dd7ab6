--------------------------- MODULE PrefetcherProofs ---------------------------
(***************************************************************************)
(* Proofs about the frame cache and about the prefetcher that uses one.    *)
(*                                                                         *)
(* Of LruCache: for any number of threads and keys and any limits, locks   *)
(* count the threads that use an entry, a frame is computed by one thread  *)
(* at a time, no wake-up is lost, the recency list is the list of the      *)
(* entries, and its length is bounded.                                     *)
(*                                                                         *)
(* Of Prefetcher: it uses its frame cache as LruCache specifies it, so     *)
(* that all of this holds of the cache inside a Prefetcher, with prefetch  *)
(* jobs in the place of threads.                                           *)
(*                                                                         *)
(* Of PrefetchPattern: the counters of GetFrame mean what they are used    *)
(* for; a hit is a request that followed the pattern under observation, a  *)
(* miss one that departed from the locked pattern, and both count the      *)
(* latest requests without a gap.                                          *)
(***************************************************************************)
EXTENDS Prefetcher, PrefetchPattern, ListProofs, FiniteSetTheorems, TLAPS

-------------------------------------------------------------------------------
(* What an operation on the cache object may do to the entries             *)

\* d is c after evictions: it has fewer entries, all of them unchanged, and it
\* still has every entry that some thread holds a lock of.
Evicted(c, d) ==
    /\ DOMAIN d.entry \subseteq DOMAIN c.entry
    /\ Pinned(c) \subseteq DOMAIN d.entry
    /\ \A x \in DOMAIN d.entry : d.entry[x] = c.entry[x]

\* Capacities stay natural numbers when a resize clamps them.
LEMMA ClampNat ==
    ASSUME NEW n \in Nat, NEW lo \in Nat, NEW hi \in Nat
    PROVE  clamp(n, lo, hi) \in Nat
BY DEF clamp

LEMMA ResizeCapacityType ==
    ASSUME NEW c \in Capacities, NEW n \in Nat
    PROVE  ResizeCapacity(c, n) \in Capacities
BY ClampNat DEF ResizeCapacity, Capacities

LEMMA LimitCapacityType ==
    ASSUME NEW c \in Capacities, NEW lo \in Nat, NEW hi \in Nat
    PROVE  LimitCapacity(c, lo, hi) \in Capacities
<1> DEFINE d == [c EXCEPT !.min = lo, !.max = hi]
<1>1. d \in Capacities /\ c.requested \in Nat
  BY DEF Capacities
<1> QED
  BY <1>1, ResizeCapacityType DEF LimitCapacity

\* Unlinking a set of keys without locks is an eviction.
LEMMA WithoutEntriesEvicts ==
    ASSUME NEW c, IsLru(c), NEW S, S \cap Pinned(c) = {}
    PROVE  LET d == WithoutEntries(c, S)
           IN  IsLru(d) /\ d.cap = c.cap /\ Evicted(c, d)
<1> DEFINE d == WithoutEntries(c, S)
<1>0. c = [f \in LruFields |-> c[f]]
  BY DEF IsLru
<1>1. /\ d = [f \in LruFields |-> d[f]]
      /\ d.cap = c.cap
      /\ d.entry = [x \in DOMAIN c.entry \ S |-> c.entry[x]]
  BY <1>0 DEF WithoutEntries, LruFields
<1> HIDE DEF d
<1> QED
  BY <1>1 DEF IsLru, Evicted, Pinned, d

\* trim() evicts only entries that nobody has locked.
LEMMA TrimEvicts ==
    ASSUME NEW c, IsLru(c)
    PROVE  IsLru(Trim(c)) /\ Trim(c).cap = c.cap /\ Evicted(c, Trim(c))
<1> DEFINE V == Victims(c.order, c.cap.real, Pinned(c))
           w == WithoutEntries(c, V)
<1>1. V \cap Pinned(c) = {}
  BY DEF Victims
<1>2. IsLru(w) /\ w.cap = c.cap /\ Evicted(c, w)
  BY <1>1, WithoutEntriesEvicts
<1>3. PICK g, h : Trim(c) = [w EXCEPT !.ghosts = g, !.ghosted = h]
  BY Zenon DEF Trim
<1> HIDE DEF w
<1>4. IsLru(Trim(c)) /\ Trim(c).cap = w.cap /\ Trim(c).entry = w.entry
  BY <1>2, <1>3 DEF IsLru, LruFields
<1> QED
  BY <1>2, <1>4 DEF Evicted

\* Growing or shrinking the capacity evicts in the same way.
LEMMA ResizeEvicts ==
    ASSUME NEW c, IsLru(c), NEW n \in Nat
    PROVE  IsLru(Resize(c, n)) /\ Evicted(c, Resize(c, n))
<1> DEFINE d == [c EXCEPT !.cap = ResizeCapacity(@, n)]
<1>1. ResizeCapacity(c.cap, n) \in Capacities
  BY ResizeCapacityType DEF IsLru
<1>2. IsLru(d) /\ d.entry = c.entry
  BY <1>1 DEF IsLru, LruFields
<1>3. IsLru(Trim(d)) /\ Evicted(d, Trim(d))
  BY <1>2, TrimEvicts
<1>4. Resize(c, n) = Trim(d)
  BY Zenon DEF Resize
<1> HIDE DEF d
<1> QED
  BY <1>2, <1>3, <1>4 DEF Evicted, Pinned

\* Forgetting ghosts leaves list and entries alone.
LEMMA GhostResizeKeeps ==
    ASSUME NEW c, IsLru(c), NEW n \in Nat
    PROVE  LET d == GhostResize(c, n)
           IN  IsLru(d) /\ d.order = c.order /\ d.entry = c.entry /\ d.cap = c.cap
<1>1. PICK g, h : GhostResize(c, n) = [c EXCEPT !.ghostCap = n, !.ghosts = g, !.ghosted = h]
  BY Zenon DEF GhostResize
<1> QED
  BY <1>1 DEF IsLru, LruFields

LEMMA GrowEvicts ==
    ASSUME NEW c, IsLru(c)
    PROVE  IsLru(Grow(c)) /\ Evicted(c, Grow(c))
<1> DEFINE d == Resize(c, c.cap.real + 1)
<1>1. c.cap.real + 1 \in Nat
  BY DEF IsLru, Capacities
<1>2. IsLru(d) /\ Evicted(c, d)
  BY <1>1, ResizeEvicts
<1> DEFINE m == GHOSTS_MIN_CAPACITY + 2 * d.cap.real
<1>3. Grow(c) = GhostResize(d, m)
  BY Zenon DEF Grow
<1> HIDE DEF d
<1>4. m \in Nat
  BY <1>2, LruAssumption DEF IsLru, Capacities
<1> HIDE DEF m
<1>5. IsLru(Grow(c)) /\ Grow(c).entry = d.entry
  BY <1>2, <1>3, <1>4, GhostResizeKeeps
<1> QED
  BY <1>2, <1>5 DEF Evicted

LEMMA LinkEvicts ==
    ASSUME NEW c, IsLru(c), NEW k
    PROVE  IsLru(Link(c, k)) /\ Evicted(c, Link(c, k))
<1> DEFINE d == Trim(c)
<1>1. IsLru(d) /\ Evicted(c, d)
  BY TrimEvicts
<1>2. \/ Link(c, k) = d
      \/ Link(c, k) = [d EXCEPT !.order = <<k>> \o @]
  BY Zenon DEF Link
<1> HIDE DEF d
<1>3. IsLru(Link(c, k)) /\ Link(c, k).entry = d.entry
  BY <1>1, <1>2 DEF IsLru, LruFields
<1> QED
  BY <1>1, <1>3 DEF Evicted

LEMMA GhostPutKeeps ==
    ASSUME NEW c, IsLru(c), NEW k, NEW n
    PROVE  IsLru(GhostPut(c, k, n)) /\ GhostPut(c, k, n).entry = c.entry
<1>1. \/ GhostPut(c, k, n) = [c EXCEPT !.ghosts = MoveToFront(@, k), !.ghosted[k] = n]
      \/ \E g, h : GhostPut(c, k, n) = [c EXCEPT !.ghosts = g, !.ghosted = h]
  BY Zenon DEF GhostPut
<1>2. CASE GhostPut(c, k, n) = [c EXCEPT !.ghosts = MoveToFront(@, k), !.ghosted[k] = n]
  BY <1>2 DEF IsLru, LruFields
<1>3. CASE \E g, h : GhostPut(c, k, n) = [c EXCEPT !.ghosts = g, !.ghosted = h]
  BY <1>3 DEF IsLru, LruFields
<1> QED
  BY <1>1, <1>2, <1>3

\* A missed lookup() evicts only entries that nobody has locked, before and
\* after the cache has grown.
LEMMA MissEvicts ==
    ASSUME NEW c, IsLru(c), NEW k
    PROVE  IsLru(Miss(c, k)) /\ Evicted(c, Miss(c, k))
<1> DEFINE linked == Link(c, k)
           n == IF Listed(linked.ghosts, k) THEN linked.ghosted[k] ELSE 0
           noted == GhostPut(linked, k, n)
<1>1. IsLru(linked) /\ Evicted(c, linked)
  BY LinkEvicts
<1>2. IsLru(noted) /\ noted.entry = linked.entry
  BY <1>1, GhostPutKeeps
<1>3. IsLru(Grow(noted)) /\ Evicted(noted, Grow(noted))
  BY <1>2, GrowEvicts
<1>4. Miss(c, k) = noted \/ Miss(c, k) = Grow(noted)
  BY Zenon DEF Miss
<1> HIDE DEF noted, linked
<1>5. Evicted(c, noted)
  BY <1>1, <1>2 DEF Evicted
<1>6. Evicted(c, Grow(noted))
  BY <1>3, <1>5 DEF Evicted, Pinned
<1> QED
  BY <1>2, <1>3, <1>4, <1>5, <1>6

-------------------------------------------------------------------------------
(* The invariant                                                           *)

\* The three facts support each other: a waiter's entry exists because its
\* lock is counted, counts are right because there is one owner, and an owner
\* that gives up finds somebody to hand over to because the count said so.
CoreInv == CoreTypeOK /\ LockAccounting /\ SingleFlight /\ NotificationPending

LEMMA HoldersFinite ==
    ASSUME NEW k
    PROVE  IsFiniteSet(Holders(k)) /\ Cardinality(Holders(k)) \in Nat
<1>1. Holders(k) \in SUBSET Threads
  BY DEF Holders
<1> QED
  BY <1>1, LruAssumption, FS_Subset, FS_CardinalityType

\* The entry that a thread uses is locked, so no eviction takes it away.
LEMMA HeldIsPinned ==
    ASSUME CoreInv, NEW t \in Threads, pc[t] \in Owning \cup Waiting
    PROVE  at[t] \in Pinned(lru)
<1>1. at[t] \in DOMAIN lru.entry /\ t \in Holders(at[t])
  BY DEF CoreInv, LockAccounting, Holders
<1>2. Cardinality(Holders(at[t])) # 0
  BY <1>1, HoldersFinite, FS_EmptySet
<1>3. lru.entry[at[t]].locks = Cardinality(Holders(at[t]))
  BY <1>1 DEF CoreInv, LockAccounting
<1> QED
  BY <1>1, <1>2, <1>3, HoldersFinite DEF Pinned

\* A lock that a thread holds can be given back.
LEMMA HeldEntry ==
    ASSUME CoreInv, NEW t \in Threads, pc[t] \in Owning \cup Waiting
    PROVE  /\ at[t] \in Keys /\ at[t] \in DOMAIN lru.entry
           /\ IsLru(lru) /\ IsEntry(lru.entry[at[t]])
           /\ lru.entry[at[t]].locks - 1 \in Nat
<1>1. at[t] \in DOMAIN lru.entry /\ IsLru(lru) /\ IsEntry(lru.entry[at[t]])
  BY DEF CoreInv, CoreTypeOK, LockAccounting, IsLru
<1>2. lru.entry[at[t]].locks > 0
  BY HeldIsPinned DEF Pinned
<1> QED
  BY <1>1, <1>2 DEF IsEntry, IsLru

Outside == {"idle", "uncached", "returned"}

\* Steps that evict at most, and that move threads outside the protocol only.
LEMMA QuietStep ==
    ASSUME CoreInv, CoreTypeOK', Evicted(lru, lru'),
           \A u \in Threads : \/ pc'[u] = pc[u] /\ at'[u] = at[u]
                              \/ pc[u] \in Outside /\ pc'[u] \in Outside
    PROVE  CoreInv'
<1>1. \A k : Holders(k)' = Holders(k) /\ Owners(k)' = Owners(k) /\ Sleepers(k)' = Sleepers(k)
  BY DEF Holders, Owners, Sleepers, Owning, Waiting, Outside, CoreInv, CoreTypeOK
<1>2. \A t \in Threads : pc'[t] \in Owning \cup Waiting =>
            pc[t] = pc'[t] /\ at[t] = at'[t] /\ at[t] \in DOMAIN lru'.entry
  BY HeldIsPinned DEF Outside, Owning, Waiting, Evicted
<1>3. LockAccounting'
  BY <1>1, <1>2 DEF LockAccounting, CoreInv, Evicted
<1>4. SingleFlight'
  BY <1>1 DEF SingleFlight, CoreInv, Evicted
<1>5. NotificationPending'
  <2> SUFFICES ASSUME NEW k \in DOMAIN lru'.entry
               PROVE  /\ lru'.entry[k].state = "AVAILABLE" /\ Sleepers(k)' # {}
                          => \E t \in Threads : pc'[t] = "notify_all" /\ at'[t] = k
                      /\ lru'.entry[k].state = "ROLLED_BACK"
                          => \E t \in Threads : pc'[t] \in {"woken", "notify_one"} /\ at'[t] = k
    BY DEF NotificationPending
  <2>1. k \in DOMAIN lru.entry /\ lru'.entry[k] = lru.entry[k]
    BY DEF Evicted
  <2> QED
    BY <1>1, <2>1 DEF NotificationPending, CoreInv, Outside
<1> QED
  BY <1>3, <1>4, <1>5 DEF CoreInv

LEMMA InitCore == Init => CoreInv
<1> SUFFICES ASSUME Init PROVE CoreInv
  OBVIOUS
<1>1. DOMAIN lru.entry = {} /\ lru.cap = InitCapacity(InitCap)
  BY DEF Init
<1>2. IsLru(lru)
  BY LruAssumption, UnlimitedAssumption
  DEF Init, IsLru, LruFields, InitCapacity, Capacities
<1>3. CoreTypeOK
  BY <1>2 DEF Init, CoreTypeOK, Labels
<1> QED
  BY <1>1, <1>3 DEF CoreInv, LockAccounting, SingleFlight, NotificationPending,
                    Init, Owning, Waiting

-------------------------------------------------------------------------------
(* Steps that leave the protocol alone                                     *)

\* Reordering the recency list touches no entry.
LEMMA ReorderKeeps ==
    ASSUME IsLru(lru), NEW s, lru' = [lru EXCEPT !.order = s]
    PROVE  IsLru(lru') /\ Evicted(lru, lru')
BY DEF IsLru, LruFields, Evicted, Pinned

LEMMA ReadyStep ==
    ASSUME CoreInv, NEW t \in Threads, NEW k \in Keys,
           LookupReady(t, k) \/ LookupNotAvail(t, k)
    PROVE  CoreInv'
<1>1. IsLru(lru') /\ Evicted(lru, lru')
  BY ReorderKeeps DEF LookupReady, LookupNotAvail, CoreInv, CoreTypeOK
<1>2. CASE LookupReady(t, k)
  <2>1. lru.entry[k].value \in Keys \cup {NoFrame}
    BY <1>2 DEF LookupReady, CoreInv, CoreTypeOK, IsLru, IsEntry
  <2>2. CoreTypeOK'
    BY <1>1, <1>2, <2>1 DEF LookupReady, Return, Goto, CoreTypeOK, CoreInv, Labels
  <2> QED
    BY <1>1, <1>2, <2>2, QuietStep
    DEF LookupReady, Return, Goto, Outside, CoreInv, CoreTypeOK
<1>3. CASE LookupNotAvail(t, k)
  BY <1>1, <1>3, QuietStep DEF LookupNotAvail, CoreTypeOK, CoreInv
<1> QED
  BY <1>2, <1>3

LEMMA UncachedStep ==
    ASSUME CoreInv, NEW t \in Threads, NEW k \in Keys,
           \/ LookupNoCache(t, k) \/ LookupSuppressed(t, k)
           \/ Uncached(t) \/ Consume(t)
    PROVE  CoreInv'
<1>1. CASE LookupNoCache(t, k)
  <2> DEFINE c == Miss(lru, k)
  <2>1. IsLru(c) /\ Evicted(lru, c)
    BY MissEvicts DEF CoreInv, CoreTypeOK
  <2>2. lru' = [c EXCEPT !.ghosted[k] = Saturate(@ + 1)]
    BY <1>1 DEF LookupNoCache
  <2> HIDE DEF c
  <2>3. IsLru(lru') /\ lru'.entry = c.entry
    BY <2>1, <2>2 DEF IsLru, LruFields
  <2>4. Evicted(lru, lru')
    BY <2>1, <2>3 DEF Evicted
  <2>5. CoreTypeOK'
    BY <1>1, <2>3 DEF LookupNoCache, Goto, CoreTypeOK, CoreInv, Labels
  <2> QED
    BY <1>1, <2>4, <2>5, QuietStep
    DEF LookupNoCache, Goto, Outside, CoreInv, CoreTypeOK
<1>2. CASE LookupSuppressed(t, k) \/ Uncached(t) \/ Consume(t)
  <2>1. lru' = lru
    BY <1>2 DEF LookupSuppressed, Uncached, Consume
  <2>2. Evicted(lru, lru')
    BY <2>1 DEF Evicted, Pinned
  <2>3. CoreTypeOK'
    BY <1>2, <2>1 DEF LookupSuppressed, Uncached, Consume, Return, Goto,
                      CoreTypeOK, CoreInv, Labels
  <2> QED
    BY <1>2, <2>2, <2>3, QuietStep
    DEF LookupSuppressed, Uncached, Consume, Return, Goto, Outside, CoreInv, CoreTypeOK
<1> QED
  BY <1>1, <1>2

LEMMA LimitsStep ==
    ASSUME CoreInv, NEW l \in Limits, set_limits(l[1], l[2])
    PROVE  CoreInv'
<1> DEFINE d == [lru EXCEPT !.cap = LimitCapacity(@, l[1], l[2])]
<1>1. l[1] \in Nat /\ l[2] \in Nat
  BY LruAssumption
<1>2. LimitCapacity(lru.cap, l[1], l[2]) \in Capacities
  BY <1>1, LimitCapacityType DEF CoreInv, CoreTypeOK, IsLru
<1>3. IsLru(d) /\ d.entry = lru.entry
  BY <1>2 DEF IsLru, LruFields, CoreInv, CoreTypeOK
<1>4. lru' = Trim(d)
  BY Zenon DEF set_limits
<1>5. IsLru(lru') /\ Evicted(d, lru')
  BY <1>3, <1>4, TrimEvicts
<1> HIDE DEF d
<1>6. Evicted(lru, lru')
  BY <1>3, <1>5 DEF Evicted, Pinned
<1>7. CoreTypeOK'
  BY <1>5 DEF set_limits, CoreTypeOK, CoreInv
<1> QED
  BY <1>6, <1>7, QuietStep DEF set_limits

-------------------------------------------------------------------------------
(* Steps of the protocol                                                   *)

\* Putting an entry into the pool, or replacing one.
LEMMA SetEntryEffect ==
    ASSUME NEW c, IsLru(c), NEW k \in Keys, NEW e, IsEntry(e)
    PROVE  LET d == SetEntry(c, k, e)
           IN  /\ IsLru(d)
               /\ DOMAIN d.entry = DOMAIN c.entry \cup {k}
               /\ d.entry[k] = e
               /\ \A x \in DOMAIN c.entry \ {k} : d.entry[x] = c.entry[x]
<1> DEFINE d == SetEntry(c, k, e)
<1>0. c = [f \in LruFields |-> c[f]]
  BY DEF IsLru
<1>1. /\ d = [f \in LruFields |-> d[f]]
      /\ d.cap = c.cap
      /\ d.entry = [x \in DOMAIN c.entry \cup {k} |-> IF x = k THEN e ELSE c.entry[x]]
  BY <1>0 DEF SetEntry, LruFields
<1> HIDE DEF d
<1> QED
  BY <1>1 DEF IsLru, d

LEMMA ReplaceEntry ==
    ASSUME NEW c, IsLru(c), NEW k \in DOMAIN c.entry, NEW e, IsEntry(e),
           NEW d, d = SetEntry(c, k, e)
    PROVE  /\ IsLru(d)
           /\ DOMAIN d.entry = DOMAIN c.entry
           /\ d.entry[k] = e
           /\ \A x \in DOMAIN c.entry \ {k} : d.entry[x] = c.entry[x]
<1>1. k \in Keys
  BY DEF IsLru
<1>2. /\ IsLru(d)
      /\ DOMAIN d.entry = DOMAIN c.entry \cup {k}
      /\ d.entry[k] = e
      /\ \A x \in DOMAIN c.entry \ {k} : d.entry[x] = c.entry[x]
  BY <1>1, SetEntryEffect
<1>3. DOMAIN c.entry \cup {k} = DOMAIN c.entry
  OBVIOUS
<1> QED
  BY <1>2, <1>3

\* Changing the lock count, the state or the value of an entry.
LEMMA EntryFields ==
    ASSUME NEW e, IsEntry(e)
    PROVE  /\ \A n \in Nat : LET f == [e EXCEPT !.locks = n]
                             IN  IsEntry(f) /\ f.locks = n /\ f.state = e.state
           /\ \A st \in EntryStates : LET f == [e EXCEPT !.state = st]
                             IN  IsEntry(f) /\ f.locks = e.locks /\ f.state = st
           /\ \A v \in Keys : LET f == [e EXCEPT !.value = v]
                             IN  IsEntry(f) /\ f.locks = e.locks /\ f.state = e.state
           /\ \A st \in EntryStates, n \in Nat :
                             LET f == [e EXCEPT !.state = st, !.locks = n]
                             IN  IsEntry(f) /\ f.locks = n /\ f.state = st
BY DEF IsEntry

\* A thread that starts to wait adds one lock and itself to the holders.
LEMMA WaitStep ==
    ASSUME CoreInv, NEW t \in Threads, NEW k \in Keys, LookupWait(t, k)
    PROVE  CoreInv'
<1>1. /\ IsLru(lru')
      /\ DOMAIN lru'.entry = DOMAIN lru.entry
      /\ \A x \in DOMAIN lru.entry :
            /\ lru'.entry[x].state = lru.entry[x].state
            /\ lru'.entry[x].locks = IF x = k THEN lru.entry[x].locks + 1
                                     ELSE lru.entry[x].locks
  <2> DEFINE e == [lru.entry[k] EXCEPT !.locks = @ + 1]
             c == [lru EXCEPT !.order = MoveToFront(@, k)]
  <2>1. IsLru(c) /\ c.entry = lru.entry
    BY DEF CoreInv, CoreTypeOK, IsLru, LruFields
  <2>2. k \in DOMAIN lru.entry /\ IsEntry(lru.entry[k])
    BY DEF LookupWait, CoreInv, CoreTypeOK, IsLru
  <2>3. IsEntry(e) /\ e.state = lru.entry[k].state /\ e.locks = lru.entry[k].locks + 1
    BY <2>2 DEF IsEntry
  <2>4. lru' = SetEntry(c, k, e)
    BY Zenon DEF LookupWait
  <2> HIDE DEF e, c
  <2> QED
    BY <2>1, <2>2, <2>3, <2>4, ReplaceEntry
<1>2. CoreTypeOK'
  BY <1>1 DEF LookupWait, Goto, CoreTypeOK, CoreInv, Labels
<1>3. \A x : /\ Holders(x)' = IF x = k THEN Holders(x) \cup {t} ELSE Holders(x)
             /\ Owners(x)' = Owners(x)
  BY DEF LookupWait, Goto, Holders, Owners, Owning, Waiting, CoreInv, CoreTypeOK
<1>4. t \notin Holders(k)
  BY DEF LookupWait, Holders, Owning, Waiting
<1>5. LockAccounting'
  <2>1. \A u \in Threads : pc'[u] \in Owning \cup Waiting => at'[u] \in DOMAIN lru'.entry
    BY <1>1 DEF LookupWait, Goto, LockAccounting, CoreInv, CoreTypeOK
  <2>2. \A x \in DOMAIN lru'.entry : lru'.entry[x].locks = Cardinality(Holders(x)')
    BY <1>1, <1>3, <1>4, HoldersFinite, FS_AddElement DEF LockAccounting, CoreInv
  <2> QED
    BY <2>1, <2>2 DEF LockAccounting
<1>6. SingleFlight'
  BY <1>1, <1>3 DEF SingleFlight, CoreInv
<1>7. NotificationPending'
  <2>1. lru.entry[k].state = "EMPTY" /\ pc[t] = "idle"
    BY DEF LookupWait
  <2>2. \A x : x # k => Sleepers(x)' = Sleepers(x)
    BY DEF LookupWait, Goto, Sleepers, CoreInv, CoreTypeOK
  <2>3. \A u \in Threads : u # t => pc'[u] = pc[u] /\ at'[u] = at[u]
    BY DEF LookupWait, Goto, CoreInv, CoreTypeOK
  <2> QED
    BY <1>1, <2>1, <2>2, <2>3 DEF NotificationPending, CoreInv
<1> QED
  BY <1>2, <1>5, <1>6, <1>7 DEF CoreInv

\* A thread that reserves an entry is its only holder.
LEMMA NotFoundStep ==
    ASSUME CoreInv, NEW t \in Threads, NEW k \in Keys, LookupNotFound(t, k)
    PROVE  CoreInv'
<1> DEFINE c == Miss(lru, k)
           e == [state |-> "EMPTY", locks |-> 1, value |-> NoFrame,
                 ghosted |-> c.ghosted[k]]
<1>1. IsLru(c) /\ Evicted(lru, c)
  BY MissEvicts DEF CoreInv, CoreTypeOK
<1>2. lru' = SetEntry(c, k, e)
  BY Zenon DEF LookupNotFound
<1> HIDE DEF c
<1>3. /\ IsLru(lru')
      /\ DOMAIN lru'.entry = DOMAIN c.entry \cup {k}
      /\ lru'.entry[k].state = "EMPTY" /\ lru'.entry[k].locks = 1
      /\ \A x \in DOMAIN c.entry \ {k} : lru'.entry[x] = lru.entry[x]
  <2>1. IsEntry(e) /\ e.state = "EMPTY" /\ e.locks = 1
    BY DEF IsEntry, EntryStates
  <2> HIDE DEF e
  <2> QED
    BY <1>1, <1>2, <2>1, SetEntryEffect DEF Evicted
<1>4. CoreTypeOK'
  BY <1>3 DEF LookupNotFound, Goto, CoreTypeOK, CoreInv, Labels
<1>5. Holders(k) = {} /\ Owners(k) = {}
  BY DEF LookupNotFound, Holders, Owners, LockAccounting, CoreInv
<1>6. \A x : /\ Holders(x)' = IF x = k THEN {t} ELSE Holders(x)
             /\ Owners(x)' = IF x = k THEN {t} ELSE Owners(x)
             /\ Sleepers(x)' = Sleepers(x)
  BY <1>5 DEF LookupNotFound, Goto, Holders, Owners, Sleepers, Owning, Waiting,
              CoreInv, CoreTypeOK
<1>7. LockAccounting'
  <2>1. \A u \in Threads : pc'[u] \in Owning \cup Waiting => at'[u] \in DOMAIN lru'.entry
    BY <1>1, <1>3, HeldIsPinned DEF LookupNotFound, Goto, Evicted, CoreInv, CoreTypeOK
  <2>2. \A x \in DOMAIN lru'.entry : lru'.entry[x].locks = Cardinality(Holders(x)')
    BY <1>1, <1>3, <1>6, FS_Singleton DEF LockAccounting, CoreInv, Evicted
  <2> QED
    BY <2>1, <2>2 DEF LockAccounting
<1>8. SingleFlight'
  BY <1>1, <1>3, <1>6 DEF SingleFlight, CoreInv, Evicted
<1>9. NotificationPending'
  <2>1. \A u \in Threads : \/ pc'[u] = pc[u] /\ at'[u] = at[u]
                           \/ u = t /\ pc[u] = "idle"
    BY DEF LookupNotFound, Goto, CoreInv, CoreTypeOK
  <2>2. \A x \in DOMAIN lru'.entry \ {k} :
            x \in DOMAIN lru.entry /\ lru'.entry[x] = lru.entry[x]
    BY <1>1, <1>3 DEF Evicted
  <2> QED
    BY <1>3, <1>6, <2>1, <2>2 DEF NotificationPending, CoreInv
<1> QED
  BY <1>4, <1>7, <1>8, <1>9 DEF CoreInv

\* The owner stores its frame: neither locks nor states change.
LEMMA FillStep ==
    ASSUME CoreInv, NEW t \in Threads, Fill(t)
    PROVE  CoreInv'
<1> DEFINE k == at[t]
           e == [lru.entry[k] EXCEPT !.value = k]
<1>1. pc[t] = "own" /\ k \in Keys /\ k \in DOMAIN lru.entry /\ IsLru(lru)
  BY DEF Fill, CoreInv, CoreTypeOK, LockAccounting, Owning
<1>2. IsEntry(e) /\ e.state = lru.entry[k].state /\ e.locks = lru.entry[k].locks
  BY <1>1, EntryFields DEF IsLru
<1>3. lru' = SetEntry(lru, k, e)
  BY DEF Fill
<1> HIDE DEF e
<1>4. /\ IsLru(lru')
      /\ DOMAIN lru'.entry = DOMAIN lru.entry
      /\ \A x \in DOMAIN lru.entry : /\ lru'.entry[x].state = lru.entry[x].state
                                     /\ lru'.entry[x].locks = lru.entry[x].locks
  BY <1>1, <1>2, <1>3, ReplaceEntry
<1>5. \A u \in Threads : /\ at'[u] = at[u]
                         /\ pc'[u] = IF u = t THEN "filled" ELSE pc[u]
  BY DEF Fill, Goto, CoreInv, CoreTypeOK
<1>6. CoreTypeOK'
  BY <1>4 DEF Fill, Goto, CoreInv, CoreTypeOK, Labels
<1>7. \A x : Holders(x)' = Holders(x) /\ Owners(x)' = Owners(x) /\ Sleepers(x)' = Sleepers(x)
  BY <1>1, <1>5 DEF Holders, Owners, Sleepers, Owning, Waiting
<1>8. LockAccounting'
  BY <1>1, <1>4, <1>5, <1>7 DEF LockAccounting, CoreInv, Owning
<1>9. SingleFlight'
  BY <1>4, <1>7 DEF SingleFlight, CoreInv
<1>10. NotificationPending'
  BY <1>1, <1>4, <1>5, <1>7 DEF NotificationPending, CoreInv
<1> QED
  BY <1>6, <1>8, <1>9, <1>10 DEF CoreInv

\* A thread gives its lock back: commit_value(), or a waiter that is served,
\* or rollback() in favour of a waiter.
LEMMA ReleaseLock ==
    ASSUME CoreInv, NEW t \in Threads, pc[t] \in Owning \cup Waiting,
           NEW e, IsEntry(e), e.locks = lru.entry[at[t]].locks - 1,
           lru' = SetEntry(lru, at[t], e), at' = at,
           pc' = [pc EXCEPT ![t] = pc'[t]],
           pc'[t] \in Labels \ (Owning \cup Waiting),
           result' \in [Threads -> Keys \cup {NoFrame}]
    PROVE  /\ CoreTypeOK' /\ LockAccounting'
           /\ DOMAIN lru'.entry = DOMAIN lru.entry
           /\ lru'.entry[at[t]].state = e.state
           /\ \A x \in DOMAIN lru.entry \ {at[t]} : lru'.entry[x] = lru.entry[x]
           /\ \A x : Holders(x)' = Holders(x) \ {t} /\ Owners(x)' = Owners(x) \ {t}
<1> DEFINE k == at[t]
<1>1. k \in Keys /\ k \in DOMAIN lru.entry /\ IsLru(lru) /\ IsEntry(lru.entry[k])
  BY DEF CoreInv, CoreTypeOK, LockAccounting, Owning, Waiting, IsLru
<1>2. t \in Holders(k) /\ \A x : x # k => t \notin Holders(x)
  BY DEF Holders
<1>3. lru.entry[k].locks = Cardinality(Holders(k))
  BY <1>1 DEF CoreInv, LockAccounting
<1>5. /\ IsLru(lru')
      /\ DOMAIN lru'.entry = DOMAIN lru.entry
      /\ lru'.entry[k] = e
      /\ \A x \in DOMAIN lru.entry \ {k} : lru'.entry[x] = lru.entry[x]
  BY <1>1, ReplaceEntry
<1>6. \A u \in Threads : u # t => pc'[u] = pc[u]
  BY DEF CoreInv, CoreTypeOK
<1>7. CoreTypeOK'
  BY <1>1, <1>5, ZenonT(30) DEF CoreInv, CoreTypeOK
<1>8. \A x : Holders(x)' = Holders(x) \ {t} /\ Owners(x)' = Owners(x) \ {t}
  BY <1>6 DEF Holders, Owners
<1>9. LockAccounting'
  <2>1. \A u \in Threads : pc'[u] \in Owning \cup Waiting => at'[u] \in DOMAIN lru'.entry
    BY <1>5, <1>6 DEF LockAccounting, CoreInv
  <2>2. \A x \in DOMAIN lru'.entry : lru'.entry[x].locks = Cardinality(Holders(x)')
    BY <1>1, <1>2, <1>3, <1>5, <1>8, HoldersFinite, FS_RemoveElement
    DEF LockAccounting, CoreInv
  <2> QED
    BY <2>1, <2>2 DEF LockAccounting
<1> QED
  BY <1>5, <1>7, <1>8, <1>9

\* commit_value() leaves no owner behind, and the notify_all that it owes.
LEMMA CommitStep ==
    ASSUME CoreInv, NEW t \in Threads, commit_value(t)
    PROVE  CoreInv'
<1> DEFINE k == at[t]
           e == [lru.entry[k] EXCEPT !.state = "AVAILABLE", !.locks = @ - 1]
<1>1. pc[t] = "filled" /\ pc[t] \in Owning \cup Waiting
  BY DEF commit_value, Owning
<1>2. /\ k \in Keys /\ k \in DOMAIN lru.entry
      /\ IsEntry(lru.entry[k]) /\ lru.entry[k].locks - 1 \in Nat
  BY <1>1, HeldEntry
<1>3. IsEntry(e) /\ e.state = "AVAILABLE" /\ e.locks = lru.entry[k].locks - 1
  BY <1>2 DEF IsEntry, EntryStates
<1>4. lru' = SetEntry(lru, k, e) /\ at' = at /\ pc' = [pc EXCEPT ![t] = "notify_all"]
  BY DEF commit_value, Goto
<1>5. pc'[t] = "notify_all" /\ \A u \in Threads \ {t} : pc'[u] = pc[u]
  BY <1>4 DEF CoreInv, CoreTypeOK
<1>6. result' \in [Threads -> Keys \cup {NoFrame}]
  BY DEF commit_value, CoreInv, CoreTypeOK
<1> HIDE DEF e
<1>7. /\ CoreTypeOK' /\ LockAccounting'
      /\ DOMAIN lru'.entry = DOMAIN lru.entry
      /\ lru'.entry[k].state = "AVAILABLE"
      /\ \A x \in DOMAIN lru.entry \ {k} : lru'.entry[x] = lru.entry[x]
      /\ \A x : Holders(x)' = Holders(x) \ {t} /\ Owners(x)' = Owners(x) \ {t}
  BY <1>1, <1>3, <1>4, <1>5, <1>6, ReleaseLock DEF Labels, Owning, Waiting
<1>8. SingleFlight'
  <2>1. Owners(k) = {t} /\ \A x : x # k => t \notin Holders(x) /\ t \notin Owners(x)
    BY <1>1, <1>2 DEF SingleFlight, CoreInv, Owners, Owning, Holders
  <2> QED
    BY <1>7, <2>1 DEF SingleFlight, CoreInv
<1>9. NotificationPending'
  <2>1. \A x : Sleepers(x)' = Sleepers(x)
    BY <1>1, <1>4, <1>5 DEF Sleepers
  <2> QED
    BY <1>1, <1>4, <1>5, <1>7, <2>1 DEF NotificationPending, CoreInv
<1> QED
  BY <1>7, <1>8, <1>9 DEF CoreInv

\* rollback() with waiters leaves the entry without an owner, with a holder,
\* and with the notify_one that it owes.
LEMMA PassStep ==
    ASSUME CoreInv, NEW t \in Threads, RollbackPass(t)
    PROVE  CoreInv'
<1> DEFINE k == at[t]
           e == [lru.entry[k] EXCEPT !.state = "ROLLED_BACK", !.locks = @ - 1]
<1>1. pc[t] = "own" /\ pc[t] \in Owning \cup Waiting
  BY DEF RollbackPass, Owning
<1>2. /\ k \in Keys /\ k \in DOMAIN lru.entry
      /\ IsEntry(lru.entry[k]) /\ lru.entry[k].locks - 1 \in Nat
  BY <1>1, HeldEntry
<1>3. IsEntry(e) /\ e.state = "ROLLED_BACK" /\ e.locks = lru.entry[k].locks - 1
  BY <1>2 DEF IsEntry, EntryStates
<1>4. lru' = SetEntry(lru, k, e) /\ at' = at /\ pc' = [pc EXCEPT ![t] = "notify_one"]
  BY DEF RollbackPass, Goto
<1>5. pc'[t] = "notify_one" /\ \A u \in Threads \ {t} : pc'[u] = pc[u]
  BY <1>4 DEF CoreInv, CoreTypeOK
<1>6. result' \in [Threads -> Keys \cup {NoFrame}]
  BY DEF RollbackPass, CoreInv, CoreTypeOK
<1> HIDE DEF e
<1>7. /\ CoreTypeOK' /\ LockAccounting'
      /\ DOMAIN lru'.entry = DOMAIN lru.entry
      /\ lru'.entry[k].state = "ROLLED_BACK"
      /\ \A x \in DOMAIN lru.entry \ {k} : lru'.entry[x] = lru.entry[x]
      /\ \A x : Holders(x)' = Holders(x) \ {t} /\ Owners(x)' = Owners(x) \ {t}
  BY <1>1, <1>3, <1>4, <1>5, <1>6, ReleaseLock DEF Labels, Owning, Waiting
<1>8. SingleFlight'
  <2>1. Owners(k) = {t} /\ \A x : x # k => t \notin Holders(x) /\ t \notin Owners(x)
    BY <1>1, <1>2 DEF SingleFlight, CoreInv, Owners, Owning, Holders
  <2>2. Holders(k) # {t}
    BY <1>2, FS_Singleton DEF RollbackPass, LockAccounting, CoreInv
  <2>3. t \in Holders(k)
    BY <1>1 DEF Holders
  <2> QED
    BY <1>7, <2>1, <2>2, <2>3 DEF SingleFlight, CoreInv
<1>9. NotificationPending'
  <2>1. \A x : Sleepers(x)' = Sleepers(x)
    BY <1>1, <1>4, <1>5 DEF Sleepers
  <2> QED
    BY <1>1, <1>4, <1>5, <1>7, <2>1 DEF NotificationPending, CoreInv
<1> QED
  BY <1>7, <1>8, <1>9 DEF CoreInv

\* A waiter that is awake goes back to sleep, takes over, or is served.
LEMMA RecheckStep ==
    ASSUME CoreInv, NEW t \in Threads, Recheck(t)
    PROVE  CoreInv'
<1> DEFINE k == at[t]
<1>1. pc[t] = "woken" /\ pc[t] \in Owning \cup Waiting /\ at' = at
  BY DEF Recheck, Waiting
<1>2. /\ k \in Keys /\ k \in DOMAIN lru.entry /\ IsLru(lru)
      /\ IsEntry(lru.entry[k]) /\ lru.entry[k].locks - 1 \in Nat
  BY <1>1, HeldEntry
<1>3. t \notin Owners(k) /\ \A x : x # k => t \notin Holders(x) /\ t \notin Owners(x)
  BY <1>1 DEF Owners, Holders, Owning
<1>4. CASE lru.entry[k].state = "EMPTY"
  <2>1. lru' = lru /\ result' = result /\ pc' = [pc EXCEPT ![t] = "wait"]
    BY <1>4 DEF Recheck, Goto
  <2>2. \A u \in Threads : pc'[u] = IF u = t THEN "wait" ELSE pc[u]
    BY <2>1 DEF CoreInv, CoreTypeOK
  <2>3. CoreTypeOK'
    BY <1>1, <1>2, <2>1 DEF CoreInv, CoreTypeOK, Labels
  <2>4. \A x : Holders(x)' = Holders(x) /\ Owners(x)' = Owners(x)
    BY <1>1, <2>2 DEF Holders, Owners, Owning, Waiting
  <2>5. \A x : x # k => Sleepers(x)' = Sleepers(x)
    BY <1>1, <2>2 DEF Sleepers
  <2>6. LockAccounting' /\ SingleFlight'
    BY <1>1, <1>2, <2>1, <2>2, <2>4 DEF LockAccounting, SingleFlight, CoreInv
  <2>7. NotificationPending'
    BY <1>1, <1>4, <2>1, <2>2, <2>5 DEF NotificationPending, CoreInv
  <2> QED
    BY <2>3, <2>6, <2>7 DEF CoreInv
<1>5. CASE lru.entry[k].state = "ROLLED_BACK"
  <2> DEFINE e == [lru.entry[k] EXCEPT !.state = "EMPTY"]
  <2>1. lru' = SetEntry(lru, k, e) /\ result' = result /\ pc' = [pc EXCEPT ![t] = "own"]
    BY <1>5 DEF Recheck, Goto
  <2>2. \A u \in Threads : pc'[u] = IF u = t THEN "own" ELSE pc[u]
    BY <2>1 DEF CoreInv, CoreTypeOK
  <2>3. IsEntry(e) /\ e.state = "EMPTY" /\ e.locks = lru.entry[k].locks
    BY <1>2 DEF IsEntry, EntryStates
  <2> HIDE DEF e
  <2>4. /\ IsLru(lru')
        /\ DOMAIN lru'.entry = DOMAIN lru.entry
        /\ lru'.entry[k].state = "EMPTY" /\ lru'.entry[k].locks = lru.entry[k].locks
        /\ \A x \in DOMAIN lru.entry \ {k} : lru'.entry[x] = lru.entry[x]
    BY <1>2, <2>1, <2>3, ReplaceEntry
  <2>5. CoreTypeOK'
    BY <1>1, <1>2, <2>1, <2>4 DEF CoreInv, CoreTypeOK, Labels
  <2>6. \A x : /\ Holders(x)' = Holders(x)
               /\ Owners(x)' = IF x = k THEN Owners(x) \cup {t} ELSE Owners(x)
               /\ Sleepers(x)' = Sleepers(x)
    BY <1>1, <2>2 DEF Holders, Owners, Sleepers, Owning, Waiting
  <2>7. Owners(k) = {}
    BY <1>2, <1>5 DEF SingleFlight, CoreInv
  <2>8. LockAccounting'
    BY <1>1, <1>2, <2>2, <2>4, <2>6 DEF LockAccounting, CoreInv
  <2>9. SingleFlight'
    BY <2>4, <2>6, <2>7 DEF SingleFlight, CoreInv
  <2>10. NotificationPending'
    BY <1>1, <2>2, <2>4, <2>6 DEF NotificationPending, CoreInv
  <2> QED
    BY <2>5, <2>8, <2>9, <2>10 DEF CoreInv
<1>6. CASE lru.entry[k].state = "AVAILABLE"
  <2> DEFINE e == [lru.entry[k] EXCEPT !.locks = @ - 1]
  <2>1. /\ lru' = SetEntry(lru, k, e)
        /\ result' = [result EXCEPT ![t] = lru.entry[k].value]
        /\ pc' = [pc EXCEPT ![t] = "returned"]
    BY <1>6 DEF Recheck, Return, Goto
  <2>2. pc'[t] = "returned" /\ \A u \in Threads \ {t} : pc'[u] = pc[u]
    BY <2>1 DEF CoreInv, CoreTypeOK
  <2>3. IsEntry(e) /\ e.state = "AVAILABLE" /\ e.locks = lru.entry[k].locks - 1
    BY <1>2, <1>6 DEF IsEntry
  <2>4. result' \in [Threads -> Keys \cup {NoFrame}]
    BY <1>2, <2>1 DEF IsEntry, CoreInv, CoreTypeOK
  <2> HIDE DEF e
  <2>5. /\ CoreTypeOK' /\ LockAccounting'
        /\ DOMAIN lru'.entry = DOMAIN lru.entry
        /\ lru'.entry[k].state = "AVAILABLE"
        /\ \A x \in DOMAIN lru.entry \ {k} : lru'.entry[x] = lru.entry[x]
        /\ \A x : Holders(x)' = Holders(x) \ {t} /\ Owners(x)' = Owners(x) \ {t}
    BY <1>1, <2>1, <2>2, <2>3, <2>4, ReleaseLock DEF Labels, Owning, Waiting
  <2>6. SingleFlight'
    BY <1>2, <1>3, <1>6, <2>5 DEF SingleFlight, CoreInv
  <2>7. \A x : Sleepers(x)' = Sleepers(x)
    BY <1>1, <2>1, <2>2 DEF Sleepers
  <2>8. NotificationPending'
    BY <1>1, <1>2, <1>6, <2>1, <2>2, <2>5, <2>7 DEF NotificationPending, CoreInv
  <2> QED
    BY <2>5, <2>6, <2>8 DEF CoreInv
<1> QED
  BY <1>2, <1>4, <1>5, <1>6 DEF IsEntry, EntryStates

\* rollback() without waiters: the last holder takes the entry with it.
LEMMA RemoveStep ==
    ASSUME CoreInv, NEW t \in Threads, RollbackRemove(t)
    PROVE  CoreInv'
<1> DEFINE k == at[t]
<1>1. pc[t] = "own" /\ pc[t] \in Owning \cup Waiting
  BY DEF RollbackRemove, Owning
<1>2. k \in Keys /\ k \in DOMAIN lru.entry /\ IsLru(lru)
  BY <1>1, HeldEntry
<1>3. Holders(k) = {t}
  <2>1. Cardinality(Holders(k)) = 1 /\ t \in Holders(k)
    BY <1>1, <1>2 DEF RollbackRemove, LockAccounting, CoreInv, Holders
  <2> QED
    BY <2>1, HoldersFinite, FS_Singleton
<1>4. lru' = WithoutEntries(lru, {k})
  BY DEF RollbackRemove
<1>5. /\ IsLru(lru')
      /\ DOMAIN lru'.entry = DOMAIN lru.entry \ {k}
      /\ \A x \in DOMAIN lru'.entry : lru'.entry[x] = lru.entry[x]
  <2>0. lru = [f \in LruFields |-> lru[f]]
    BY <1>2 DEF IsLru
  <2>1. /\ lru' = [f \in LruFields |-> lru'[f]]
        /\ lru'.cap = lru.cap
        /\ lru'.entry = [x \in DOMAIN lru.entry \ {k} |-> lru.entry[x]]
    BY <1>4, <2>0 DEF WithoutEntries, LruFields
  <2> QED
    BY <1>2, <2>1 DEF IsLru
<1>6. \A u \in Threads : /\ pc'[u] = IF u = t THEN "idle" ELSE pc[u]
                         /\ at'[u] = IF u = t THEN NoFrame ELSE at[u]
  BY DEF RollbackRemove, Goto, CoreInv, CoreTypeOK
<1>7. CoreTypeOK'
  BY <1>5, <1>6 DEF RollbackRemove, Goto, CoreInv, CoreTypeOK, Labels
<1>8. \A x : x # k => Holders(x)' = Holders(x) /\ Owners(x)' = Owners(x) /\ Sleepers(x)' = Sleepers(x)
  BY <1>1, <1>6 DEF Holders, Owners, Sleepers, Owning, Waiting
<1>9. LockAccounting'
  <2>1. \A u \in Threads : pc'[u] \in Owning \cup Waiting => at'[u] \in DOMAIN lru'.entry
    BY <1>3, <1>5, <1>6 DEF LockAccounting, CoreInv, Holders, Owning, Waiting
  <2>2. \A x \in DOMAIN lru'.entry : lru'.entry[x].locks = Cardinality(Holders(x)')
    BY <1>5, <1>8 DEF LockAccounting, CoreInv
  <2> QED
    BY <2>1, <2>2 DEF LockAccounting
<1>10. SingleFlight'
  BY <1>5, <1>8 DEF SingleFlight, CoreInv
<1>11. NotificationPending'
  <2>1. \A u \in Threads : \/ pc'[u] = pc[u] /\ at'[u] = at[u]
                           \/ u = t /\ at[u] = k
    BY <1>6
  <2> QED
    BY <1>5, <1>8, <2>1 DEF NotificationPending, CoreInv
<1> QED
  BY <1>7, <1>9, <1>10, <1>11 DEF CoreInv

\* Waking threads changes no entry, no lock and no owner.
LEMMA WakeKeeps ==
    ASSUME CoreInv, CoreTypeOK', lru' = lru,
           \A u \in Threads :
               \/ pc'[u] = pc[u] /\ at'[u] = at[u]
               \/ pc[u] = "wait" /\ pc'[u] = "woken" /\ at'[u] = at[u]
               \/ pc[u] \notin Owning \cup Waiting /\ pc'[u] \notin Owning \cup Waiting
    PROVE  LockAccounting' /\ SingleFlight'
<1>1. \A x : Holders(x)' = Holders(x) /\ Owners(x)' = Owners(x)
  BY DEF Holders, Owners, Owning, Waiting
<1> QED
  BY <1>1 DEF LockAccounting, SingleFlight, CoreInv, Owning, Waiting

LEMMA NotifyAllStep ==
    ASSUME CoreInv, NEW t \in Threads, notify_all(t)
    PROVE  CoreInv'
<1>1. CoreTypeOK'
  BY DEF notify_all, CoreInv, CoreTypeOK, Labels
<1>2. /\ lru' = lru /\ at' = at /\ pc[t] = "notify_all"
      /\ \A u \in Threads : pc'[u] = IF u = t THEN "returned"
                                     ELSE IF pc[u] = "wait" /\ at[u] = at[t] THEN "woken"
                                     ELSE pc[u]
  BY DEF notify_all
<1>3. LockAccounting' /\ SingleFlight'
  BY <1>1, <1>2, WakeKeeps DEF Owning, Waiting
<1>4. NotificationPending'
  <2>1. Sleepers(at[t])' = {} /\ \A x : x # at[t] => Sleepers(x)' = Sleepers(x)
    BY <1>2 DEF Sleepers
  <2> QED
    BY <1>2, <2>1 DEF NotificationPending, CoreInv
<1> QED
  BY <1>1, <1>3, <1>4 DEF CoreInv

\* The notification of rollback() reaches a sleeper, or there is none because
\* every waiter is awake already.
LEMMA NotifyOneStep ==
    ASSUME CoreInv, NEW t \in Threads, notify_one(t)
    PROVE  CoreInv'
<1>1. pc[t] = "notify_one" /\ lru' = lru
  BY DEF notify_one
<1>2. \A u \in Threads : at'[u] = IF u = t THEN NoFrame ELSE at[u]
  BY DEF notify_one, CoreInv, CoreTypeOK
<1>3. CASE \E u \in Sleepers(at[t]) : pc' = [pc EXCEPT ![t] = "idle", ![u] = "woken"]
  <2>0. PICK w \in Sleepers(at[t]) : pc' = [pc EXCEPT ![t] = "idle", ![w] = "woken"]
    BY <1>3
  <2>1. w \in Threads /\ pc[w] = "wait" /\ at[w] = at[t] /\ w # t
    BY <1>1 DEF Sleepers
  <2>2. \A u \in Threads : pc'[u] = IF u = t THEN "idle" ELSE IF u = w THEN "woken" ELSE pc[u]
    BY <2>0, <2>1 DEF CoreInv, CoreTypeOK
  <2>3. CoreTypeOK'
    BY <1>1, <1>2, <2>0, <2>1, <2>2 DEF notify_one, CoreInv, CoreTypeOK, Labels
  <2>4. LockAccounting' /\ SingleFlight'
    BY <1>1, <1>2, <2>1, <2>2, <2>3, WakeKeeps DEF Owning, Waiting
  <2>5. NotificationPending'
    <3>1. \A x : Sleepers(x)' \subseteq Sleepers(x)
      BY <1>1, <1>2, <2>2 DEF Sleepers
    <3>2. pc'[w] = "woken" /\ at'[w] = at[t]
      BY <1>2, <2>1, <2>2
    <3> QED
      BY <1>1, <1>2, <2>1, <2>2, <3>1, <3>2 DEF NotificationPending, CoreInv
  <2> QED
    BY <2>3, <2>4, <2>5 DEF CoreInv
<1>4. CASE Sleepers(at[t]) = {} /\ pc' = [pc EXCEPT ![t] = "idle"]
  <2>1. \A u \in Threads : pc'[u] = IF u = t THEN "idle" ELSE pc[u]
    BY <1>4 DEF CoreInv, CoreTypeOK
  <2>2. CoreTypeOK'
    BY <1>1, <1>2, <1>4, <2>1 DEF notify_one, CoreInv, CoreTypeOK, Labels
  <2>3. LockAccounting' /\ SingleFlight'
    BY <1>1, <1>2, <2>1, <2>2, WakeKeeps DEF Owning, Waiting
  <2>4. NotificationPending'
    <3>1. \A x : Sleepers(x)' \subseteq Sleepers(x)
      BY <1>1, <1>2, <2>1 DEF Sleepers
    <3>2. at[t] \in DOMAIN lru.entry /\ lru.entry[at[t]].state = "ROLLED_BACK"
            => \E u \in Threads : pc[u] = "woken" /\ at[u] = at[t]
      BY <1>4 DEF SingleFlight, CoreInv, Holders, Owners, Sleepers, Waiting
    <3> QED
      BY <1>1, <1>2, <2>1, <3>1, <3>2 DEF NotificationPending, CoreInv
  <2> QED
    BY <2>2, <2>3, <2>4 DEF CoreInv
<1> QED
  BY <1>3, <1>4 DEF notify_one, Goto

LEMMA SpuriousStep ==
    ASSUME CoreInv, NEW t \in Threads, SpuriousWakeup(t)
    PROVE  CoreInv'
<1>1. /\ lru' = lru /\ at' = at /\ pc[t] = "wait"
      /\ \A u \in Threads : pc'[u] = IF u = t THEN "woken" ELSE pc[u]
  BY DEF SpuriousWakeup, Goto, CoreInv, CoreTypeOK
<1>2. CoreTypeOK'
  BY DEF SpuriousWakeup, Goto, CoreInv, CoreTypeOK, Labels
<1>3. LockAccounting' /\ SingleFlight'
  BY <1>1, <1>2, WakeKeeps
<1>4. NotificationPending'
  <2>1. \A x : Sleepers(x)' \subseteq Sleepers(x)
    BY <1>1 DEF Sleepers
  <2> QED
    BY <1>1, <2>1 DEF NotificationPending, CoreInv
<1> QED
  BY <1>2, <1>3, <1>4 DEF CoreInv

LEMMA CoreStep == CoreInv /\ [Next]_vars => CoreInv'
<1> SUFFICES ASSUME CoreInv, [Next]_vars PROVE CoreInv'
  OBVIOUS
<1>1. CASE \E t \in Threads : Progress(t)
  <2> PICK t \in Threads : Progress(t)
    BY <1>1
  <2>1. CASE Uncached(t) \/ Consume(t)
    <3>1. at[t] \in Keys
      BY <2>1 DEF Uncached, Consume, CoreInv, CoreTypeOK
    <3> QED
      BY <2>1, <3>1, UncachedStep
  <2> QED
    BY <2>1, RecheckStep, FillStep, CommitStep, NotifyAllStep, RemoveStep,
       PassStep, NotifyOneStep DEF Progress
<1>2. CASE \E t \in Threads, k \in Keys : Lookup(t, k)
  BY <1>2, ReadyStep, WaitStep, NotFoundStep, UncachedStep DEF Lookup
<1>3. CASE \E t \in Threads : SpuriousWakeup(t)
  BY <1>3, SpuriousStep
<1>4. CASE \E l \in Limits : set_limits(l[1], l[2])
  BY <1>4, LimitsStep
<1>5. CASE UNCHANGED vars
  <2>1. CoreTypeOK'
    BY <1>5 DEF vars, CoreInv, CoreTypeOK
  <2>2. Evicted(lru, lru')
    BY <1>5 DEF vars, Evicted, Pinned
  <2> QED
    BY <1>5, <2>1, <2>2, QuietStep DEF vars
<1> QED
  BY <1>1, <1>2, <1>3, <1>4, <1>5 DEF Next

-------------------------------------------------------------------------------
(* The recency list and the ghost list                                     *)

\* The ghost list holds a key once, and remembers up to two evictions.
GhostsOK(c) ==
    /\ c.ghosts \in Seq(Keys)
    /\ Distinct(c.ghosts)
    /\ c.ghosted \in [Keys -> 0..2]
    /\ c.ghostCap \in Nat

\* A cache that can store something may always store something: only its limits
\* can bring its capacity down to nothing.
CapOK(c) == c.cap.real # 0 => c.cap.min # 0 \/ c.cap.max # 0

\* The list holds the keys of the entries and those of K, for which an entry is
\* about to be made.
Coherent(c, K) ==
    /\ c.order \in Seq(Keys)
    /\ Distinct(c.order)
    /\ Members(c.order) = DOMAIN c.entry \cup K
    /\ \A k \in DOMAIN c.entry : c.entry[k].ghosted \in 0..2
    /\ GhostsOK(c)
    /\ CapOK(c)

LEMMA ListedMembers ==
    ASSUME NEW A, NEW list \in Seq(A), NEW k
    PROVE  Listed(list, k) <=> k \in Members(list)
BY DEF Listed, Members

LEMMA FrontList ==
    ASSUME NEW A, NEW list \in Seq(A), NEW k \in A, Distinct(list)
    PROVE  /\ MoveToFront(list, k) \in Seq(A)
           /\ Distinct(MoveToFront(list, k))
           /\ Members(MoveToFront(list, k)) = Members(list) \cup {k}
<1> DEFINE d == Drop(list, {k})
<1>1. d \in Seq(A) /\ Members(d) = Members(list) \ {k} /\ Distinct(d)
  BY DropList
<1>2. MoveToFront(list, k) = <<k>> \o d
  BY DEF MoveToFront
<1> HIDE DEF d
<1>3. /\ <<k>> \o d \in Seq(A)
      /\ Members(<<k>> \o d) = Members(d) \cup {k}
      /\ Distinct(d) /\ k \notin Members(d) => Distinct(<<k>> \o d)
  BY <1>1, PrependList
<1> QED
  BY <1>1, <1>2, <1>3

LEMMA GhostPutOK ==
    ASSUME NEW c, IsLru(c), GhostsOK(c), NEW k \in Keys, NEW n \in 0..2
    PROVE  LET d == GhostPut(c, k, n)
           IN  /\ IsLru(d) /\ GhostsOK(d)
               /\ d.order = c.order /\ d.entry = c.entry /\ d.cap = c.cap
<1> DEFINE d == GhostPut(c, k, n)
<1>0. c = [f \in LruFields |-> c[f]]
  BY DEF IsLru
<1>1. IsLru(d)
  BY GhostPutKeeps
<1>2. CASE Listed(c.ghosts, k)
  <2> DEFINE g == MoveToFront(c.ghosts, k)
             h == [c.ghosted EXCEPT ![k] = n]
  <2>1. d = [c EXCEPT !.ghosts = g, !.ghosted = h]
    BY <1>2, Zenon DEF GhostPut
  <2>2. g \in Seq(Keys) /\ Distinct(g)
    BY FrontList DEF GhostsOK
  <2>3. h \in [Keys -> 0..2]
    BY DEF GhostsOK
  <2> HIDE DEF d, g, h
  <2>4. /\ d.ghosts = g /\ d.ghosted = h /\ d.ghostCap = c.ghostCap
        /\ d.order = c.order /\ d.entry = c.entry /\ d.cap = c.cap
    BY <1>0, <2>1 DEF LruFields
  <2>5. GhostsOK(d)
    BY <2>2, <2>3, <2>4 DEF GhostsOK
  <2> QED
    BY <1>1, <2>4, <2>5 DEF d
<1>3. CASE ~Listed(c.ghosts, k)
  <2> DEFINE gone == Victims(c.ghosts, c.ghostCap, {})
             r == Drop(c.ghosts, gone)
             g == <<k>> \o r
             h == [x \in Keys |-> CASE x = k -> n
                                    [] x # k /\ x \in gone -> 0
                                    [] OTHER -> c.ghosted[x]]
  <2>1. d = [c EXCEPT !.ghosts = g, !.ghosted = h]
    BY <1>3, Zenon DEF GhostPut
  <2> HIDE DEF gone
  <2>2. r \in Seq(Keys) /\ Distinct(r) /\ Members(r) = Members(c.ghosts) \ gone
    BY DropList DEF GhostsOK
  <2>3. k \notin Members(r)
    BY <1>3, <2>2, ListedMembers DEF GhostsOK
  <2> HIDE DEF r
  <2>4. g \in Seq(Keys) /\ Distinct(g)
    BY <2>2, <2>3, PrependList
  <2>5. h \in [Keys -> 0..2]
    BY DEF GhostsOK
  <2> HIDE DEF d, g, h
  <2>6. /\ d.ghosts = g /\ d.ghosted = h /\ d.ghostCap = c.ghostCap
        /\ d.order = c.order /\ d.entry = c.entry /\ d.cap = c.cap
    BY <1>0, <2>1 DEF LruFields
  <2>7. GhostsOK(d)
    BY <2>4, <2>5, <2>6 DEF GhostsOK
  <2> QED
    BY <1>1, <2>6, <2>7 DEF d
<1> QED
  BY <1>2, <1>3

LEMMA EvictEventOK ==
    ASSUME NEW c, IsLru(c), GhostsOK(c), NEW k \in DOMAIN c.entry, c.entry[k].ghosted \in 0..2
    PROVE  LET d == MainEvictEvent(c, k)
           IN  IsLru(d) /\ GhostsOK(d) /\ d.entry = c.entry
<1> DEFINE n == Saturate(1 + (IF Listed(c.ghosts, k) THEN c.ghosted[k] ELSE c.entry[k].ghosted))
<1>1. k \in Keys
  BY DEF IsLru
<1>2. n \in 0..2
  BY <1>1 DEF Saturate, GhostsOK
<1>3. MainEvictEvent(c, k) = GhostPut(c, k, n)
  BY Zenon DEF MainEvictEvent
<1> HIDE DEF n
<1> QED
  BY <1>1, <1>2, <1>3, GhostPutOK

\* g is the function seen of Counted, for the first n keys.
IsSeen(c, V, n, g) ==
    g = [i \in 0 .. n |->
            IF i = 0 THEN c
            ELSE IF c.order[Len(c.order) + 1 - i] \in V
                 THEN MainEvictEvent(g[i - 1], c.order[Len(c.order) + 1 - i]) ELSE g[i - 1]]

LEMMA SeenExists ==
    ASSUME NEW c, NEW V
    PROVE  \A n \in Nat : \E g : IsSeen(c, V, n, g)
<1> DEFINE P == {n \in Nat : \E g : IsSeen(c, V, n, g)}
           Step(i, d) == IF c.order[Len(c.order) + 1 - i] \in V
                         THEN MainEvictEvent(d, c.order[Len(c.order) + 1 - i]) ELSE d
<1>1. 0 \in P
  <2> DEFINE g == [i \in 0 .. 0 |-> c]
  <2>1. g = [i \in 0 .. 0 |-> IF i = 0 THEN c ELSE Step(i, g[i - 1])]
    <3>1. \A i \in 0 .. 0 : i = 0
      OBVIOUS
    <3> HIDE DEF Step
    <3> QED
      BY <3>1
  <2> HIDE DEF g
  <2>2. IsSeen(c, V, 0, g)
    BY <2>1, Zenon DEF IsSeen
  <2> QED
    BY <2>2
<1>2. ASSUME NEW n \in Nat, n \in P PROVE n + 1 \in P
  <2>1. PICK g : IsSeen(c, V, n, g)
    BY <1>2
  <2> DEFINE last == Step(n + 1, g[n])
             h == [i \in 0 .. n + 1 |-> IF i = n + 1 THEN last ELSE g[i]]
  <2>2. g = [i \in 0 .. n |-> IF i = 0 THEN c ELSE Step(i, g[i - 1])]
    BY <2>1, Zenon DEF IsSeen
  <2> HIDE DEF Step
  <2>3. \A i \in 0 .. n : g[i] = IF i = 0 THEN c ELSE Step(i, g[i - 1])
    BY <2>2
  <2>4. ASSUME NEW i \in 0 .. n + 1
        PROVE  h[i] = IF i = 0 THEN c ELSE Step(i, h[i - 1])
    <3> HIDE DEF last
    <3>1. CASE i = n + 1
      <4>1. i # 0 /\ i - 1 = n /\ n \in 0 .. n + 1 /\ n # n + 1
        BY <1>2, <3>1
      <4>2. h[i] = last /\ h[i - 1] = g[n]
        BY <3>1, <4>1
      <4> QED
        BY <3>1, <4>1, <4>2 DEF last
    <3>2. CASE i # n + 1 /\ i # 0
      <4>1. i \in 0 .. n /\ i - 1 \in 0 .. n + 1 /\ i - 1 # n + 1
        BY <1>2, <3>2
      <4>2. h[i] = g[i] /\ h[i - 1] = g[i - 1]
        BY <3>2, <4>1
      <4> QED
        BY <2>3, <3>2, <4>1, <4>2
    <3>3. CASE i = 0
      <4>1. 0 # n + 1 /\ 0 \in 0 .. n
        BY <1>2
      <4> QED
        BY <2>3, <3>3, <4>1
    <3> QED
      BY <3>1, <3>2, <3>3
  <2>5. h = [i \in 0 .. n + 1 |-> h[i]]
    OBVIOUS
  <2> HIDE DEF h
  <2>6. h = [i \in 0 .. n + 1 |-> IF i = 0 THEN c ELSE Step(i, h[i - 1])]
    BY <2>4, <2>5
  <2>7. IsSeen(c, V, n + 1, h)
    BY <2>6, Zenon DEF IsSeen, Step
  <2> QED
    BY <1>2, <2>7
<1> HIDE DEF P
<1>3. Nat \subseteq P
  BY <1>1, <1>2, InductionOnSet
<1> QED
  BY <1>3 DEF P

\* Counting the evictions of the victims touches the ghosts only.
LEMMA CountedOK ==
    ASSUME NEW c, IsLru(c), GhostsOK(c), c.order \in Seq(Keys),
           NEW V, V \subseteq DOMAIN c.entry,
           \A k \in DOMAIN c.entry : c.entry[k].ghosted \in 0..2
    PROVE  GhostsOK(Counted(c, V))
<1> DEFINE len == Len(c.order)
           g == CHOOSE f : IsSeen(c, V, len, f)
<1>1. len \in Nat
  OBVIOUS
<1>2. IsSeen(c, V, len, g)
  BY <1>1, SeenExists
<1>3. Counted(c, V) = g[len]
  BY Zenon DEF Counted, IsSeen
<1> HIDE DEF g
<1>4. \A i \in 0 .. len : g[i] = IF i = 0 THEN c
                                 ELSE IF c.order[len + 1 - i] \in V
                                      THEN MainEvictEvent(g[i - 1], c.order[len + 1 - i]) ELSE g[i - 1]
  BY <1>2 DEF IsSeen
<1> DEFINE P == {i \in Nat : i <= len => IsLru(g[i]) /\ GhostsOK(g[i]) /\ g[i].entry = c.entry}
<1>5. 0 \in P
  <2>1. g[0] = c
    BY <1>1, <1>4
  <2> QED
    BY <2>1
<1>6. ASSUME NEW i \in Nat, i \in P PROVE i + 1 \in P
  <2> SUFFICES ASSUME i + 1 <= len
               PROVE  IsLru(g[i + 1]) /\ GhostsOK(g[i + 1]) /\ g[i + 1].entry = c.entry
    OBVIOUS
  <2> DEFINE d == g[i]
             k == c.order[len + 1 - (i + 1)]
  <2>1. i <= len /\ i + 1 \in 0 .. len /\ i + 1 # 0 /\ (i + 1) - 1 = i
    BY <1>1
  <2>2. IsLru(d) /\ GhostsOK(d) /\ d.entry = c.entry
    BY <1>6, <2>1
  <2>3. g[i + 1] = IF k \in V THEN MainEvictEvent(d, k) ELSE d
    <3>1. g[i + 1] = IF i + 1 = 0 THEN c
                     ELSE IF c.order[len + 1 - (i + 1)] \in V
                          THEN MainEvictEvent(g[(i + 1) - 1], c.order[len + 1 - (i + 1)])
                          ELSE g[(i + 1) - 1]
      BY <1>4, <2>1, Zenon
    <3> QED
      BY <2>1, <3>1, Zenon
  <2> HIDE DEF d, k
  <2>4. CASE k \in V
    <3>1. k \in DOMAIN d.entry /\ d.entry[k].ghosted \in 0..2
      BY <2>2, <2>4
    <3> QED
      BY <2>2, <2>3, <2>4, <3>1, EvictEventOK
  <2>5. CASE k \notin V
    BY <2>2, <2>3, <2>5
  <2> QED
    BY <2>4, <2>5
<1> HIDE DEF P
<1>7. Nat \subseteq P
  BY <1>5, <1>6, InductionOnSet
<1>8. len \in P
  BY <1>1, <1>7
<1> QED
  BY <1>1, <1>3, <1>8 DEF P
\* What trim() leaves: the front of the list, and the entries in use.
LEMMA TrimList ==
    ASSUME NEW c, IsLru(c), NEW K, Coherent(c, K),
           K \cap Victims(c.order, c.cap.real, Pinned(c)) = {}
    PROVE  /\ Coherent(Trim(c), K)
           /\ Trim(c).order = Drop(c.order, Victims(c.order, c.cap.real, Pinned(c)))
<1> DEFINE V == Victims(c.order, c.cap.real, Pinned(c))
           w == WithoutEntries(c, V)
           d == Trim(c)
           g == Counted(c, V)
<1>0. c = [f \in LruFields |-> c[f]]
  BY DEF IsLru
<1>1. V \subseteq DOMAIN c.entry
  <2>1. V \subseteq Members(c.order)
    <3>1. DOMAIN c.order = 1 .. Len(c.order)
      BY DEF Coherent
    <3> QED
      BY <3>1 DEF Victims, Members
  <2>2. K \cap V = {}
    OBVIOUS
  <2> HIDE DEF V
  <2> QED
    BY <2>1, <2>2 DEF Coherent
<1>2. GhostsOK(g)
  <2> HIDE DEF V
  <2> QED
    BY <1>1, CountedOK DEF Coherent
<1>3. d = [w EXCEPT !.ghosts = g.ghosts, !.ghosted = g.ghosted]
  BY Zenon DEF Trim
<1> HIDE DEF V, g
<1>4. w = [f \in LruFields |-> w[f]] /\ w.cap = c.cap /\ w.ghostCap = c.ghostCap
      /\ w.entry = [x \in DOMAIN c.entry \ V |-> c.entry[x]]
      /\ w.order = Drop(c.order, V)
  BY <1>0 DEF WithoutEntries, LruFields
<1> HIDE DEF w, d
<1>5. /\ d.cap = c.cap /\ d.ghostCap = c.ghostCap /\ d.entry = w.entry /\ d.order = w.order
      /\ d.ghosts = g.ghosts /\ d.ghosted = g.ghosted
  BY <1>3, <1>4 DEF LruFields
<1>6. /\ d.order \in Seq(Keys) /\ Distinct(d.order)
      /\ Members(d.order) = Members(c.order) \ V
  BY <1>4, <1>5, DropList DEF Coherent
<1>7. Members(d.order) = DOMAIN d.entry \cup K
  BY <1>4, <1>5, <1>6 DEF Coherent, V
<1>8. \A k \in DOMAIN d.entry : d.entry[k].ghosted \in 0..2
  BY <1>4, <1>5 DEF Coherent
<1>9. GhostsOK(d) /\ CapOK(d)
  BY <1>2, <1>5 DEF Coherent, GhostsOK, CapOK
<1>10. Coherent(d, K)
  BY <1>6, <1>7, <1>8, <1>9 DEF Coherent
<1> QED
  BY <1>4, <1>5, <1>10 DEF d, V

\* trim() leaves no more than the capacity and the entries in use.
LEMMA TrimSize ==
    ASSUME NEW c, IsLru(c), NEW K, Coherent(c, K),
           K \cap Victims(c.order, c.cap.real, Pinned(c)) = {}
    PROVE  /\ IsFiniteSet(Pinned(c))
           /\ Len(Trim(c).order) <= c.cap.real + Cardinality(Pinned(c))
<1> DEFINE V == Victims(c.order, c.cap.real, Pinned(c))
           P == Pinned(c)
           r == c.cap.real
           F == {c.order[i] : i \in 1 .. r}
           d == Trim(c)
<1>1. Coherent(d, K) /\ d.order = Drop(c.order, V)
  BY TrimList
<1>2. r \in Nat
  BY DEF IsLru, Capacities
<1>3. IsFiniteSet(P) /\ Cardinality(P) \in Nat
  <2>1. IsFiniteSet(Members(c.order))
    BY DistinctLength DEF Coherent
  <2>2. P \in SUBSET Members(c.order)
    BY DEF Pinned, Coherent
  <2> QED
    BY <2>1, <2>2, FS_Subset, FS_CardinalityType
<1>4. IsFiniteSet(F) /\ Cardinality(F) \in Nat /\ Cardinality(F) <= r
  BY <1>2, PrefixCount
<1>5. Members(d.order) \subseteq F \cup P
  <2>1. Members(d.order) = Members(c.order) \ V
    BY <1>1, DropList DEF Coherent
  <2>2. DOMAIN c.order = 1 .. Len(c.order) /\ Len(c.order) \in Nat
    BY DEF Coherent
  <2>3. ASSUME NEW x \in Members(c.order), x \notin F PROVE x \in V \/ x \in P
    <3>1. PICK i \in 1 .. Len(c.order) : c.order[i] = x
      BY DEF Members
    <3>2. i > r
      BY <1>2, <2>3, <3>1
    <3> QED
      BY <2>2, <3>1, <3>2 DEF Victims
  <2> HIDE DEF V, F, P
  <2> QED
    BY <2>1, <2>3
<1>6. IsFiniteSet(Members(d.order)) /\ Cardinality(Members(d.order)) = Len(d.order)
  BY <1>1, DistinctLength DEF Coherent
<1> HIDE DEF F, P, d, V, r
<1>7. IsFiniteSet(F \cup P) /\ Cardinality(F \cup P) <= Cardinality(F) + Cardinality(P)
  <2>1. IsFiniteSet(F \cup P)
        /\ Cardinality(F \cup P) = Cardinality(F) + Cardinality(P) - Cardinality(F \cap P)
    BY <1>3, <1>4, FS_Union
  <2>2. Cardinality(F \cap P) \in Nat
    <3>1. F \cap P \in SUBSET F
      OBVIOUS
    <3> QED
      BY <1>4, <3>1, FS_Subset, FS_CardinalityType
  <2> QED
    BY <1>3, <1>4, <2>1, <2>2
<1>8. Cardinality(Members(d.order)) <= Cardinality(F \cup P)
  BY <1>5, <1>7, FS_Subset
<1>9. Cardinality(F \cup P) \in Nat /\ Len(d.order) \in Nat
  BY <1>1, <1>7, FS_CardinalityType DEF Coherent
<1>10. Len(d.order) <= r + Cardinality(P)
  BY <1>2, <1>3, <1>4, <1>6, <1>7, <1>8, <1>9
<1> QED
  BY <1>3, <1>10 DEF P, d, r

\* The key in front is no victim of a cache that can store something.
LEMMA FrontStays ==
    ASSUME NEW c, IsLru(c), NEW K, Coherent(c, K), c.cap.real # 0,
           NEW k, c.order # <<>>, c.order[1] = k
    PROVE  k \notin Victims(c.order, c.cap.real, Pinned(c))
<1>1. c.cap.real \in Nat /\ DOMAIN c.order = 1 .. Len(c.order) /\ Len(c.order) \in Nat
  BY DEF IsLru, Capacities, Coherent
<1>2. 1 \in 1 .. Len(c.order)
  BY <1>1 DEF Coherent
<1>3. ASSUME NEW j \in DOMAIN c.order, j > c.cap.real, c.order[j] = k PROVE FALSE
  <2>1. j = 1
    BY <1>1, <1>2, <1>3 DEF Coherent, Distinct
  <2> QED
    BY <1>1, <1>3, <2>1
<1> QED
  BY <1>3 DEF Victims

\* resize() and set_limits(): any limits at all.
LEMMA CapacityOK ==
    ASSUME NEW p \in Capacities, NEW n \in Nat
    PROVE  LET q == ResizeCapacity(p, n)
           IN  /\ q.real # 0 => q.min # 0 \/ q.max # 0
               /\ n # 0 /\ (p.min # 0 \/ p.max # 0) => q.real # 0
<1> DEFINE x == clamp(n, p.min, p.max)
           q == ResizeCapacity(p, n)
<1>1. p.min \in Nat /\ p.max \in Nat
  BY DEF Capacities
<1>2. /\ x # 0 => p.min # 0 \/ p.max # 0
      /\ n # 0 /\ (p.min # 0 \/ p.max # 0) => x # 0
  BY <1>1 DEF clamp
<1> HIDE DEF x
<1>3. q.real = x /\ q.min = p.min /\ q.max = p.max
  BY DEF ResizeCapacity, Capacities, x
<1> QED
  BY <1>2, <1>3

LEMMA TrimCoherent ==
    ASSUME NEW c, IsLru(c), Coherent(c, {})
    PROVE  Coherent(Trim(c), {})
<1>1. {} \cap Victims(c.order, c.cap.real, Pinned(c)) = {}
  OBVIOUS
<1> QED
  BY <1>1, TrimList

\* A cache that is linked to k has k in front.
InFront(c, k) == Len(c.order) # 0 /\ c.order[1] = k

LEMMA LinkCoherent ==
    ASSUME NEW c, IsLru(c), Coherent(c, {}), NEW k \in Keys, k \notin DOMAIN c.entry
    PROVE  LET d == Link(c, k)
           IN  /\ d.cap = c.cap
               /\ c.cap.real = 0 => Coherent(d, {})
               /\ c.cap.real # 0 =>
                    /\ Coherent(d, {k}) /\ InFront(d, k)
                    /\ Len(d.order) <= c.cap.real + Cardinality(Pinned(c)) + 1
<1> DEFINE e == Trim(c)
           d == Link(c, k)
<1>1. IsLru(e) /\ e.cap = c.cap /\ Evicted(c, e)
  BY TrimEvicts
<1>2. Coherent(e, {})
  BY TrimCoherent
<1>3. IsFiniteSet(Pinned(c)) /\ Len(e.order) <= c.cap.real + Cardinality(Pinned(c))
  <2>1. {} \cap Victims(c.order, c.cap.real, Pinned(c)) = {}
    OBVIOUS
  <2> QED
    BY <2>1, TrimSize
<1>4. d = IF e.cap.real = 0 THEN e ELSE [e EXCEPT !.order = <<k>> \o @]
  BY Zenon DEF Link
<1> HIDE DEF d, e
<1>5. CASE c.cap.real = 0
  BY <1>1, <1>2, <1>4, <1>5 DEF d
<1>6. CASE c.cap.real # 0
  <2> DEFINE s == <<k>> \o e.order
  <2>1. d = [e EXCEPT !.order = s]
    BY <1>1, <1>4, <1>6
  <2>2. k \notin Members(e.order)
    BY <1>1, <1>2 DEF Coherent, Evicted
  <2>3. /\ s \in Seq(Keys) /\ Distinct(s) /\ Len(s) = Len(e.order) + 1 /\ s[1] = k
        /\ Members(s) = Members(e.order) \cup {k}
    BY <1>2, <2>2, PrependList DEF Coherent
  <2> HIDE DEF s
  <2>4. /\ d.order = s /\ d.entry = e.entry /\ d.cap = e.cap
        /\ d.ghosts = e.ghosts /\ d.ghosted = e.ghosted /\ d.ghostCap = e.ghostCap
    BY <1>1, <2>1 DEF IsLru, LruFields
  <2>5. Coherent(d, {k})
    BY <1>2, <2>3, <2>4 DEF Coherent, GhostsOK, CapOK
  <2>6. Len(e.order) \in Nat /\ c.cap.real \in Nat /\ Cardinality(Pinned(c)) \in Nat
    BY <1>2, <1>3, FS_CardinalityType DEF Coherent, IsLru, Capacities
  <2>7. InFront(d, k)
    BY <2>3, <2>4, <2>6 DEF InFront
  <2>8. Len(d.order) <= c.cap.real + Cardinality(Pinned(c)) + 1
    BY <1>3, <2>3, <2>4, <2>6
  <2> QED
    BY <1>1, <1>6, <2>4, <2>5, <2>7, <2>8 DEF d
<1> QED
  BY <1>5, <1>6

LEMMA GhostResizeOK ==
    ASSUME NEW c, IsLru(c), GhostsOK(c), NEW n \in Nat
    PROVE  GhostsOK(GhostResize(c, n))
<1> DEFINE gone == Victims(c.ghosts, n, {})
           g == Drop(c.ghosts, gone)
           h == [k \in Keys |-> IF k \in gone THEN 0 ELSE c.ghosted[k]]
           d == GhostResize(c, n)
<1>0. c = [f \in LruFields |-> c[f]]
  BY DEF IsLru
<1>1. d = [c EXCEPT !.ghostCap = n, !.ghosts = g, !.ghosted = h]
  BY Zenon DEF GhostResize
<1>2. h \in [Keys -> 0..2]
  BY DEF GhostsOK
<1> HIDE DEF gone, h
<1>3. g \in Seq(Keys) /\ Distinct(g)
  BY DropList DEF GhostsOK
<1> HIDE DEF d, g
<1>4. d.ghosts = g /\ d.ghosted = h /\ d.ghostCap = n
  BY <1>0, <1>1 DEF LruFields
<1> QED
  BY <1>2, <1>3, <1>4 DEF GhostsOK, d

\* Growing keeps the key in front, and brings the list back to the capacity.
LEMMA GrowCoherent ==
    ASSUME NEW c, IsLru(c), NEW k, Coherent(c, {k}), InFront(c, k), c.cap.real # 0
    PROVE  /\ Coherent(Grow(c), {k})
           /\ IsFiniteSet(Pinned(c))
           /\ Len(Grow(c).order) <= Grow(c).cap.real + Cardinality(Pinned(c))
           /\ Grow(c).cap.real \in Nat
<1> DEFINE n == c.cap.real + 1
           p == ResizeCapacity(c.cap, n)
           e == [c EXCEPT !.cap = p]
           r == Trim(e)
           d == Grow(c)
<1>1. c.cap \in Capacities /\ n \in Nat /\ n # 0 /\ (c.cap.min # 0 \/ c.cap.max # 0)
  BY DEF IsLru, Capacities, Coherent, CapOK
<1>2. p \in Capacities /\ p.real # 0 /\ (p.min # 0 \/ p.max # 0)
  <2> HIDE DEF n, p
  <2>1. p \in Capacities
    BY <1>1, ResizeCapacityType DEF p
  <2>2. p.real # 0
    BY <1>1, CapacityOK DEF p
  <2>3. p.min # 0 \/ p.max # 0
    BY <1>1, <2>2, CapacityOK DEF p
  <2> QED
    BY <2>1, <2>2, <2>3
<1>3. d = GhostResize(r, GHOSTS_MIN_CAPACITY + 2 * r.cap.real)
  BY Zenon DEF Grow, Resize
<1> HIDE DEF n, p
<1>4. /\ IsLru(e) /\ e.order = c.order /\ e.entry = c.entry /\ e.cap = p
      /\ e.ghosts = c.ghosts /\ e.ghosted = c.ghosted /\ e.ghostCap = c.ghostCap
  BY <1>2 DEF IsLru, LruFields
<1> HIDE DEF e
<1>5. Coherent(e, {k})
  BY <1>2, <1>4 DEF Coherent, GhostsOK, CapOK
<1>6. {k} \cap Victims(e.order, e.cap.real, Pinned(e)) = {}
  <2>1. e.order # <<>> /\ e.order[1] = k /\ e.cap.real # 0
    BY <1>2, <1>4, <1>5 DEF InFront, Coherent
  <2>2. k \notin Victims(e.order, e.cap.real, Pinned(e))
    BY <1>4, <1>5, <2>1, FrontStays
  <2> QED
    BY <2>2
<1>7. Pinned(e) = Pinned(c)
  BY <1>4 DEF Pinned
<1>8. Coherent(r, {k})
  BY <1>4, <1>5, <1>6, TrimList
<1>9. IsFiniteSet(Pinned(c)) /\ Len(r.order) <= p.real + Cardinality(Pinned(c))
  BY <1>4, <1>5, <1>6, <1>7, TrimSize
<1>10. IsLru(r) /\ r.cap = p
  BY <1>4, TrimEvicts
<1> HIDE DEF r, d
<1>11. p.real \in Nat
  BY <1>2 DEF Capacities
<1>12. GHOSTS_MIN_CAPACITY + 2 * r.cap.real \in Nat
  BY <1>10, <1>11, LruAssumption
<1>13. d.order = r.order /\ d.entry = r.entry /\ d.cap = r.cap /\ GhostsOK(d)
  BY <1>3, <1>8, <1>10, <1>12, GhostResizeKeeps, GhostResizeOK DEF Coherent
<1>14. Coherent(d, {k})
  BY <1>8, <1>13 DEF Coherent, CapOK
<1> QED
  BY <1>9, <1>10, <1>11, <1>13, <1>14 DEF d

\* A cache that could store nothing may grow, too.
LEMMA GrowUnlinked ==
    ASSUME NEW c, IsLru(c), Coherent(c, {})
    PROVE  Coherent(Grow(c), {})
<1> DEFINE n == c.cap.real + 1
           p == ResizeCapacity(c.cap, n)
           e == [c EXCEPT !.cap = p]
           r == Trim(e)
           d == Grow(c)
<1>1. c.cap \in Capacities /\ n \in Nat
  BY DEF IsLru, Capacities
<1>2. p \in Capacities /\ (p.real # 0 => p.min # 0 \/ p.max # 0)
  <2> HIDE DEF n
  <2> QED
    BY <1>1, ResizeCapacityType, CapacityOK
<1>3. d = GhostResize(r, GHOSTS_MIN_CAPACITY + 2 * r.cap.real)
  BY Zenon DEF Grow, Resize
<1> HIDE DEF n, p
<1>4. /\ IsLru(e) /\ e.order = c.order /\ e.entry = c.entry /\ e.cap = p
      /\ e.ghosts = c.ghosts /\ e.ghosted = c.ghosted /\ e.ghostCap = c.ghostCap
  BY <1>2 DEF IsLru, LruFields
<1> HIDE DEF e
<1>5. Coherent(e, {})
  BY <1>2, <1>4 DEF Coherent, GhostsOK, CapOK
<1>6. Coherent(r, {})
  BY <1>4, <1>5, TrimCoherent
<1>7. IsLru(r) /\ r.cap = p
  BY <1>4, TrimEvicts
<1> HIDE DEF r, d
<1>8. GHOSTS_MIN_CAPACITY + 2 * r.cap.real \in Nat
  BY <1>2, <1>7, LruAssumption DEF Capacities
<1>9. d.order = r.order /\ d.entry = r.entry /\ d.cap = r.cap /\ GhostsOK(d)
  BY <1>3, <1>6, <1>7, <1>8, GhostResizeKeeps, GhostResizeOK DEF Coherent
<1>10. Coherent(d, {})
  BY <1>6, <1>9 DEF Coherent, CapOK
<1> QED
  BY <1>10 DEF d

\* A missed lookup() links the key that it was asked for, if anything can be stored,
\* and leaves the list within its bound.
LEMMA MissCoherent ==
    ASSUME NEW c, IsLru(c), Coherent(c, {}), NEW k \in Keys, k \notin DOMAIN c.entry
    PROVE  LET d == Miss(c, k)
           IN  /\ c.cap.real = 0 => Coherent(d, {})
               /\ c.cap.real # 0 =>
                    /\ Coherent(d, {k})
                    /\ Len(d.order) <= d.cap.real + Cardinality(Pinned(c)) + 1
<1> DEFINE linked == Link(c, k)
           n == IF Listed(linked.ghosts, k) THEN linked.ghosted[k] ELSE 0
           noted == GhostPut(linked, k, n)
           d == Miss(c, k)
<1>1. /\ linked.cap = c.cap
      /\ c.cap.real = 0 => Coherent(linked, {})
      /\ c.cap.real # 0 =>
            /\ Coherent(linked, {k}) /\ InFront(linked, k)
            /\ Len(linked.order) <= c.cap.real + Cardinality(Pinned(c)) + 1
  BY LinkCoherent
<1>2. IsLru(linked) /\ Evicted(c, linked)
  BY LinkEvicts
<1>3. d = noted \/ (d = Grow(noted) /\ GhostHit(linked, k))
  BY Zenon DEF Miss
<1> HIDE DEF linked
<1>4. GhostsOK(linked)
  BY <1>1 DEF Coherent
<1>5. n \in 0..2
  BY <1>4 DEF GhostsOK
<1> HIDE DEF n
<1>6. /\ IsLru(noted) /\ GhostsOK(noted) /\ noted.order = linked.order
      /\ noted.entry = linked.entry /\ noted.cap = linked.cap
  BY <1>2, <1>4, <1>5, GhostPutOK
<1> HIDE DEF noted, d
<1>7. /\ c.cap.real = 0 => Coherent(noted, {})
      /\ c.cap.real # 0 => Coherent(noted, {k}) /\ InFront(noted, k)
  BY <1>1, <1>6 DEF Coherent, CapOK, InFront
<1>8. Pinned(noted) = Pinned(c)
  BY <1>2, <1>6 DEF Evicted, Pinned
<1>9. CASE c.cap.real # 0
  <2>1. CASE d = noted
    BY <1>1, <1>6, <1>7, <1>9, <2>1 DEF d
  <2>2. CASE d = Grow(noted)
    <3>1. Coherent(noted, {k}) /\ InFront(noted, k) /\ noted.cap.real # 0
      BY <1>1, <1>6, <1>7, <1>9
    <3>2. /\ Coherent(d, {k}) /\ IsFiniteSet(Pinned(c))
          /\ Len(d.order) <= d.cap.real + Cardinality(Pinned(c)) /\ d.cap.real \in Nat
      BY <1>6, <1>8, <2>2, <3>1, GrowCoherent
    <3>3. Cardinality(Pinned(c)) \in Nat /\ Len(d.order) \in Nat
      BY <3>2, FS_CardinalityType DEF Coherent
    <3>4. Len(d.order) <= d.cap.real + Cardinality(Pinned(c)) + 1
      BY <3>2, <3>3
    <3> QED
      BY <1>9, <3>2, <3>4 DEF d
  <2> QED
    BY <1>3, <2>1, <2>2
<1>10. CASE c.cap.real = 0
  <2>1. CASE d = noted
    BY <1>7, <1>10, <2>1 DEF d
  <2>2. CASE d = Grow(noted)
    BY <1>1, <1>6, <1>7, <1>10, <2>2, GrowUnlinked DEF d
  <2> QED
    BY <1>3, <2>1, <2>2
<1> QED
  BY <1>9, <1>10

\* Making an entry for the key that was linked, or replacing an entry.
LEMMA SetEntryCoherent ==
    ASSUME NEW c, IsLru(c), NEW k \in Keys, NEW K, K \subseteq {k}, Coherent(c, K),
           k \in DOMAIN c.entry \cup K, NEW e, IsEntry(e), e.ghosted \in 0..2
    PROVE  Coherent(SetEntry(c, k, e), {}) /\ SetEntry(c, k, e).order = c.order
           /\ SetEntry(c, k, e).cap = c.cap
<1> DEFINE d == SetEntry(c, k, e)
<1>0. c = [f \in LruFields |-> c[f]]
  BY DEF IsLru
<1>1. /\ d.order = c.order /\ d.cap = c.cap /\ d.ghosts = c.ghosts
      /\ d.ghosted = c.ghosted /\ d.ghostCap = c.ghostCap
      /\ d.entry = [x \in DOMAIN c.entry \cup {k} |-> IF x = k THEN e ELSE c.entry[x]]
  BY <1>0 DEF SetEntry, LruFields
<1> HIDE DEF d
<1>2. Members(d.order) = DOMAIN d.entry \cup {}
  BY <1>1 DEF Coherent
<1>3. \A x \in DOMAIN d.entry : d.entry[x].ghosted \in 0..2
  BY <1>1 DEF Coherent
<1> QED
  BY <1>1, <1>2, <1>3 DEF Coherent, GhostsOK, CapOK, d

LEMMA ReorderCoherent ==
    ASSUME NEW c, IsLru(c), Coherent(c, {}), NEW k \in DOMAIN c.entry
    PROVE  LET d == [c EXCEPT !.order = MoveToFront(@, k)]
           IN  IsLru(d) /\ Coherent(d, {}) /\ d.entry = c.entry
<1> DEFINE s == MoveToFront(c.order, k)
           d == [c EXCEPT !.order = s]
<1>1. k \in Keys /\ k \in Members(c.order)
  BY DEF IsLru, Coherent
<1>2. s \in Seq(Keys) /\ Distinct(s) /\ Members(s) = Members(c.order) \cup {k}
  BY <1>1, FrontList DEF Coherent
<1> HIDE DEF s
<1>3. /\ d.order = s /\ d.entry = c.entry /\ d.cap = c.cap
      /\ d.ghosts = c.ghosts /\ d.ghosted = c.ghosted /\ d.ghostCap = c.ghostCap
      /\ IsLru(d)
  BY DEF IsLru, LruFields
<1> HIDE DEF d
<1>4. Members(s) = Members(c.order)
  BY <1>1, <1>2
<1>5. Coherent(d, {})
  BY <1>2, <1>3, <1>4 DEF Coherent, GhostsOK, CapOK
<1> QED
  BY <1>3, <1>5 DEF d, s

LEMMA RemoveCoherent ==
    ASSUME NEW c, IsLru(c), Coherent(c, {}), NEW S
    PROVE  Coherent(WithoutEntries(c, S), {})
<1> DEFINE d == WithoutEntries(c, S)
<1>0. c = [f \in LruFields |-> c[f]]
  BY DEF IsLru
<1>1. /\ d.order = Drop(c.order, S) /\ d.cap = c.cap /\ d.ghosts = c.ghosts
      /\ d.ghosted = c.ghosted /\ d.ghostCap = c.ghostCap
      /\ d.entry = [x \in DOMAIN c.entry \ S |-> c.entry[x]]
  BY <1>0 DEF WithoutEntries, LruFields
<1> HIDE DEF d
<1>2. /\ d.order \in Seq(Keys) /\ Distinct(d.order)
      /\ Members(d.order) = Members(c.order) \ S
  BY <1>1, DropList DEF Coherent
<1> QED
  BY <1>1, <1>2 DEF Coherent, GhostsOK, CapOK, d

-------------------------------------------------------------------------------
(* The list and the pool agree after every step                            *)

LruInv == CoreInv /\ mode \in Modes /\ Coherent(lru, {})

LEMMA InitLru == Init => LruInv
<1> SUFFICES ASSUME Init PROVE Coherent(lru, {})
  BY InitCore DEF LruInv, Init
<1>1. /\ lru.order = <<>> /\ DOMAIN lru.entry = {} /\ lru.cap = InitCapacity(InitCap)
      /\ lru.ghosts = <<>> /\ lru.ghosted = [k \in Keys |-> 0]
      /\ lru.ghostCap = GHOSTS_MIN_CAPACITY
  BY DEF Init
<1>2. Distinct(<<>>) /\ Members(<<>>) = {}
  BY DEF Distinct, Members
<1>3. GhostsOK(lru)
  BY <1>1, <1>2, LruAssumption DEF GhostsOK
<1>4. CapOK(lru)
  BY <1>1, UnlimitedAssumption DEF CapOK, InitCapacity
<1>5. lru.order \in Seq(Keys) /\ Distinct(lru.order) /\ Members(lru.order) = DOMAIN lru.entry \cup {}
  BY <1>1, <1>2
<1>6. \A k \in DOMAIN lru.entry : lru.entry[k].ghosted \in 0..2
  BY <1>1
<1> QED
  BY <1>3, <1>4, <1>5, <1>6 DEF Coherent

\* Lookups that find an entry.
LEMMA FoundCoherent ==
    ASSUME LruInv, NEW t \in Threads, NEW k \in Keys,
           LookupReady(t, k) \/ LookupNotAvail(t, k) \/ LookupWait(t, k)
    PROVE  Coherent(lru', {})
<1> DEFINE c == [lru EXCEPT !.order = MoveToFront(@, k)]
<1>1. k \in DOMAIN lru.entry
  BY DEF LookupReady, LookupNotAvail, LookupWait
<1>2. IsLru(lru) /\ Coherent(lru, {})
  BY DEF LruInv, CoreInv, CoreTypeOK
<1>3. IsLru(c) /\ Coherent(c, {}) /\ c.entry = lru.entry
  BY <1>1, <1>2, ReorderCoherent
<1>4. CASE LookupReady(t, k) \/ LookupNotAvail(t, k)
  <2>1. lru' = c
    BY <1>4, Zenon DEF LookupReady, LookupNotAvail
  <2> QED
    BY <1>3, <2>1
<1>5. CASE LookupWait(t, k)
  <2> DEFINE e == [lru.entry[k] EXCEPT !.locks = @ + 1]
  <2>1. IsEntry(lru.entry[k]) /\ lru.entry[k].ghosted \in 0..2
    BY <1>1, <1>2 DEF IsLru, Coherent
  <2>2. IsEntry(e) /\ e.ghosted \in 0..2
    BY <2>1 DEF IsEntry
  <2>3. lru' = SetEntry(c, k, e)
    BY <1>5, Zenon DEF LookupWait
  <2> HIDE DEF e, c
  <2>4. {} \subseteq {k} /\ k \in DOMAIN c.entry \cup {}
    BY <1>1, <1>3
  <2> QED
    BY <1>3, <2>2, <2>3, <2>4, SetEntryCoherent
<1> QED
  BY <1>4, <1>5

\* Lookups that miss.
LEMMA NotFoundCoherent ==
    ASSUME LruInv, NEW t \in Threads, NEW k \in Keys, LookupNotFound(t, k)
    PROVE  /\ Coherent(lru', {})
           /\ Len(lru'.order) <= lru'.cap.real + Cardinality(Pinned(lru)) + 1
<1> DEFINE c == Miss(lru, k)
           e == [state |-> "EMPTY", locks |-> 1, value |-> NoFrame, ghosted |-> c.ghosted[k]]
<1>1. k \notin DOMAIN lru.entry /\ lru.cap.real # 0
  BY DEF LookupNotFound
<1>2. IsLru(lru) /\ Coherent(lru, {})
  BY DEF LruInv, CoreInv, CoreTypeOK
<1>3. /\ Coherent(c, {k})
      /\ Len(c.order) <= c.cap.real + Cardinality(Pinned(lru)) + 1
  BY <1>1, <1>2, MissCoherent
<1>4. IsLru(c)
  BY <1>2, MissEvicts
<1>5. lru' = SetEntry(c, k, e)
  BY Zenon DEF LookupNotFound
<1> HIDE DEF c
<1>6. c.ghosted[k] \in 0..2
  BY <1>3 DEF Coherent, GhostsOK
<1>7. IsEntry(e) /\ e.ghosted \in 0..2
  BY <1>6 DEF IsEntry, EntryStates
<1> HIDE DEF e
<1>8. {k} \subseteq {k} /\ k \in DOMAIN c.entry \cup {k}
  OBVIOUS
<1>9. Coherent(lru', {}) /\ lru'.order = c.order /\ lru'.cap = c.cap
  BY <1>3, <1>4, <1>5, <1>7, <1>8, SetEntryCoherent
<1> QED
  BY <1>3, <1>9

LEMMA NoCacheCoherent ==
    ASSUME LruInv, NEW t \in Threads, NEW k \in Keys, LookupNoCache(t, k)
    PROVE  Coherent(lru', {})
<1> DEFINE c == Miss(lru, k)
           h == [c.ghosted EXCEPT ![k] = Saturate(c.ghosted[k] + 1)]
<1>1. k \notin DOMAIN lru.entry /\ lru.cap.real = 0
  BY DEF LookupNoCache
<1>2. IsLru(lru) /\ Coherent(lru, {})
  BY DEF LruInv, CoreInv, CoreTypeOK
<1>3. Coherent(c, {})
  BY <1>1, <1>2, MissCoherent
<1>4. IsLru(c)
  BY <1>2, MissEvicts
<1>5. lru' = [c EXCEPT !.ghosted = h]
  BY Zenon DEF LookupNoCache
<1> HIDE DEF c
<1>6. h \in [Keys -> 0..2]
  BY <1>3 DEF Coherent, GhostsOK, Saturate
<1> HIDE DEF h
<1>7. /\ lru'.order = c.order /\ lru'.entry = c.entry /\ lru'.cap = c.cap
      /\ lru'.ghosts = c.ghosts /\ lru'.ghosted = h /\ lru'.ghostCap = c.ghostCap
  BY <1>4, <1>5 DEF IsLru, LruFields
<1> QED
  BY <1>3, <1>6, <1>7 DEF Coherent, GhostsOK, CapOK

\* An entry whose value, state or lock count changes stays where it is in the list.
LEMMA ReplaceCoherent ==
    ASSUME LruInv, NEW k \in DOMAIN lru.entry, NEW e, IsEntry(e),
           e.ghosted = lru.entry[k].ghosted, lru' = SetEntry(lru, k, e)
    PROVE  Coherent(lru', {})
<1>1. IsLru(lru) /\ Coherent(lru, {})
  BY DEF LruInv, CoreInv, CoreTypeOK
<1>2. k \in Keys /\ {} \subseteq {k} /\ k \in DOMAIN lru.entry \cup {}
  BY <1>1 DEF IsLru
<1>3. e.ghosted \in 0..2
  BY <1>1 DEF Coherent
<1> QED
  BY <1>1, <1>2, <1>3, SetEntryCoherent

\* The frame of an entry that is handed out stays.
Stable(c, d) ==
    \A k \in DOMAIN c.entry \cap DOMAIN d.entry :
        c.entry[k].state = "AVAILABLE"
          => d.entry[k].state = "AVAILABLE" /\ d.entry[k].value = c.entry[k].value

\* A thread that owns an entry, or gives back a lock, works on an entry that is not
\* yet handed out, or only counts its lock.
LEMMA HolderStep ==
    ASSUME LruInv, NEW t \in Threads,
           Recheck(t) \/ Fill(t) \/ commit_value(t) \/ RollbackPass(t) \/ RollbackRemove(t)
    PROVE  Coherent(lru', {}) /\ DOMAIN lru'.entry \subseteq DOMAIN lru.entry /\ Stable(lru, lru')
<1> DEFINE k == at[t]
<1>1. pc[t] \in Owning \cup Waiting
  BY DEF Recheck, Fill, commit_value, RollbackPass, RollbackRemove, Owning, Waiting
<1>2. CoreInv /\ Coherent(lru, {})
  BY DEF LruInv
<1>3. /\ k \in Keys /\ k \in DOMAIN lru.entry
      /\ IsLru(lru) /\ IsEntry(lru.entry[k]) /\ lru.entry[k].locks - 1 \in Nat
  BY <1>1, <1>2, HeldEntry
<1>4. pc[t] \in Owning => lru.entry[k].state # "AVAILABLE"
  BY <1>2, <1>3 DEF CoreInv, SingleFlight, Owners
<1>5. ASSUME NEW e, IsEntry(e), e.ghosted = lru.entry[k].ghosted, lru' = SetEntry(lru, k, e),
             lru.entry[k].state = "AVAILABLE"
               => e.state = "AVAILABLE" /\ e.value = lru.entry[k].value
      PROVE  Coherent(lru', {}) /\ DOMAIN lru'.entry \subseteq DOMAIN lru.entry /\ Stable(lru, lru')
  <2>1. Coherent(lru', {})
    BY <1>3, <1>5, ReplaceCoherent
  <2>2. /\ DOMAIN lru'.entry = DOMAIN lru.entry /\ lru'.entry[k] = e
        /\ \A x \in DOMAIN lru.entry \ {k} : lru'.entry[x] = lru.entry[x]
    BY <1>3, <1>5, ReplaceEntry
  <2> QED
    BY <1>5, <2>1, <2>2 DEF Stable
<1>6. CASE Fill(t)
  <2> DEFINE e == [lru.entry[k] EXCEPT !.value = k]
  <2>1. pc[t] \in Owning /\ lru' = SetEntry(lru, k, e)
    BY <1>6 DEF Fill, Owning
  <2>2. IsEntry(e)
    BY <1>3, EntryFields
  <2>3. e.ghosted = lru.entry[k].ghosted
    BY <1>3 DEF IsEntry
  <2> HIDE DEF e
  <2> QED
    BY <1>4, <1>5, <2>1, <2>2, <2>3
<1>7. CASE commit_value(t)
  <2> DEFINE e == [lru.entry[k] EXCEPT !.state = "AVAILABLE", !.locks = @ - 1]
  <2>1. pc[t] \in Owning /\ lru' = SetEntry(lru, k, e)
    BY <1>7 DEF commit_value, Owning
  <2>2. IsEntry(e) /\ e.ghosted = lru.entry[k].ghosted
    BY <1>3 DEF IsEntry, EntryStates
  <2> HIDE DEF e
  <2> QED
    BY <1>4, <1>5, <2>1, <2>2
<1>8. CASE RollbackPass(t)
  <2> DEFINE e == [lru.entry[k] EXCEPT !.state = "ROLLED_BACK", !.locks = @ - 1]
  <2>1. pc[t] \in Owning /\ lru' = SetEntry(lru, k, e)
    BY <1>8 DEF RollbackPass, Owning
  <2>2. IsEntry(e) /\ e.ghosted = lru.entry[k].ghosted
    BY <1>3 DEF IsEntry, EntryStates
  <2> HIDE DEF e
  <2> QED
    BY <1>4, <1>5, <2>1, <2>2
<1>9. CASE Recheck(t)
  <2>1. CASE lru.entry[k].state = "EMPTY"
    <3>1. lru' = lru
      BY <1>9, <2>1 DEF Recheck
    <3> QED
      BY <1>2, <3>1 DEF Stable
  <2>2. CASE lru.entry[k].state = "ROLLED_BACK"
    <3> DEFINE e == [lru.entry[k] EXCEPT !.state = "EMPTY"]
    <3>1. lru' = SetEntry(lru, k, e)
      BY <1>9, <2>2 DEF Recheck
    <3>2. IsEntry(e) /\ e.ghosted = lru.entry[k].ghosted
      BY <1>3 DEF IsEntry, EntryStates
    <3> HIDE DEF e
    <3> QED
      BY <1>5, <2>2, <3>1, <3>2
  <2>3. CASE lru.entry[k].state = "AVAILABLE"
    <3> DEFINE e == [lru.entry[k] EXCEPT !.locks = @ - 1]
    <3>1. lru' = SetEntry(lru, k, e)
      BY <1>9, <2>3 DEF Recheck
    <3>2. /\ IsEntry(e) /\ e.ghosted = lru.entry[k].ghosted
          /\ e.state = lru.entry[k].state /\ e.value = lru.entry[k].value
      BY <1>3 DEF IsEntry
    <3> HIDE DEF e
    <3> QED
      BY <1>5, <2>3, <3>1, <3>2
  <2> QED
    BY <1>3, <2>1, <2>2, <2>3 DEF IsEntry, EntryStates
<1>10. CASE RollbackRemove(t)
  <2>1. lru' = WithoutEntries(lru, {k})
    BY <1>10 DEF RollbackRemove
  <2>2. Coherent(lru', {})
    BY <1>2, <1>3, <2>1, RemoveCoherent
  <2>3. lru'.entry = [x \in DOMAIN lru.entry \ {k} |-> lru.entry[x]]
    <3>0. lru = [f \in LruFields |-> lru[f]]
      BY <1>3 DEF IsLru
    <3> QED
      BY <2>1, <3>0 DEF WithoutEntries, LruFields
  <2> QED
    BY <2>2, <2>3 DEF Stable
<1> QED
  BY <1>6, <1>7, <1>8, <1>9, <1>10

LEMMA LimitsCoherent ==
    ASSUME LruInv, NEW l \in Limits, set_limits(l[1], l[2])
    PROVE  Coherent(lru', {}) /\ Evicted(lru, lru')
<1> DEFINE p == LimitCapacity(lru.cap, l[1], l[2])
           q == [lru.cap EXCEPT !.min = l[1], !.max = l[2]]
           d == [lru EXCEPT !.cap = p]
<1>1. l[1] \in Nat /\ l[2] \in Nat
  BY LruAssumption
<1>2. IsLru(lru) /\ Coherent(lru, {}) /\ lru.cap \in Capacities
  BY DEF LruInv, CoreInv, CoreTypeOK, IsLru
<1>3. q \in Capacities /\ lru.cap.requested \in Nat
  BY <1>1, <1>2 DEF Capacities
<1>4. p = ResizeCapacity(q, lru.cap.requested)
  <2>1. q.requested = lru.cap.requested
    BY <1>2 DEF Capacities
  <2> QED
    BY <2>1 DEF LimitCapacity
<1> HIDE DEF q
<1>5. p \in Capacities /\ (p.real # 0 => p.min # 0 \/ p.max # 0)
  BY <1>3, <1>4, ResizeCapacityType, CapacityOK
<1>6. lru' = Trim(d)
  BY Zenon DEF set_limits
<1> HIDE DEF p
<1>7. /\ IsLru(d) /\ d.order = lru.order /\ d.entry = lru.entry /\ d.cap = p
      /\ d.ghosts = lru.ghosts /\ d.ghosted = lru.ghosted /\ d.ghostCap = lru.ghostCap
  BY <1>2, <1>5 DEF IsLru, LruFields
<1> HIDE DEF d
<1>8. Coherent(d, {})
  BY <1>2, <1>5, <1>7 DEF Coherent, GhostsOK, CapOK
<1>9. Coherent(lru', {})
  BY <1>6, <1>7, <1>8, TrimCoherent
<1>10. Evicted(d, lru')
  BY <1>6, <1>7, TrimEvicts
<1> QED
  BY <1>7, <1>9, <1>10 DEF Evicted, Pinned

\* What a step may do to the list and to the frames of the cache.
LruStepOK ==
    /\ Coherent(lru', {})
    /\ Stable(lru, lru')
    /\ \/ DOMAIN lru'.entry \subseteq DOMAIN lru.entry
       \/ Len(lru'.order) <= lru'.cap.real + Cardinality(Pinned(lru)) + 1

LEMMA EvictedStable ==
    ASSUME Evicted(lru, lru')
    PROVE  Stable(lru, lru') /\ DOMAIN lru'.entry \subseteq DOMAIN lru.entry
BY DEF Evicted, Stable

LEMMA LruStep == LruInv /\ [Next]_vars => LruStepOK
<1> SUFFICES ASSUME LruInv, [Next]_vars PROVE LruStepOK
  OBVIOUS
<1>1. IsLru(lru) /\ Coherent(lru, {})
  BY DEF LruInv, CoreInv, CoreTypeOK
<1>2. ASSUME lru' = lru PROVE LruStepOK
  BY <1>1, <1>2 DEF LruStepOK, Stable
<1>3. CASE \E t \in Threads : Progress(t)
  <2> PICK t \in Threads : Progress(t)
    BY <1>3
  <2>1. CASE Uncached(t) \/ notify_all(t) \/ notify_one(t) \/ Consume(t)
    <3>1. lru' = lru
      BY <2>1 DEF Uncached, notify_all, notify_one, Consume
    <3> QED
      BY <1>2, <3>1
  <2>2. CASE Recheck(t) \/ Fill(t) \/ commit_value(t) \/ RollbackPass(t) \/ RollbackRemove(t)
    BY <2>2, HolderStep DEF LruStepOK
  <2> QED
    BY <2>1, <2>2 DEF Progress
<1>4. CASE \E t \in Threads, k \in Keys : Lookup(t, k)
  <2> PICK t \in Threads, k \in Keys : Lookup(t, k)
    BY <1>4
  <2>1. CASE LookupReady(t, k) \/ LookupNotAvail(t, k)
    <3>1. Evicted(lru, lru')
      BY <1>1, <2>1, ReorderKeeps DEF LookupReady, LookupNotAvail
    <3> QED
      BY <2>1, <3>1, FoundCoherent, EvictedStable DEF LruStepOK
  <2>2. CASE LookupWait(t, k)
    <3>1. Coherent(lru', {})
      BY <2>2, FoundCoherent
    <3> DEFINE c == [lru EXCEPT !.order = MoveToFront(@, k)]
               e == [lru.entry[k] EXCEPT !.locks = @ + 1]
    <3>2. k \in DOMAIN lru.entry /\ IsEntry(lru.entry[k])
      BY <1>1, <2>2 DEF LookupWait, IsLru
    <3>3. IsLru(c) /\ c.entry = lru.entry
      BY <1>1, <3>2, ReorderCoherent
    <3>4. IsEntry(e) /\ e.state = lru.entry[k].state /\ e.value = lru.entry[k].value
      BY <3>2 DEF IsEntry
    <3>5. lru' = SetEntry(c, k, e)
      BY <2>2, Zenon DEF LookupWait
    <3> HIDE DEF c, e
    <3>6. /\ DOMAIN lru'.entry = DOMAIN lru.entry /\ lru'.entry[k] = e
          /\ \A x \in DOMAIN lru.entry \ {k} : lru'.entry[x] = lru.entry[x]
      BY <3>2, <3>3, <3>4, <3>5, ReplaceEntry
    <3> QED
      BY <3>1, <3>4, <3>6 DEF LruStepOK, Stable
  <2>3. CASE LookupNotFound(t, k)
    <3>1. /\ Coherent(lru', {})
          /\ Len(lru'.order) <= lru'.cap.real + Cardinality(Pinned(lru)) + 1
      BY <2>3, NotFoundCoherent
    <3> DEFINE c == Miss(lru, k)
               e == [state |-> "EMPTY", locks |-> 1, value |-> NoFrame, ghosted |-> c.ghosted[k]]
    <3>2. IsLru(c) /\ Evicted(lru, c)
      BY <1>1, MissEvicts
    <3>3. lru' = SetEntry(c, k, e)
      BY <2>3, Zenon DEF LookupNotFound
    <3>4. k \notin DOMAIN lru.entry
      BY <2>3 DEF LookupNotFound
    <3> HIDE DEF c
    <3>5. IsEntry(e)
      BY DEF IsEntry, EntryStates
    <3> HIDE DEF e
    <3>6. \A x \in DOMAIN c.entry \ {k} : lru'.entry[x] = c.entry[x]
      BY <3>2, <3>3, <3>5, SetEntryEffect
    <3>7. DOMAIN lru'.entry = DOMAIN c.entry \cup {k}
      BY <3>2, <3>3, <3>5, SetEntryEffect
    <3>8. Stable(lru, lru')
      BY <3>2, <3>4, <3>6, <3>7 DEF Stable, Evicted
    <3> QED
      BY <3>1, <3>8 DEF LruStepOK
  <2>4. CASE LookupNoCache(t, k)
    <3> DEFINE c == Miss(lru, k)
    <3>1. IsLru(c) /\ Evicted(lru, c)
      BY <1>1, MissEvicts
    <3>2. lru' = [c EXCEPT !.ghosted[k] = Saturate(@ + 1)]
      BY <2>4, Zenon DEF LookupNoCache
    <3> HIDE DEF c
    <3>3. lru'.entry = c.entry
      BY <3>1, <3>2 DEF IsLru, LruFields
    <3>4. Evicted(lru, lru')
      BY <3>1, <3>3 DEF Evicted
    <3> QED
      BY <2>4, <3>4, NoCacheCoherent, EvictedStable DEF LruStepOK
  <2>5. CASE LookupSuppressed(t, k)
    BY <1>2, <2>5 DEF LookupSuppressed
  <2> QED
    BY <2>1, <2>2, <2>3, <2>4, <2>5 DEF Lookup
<1>5. CASE \E t \in Threads : SpuriousWakeup(t)
  BY <1>2, <1>5 DEF SpuriousWakeup
<1>6. CASE \E l \in Limits : set_limits(l[1], l[2])
  BY <1>6, LimitsCoherent, EvictedStable DEF LruStepOK
<1>7. CASE UNCHANGED vars
  BY <1>2, <1>7 DEF vars
<1> QED
  BY <1>3, <1>4, <1>5, <1>6, <1>7 DEF Next

LEMMA ModeStep == LruInv /\ [Next]_vars => mode' \in Modes
<1> SUFFICES ASSUME LruInv, [Next]_vars PROVE mode' = mode
  BY DEF LruInv
<1> QED
  BY DEF Next, vars, Progress, Lookup, Uncached, Recheck, Fill, commit_value, notify_all,
         RollbackRemove, RollbackPass, notify_one, Consume, LookupReady, LookupWait,
         LookupNotAvail, LookupNotFound, LookupNoCache, LookupSuppressed, SpuriousWakeup,
         set_limits

LEMMA LruInvGives == LruInv => ListCoherent
<1> SUFFICES ASSUME LruInv PROVE ListCoherent
  OBVIOUS
<1>1. Coherent(lru, {}) /\ GhostsOK(lru)
  BY DEF LruInv, Coherent
<1>2. TypeOK
  BY <1>1 DEF LruInv, CoreInv, TypeOK, Coherent, GhostsOK
<1>3. DOMAIN lru.order = 1 .. Len(lru.order) /\ DOMAIN lru.ghosts = 1 .. Len(lru.ghosts)
  BY <1>1 DEF Coherent, GhostsOK
<1>4. ToSet(lru.order) = DOMAIN lru.entry
  BY <1>1, <1>3 DEF ToSet, Coherent, Members
<1>5. IsInjective(lru.order) /\ IsInjective(lru.ghosts)
  BY <1>1, <1>3 DEF IsInjective, Coherent, GhostsOK, Distinct
<1> QED
  BY <1>2, <1>4, <1>5 DEF ListCoherent

LEMMA LruInvStep == LruInv /\ [Next]_vars => LruInv'
<1> SUFFICES ASSUME LruInv, [Next]_vars PROVE LruInv'
  OBVIOUS
<1>1. CoreInv'
  BY CoreStep DEF LruInv
<1>2. Coherent(lru', {}) /\ mode' \in Modes
  BY LruStep, ModeStep DEF LruStepOK
<1>3. Coherent(lru, {})'
  BY <1>2 DEF Coherent, GhostsOK, CapOK
<1> QED
  BY <1>1, <1>2, <1>3 DEF LruInv

-------------------------------------------------------------------------------
(* Theorems                                                                *)

\* The invariant of the cache protocol of lookup(), commit_value() and
\* rollback(), for any threads, keys, capacities and limits.
THEOREM CoreInvariance == Spec => []CoreInv
BY InitCore, CoreStep, PTL DEF Spec

\* Locks count the threads that use an entry, and no entry is evicted while a
\* thread fills it or waits for it.
THEOREM LockAccountingHolds == Spec => []LockAccounting
<1>1. CoreInv => LockAccounting
  BY DEF CoreInv
<1> QED
  BY <1>1, CoreInvariance, PTL

\* An unfinished entry is computed by exactly one thread.
THEOREM SingleFlightHolds == Spec => []SingleFlight
<1>1. CoreInv => SingleFlight
  BY DEF CoreInv
<1> QED
  BY <1>1, CoreInvariance, PTL

\* Whoever sleeps on an entry that is no longer being filled will be notified.
THEOREM NotificationPendingHolds == Spec => []NotificationPending
<1>1. CoreInv => NotificationPending
  BY DEF CoreInv
<1> QED
  BY <1>1, CoreInvariance, PTL

\* The recency list and the pool agree, whatever was evicted, spared or removed.
THEOREM ListCoherentHolds == Spec => []ListCoherent
BY InitLru, LruInvStep, LruInvGives, PTL DEF Spec

\* A frame that was handed out is neither replaced nor taken back.
THEOREM AvailableIsStableHolds == Spec => AvailableIsStable
<1>1. LruInv /\ [Next]_vars
        => [\A k \in DOMAIN lru.entry \cap DOMAIN lru'.entry :
              lru.entry[k].state = "AVAILABLE"
                => /\ lru'.entry[k].state = "AVAILABLE"
                   /\ lru'.entry[k].value = lru.entry[k].value]_vars
  BY LruStep DEF LruStepOK, Stable
<1> QED
  BY <1>1, InitLru, LruInvStep, PTL DEF Spec, AvailableIsStable

\* A lookup leaves no more than the capacity, the entries in use, and the new one.
THEOREM SizeBoundHolds == Spec => SizeBound
<1>1. LruInv /\ [Next]_vars
        => [DOMAIN lru'.entry \subseteq DOMAIN lru.entry
              \/ Len(lru'.order) <= lru'.cap.real + Cardinality(Pinned(lru)) + 1]_vars
  BY LruStep DEF LruStepOK
<1> QED
  BY <1>1, InitLru, LruInvStep, PTL DEF Spec, SizeBound

-------------------------------------------------------------------------------
(* The prefetcher as a client of its cache                                 *)

CallRecord == [at : CallLabels, n : Nat, pos : Int, round : {1, 2}, job : Jobs \cup {NoJob}]

\* r may be the call of a client: it is about a frame of the clip, it looks up
\* frames near that one, and it has a job to count and to queue.
GoodCall(r) ==
    /\ r \in CallRecord
    /\ r.at # "idle" => r.n \in FrameNumbers
    /\ r.at = "lookup" => Abs(r.pos - r.n) < nPrefetchFrames
    /\ r.at \in {"count", "push"} => r.job \in Jobs

\* What a step needs to know of the state to be a step of the cache.
PrefetcherInv ==
    /\ call = [c \in Consumers |-> call[c]]
    /\ \A c \in Consumers : GoodCall(call[c])
    /\ queue \in Seq(Jobs)
    /\ running \in [Workers -> Jobs \cup {NoJob}]

-------------------------------------------------------------------------------
(* The prefetcher's own state                                              *)

\* A step that gives one client a new call.
LEMMA CallStep ==
    ASSUME PrefetcherInv, NEW c \in Consumers, NEW r, GoodCall(r),
           call' = [call EXCEPT ![c] = r],
           queue' \in Seq(Jobs), running' = running
    PROVE  PrefetcherInv'
<1>1. call' = [d \in Consumers |-> IF d = c THEN r ELSE call[d]]
  BY DEF PrefetcherInv
<1> QED
  BY <1>1 DEF PrefetcherInv, GoodCall

LEMMA InitInv == PrefetcherInit => PrefetcherInv
<1> SUFFICES ASSUME PrefetcherInit PROVE PrefetcherInv
  OBVIOUS
<1>1. GoodCall(NoCall)
  BY DEF GoodCall, NoCall, CallRecord, CallLabels
<1>2. call = [c \in Consumers |-> NoCall]
  BY DEF PrefetcherInit
<1>3. queue \in Seq(Jobs)
  BY DEF PrefetcherInit
<1>4. running \in [Workers -> Jobs \cup {NoJob}]
  BY DEF PrefetcherInit
<1> QED
  BY <1>1, <1>2, <1>3, <1>4 DEF PrefetcherInv

\* SchedulePrefetch ends with a call that may be the client's.
LEMMA EndRoundStep ==
    ASSUME PrefetcherInv, NEW c \in Consumers, ~At(c, "idle"), NEW p \in Int,
           EndRound(c, p), UNCHANGED <<queue, running>>
    PROVE  PrefetcherInv'
<1> DEFINE r == IF call[c].round = 1 THEN [call[c] EXCEPT !.at = "get", !.pos = p]
                ELSE NoCall
<1>1. call[c] \in CallRecord /\ call[c].n \in FrameNumbers /\ queue \in Seq(Jobs)
  BY DEF PrefetcherInv, GoodCall, At
<1>2. call' = [call EXCEPT ![c] = r]
  BY DEF EndRound, PrefetcherInv
<1>3. GoodCall(NoCall)
  BY DEF GoodCall, NoCall, CallRecord, CallLabels
<1>4. GoodCall([call[c] EXCEPT !.at = "get", !.pos = p])
  BY <1>1 DEF GoodCall, CallRecord, CallLabels
<1>5. GoodCall(r)
  BY <1>3, <1>4, Zenon
<1> HIDE DEF r
<1> QED
  BY <1>1, <1>2, <1>5, CallStep

\* The steps of a client in GetFrame keep the invariant.
LEMMA ClientInv ==
    ASSUME PrefetcherInv, NEW c \in Consumers, ClientStep(c)
    PROVE  PrefetcherInv'
<1> DEFINE r == call[c]
<1>0. GoodCall(r) /\ queue \in Seq(Jobs)
  BY DEF PrefetcherInv
<1>1. CASE Check(c)
  <2>1. CASE EndRound(c, call[c].pos)
    <3>1. call[c].pos \in Int
      BY <1>0 DEF CallRecord, GoodCall
    <3> QED
      BY <1>1, <2>1, <3>1, EndRoundStep DEF Check, At
  <2>2. CASE Continue(c, "lookup") /\ Abs(r.pos - r.n) < nPrefetchFrames
    <3> DEFINE s == [r EXCEPT !.at = "lookup"]
    <3>1. GoodCall(s)
      BY <1>0, <1>1, <2>2 DEF GoodCall, CallRecord, CallLabels, Check, At
    <3>2. call' = [call EXCEPT ![c] = s]
      BY <2>2 DEF Continue
    <3> HIDE DEF s
    <3> QED
      BY <1>1, <3>1, <3>2, CallStep DEF Check, PrefetcherInv
  <2> QED
    BY <1>1, <2>1, <2>2 DEF Check
<1>2. CASE DropResult(c) \/ CountJob(c)
  <2>1. PICK l \in {"check", "push"} : Continue(c, l) /\ (l = "push" => At(c, "count"))
    BY <1>2 DEF DropResult, CountJob
  <2> DEFINE s == [r EXCEPT !.at = l]
  <2>2. GoodCall(s)
    BY <1>0, <1>2, <2>1 DEF GoodCall, CallRecord, CallLabels, DropResult, CountJob, At
  <2>3. call' = [call EXCEPT ![c] = s]
    BY <2>1 DEF Continue
  <2> HIDE DEF s
  <2> QED
    BY <1>2, <2>2, <2>3, CallStep DEF DropResult, CountJob, PrefetcherInv
<1>3. CASE PushJob(c)
  <2> DEFINE s == [r EXCEPT !.at = "check", !.job = NoJob]
  <2>1. GoodCall(s)
    BY <1>0, <1>3 DEF GoodCall, CallRecord, CallLabels, PushJob, At
  <2>2. call' = [call EXCEPT ![c] = s]
    BY <1>3 DEF PushJob
  <2> HIDE DEF s
  <2>3. queue' \in Seq(Jobs)
    BY <1>0, <1>3 DEF PushJob, At, GoodCall
  <2> QED
    BY <1>3, <2>1, <2>2, <2>3, CallStep DEF PushJob, PrefetcherInv
<1>4. ASSUME NEW p \in Strides, LookupAhead(c, p)
      PROVE  PrefetcherInv'
  <2> DEFINE m == call[c].pos + p
  <2>1. m \in Int /\ ~At(c, "idle") /\ UNCHANGED <<queue, running>>
    BY <1>0, <1>4, PrefetcherAssumption DEF CallRecord, GoodCall, LookupAhead, At
  <2>2. CASE EndRound(c, m)
    BY <2>1, <2>2, EndRoundStep
  <2>3. ASSUME NEW l \in {"drop", "check", "count"}, NEW j \in Jobs \cup {NoJob},
               l = "count" => j \in Jobs,
               call' = [call EXCEPT ![c].at = l, ![c].pos = m, ![c].job = j]
        PROVE  PrefetcherInv'
    <3> DEFINE s == [r EXCEPT !.at = l, !.pos = m, !.job = j]
    <3>1. GoodCall(s)
      BY <1>0, <2>1, <2>3 DEF GoodCall, CallRecord, CallLabels, At
    <3>2. call' = [call EXCEPT ![c] = s]
      BY <2>3 DEF PrefetcherInv
    <3> HIDE DEF s, m
    <3> QED
      BY <2>1, <3>1, <3>2, CallStep DEF PrefetcherInv
  <2> QED
    BY <1>4, <2>2, <2>3, Zenon DEF LookupAhead
<1>5. CASE GetRequested(c)
  <2> DEFINE s == [r EXCEPT !.at = "inside"]
  <2>1. GoodCall(s)
    BY <1>0, <1>5 DEF GoodCall, CallRecord, CallLabels, GetRequested, At
  <2>2. call' = [call EXCEPT ![c] = s]
    BY <1>5 DEF GetRequested, Continue
  <2> HIDE DEF s
  <2> QED
    BY <1>5, <2>1, <2>2, CallStep DEF GetRequested, PrefetcherInv
<1>6. CASE Compute(c)
  BY <1>6 DEF Compute, poolVars, PrefetcherInv, GoodCall
<1>7. CASE GotFrame(c)
  <2> DEFINE s == [r EXCEPT !.at = "check", !.round = 2]
  <2>1. GoodCall(s)
    BY <1>0, <1>7 DEF GoodCall, CallRecord, CallLabels, GotFrame, At
  <2>2. call' = [call EXCEPT ![c] = s]
    BY <1>7 DEF GotFrame
  <2> HIDE DEF s
  <2> QED
    BY <1>7, <2>1, <2>2, CallStep DEF GotFrame, PrefetcherInv
<1>8. CASE GetFrameThrows(c)
  <2>1. GoodCall(NoCall)
    BY DEF GoodCall, NoCall, CallRecord, CallLabels
  <2> QED
    BY <1>8, <2>1, CallStep DEF GetFrameThrows, PrefetcherInv
<1> QED
  BY <1>1, <1>2, <1>3, <1>4, <1>5, <1>6, <1>7, <1>8 DEF ClientStep

\* Every step of the prefetcher keeps the invariant.
LEMMA InvStep == PrefetcherInv /\ [PrefetcherNext]_allVars => PrefetcherInv'
<1> SUFFICES ASSUME PrefetcherInv, [PrefetcherNext]_allVars PROVE PrefetcherInv'
  OBVIOUS
<1>1. ASSUME NEW c \in Consumers, NEW n \in FrameNumbers, GetFrame(c, n)
      PROVE  PrefetcherInv'
  <2> DEFINE r == [NoCall EXCEPT !.at = "check", !.n = n, !.pos = n]
  <2>1. GoodCall(r)
    <3>1. n \in Nat /\ n \in Int
      BY PrefetcherAssumption DEF FrameNumbers
    <3>2. NoCall \in CallRecord
      BY DEF NoCall, CallRecord, CallLabels
    <3>3. r \in CallRecord /\ r.at = "check" /\ r.n = n
      BY <3>1, <3>2 DEF CallRecord, CallLabels
    <3> QED
      BY <3>3 DEF GoodCall
  <2>2. call' = [call EXCEPT ![c] = r]
    BY <1>1 DEF GetFrame
  <2> HIDE DEF r
  <2> QED
    BY <1>1, <2>1, <2>2, CallStep DEF GetFrame, PrefetcherInv
<1>2. CASE UNCHANGED <<call, queue, running>>
  BY <1>2 DEF PrefetcherInv, GoodCall
<1>3. ASSUME NEW w \in Workers, StartJob(w)
      PROVE  PrefetcherInv'
  <2>1. Head(queue) \in Jobs /\ Tail(queue) \in Seq(Jobs)
    BY <1>3 DEF StartJob, PrefetcherInv
  <2>2. running' \in [Workers -> Jobs \cup {NoJob}] /\ queue' \in Seq(Jobs)
    BY <1>3, <2>1 DEF StartJob, PrefetcherInv
  <2>3. call' = call
    BY <1>3 DEF StartJob
  <2> QED
    BY <2>2, <2>3 DEF PrefetcherInv, GoodCall
<1>4. ASSUME NEW w \in Workers, JobDone(w) \/ JobFailed(w)
      PROVE  PrefetcherInv'
  <2>1. UNCHANGED <<call, queue>> /\ running' = [running EXCEPT ![w] = NoJob]
    BY <1>4 DEF JobDone, JobFailed
  <2> QED
    BY <2>1 DEF PrefetcherInv, GoodCall
<1>5. CASE RollbackJob
  BY <1>5 DEF RollbackJob, PrefetcherInv, GoodCall
<1>6. CASE PrefetcherNext
  <2>1. ASSUME NEW w \in Workers, WorkerStep(w) PROVE PrefetcherInv'
    BY <1>2, <1>3, <1>4, <2>1 DEF WorkerStep, Compute, poolVars
  <2>2. ASSUME NEW c \in Consumers, ClientStep(c) \/ (SpuriousWakeup(c) /\ UNCHANGED poolVars)
        PROVE  PrefetcherInv'
    BY <1>2, <2>2, ClientInv DEF poolVars
  <2>3. CASE Destroy \/ (Destroyed /\ UNCHANGED allVars)
    BY <1>2, <2>3 DEF Destroy, allVars, poolVars
  <2> QED
    BY <1>1, <1>5, <1>6, <2>1, <2>2, <2>3 DEF PrefetcherNext
<1>7. CASE UNCHANGED allVars
  BY <1>2, <1>7 DEF allVars, poolVars
<1> QED
  BY <1>6, <1>7

-------------------------------------------------------------------------------
(* The cache inside the prefetcher                                         *)

\* What the clients of a prefetcher do is something that threads do to a cache.
LEMMA ClientRefines ==
    ASSUME PrefetcherInv, NEW c \in Consumers, ClientStep(c)
    PROVE  Next \/ UNCHANGED vars
<1>0. GoodCall(call[c]) /\ c \in Threads
  BY PrefetcherAssumption DEF PrefetcherInv
<1>1. CASE Check(c) \/ CountJob(c) \/ PushJob(c) \/ GetFrameThrows(c)
  BY <1>1, Zenon DEF Check, CountJob, PushJob, GetFrameThrows
<1>2. CASE DropResult(c) \/ GotFrame(c)
  BY <1>0, <1>2 DEF DropResult, GotFrame, Next, Progress
<1>3. CASE Compute(c)
  BY <1>0, <1>3 DEF Compute, Next, Progress
<1>4. CASE GetRequested(c)
  <2>1. call[c].n \in Keys
    BY <1>0, <1>4, PrefetcherAssumption DEF GetRequested, GoodCall, At
  <2> QED
    BY <1>0, <1>4, <2>1 DEF GetRequested, Next, Lookup
<1>5. ASSUME NEW p \in Strides, LookupAhead(c, p)
      PROVE  Next \/ UNCHANGED vars
  <2> DEFINE m == call[c].pos + p
  <2>1. CASE m >= num_frames /\ UNCHANGED vars
    BY <2>1
  <2>2. ASSUME m < num_frames PROVE m \in Keys
    <3> DEFINE i == call[c].pos
    <3>1. /\ i \in Int /\ call[c].n \in 0 .. num_frames - 1
          /\ Abs(i - call[c].n) < nPrefetchFrames
      BY <1>0, <1>5 DEF LookupAhead, GoodCall, At, CallRecord, FrameNumbers
    <3>2. i \in 1 - nPrefetchFrames .. num_frames + nPrefetchFrames - 2
      BY <3>1, PrefetcherAssumption DEF Abs
    <3> HIDE DEF i
    <3> QED
      BY <2>2, <3>2, PrefetcherAssumption DEF i
  <2>3. CASE LookupReady(c, m) \/ LookupNotAvail(c, m)
    <3>1. m < num_frames => Next
      BY <1>0, <2>2, <2>3 DEF Next, Lookup
    <3> QED
      BY <1>5, <3>1, <2>1 DEF LookupAhead
  <2>4. ASSUME NEW j \in Jobs, LookupNotFound(j, m), m < num_frames PROVE Next
    <3>1. j \in Threads /\ m \in Keys
      BY <2>2, <2>4, PrefetcherAssumption
    <3> QED
      BY <2>4, <3>1 DEF Next, Lookup
  <2> QED
    BY <1>5, <2>1, <2>3, <2>4, Zenon DEF LookupAhead
<1> QED
  BY <1>1, <1>2, <1>3, <1>4, <1>5 DEF ClientStep

\* Every step of the prefetcher is a step of its cache or leaves it alone.
LEMMA StepRefines == PrefetcherInv /\ [PrefetcherNext]_allVars => [Next]_vars
<1> SUFFICES ASSUME PrefetcherInv, [PrefetcherNext]_allVars PROVE Next \/ UNCHANGED vars
  OBVIOUS
<1>1. ASSUME NEW c \in Consumers, ClientStep(c) \/ SpuriousWakeup(c)
      PROVE  Next \/ UNCHANGED vars
  <2>1. c \in Threads
    BY PrefetcherAssumption
  <2> QED
    BY <1>1, <2>1, ClientRefines DEF Next
<1>2. ASSUME NEW w \in Workers, WorkerStep(w)
      PROVE  Next \/ UNCHANGED vars
  <2>1. running[w] # NoJob => running[w] \in Threads
    BY PrefetcherAssumption DEF PrefetcherInv
  <2>2. CASE StartJob(w) \/ JobFailed(w)
    BY <2>2, Zenon DEF StartJob, JobFailed
  <2>3. CASE JobDone(w)
    BY <2>1, <2>3 DEF JobDone, Next, Progress
  <2>4. CASE running[w] # NoJob /\ Compute(running[w])
    BY <2>1, <2>4 DEF Compute, Next, Progress
  <2> QED
    BY <1>2, <2>2, <2>3, <2>4 DEF WorkerStep
<1>3. CASE RollbackJob
  <2>1. Head(queue) \in Threads
    BY <1>3, PrefetcherAssumption DEF RollbackJob, PrefetcherInv
  <2> QED
    BY <1>3, <2>1 DEF RollbackJob, Next, Progress
<1>4. ASSUME NEW c \in Consumers, NEW n \in FrameNumbers, GetFrame(c, n)
      PROVE  UNCHANGED vars
  BY <1>4, Zenon DEF GetFrame
<1>5. CASE Destroy \/ UNCHANGED allVars
  BY <1>5, Zenon DEF Destroy, allVars
<1> QED
  BY <1>1, <1>2, <1>3, <1>4, <1>5 DEF PrefetcherNext

-------------------------------------------------------------------------------
(* Counting jobs                                                           *)

\* Clients between the test of running_workers and its increment.
Overtaking == {c \in Consumers : call[c].at \in {"lookup", "count"}}

\* Clients with a job that is counted and not queued yet.
Pushing == {c \in Consumers : call[c].at = "push"}

Busy == {w \in Workers : running[w] # NoJob}

Scheduled == Cardinality(Pushing) + Len(queue) + Cardinality(Busy)

\* Each client that has passed the test but not incremented the counter is
\* charged in advance.  The destructor takes jobs from the queue without
\* counting them.
CountInv ==
    /\ running_workers \in Int
    /\ running_workers + Cardinality(Overtaking) <= nPrefetchFrames + Cardinality(Consumers) - 1
    /\ running_workers >= Scheduled
    /\ open => running_workers = Scheduled

\* The sets that are counted are finite.
LEMMA CountsFinite ==
    /\ IsFiniteSet(Overtaking) /\ Cardinality(Overtaking) \in Nat
    /\ IsFiniteSet(Pushing) /\ Cardinality(Pushing) \in Nat
    /\ IsFiniteSet(Busy) /\ Cardinality(Busy) \in Nat
    /\ Cardinality(Consumers) \in Nat
<1>1. Overtaking \subseteq Consumers /\ Pushing \subseteq Consumers /\ Busy \subseteq Workers
  BY DEF Overtaking, Pushing, Busy
<1> QED
  BY <1>1, FS_Subset, FS_CardinalityType, PrefetcherAssumption

\* A step that lets no client overtake and leaves counter and jobs alone.
LEMMA CountStays ==
    ASSUME CountInv, UNCHANGED <<running_workers, queue, running, open>>,
           Overtaking' \subseteq Overtaking, Pushing' = Pushing
    PROVE  CountInv'
<1>1. Cardinality(Overtaking') <= Cardinality(Overtaking) /\ Cardinality(Overtaking') \in Nat
  BY CountsFinite, FS_Subset, FS_CardinalityType
<1>2. Busy' = Busy
  BY DEF Busy
<1>3. Scheduled' = Scheduled
  BY <1>2 DEF Scheduled
<1> QED
  BY <1>1, <1>3, CountsFinite, PrefetcherAssumption DEF CountInv

\* What a new call of client c does to the sets of clients.
LEMMA CallMoves ==
    ASSUME PrefetcherInv, NEW c \in Consumers, NEW r, call' = [call EXCEPT ![c] = r]
    PROVE  /\ Overtaking' = IF r.at \in {"lookup", "count"} THEN Overtaking \cup {c}
                            ELSE Overtaking \ {c}
           /\ Pushing' = IF r.at = "push" THEN Pushing \cup {c} ELSE Pushing \ {c}
<1>1. call' = [d \in Consumers |-> IF d = c THEN r ELSE call[d]]
  BY DEF PrefetcherInv
<1> QED
  BY <1>1 DEF Overtaking, Pushing

\* A step of client c between two labels that are not counted, or out of
\* the lookup.
LEMMA CallMovesOn ==
    ASSUME PrefetcherInv, CountInv, NEW c \in Consumers, NEW r,
           call' = [call EXCEPT ![c] = r],
           r.at \in {"lookup", "count"} => call[c].at \in {"lookup", "count"},
           r.at # "push", call[c].at # "push",
           UNCHANGED <<running_workers, queue, running, open>>
    PROVE  CountInv'
<1>1. Overtaking' \subseteq Overtaking /\ Pushing' = Pushing
  BY CallMoves DEF Overtaking, Pushing
<1> QED
  BY <1>1, CountStays

\* The test of running_workers charges the client that passes it.
LEMMA CheckCounts ==
    ASSUME PrefetcherInv, CountInv, NEW c \in Consumers, Check(c)
    PROVE  CountInv'
<1> DEFINE r == call[c]
           s == [r EXCEPT !.at = "lookup"]
           e == IF r.round = 1 THEN [r EXCEPT !.at = "get", !.pos = r.pos] ELSE NoCall
<1>0. r \in CallRecord /\ r.at = "check"
  BY DEF PrefetcherInv, GoodCall, Check, At
<1>1. UNCHANGED <<running_workers, queue, running, open>>
  BY DEF Check
<1>2. CASE call' = [call EXCEPT ![c] = s] /\ running_workers < nPrefetchFrames
  <2>1. s.at = "lookup"
    BY <1>0 DEF CallRecord
  <2>2. Overtaking' = Overtaking \cup {c} /\ Pushing' = Pushing \ {c} /\ c \notin Pushing
    BY <1>0, <1>2, <2>1, CallMoves DEF Pushing
  <2>3. Overtaking' \subseteq Consumers
    BY <2>2 DEF Overtaking
  <2>4. Cardinality(Overtaking') <= Cardinality(Consumers) /\ Cardinality(Overtaking') \in Nat
    BY <2>3, FS_Subset, FS_CardinalityType, PrefetcherAssumption
  <2>5. Pushing' = Pushing /\ Busy' = Busy
    BY <1>1, <2>2 DEF Busy
  <2>6. Scheduled' = Scheduled
    BY <1>1, <2>5 DEF Scheduled
  <2> QED
    BY <1>1, <1>2, <2>4, <2>6, CountsFinite, PrefetcherAssumption DEF CountInv
<1>3. CASE call' = [call EXCEPT ![c] = e]
  <2>1. e.at \in {"get", "idle"}
    BY <1>0 DEF CallRecord, NoCall
  <2> HIDE DEF e
  <2> QED
    BY <1>0, <1>1, <1>3, <2>1, CallMovesOn
<1> QED
  BY <1>2, <1>3 DEF Check, Continue, EndRound

\* ++running_workers: the charge becomes a count.
LEMMA CountJobCounts ==
    ASSUME PrefetcherInv, CountInv, NEW c \in Consumers, CountJob(c)
    PROVE  CountInv'
<1> DEFINE s == [call[c] EXCEPT !.at = "push"]
<1>0. call[c] \in CallRecord /\ call[c].at = "count"
  BY DEF PrefetcherInv, GoodCall, CountJob, At
<1>1. s.at = "push" /\ call' = [call EXCEPT ![c] = s]
  BY <1>0 DEF CallRecord, CountJob, Continue
<1>2. /\ Overtaking' = Overtaking \ {c} /\ c \in Overtaking
      /\ Pushing' = Pushing \cup {c} /\ c \notin Pushing
  BY <1>0, <1>1, CallMoves DEF Overtaking, Pushing
<1>3. Cardinality(Overtaking') = Cardinality(Overtaking) - 1
  BY <1>2, CountsFinite, FS_RemoveElement
<1>4. Cardinality(Pushing') = Cardinality(Pushing) + 1
  BY <1>2, CountsFinite, FS_AddElement
<1>5. /\ UNCHANGED <<queue, running, open>> /\ running_workers' = running_workers + 1
      /\ Busy' = Busy
  BY DEF CountJob, Busy
<1>6. Scheduled' = Scheduled + 1 /\ Scheduled \in Int
  BY <1>4, <1>5, CountsFinite DEF Scheduled, PrefetcherInv
<1> QED
  BY <1>3, <1>5, <1>6, CountsFinite, PrefetcherAssumption DEF CountInv

\* QueueJob: the job goes from the client to the queue.
LEMMA PushJobCounts ==
    ASSUME PrefetcherInv, CountInv, NEW c \in Consumers, PushJob(c)
    PROVE  CountInv'
<1> DEFINE s == [call[c] EXCEPT !.at = "check", !.job = NoJob]
<1>0. call[c] \in CallRecord /\ call[c].at = "push" /\ call[c].job \in Jobs /\ queue \in Seq(Jobs)
  BY DEF PrefetcherInv, GoodCall, PushJob, At
<1>1. s.at = "check" /\ call' = [call EXCEPT ![c] = s]
  BY <1>0 DEF CallRecord, PushJob
<1>2. /\ Overtaking' = Overtaking
      /\ Pushing' = Pushing \ {c} /\ c \in Pushing
  BY <1>0, <1>1, CallMoves DEF Overtaking, Pushing
<1>3. Cardinality(Pushing') = Cardinality(Pushing) - 1
  BY <1>2, CountsFinite, FS_RemoveElement
<1>4. Len(queue') = Len(queue) + 1 /\ Len(queue) \in Nat
  BY <1>0 DEF PushJob
<1>5. UNCHANGED <<running_workers, running, open>> /\ Busy' = Busy
  BY DEF PushJob, Busy
<1>6. Scheduled' = Scheduled
  BY <1>3, <1>4, <1>5, CountsFinite DEF Scheduled
<1> QED
  BY <1>2, <1>5, <1>6 DEF CountInv

\* The steps of a client keep the counts.
LEMMA ClientCounts ==
    ASSUME PrefetcherInv, CountInv, NEW c \in Consumers, ClientStep(c)
    PROVE  CountInv'
<1> DEFINE r == call[c]
<1>0. r \in CallRecord
  BY DEF PrefetcherInv, GoodCall
<1>1. CASE Check(c) \/ CountJob(c) \/ PushJob(c)
  BY <1>1, CheckCounts, CountJobCounts, PushJobCounts
<1>2. CASE DropResult(c) \/ GetRequested(c)
  <2>1. PICK l \in {"check", "inside"} : call' = [call EXCEPT ![c].at = l]
    BY <1>2 DEF DropResult, GetRequested, Continue
  <2> DEFINE s == [r EXCEPT !.at = l]
  <2>2. s.at \in {"check", "inside"} /\ r.at # "push"
    BY <1>0, <1>2 DEF CallRecord, DropResult, GetRequested, At
  <2>3. UNCHANGED <<running_workers, queue, running, open>>
    BY <1>2 DEF DropResult, GetRequested
  <2>4. call' = [call EXCEPT ![c] = s]
    BY <2>1
  <2> HIDE DEF s
  <2> QED
    BY <2>2, <2>3, <2>4, CallMovesOn
<1>3. CASE GotFrame(c) \/ GetFrameThrows(c)
  <2> DEFINE s == [r EXCEPT !.at = "check", !.round = 2]
  <2>1. PICK q \in {s, NoCall} : call' = [call EXCEPT ![c] = q]
    BY <1>3 DEF GotFrame, GetFrameThrows
  <2>2. s.at = "check" /\ NoCall.at = "idle" /\ r.at = "inside"
    BY <1>0, <1>3 DEF CallRecord, NoCall, GotFrame, GetFrameThrows, At
  <2>3. UNCHANGED <<running_workers, queue, running, open>>
    BY <1>3 DEF GotFrame, GetFrameThrows
  <2> HIDE DEF s
  <2>4. q.at \in {"check", "idle"}
    BY <2>2
  <2> QED
    BY <2>1, <2>2, <2>3, <2>4, CallMovesOn
<1>4. CASE Compute(c)
  <2>1. UNCHANGED <<running_workers, queue, running, open, call>>
    BY <1>4 DEF Compute, poolVars
  <2>2. Overtaking' = Overtaking /\ Pushing' = Pushing
    BY <2>1 DEF Overtaking, Pushing
  <2> QED
    BY <2>1, <2>2, CountStays
<1>5. ASSUME NEW p \in Strides, LookupAhead(c, p)
      PROVE  CountInv'
  <2> DEFINE m == r.pos + p
             e == IF r.round = 1 THEN [r EXCEPT !.at = "get", !.pos = m] ELSE NoCall
  <2>1. UNCHANGED <<running_workers, queue, running, open>> /\ r.at = "lookup"
    BY <1>5 DEF LookupAhead, At
  <2>2. CASE EndRound(c, m)
    <3>1. e.at \in {"get", "idle"} /\ call' = [call EXCEPT ![c] = e]
      BY <1>0, <2>2 DEF CallRecord, NoCall, EndRound
    <3> HIDE DEF e
    <3> QED
      BY <2>1, <3>1, CallMovesOn
  <2>3. ASSUME NEW l \in {"drop", "check", "count"}, NEW j,
               call' = [call EXCEPT ![c].at = l, ![c].pos = m, ![c].job = j]
        PROVE  CountInv'
    <3> DEFINE s == [r EXCEPT !.at = l, !.pos = m, !.job = j]
    <3>1. s.at = l
      BY <1>0 DEF CallRecord
    <3>2. call' = [call EXCEPT ![c] = s]
      BY <2>3 DEF PrefetcherInv
    <3> HIDE DEF s, m
    <3> QED
      BY <2>1, <3>1, <3>2, CallMovesOn
  <2> QED
    BY <1>5, <2>2, <2>3, Zenon DEF LookupAhead
<1> QED
  BY <1>1, <1>2, <1>3, <1>4, <1>5 DEF ClientStep

\* A worker takes a job from the queue, or ends one and counts it down.
LEMMA WorkerCounts ==
    ASSUME PrefetcherInv, CountInv, NEW w \in Workers, WorkerStep(w)
    PROVE  CountInv'
<1>1. CASE StartJob(w)
  <2>1. /\ Head(queue) \in Jobs /\ Len(queue') = Len(queue) - 1 /\ Len(queue) \in Nat
        /\ running' = [running EXCEPT ![w] = Head(queue)] /\ running[w] = NoJob
        /\ UNCHANGED <<call, open, running_workers>>
    BY <1>1 DEF StartJob, PrefetcherInv
  <2>2. Busy' = Busy \cup {w} /\ w \notin Busy
    BY <2>1, PrefetcherAssumption DEF Busy, PrefetcherInv
  <2>3. Cardinality(Busy') = Cardinality(Busy) + 1
    BY <2>2, CountsFinite, FS_AddElement
  <2>4. Overtaking' = Overtaking /\ Pushing' = Pushing
    BY <2>1 DEF Overtaking, Pushing
  <2>5. Scheduled' = Scheduled
    BY <2>1, <2>3, <2>4, CountsFinite DEF Scheduled
  <2> QED
    BY <2>1, <2>4, <2>5 DEF CountInv
<1>2. CASE JobDone(w) \/ JobFailed(w)
  <2>1. /\ UNCHANGED <<call, queue, open>> /\ running_workers' = running_workers - 1
        /\ running' = [running EXCEPT ![w] = NoJob] /\ running[w] # NoJob
    BY <1>2 DEF JobDone, JobFailed
  <2>2. Busy' = Busy \ {w} /\ w \in Busy
    BY <2>1 DEF Busy, PrefetcherInv
  <2>3. Cardinality(Busy') = Cardinality(Busy) - 1
    BY <2>2, CountsFinite, FS_RemoveElement
  <2>4. Overtaking' = Overtaking /\ Pushing' = Pushing
    BY <2>1 DEF Overtaking, Pushing
  <2>5. Len(queue) \in Nat /\ queue' = queue
    BY <2>1 DEF PrefetcherInv
  <2>6. Scheduled' = Scheduled - 1 /\ Scheduled \in Int
    BY <2>3, <2>4, <2>5, CountsFinite DEF Scheduled
  <2> QED
    BY <2>1, <2>4, <2>6, CountsFinite, PrefetcherAssumption DEF CountInv
<1>3. CASE Compute(running[w])
  <2>1. UNCHANGED <<call, queue, running, open, running_workers>>
    BY <1>3 DEF Compute, poolVars
  <2>2. Overtaking' = Overtaking /\ Pushing' = Pushing
    BY <2>1 DEF Overtaking, Pushing
  <2> QED
    BY <2>1, <2>2, CountStays
<1> QED
  BY <1>1, <1>2, <1>3 DEF WorkerStep

LEMMA CountInit == PrefetcherInit => CountInv
<1> SUFFICES ASSUME PrefetcherInit PROVE CountInv
  OBVIOUS
<1>1. NoCall.at = "idle"
  BY DEF NoCall
<1>2. Overtaking = {} /\ Pushing = {} /\ Busy = {}
  BY <1>1 DEF PrefetcherInit, Overtaking, Pushing, Busy
<1>3. Scheduled = 0 /\ Cardinality(Overtaking) = 0
  BY <1>2, FS_EmptySet DEF PrefetcherInit, Scheduled
<1>4. running_workers = 0
  BY DEF PrefetcherInit
<1> QED
  BY <1>3, <1>4, CountsFinite, PrefetcherAssumption DEF CountInv

\* Every step of the prefetcher keeps the counts.
LEMMA CountStep == PrefetcherInv /\ CountInv /\ [PrefetcherNext]_allVars => CountInv'
<1> SUFFICES ASSUME PrefetcherInv, CountInv, [PrefetcherNext]_allVars PROVE CountInv'
  OBVIOUS
<1>1. ASSUME NEW c \in Consumers, NEW n \in FrameNumbers, GetFrame(c, n)
      PROVE  CountInv'
  <2> DEFINE s == [NoCall EXCEPT !.at = "check", !.n = n, !.pos = n]
  <2>1. s.at = "check" /\ call[c].at = "idle" /\ call' = [call EXCEPT ![c] = s]
    BY <1>1 DEF GetFrame, NoCall, At
  <2>2. UNCHANGED <<running_workers, queue, running, open>>
    BY <1>1 DEF GetFrame
  <2> HIDE DEF s
  <2> QED
    BY <2>1, <2>2, CallMovesOn
<1>2. CASE UNCHANGED poolVars
  <2>1. Overtaking' = Overtaking /\ Pushing' = Pushing
    BY <1>2 DEF Overtaking, Pushing, poolVars
  <2> QED
    BY <1>2, <2>1, CountStays DEF poolVars
<1>3. CASE Destroy
  <2>1. UNCHANGED <<call, queue, running, running_workers>> /\ open' = FALSE
    BY <1>3 DEF Destroy
  <2>2. Overtaking' = Overtaking /\ Pushing' = Pushing /\ Busy' = Busy
    BY <2>1 DEF Overtaking, Pushing, Busy
  <2>3. Scheduled' = Scheduled
    BY <2>1, <2>2 DEF Scheduled
  <2> QED
    BY <2>1, <2>2, <2>3 DEF CountInv
<1>4. CASE RollbackJob
  <2>1. /\ UNCHANGED <<call, running, running_workers>> /\ ~open'
        /\ Len(queue') = Len(queue) - 1 /\ Len(queue) \in Nat
    BY <1>4 DEF RollbackJob, PrefetcherInv
  <2>2. Overtaking' = Overtaking /\ Pushing' = Pushing /\ Busy' = Busy
    BY <2>1 DEF Overtaking, Pushing, Busy
  <2>3. Scheduled' = Scheduled - 1 /\ Scheduled \in Int
    BY <2>1, <2>2, CountsFinite DEF Scheduled
  <2> QED
    BY <2>1, <2>2, <2>3 DEF CountInv
<1> QED
  BY <1>1, <1>2, <1>3, <1>4, ClientCounts, WorkerCounts DEF PrefetcherNext, allVars

-------------------------------------------------------------------------------
(* Who finishes an entry                                                   *)

\* Only a client inside a lookup of its own and a job that somebody has are in
\* the cache; a client has a job for as long as it takes to queue it.
IdleInv ==
    /\ \A j \in Jobs : pc[j] # "idle" => InUse(j)
    /\ \A c \in Consumers : pc[c] # "idle" => call[c].at \in {"drop", "inside"}
    /\ \A c \in Consumers : call[c].job # NoJob => call[c].at \in {"count", "push"}
    /\ ~open => \A c \in Consumers : call[c].at = "idle"

\* A thread comes into the cache by its own lookup only.
LEMMA ComputeEntersNobody ==
    ASSUME CoreTypeOK, NEW t \in Threads,
           \/ Recheck(t) \/ Fill(t) \/ commit_value(t) \/ notify_all(t) \/ RollbackRemove(t)
           \/ RollbackPass(t) \/ notify_one(t) \/ SpuriousWakeup(t)
    PROVE  pc[t] # "idle" /\ \A u \in Threads : pc'[u] # "idle" => pc[u] # "idle"
<1>0. pc \in [Threads -> Labels]
  BY DEF CoreTypeOK
<1>1. CASE Recheck(t) \/ Fill(t) \/ commit_value(t) \/ RollbackRemove(t) \/ RollbackPass(t)
           \/ SpuriousWakeup(t)
  <2>1. pc[t] # "idle" /\ \E l \in Labels : Goto(t, l)
    BY <1>1 DEF Recheck, Fill, commit_value, RollbackRemove, RollbackPass, SpuriousWakeup, Labels, Return
  <2> QED
    BY <1>0, <2>1 DEF Goto
<1>2. CASE notify_all(t)
  BY <1>0, <1>2 DEF notify_all
<1>3. CASE notify_one(t)
  <2>1. pc[t] # "idle" /\ Sleepers(at[t]) \subseteq {u \in Threads : pc[u] # "idle"}
    BY <1>3 DEF notify_one, Sleepers
  <2> QED
    BY <1>0, <1>3, <2>1 DEF notify_one, Goto
<1> QED
  BY <1>1, <1>2, <1>3

\* A step that lets no thread into the cache, loses no job and moves no client
\* out of its lookup.
LEMMA IdleStays ==
    ASSUME IdleInv, \A u \in Threads : pc'[u] # "idle" => pc[u] # "idle",
           UNCHANGED <<call, queue, running, open>>
    PROVE  IdleInv'
BY PrefetcherAssumption DEF IdleInv, InUse

\* Client c, outside the cache and without a job, gets another such call.
LEMMA CallIdles ==
    ASSUME PrefetcherInv, CoreTypeOK, IdleInv, NEW c \in Consumers, NEW r,
           call' = [call EXCEPT ![c] = r], r.job = NoJob,
           r.at # "idle" => open, pc'[c] = "idle", call[c].at \notin {"count", "push"},
           \A u \in Threads : u # c => pc'[u] = pc[u], UNCHANGED <<queue, running, open>>
    PROVE  IdleInv'
<1>1. call' = [d \in Consumers |-> IF d = c THEN r ELSE call[d]]
  BY DEF PrefetcherInv
<1>2. call[c].job = NoJob
  BY DEF IdleInv
<1>3. ASSUME NEW j \in Jobs, InUse(j) PROVE InUse(j)'
  BY <1>1, <1>2, <1>3, PrefetcherAssumption DEF InUse
<1>4. \A j \in Jobs : pc'[j] = pc[j]
  BY PrefetcherAssumption
<1>5. \A d \in Consumers \ {c} : pc'[d] = pc[d]
  BY PrefetcherAssumption
<1> QED
  BY <1>1, <1>3, <1>4, <1>5 DEF IdleInv

\* Client c looks up a frame: it comes to be inside the cache, where its new
\* call says it is, or a fresh job does, which its new call has.
LEMMA CallEnters ==
    ASSUME PrefetcherInv, CoreTypeOK, IdleInv, NEW c \in Consumers, NEW r, NEW t \in Threads, NEW l,
           call' = [call EXCEPT ![c] = r], pc' = [pc EXCEPT ![t] = l],
           call[c].at \in {"lookup", "get"},
           \/ t = c /\ r.at \in {"drop", "inside"} /\ r.job = NoJob
           \/ t \in Jobs /\ r.at = "count" /\ r.job = t,
           UNCHANGED <<queue, running, open>>
    PROVE  IdleInv'
<1>1. call' = [d \in Consumers |-> IF d = c THEN r ELSE call[d]]
  BY DEF PrefetcherInv
<1>2. call[c].job = NoJob /\ open /\ pc[c] = "idle"
  BY DEF IdleInv
<1>3. ASSUME NEW j \in Jobs, InUse(j) PROVE InUse(j)'
  BY <1>1, <1>2, <1>3, PrefetcherAssumption DEF InUse
<1>4. \A u \in Threads \ {t} : pc'[u] = pc[u]
  BY DEF CoreTypeOK
<1>5. t \in Jobs => InUse(t)' /\ t # c
  BY <1>1, PrefetcherAssumption DEF InUse
<1>6. \A j \in Jobs : pc'[j] # "idle" => InUse(j)'
  BY <1>3, <1>4, <1>5, PrefetcherAssumption DEF IdleInv
<1>7. \A d \in Consumers \ {c} : pc'[d] # "idle" => call'[d].at \in {"drop", "inside"}
  BY <1>1, <1>4, PrefetcherAssumption DEF IdleInv
<1>8. pc'[c] # "idle" => call'[c].at \in {"drop", "inside"}
  BY <1>1, <1>2, <1>4, PrefetcherAssumption
<1> QED
  BY <1>1, <1>2, <1>6, <1>7, <1>8 DEF IdleInv

\* A job goes from the client that reserved its entry to the queue.
LEMMA PushIdles ==
    ASSUME PrefetcherInv, CoreTypeOK, IdleInv, NEW c \in Consumers, CountJob(c) \/ PushJob(c)
    PROVE  IdleInv'
<1>0. call[c] \in CallRecord /\ queue \in Seq(Jobs) /\ call[c].at \in {"count", "push"} /\ UNCHANGED <<pc, running, open>>
  BY DEF PrefetcherInv, GoodCall, CountJob, PushJob, vars, At
<1>1. CASE CountJob(c)
  <2> DEFINE s == [call[c] EXCEPT !.at = "push"]
  <2>1. s.at = "push" /\ s.job = call[c].job /\ call' = [call EXCEPT ![c] = s] /\ queue' = queue
    BY <1>0, <1>1 DEF CallRecord, CountJob, Continue
  <2> HIDE DEF s
  <2>2. call' = [d \in Consumers |-> IF d = c THEN s ELSE call[d]]
    BY <2>1 DEF PrefetcherInv
  <2>3. \A j \in Jobs : InUse(j)' <=> InUse(j)
    BY <1>0, <2>1, <2>2 DEF InUse
  <2> QED
    BY <1>0, <2>1, <2>2, <2>3 DEF IdleInv
<1>2. CASE PushJob(c)
  <2> DEFINE s == [call[c] EXCEPT !.at = "check", !.job = NoJob]
  <2>1. s.at = "check" /\ s.job = NoJob /\ call' = [call EXCEPT ![c] = s]
    BY <1>0, <1>2 DEF CallRecord, PushJob
  <2> HIDE DEF s
  <2>2. call' = [d \in Consumers |-> IF d = c THEN s ELSE call[d]]
    BY <2>1 DEF PrefetcherInv
  <2>3. ToSet(queue') = ToSet(queue) \cup {call[c].job}
    <3>1. queue' = Append(queue, call[c].job) /\ call[c].job \in Jobs
      BY <1>2 DEF PushJob, PrefetcherInv, GoodCall, At
    <3> QED
      BY <1>0, <3>1 DEF ToSet
  <2>4. \A j \in Jobs : InUse(j) => InUse(j)'
    BY <1>0, <2>2, <2>3 DEF InUse
  <2>5. pc[c] = "idle"
    BY <1>0 DEF IdleInv
  <2> QED
    BY <1>0, <2>1, <2>2, <2>4, <2>5 DEF IdleInv
<1> QED
  BY <1>1, <1>2

\* The steps of a client leave nobody in the cache whom nobody has.
LEMMA ClientIdles ==
    ASSUME PrefetcherInv, CoreTypeOK, IdleInv, NEW c \in Consumers, ClientStep(c)
    PROVE  IdleInv'
<1> DEFINE r == call[c]
<1>0. r \in CallRecord /\ c \in Threads /\ (r.at # "idle" => open)
  BY PrefetcherAssumption DEF PrefetcherInv, GoodCall, IdleInv
<1>1. CASE CountJob(c) \/ PushJob(c)
  BY <1>1, PushIdles
<1>2. ASSUME NEW p, EndRound(c, p), r.at \in {"check", "lookup"}, UNCHANGED <<pc, queue, running, open>>
      PROVE  IdleInv'
  <2> DEFINE e == IF r.round = 1 THEN [r EXCEPT !.at = "get", !.pos = p] ELSE NoCall
  <2>1. r.job = NoJob /\ pc[c] = "idle"
    BY <1>2 DEF IdleInv
  <2>2. e.job = NoJob /\ call' = [call EXCEPT ![c] = e]
    BY <1>0, <1>2, <2>1 DEF CallRecord, NoCall, EndRound
  <2> HIDE DEF e
  <2> QED
    BY <1>0, <1>2, <2>1, <2>2, CallIdles
<1>3. ASSUME NEW l, Continue(c, l), r.at \in {"check", "drop"}, pc'[c] = "idle",
             \A u \in Threads : u # c => pc'[u] = pc[u], UNCHANGED <<queue, running, open>>
      PROVE  IdleInv'
  <2> DEFINE s == [r EXCEPT !.at = l]
  <2>1. r.job = NoJob
    BY <1>3 DEF IdleInv
  <2>2. s.job = NoJob /\ call' = [call EXCEPT ![c] = s]
    BY <1>0, <1>3, <2>1 DEF CallRecord, Continue
  <2> HIDE DEF s
  <2> QED
    BY <1>0, <1>3, <2>1, <2>2, CallIdles
<1>4. CASE Check(c)
  <2>1. r.at = "check" /\ UNCHANGED <<pc, queue, running, open>>
    BY <1>4 DEF Check, vars, At
  <2>2. pc'[c] = "idle"
    BY <2>1 DEF IdleInv
  <2> QED
    BY <1>2, <1>3, <1>4, <2>1, <2>2 DEF Check
<1>5. CASE DropResult(c) \/ GotFrame(c)
  <2>1. pc'[c] = "idle" /\ \A u \in Threads : u # c => pc'[u] = pc[u]
    BY <1>0, <1>5 DEF DropResult, GotFrame, Consume, Goto, CoreTypeOK
  <2>2. UNCHANGED <<queue, running, open>>
    BY <1>5 DEF DropResult, GotFrame
  <2>3. CASE DropResult(c)
    BY <1>3, <2>1, <2>2, <2>3 DEF DropResult, At
  <2>4. CASE GotFrame(c)
    <3> DEFINE s == [r EXCEPT !.at = "check", !.round = 2]
    <3>1. r.at = "inside" /\ r.job = NoJob
      BY <2>4 DEF GotFrame, At, IdleInv
    <3>2. s.job = NoJob /\ call' = [call EXCEPT ![c] = s]
      BY <1>0, <2>4, <3>1 DEF CallRecord, GotFrame
    <3> HIDE DEF s
    <3> QED
      BY <1>0, <2>1, <2>2, <3>1, <3>2, CallIdles
  <2> QED
    BY <1>5, <2>3, <2>4
<1>6. CASE GetFrameThrows(c)
  <2>1. /\ r.at = "inside" /\ pc[c] = "idle" /\ UNCHANGED <<pc, queue, running, open>>
        /\ call' = [call EXCEPT ![c] = NoCall]
    BY <1>6 DEF GetFrameThrows, vars, At
  <2>2. NoCall.job = NoJob
    BY DEF NoCall
  <2> QED
    BY <1>0, <2>1, <2>2, CallIdles
<1>7. CASE Compute(c)
  <2>1. UNCHANGED <<call, queue, running, open>>
    BY <1>7 DEF Compute, poolVars
  <2>2. \A u \in Threads : pc'[u] # "idle" => pc[u] # "idle"
    BY <1>0, <1>7, ComputeEntersNobody DEF Compute
  <2> QED
    BY <2>1, <2>2, IdleStays
<1>8. CASE GetRequested(c)
  <2> DEFINE s == [r EXCEPT !.at = "inside"]
  <2>1. r.at = "get" /\ r.job = NoJob
    BY <1>8 DEF GetRequested, At, IdleInv
  <2>2. s.at = "inside" /\ s.job = NoJob /\ call' = [call EXCEPT ![c] = s]
    BY <1>0, <1>8, <2>1 DEF CallRecord, GetRequested, Continue
  <2>3. PICK l : pc' = [pc EXCEPT ![c] = l]
    BY <1>8 DEF GetRequested, LookupReady, LookupWait, LookupNotFound, Goto, Return
  <2>4. UNCHANGED <<queue, running, open>>
    BY <1>8 DEF GetRequested
  <2> HIDE DEF s
  <2> QED
    BY <1>0, <2>1, <2>2, <2>3, <2>4, CallEnters
<1>9. ASSUME NEW p \in Strides, LookupAhead(c, p)
      PROVE  IdleInv'
  <2> DEFINE m == r.pos + p
             Found(l, j) == call' = [call EXCEPT ![c].at = l, ![c].pos = m, ![c].job = j]
  <2>1. r.at = "lookup" /\ UNCHANGED <<queue, running, open>> /\ pc[c] = "idle"
    BY <1>9 DEF LookupAhead, At, IdleInv
  <2>2. CASE EndRound(c, m) /\ UNCHANGED vars
    <3>1. UNCHANGED pc
      BY <2>2 DEF vars
    <3> QED
      BY <1>2, <2>1, <2>2, <3>1
  <2>3. CASE LookupReady(c, m) /\ Found("drop", NoJob)
    <3>1. pc' = [pc EXCEPT ![c] = "returned"]
      BY <2>3 DEF LookupReady, Return, Goto
    <3> DEFINE s == [r EXCEPT !.at = "drop", !.pos = m, !.job = NoJob]
    <3>2. s.at = "drop" /\ s.job = NoJob /\ call' = [call EXCEPT ![c] = s]
      BY <1>0, <2>3 DEF CallRecord, PrefetcherInv
    <3> HIDE DEF s
    <3> QED
      BY <1>0, <2>1, <3>1, <3>2, CallEnters
  <2>4. CASE LookupNotAvail(c, m) /\ Found("check", NoJob)
    <3>1. UNCHANGED pc
      BY <2>4 DEF LookupNotAvail
    <3> DEFINE s == [r EXCEPT !.at = "check", !.pos = m, !.job = NoJob]
    <3>2. s.at = "check" /\ s.job = NoJob /\ call' = [call EXCEPT ![c] = s]
      BY <1>0, <2>4 DEF CallRecord, PrefetcherInv
    <3> HIDE DEF s
    <3> QED
      BY <1>0, <2>1, <3>1, <3>2, CallIdles
  <2>5. ASSUME NEW j \in Jobs, LookupNotFound(j, m), Found("count", j)
        PROVE  IdleInv'
    <3>1. pc' = [pc EXCEPT ![j] = "own"] /\ j \in Threads
      BY <2>5, PrefetcherAssumption DEF LookupNotFound, Goto
    <3> DEFINE s == [r EXCEPT !.at = "count", !.pos = m, !.job = j]
    <3>2. s.at = "count" /\ s.job = j /\ call' = [call EXCEPT ![c] = s]
      BY <1>0, <2>5 DEF CallRecord, PrefetcherInv
    <3> HIDE DEF s
    <3> QED
      BY <2>1, <2>5, <3>1, <3>2, CallEnters
  <2> QED
    BY <1>9, <2>2, <2>3, <2>4, <2>5, Zenon DEF LookupAhead
<1> QED
  BY <1>1, <1>4, <1>5, <1>6, <1>7, <1>8, <1>9 DEF ClientStep

\* A worker leaves a job when it is done with the cache.
LEMMA WorkerIdles ==
    ASSUME PrefetcherInv, CoreTypeOK, IdleInv, NEW w \in Workers, WorkerStep(w)
    PROVE  IdleInv'
<1>0. queue \in Seq(Jobs) /\ running \in [Workers -> Jobs \cup {NoJob}]
  BY DEF PrefetcherInv
<1>1. CASE StartJob(w)
  <2>1. /\ UNCHANGED <<pc, call, open>> /\ queue' = Tail(queue) /\ queue # <<>>
        /\ running' = [running EXCEPT ![w] = Head(queue)] /\ running[w] = NoJob
    BY <1>1 DEF StartJob, vars
  <2>2. ToSet(queue) \subseteq ToSet(queue') \cup {Head(queue)}
    <3> SUFFICES ASSUME NEW i \in 1 .. Len(queue), i # 1
                 PROVE  queue[i] \in ToSet(queue')
      BY <1>0, <2>1 DEF ToSet
    <3>1. i - 1 \in 1 .. Len(queue') /\ queue'[i - 1] = queue[i]
      BY <1>0, <2>1
    <3>2. DOMAIN queue' = 1 .. Len(queue')
      BY <1>0, <2>1
    <3> QED
      BY <3>1, <3>2 DEF ToSet
  <2>3. \A j \in Jobs : InUse(j) => InUse(j)'
    BY <1>0, <2>1, <2>2, PrefetcherAssumption DEF InUse
  <2> QED
    BY <2>1, <2>3 DEF IdleInv
<1>2. CASE JobDone(w) \/ JobFailed(w)
  <2> DEFINE i == running[w]
  <2>1. /\ UNCHANGED <<call, queue, open>> /\ running' = [running EXCEPT ![w] = NoJob]
        /\ i \in Jobs /\ i \in Threads
    BY <1>0, <1>2, PrefetcherAssumption DEF JobDone, JobFailed
  <2>2. pc'[i] = "idle" /\ \A u \in Threads : u # i => pc'[u] = pc[u]
    BY <1>2, <2>1 DEF JobDone, JobFailed, Consume, Goto, vars, CoreTypeOK
  <2>3. \A j \in Jobs : InUse(j) /\ j # i => InUse(j)'
    BY <1>0, <2>1, PrefetcherAssumption DEF InUse
  <2>4. \A c \in Consumers : pc'[c] = pc[c]
    BY <2>1, <2>2, PrefetcherAssumption
  <2>5. \A j \in Jobs : pc'[j] # "idle" => InUse(j)'
    BY <2>1, <2>2, <2>3, PrefetcherAssumption DEF IdleInv
  <2> QED
    BY <2>1, <2>4, <2>5 DEF IdleInv
<1>3. CASE running[w] # NoJob /\ Compute(running[w])
  <2>1. UNCHANGED <<call, queue, running, open>> /\ running[w] \in Threads
    BY <1>0, <1>3, PrefetcherAssumption DEF Compute, poolVars
  <2>2. \A u \in Threads : pc'[u] # "idle" => pc[u] # "idle"
    BY <1>3, <2>1, ComputeEntersNobody DEF Compute
  <2> QED
    BY <2>1, <2>2, IdleStays
<1> QED
  BY <1>1, <1>2, <1>3 DEF WorkerStep

\* The destructor rolls back each job that no worker has taken.
LEMMA RollbackIdles ==
    ASSUME PrefetcherInv, CoreTypeOK, IdleInv, RollbackJob
    PROVE  IdleInv'
<1> DEFINE i == Head(queue)
<1>1. /\ UNCHANGED <<call, running, open>> /\ queue' = Tail(queue) /\ queue # <<>>
      /\ queue \in Seq(Jobs) /\ i \in Jobs /\ i \in Threads
  BY PrefetcherAssumption DEF RollbackJob, PrefetcherInv
<1>2. pc'[i] = "idle" /\ \A u \in Threads : u # i => pc'[u] = pc[u]
  BY <1>1 DEF RollbackJob, RollbackRemove, Goto, CoreTypeOK
<1>3. ToSet(queue) \subseteq ToSet(queue') \cup {i}
  <2> SUFFICES ASSUME NEW k \in 1 .. Len(queue), k # 1
               PROVE  queue[k] \in ToSet(queue')
    BY <1>1 DEF ToSet
  <2>1. k - 1 \in 1 .. Len(queue') /\ queue'[k - 1] = queue[k]
    BY <1>1
  <2>2. DOMAIN queue' = 1 .. Len(queue')
    BY <1>1
  <2> QED
    BY <2>1, <2>2 DEF ToSet
<1> HIDE DEF i
<1>4. \A j \in Jobs : InUse(j) /\ j # i => InUse(j)'
  BY <1>1, <1>3 DEF InUse
<1>5. \A c \in Consumers : pc'[c] = pc[c]
  BY <1>1, <1>2, PrefetcherAssumption
<1>6. \A j \in Jobs : pc'[j] # "idle" => InUse(j)'
  BY <1>1, <1>2, <1>4, PrefetcherAssumption DEF IdleInv
<1> QED
  BY <1>1, <1>5, <1>6 DEF IdleInv

\* Every step of the prefetcher keeps the invariant.
LEMMA IdleStep ==
    PrefetcherInv /\ CoreTypeOK /\ IdleInv /\ [PrefetcherNext]_allVars => IdleInv'
<1> SUFFICES ASSUME PrefetcherInv, CoreTypeOK, IdleInv, [PrefetcherNext]_allVars PROVE IdleInv'
  OBVIOUS
<1>1. ASSUME NEW c \in Consumers, NEW n \in FrameNumbers, GetFrame(c, n)
      PROVE  IdleInv'
  <2> DEFINE s == [NoCall EXCEPT !.at = "check", !.n = n, !.pos = n]
  <2>1. s.job = NoJob /\ call[c].at = "idle" /\ call' = [call EXCEPT ![c] = s] /\ open
    BY <1>1 DEF GetFrame, NoCall, At
  <2>2. UNCHANGED <<pc, queue, running, open>>
    BY <1>1 DEF GetFrame, vars
  <2>3. pc[c] = "idle"
    BY <2>1 DEF IdleInv
  <2> HIDE DEF s
  <2> QED
    BY <2>1, <2>2, <2>3, CallIdles
<1>2. ASSUME NEW c \in Consumers, SpuriousWakeup(c), UNCHANGED poolVars
      PROVE  IdleInv'
  <2>1. c \in Threads
    BY PrefetcherAssumption
  <2> QED
    BY <1>2, <2>1, ComputeEntersNobody, IdleStays DEF poolVars
<1>3. CASE Destroy
  BY <1>3 DEF Destroy, vars, IdleInv, InUse, At
<1>4. CASE UNCHANGED allVars
  BY <1>4, IdleStays DEF allVars, vars, poolVars
<1> QED
  BY <1>1, <1>2, <1>3, <1>4, ClientIdles, WorkerIdles, RollbackIdles DEF PrefetcherNext

\* When nobody is in the cache, no entry is locked or unfinished.
LEMMA NobodyInside ==
    ASSUME CoreInv, \A t \in Threads : pc[t] = "idle", NEW k \in DOMAIN lru.entry
    PROVE  lru.entry[k].state = "AVAILABLE" /\ lru.entry[k].locks = 0
<1>1. Holders(k) = {} /\ Owners(k) = {}
  BY DEF Holders, Owners, Owning, Waiting
<1>2. lru.entry[k].locks = 0
  BY <1>1, FS_EmptySet DEF CoreInv, LockAccounting
<1>3. lru.entry[k].state \in {"EMPTY", "AVAILABLE", "ROLLED_BACK"}
  BY DEF CoreInv, CoreTypeOK, IsLru, IsEntry, EntryStates
<1> QED
  BY <1>1, <1>2, <1>3 DEF CoreInv, SingleFlight

-------------------------------------------------------------------------------
(* Theorems                                                                *)

\* A prefetcher implements the specification of its cache.
THEOREM PrefetcherUsesLruCache == PrefetcherSpec => UsesLruCache
<1>1. PrefetcherInit => Init
  BY DEF PrefetcherInit
<1>2. PrefetcherInit => PrefetcherInv
  BY InitInv
<1>3. PrefetcherInv /\ [PrefetcherNext]_allVars => PrefetcherInv'
  BY InvStep
<1>4. PrefetcherInv /\ [PrefetcherNext]_allVars => [Next]_vars
  BY StepRefines
<1> QED
  BY <1>1, <1>2, <1>3, <1>4, PTL DEF PrefetcherSpec, UsesLruCache, Spec

\* So a frame that is prefetched is computed by one job or one client at a
\* time, whoever asks for it meanwhile waits, and is notified.
THEOREM PrefetchedOnce == PrefetcherSpec => [](SingleFlight /\ NotificationPending)
BY PrefetcherUsesLruCache, SingleFlightHolds, NotificationPendingHolds, PTL
   DEF UsesLruCache

\* The counts of the prefetcher hold in every state.
LEMMA CountsHold == PrefetcherSpec => [](PrefetcherInv /\ CountInv)
<1>1. PrefetcherInit => PrefetcherInv /\ CountInv
  BY InitInv, CountInit
<1>2. PrefetcherInv /\ CountInv /\ [PrefetcherNext]_allVars => PrefetcherInv' /\ CountInv'
  BY InvStep, CountStep
<1> QED
  BY <1>1, <1>2, PTL DEF PrefetcherSpec

\* While the prefetcher is open, running_workers counts the jobs that were
\* scheduled and have not ended.
THEOREM WorkersCountedHolds == PrefetcherSpec => []WorkersCounted
<1>1. CountInv => WorkersCounted
  BY DEF CountInv, WorkersCounted, Scheduled, Pushing, Busy, At
<1> QED
  BY <1>1, CountsHold, PTL

\* However the clients overtake each other between the test and the increment,
\* at most one job per other client is scheduled beyond nPrefetchFrames.
THEOREM PrefetchBoundHolds == PrefetcherSpec => []PrefetchBound
<1>1. CountInv => PrefetchBound
  BY CountsFinite, PrefetcherAssumption DEF CountInv, PrefetchBound
<1> QED
  BY <1>1, CountsHold, PTL

\* An entry that is being computed has a client or a job that finishes it, and
\* the destructor leaves no entry unfinished or locked.
THEOREM NoOrphanEntryHolds == PrefetcherSpec => []NoOrphanEntry
<1>1. PrefetcherInit => PrefetcherInv /\ IdleInv
  <2>1. PrefetcherInit => IdleInv
    <3> SUFFICES ASSUME PrefetcherInit PROVE IdleInv
      OBVIOUS
    <3>1. NoCall.at = "idle" /\ NoCall.job = NoJob
      BY DEF NoCall
    <3>2. \A t \in Threads : pc[t] = "idle"
      BY DEF PrefetcherInit, Init
    <3>3. \A c \in Consumers : call[c] = NoCall
      BY DEF PrefetcherInit
    <3> QED
      BY <3>1, <3>2, <3>3, PrefetcherAssumption DEF IdleInv
  <2> QED
    BY <2>1, InitInv
<1>2. PrefetcherInv /\ IdleInv /\ CoreInv /\ [PrefetcherNext]_allVars => PrefetcherInv' /\ IdleInv'
  BY InvStep, IdleStep DEF CoreInv
<1>3. PrefetcherSpec => []CoreInv
  BY PrefetcherUsesLruCache, CoreInvariance, PTL DEF UsesLruCache
<1>4. CoreInv /\ IdleInv => NoOrphanEntry
  <2> SUFFICES ASSUME CoreInv, IdleInv PROVE NoOrphanEntry
    OBVIOUS
  <2>1. ASSUME Destroyed PROVE \A t \in Threads : pc[t] = "idle"
    <3>1. \A c \in Consumers : pc[c] = "idle" /\ call[c].job = NoJob
      BY <2>1 DEF Destroyed, IdleInv
    <3>2. \A j \in Jobs : ~InUse(j)
      BY <2>1, <3>1, PrefetcherAssumption DEF Destroyed, InUse, ToSet
    <3> QED
      BY <3>1, <3>2, PrefetcherAssumption DEF IdleInv
  <2> QED
    BY <2>1, NobodyInside DEF NoOrphanEntry, IdleInv
<1> QED
  BY <1>1, <1>2, <1>3, <1>4, PTL DEF PrefetcherSpec

-------------------------------------------------------------------------------
(* The tracker                                                             *)

\* The latest n requests of h exist and all had, or all lacked, the pattern p.
AllHad(h, n, p)    == \A i \in 1 .. n : i <= Len(h) /\ h[i] = p
AllLacked(h, n, p) == \A i \in 1 .. n : i <= Len(h) /\ h[i] # p

\* What the counters say of the requests.  A lock that has just been found
\* leaves PatternHits at the limit with Pattern equal to the locked pattern;
\* the next request that departs from it starts counting from zero.
HistoryInv ==
    /\ history \in Seq(Int)
    /\ Len(history) <= MaxRun
    /\ ~IsLocked \/ Pattern # LockedPattern => AllHad(history, PatternHits, Pattern)
    /\ IsLocked => AllLacked(history, PatternMisses, LockedPattern)

PatternInv == TrackerTypeOK /\ HistoryInv

-------------------------------------------------------------------------------
(* The history                                                             *)

\* Remember puts the new pattern in front and shifts the others by one.
LEMMA RememberShifts ==
    ASSUME history \in Seq(Int), Len(history) <= MaxRun, NEW p \in Int
    PROVE  /\ Remember(p) \in Seq(Int)
           /\ Len(Remember(p)) \in 1 .. MaxRun
           /\ Remember(p)[1] = p
           /\ \A i \in Nat \ {0} :
                i <= Len(history) /\ i < MaxRun
                  => i + 1 <= Len(Remember(p)) /\ Remember(p)[i + 1] = history[i]
<1>1. CASE Len(history) < MaxRun
  BY <1>1, PatternAssumption DEF Remember
<1>2. CASE Len(history) = MaxRun
  <2> DEFINE f == Front(history)
  <2>1. f \in Seq(Int) /\ Len(f) = MaxRun - 1 /\ \A i \in 1 .. MaxRun - 1 : f[i] = history[i]
    BY <1>2, PatternAssumption DEF Front
  <2>2. Remember(p) = <<p>> \o f
    BY <1>2 DEF Remember
  <2> HIDE DEF f
  <2> QED
    BY <1>2, <2>1, <2>2, PatternAssumption
<1> QED
  BY <1>1, <1>2, PatternAssumption

\* A request that has the pattern lengthens the run of those that had it.
LEMMA CountHad ==
    ASSUME history \in Seq(Int), Len(history) <= MaxRun, NEW p \in Int,
           NEW n \in 0 .. PATTERN_LOCK_LENGTH, AllHad(history, n, p)
    PROVE  AllHad(Remember(p), Count(n), p)
<1> SUFFICES ASSUME NEW i \in 1 .. Count(n)
             PROVE  i <= Len(Remember(p)) /\ Remember(p)[i] = p
  BY DEF AllHad
<1>1. i \in Nat \ {0} /\ i <= n + 1 /\ i <= PATTERN_LOCK_LENGTH
  BY PatternAssumption DEF Count
<1>2. CASE i = 1
  <2>1. Remember(p)[1] = p /\ Len(Remember(p)) \in 1 .. MaxRun
    BY RememberShifts
  <2> QED
    BY <1>2, <2>1, PatternAssumption
<1>3. CASE i > 1
  <2> DEFINE k == i - 1
  <2>1. k \in 1 .. n /\ k \in Nat \ {0} /\ k < MaxRun /\ i = k + 1
    BY <1>1, <1>3, PatternAssumption
  <2>2. k <= Len(history) /\ history[k] = p
    BY <2>1 DEF AllHad
  <2>3. k + 1 <= Len(Remember(p)) /\ Remember(p)[k + 1] = history[k]
    BY <2>1, <2>2, RememberShifts
  <2> HIDE DEF k
  <2> QED
    BY <2>1, <2>2, <2>3
<1> QED
  BY <1>1, <1>2, <1>3

\* In the same way for requests that lack the pattern.
LEMMA CountLacked ==
    ASSUME history \in Seq(Int), Len(history) <= MaxRun, NEW q \in Int, NEW p \in Int,
           p # q, NEW n \in 0 .. PATTERN_LOCK_LENGTH, AllLacked(history, n, q)
    PROVE  AllLacked(Remember(p), Count(n), q)
<1> SUFFICES ASSUME NEW i \in 1 .. Count(n)
             PROVE  i <= Len(Remember(p)) /\ Remember(p)[i] # q
  BY DEF AllLacked
<1>1. i \in Nat \ {0} /\ i <= n + 1 /\ i <= PATTERN_LOCK_LENGTH
  BY PatternAssumption DEF Count
<1>2. CASE i = 1
  <2>1. Remember(p)[1] = p /\ Len(Remember(p)) \in 1 .. MaxRun
    BY RememberShifts
  <2> QED
    BY <1>2, <2>1, PatternAssumption
<1>3. CASE i > 1
  <2> DEFINE k == i - 1
  <2>1. k \in 1 .. n /\ k \in Nat \ {0} /\ k < MaxRun /\ i = k + 1
    BY <1>1, <1>3, PatternAssumption
  <2>2. k <= Len(history) /\ history[k] # q
    BY <2>1 DEF AllLacked
  <2>3. k + 1 <= Len(Remember(p)) /\ Remember(p)[k + 1] = history[k]
    BY <2>1, <2>2, RememberShifts
  <2> HIDE DEF k
  <2> QED
    BY <2>1, <2>2, <2>3
<1> QED
  BY <1>1, <1>2, <1>3

LEMMA CountType ==
    ASSUME NEW n \in 0 .. PATTERN_LOCK_LENGTH
    PROVE  Count(n) \in 1 .. PATTERN_LOCK_LENGTH
BY PatternAssumption DEF Count

-------------------------------------------------------------------------------
(* One request                                                             *)

LEMMA InitPattern == TrackerInit => PatternInv
<1> SUFFICES ASSUME TrackerInit PROVE PatternInv
  OBVIOUS
<1>1. TrackerTypeOK
  <2>1. 1 \in Patterns \ {0} /\ 0 \in 0 .. clip_frames - 1 /\ 0 \in 0 .. PATTERN_LOCK_LENGTH
    BY PatternAssumption DEF Patterns
  <2> QED
    BY <2>1 DEF TrackerInit, TrackerTypeOK
<1>2. AllHad(history, 0, Pattern)
  BY DEF AllHad
<1>3. history \in Seq(Int) /\ Len(history) = 0
  BY DEF TrackerInit
<1> QED
  BY <1>1, <1>2, <1>3, PatternAssumption DEF TrackerInit, PatternInv, HistoryInv

\* The pattern of a request inside the clip.
LEMMA PatternOfType ==
    ASSUME TrackerTypeOK, NEW n \in 0 .. clip_frames - 1
    PROVE  PatternOf(n) \in Patterns \ {0} /\ PatternOf(n) \in Int
BY PatternAssumption DEF PatternOf, Patterns, TrackerTypeOK

\* What a request does to a lock: the invariant is kept, a pattern is locked on
\* PATTERN_LOCK_LENGTH requests that had it, and given up on as many that
\* lacked it.
RequestGood ==
    /\ PatternInv'
    /\ IsLocked' /\ (~IsLocked \/ LockedPattern' # LockedPattern)
         => AllHad(history', PATTERN_LOCK_LENGTH, LockedPattern')
    /\ IsLocked /\ (~IsLocked' \/ LockedPattern' # LockedPattern)
         => AllLacked(history', PATTERN_LOCK_LENGTH, LockedPattern)

LEMMA LockedRequest ==
    ASSUME PatternInv, IsLocked, NEW p \in Patterns \ {0}, p \in Int, TrackLocked(p),
           LastRequestedFrame' \in 0 .. clip_frames - 1, history' = Remember(p)
    PROVE  RequestGood
<1> DEFINE L == PATTERN_LOCK_LENGTH
           hits == IF LockedPattern # p /\ Pattern = p THEN Count(PatternHits) ELSE 0
           misses == IF LockedPattern = p THEN 0 ELSE Count(PatternMisses)
           lost == misses >= L
           found == lost /\ hits >= L
<1>0. L \in Nat \ {0} /\ LockedPattern \in Int /\ Pattern \in Int
      /\ PatternHits \in 0 .. L /\ PatternMisses \in 0 .. L
  BY PatternAssumption DEF PatternInv, TrackerTypeOK, Patterns
<1>1. hits \in 0 .. L /\ misses \in 0 .. L
  BY <1>0, CountType
<1>2. history' \in Seq(Int) /\ Len(history') <= MaxRun
  BY RememberShifts, PatternAssumption DEF PatternInv, HistoryInv
<1>3. p # LockedPattern => AllHad(history', hits, p)
  <2>1. CASE p # LockedPattern /\ Pattern = p
    BY <2>1, <1>0, CountHad DEF PatternInv, HistoryInv
  <2>2. CASE Pattern # p
    BY <2>2 DEF AllHad
  <2> QED
    BY <2>1, <2>2
<1>4. AllLacked(history', misses, LockedPattern)
  <2>1. CASE p # LockedPattern
    BY <2>1, <1>0, CountLacked DEF PatternInv, HistoryInv
  <2>2. CASE p = LockedPattern
    BY <2>2 DEF AllLacked
  <2> QED
    BY <2>1, <2>2
<1>5. lost => p # LockedPattern /\ misses = L
  BY <1>0, <1>1
<1>6. /\ Pattern' = p
      /\ LockedPattern' = IF found THEN p ELSE LockedPattern
      /\ PatternHits' = IF found THEN 0 ELSE hits
      /\ PatternMisses' = IF found THEN 0 ELSE misses
      /\ IsLocked' = (~lost \/ found)
  BY DEF TrackLocked
<1> HIDE DEF hits, misses
<1>7. CASE found
  <2>1. hits = L
    BY <1>0, <1>1, <1>7
  <2>2. AllHad(history', L, LockedPattern') /\ AllLacked(history', L, LockedPattern)
    BY <1>3, <1>4, <1>5, <1>6, <1>7, <2>1
  <2>3. HistoryInv'
    BY <1>0, <1>2, <1>6, <1>7 DEF HistoryInv, AllHad, AllLacked
  <2>4. TrackerTypeOK'
    BY <1>0, <1>6, <1>7 DEF TrackerTypeOK
  <2> QED
    BY <2>2, <2>3, <2>4 DEF RequestGood, PatternInv
<1>8. CASE lost /\ ~found
  <2>1. ~IsLocked' /\ LockedPattern' = LockedPattern /\ PatternHits' = hits
        /\ AllHad(history', hits, Pattern') /\ AllLacked(history', L, LockedPattern)
    BY <1>3, <1>4, <1>5, <1>6, <1>8
  <2>2. TrackerTypeOK'
    BY <1>0, <1>1, <1>6, <1>8 DEF TrackerTypeOK, PatternInv
  <2> QED
    BY <1>2, <2>1, <2>2 DEF RequestGood, PatternInv, HistoryInv
<1>9. CASE ~lost
  <2>1. IsLocked' /\ LockedPattern' = LockedPattern /\ PatternHits' = hits
        /\ PatternMisses' = misses /\ Pattern' = p
    BY <1>6, <1>9
  <2>2. TrackerTypeOK'
    BY <1>0, <1>1, <2>1 DEF TrackerTypeOK, PatternInv
  <2> QED
    BY <1>2, <1>3, <1>4, <2>1, <2>2 DEF RequestGood, PatternInv, HistoryInv
<1> QED
  BY <1>7, <1>8, <1>9

LEMMA UnlockedRequest ==
    ASSUME PatternInv, ~IsLocked, NEW p \in Patterns \ {0}, p \in Int, TrackUnlocked(p),
           LastRequestedFrame' \in 0 .. clip_frames - 1, history' = Remember(p)
    PROVE  RequestGood
<1> DEFINE L == PATTERN_LOCK_LENGTH
           hits == IF Pattern = p THEN Count(PatternHits) ELSE 0
           found == hits >= L
<1>0. L \in Nat \ {0} /\ LockedPattern \in Int /\ Pattern \in Int
      /\ PatternHits \in 0 .. L /\ PatternMisses \in 0 .. L
  BY PatternAssumption DEF PatternInv, TrackerTypeOK, Patterns
<1>1. hits \in 0 .. L
  BY <1>0, CountType
<1>2. history' \in Seq(Int) /\ Len(history') <= MaxRun
  BY RememberShifts, PatternAssumption DEF PatternInv, HistoryInv
<1>3. AllHad(history', hits, Pattern)
  <2>1. CASE Pattern = p
    BY <2>1, <1>0, CountHad DEF PatternInv, HistoryInv
  <2>2. CASE Pattern # p
    BY <2>2 DEF AllHad
  <2> QED
    BY <2>1, <2>2
<1>4. found => Pattern = p /\ hits = L
  BY <1>0, <1>1
<1>5. /\ PatternHits' = hits
      /\ PatternMisses' = IF Pattern = p \/ found THEN 0 ELSE Count(PatternMisses)
      /\ LockedPattern' = IF found THEN p ELSE LockedPattern
      /\ IsLocked' = found
      /\ Pattern' = Pattern
  BY DEF TrackUnlocked
<1>6. PatternMisses' \in 0 .. L
  BY <1>0, <1>5, CountType
<1> HIDE DEF hits
<1>7. TrackerTypeOK'
  BY <1>0, <1>1, <1>5, <1>6 DEF TrackerTypeOK, PatternInv
<1>8. CASE found
  <2>1. AllLacked(history', 0, LockedPattern')
    BY DEF AllLacked
  <2>2. HistoryInv'
    BY <1>2, <1>4, <1>5, <1>8, <2>1 DEF HistoryInv
  <2> QED
    BY <1>3, <1>4, <1>5, <1>7, <1>8, <2>2 DEF RequestGood, PatternInv
<1>9. CASE ~found
  <2>1. HistoryInv'
    BY <1>2, <1>3, <1>5, <1>9 DEF HistoryInv
  <2> QED
    BY <1>5, <1>7, <1>9, <2>1 DEF RequestGood, PatternInv
<1> QED
  BY <1>8, <1>9

LEMMA EveryRequest == ASSUME PatternInv, TrackerNext PROVE RequestGood
<1>1. PICK s \in Steps : /\ LastRequestedFrame + s \in 0 .. clip_frames - 1
                           /\ TrackPattern(LastRequestedFrame + s)
  BY DEF TrackerNext
<1> DEFINE n == LastRequestedFrame + s
           p == PatternOf(n)
<1>2. p \in Patterns \ {0} /\ p \in Int
  BY <1>1, PatternOfType DEF PatternInv
<1>3. /\ LastRequestedFrame' \in 0 .. clip_frames - 1
      /\ history' = Remember(p)
      /\ IF IsLocked THEN TrackLocked(p) ELSE TrackUnlocked(p)
  BY <1>1 DEF TrackPattern
<1> HIDE DEF p
<1> QED
  BY <1>2, <1>3, LockedRequest, UnlockedRequest

LEMMA PatternInvStep == PatternInv /\ [TrackerNext]_trackerVars => PatternInv'
<1> SUFFICES ASSUME PatternInv, [TrackerNext]_trackerVars PROVE PatternInv'
  OBVIOUS
<1>1. CASE TrackerNext
  BY <1>1, EveryRequest DEF RequestGood
<1>2. CASE UNCHANGED trackerVars
  BY <1>2 DEF PatternInv, TrackerTypeOK, HistoryInv, trackerVars, tracker, AllHad, AllLacked
<1> QED
  BY <1>1, <1>2

LEMMA PatternInvHolds == TrackerSpec => []PatternInv
BY InitPattern, PatternInvStep, PTL DEF TrackerSpec

\* For a clip of any length and any lock length, whatever the order of the
\* requests: no pattern that SchedulePrefetch could follow is zero, and the
\* counters stay within their limits.
THEOREM PatternTypeCorrect == TrackerSpec => []TrackerTypeOK
<1>1. PatternInv => TrackerTypeOK
  BY DEF PatternInv
<1> QED
  BY <1>1, PatternInvHolds, PTL

\* GetFrame locks a pattern only on PATTERN_LOCK_LENGTH successive requests that
\* had it and gives it up only on as many that lacked it, for any lock length.
THEOREM LockFollowsRequestsHolds == TrackerSpec => LockFollowsRequests
<1> DEFINE Step ==
      /\ IsLocked' /\ (~IsLocked \/ LockedPattern' # LockedPattern)
           => \A i \in 1 .. PATTERN_LOCK_LENGTH :
                i <= Len(history') /\ history'[i] = LockedPattern'
      /\ IsLocked /\ (~IsLocked' \/ LockedPattern' # LockedPattern)
           => \A i \in 1 .. PATTERN_LOCK_LENGTH :
                i <= Len(history') /\ history'[i] # LockedPattern
<1>1. PatternInv /\ [TrackerNext]_trackerVars => [Step]_trackerVars
  BY EveryRequest DEF RequestGood, AllHad, AllLacked
<1> QED
  BY <1>1, PatternInvHolds, PTL DEF TrackerSpec, LockFollowsRequests
===============================================================================
