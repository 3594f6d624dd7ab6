------------------------------- MODULE LruCache -------------------------------
(***************************************************************************)
(* LruCache<K, V> of LruCache.h: the frame cache that every AvsCache and   *)
(* every Prefetcher owns, used by several threads at once.                 *)
(*                                                                         *)
(* One critical section under LruCache::mutex is one action; a thread that *)
(* waits on an entry's ready_cond, that has been woken and has not yet     *)
(* taken the mutex again, or that has left the mutex and not yet notified, *)
(* is at a control point of its own.  The frame of key k is k itself, so a *)
(* returned frame can be compared with the one that was asked for.         *)
(*                                                                         *)
(* Eviction counts are compared with 1 only, so they saturate at 2.        *)
(***************************************************************************)
EXTENDS SimpleLruCache, FiniteSets, SequencesExt

CONSTANTS
    Threads,             \* threads that call GetFrame
    Keys,                \* frame numbers
    InitCap,             \* capacity given to the constructor
    GHOSTS_MIN_CAPACITY, \* 50 in the code
    Modes,               \* the CacheModes a cache may be created with
    Limits,              \* the <<min, max>> pairs that set_limits may be given
    MayThrow,            \* whether the child's GetFrame may throw
    NoFrame              \* a null PVideoFrame

ASSUME LruAssumption ==
    /\ IsFiniteSet(Threads)
    /\ InitCap \in Nat
    /\ GHOSTS_MIN_CAPACITY \in Nat \ {0}
    /\ Modes \subseteq {"FAST_START", "OPTIMAL_SIZE", "NO_RESIZE"}
    /\ Limits \subseteq Nat \X Nat
    /\ MayThrow \in BOOLEAN
    /\ NoFrame \notin Keys

VARIABLES
    mode,   \* LruCache::mode
    lru,    \* MainCache, its entries and the ghost list
    pc,     \* where each thread is
    at,     \* the key each thread asked for
    result  \* the frame each thread was handed

vars == <<mode, lru, pc, at, result>>

EntryStates == {"EMPTY", "AVAILABLE", "ROLLED_BACK"}

LruFields == {"order", "entry", "cap", "ghosts", "ghosted", "ghostCap"}

\* A thread that holds one of an entry's locks: the one that must fill it
\* and the ones that wait for it.
Owning  == {"own", "filled"}
Waiting == {"wait", "woken"}

-------------------------------------------------------------------------------
(* Operators on the cache object                                           *)

Saturate(n) == IF n > 2 THEN 2 ELSE n

\* LruEntry objects live in the pool from lookup() to their eviction: e
\* becomes the entry of key k.
SetEntry(c, k, e) ==
    [c EXCEPT !.entry = [x \in DOMAIN @ \cup {k} |-> IF x = k THEN e ELSE @[x]]]

WithoutEntries(c, S) ==
    [c EXCEPT !.entry = [x \in DOMAIN @ \ S |-> @[x]],
              !.order = Drop(@, S)]

Pinned(c) == {k \in DOMAIN c.entry : c.entry[k].locks > 0}

\* Ghosts.lookup(k) followed by the assignment of its ghosted count.
GhostPut(c, k, n) ==
    IF Listed(c.ghosts, k)
    THEN [c EXCEPT !.ghosts = MoveToFront(@, k), !.ghosted[k] = n]
    ELSE LET gone == Victims(c.ghosts, c.ghostCap, {})
         IN  [c EXCEPT !.ghosts = <<k>> \o Drop(@, gone),
                       !.ghosted = [x \in Keys |-> CASE x = k -> n
                                                     [] x # k /\ x \in gone -> 0
                                                     [] OTHER -> @[x]]]

\* MainEvictEvent for an entry without locks: count the eviction.
MainEvictEvent(c, k) ==
    GhostPut(c, k, Saturate(1 + (IF Listed(c.ghosts, k) THEN c.ghosted[k]
                                 ELSE c.entry[k].ghosted)))

\* The cache after trim() has counted the evictions of the victims, the last one
\* in the list first.  seen[n] is what it is after n keys.
Counted(c, victims) ==
    LET len == Len(c.order)
        seen[n \in 0 .. len] ==
            IF n = 0 THEN c
            ELSE IF c.order[len + 1 - n] \in victims
                 THEN MainEvictEvent(seen[n - 1], c.order[len + 1 - n]) ELSE seen[n - 1]
    IN  seen[len]

\* MainCache.trim(): the victims leave the list and the pool, and their
\* evictions are counted one after the other.
Trim(c) ==
    LET victims == Victims(c.order, c.cap.real, Pinned(c))
        counted == Counted(c, victims)
    IN  [WithoutEntries(c, victims) EXCEPT !.ghosts = counted.ghosts,
                                           !.ghosted = counted.ghosted]

\* MainCache.resize(n)
Resize(c, n) == Trim([c EXCEPT !.cap = ResizeCapacity(@, n)])

\* Ghosts.resize(n): more ghosts than that are forgotten, the oldest first.
GhostResize(c, n) ==
    LET gone == Victims(c.ghosts, n, {})
    IN  [c EXCEPT !.ghostCap = n,
                  !.ghosts = Drop(@, gone),
                  !.ghosted = [k \in Keys |-> IF k \in gone THEN 0 ELSE @[k]]]

\* Growing after a ghost hit: MainCache.resize, then Ghosts.resize.  The limits
\* may have been lowered since the ghost list got its capacity.
Grow(c) ==
    LET d == Resize(c, c.cap.real + 1)
    IN  GhostResize(d, GHOSTS_MIN_CAPACITY + 2 * d.cap.real)

\* Mutant: nothing is trimmed when a key is linked.
LinkUntrimmed(c, k) ==
    IF c.cap.real = 0 THEN c ELSE [c EXCEPT !.order = <<k>> \o @]

\* MainCache.lookup of an absent key: trim, then link the key if anything
\* can be stored.
Link(c, k) ==
    LET d == Trim(c)
    IN  IF d.cap.real = 0 THEN d ELSE [d EXCEPT !.order = <<k>> \o @]

\* Mutant: a single eviction is enough (the condition before issue #270).
GhostHitOnce(c, k) == Listed(c.ghosts, k) /\ c.ghosted[k] > 0

\* The ghost hit that lets a cache grow.
GhostHit(c, k) == Listed(c.ghosts, k) /\ c.ghosted[k] > 1

\* The part of a missed lookup() that both of its outcomes share: link the
\* key, look it up among the ghosts, and grow if it was evicted before.
Miss(c, k) ==
    LET linked == Link(c, k)
        noted == GhostPut(linked, k, IF Listed(linked.ghosts, k)
                                     THEN linked.ghosted[k] ELSE 0)
    IN  IF GhostHit(linked, k) /\ mode # "NO_RESIZE" THEN Grow(noted) ELSE noted

-------------------------------------------------------------------------------
Init ==
    /\ mode \in Modes
    /\ lru = [order |-> <<>>, entry |-> [k \in {} |-> NoFrame],
              cap |-> InitCapacity(InitCap),
              ghosts |-> <<>>, ghosted |-> [k \in Keys |-> 0],
              ghostCap |-> GHOSTS_MIN_CAPACITY]
    /\ pc = [t \in Threads |-> "idle"]
    /\ at \in [Threads -> {NoFrame}]
    /\ result = [t \in Threads |-> NoFrame]

Goto(t, label) == pc' = [pc EXCEPT ![t] = label]

\* The thread leaves the cache with frame v.
Return(t, v) ==
    /\ Goto(t, "returned")
    /\ result' = [result EXCEPT ![t] = v]

\* Mutant: the lock that was taken is not given back.
LookupReadyKeepsLock(t, k) ==
    /\ pc[t] = "idle"
    /\ k \in DOMAIN lru.entry
    /\ lru.entry[k].state # "EMPTY"
    /\ lru' = [lru EXCEPT !.order = MoveToFront(@, k), !.entry[k].locks = @ + 1]
    /\ at' = [at EXCEPT ![t] = k]
    /\ Return(t, lru.entry[k].value)
    /\ UNCHANGED mode

\* lookup() finds an entry that it need not wait for, hands out its value and
\* gives its lock back.
LookupReady(t, k) ==
    /\ pc[t] = "idle"
    /\ k \in DOMAIN lru.entry
    /\ lru.entry[k].state # "EMPTY"
    /\ lru' = [lru EXCEPT !.order = MoveToFront(@, k)]
    /\ at' = [at EXCEPT ![t] = k]
    /\ Return(t, lru.entry[k].value)
    /\ UNCHANGED mode

\* lookup() finds an entry that is being filled, takes a lock and waits.
LookupWait(t, k) ==
    /\ pc[t] = "idle"
    /\ k \in DOMAIN lru.entry
    /\ lru.entry[k].state = "EMPTY"
    /\ lru' = SetEntry([lru EXCEPT !.order = MoveToFront(@, k)], k,
                       [lru.entry[k] EXCEPT !.locks = @ + 1])
    /\ at' = [at EXCEPT ![t] = k]
    /\ Goto(t, "wait")
    /\ UNCHANGED <<mode, result>>

\* lookup() without block_for_completion gives up on an unfinished entry.
LookupNotAvail(t, k) ==
    /\ pc[t] = "idle"
    /\ k \in DOMAIN lru.entry
    /\ lru.entry[k].state # "AVAILABLE"
    /\ lru' = [lru EXCEPT !.order = MoveToFront(@, k)]
    /\ UNCHANGED <<mode, pc, at, result>>

\* lookup() misses and reserves an entry, which the caller must fill.
LookupNotFound(t, k) ==
    /\ pc[t] = "idle"
    /\ k \notin DOMAIN lru.entry
    /\ lru.cap.real # 0
    /\ LET c == Miss(lru, k)
       IN  lru' = SetEntry(c, k, [state |-> "EMPTY", locks |-> 1,
                                  value |-> NoFrame, ghosted |-> c.ghosted[k]])
    /\ at' = [at EXCEPT ![t] = k]
    /\ Goto(t, "own")
    /\ UNCHANGED <<mode, result>>

\* lookup() misses a cache that cannot store anything; the caller computes
\* the frame for itself.
LookupNoCache(t, k) ==
    /\ pc[t] = "idle"
    /\ k \notin DOMAIN lru.entry
    /\ lru.cap.real = 0
    /\ LET c == Miss(lru, k)
       IN  lru' = [c EXCEPT !.ghosted[k] = Saturate(@ + 1)]
    /\ at' = [at EXCEPT ![t] = k]
    /\ Goto(t, "uncached")
    /\ UNCHANGED <<mode, result>>

\* lookup() with *suppressCaching set misses and leaves no trace.
LookupSuppressed(t, k) ==
    /\ pc[t] = "idle"
    /\ k \notin DOMAIN lru.entry
    /\ at' = [at EXCEPT ![t] = k]
    /\ Goto(t, "uncached")
    /\ UNCHANGED <<mode, lru, result>>

\* The child's GetFrame ends for a frame that will not be cached.
Uncached(t) ==
    /\ pc[t] = "uncached"
    /\ \/ /\ Return(t, at[t])
          /\ UNCHANGED at
       \/ /\ MayThrow
          /\ Goto(t, "idle")
          /\ at' = [at EXCEPT ![t] = NoFrame]
          /\ UNCHANGED result
    /\ UNCHANGED <<mode, lru>>

\* Mutant: whoever takes over leaves the state ROLLED_BACK.
RecheckNoReset(t) ==
    LET k == at[t]
    IN  /\ pc[t] = "woken"
        /\ \/ /\ lru.entry[k].state = "EMPTY"
              /\ Goto(t, "wait")
              /\ UNCHANGED <<lru, result>>
           \/ /\ lru.entry[k].state = "ROLLED_BACK"
              /\ Goto(t, "own")
              /\ UNCHANGED <<lru, result>>
           \/ /\ lru.entry[k].state = "AVAILABLE"
              /\ lru' = SetEntry(lru, k, [lru.entry[k] EXCEPT !.locks = @ - 1])
              /\ Return(t, lru.entry[k].value)
        /\ UNCHANGED <<mode, at>>

\* Mutant: the case for AVAILABLE falls through into the one for ROLLED_BACK.
RecheckFallsThrough(t) ==
    LET k == at[t]
    IN  /\ pc[t] = "woken"
        /\ \/ /\ lru.entry[k].state = "EMPTY"
              /\ Goto(t, "wait")
              /\ UNCHANGED lru
           \/ /\ lru.entry[k].state # "EMPTY"
              /\ lru' = SetEntry(lru, k, [lru.entry[k] EXCEPT !.state = "EMPTY"])
              /\ Goto(t, "own")
        /\ UNCHANGED <<mode, at, result>>

\* A waiting thread has the mutex again and looks at the entry's state.
Recheck(t) ==
    LET k == at[t]
    IN  /\ pc[t] = "woken"
        /\ \/ /\ lru.entry[k].state = "EMPTY"
              /\ Goto(t, "wait")
              /\ UNCHANGED <<lru, result>>
           \/ /\ lru.entry[k].state = "ROLLED_BACK"
              /\ lru' = SetEntry(lru, k, [lru.entry[k] EXCEPT !.state = "EMPTY"])
              /\ Goto(t, "own")
              /\ UNCHANGED result
           \/ /\ lru.entry[k].state = "AVAILABLE"
              /\ lru' = SetEntry(lru, k, [lru.entry[k] EXCEPT !.locks = @ - 1])
              /\ Return(t, lru.entry[k].value)
        /\ UNCHANGED <<mode, at>>

\* The owner's child->GetFrame returns: the frame is stored without the mutex.
Fill(t) ==
    /\ pc[t] = "own"
    /\ lru' = SetEntry(lru, at[t], [lru.entry[at[t]] EXCEPT !.value = at[t]])
    /\ Goto(t, "filled")
    /\ UNCHANGED <<mode, at, result>>

\* commit_value() up to the end of its critical section.
commit_value(t) ==
    /\ pc[t] = "filled"
    /\ lru' = SetEntry(lru, at[t], [lru.entry[at[t]] EXCEPT !.state = "AVAILABLE",
                                                         !.locks = @ - 1])
    /\ Goto(t, "notify_all")
    /\ UNCHANGED <<mode, at, result>>

\* Mutant: commit_value() notifies a single waiter.
NotifyAllButOne(t) ==
    /\ pc[t] = "notify_all"
    /\ LET sleepers == {u \in Threads : pc[u] = "wait" /\ at[u] = at[t]}
       IN  \/ \E u \in sleepers : pc' = [pc EXCEPT ![t] = "returned", ![u] = "woken"]
           \/ sleepers = {} /\ Goto(t, "returned")
    /\ result' = [result EXCEPT ![t] = at[t]]
    /\ UNCHANGED <<mode, lru, at>>

\* commit_value() notifies after it has released the mutex.
notify_all(t) ==
    /\ pc[t] = "notify_all"
    /\ pc' = [u \in Threads |->
                IF u = t THEN "returned"
                ELSE IF pc[u] = "wait" /\ at[u] = at[t] THEN "woken" ELSE pc[u]]
    /\ result' = [result EXCEPT ![t] = at[t]]
    /\ UNCHANGED <<mode, lru, at>>

\* Mutant: the entry is destroyed and its key stays in the recency list.
RollbackLeavesKey(t) ==
    /\ MayThrow
    /\ pc[t] = "own"
    /\ lru.entry[at[t]].locks = 1
    /\ lru' = [WithoutEntries(lru, {at[t]}) EXCEPT !.order = lru.order]
    /\ at' = [at EXCEPT ![t] = NoFrame]
    /\ Goto(t, "idle")
    /\ UNCHANGED <<mode, result>>

\* The child's GetFrame throws and nobody waits: rollback() removes the entry.
RollbackRemove(t) ==
    /\ MayThrow
    /\ pc[t] = "own"
    /\ lru.entry[at[t]].locks = 1
    /\ lru' = WithoutEntries(lru, {at[t]})
    /\ at' = [at EXCEPT ![t] = NoFrame]
    /\ Goto(t, "idle")
    /\ UNCHANGED <<mode, result>>

\* The child's GetFrame throws and others wait: rollback() leaves the entry to
\* one of them.
RollbackPass(t) ==
    /\ MayThrow
    /\ pc[t] = "own"
    /\ lru.entry[at[t]].locks # 1
    /\ lru' = SetEntry(lru, at[t], [lru.entry[at[t]] EXCEPT !.state = "ROLLED_BACK",
                                                         !.locks = @ - 1])
    /\ Goto(t, "notify_one")
    /\ UNCHANGED <<mode, at, result>>

Sleepers(k) == {u \in Threads : pc[u] = "wait" /\ at[u] = k}

\* Mutant: rollback() forgets to notify.
NotifyNobody(t) ==
    /\ pc[t] = "notify_one"
    /\ Goto(t, "idle")
    /\ at' = [at EXCEPT ![t] = NoFrame]
    /\ UNCHANGED <<mode, lru, result>>

\* rollback() notifies one waiter after it has released the mutex; notify_one
\* without a waiter is lost.
notify_one(t) ==
    /\ pc[t] = "notify_one"
    /\ \/ \E u \in Sleepers(at[t]) :
            pc' = [pc EXCEPT ![t] = "idle", ![u] = "woken"]
       \/ /\ Sleepers(at[t]) = {}
          /\ Goto(t, "idle")
    /\ at' = [at EXCEPT ![t] = NoFrame]
    /\ UNCHANGED <<mode, lru, result>>

\* condition_variable::wait may return without a notification.
SpuriousWakeup(t) ==
    /\ pc[t] = "wait"
    /\ Goto(t, "woken")
    /\ UNCHANGED <<mode, lru, at, result>>

\* The caller of GetFrame takes its frame and goes on.
Consume(t) ==
    /\ pc[t] = "returned"
    /\ Goto(t, "idle")
    /\ at' = [at EXCEPT ![t] = NoFrame]
    /\ result' = [result EXCEPT ![t] = NoFrame]
    /\ UNCHANGED <<mode, lru>>

\* set_limits(): a capacity hint, or ShrinkCache and MC_NodAndExpandCache.
set_limits(lo, hi) ==
    /\ lru' = Trim([lru EXCEPT !.cap = LimitCapacity(@, lo, hi)])
    /\ UNCHANGED <<mode, pc, at, result>>

\* What a thread inside the cache does next, whatever the clients ask for.
Progress(t) ==
    \/ Uncached(t) \/ Recheck(t) \/ Fill(t) \/ commit_value(t) \/ notify_all(t)
    \/ RollbackRemove(t) \/ RollbackPass(t) \/ notify_one(t) \/ Consume(t)

Lookup(t, k) ==
    \/ LookupReady(t, k) \/ LookupWait(t, k) \/ LookupNotAvail(t, k)
    \/ LookupNotFound(t, k) \/ LookupNoCache(t, k) \/ LookupSuppressed(t, k)

Next ==
    \/ \E t \in Threads : Progress(t)
    \/ \E t \in Threads, k \in Keys : Lookup(t, k)
    \/ \E t \in Threads : SpuriousWakeup(t)
    \/ \E l \in Limits : set_limits(l[1], l[2])

Spec == Init /\ [][Next]_vars

\* A thread inside the cache keeps running: the scheduler is fair to it, and
\* the child's GetFrame returns or throws.
Fairness == \A t \in Threads : WF_vars(Progress(t))

FairSpec == Spec /\ Fairness

-------------------------------------------------------------------------------
(* Properties                                                              *)

Labels == {"idle", "own", "filled", "notify_all", "notify_one", "uncached",
           "wait", "woken", "returned"}

\* e is a pool entry; its eviction count is left to TypeOK.
IsEntry(e) ==
    /\ e = [f \in {"state", "locks", "value", "ghosted"} |-> e[f]]
    /\ e.state \in EntryStates
    /\ e.locks \in Nat
    /\ e.value \in Keys \cup {NoFrame}

\* c is a cache object whose entries and capacities are well formed.
IsLru(c) ==
    /\ c = [f \in LruFields |-> c[f]]
    /\ DOMAIN c.entry \subseteq Keys
    /\ c.entry = [k \in DOMAIN c.entry |-> c.entry[k]]
    /\ \A k \in DOMAIN c.entry : IsEntry(c.entry[k])
    /\ c.cap \in Capacities

\* What the lookups and commits of every thread rely on: the entries of the
\* pool are well formed, and a thread inside the cache has a key.
CoreTypeOK ==
    /\ IsLru(lru)
    /\ pc \in [Threads -> Labels]
    /\ at \in [Threads -> Keys \cup {NoFrame}]
    /\ result \in [Threads -> Keys \cup {NoFrame}]
    /\ \A t \in Threads : pc[t] # "idle" => at[t] \in Keys

\* The shape of the state: entries, lists, counts and capacities.
TypeOK ==
    /\ CoreTypeOK
    /\ mode \in Modes
    /\ lru.order \in Seq(Keys)
    /\ \A k \in DOMAIN lru.entry : lru.entry[k].ghosted \in 0..2
    /\ lru.ghosts \in Seq(Keys)
    /\ lru.ghosted \in [Keys -> 0..2]
    /\ lru.ghostCap \in Nat

Holders(k) == {t \in Threads : pc[t] \in Owning \cup Waiting /\ at[t] = k}
Owners(k)  == {t \in Threads : pc[t] \in Owning /\ at[t] = k}

\* The lock count that keeps trim() from evicting an entry is the number of
\* threads that still use it, and every such thread has an entry to use: a
\* path of lookup(), commit_value() or rollback() that forgets a lock, or
\* gives one back twice, ends in an entry that is never evicted or one that
\* is destroyed under a waiter.
LockAccounting ==
    /\ \A t \in Threads : pc[t] \in Owning \cup Waiting
                            => at[t] \in DOMAIN lru.entry
    /\ \A k \in DOMAIN lru.entry : lru.entry[k].locks = Cardinality(Holders(k))

\* An unfinished entry is computed by exactly one thread, any other entry by
\* none: no frame is computed twice at once, and none is left unfinished.
\* An entry whose owner stepped back keeps a waiter that can take it over.
SingleFlight ==
    \A k \in DOMAIN lru.entry :
        /\ lru.entry[k].state = "EMPTY" => \E t \in Threads : Owners(k) = {t}
        /\ lru.entry[k].state # "EMPTY" => Owners(k) = {}
        /\ lru.entry[k].state = "ROLLED_BACK" => Holders(k) # {}

\* No wake-up is lost: whoever sleeps on an entry that has been filled is about
\* to be notified, and an entry that was rolled back has a waiter that is
\* awake or a notify_one on its way.
NotificationPending ==
    \A k \in DOMAIN lru.entry :
        /\ lru.entry[k].state = "AVAILABLE" /\ Sleepers(k) # {}
            => \E t \in Threads : pc[t] = "notify_all" /\ at[t] = k
        /\ lru.entry[k].state = "ROLLED_BACK"
            => \E t \in Threads : pc[t] \in {"woken", "notify_one"} /\ at[t] = k

\* The recency list and the entries of the pool agree, with no key listed
\* twice, after any sequence of evictions, refused evictions and removals.
ListCoherent ==
    /\ TypeOK
    /\ ToSet(lru.order) = DOMAIN lru.entry
    /\ IsInjective(lru.order)
    /\ IsInjective(lru.ghosts)

\* trim() skips the entries in use and runs before the new one is linked; even
\* so a lookup that adds an entry leaves behind no more than the capacity, the
\* entries that were in use, and the new one.
SizeBound ==
    [][DOMAIN lru'.entry \subseteq DOMAIN lru.entry
         \/ Len(lru'.order) <= lru'.cap.real + Cardinality(Pinned(lru)) + 1]_vars

\* FOUND_AND_READY hands out the frame that was asked for, never a null frame
\* or one that belongs to another key.
FoundIsReady == \A t \in Threads : pc[t] = "returned" => result[t] = at[t]

\* A frame that has been handed out as AVAILABLE is never taken back or
\* replaced while the entry lives.
AvailableIsStable ==
    [][\A k \in DOMAIN lru.entry \cap DOMAIN lru'.entry :
         lru.entry[k].state = "AVAILABLE"
           => /\ lru'.entry[k].state = "AVAILABLE"
              /\ lru'.entry[k].value = lru.entry[k].value]_vars

\* A thread that waits for a frame gets it, or the computation that it waits for
\* fails, and then one of those who wait takes over: nobody sleeps on an entry
\* that is done, and no entry stays rolled back.
WaiterServed ==
    /\ \A t \in Threads :
          (pc[t] \in Waiting) ~> (pc[t] \notin Waiting \/ lru.entry[at[t]].state = "ROLLED_BACK")
    /\ \A k \in Keys :
          (k \in DOMAIN lru.entry /\ lru.entry[k].state = "ROLLED_BACK")
             ~> (k \in DOMAIN lru.entry => lru.entry[k].state # "ROLLED_BACK")
===============================================================================
