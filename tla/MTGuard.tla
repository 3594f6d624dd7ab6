-------------------------------- MODULE MTGuard --------------------------------
(***************************************************************************)
(* Invoke, the MT modes and MTGuard: how a script's filters are wrapped,   *)
(* multiplied by Prefetch and called by several threads.                   *)
(*                                                                         *)
(* The script builds a chain of filters; filter f reads from filter f - 1. *)
(* Thread 0 runs the script and requests frames from the last filter.      *)
(* Prefetch(n) at the end of a chain of k filters makes a pool of n        *)
(* threads, which from then on request frames from filter k on their own,  *)
(* also while thread 0 goes on with the script.                            *)
(*                                                                         *)
(* GetFrame and GetAudio take the same path through a guard and are one    *)
(* request here.  A request that throws unlocks what it has locked, as one *)
(* that returns.  Instance i of a filter is the clip in ChildFilters[i].   *)
(***************************************************************************)
EXTENDS Naturals, Sequences, FiniteSets, SequencesExt

CONSTANTS
    Modes,       \* MT modes of the filters: "NICE", "MULTI", "SERIALIZED"
    Origins,     \* where a mode comes from: "forced", "clip" or "default"
    PoolSizes,   \* thread counts that Prefetch is called with
    MaxFilters,  \* bound: filters in a chain
    MaxDepth,    \* bound: constructors that invoke other filters, and pools, at once
    MaxThreads   \* bound: threads that are ever created

ASSUME MTGuardAssumption ==
    /\ Modes \subseteq {"NICE", "MULTI", "SERIALIZED"}
    /\ Origins \subseteq {"forced", "clip", "default"}
    /\ PoolSizes \subseteq Nat \ {0}
    /\ MaxFilters \in Nat /\ MaxDepth \in Nat /\ MaxThreads \in Nat \ {0}

VARIABLES
    guards,         \* MTGuardRegistry: the guards of the chain
    pools,          \* the pools of the Prefetchers in the chain
    nTotalThreads,
    script,         \* what thread 0 is doing when it does not request a frame
    invoke_stack,   \* the constructors that thread 0 is in
    calls           \* the requests that each thread is in, outermost first

vars == <<guards, pools, nTotalThreads, script, invoke_stack, calls>>

ThreadIds == 0 .. MaxThreads - 1

Nobody == MaxThreads

Main == 0

Filters == 1 .. Len(guards)

InScript == [at |-> "script", guard |-> 0, nThreads |-> 0]

Inside(t) == calls[t] # <<>>

Threads(p) == p.first .. p.first + p.size - 1

-------------------------------------------------------------------------------
(* MT modes                                                                *)

\* The stricter of two modes; need is what a filter really needs, to compare
\* the evaluator's counters with.
Stricter(m, n) ==
    IF "SERIALIZED" \in {m, n} THEN "SERIALIZED" ELSE IF "MULTI" \in {m, n} THEN "MULTI" ELSE "NICE"

\* Mutant: only the mode of the filter itself is passed on.
AccumulateOwn(parent, h) ==
    [parent EXCEPT !.multi = @ \/ h.mode = "MULTI",
                   !.serial = @ \/ h.mode = "SERIALIZED",
                   !.need = Stricter(@, h.need)]

\* MtModeEvaluator::Accumulate: what the constructor of a filter learns from a
\* filter it has invoked.
Accumulate(parent, h) ==
    [parent EXCEPT !.multi = @ \/ h.multi \/ h.mode = "MULTI",
                   !.serial = @ \/ h.serial \/ h.mode = "SERIALIZED",
                   !.need = Stricter(@, h.need)]

\* MtModeEvaluator::GetFinalMode, unless the mode is forced; a source filter
\* without a mode of its own is serialized.
FinalMode(h) ==
    LET chained == IF h.origin = "forced" THEN h.mode
                   ELSE IF h.serial THEN "SERIALIZED"
                   ELSE IF h.multi /\ h.mode # "SERIALIZED" THEN "MULTI"
                   ELSE h.mode
    IN  IF guards = <<>> /\ h.origin = "default" THEN "SERIALIZED" ELSE chained

\* MTGuard::Create: one instance, which nobody uses.
NewGuard(h) ==
    [mode |-> FinalMode(h), nThreads |-> 1, mt_enabled |-> FALSE,
     mutex |-> [i \in {0} |-> Nobody],
     need |-> IF h.origin = "forced" THEN h.mode ELSE h.need]

-------------------------------------------------------------------------------
Init ==
    /\ guards = <<>>
    /\ pools = <<>>
    /\ nTotalThreads = 1
    /\ script = InScript
    /\ invoke_stack = <<>>
    /\ calls = [t \in ThreadIds |-> <<>>]

(* The script, on thread 0                                                 *)

\* Invoke up to the filter's constructor: from the script, or from the
\* constructor of another filter.  That one may hand over a clip that it has made
\* without Invoke; the clip has no guard either, and its mode, chained, counts from
\* the start.  Guards and caches, which all other clips are in, are NICE.
Invoke(mode, origin, chained) ==
    /\ ~Inside(Main)
    /\ script = InScript
    /\ invoke_stack = <<>> => chained = "NICE"
    /\ Len(invoke_stack) + Len(pools) < MaxDepth
    /\ Len(guards) < MaxFilters
    /\ invoke_stack' = Append(invoke_stack, [mode |-> mode, origin |-> origin, multi |-> chained = "MULTI",
                                             serial |-> chained = "SERIALIZED",
                                             need |-> Stricter(mode, chained)])
    /\ UNCHANGED <<guards, pools, nTotalThreads, script, calls>>

\* Invoke after the constructor.  A filter that was invoked by a constructor
\* gets no guard; its modes are passed on to the filter under construction.
InvokeReturns ==
    LET h == Last(invoke_stack)
        outer == Front(invoke_stack)
    IN  /\ ~Inside(Main)
        /\ script = InScript
        /\ invoke_stack # <<>>
        /\ IF outer # <<>>
           THEN /\ invoke_stack' = Append(Front(outer), Accumulate(Last(outer), h))
                /\ UNCHANGED guards
           ELSE /\ invoke_stack' = <<>>
                /\ guards' = Append(guards, NewGuard(h))
        /\ UNCHANGED <<pools, nTotalThreads, script, calls>>

\* The constructor throws; the one that has invoked it may catch the exception.
InvokeThrows ==
    /\ ~Inside(Main)
    /\ script = InScript
    /\ invoke_stack # <<>>
    /\ invoke_stack' = Front(invoke_stack)
    /\ UNCHANGED <<guards, pools, nTotalThreads, script, calls>>

\* Mutant: the threads of the pool start before the guards are ready.
PrefetchAtOnce(n) ==
    /\ ~Inside(Main)
    /\ script = InScript /\ invoke_stack = <<>> /\ guards # <<>>
    /\ nTotalThreads + n <= MaxThreads
    /\ nTotalThreads' = nTotalThreads + n
    /\ pools' = Append(pools, [filter |-> Len(guards), first |-> nTotalThreads, size |-> n])
    /\ script' = [at |-> "enable", guard |-> 1, nThreads |-> n]
    /\ UNCHANGED <<guards, invoke_stack, calls>>

\* Prefetch(n): NewThreadPool numbers the threads of its pool and upgrades the
\* guards one after the other.
Prefetch(n) ==
    /\ ~Inside(Main)
    /\ script = InScript /\ invoke_stack = <<>> /\ guards # <<>>
    /\ nTotalThreads + n <= MaxThreads
    /\ nTotalThreads' = nTotalThreads + n
    /\ script' = [at |-> "enable", guard |-> 1, nThreads |-> n]
    /\ UNCHANGED <<guards, pools, invoke_stack, calls>>

\* The other instances of a MULTI filter.
MoreInstances(g, n) ==
    [g EXCEPT !.mutex = [i \in 0 .. n - 1 |-> Nobody]]

\* Mutant: the instances are made anew for every Prefetch.
EnableMTAgain ==
    LET f == script.guard
        g == guards[f]
        n == script.nThreads
    IN  /\ script.at = "enable" /\ ~Inside(Main)
        /\ guards' = IF n > 1 /\ g.mode = "MULTI"
                     THEN [guards EXCEPT ![f] = MoreInstances(g, n)] ELSE guards
        /\ script' = [script EXCEPT !.at = "enabled"]
        /\ UNCHANGED <<pools, nTotalThreads, invoke_stack, calls>>

\* EnableMT up to the assignment to ChildFilters, the first time only: a new
\* array with new mutexes, in which the first instance is the old one.
EnableMT ==
    LET f == script.guard
        g == guards[f]
        n == script.nThreads
    IN  /\ script.at = "enable" /\ ~Inside(Main)
        /\ guards' = IF ~g.mt_enabled /\ n > 1 /\ g.mode = "MULTI"
                     THEN [guards EXCEPT ![f] = MoreInstances(g, n)] ELSE guards
        /\ script' = [script EXCEPT !.at = "enabled"]
        /\ UNCHANGED <<pools, nTotalThreads, invoke_stack, calls>>

\* EnableMT, its last statement: requests are spread over the instances.
MTEnabled ==
    LET f == script.guard
        Raise(m) == IF m < script.nThreads THEN script.nThreads ELSE m
    IN  /\ script.at = "enabled"
        /\ guards' = IF guards[f].mt_enabled THEN guards
                     ELSE [guards EXCEPT ![f].nThreads = Raise(@), ![f].mt_enabled = TRUE]
        /\ script' = IF f < Len(guards) THEN [script EXCEPT !.at = "enable", !.guard = f + 1]
                     ELSE [script EXCEPT !.at = "pool"]
        /\ UNCHANGED <<pools, nTotalThreads, invoke_stack, calls>>

\* The Prefetcher is complete: its clients give jobs to the pool.
PoolStarts ==
    /\ script.at = "pool"
    /\ pools' = Append(pools, [filter |-> Len(guards), first |-> nTotalThreads - script.nThreads,
                               size |-> script.nThreads])
    /\ script' = InScript
    /\ UNCHANGED <<guards, nTotalThreads, invoke_stack, calls>>

\* The last clip of the script is released.  A Prefetcher finishes its pool
\* first; its threads are gone when they have left their requests.
ReleaseClip ==
    /\ ~Inside(Main)
    /\ script = InScript /\ invoke_stack = <<>>
    /\ \/ /\ pools # <<>> /\ Last(pools).filter = Len(guards)
          /\ \A t \in Threads(Last(pools)) : ~Inside(t)
          /\ pools' = Front(pools)
          /\ UNCHANGED guards
       \/ /\ guards # <<>>
          /\ pools # <<>> => Last(pools).filter < Len(guards)
          /\ guards' = Front(guards)
          /\ UNCHANGED pools
    /\ UNCHANGED <<nTotalThreads, script, invoke_stack, calls>>

-------------------------------------------------------------------------------
(* Requests                                                                *)

Top(t) == Last(calls[t])

SetTop(t, label) == calls' = [calls EXCEPT ![t][Len(calls[t])].at = label]

\* The instance that thread t uses.
Slot(g, t) == IF g.mode = "MULTI" THEN t % g.nThreads ELSE 0

\* The beginning of MTGuard::GetFrame for filter f; the lock comes next.
Call(f, t) ==
    [filter |-> f, slot |-> Slot(guards[f], t),
     at |-> IF guards[f].mode = "NICE" THEN "inside" ELSE "lock"]

\* Mutant: Invoke keeps the environment's only mutex, as before 3.7.2.
HeldByInvokeMemory == {"invoke_mutex", "memory_mutex"}

\* The mutexes that thread 0 holds while it constructs a filter.
HeldByInvoke == {"invoke_mutex"}

MayLockMemory(t) ==
    \/ t = Main
    \/ "memory_mutex" \notin HeldByInvoke
    \/ invoke_stack = <<>> /\ script = InScript

\* A client requests a frame of the last filter, or a constructor does: of a
\* filter that is being made, or made once more by EnableMT.
RequestByMain ==
    /\ ~Inside(Main)
    /\ \/ /\ script = InScript
          /\ guards # <<>>
          /\ calls' = [calls EXCEPT ![Main] = <<Call(Len(guards), Main)>>]
       \/ /\ script.at = "enable" /\ script.guard > 1
          /\ guards[script.guard].mode = "MULTI" /\ ~guards[script.guard].mt_enabled
          /\ calls' = [calls EXCEPT ![Main] = <<Call(script.guard - 1, Main)>>]
    /\ UNCHANGED <<guards, pools, nTotalThreads, script, invoke_stack>>

\* A thread of a pool runs a job of its Prefetcher.
RequestByPool(t) ==
    /\ ~Inside(t)
    /\ \E p \in ToSet(pools) : /\ t \in Threads(p)
                               /\ calls' = [calls EXCEPT ![t] = <<Call(p.filter, t)>>]
    /\ UNCHANGED <<guards, pools, nTotalThreads, script, invoke_stack>>

\* The lock of the instance.
Lock(t) ==
    /\ Inside(t) /\ Top(t).at = "lock"
    /\ guards[Top(t).filter].mutex[Top(t).slot] = Nobody
    /\ guards' = [guards EXCEPT ![Top(t).filter].mutex[Top(t).slot] = t]
    /\ SetTop(t, "inside")
    /\ UNCHANGED <<pools, nTotalThreads, script, invoke_stack>>

\* The filter asks its child.
Descend(t) ==
    /\ Inside(t) /\ Top(t).at = "inside" /\ Top(t).filter > 1
    /\ calls' = [calls EXCEPT ![t] = Append([@ EXCEPT ![Len(@)].at = "called"],
                                            Call(Top(t).filter - 1, t))]
    /\ UNCHANGED <<guards, pools, nTotalThreads, script, invoke_stack>>

\* The filter makes a frame for its result, under memory_mutex.
NewVideoFrame(t) ==
    /\ Inside(t)
    /\ Top(t).at = "called" \/ (Top(t).at = "inside" /\ Top(t).filter = 1)
    /\ MayLockMemory(t)
    /\ SetTop(t, "done")
    /\ UNCHANGED <<guards, pools, nTotalThreads, script, invoke_stack>>

\* The guard unlocks the instance and returns the frame.
Return(t) ==
    /\ Inside(t) /\ Top(t).at = "done"
    /\ guards' = IF guards[Top(t).filter].mode = "NICE" THEN guards
                 ELSE [guards EXCEPT ![Top(t).filter].mutex[Top(t).slot] = Nobody]
    /\ calls' = [calls EXCEPT ![t] = Front(@)]
    /\ UNCHANGED <<pools, nTotalThreads, script, invoke_stack>>

CallStep(t) == Lock(t) \/ Descend(t) \/ NewVideoFrame(t) \/ Return(t)

Next ==
    \/ \E mode \in Modes, origin \in Origins, chained \in Modes \cup {"NICE"} : Invoke(mode, origin, chained)
    \/ InvokeReturns \/ InvokeThrows
    \/ \E n \in PoolSizes : Prefetch(n)
    \/ EnableMT \/ MTEnabled \/ PoolStarts
    \/ ReleaseClip
    \/ RequestByMain
    \/ \E t \in ThreadIds : RequestByPool(t) \/ CallStep(t)

Spec == Init /\ [][Next]_vars

-------------------------------------------------------------------------------
(* Properties                                                              *)

CallRecords ==
    [filter : 1 .. MaxFilters, slot : ThreadIds, at : {"lock", "inside", "called", "done"}]

\* The shape of the state.
TypeOK ==
    /\ \A f \in Filters :
          LET g == guards[f]
          IN  /\ g.mode \in {"NICE", "MULTI", "SERIALIZED"}
              /\ g.nThreads \in 1 .. MaxThreads /\ g.mt_enabled \in BOOLEAN
              /\ \E n \in 1 .. MaxThreads : g.mutex \in [0 .. n - 1 -> ThreadIds \cup {Nobody}]
    /\ Len(guards) <= MaxFilters
    /\ nTotalThreads \in 1 .. MaxThreads
    /\ script.at \in {"script", "enable", "enabled", "pool"}
    /\ Len(invoke_stack) <= MaxDepth
    /\ \A t \in ThreadIds : calls[t] \in Seq(CallRecords)

\* Threads that have passed the guard of instance i of filter f.
Users(f, i) ==
    {t \in ThreadIds : \E c \in ToSet(calls[t]) :
                          c.filter = f /\ c.slot = i /\ c.at # "lock"}

\* A request uses an instance that exists, also while Prefetch changes the
\* array and the thread count one after the other, and no other thread uses it
\* at once, however many times Prefetch has been called, unless the filter is
\* NICE.
OneThreadPerInstance ==
    /\ TypeOK
    /\ \A t \in ThreadIds : \A c \in ToSet(calls[t]) :
          c.filter \in Filters /\ c.slot \in DOMAIN guards[c.filter].mutex
    /\ \A f \in Filters : \A i \in DOMAIN guards[f].mutex :
          guards[f].mode # "NICE" => Cardinality(Users(f, i)) <= 1

\* EnableMT replaces the array, and with it the mutexes, only while no thread
\* uses or waits for an instance: none of the running pools reaches a guard
\* that is not enabled yet.
ArrayNotInUse ==
    [][\A f \in Filters \cap 1 .. Len(guards') :
          DOMAIN guards'[f].mutex # DOMAIN guards[f].mutex
            => \A t \in ThreadIds : \A c \in ToSet(calls[t]) : c.filter # f]_vars

\* A filter is guarded at least as strictly as the filters that its
\* constructor has invoked need, the clips it has made for them, and those that
\* theirs have, since none of these has a guard of its own.  A script that forces a mode is taken at its word.
ModeCoversInner ==
    \A f \in Filters : guards[f].mode = Stricter(guards[f].mode, guards[f].need)

\* Threads never wait for each other in a circle: as long as a request is
\* under way, one of them can go on.  A constructor that requests a frame
\* while the threads of a pool run was such a circle before 3.7.2.
NobodyStuck ==
    (\E t \in ThreadIds : Inside(t)) => \E t \in ThreadIds : ENABLED CallStep(t)
===============================================================================
