----------------------------- MODULE MTGuardProofs -----------------------------
(***************************************************************************)
(* MTGuard for chains of any length, any number of Prefetch calls and      *)
(* pools of any size: one thread per instance, arrays that nobody uses     *)
(* when they are replaced, and modes strict enough for the inner filters.  *)
(***************************************************************************)
EXTENDS MTGuard, Integers, FiniteSetTheorems, SequenceTheorems, WellFoundedInduction, TLAPS

AllModes == {"NICE", "MULTI", "SERIALIZED"}

Owner == ThreadIds \cup {Nobody}

Mutexes == UNION {[0 .. n - 1 -> Owner] : n \in 1 .. MaxThreads}

GuardRecords == [mode : AllModes, nThreads : 1 .. MaxThreads, mt_enabled : BOOLEAN,
                 mutex : Mutexes, need : AllModes]

\* A guard that may be in the chain: the instances among which requests are
\* spread exist, and before EnableMT there is one.
GuardOK(g) ==
    /\ g \in GuardRecords
    /\ g.mode = "MULTI" => 0 .. g.nThreads - 1 \subseteq DOMAIN g.mutex
    /\ ~g.mt_enabled => g.nThreads = 1
    /\ g.mode = Stricter(g.mode, g.need)

GuardsInv ==
    /\ guards \in Seq(GuardRecords)
    /\ Len(guards) <= MaxFilters
    /\ \A f \in Filters : GuardOK(guards[f])

StackRecords == [mode : AllModes, origin : {"forced", "clip", "default"}, multi : BOOLEAN,
                 serial : BOOLEAN, need : AllModes]

\* A filter under construction whose counters cover what it needs.
StackOK(h) ==
    /\ h \in StackRecords
    /\ h.need = "SERIALIZED" => h.serial \/ h.mode = "SERIALIZED"
    /\ h.need = "MULTI" => h.multi \/ h.serial \/ h.mode # "NICE"

StackInv ==
    /\ invoke_stack \in Seq(StackRecords)
    /\ Len(invoke_stack) <= MaxDepth
    /\ \A i \in 1 .. Len(invoke_stack) : StackOK(invoke_stack[i])
    /\ invoke_stack # <<>> => Len(guards) < MaxFilters /\ script = InScript

PoolRecords == [filter : Nat, first : Nat, size : Nat]

\* The pools of the chain: their threads have been numbered, and they stand
\* behind guards that EnableMT has been through.
PoolsInv ==
    /\ pools \in Seq(PoolRecords)
    /\ \A i \in 1 .. Len(pools) :
          /\ pools[i].first >= 1 /\ pools[i].first + pools[i].size <= nTotalThreads
          /\ pools[i].filter \in Filters
          /\ \A f \in 1 .. pools[i].filter : guards[f].mt_enabled
          /\ \A j \in 1 .. Len(pools) : i < j => pools[i].filter <= pools[j].filter

ScriptRecords == [at : {"script", "enable", "enabled", "pool"}, guard : Nat, nThreads : Nat]

\* Where Prefetch is in its walk through the guards.
ScriptInv ==
    /\ nTotalThreads \in 1 .. MaxThreads
    /\ script \in ScriptRecords
    /\ script.at = "script" => script = InScript
    /\ script.at # "script" =>
          /\ script.guard \in Filters
          /\ script.nThreads \in 1 .. MaxThreads
          /\ nTotalThreads - script.nThreads >= 1
    /\ script.at \in {"enable", "enabled"} =>
          \A f \in 1 .. script.guard - 1 : guards[f].mt_enabled
    /\ script.at = "pool" => \A f \in Filters : guards[f].mt_enabled
    /\ script.at = "enabled" /\ ~guards[script.guard].mt_enabled
         /\ guards[script.guard].mode = "MULTI"
         => 0 .. script.nThreads - 1 \subseteq DOMAIN guards[script.guard].mutex

\* A call of thread t in the chain gs uses an instance that exists, and has
\* its lock once it is past it.
CallOK(gs, c, t) ==
    /\ c.filter \in 1 .. Len(gs)
    /\ c.slot \in DOMAIN gs[c.filter].mutex
    /\ gs[c.filter].mode # "NICE" /\ c.at # "lock" => gs[c.filter].mutex[c.slot] = t

\* The nested calls of thread t go down the chain.
CallsOK(gs, cs, t) ==
    /\ \A i \in 1 .. Len(cs) : CallOK(gs, cs[i], t)
    /\ \A i, j \in 1 .. Len(cs) : i < j => cs[j].filter < cs[i].filter

\* The calls of a pool's thread are at or below the pool's filter.
FromPool(ps, cs, t) ==
    t # Main /\ cs # <<>> =>
        \E p \in 1 .. Len(ps) : /\ t \in Threads(ps[p])
                                /\ \A i \in 1 .. Len(cs) : cs[i].filter <= ps[p].filter

CallsInv ==
    /\ calls \in [ThreadIds -> Seq(CallRecords)]
    /\ \A t \in ThreadIds : CallsOK(guards, calls[t], t) /\ FromPool(pools, calls[t], t)

MTInv == GuardsInv /\ StackInv /\ PoolsInv /\ ScriptInv /\ CallsInv

-------------------------------------------------------------------------------
(* Sequences                                                               *)

LEMMA FrontLast ==
    ASSUME NEW S, NEW q \in Seq(S), q # <<>>
    PROVE  /\ Len(q) \in Nat \ {0}
           /\ Front(q) \in Seq(S) /\ Len(Front(q)) = Len(q) - 1
           /\ \A i \in 1 .. Len(q) - 1 : Front(q)[i] = q[i]
           /\ Last(q) = q[Len(q)] /\ Last(q) \in S
<1>1. Len(q) \in Nat \ {0}
  OBVIOUS
<1>2. /\ Front(q) \in Seq(S) /\ Len(Front(q)) = Len(q) - 1
      /\ \A i \in 1 .. Len(q) - 1 : Front(q)[i] = q[i]
  <2>1. PICK n \in Nat : n = Len(q) - 1
    BY <1>1
  <2>2. Front(q) = SubSeq(q, 1, n) /\ n \in Int /\ \A i \in 1 .. n : q[i] \in S
    BY <2>1 DEF Front
  <2>3. /\ Front(q) \in Seq(S)
        /\ Len(Front(q)) = IF 1 <= n THEN n - 1 + 1 ELSE 0
        /\ \A i \in 1 .. n - 1 + 1 : Front(q)[i] = q[1 + i - 1]
    BY <2>2, 1 \in Int, SubSeqProperties
  <2> QED
    BY <2>1, <2>3
<1>3. Last(q) = q[Len(q)] /\ Last(q) \in S
  BY <1>1 DEF Last
<1> QED
  BY <1>1, <1>2, <1>3

\* The elements of a sequence.
LEMMA Elements ==
    ASSUME NEW q, NEW c \in ToSet(q), NEW S, q \in Seq(S)
    PROVE  \E i \in 1 .. Len(q) : c = q[i]
BY DEF ToSet

-------------------------------------------------------------------------------
(* MT modes                                                                *)

\* The counters of the outer filter cover the inner one as well.
LEMMA AccumulateCovers ==
    ASSUME NEW p, StackOK(p), NEW h, StackOK(h)
    PROVE  StackOK(Accumulate(p, h))
<1> DEFINE a == Accumulate(p, h)
<1>1. Stricter(p.need, h.need) \in AllModes
  BY DEF StackOK, StackRecords, AllModes, Stricter
<1>2. a \in StackRecords
  BY <1>1 DEF Accumulate, StackOK, StackRecords, AllModes
<1>3. /\ a.mode = p.mode /\ a.need = Stricter(p.need, h.need)
      /\ a.multi = (p.multi \/ h.multi \/ h.mode = "MULTI")
      /\ a.serial = (p.serial \/ h.serial \/ h.mode = "SERIALIZED")
  BY DEF Accumulate, StackOK, StackRecords
<1> HIDE DEF a
<1>4. StackOK(a)
  BY <1>2, <1>3 DEF StackOK, StackRecords, AllModes, Stricter
<1> QED
  BY <1>4 DEF a

\* A new guard is strict enough.
LEMMA NewGuardOK ==
    ASSUME NEW h, StackOK(h)
    PROVE  GuardOK(NewGuard(h))
<1> DEFINE g == NewGuard(h)
           m == [i \in {0} |-> Nobody]
<1>1. m \in Mutexes /\ DOMAIN m = {0}
  <2>1. {0} = 0 .. 1 - 1 /\ 1 \in 1 .. MaxThreads
    BY MTGuardAssumption
  <2>2. m \in [0 .. 1 - 1 -> Owner]
    BY <2>1 DEF Owner
  <2> QED
    BY <2>1, <2>2 DEF Mutexes
<1>2. FinalMode(h) \in AllModes
  BY DEF FinalMode, StackOK, StackRecords, AllModes
<1> HIDE DEF m
<1>3. /\ g.mode = FinalMode(h) /\ g.nThreads = 1 /\ g.mt_enabled = FALSE /\ g.mutex = m
      /\ g.need = IF h.origin = "forced" THEN h.mode ELSE h.need
  BY DEF NewGuard, m
<1>4. g \in GuardRecords
  BY <1>1, <1>2, MTGuardAssumption DEF NewGuard, GuardRecords, m, StackOK, StackRecords, AllModes
<1>5. g.mode = Stricter(g.mode, g.need)
  BY <1>3 DEF FinalMode, StackOK, StackRecords, AllModes, Stricter
<1> HIDE DEF g
<1>6. 0 .. g.nThreads - 1 \subseteq DOMAIN g.mutex
  BY <1>1, <1>3
<1>7. GuardOK(g)
  BY <1>3, <1>4, <1>5, <1>6 DEF GuardOK
<1> QED
  BY <1>7 DEF g

-------------------------------------------------------------------------------
(* Guards                                                                  *)

\* The instances of a guard are numbered from 0.
LEMMA Instances ==
    ASSUME NEW g, g \in GuardRecords
    PROVE  \E n \in 1 .. MaxThreads : /\ g.mutex \in [0 .. n - 1 -> Owner]
                                      /\ DOMAIN g.mutex = 0 .. n - 1
<1>1. g.mutex \in Mutexes
  BY DEF GuardRecords
<1> QED
  BY <1>1 DEF Mutexes

\* The instance that a thread is sent to exists.
LEMMA SlotExists ==
    ASSUME NEW g, GuardOK(g), NEW t \in ThreadIds
    PROVE  Slot(g, t) \in DOMAIN g.mutex /\ Slot(g, t) \in ThreadIds
<1>1. PICK n \in 1 .. MaxThreads : DOMAIN g.mutex = 0 .. n - 1
  BY Instances DEF GuardOK
<1>2. g.nThreads \in Nat \ {0} /\ t \in Nat /\ MaxThreads \in Nat
  BY MTGuardAssumption DEF GuardOK, GuardRecords, ThreadIds
<1>3. t % g.nThreads \in 0 .. g.nThreads - 1
  BY <1>2
<1>4. Slot(g, t) \in DOMAIN g.mutex
  <2>1. CASE g.mode = "MULTI"
    BY <2>1, <1>3 DEF Slot, GuardOK
  <2>2. CASE g.mode # "MULTI"
    BY <2>2, <1>1, <1>2 DEF Slot
  <2> QED
    BY <2>1, <2>2
<1> QED
  BY <1>1, <1>2, <1>4 DEF ThreadIds

\* The chain gs with another owner of instance s of filter f.
SetOwner(gs, f, s, v) == [gs EXCEPT ![f].mutex[s] = v]

\* Two chains that differ in the owners of instances only.
Alike(gs, hs) ==
    /\ Len(gs) = Len(hs)
    /\ \A f \in 1 .. Len(gs) : /\ gs[f].mode = hs[f].mode
                               /\ gs[f].mt_enabled = hs[f].mt_enabled
                               /\ DOMAIN gs[f].mutex = DOMAIN hs[f].mutex

\* A lock changes the owner of one instance and leaves the rest of the chain.
LEMMA SetOwnerKeeps ==
    ASSUME GuardsInv, NEW f \in Filters, NEW s \in DOMAIN guards[f].mutex, NEW v \in Owner,
           NEW gs, gs = SetOwner(guards, f, s, v)
    PROVE  /\ gs \in Seq(GuardRecords) /\ Len(gs) = Len(guards)
           /\ \A k \in Filters : GuardOK(gs[k])
           /\ Alike(guards, gs)
           /\ \A k \in Filters : k # f => gs[k] = guards[k]
           /\ \A r \in DOMAIN guards[f].mutex :
                 gs[f].mutex[r] = IF r = s THEN v ELSE guards[f].mutex[r]
<1> DEFINE g == guards[f]
           h == [g EXCEPT !.mutex[s] = v]
<1>1. guards \in Seq(GuardRecords) /\ Len(guards) \in Nat /\ GuardOK(g) /\ g \in GuardRecords
  BY DEF GuardsInv, Filters, GuardOK
<1>2. PICK n \in 1 .. MaxThreads : g.mutex \in [0 .. n - 1 -> Owner] /\ DOMAIN g.mutex = 0 .. n - 1
  BY <1>1, Instances
<1>3. gs = [guards EXCEPT ![f] = h]
  BY DEF SetOwner
<1>4. /\ h.mutex = [g.mutex EXCEPT ![s] = v]
      /\ h.mode = g.mode /\ h.nThreads = g.nThreads /\ h.mt_enabled = g.mt_enabled
      /\ h.need = g.need
  BY <1>1 DEF GuardRecords
<1>5. h.mutex \in [0 .. n - 1 -> Owner] /\ DOMAIN h.mutex = DOMAIN g.mutex
  BY <1>2, <1>4
<1>6. \A r \in DOMAIN g.mutex : h.mutex[r] = IF r = s THEN v ELSE g.mutex[r]
  BY <1>2, <1>4
<1>7. h \in GuardRecords
  <2>1. h.mutex \in Mutexes
    BY <1>5 DEF Mutexes
  <2>2. h = [g EXCEPT !.mutex = h.mutex]
    BY <1>1, <1>4 DEF GuardRecords
  <2> HIDE DEF h
  <2> QED
    BY <2>1, <2>2, <1>1 DEF GuardRecords
<1> HIDE DEF h
<1>8. GuardOK(h)
  BY <1>1, <1>4, <1>5, <1>7 DEF GuardOK
<1> HIDE DEF g
<1>9. /\ gs \in Seq(GuardRecords) /\ Len(gs) = Len(guards)
      /\ gs[f] = h /\ \A k \in Filters : k # f => gs[k] = guards[k]
  BY <1>1, <1>3, <1>7 DEF Filters
<1>10. \A k \in Filters : GuardOK(gs[k])
  BY <1>8, <1>9 DEF GuardsInv
<1>11. Alike(guards, gs)
  BY <1>4, <1>5, <1>9 DEF Alike, Filters, g
<1> QED
  BY <1>6, <1>9, <1>10, <1>11 DEF g

\* Pools that stay have what they need as long as guards stay enabled.
LEMMA PoolsKeep ==
    ASSUME PoolsInv, pools' = pools, nTotalThreads \in Nat, nTotalThreads' \in Nat,
           nTotalThreads' >= nTotalThreads, Len(guards) \in Nat, Len(guards') \in Nat,
           \A i \in 1 .. Len(pools) : pools[i].filter <= Len(guards'),
           \A f \in Filters : f <= Len(guards') /\ guards[f].mt_enabled => guards'[f].mt_enabled
    PROVE  PoolsInv'
<1>1. pools' \in Seq(PoolRecords) /\ Len(pools') = Len(pools) /\ Len(pools) \in Nat
  BY DEF PoolsInv
<1>2. ASSUME NEW i \in 1 .. Len(pools)
      PROVE  /\ pools'[i] = pools[i] /\ pools[i] \in PoolRecords
             /\ pools[i].first \in Nat /\ pools[i].size \in Nat /\ pools[i].filter \in Nat
             /\ pools[i].first >= 1 /\ pools[i].first + pools[i].size <= nTotalThreads'
             /\ pools[i].filter \in Filters' /\ pools[i].filter \in Filters
  <2>1. pools[i] \in PoolRecords
    BY <1>1
  <2> QED
    BY <2>1, SMTT(30) DEF PoolsInv, PoolRecords, Filters
<1>3. ASSUME NEW i \in 1 .. Len(pools), NEW f \in 1 .. pools[i].filter
      PROVE  guards'[f].mt_enabled
  <2>1. guards[f].mt_enabled
    BY DEF PoolsInv
  <2>2. f \in Filters /\ f <= Len(guards')
    BY <1>2 DEF Filters
  <2> QED
    BY <2>1, <2>2
<1>4. ASSUME NEW i \in 1 .. Len(pools), NEW j \in 1 .. Len(pools), i < j
      PROVE  pools[i].filter <= pools[j].filter
  BY <1>4 DEF PoolsInv
<1> QED
  BY <1>1, <1>2, <1>3, <1>4 DEF PoolsInv

\* A step that changes owners only keeps what is known of the script.
LEMMA AlikeKeeps ==
    ASSUME MTInv, Alike(guards, guards'), Len(guards) \in Nat,
           UNCHANGED <<pools, nTotalThreads, script, invoke_stack>>
    PROVE  StackInv' /\ PoolsInv' /\ ScriptInv'
<1>1. Len(guards') = Len(guards) /\ Filters' = Filters
  BY DEF Alike, Filters
<1>2. \A f \in Filters : /\ guards'[f].mode = guards[f].mode
                         /\ guards'[f].mt_enabled = guards[f].mt_enabled
                         /\ DOMAIN guards'[f].mutex = DOMAIN guards[f].mutex
  BY DEF Alike, Filters
<1>3. StackInv'
  BY <1>1 DEF MTInv, StackInv
<1>4. PoolsInv'
  <2>1. nTotalThreads \in Nat /\ nTotalThreads' \in Nat /\ nTotalThreads' >= nTotalThreads
    BY MTGuardAssumption DEF MTInv, ScriptInv
  <2>2. \A i \in 1 .. Len(pools) : pools[i].filter <= Len(guards')
    BY <1>1 DEF MTInv, PoolsInv, Filters
  <2>3. PoolsInv /\ pools' = pools
    BY DEF MTInv
  <2> QED
    BY <1>1, <1>2, <2>1, <2>2, <2>3, PoolsKeep
<1>5. ScriptInv'
  BY <1>1, <1>2, SMTT(30) DEF MTInv, ScriptInv, Filters, ScriptRecords
<1> QED
  BY <1>3, <1>4, <1>5

-------------------------------------------------------------------------------
(* Requests                                                                *)

\* What MTInv says of the calls of one thread.
LEMMA CallFacts ==
    ASSUME CallsInv, NEW t \in ThreadIds
    PROVE  /\ calls[t] \in Seq(CallRecords) /\ Len(calls[t]) \in Nat
           /\ \A i \in 1 .. Len(calls[t]) : /\ calls[t][i] \in CallRecords
                                            /\ CallOK(guards, calls[t][i], t)
           /\ CallsOK(guards, calls[t], t) /\ FromPool(pools, calls[t], t)
BY DEF CallsInv, CallsOK

\* A guard that EnableMT has not been through is not in use by a pool.
LEMMA OnlyMainBeforeEnabled ==
    ASSUME PoolsInv, CallsInv, NEW t \in ThreadIds, t # Main,
           NEW i \in 1 .. Len(calls[t])
    PROVE  guards[calls[t][i].filter].mt_enabled
<1>1. calls[t] # <<>> /\ calls[t][i] \in CallRecords
  BY CallFacts
<1>2. PICK p \in 1 .. Len(pools) : calls[t][i].filter <= pools[p].filter
  BY <1>1, CallFacts DEF FromPool
<1>3. pools[p] \in PoolRecords /\ calls[t][i].filter \in Nat /\ calls[t][i].filter >= 1
  BY <1>1 DEF PoolsInv, CallRecords
<1>4. calls[t][i].filter \in 1 .. pools[p].filter
  BY <1>2, <1>3 DEF PoolRecords
<1> QED
  BY <1>4 DEF PoolsInv

\* The calls of all threads after a step of thread t.
LEMMA CallsKeep ==
    ASSUME calls \in [ThreadIds -> Seq(CallRecords)], NEW t \in ThreadIds,
           NEW cs \in Seq(CallRecords), calls' = [calls EXCEPT ![t] = cs],
           CallsOK(guards', cs, t), FromPool(pools', cs, t),
           \A u \in ThreadIds \ {t} :
              CallsOK(guards', calls[u], u) /\ FromPool(pools', calls[u], u)
    PROVE  CallsInv'
<1>1. calls' \in [ThreadIds -> Seq(CallRecords)]
  OBVIOUS
<1>2. \A u \in ThreadIds : calls'[u] = IF u = t THEN cs ELSE calls[u]
  OBVIOUS
<1>3. ASSUME NEW u \in ThreadIds
      PROVE  CallsOK(guards', calls'[u], u) /\ FromPool(pools', calls'[u], u)
  BY <1>2
<1>4. ThreadIds' = ThreadIds /\ CallRecords' = CallRecords
  BY DEF ThreadIds, CallRecords
<1> QED
  BY <1>1, <1>3, <1>4 DEF CallsInv

\* A request starts with an instance that exists and without its lock.
LEMMA CallStarts ==
    ASSUME GuardsInv, NEW f \in Filters, NEW t \in ThreadIds
    PROVE  /\ Call(f, t) \in CallRecords /\ Call(f, t).filter = f
           /\ CallOK(guards, Call(f, t), t)
<1>1. GuardOK(guards[f]) /\ f \in 1 .. MaxFilters /\ f \in 1 .. Len(guards)
  BY MTGuardAssumption DEF GuardsInv, Filters
<1>2. Slot(guards[f], t) \in DOMAIN guards[f].mutex /\ Slot(guards[f], t) \in ThreadIds
  BY <1>1, SlotExists
<1>3. /\ Call(f, t).filter = f /\ Call(f, t).slot = Slot(guards[f], t)
      /\ Call(f, t).at \in {"inside", "lock"}
      /\ guards[f].mode # "NICE" => Call(f, t).at = "lock"
  BY DEF Call
<1>4. Call(f, t) \in CallRecords
  BY <1>1, <1>2 DEF Call, CallRecords
<1> QED
  BY <1>1, <1>2, <1>3, <1>4 DEF CallOK

\* One request is a legal nest of requests.
LEMMA OneCall ==
    ASSUME NEW gs, NEW t, NEW c \in CallRecords, CallOK(gs, c, t)
    PROVE  <<c>> \in Seq(CallRecords) /\ CallsOK(gs, <<c>>, t)
<1>1. Len(<<c>>) = 1 /\ <<c>>[1] = c
  OBVIOUS
<1>2. \A i \in 1 .. 1 : i = 1
  OBVIOUS
<1> QED
  BY <1>1, <1>2 DEF CallsOK

\* A call of t goes on to another label.
Relabel(cs, label) == [cs EXCEPT ![Len(cs)].at = label]

LEMMA RelabelKeeps ==
    ASSUME NEW cs \in Seq(CallRecords), cs # <<>>, NEW cs2,
           NEW label \in {"lock", "inside", "called", "done"}, cs2 = Relabel(cs, label)
    PROVE  /\ cs2 \in Seq(CallRecords) /\ Len(cs2) = Len(cs) /\ cs2 # <<>>
           /\ Len(cs) \in Nat \ {0}
           /\ \A i \in 1 .. Len(cs) : /\ cs2[i].filter = cs[i].filter
                                      /\ cs2[i].slot = cs[i].slot
                                      /\ cs2[i].at = IF i = Len(cs) THEN label ELSE cs[i].at
<1> DEFINE n == Len(cs)
           c == [cs[n] EXCEPT !.at = label]
<1>1. n \in Nat \ {0} /\ cs[n] \in CallRecords
  OBVIOUS
<1>2. cs2 = [cs EXCEPT ![n] = c]
  BY DEF Relabel
<1>3. c \in CallRecords /\ c.filter = cs[n].filter /\ c.slot = cs[n].slot /\ c.at = label
  BY <1>1 DEF CallRecords
<1> HIDE DEF c
<1>4. cs2 \in Seq(CallRecords) /\ Len(cs2) = n /\ cs2 # <<>>
  BY <1>1, <1>2, <1>3
<1>5. \A i \in 1 .. n : cs2[i] = IF i = n THEN c ELSE cs[i]
  BY <1>1, <1>2, <1>3
<1> QED
  BY <1>1, <1>3, <1>4, <1>5

\* Nests of requests that use the same instances.
LEMMA SameFilters ==
    ASSUME NEW ps, NEW t, NEW cs, NEW cs2, Len(cs2) = Len(cs), cs # <<>>,
           \A i \in 1 .. Len(cs) : cs2[i].filter = cs[i].filter, FromPool(ps, cs, t)
    PROVE  FromPool(ps, cs2, t)
BY DEF FromPool

-------------------------------------------------------------------------------
(* The inductive invariant: requests                                       *)

\* The script and the guards stay as they are.
LEMMA OnlyCallsChange ==
    ASSUME MTInv, CallsInv', UNCHANGED <<guards, pools, nTotalThreads, script, invoke_stack>>
    PROVE  MTInv'
<1>1. GuardsInv' /\ StackInv' /\ PoolsInv' /\ ScriptInv'
  BY DEF MTInv, GuardsInv, StackInv, PoolsInv, ScriptInv, Filters
<1> QED
  BY <1>1 DEF MTInv

\* A thread starts a request.
LEMMA RequestStarts ==
    ASSUME MTInv, NEW t \in ThreadIds, NEW f \in Filters,
           calls' = [calls EXCEPT ![t] = <<Call(f, t)>>],
           t # Main => \E p \in 1 .. Len(pools) : t \in Threads(pools[p]) /\ f <= pools[p].filter,
           UNCHANGED <<guards, pools, nTotalThreads, script, invoke_stack>>
    PROVE  MTInv'
<1> DEFINE c == Call(f, t)
<1>1. GuardsInv /\ CallsInv
  BY DEF MTInv
<1>2. c \in CallRecords /\ c.filter = f /\ CallOK(guards, c, t)
  BY <1>1, CallStarts
<1> HIDE DEF c
<1>3. <<c>> \in Seq(CallRecords) /\ CallsOK(guards', <<c>>, t)
  BY <1>2, OneCall
<1>4. FromPool(pools', <<c>>, t)
  <2>1. Len(<<c>>) = 1 /\ <<c>>[1] = c /\ \A i \in 1 .. 1 : i = 1
    OBVIOUS
  <2> QED
    BY <1>2, <2>1 DEF FromPool
<1>5. \A u \in ThreadIds \ {t} : CallsOK(guards', calls[u], u) /\ FromPool(pools', calls[u], u)
  BY <1>1 DEF CallsInv
<1>6. calls \in [ThreadIds -> Seq(CallRecords)] /\ calls' = [calls EXCEPT ![t] = <<c>>]
  BY <1>1 DEF CallsInv, c
<1>7. CallsInv'
  BY <1>3, <1>4, <1>5, <1>6, CallsKeep
<1> QED
  BY <1>7, OnlyCallsChange

LEMMA RequestByMainKeeps ==
    ASSUME MTInv, RequestByMain
    PROVE  MTInv'
<1>0. Main \in ThreadIds /\ Len(guards) \in Nat
  BY MTGuardAssumption DEF Main, ThreadIds, MTInv, GuardsInv
<1>1. UNCHANGED <<guards, pools, nTotalThreads, script, invoke_stack>>
  BY DEF RequestByMain
<1>2. \E f \in Filters : calls' = [calls EXCEPT ![Main] = <<Call(f, Main)>>]
  <2>1. CASE guards # <<>> /\ calls' = [calls EXCEPT ![Main] = <<Call(Len(guards), Main)>>]
    <3>1. Len(guards) \in Filters
      BY <2>1, <1>0 DEF MTInv, GuardsInv, Filters
    <3> QED
      BY <2>1, <3>1
  <2>2. CASE /\ script.at = "enable" /\ script.guard > 1
             /\ calls' = [calls EXCEPT ![Main] = <<Call(script.guard - 1, Main)>>]
    <3>1. script.guard - 1 \in Filters
      BY <2>2, <1>0 DEF MTInv, ScriptInv, Filters
    <3> QED
      BY <2>2, <3>1
  <2> QED
    BY <2>1, <2>2 DEF RequestByMain
<1> QED
  BY <1>0, <1>1, <1>2, RequestStarts

LEMMA RequestByPoolKeeps ==
    ASSUME MTInv, NEW t \in ThreadIds, RequestByPool(t)
    PROVE  MTInv'
<1>1. PICK p \in ToSet(pools) : /\ t \in Threads(p)
                                /\ calls' = [calls EXCEPT ![t] = <<Call(p.filter, t)>>]
  BY DEF RequestByPool
<1>2. pools \in Seq(PoolRecords)
  BY DEF MTInv, PoolsInv
<1>3. PICK i \in 1 .. Len(pools) : p = pools[i]
  BY <1>2, Elements
<1>4. p.filter \in Filters /\ p.filter <= pools[i].filter
  <2>1. pools[i] \in PoolRecords /\ pools[i].filter \in Filters
    BY <1>2 DEF MTInv, PoolsInv
  <2>2. pools[i].filter \in Nat
    BY <2>1 DEF PoolRecords
  <2> QED
    BY <1>3, <2>1, <2>2
<1> QED
  BY <1>1, <1>3, <1>4, RequestStarts DEF RequestByPool

\* Thread t goes on in its innermost request, which keeps its instance.
LEMMA LabelKeeps ==
    ASSUME MTInv, NEW t \in ThreadIds, Inside(t),
           NEW label \in {"inside", "called", "done"},
           Top(t).at # "lock", calls' = [calls EXCEPT ![t] = Relabel(calls[t], label)],
           UNCHANGED <<guards, pools, nTotalThreads, script, invoke_stack>>
    PROVE  MTInv'
<1> DEFINE cs == calls[t]
           n == Len(cs)
           cs2 == Relabel(cs, label)
<1>1. CallsInv /\ cs \in Seq(CallRecords) /\ cs # <<>> /\ n \in Nat
  BY CallFacts DEF MTInv, Inside
<1>2. /\ cs2 \in Seq(CallRecords) /\ Len(cs2) = n /\ cs2 # <<>>
      /\ \A i \in 1 .. n : /\ cs2[i].filter = cs[i].filter /\ cs2[i].slot = cs[i].slot
                           /\ cs2[i].at = IF i = n THEN label ELSE cs[i].at
  BY <1>1, RelabelKeeps
<1>3. cs[n].at # "lock"
  BY DEF Top, Last
<1>4. CallsOK(guards, cs, t) /\ FromPool(pools, cs, t)
  BY <1>1, CallFacts
<1> HIDE DEF cs2, cs, n
<1>5. CallsOK(guards', cs2, t)
  <2>1. ASSUME NEW i \in 1 .. n PROVE CallOK(guards, cs2[i], t)
    <3>1. CallOK(guards, cs[i], t)
      BY <1>4 DEF CallsOK, n
    <3>2. cs2[i].at # "lock" => cs[i].at # "lock"
      BY <1>2, <1>3
    <3> QED
      BY <1>2, <3>1, <3>2 DEF CallOK
  <2>2. \A i, j \in 1 .. n : i < j => cs2[j].filter < cs2[i].filter
    BY <1>2, <1>4 DEF CallsOK, n
  <2> QED
    BY <1>2, <2>1, <2>2 DEF CallsOK
<1>6. FromPool(pools', cs2, t)
  BY <1>1, <1>2, <1>4, SameFilters DEF n
<1>7. \A u \in ThreadIds \ {t} : CallsOK(guards', calls[u], u) /\ FromPool(pools', calls[u], u)
  BY <1>1 DEF CallsInv
<1>8. calls \in [ThreadIds -> Seq(CallRecords)] /\ calls' = [calls EXCEPT ![t] = cs2]
  BY <1>1 DEF CallsInv, cs2, cs
<1>9. CallsInv'
  BY <1>2, <1>5, <1>6, <1>7, <1>8, CallsKeep
<1> QED
  BY <1>9, OnlyCallsChange

LEMMA NewVideoFrameKeeps ==
    ASSUME MTInv, NEW t \in ThreadIds, NewVideoFrame(t)
    PROVE  MTInv'
<1>1. Inside(t) /\ Top(t).at # "lock" /\ UNCHANGED <<guards, pools, nTotalThreads, script, invoke_stack>>
  BY DEF NewVideoFrame
<1>2. calls' = [calls EXCEPT ![t] = Relabel(calls[t], "done")]
  BY DEF NewVideoFrame, SetTop, Relabel
<1> QED
  BY <1>1, <1>2, LabelKeeps

\* The filter under a filter that is inside its guard is asked next.
LEMMA DescendKeeps ==
    ASSUME MTInv, NEW t \in ThreadIds, Descend(t)
    PROVE  MTInv'
<1> DEFINE cs == calls[t]
           n == Len(cs)
           f == cs[n].filter
           cs2 == Relabel(cs, "called")
           c == Call(f - 1, t)
           cs3 == Append(cs2, c)
<1>1. CallsInv /\ GuardsInv /\ cs \in Seq(CallRecords) /\ cs # <<>> /\ n \in Nat \ {0}
  BY CallFacts DEF MTInv, Descend, Inside
<1>2. /\ cs2 \in Seq(CallRecords) /\ Len(cs2) = n /\ cs2 # <<>>
      /\ \A i \in 1 .. n : /\ cs2[i].filter = cs[i].filter /\ cs2[i].slot = cs[i].slot
                           /\ cs2[i].at = IF i = n THEN "called" ELSE cs[i].at
  BY <1>1, RelabelKeeps
<1>3. cs[n].at # "lock" /\ f > 1
  BY DEF Descend, Top, Last
<1>4. CallsOK(guards, cs, t) /\ FromPool(pools, cs, t)
  BY <1>1, CallFacts
<1>5. /\ \A i \in 1 .. n : cs[i].filter \in Nat /\ f <= cs[i].filter
      /\ f \in Filters /\ f - 1 \in Filters
  <2>1. \A i \in 1 .. n : cs[i].filter \in Nat
    <3>1. \A i \in 1 .. n : cs[i] \in CallRecords
      BY <1>1
    <3> QED
      BY <3>1 DEF CallRecords
  <2>2. \A i \in 1 .. n : i < n => f < cs[i].filter
    BY <1>1, <1>4 DEF CallsOK
  <2>3. f \in Filters
    BY <1>1, <1>4 DEF CallsOK, CallOK, Filters
  <2>4. Len(guards) \in Nat
    BY <1>1 DEF GuardsInv
  <2> QED
    BY <1>1, <1>3, <2>1, <2>2, <2>3, <2>4 DEF Filters
<1>6. c \in CallRecords /\ c.filter = f - 1 /\ CallOK(guards, c, t)
  BY <1>1, <1>5, CallStarts
<1>7. calls \in [ThreadIds -> Seq(CallRecords)] /\ calls' = [calls EXCEPT ![t] = cs3]
  BY <1>1 DEF CallsInv, Descend, Relabel, Top, Last
<1> HIDE DEF cs2, cs, n, c, f
<1>8. /\ cs3 \in Seq(CallRecords) /\ Len(cs3) = n + 1 /\ cs3[n + 1] = c
      /\ \A i \in 1 .. n : cs3[i] = cs2[i]
  BY <1>1, <1>2, <1>6
<1> HIDE DEF cs3
<1>9. CallsOK(guards', cs3, t)
  <2>0. guards' = guards
    BY DEF Descend
  <2>1. ASSUME NEW i \in 1 .. n PROVE CallOK(guards, cs3[i], t)
    <3>1. CallOK(guards, cs[i], t)
      BY <1>4 DEF CallsOK, n
    <3>2. cs3[i].at # "lock" => cs[i].at # "lock"
      BY <1>2, <1>3, <1>8
    <3>3. cs3[i].filter = cs[i].filter /\ cs3[i].slot = cs[i].slot
      BY <1>2, <1>8
    <3> QED
      BY <3>1, <3>2, <3>3 DEF CallOK
  <2>2. \A i \in 1 .. n + 1 : CallOK(guards, cs3[i], t)
    BY <1>1, <1>6, <1>8, <2>1
  <2>3. \A i, j \in 1 .. n : i < j => cs3[j].filter < cs3[i].filter
    BY <1>2, <1>4, <1>8 DEF CallsOK, n
  <2>4. \A i \in 1 .. n : cs3[n + 1].filter < cs3[i].filter
    <3>1. f \in Nat
      BY <1>1, <1>5 DEF f
    <3>2. cs3[n + 1].filter = f - 1 /\ \A i \in 1 .. n : cs3[i].filter = cs[i].filter
      BY <1>2, <1>6, <1>8
    <3> QED
      BY <1>5, <3>1, <3>2
  <2>5. \A i, j \in 1 .. n + 1 : i < j => cs3[j].filter < cs3[i].filter
    BY <1>1, <2>3, <2>4
  <2> QED
    BY <1>8, <2>0, <2>2, <2>5 DEF CallsOK
<1>10. FromPool(pools', cs3, t)
  <2> SUFFICES ASSUME t # Main
               PROVE  \E p \in 1 .. Len(pools) : /\ t \in Threads(pools[p])
                                                 /\ \A i \in 1 .. Len(cs3) : cs3[i].filter <= pools[p].filter
    BY DEF FromPool, Descend
  <2>1. PICK p \in 1 .. Len(pools) : /\ t \in Threads(pools[p])
                                     /\ \A i \in 1 .. n : cs[i].filter <= pools[p].filter
    BY <1>1, <1>4 DEF FromPool, n
  <2>2. pools[p] \in PoolRecords /\ pools[p].filter \in Nat
    <3>1. pools \in Seq(PoolRecords)
      BY DEF MTInv, PoolsInv
    <3>2. pools[p] \in PoolRecords
      BY <3>1
    <3> QED
      BY <3>2 DEF PoolRecords
  <2>3. \A i \in 1 .. n : cs3[i].filter <= pools[p].filter
    BY <1>2, <1>8, <2>1
  <2>4. f <= pools[p].filter /\ f \in Nat
    BY <1>1, <1>5, <2>1 DEF f
  <2>5. cs3[n + 1].filter <= pools[p].filter
    BY <1>6, <1>8, <2>2, <2>4
  <2>6. \A i \in 1 .. Len(cs3) : cs3[i].filter <= pools[p].filter
    BY <1>1, <1>8, <2>3, <2>5
  <2> QED
    BY <2>1, <2>6
<1>11. \A u \in ThreadIds \ {t} : CallsOK(guards', calls[u], u) /\ FromPool(pools', calls[u], u)
  BY <1>1 DEF CallsInv, Descend
<1>12. CallsInv'
  BY <1>7, <1>8, <1>9, <1>10, <1>11, CallsKeep
<1> QED
  BY <1>12, OnlyCallsChange DEF Descend

\* A request keeps its instance when the owner of another one changes.
LEMMA CallOKKeeps ==
    ASSUME GuardsInv, NEW f \in Filters, NEW s \in DOMAIN guards[f].mutex, NEW v \in Owner,
           NEW gs, gs = SetOwner(guards, f, s, v), NEW c, NEW u, CallOK(guards, c, u),
           c.filter = f /\ c.slot = s /\ c.at # "lock" => guards[f].mutex[s] # u
    PROVE  CallOK(gs, c, u)
<1>1. /\ Len(gs) = Len(guards) /\ Alike(guards, gs)
      /\ \A k \in Filters : k # f => gs[k] = guards[k]
      /\ \A r \in DOMAIN guards[f].mutex :
            gs[f].mutex[r] = IF r = s THEN v ELSE guards[f].mutex[r]
  BY SetOwnerKeeps
<1>2. c.filter \in Filters /\ c.filter \in 1 .. Len(gs)
  BY <1>1 DEF CallOK, Filters
<1>3. /\ gs[c.filter].mode = guards[c.filter].mode
      /\ DOMAIN gs[c.filter].mutex = DOMAIN guards[c.filter].mutex
  BY <1>1, <1>2 DEF Alike, Filters
<1>4. CASE c.filter = f
  BY <1>1, <1>2, <1>3, <1>4 DEF CallOK
<1>5. CASE c.filter # f
  BY <1>1, <1>2, <1>5 DEF CallOK
<1> QED
  BY <1>4, <1>5

LEMMA OthersKeep ==
    ASSUME GuardsInv, CallsInv, NEW f \in Filters, NEW s \in DOMAIN guards[f].mutex,
           NEW v \in Owner, NEW gs, gs = SetOwner(guards, f, s, v),
           NEW u \in ThreadIds, guards[f].mutex[s] # u
    PROVE  CallsOK(gs, calls[u], u)
<1>1. CallsOK(guards, calls[u], u)
  BY CallFacts
<1>2. ASSUME NEW i \in 1 .. Len(calls[u])
      PROVE  CallOK(gs, calls[u][i], u)
  <2>1. CallOK(guards, calls[u][i], u)
    BY <1>1 DEF CallsOK
  <2> QED
    BY <2>1, CallOKKeeps
<1> QED
  BY <1>1, <1>2 DEF CallsOK

\* Steps that change the owner of an instance keep the rest.
LEMMA OwnerStep ==
    ASSUME MTInv, NEW f \in Filters, NEW s \in DOMAIN guards[f].mutex, NEW v \in Owner,
           guards' = SetOwner(guards, f, s, v), CallsInv',
           UNCHANGED <<pools, nTotalThreads, script, invoke_stack>>
    PROVE  MTInv'
<1>1. GuardsInv
  BY DEF MTInv
<1>2. /\ guards' \in Seq(GuardRecords) /\ Len(guards') = Len(guards)
      /\ \A k \in Filters : GuardOK(guards'[k])
      /\ Alike(guards, guards')
  BY <1>1, SetOwnerKeeps
<1>3. GuardsInv'
  BY <1>1, <1>2 DEF GuardsInv, Filters
<1>4. Len(guards) \in Nat
  BY <1>1 DEF GuardsInv
<1>5. StackInv' /\ PoolsInv' /\ ScriptInv'
  BY <1>2, <1>4, AlikeKeeps
<1> QED
  BY <1>3, <1>5 DEF MTInv

\* What the innermost request of a thread uses.
LEMMA TopFacts ==
    ASSUME MTInv, NEW t \in ThreadIds, Inside(t)
    PROVE  /\ Len(calls[t]) \in Nat \ {0} /\ Top(t) = calls[t][Len(calls[t])]
           /\ Top(t).filter \in Filters /\ Top(t).slot \in DOMAIN guards[Top(t).filter].mutex
           /\ CallOK(guards, Top(t), t)
           /\ \A i \in 1 .. Len(calls[t]) - 1 : Top(t).filter # calls[t][i].filter
           /\ t \in Owner /\ Nobody \in Owner /\ t # Nobody
<1> DEFINE cs == calls[t]
<1>1. cs \in Seq(CallRecords) /\ cs # <<>> /\ CallsOK(guards, cs, t)
  BY CallFacts DEF MTInv, Inside
<1>2. Len(cs) \in Nat \ {0} /\ Top(t) = cs[Len(cs)]
  BY <1>1 DEF Top, Last
<1>3. CallOK(guards, Top(t), t)
  BY <1>1, <1>2 DEF CallsOK
<1>4. Top(t).filter \in Filters /\ Top(t).slot \in DOMAIN guards[Top(t).filter].mutex
  BY <1>3 DEF CallOK, Filters
<1>5. \A i \in 1 .. Len(cs) - 1 : Top(t).filter # cs[i].filter
  <2>1. SUFFICES ASSUME NEW i \in 1 .. Len(cs) - 1 PROVE Top(t).filter # cs[i].filter
    OBVIOUS
  <2>2. cs[i] \in CallRecords
    BY <1>1, <1>2
  <2>3. cs[i].filter \in Nat
    BY <2>2 DEF CallRecords
  <2>4. cs[Len(cs)].filter < cs[i].filter
    BY <1>1, <1>2 DEF CallsOK
  <2> QED
    BY <1>2, <2>3, <2>4
<1>6. t \in Owner /\ Nobody \in Owner /\ t # Nobody
  BY MTGuardAssumption DEF Owner, ThreadIds, Nobody
<1> QED
  BY <1>2, <1>3, <1>4, <1>5, <1>6

\* The lock is taken when nobody has it, so no other request is on the instance.
LEMMA LockKeeps ==
    ASSUME MTInv, NEW t \in ThreadIds, Lock(t)
    PROVE  MTInv'
<1> DEFINE cs == calls[t]
           n == Len(cs)
           f == Top(t).filter
           s == Top(t).slot
           cs2 == Relabel(cs, "inside")
<1>1. GuardsInv /\ CallsInv /\ cs \in Seq(CallRecords) /\ cs # <<>> /\ n \in Nat \ {0}
  BY CallFacts DEF MTInv, Lock, Inside
<1>2. /\ Top(t) = cs[n] /\ f \in Filters /\ s \in DOMAIN guards[f].mutex
      /\ CallOK(guards, cs[n], t) /\ \A i \in 1 .. n - 1 : f # cs[i].filter
      /\ t \in Owner /\ Nobody \in Owner /\ t # Nobody
  BY TopFacts DEF Lock
<1>3. /\ cs2 \in Seq(CallRecords) /\ Len(cs2) = n /\ cs2 # <<>>
      /\ \A i \in 1 .. n : /\ cs2[i].filter = cs[i].filter /\ cs2[i].slot = cs[i].slot
                           /\ cs2[i].at = IF i = n THEN "inside" ELSE cs[i].at
  BY <1>1, RelabelKeeps
<1>4. guards' = SetOwner(guards, f, s, t) /\ guards[f].mutex[s] = Nobody /\ Top(t).at = "lock"
  BY DEF Lock, SetOwner
<1>5. CallsOK(guards, cs, t) /\ FromPool(pools, cs, t)
  BY <1>1, CallFacts
<1>6. calls \in [ThreadIds -> Seq(CallRecords)] /\ calls' = [calls EXCEPT ![t] = cs2]
  BY <1>1 DEF CallsInv, Lock, SetTop, Relabel
<1>7. pools' = pools
  BY DEF Lock
<1> HIDE DEF cs2, cs, n, f, s
<1>8. CallsOK(guards', cs2, t)
  <2>1. ASSUME NEW i \in 1 .. n PROVE CallOK(guards', cs[i], t)
    <3>1. CallOK(guards, cs[i], t)
      BY <1>5 DEF CallsOK, n
    <3>2. guards[f].mutex[s] # t
      BY <1>2, <1>4
    <3> QED
      BY <1>1, <1>2, <1>4, <3>1, <3>2, CallOKKeeps
  <2>2. guards'[f].mutex[s] = t
    BY <1>1, <1>2, <1>4, SetOwnerKeeps
  <2>3. ASSUME NEW i \in 1 .. n PROVE CallOK(guards', cs2[i], t)
    <3>1. CallOK(guards', cs[i], t)
      BY <2>1
    <3>2. CASE i # n
      BY <1>3, <3>1, <3>2 DEF CallOK
    <3>3. CASE i = n
      <4>1. cs2[i].filter = f /\ cs2[i].slot = s /\ cs[i].filter = f /\ cs[i].slot = s
        BY <1>2, <1>3, <3>3 DEF f, s
      <4> QED
        BY <3>1, <4>1, <2>2 DEF CallOK
    <3> QED
      BY <3>2, <3>3
  <2>4. \A i, j \in 1 .. n : i < j => cs2[j].filter < cs2[i].filter
    BY <1>3, <1>5 DEF CallsOK, n
  <2> QED
    BY <1>3, <2>3, <2>4 DEF CallsOK
<1>9. FromPool(pools', cs2, t)
  BY <1>1, <1>3, <1>5, <1>7, SameFilters DEF n
<1>10. ASSUME NEW u \in ThreadIds \ {t}
       PROVE  CallsOK(guards', calls[u], u) /\ FromPool(pools', calls[u], u)
  <2>1. guards[f].mutex[s] # u
    BY <1>4, MTGuardAssumption DEF Nobody, ThreadIds
  <2>2. CallsOK(guards', calls[u], u)
    BY <1>1, <1>2, <1>4, <2>1, OthersKeep
  <2> QED
    BY <1>1, <1>7, <2>2 DEF CallsInv
<1>11. CallsInv'
  BY <1>3, <1>6, <1>8, <1>9, <1>10, CallsKeep
<1> QED
  BY <1>2, <1>4, <1>11, OwnerStep DEF Lock

\* A thread that leaves a guard has its lock, so nobody else loses it.
LEMMA ReturnKeeps ==
    ASSUME MTInv, NEW t \in ThreadIds, Return(t)
    PROVE  MTInv'
<1> DEFINE cs == calls[t]
           n == Len(cs)
           f == Top(t).filter
           s == Top(t).slot
           cs2 == Front(cs)
<1>1. GuardsInv /\ CallsInv /\ cs \in Seq(CallRecords) /\ cs # <<>> /\ n \in Nat \ {0}
  BY CallFacts DEF MTInv, Return, Inside
<1>2. /\ Top(t) = cs[n] /\ f \in Filters /\ s \in DOMAIN guards[f].mutex
      /\ CallOK(guards, cs[n], t) /\ \A i \in 1 .. n - 1 : f # cs[i].filter
      /\ t \in Owner /\ Nobody \in Owner /\ t # Nobody
  BY TopFacts DEF Return
<1>3. cs2 \in Seq(CallRecords) /\ Len(cs2) = n - 1 /\ \A i \in 1 .. n - 1 : cs2[i] = cs[i]
  BY <1>1, FrontLast
<1>4. guards[f].mode # "NICE" => guards' = SetOwner(guards, f, s, Nobody)
  BY DEF Return, SetOwner
<1>5. guards[f].mode = "NICE" => guards' = guards
  BY DEF Return
<1>6. CallsOK(guards, cs, t) /\ FromPool(pools, cs, t)
  BY <1>1, CallFacts
<1>7. calls \in [ThreadIds -> Seq(CallRecords)] /\ calls' = [calls EXCEPT ![t] = cs2]
  BY <1>1 DEF CallsInv, Return
<1>8. UNCHANGED <<pools, nTotalThreads, script, invoke_stack>> /\ cs[n].at = "done"
  BY <1>2 DEF Return
<1>9. guards[f].mode # "NICE" => guards[f].mutex[s] = t
  BY <1>2, <1>8 DEF CallOK
<1>10. ASSUME NEW i \in 1 .. n - 1 PROVE i \in 1 .. n /\ CallOK(guards, cs[i], t) /\ cs[i].filter # f
  BY <1>1, <1>2, <1>6 DEF CallsOK
<1> HIDE DEF cs2, cs, n, f, s
<1>11. FromPool(pools', cs2, t)
  <2>1. cs2 # <<>> /\ t # Main =>
          \E p \in 1 .. Len(pools) : /\ t \in Threads(pools[p])
                                     /\ \A i \in 1 .. n : cs[i].filter <= pools[p].filter
    BY <1>1, <1>6 DEF FromPool, n
  <2> QED
    BY <1>3, <1>8, <1>10, <2>1 DEF FromPool
<1>12. \A i, j \in 1 .. n - 1 : i < j => cs2[j].filter < cs2[i].filter
  BY <1>3, <1>6, <1>10 DEF CallsOK, n
<1>13. ASSUME NEW i \in 1 .. n - 1 PROVE CallOK(guards', cs2[i], t)
  <2>1. CallOK(guards, cs2[i], t) /\ cs2[i].filter # f
    BY <1>3, <1>10
  <2>2. CASE guards[f].mode # "NICE"
    BY <1>1, <1>2, <1>4, <2>1, <2>2, CallOKKeeps
  <2>3. CASE guards[f].mode = "NICE"
    BY <1>5, <2>1, <2>3
  <2> QED
    BY <2>2, <2>3
<1>14. CallsOK(guards', cs2, t)
  BY <1>3, <1>12, <1>13 DEF CallsOK
<1>15. ASSUME NEW u \in ThreadIds \ {t}
       PROVE  CallsOK(guards', calls[u], u) /\ FromPool(pools', calls[u], u)
  <2>1. FromPool(pools', calls[u], u)
    BY <1>1, <1>8 DEF CallsInv
  <2>2. CASE guards[f].mode # "NICE"
    <3>1. guards[f].mutex[s] # u
      BY <1>9, <2>2
    <3>2. CallsOK(guards', calls[u], u)
      BY <1>1, <1>2, <1>4, <2>2, <3>1, OthersKeep
    <3> QED
      BY <2>1, <3>2
  <2>3. CASE guards[f].mode = "NICE"
    BY <1>1, <1>5, <2>1, <2>3 DEF CallsInv
  <2> QED
    BY <2>2, <2>3
<1>16. CallsInv'
  BY <1>3, <1>7, <1>11, <1>14, <1>15, CallsKeep
<1>17. CASE guards[f].mode # "NICE"
  BY <1>2, <1>4, <1>8, <1>16, <1>17, OwnerStep
<1>18. CASE guards[f].mode = "NICE"
  BY <1>5, <1>8, <1>16, <1>18, OnlyCallsChange
<1> QED
  BY <1>17, <1>18

-------------------------------------------------------------------------------
(* The inductive invariant: the script                                     *)

\* The constructors that thread 0 is in change, and nothing else.
LEMMA OnlyStackChanges ==
    ASSUME MTInv, StackInv', UNCHANGED <<guards, pools, nTotalThreads, script, calls>>
    PROVE  MTInv'
<1>1. GuardsInv' /\ PoolsInv' /\ ScriptInv' /\ CallsInv'
  BY DEF MTInv, GuardsInv, PoolsInv, ScriptInv, CallsInv, Filters
<1> QED
  BY <1>1 DEF MTInv

LEMMA InvokeKeeps ==
    ASSUME MTInv, NEW mode \in Modes, NEW origin \in Origins,
           NEW chained \in Modes \cup {"NICE"}, Invoke(mode, origin, chained)
    PROVE  MTInv'
<1> DEFINE h == [mode |-> mode, origin |-> origin, multi |-> chained = "MULTI",
                 serial |-> chained = "SERIALIZED", need |-> Stricter(mode, chained)]
<1>1. mode \in AllModes /\ chained \in AllModes /\ origin \in {"forced", "clip", "default"}
  BY MTGuardAssumption DEF AllModes
<1>2. StackOK(h) /\ h \in StackRecords
  BY <1>1 DEF StackOK, StackRecords, AllModes, Stricter
<1>3. /\ invoke_stack \in Seq(StackRecords) /\ Len(invoke_stack) \in Nat /\ MaxDepth \in Nat
      /\ Len(pools) \in Nat /\ Len(invoke_stack) + Len(pools) < MaxDepth
      /\ Len(guards) < MaxFilters /\ script = InScript
      /\ UNCHANGED <<guards, pools, nTotalThreads, script, calls>>
  BY MTGuardAssumption DEF MTInv, StackInv, PoolsInv, Invoke
<1>4. invoke_stack' = Append(invoke_stack, h)
  BY DEF Invoke
<1> HIDE DEF h
<1>5. /\ invoke_stack' \in Seq(StackRecords) /\ Len(invoke_stack') = Len(invoke_stack) + 1
      /\ \A i \in 1 .. Len(invoke_stack) : invoke_stack'[i] = invoke_stack[i]
      /\ invoke_stack'[Len(invoke_stack) + 1] = h
  BY <1>2, <1>3, <1>4
<1>6. \A i \in 1 .. Len(invoke_stack) : StackOK(invoke_stack[i])
  BY DEF MTInv, StackInv
<1>7. \A i \in 1 .. Len(invoke_stack') : StackOK(invoke_stack'[i])
  BY <1>2, <1>3, <1>5, <1>6
<1>8. Len(invoke_stack') <= MaxDepth
  BY <1>3, <1>5
<1>9. StackInv'
  BY <1>3, <1>5, <1>7, <1>8 DEF StackInv, InScript
<1> QED
  BY <1>3, <1>9, OnlyStackChanges

\* What is left of the stack when the innermost constructor ends.
LEMMA OuterStack ==
    ASSUME MTInv, invoke_stack # <<>>
    PROVE  /\ Front(invoke_stack) \in Seq(StackRecords) /\ Len(invoke_stack) \in Nat \ {0}
           /\ Len(Front(invoke_stack)) = Len(invoke_stack) - 1
           /\ Len(invoke_stack) <= MaxDepth /\ MaxDepth \in Nat
           /\ \A i \in 1 .. Len(invoke_stack) - 1 : StackOK(Front(invoke_stack)[i])
           /\ StackOK(Last(invoke_stack))
           /\ Len(guards) < MaxFilters /\ script = InScript
<1>1. invoke_stack \in Seq(StackRecords) /\ \A i \in 1 .. Len(invoke_stack) : StackOK(invoke_stack[i])
  BY DEF MTInv, StackInv
<1>2. /\ Len(invoke_stack) \in Nat \ {0}
      /\ Front(invoke_stack) \in Seq(StackRecords) /\ Len(Front(invoke_stack)) = Len(invoke_stack) - 1
      /\ \A i \in 1 .. Len(invoke_stack) - 1 : Front(invoke_stack)[i] = invoke_stack[i]
      /\ Last(invoke_stack) = invoke_stack[Len(invoke_stack)]
  BY <1>1, FrontLast
<1>3. \A i \in 1 .. Len(invoke_stack) - 1 : StackOK(Front(invoke_stack)[i])
  BY <1>1, <1>2
<1>4. StackOK(Last(invoke_stack))
  BY <1>1, <1>2
<1> QED
  BY <1>2, <1>3, <1>4, MTGuardAssumption DEF MTInv, StackInv

LEMMA InvokeThrowsKeeps ==
    ASSUME MTInv, InvokeThrows
    PROVE  MTInv'
<1>1. /\ invoke_stack # <<>> /\ invoke_stack' = Front(invoke_stack)
      /\ UNCHANGED <<guards, pools, nTotalThreads, script, calls>>
  BY DEF InvokeThrows
<1>2. StackInv'
  BY <1>1, OuterStack DEF StackInv, InScript
<1> QED
  BY <1>1, <1>2, OnlyStackChanges

\* A filter of the chain gs has the instances and the mode that it has now.
StaysIn(gs, f) ==
    f \in 1 .. Len(gs) /\ gs[f].mode = guards[f].mode /\ gs[f].mutex = guards[f].mutex

\* Requests under way go on when the script does not touch what they use.
LEMMA CallsStay ==
    ASSUME CallsInv, calls' = calls,
           \A t \in ThreadIds : FromPool(pools', calls[t], t),
           \A t \in ThreadIds : \A i \in 1 .. Len(calls[t]) : StaysIn(guards', calls[t][i].filter)
    PROVE  CallsInv'
<1>1. ASSUME NEW t \in ThreadIds
      PROVE  CallsOK(guards', calls[t], t)
  <2>1. CallsOK(guards, calls[t], t)
    BY CallFacts
  <2>2. ASSUME NEW i \in 1 .. Len(calls[t])
        PROVE  CallOK(guards', calls[t][i], t)
    <3>1. CallOK(guards, calls[t][i], t) /\ StaysIn(guards', calls[t][i].filter)
      BY <2>1 DEF CallsOK
    <3> QED
      BY <3>1 DEF CallOK, StaysIn
  <2> QED
    BY <2>1, <2>2 DEF CallsOK
<1>2. ThreadIds' = ThreadIds /\ CallRecords' = CallRecords
  BY DEF ThreadIds, CallRecords
<1> QED
  BY <1>1, <1>2 DEF CallsInv

\* A filter gets its guard when the outermost constructor ends.
LEMMA InvokeReturnsKeeps ==
    ASSUME MTInv, InvokeReturns
    PROVE  MTInv'
<1> DEFINE h == Last(invoke_stack)
           outer == Front(invoke_stack)
           n == Len(invoke_stack)
<1>1. invoke_stack # <<>> /\ UNCHANGED <<pools, nTotalThreads, script, calls>>
  BY DEF InvokeReturns
<1>2. /\ outer \in Seq(StackRecords) /\ n \in Nat \ {0} /\ Len(outer) = n - 1
      /\ n <= MaxDepth /\ MaxDepth \in Nat
      /\ \A i \in 1 .. n - 1 : StackOK(outer[i])
      /\ StackOK(h) /\ Len(guards) < MaxFilters /\ script = InScript
  BY <1>1, OuterStack
<1>3. CASE outer # <<>>
  <2> DEFINE rest == Front(outer)
             a == Accumulate(Last(outer), h)
  <2>1. /\ rest \in Seq(StackRecords) /\ Len(rest) = Len(outer) - 1
        /\ Len(outer) \in Nat \ {0} /\ \A i \in 1 .. Len(outer) - 1 : rest[i] = outer[i]
        /\ Last(outer) = outer[Len(outer)]
    BY <1>2, <1>3, FrontLast
  <2>2. StackOK(Last(outer))
    BY <1>2, <2>1
  <2>3. StackOK(a) /\ a \in StackRecords
    BY <1>2, <2>2, AccumulateCovers DEF StackOK
  <2>4. invoke_stack' = Append(rest, a) /\ guards' = guards
    BY <1>3 DEF InvokeReturns
  <2> HIDE DEF rest, a, outer
  <2>5. /\ invoke_stack' \in Seq(StackRecords) /\ Len(invoke_stack') = Len(rest) + 1
        /\ \A i \in 1 .. Len(rest) : invoke_stack'[i] = rest[i]
        /\ invoke_stack'[Len(rest) + 1] = a
    BY <2>1, <2>3, <2>4
  <2>6. \A i \in 1 .. Len(rest) : StackOK(rest[i])
    BY <1>2, <2>1
  <2>7. \A i \in 1 .. Len(invoke_stack') : StackOK(invoke_stack'[i])
    BY <2>1, <2>3, <2>5, <2>6
  <2>8. Len(invoke_stack') <= MaxDepth
    BY <1>2, <2>1, <2>5
  <2>9. StackInv'
    BY <1>1, <1>2, <2>4, <2>5, <2>7, <2>8 DEF StackInv, InScript
  <2> QED
    BY <1>1, <2>4, <2>9, OnlyStackChanges
<1>4. CASE outer = <<>>
  <2> DEFINE g == NewGuard(h)
  <2>1. invoke_stack' = <<>> /\ guards' = Append(guards, g)
    BY <1>4 DEF InvokeReturns
  <2>2. GuardOK(g) /\ g \in GuardRecords
    BY <1>2, NewGuardOK DEF GuardOK
  <2> HIDE DEF g, h, outer
  <2>3. guards \in Seq(GuardRecords) /\ Len(guards) \in Nat
    BY DEF MTInv, GuardsInv
  <2>4. /\ guards' \in Seq(GuardRecords) /\ Len(guards') = Len(guards) + 1
        /\ \A f \in Filters : guards'[f] = guards[f]
        /\ guards'[Len(guards) + 1] = g
    BY <2>1, <2>2, <2>3 DEF Filters
  <2>5. GuardsInv'
    <3>1. \A f \in Filters : GuardOK(guards'[f])
      BY <2>4 DEF MTInv, GuardsInv
    <3>2. \A f \in 1 .. Len(guards) + 1 : GuardOK(guards'[f])
      BY <2>2, <2>3, <2>4, <3>1 DEF Filters
    <3>3. Len(guards') <= MaxFilters
      BY <1>2, <2>3, <2>4, MTGuardAssumption
    <3> QED
      BY <2>4, <3>2, <3>3 DEF GuardsInv, Filters
  <2>6. StackInv'
    BY <1>2, <2>1 DEF StackInv
  <2>7. PoolsInv'
    <3>1. nTotalThreads \in Nat /\ nTotalThreads' \in Nat /\ nTotalThreads' >= nTotalThreads
      BY <1>1, MTGuardAssumption DEF MTInv, ScriptInv
    <3>2. \A i \in 1 .. Len(pools) : pools[i].filter <= Len(guards')
      BY <2>3, <2>4 DEF MTInv, PoolsInv, Filters
    <3>3. \A f \in Filters : f <= Len(guards') /\ guards[f].mt_enabled => guards'[f].mt_enabled
      BY <2>4
    <3>4. PoolsInv /\ pools' = pools /\ Len(guards') \in Nat
      BY <1>1, <2>3, <2>4 DEF MTInv
    <3> QED
      BY <2>3, <3>1, <3>2, <3>3, <3>4, PoolsKeep
  <2>8. ScriptInv'
    BY <1>1, <1>2 DEF MTInv, ScriptInv, InScript
  <2>9. CallsInv'
    <3>1. CallsInv
      BY DEF MTInv
    <3>2. \A t \in ThreadIds : FromPool(pools', calls[t], t)
      BY <1>1, <3>1 DEF CallsInv
    <3>3. ASSUME NEW t \in ThreadIds, NEW i \in 1 .. Len(calls[t])
          PROVE  StaysIn(guards', calls[t][i].filter)
      <4>1. calls[t][i].filter \in Filters
        BY <3>1, CallFacts DEF CallOK, Filters
      <4> QED
        BY <2>3, <2>4, <4>1 DEF StaysIn, Filters
    <3> QED
      BY <1>1, <3>1, <3>2, <3>3, CallsStay
  <2> QED
    BY <2>5, <2>6, <2>7, <2>8, <2>9 DEF MTInv
<1> QED
  BY <1>3, <1>4

LEMMA PrefetchKeeps ==
    ASSUME MTInv, NEW n \in PoolSizes, Prefetch(n)
    PROVE  MTInv'
<1>1. /\ n \in Nat \ {0} /\ nTotalThreads \in 1 .. MaxThreads /\ MaxThreads \in Nat
      /\ nTotalThreads + n <= MaxThreads /\ nTotalThreads' = nTotalThreads + n
      /\ script' = [at |-> "enable", guard |-> 1, nThreads |-> n]
      /\ guards # <<>> /\ invoke_stack = <<>>
      /\ UNCHANGED <<guards, pools, invoke_stack, calls>>
  BY MTGuardAssumption DEF Prefetch, MTInv, ScriptInv
<1>2. guards \in Seq(GuardRecords) /\ Len(guards) \in Nat /\ 1 \in Filters
  BY <1>1 DEF MTInv, GuardsInv, Filters
<1>3. GuardsInv' /\ CallsInv' /\ StackInv'
  BY <1>1 DEF MTInv, GuardsInv, CallsInv, StackInv, Filters
<1>4. PoolsInv'
  <2>1. nTotalThreads \in Nat /\ nTotalThreads' \in Nat /\ nTotalThreads' >= nTotalThreads
    BY <1>1
  <2>2. \A i \in 1 .. Len(pools) : pools[i].filter <= Len(guards')
    BY <1>1, <1>2 DEF MTInv, PoolsInv, Filters
  <2> QED
    BY <1>1, <1>2, <2>1, <2>2, PoolsKeep DEF MTInv
<1>5. ScriptInv'
  <2>1. script'.at = "enable" /\ script'.guard = 1 /\ script'.nThreads = n
    BY <1>1
  <2>2. script' \in ScriptRecords
    BY <1>1 DEF ScriptRecords
  <2>3. 1 \in Filters' /\ n \in 1 .. MaxThreads /\ nTotalThreads' - n >= 1
        /\ nTotalThreads' \in 1 .. MaxThreads
    BY <1>1, <1>2 DEF Filters
  <2>4. \A f \in 1 .. 1 - 1 : guards'[f].mt_enabled
    OBVIOUS
  <2> QED
    BY <2>1, <2>2, <2>3, <2>4 DEF ScriptInv
<1> QED
  BY <1>3, <1>4, <1>5 DEF MTInv

\* One guard of the chain is replaced.
LEMMA ReplaceGuard ==
    ASSUME GuardsInv, NEW f \in Filters, NEW g, GuardOK(g), guards' = [guards EXCEPT ![f] = g]
    PROVE  /\ GuardsInv' /\ Len(guards') = Len(guards) /\ Filters' = Filters /\ Len(guards) \in Nat
           /\ guards'[f] = g /\ \A k \in Filters : k # f => guards'[k] = guards[k]
<1>1. guards \in Seq(GuardRecords) /\ g \in GuardRecords /\ Len(guards) \in Nat
  BY DEF GuardsInv, GuardOK
<1>2. /\ guards' \in Seq(GuardRecords) /\ Len(guards') = Len(guards)
      /\ guards'[f] = g /\ \A k \in Filters : k # f => guards'[k] = guards[k]
  BY <1>1 DEF Filters
<1>3. Filters' = Filters
  BY <1>2 DEF Filters
<1>4. \A k \in Filters : GuardOK(guards'[k])
  BY <1>2 DEF GuardsInv
<1> QED
  BY <1>1, <1>2, <1>3, <1>4 DEF GuardsInv

\* A guard that is not enabled yet gets an array for all threads of the pool.
LEMMA MoreInstancesOK ==
    ASSUME NEW g, GuardOK(g), ~g.mt_enabled, NEW n \in 1 .. MaxThreads, NEW h,
           h = MoreInstances(g, n)
    PROVE  /\ GuardOK(h) /\ DOMAIN h.mutex = 0 .. n - 1
           /\ h.mode = g.mode /\ h.mt_enabled = g.mt_enabled
<1> DEFINE m == [i \in 0 .. n - 1 |-> Nobody]
<1>1. m \in Mutexes /\ DOMAIN m = 0 .. n - 1
  <2>1. m \in [0 .. n - 1 -> Owner]
    BY DEF Owner
  <2> QED
    BY <2>1 DEF Mutexes
<1> HIDE DEF m
<1>2. g \in GuardRecords /\ h = [g EXCEPT !.mutex = m] /\ g.nThreads = 1
  BY DEF MoreInstances, GuardOK, m
<1>3. /\ h \in GuardRecords /\ h.mutex = m /\ h.mode = g.mode /\ h.nThreads = g.nThreads
      /\ h.mt_enabled = g.mt_enabled /\ h.need = g.need
  BY <1>1, <1>2 DEF GuardRecords
<1>4. 0 .. h.nThreads - 1 \subseteq DOMAIN h.mutex
  BY <1>1, <1>2, <1>3
<1> QED
  BY <1>1, <1>3, <1>4 DEF GuardOK

\* Where Prefetch is.
LEMMA PrefetchFacts ==
    ASSUME MTInv, script.at # "script"
    PROVE  /\ script \in ScriptRecords /\ script.guard \in Filters /\ script.guard \in Nat \ {0}
           /\ script.nThreads \in 1 .. MaxThreads /\ script.nThreads \in Nat
           /\ nTotalThreads \in 1 .. MaxThreads /\ nTotalThreads - script.nThreads >= 1
           /\ nTotalThreads \in Nat /\ Len(guards) \in Nat
           /\ GuardOK(guards[script.guard]) /\ invoke_stack = <<>>
<1>1. /\ script \in ScriptRecords /\ script.guard \in Filters
      /\ script.nThreads \in 1 .. MaxThreads
      /\ nTotalThreads \in 1 .. MaxThreads /\ nTotalThreads - script.nThreads >= 1
  BY DEF MTInv, ScriptInv
<1>2. Len(guards) \in Nat /\ GuardOK(guards[script.guard])
  BY <1>1 DEF MTInv, GuardsInv
<1>3. script # InScript
  BY DEF InScript
<1>4. invoke_stack = <<>>
  BY <1>3 DEF MTInv, StackInv
<1> QED
  BY <1>1, <1>2, <1>4, MTGuardAssumption DEF Filters

\* EnableMT replaces the array of a guard that no request is on.
LEMMA NobodyOnGuard ==
    ASSUME MTInv, ~Inside(Main), NEW f, ~guards[f].mt_enabled, NEW t \in ThreadIds,
           NEW i \in 1 .. Len(calls[t])
    PROVE  calls[t][i].filter # f
<1>1. t # Main
  BY DEF Inside
<1> QED
  BY <1>1, OnlyMainBeforeEnabled DEF MTInv

LEMMA EnableMTKeeps ==
    ASSUME MTInv, EnableMT
    PROVE  MTInv'
<1> DEFINE f == script.guard
           g == guards[f]
           n == script.nThreads
           more == ~g.mt_enabled /\ n > 1 /\ g.mode = "MULTI"
<1>1. /\ script.at = "enable" /\ ~Inside(Main) /\ script' = [script EXCEPT !.at = "enabled"]
      /\ guards' = IF more THEN [guards EXCEPT ![f] = MoreInstances(g, n)] ELSE guards
      /\ UNCHANGED <<pools, nTotalThreads, invoke_stack, calls>>
  BY DEF EnableMT
<1>2. /\ script \in ScriptRecords /\ f \in Filters /\ f \in Nat \ {0} /\ n \in 1 .. MaxThreads
      /\ n \in Nat /\ nTotalThreads \in 1 .. MaxThreads /\ nTotalThreads - n >= 1
      /\ nTotalThreads \in Nat /\ Len(guards) \in Nat /\ GuardOK(g) /\ invoke_stack = <<>>
  BY <1>1, PrefetchFacts
<1>3. script' \in ScriptRecords /\ script'.at = "enabled" /\ script'.guard = f /\ script'.nThreads = n
  BY <1>1, <1>2 DEF ScriptRecords
<1>4. GuardsInv /\ PoolsInv /\ CallsInv
  BY DEF MTInv
<1>5. /\ GuardsInv' /\ Len(guards') = Len(guards) /\ Filters' = Filters
      /\ guards'[f].mode = g.mode /\ guards'[f].mt_enabled = g.mt_enabled
      /\ \A k \in Filters : k # f => guards'[k] = guards[k]
      /\ more => DOMAIN guards'[f].mutex = 0 .. n - 1
      /\ ~more => guards' = guards
  <2>1. CASE more
    <3> DEFINE h == MoreInstances(g, n)
    <3>1. GuardOK(h) /\ DOMAIN h.mutex = 0 .. n - 1 /\ h.mode = g.mode /\ h.mt_enabled = g.mt_enabled
      BY <1>2, <2>1, MoreInstancesOK
    <3>2. guards' = [guards EXCEPT ![f] = h]
      BY <1>1, <2>1
    <3> HIDE DEF h
    <3>3. /\ GuardsInv' /\ Len(guards') = Len(guards) /\ Filters' = Filters /\ guards'[f] = h
          /\ \A k \in Filters : k # f => guards'[k] = guards[k]
      BY <1>2, <1>4, <3>1, <3>2, ReplaceGuard
    <3> QED
      BY <2>1, <3>1, <3>3
  <2>2. CASE ~more
    BY <1>1, <1>4, <2>2 DEF GuardsInv, Filters
  <2> QED
    BY <2>1, <2>2
<1> HIDE DEF f, n
<1>6. StackInv'
  BY <1>1, <1>2, <1>5 DEF MTInv, StackInv
<1>7. \A k \in Filters : guards'[k].mt_enabled = guards[k].mt_enabled
  BY <1>5
<1>8. PoolsInv'
  <2>1. \A i \in 1 .. Len(pools) : pools[i].filter <= Len(guards')
    BY <1>2, <1>4, <1>5 DEF PoolsInv, Filters
  <2>2. nTotalThreads' \in Nat /\ nTotalThreads' >= nTotalThreads /\ pools' = pools
        /\ Len(guards') \in Nat
    BY <1>1, <1>2, <1>5
  <2> QED
    BY <1>2, <1>4, <1>7, <2>1, <2>2, PoolsKeep
<1>9. ScriptInv'
  <2>1. \A k \in 1 .. f - 1 : guards'[k].mt_enabled
    <3>1. \A k \in 1 .. f - 1 : guards[k].mt_enabled /\ k \in Filters
      BY <1>1, <1>2 DEF MTInv, ScriptInv, Filters, f
    <3> QED
      BY <1>7, <3>1
  <2>2. ~guards'[f].mt_enabled /\ guards'[f].mode = "MULTI" => 0 .. n - 1 \subseteq DOMAIN guards'[f].mutex
    <3>1. CASE more
      BY <1>5, <3>1
    <3>2. CASE ~more /\ ~g.mt_enabled /\ g.mode = "MULTI"
      <4>1. n = 1 /\ guards' = guards
        BY <1>2, <1>5, <3>2
      <4> QED
        BY <1>2, <3>2, <4>1 DEF GuardOK
    <3> QED
      BY <1>5, <3>1, <3>2
  <2>3. f \in Filters' /\ n \in 1 .. MaxThreads /\ nTotalThreads' - n >= 1
        /\ nTotalThreads' \in 1 .. MaxThreads
    BY <1>1, <1>2, <1>5
  <2> QED
    BY <1>3, <2>1, <2>2, <2>3 DEF ScriptInv
<1>10. CallsInv'
  <2>1. \A t \in ThreadIds : FromPool(pools', calls[t], t)
    BY <1>1, <1>4 DEF CallsInv
  <2>2. ASSUME NEW t \in ThreadIds, NEW i \in 1 .. Len(calls[t])
        PROVE  StaysIn(guards', calls[t][i].filter)
    <3>1. calls[t][i].filter \in Filters
      BY <1>4, CallFacts DEF CallOK, Filters
    <3>2. more => calls[t][i].filter # f
      BY <1>1, NobodyOnGuard
    <3> QED
      BY <1>5, <3>1, <3>2 DEF StaysIn, Filters
  <2> QED
    BY <1>1, <1>4, <2>1, <2>2, CallsStay
<1> QED
  BY <1>5, <1>6, <1>8, <1>9, <1>10 DEF MTInv

\* EnableMT's last statement spreads requests over instances that exist.
LEMMA MTEnabledKeeps ==
    ASSUME MTInv, MTEnabled
    PROVE  MTInv'
<1> DEFINE f == script.guard
           g == guards[f]
           n == script.nThreads
           m == IF g.nThreads < n THEN n ELSE g.nThreads
           h == [g EXCEPT !.nThreads = m, !.mt_enabled = TRUE]
<1>1. /\ script.at = "enabled"
      /\ guards' = IF g.mt_enabled THEN guards ELSE [guards EXCEPT ![f] = h]
      /\ script' = IF f < Len(guards) THEN [script EXCEPT !.at = "enable", !.guard = f + 1]
                   ELSE [script EXCEPT !.at = "pool"]
      /\ UNCHANGED <<pools, nTotalThreads, invoke_stack, calls>>
  BY DEF MTEnabled
<1>2. /\ script \in ScriptRecords /\ f \in Filters /\ f \in Nat \ {0} /\ n \in 1 .. MaxThreads
      /\ n \in Nat /\ nTotalThreads \in 1 .. MaxThreads /\ nTotalThreads - n >= 1
      /\ nTotalThreads \in Nat /\ Len(guards) \in Nat /\ GuardOK(g) /\ invoke_stack = <<>>
  BY <1>1, PrefetchFacts
<1>3. GuardsInv /\ PoolsInv /\ CallsInv
  BY DEF MTInv
<1>4. \A k \in 1 .. f - 1 : guards[k].mt_enabled /\ k \in Filters
  BY <1>1, <1>2 DEF MTInv, ScriptInv, Filters
<1>5. /\ GuardsInv' /\ Len(guards') = Len(guards) /\ Filters' = Filters
      /\ guards'[f].mode = g.mode /\ guards'[f].mt_enabled /\ guards'[f].mutex = g.mutex
      /\ \A k \in Filters : k # f => guards'[k] = guards[k]
  <2>1. CASE ~g.mt_enabled
    <3>0. g \in GuardRecords /\ g.nThreads = 1 /\ m = n
      BY <1>2, <2>1 DEF GuardOK
    <3> HIDE DEF m
    <3>1. /\ h \in GuardRecords /\ h.nThreads = n /\ h.mt_enabled = TRUE /\ h.mode = g.mode
          /\ h.mutex = g.mutex /\ h.need = g.need
      BY <1>2, <3>0 DEF GuardRecords
    <3>2. g.mode = "MULTI" => 0 .. n - 1 \subseteq DOMAIN g.mutex
      BY <1>1, <2>1 DEF MTInv, ScriptInv
    <3>3. guards' = [guards EXCEPT ![f] = h]
      BY <1>1, <2>1
    <3> HIDE DEF h
    <3>4. GuardOK(h)
      BY <1>2, <3>1, <3>2 DEF GuardOK
    <3>5. /\ GuardsInv' /\ Len(guards') = Len(guards) /\ Filters' = Filters /\ guards'[f] = h
          /\ \A k \in Filters : k # f => guards'[k] = guards[k]
      BY <1>2, <1>3, <3>3, <3>4, ReplaceGuard
    <3> QED
      BY <3>1, <3>5
  <2>2. CASE g.mt_enabled
    BY <1>1, <1>3, <2>2 DEF GuardsInv, Filters
  <2> QED
    BY <2>1, <2>2
<1>6. /\ script' \in ScriptRecords /\ script'.nThreads = n
      /\ \/ /\ script'.at = "enable" /\ script'.guard = f + 1 /\ f < Len(guards)
         \/ script'.at = "pool" /\ script'.guard = f /\ f = Len(guards)
  <2>1. CASE f < Len(guards)
    <3>1. script' = [script EXCEPT !.at = "enable", !.guard = f + 1]
      BY <1>1, <2>1
    <3>2. f + 1 \in Nat
      BY <1>2
    <3>3. /\ script' \in ScriptRecords /\ script'.nThreads = n
          /\ script'.at = "enable" /\ script'.guard = f + 1
      BY <1>2, <3>1, <3>2 DEF ScriptRecords
    <3> QED
      BY <2>1, <3>3
  <2>2. CASE ~(f < Len(guards))
    <3>1. f = Len(guards)
      BY <1>2, <2>2 DEF Filters
    <3> QED
      BY <1>1, <1>2, <2>2, <3>1 DEF ScriptRecords
  <2> QED
    BY <2>1, <2>2
<1> HIDE DEF f, n, h, m
<1>7. StackInv'
  BY <1>1, <1>2, <1>5 DEF MTInv, StackInv
<1>8. PoolsInv'
  <2>1. \A i \in 1 .. Len(pools) : pools[i].filter <= Len(guards')
    BY <1>2, <1>3, <1>5 DEF PoolsInv, Filters
  <2>2. nTotalThreads' \in Nat /\ nTotalThreads' >= nTotalThreads /\ pools' = pools
        /\ Len(guards') \in Nat
    BY <1>1, <1>2, <1>5
  <2>3. \A k \in Filters : k <= Len(guards') /\ guards[k].mt_enabled => guards'[k].mt_enabled
    BY <1>5
  <2> QED
    BY <1>2, <1>3, <2>1, <2>2, <2>3, PoolsKeep
<1>9. \A k \in 1 .. f : guards'[k].mt_enabled
  <2>1. \A k \in 1 .. f - 1 : guards'[k].mt_enabled
    BY <1>2, <1>4, <1>5
  <2> QED
    BY <1>2, <1>5, <2>1
<1>10. ScriptInv'
  <2>1. nTotalThreads' \in 1 .. MaxThreads /\ nTotalThreads' - n >= 1 /\ nTotalThreads' = nTotalThreads
    BY <1>1, <1>2
  <2>2. CASE script'.at = "enable" /\ script'.guard = f + 1 /\ f < Len(guards)
    <3>1. f + 1 \in Filters' /\ (f + 1) - 1 = f
      BY <1>2, <1>5, <2>2 DEF Filters
    <3> QED
      BY <1>2, <1>6, <1>9, <2>1, <2>2, <3>1 DEF ScriptInv
  <2>3. CASE script'.at = "pool" /\ script'.guard = f /\ f = Len(guards)
    <3>1. Filters' = 1 .. f
      BY <1>5, <2>3 DEF Filters
    <3> QED
      BY <1>2, <1>5, <1>6, <1>9, <2>1, <2>3, <3>1 DEF ScriptInv
  <2> QED
    BY <1>6, <2>2, <2>3
<1>11. CallsInv'
  <2>1. \A t \in ThreadIds : FromPool(pools', calls[t], t)
    BY <1>1, <1>3 DEF CallsInv
  <2>2. ASSUME NEW t \in ThreadIds, NEW i \in 1 .. Len(calls[t])
        PROVE  StaysIn(guards', calls[t][i].filter)
    <3>1. calls[t][i].filter \in Filters
      BY <1>3, CallFacts DEF CallOK, Filters
    <3> QED
      BY <1>5, <3>1 DEF StaysIn, Filters
  <2> QED
    BY <1>1, <1>3, <2>1, <2>2, CallsStay
<1> QED
  BY <1>5, <1>7, <1>8, <1>10, <1>11 DEF MTInv

\* A pool starts when the walk is over: all guards below it are enabled.
LEMMA PoolStartsKeeps ==
    ASSUME MTInv, PoolStarts
    PROVE  MTInv'
<1> DEFINE p == [filter |-> Len(guards), first |-> nTotalThreads - script.nThreads,
                 size |-> script.nThreads]
           k == Len(pools)
<1>1. /\ script.at = "pool" /\ pools' = Append(pools, p) /\ script' = InScript
      /\ UNCHANGED <<guards, nTotalThreads, invoke_stack, calls>>
  BY DEF PoolStarts
<1>2. /\ script.guard \in Filters /\ script.nThreads \in Nat
      /\ nTotalThreads \in 1 .. MaxThreads /\ nTotalThreads - script.nThreads >= 1
      /\ nTotalThreads \in Nat /\ Len(guards) \in Nat /\ invoke_stack = <<>>
  BY <1>1, PrefetchFacts
<1>3. \A f \in Filters : guards[f].mt_enabled
  BY <1>1 DEF MTInv, ScriptInv
<1>4. /\ p \in PoolRecords /\ p.filter = Len(guards) /\ p.filter \in Filters
      /\ p.first >= 1 /\ p.first + p.size <= nTotalThreads
  BY <1>2 DEF PoolRecords, Filters
<1>5. PoolsInv /\ pools \in Seq(PoolRecords) /\ k \in Nat
  BY DEF MTInv, PoolsInv
<1> HIDE DEF p
<1>6. /\ pools' \in Seq(PoolRecords) /\ Len(pools') = k + 1
      /\ pools'[k + 1] = p /\ \A i \in 1 .. k : pools'[i] = pools[i]
  BY <1>1, <1>4, <1>5
<1>7. GuardsInv' /\ StackInv' /\ Filters' = Filters
  BY <1>1, <1>2 DEF MTInv, GuardsInv, StackInv, Filters
<1>8. ScriptInv'
  BY <1>1, <1>2 DEF ScriptInv, InScript, ScriptRecords
<1>9. PoolsInv'
  <2>1. ASSUME NEW i \in 1 .. k
        PROVE  /\ pools'[i].first >= 1 /\ pools'[i].first + pools'[i].size <= nTotalThreads'
               /\ pools'[i].filter \in Filters'
               /\ \A f \in 1 .. pools'[i].filter : guards'[f].mt_enabled
    BY <1>1, <1>5, <1>6, <1>7 DEF PoolsInv
  <2>2. /\ pools'[k + 1].first >= 1 /\ pools'[k + 1].first + pools'[k + 1].size <= nTotalThreads'
        /\ pools'[k + 1].filter \in Filters'
        /\ \A f \in 1 .. pools'[k + 1].filter : guards'[f].mt_enabled
    <3>1. \A f \in 1 .. p.filter : guards'[f].mt_enabled
      BY <1>1, <1>3, <1>4 DEF Filters
    <3> QED
      BY <1>1, <1>4, <1>6, <1>7, <3>1
  <2>3. ASSUME NEW i \in 1 .. k, NEW j \in 1 .. k, i < j
        PROVE  pools'[i].filter <= pools'[j].filter
    BY <1>5, <1>6, <2>3 DEF PoolsInv
  <2>4. ASSUME NEW i \in 1 .. k
        PROVE  pools'[i].filter <= pools'[k + 1].filter
    BY <1>2, <1>4, <1>5, <1>6 DEF PoolsInv, Filters
  <2>5. \A i \in 1 .. k + 1 :
          /\ pools'[i].first >= 1 /\ pools'[i].first + pools'[i].size <= nTotalThreads'
          /\ pools'[i].filter \in Filters'
          /\ \A f \in 1 .. pools'[i].filter : guards'[f].mt_enabled
    BY <1>5, <2>1, <2>2
  <2>6. \A i, j \in 1 .. k + 1 : i < j => pools'[i].filter <= pools'[j].filter
    BY <1>5, <2>3, <2>4
  <2> QED
    BY <1>6, <2>5, <2>6 DEF PoolsInv
<1>10. CallsInv'
  <2>1. ASSUME NEW t \in ThreadIds PROVE FromPool(pools', calls[t], t)
    <3>1. FromPool(pools, calls[t], t)
      BY DEF MTInv, CallsInv
    <3>2. \A i \in 1 .. k : i \in 1 .. k + 1
      BY <1>5
    <3> QED
      BY <1>5, <1>6, <3>1, <3>2 DEF FromPool
  <2> QED
    BY <1>1, <2>1 DEF MTInv, CallsInv
<1> QED
  BY <1>7, <1>8, <1>9, <1>10 DEF MTInv

\* A pool whose threads have left, or a guard that no pool stands behind, goes
\* away.
LEMMA ReleaseClipKeeps ==
    ASSUME MTInv, ReleaseClip
    PROVE  MTInv'
<1> DEFINE k == Len(pools)
<1>1. /\ ~Inside(Main) /\ script = InScript /\ invoke_stack = <<>>
      /\ UNCHANGED <<nTotalThreads, script, invoke_stack, calls>>
  BY DEF ReleaseClip
<1>2. /\ GuardsInv /\ PoolsInv /\ CallsInv /\ guards \in Seq(GuardRecords) /\ Len(guards) \in Nat
      /\ pools \in Seq(PoolRecords) /\ k \in Nat
      /\ nTotalThreads \in 1 .. MaxThreads /\ nTotalThreads \in Nat
  BY MTGuardAssumption DEF MTInv, GuardsInv, PoolsInv, ScriptInv
<1>3. CASE /\ pools # <<>> /\ \A t \in Threads(Last(pools)) : ~Inside(t)
           /\ pools' = Front(pools) /\ guards' = guards
  <2>1. /\ k \in Nat \ {0} /\ pools' \in Seq(PoolRecords) /\ Len(pools') = k - 1
        /\ \A i \in 1 .. k - 1 : pools'[i] = pools[i] /\ i \in 1 .. k
        /\ Last(pools) = pools[k]
    <3>1. /\ k \in Nat \ {0} /\ pools' \in Seq(PoolRecords) /\ Len(pools') = k - 1
          /\ \A i \in 1 .. k - 1 : pools'[i] = pools[i]
          /\ Last(pools) = pools[k]
      BY <1>2, <1>3, FrontLast
    <3> QED
      BY <3>1
  <2>2. GuardsInv' /\ StackInv' /\ ScriptInv' /\ Filters' = Filters
    BY <1>1, <1>3 DEF MTInv, GuardsInv, StackInv, ScriptInv, Filters
  <2>3. PoolsInv'
    BY <1>1, <1>2, <1>3, <2>1, <2>2 DEF PoolsInv
  <2>4. ASSUME NEW t \in ThreadIds PROVE FromPool(pools', calls[t], t)
    <3> SUFFICES ASSUME t # Main, calls[t] # <<>>
                 PROVE  \E p \in 1 .. k - 1 : /\ t \in Threads(pools'[p])
                                              /\ \A i \in 1 .. Len(calls[t]) : calls[t][i].filter <= pools'[p].filter
      BY <2>1 DEF FromPool
    <3>1. PICK p \in 1 .. k : /\ t \in Threads(pools[p])
                              /\ \A i \in 1 .. Len(calls[t]) : calls[t][i].filter <= pools[p].filter
      BY <1>2 DEF CallsInv, FromPool
    <3>2. p # k
      BY <1>3, <2>1, <3>1 DEF Inside
    <3>3. p \in 1 .. k - 1
      BY <1>2, <3>2
    <3> QED
      BY <2>1, <3>1, <3>3
  <2>5. CallsInv'
    BY <1>1, <1>2, <1>3, <2>4 DEF CallsInv
  <2> QED
    BY <2>2, <2>3, <2>5 DEF MTInv
<1>4. CASE /\ guards # <<>> /\ (pools # <<>> => Last(pools).filter < Len(guards))
           /\ guards' = Front(guards) /\ pools' = pools
  <2>1. /\ Len(guards) \in Nat \ {0} /\ guards' \in Seq(GuardRecords) /\ Len(guards') = Len(guards) - 1
        /\ \A f \in 1 .. Len(guards) - 1 : guards'[f] = guards[f]
    BY <1>2, <1>4, FrontLast
  <2>2. \A f \in 1 .. Len(guards) - 1 : f \in Filters
    BY <1>2 DEF Filters
  <2>3. GuardsInv'
    <3>1. \A f \in 1 .. Len(guards) - 1 : GuardOK(guards'[f])
      BY <1>2, <2>1, <2>2 DEF GuardsInv
    <3>2. Len(guards') <= MaxFilters
      BY <1>2, <2>1, MTGuardAssumption DEF GuardsInv
    <3> QED
      BY <2>1, <3>1, <3>2 DEF GuardsInv, Filters
  <2>4. StackInv' /\ ScriptInv'
    BY <1>1 DEF MTInv, StackInv, ScriptInv, InScript
  <2>5. ASSUME NEW i \in 1 .. k
        PROVE  /\ pools[i].filter \in Nat /\ pools[i].filter >= 1
               /\ pools[i].filter <= Len(guards) - 1
    <3>1. pools # <<>> /\ k \in 1 .. k /\ Last(pools) = pools[k]
      BY <1>2 DEF Last
    <3>2. \A j \in 1 .. k : pools[j].filter \in Nat /\ pools[j].filter >= 1
      BY <1>2 DEF PoolsInv, Filters
    <3>3. pools[k].filter < Len(guards)
      BY <1>4, <3>1
    <3>4. i < k => pools[i].filter <= pools[k].filter
      BY <1>2, <3>1 DEF PoolsInv
    <3> QED
      BY <1>2, <3>1, <3>2, <3>3, <3>4
  <2>6. PoolsInv'
    <3>1. \A i \in 1 .. k : pools[i].filter <= Len(guards')
      BY <2>1, <2>5
    <3>2. nTotalThreads' \in Nat /\ nTotalThreads' >= nTotalThreads /\ Len(guards') \in Nat
      BY <1>1, <1>2, <2>1
    <3>3. \A f \in Filters : f <= Len(guards') /\ guards[f].mt_enabled => guards'[f].mt_enabled
      BY <1>2, <2>1 DEF Filters
    <3> QED
      BY <1>2, <1>4, <3>1, <3>2, <3>3, PoolsKeep
  <2>7. CallsInv'
    <3>1. \A t \in ThreadIds : FromPool(pools', calls[t], t)
      BY <1>2, <1>4 DEF CallsInv
    <3>2. ASSUME NEW t \in ThreadIds, NEW i \in 1 .. Len(calls[t])
          PROVE  StaysIn(guards', calls[t][i].filter)
      <4>1. calls[t] # <<>> /\ calls[t][i] \in CallRecords
        BY <1>2, CallFacts
      <4>2. t # Main
        BY <1>1, <4>1 DEF Inside
      <4>3. PICK p \in 1 .. k : calls[t][i].filter <= pools[p].filter
        BY <1>2, <4>1, <4>2, CallFacts DEF FromPool
      <4>4. calls[t][i].filter \in Nat /\ calls[t][i].filter >= 1
        BY <4>1 DEF CallRecords
      <4>5. calls[t][i].filter \in 1 .. Len(guards) - 1
        BY <1>2, <2>5, <4>3, <4>4
      <4> QED
        BY <2>1, <4>5 DEF StaysIn
    <3> QED
      BY <1>1, <1>2, <3>1, <3>2, CallsStay
  <2> QED
    BY <2>3, <2>4, <2>6, <2>7 DEF MTInv
<1> QED
  BY <1>3, <1>4 DEF ReleaseClip

-------------------------------------------------------------------------------
(* Theorems                                                                *)

LEMMA InitMTInv == Init => MTInv
<1> SUFFICES ASSUME Init PROVE MTInv
  OBVIOUS
<1>1. GuardsInv
  BY MTGuardAssumption DEF Init, GuardsInv, Filters
<1>2. StackInv
  BY MTGuardAssumption DEF Init, StackInv
<1>3. PoolsInv
  BY DEF Init, PoolsInv
<1>4. ScriptInv
  BY MTGuardAssumption DEF Init, ScriptInv, InScript, ScriptRecords
<1>5. CallsInv
  BY DEF Init, CallsInv, CallsOK, FromPool
<1> QED
  BY <1>1, <1>2, <1>3, <1>4, <1>5 DEF MTInv

LEMMA NextMTInv == MTInv /\ [Next]_vars => MTInv'
<1> SUFFICES ASSUME MTInv, [Next]_vars PROVE MTInv'
  OBVIOUS
<1>1. CASE UNCHANGED vars
  <2>1. GuardsInv' /\ StackInv' /\ PoolsInv' /\ ScriptInv' /\ CallsInv'
    BY <1>1 DEF vars, MTInv, GuardsInv, StackInv, PoolsInv, ScriptInv, CallsInv, Filters
  <2> QED
    BY <2>1 DEF MTInv
<1>2. CASE \E mode \in Modes, origin \in Origins, chained \in Modes \cup {"NICE"} :
               Invoke(mode, origin, chained)
  BY <1>2, InvokeKeeps
<1>3. CASE InvokeReturns
  BY <1>3, InvokeReturnsKeeps
<1>4. CASE InvokeThrows
  BY <1>4, InvokeThrowsKeeps
<1>5. CASE \E n \in PoolSizes : Prefetch(n)
  BY <1>5, PrefetchKeeps
<1>6. CASE EnableMT
  BY <1>6, EnableMTKeeps
<1>7. CASE MTEnabled
  BY <1>7, MTEnabledKeeps
<1>8. CASE PoolStarts
  BY <1>8, PoolStartsKeeps
<1>9. CASE ReleaseClip
  BY <1>9, ReleaseClipKeeps
<1>10. CASE RequestByMain
  BY <1>10, RequestByMainKeeps
<1>11. ASSUME NEW t \in ThreadIds, RequestByPool(t) PROVE MTInv'
  BY <1>11, RequestByPoolKeeps
<1>12. ASSUME NEW t \in ThreadIds, CallStep(t) PROVE MTInv'
  BY <1>12, LockKeeps, DescendKeeps, NewVideoFrameKeeps, ReturnKeeps DEF CallStep
<1> QED
  BY <1>1, <1>2, <1>3, <1>4, <1>5, <1>6, <1>7, <1>8, <1>9, <1>10, <1>11, <1>12 DEF Next

LEMMA MTInvHolds == Spec => []MTInv
BY InitMTInv, NextMTInv, PTL DEF Spec

\* For every instance there is one mutex, and whoever is past the lock owns it.
LEMMA OneUser ==
    ASSUME MTInv, NEW f \in Filters, NEW i \in DOMAIN guards[f].mutex, guards[f].mode # "NICE"
    PROVE  Cardinality(Users(f, i)) <= 1
<1>1. ASSUME NEW t \in Users(f, i)
      PROVE  t = guards[f].mutex[i]
  <2>1. PICK c \in ToSet(calls[t]) : c.filter = f /\ c.slot = i /\ c.at # "lock"
    BY DEF Users
  <2>2. t \in ThreadIds /\ CallsInv
    BY DEF Users, MTInv
  <2>3. PICK j \in 1 .. Len(calls[t]) : c = calls[t][j]
    BY <2>2, CallFacts, Elements
  <2>4. CallOK(guards, c, t)
    BY <2>2, <2>3, CallFacts
  <2> QED
    BY <2>1, <2>4 DEF CallOK
<1>2. CASE Users(f, i) = {}
  BY <1>2, FS_EmptySet
<1>3. CASE Users(f, i) # {}
  <2>1. Users(f, i) = {guards[f].mutex[i]}
    BY <1>1, <1>3
  <2>2. Cardinality({guards[f].mutex[i]}) = 1
    BY FS_Singleton
  <2> QED
    BY <2>1, <2>2
<1> QED
  BY <1>2, <1>3

LEMMA TypeFromMTInv == MTInv => TypeOK
<1> SUFFICES ASSUME MTInv PROVE TypeOK
  OBVIOUS
<1>1. ASSUME NEW f \in Filters
      PROVE  /\ guards[f].mode \in {"NICE", "MULTI", "SERIALIZED"}
             /\ guards[f].nThreads \in 1 .. MaxThreads /\ guards[f].mt_enabled \in BOOLEAN
             /\ \E n \in 1 .. MaxThreads : guards[f].mutex \in [0 .. n - 1 -> ThreadIds \cup {Nobody}]
  <2>1. guards[f] \in GuardRecords
    BY DEF MTInv, GuardsInv, GuardOK
  <2>2. PICK n \in 1 .. MaxThreads : guards[f].mutex \in [0 .. n - 1 -> Owner]
    BY <2>1, Instances
  <2>3. guards[f].mutex \in [0 .. n - 1 -> ThreadIds \cup {Nobody}]
    BY <2>2 DEF Owner
  <2> QED
    BY <2>1, <2>3 DEF GuardRecords, AllModes
<1>2. Len(guards) <= MaxFilters /\ Len(invoke_stack) <= MaxDepth
  BY DEF MTInv, GuardsInv, StackInv
<1>3. nTotalThreads \in 1 .. MaxThreads /\ script.at \in {"script", "enable", "enabled", "pool"}
  BY DEF MTInv, ScriptInv, ScriptRecords
<1>4. \A t \in ThreadIds : calls[t] \in Seq(CallRecords)
  BY DEF MTInv, CallsInv
<1> QED
  BY <1>1, <1>2, <1>3, <1>4 DEF TypeOK

\* However many pools there are, and while Prefetch rebuilds the guards one
\* after the other, every request is on an instance that exists and a filter
\* that is not NICE is entered by one thread at a time.
THEOREM GuardIsExclusive == Spec => []OneThreadPerInstance
<1>1. MTInv => OneThreadPerInstance
  <2> SUFFICES ASSUME MTInv PROVE OneThreadPerInstance
    OBVIOUS
  <2>1. ASSUME NEW t \in ThreadIds, NEW c \in ToSet(calls[t])
        PROVE  c.filter \in Filters /\ c.slot \in DOMAIN guards[c.filter].mutex
    <3>1. CallsInv
      BY DEF MTInv
    <3>2. PICK j \in 1 .. Len(calls[t]) : c = calls[t][j]
      BY <3>1, CallFacts, Elements
    <3>3. CallOK(guards, c, t)
      BY <3>1, <3>2, CallFacts
    <3> QED
      BY <3>3 DEF CallOK, Filters
  <2> QED
    BY <2>1, TypeFromMTInv, OneUser DEF OneThreadPerInstance
<1> QED
  BY <1>1, MTInvHolds, PTL

\* However deep constructors invoke each other and whichever of them throw,
\* the guard of the outermost filter is as strict as the strictest of them.
THEOREM GuardIsStrictEnough == Spec => []ModeCoversInner
<1>1. MTInv => ModeCoversInner
  BY DEF MTInv, GuardsInv, GuardOK, ModeCoversInner
<1> QED
  BY <1>1, MTInvHolds, PTL

\* EnableMT is the only step that replaces arrays.
LEMMA ArraysStay ==
    ASSUME MTInv, [Next]_vars, ~EnableMT, NEW f \in Filters, f \in 1 .. Len(guards')
    PROVE  DOMAIN guards'[f].mutex = DOMAIN guards[f].mutex
<1>1. GuardsInv /\ guards \in Seq(GuardRecords) /\ Len(guards) \in Nat
  BY DEF MTInv, GuardsInv
<1>2. CASE guards' = guards
  BY <1>2
<1>3. CASE InvokeReturns
  <2>1. CASE guards' # guards
    <3>1. PICK g : guards' = Append(guards, g)
      BY <1>3, <2>1 DEF InvokeReturns
    <3> QED
      BY <1>1, <3>1 DEF Filters
  <2> QED
    BY <2>1
<1>4. CASE MTEnabled
  <2>1. PICK n : guards' = guards \/
                 guards' = [guards EXCEPT ![script.guard].nThreads = n, ![script.guard].mt_enabled = TRUE]
    BY <1>4 DEF MTEnabled
  <2>2. script.guard \in Filters /\ guards[script.guard] \in GuardRecords
    BY <1>4, PrefetchFacts DEF MTEnabled, GuardOK
  <2>3. guards'[f].mutex = guards[f].mutex
    BY <1>1, <2>1, <2>2, SMTT(30) DEF Filters, GuardRecords
  <2> QED
    BY <2>3
<1>5. CASE ReleaseClip
  <2>1. CASE guards # <<>> /\ guards' = Front(guards)
    <3>1. Len(guards') = Len(guards) - 1 /\ \A k \in 1 .. Len(guards) - 1 : guards'[k] = guards[k]
      BY <1>1, <2>1, FrontLast
    <3> QED
      BY <3>1
  <2> QED
    BY <1>5, <2>1 DEF ReleaseClip
<1>6. ASSUME NEW t \in ThreadIds, Lock(t)
      PROVE  DOMAIN guards'[f].mutex = DOMAIN guards[f].mutex
  <2>1. guards' = SetOwner(guards, Top(t).filter, Top(t).slot, t)
    BY <1>6 DEF Lock, SetOwner
  <2>2. /\ Top(t).filter \in Filters /\ Top(t).slot \in DOMAIN guards[Top(t).filter].mutex
        /\ t \in Owner
    BY <1>6, TopFacts DEF Lock
  <2>3. Alike(guards, guards')
    BY <1>1, <2>1, <2>2, SetOwnerKeeps
  <2> QED
    BY <2>3 DEF Alike, Filters
<1>7. ASSUME NEW t \in ThreadIds, Return(t)
      PROVE  DOMAIN guards'[f].mutex = DOMAIN guards[f].mutex
  <2>1. guards' = guards \/ guards' = SetOwner(guards, Top(t).filter, Top(t).slot, Nobody)
    BY <1>7 DEF Return, SetOwner
  <2>2. /\ Top(t).filter \in Filters /\ Top(t).slot \in DOMAIN guards[Top(t).filter].mutex
        /\ Nobody \in Owner
    BY <1>7, TopFacts DEF Return
  <2>3. CASE guards' # guards
    <3>0. guards' = SetOwner(guards, Top(t).filter, Top(t).slot, Nobody)
      BY <2>1, <2>3
    <3>1. Alike(guards, guards')
      BY <1>1, <2>2, <3>0, SetOwnerKeeps
    <3> QED
      BY <3>1 DEF Alike, Filters
  <2> QED
    BY <2>3
<1>8. \/ guards' = guards \/ InvokeReturns \/ MTEnabled \/ ReleaseClip
      \/ \E t \in ThreadIds : Lock(t) \/ Return(t)
  BY DEF Next, CallStep, vars, Invoke, InvokeThrows, Prefetch, PoolStarts,
         RequestByMain, RequestByPool, Descend, NewVideoFrame
<1> QED
  BY <1>2, <1>3, <1>4, <1>5, <1>6, <1>7, <1>8

\* No array of instances is replaced under a request, with any number of
\* pools already running.
THEOREM ArrayIsNotInUse == Spec => ArrayNotInUse
<1>1. ASSUME MTInv, MTInv', [Next]_vars, NEW f \in Filters \cap 1 .. Len(guards'),
             DOMAIN guards'[f].mutex # DOMAIN guards[f].mutex,
             NEW t \in ThreadIds, NEW c \in ToSet(calls[t])
      PROVE  c.filter # f
  <2>1. CallsInv /\ GuardsInv
    BY <1>1 DEF MTInv
  <2>2. PICK j \in 1 .. Len(calls[t]) : c = calls[t][j]
    BY <2>1, CallFacts, Elements
  <2>3. CASE EnableMT
    <3>1. ~Inside(Main) /\ ~guards[f].mt_enabled
      <4>1. f = script.guard /\ ~guards[script.guard].mt_enabled
        <5>1. PICK h : guards' = guards \/ (~guards[script.guard].mt_enabled /\ guards' = [guards EXCEPT ![script.guard] = h])
          BY <2>3 DEF EnableMT
        <5>2. guards' # guards
          BY <1>1
        <5>3. f # script.guard => guards'[f] = guards[f]
          BY <2>1, <5>1, <5>2 DEF GuardsInv, Filters
        <5> QED
          BY <1>1, <5>1, <5>2, <5>3
      <4> QED
        BY <2>3, <4>1 DEF EnableMT
    <3> QED
      BY <1>1, <2>2, <3>1, NobodyOnGuard
  <2>4. CASE ~EnableMT
    BY <1>1, <2>4, ArraysStay
  <2> QED
    BY <2>3, <2>4
<1>2. MTInv /\ MTInv' /\ [Next]_vars
        => [\A f \in Filters \cap 1 .. Len(guards') :
              DOMAIN guards'[f].mutex # DOMAIN guards[f].mutex
                => \A t \in ThreadIds : \A c \in ToSet(calls[t]) : c.filter # f]_vars
  BY <1>1
<1> QED
  BY <1>2, MTInvHolds, PTL DEF Spec, ArrayNotInUse

-------------------------------------------------------------------------------
(* Nobody is stuck                                                         *)

\* A request in cs is past the lock of instance s of filter f.
Holds(cs, f, s) ==
    \E i \in 1 .. Len(cs) : cs[i].filter = f /\ cs[i].slot = s /\ cs[i].at # "lock"

\* Whoever owns an instance has a request on it, which will return it; and the
\* filters that are NICE are never locked.
OwnersInv ==
    /\ \A f \in Filters : \A s \in DOMAIN guards[f].mutex :
          guards[f].mutex[s] # Nobody =>
              guards[f].mode # "NICE" /\ Holds(calls[guards[f].mutex[s]], f, s)
    /\ \A t \in ThreadIds : \A i \in 1 .. Len(calls[t]) :
          calls[t][i].at = "lock" => guards[calls[t][i].filter].mode # "NICE"

\* The guards of a step of the script: as before, or with owners for none of
\* the instances.
ScriptKeeps(f) ==
    /\ f \in Filters => guards'[f].mode = guards[f].mode
    /\ \/ f \in Filters /\ guards'[f].mutex = guards[f].mutex
       \/ \A s \in DOMAIN guards'[f].mutex : guards'[f].mutex[s] = Nobody

LEMMA OwnersStay ==
    ASSUME MTInv, MTInv', OwnersInv, calls' = calls, \A f \in Filters' : ScriptKeeps(f)
    PROVE  OwnersInv'
<1>1. ASSUME NEW f \in Filters', NEW s \in DOMAIN guards'[f].mutex,
             guards'[f].mutex[s] # Nobody
      PROVE  guards'[f].mode # "NICE" /\ Holds(calls'[guards'[f].mutex[s]], f, s)
  <2>1. f \in Filters /\ guards'[f].mutex = guards[f].mutex /\ guards'[f].mode = guards[f].mode
    BY <1>1 DEF ScriptKeeps
  <2> QED
    BY <1>1, <2>1 DEF OwnersInv
<1>2. ASSUME NEW t \in ThreadIds, NEW i \in 1 .. Len(calls[t]), calls[t][i].at = "lock"
      PROVE  guards'[calls[t][i].filter].mode # "NICE"
  <2>1. CallsInv /\ CallsInv'
    BY DEF MTInv
  <2>2. CallOK(guards, calls[t][i], t)
    BY <2>1, CallFacts
  <2>3. CallOK(guards', calls[t][i], t)
    BY <2>1 DEF CallsInv, CallsOK, ThreadIds
  <2>4. calls[t][i].filter \in Filters /\ calls[t][i].filter \in Filters'
    BY <2>2, <2>3 DEF CallOK, Filters
  <2>5. guards'[calls[t][i].filter].mode = guards[calls[t][i].filter].mode
    BY <2>4 DEF ScriptKeeps
  <2> QED
    BY <1>2, <2>5 DEF OwnersInv
<1>3. ThreadIds' = ThreadIds /\ Nobody' = Nobody
  BY DEF ThreadIds, Nobody
<1> QED
  BY <1>1, <1>2, <1>3 DEF OwnersInv

\* A step of thread t that leaves instance s of filter f to its owner, or to t.
ThreadKeeps(t, cs, f, s) ==
    LET u == guards'[f].mutex[s]
    IN  u # Nobody =>
          \/ u = guards[f].mutex[s] /\ (u = t /\ Holds(calls[t], f, s) => Holds(cs, f, s))
          \/ u = t /\ guards[f].mode # "NICE" /\ Holds(cs, f, s)

LEMMA OwnersStep ==
    ASSUME MTInv, OwnersInv, NEW t \in ThreadIds, NEW cs, calls' = [calls EXCEPT ![t] = cs],
           Alike(guards, guards'),
           \A f \in Filters : \A s \in DOMAIN guards[f].mutex : ThreadKeeps(t, cs, f, s),
           \A i \in 1 .. Len(cs) : /\ cs[i].filter \in Filters
                                   /\ cs[i].at = "lock" => guards[cs[i].filter].mode # "NICE"
    PROVE  OwnersInv'
<1>1. Filters' = Filters
  BY DEF Alike, Filters
<1>2. \A f \in Filters : /\ guards'[f].mode = guards[f].mode
                         /\ DOMAIN guards'[f].mutex = DOMAIN guards[f].mutex
  BY DEF Alike, Filters
<1>3. calls \in [ThreadIds -> Seq(CallRecords)]
  BY DEF MTInv, CallsInv
<1>4. calls'[t] = cs /\ \A u \in ThreadIds : u # t => calls'[u] = calls[u]
  BY <1>3
<1>5. ASSUME NEW f \in Filters, NEW s \in DOMAIN guards[f].mutex, guards'[f].mutex[s] # Nobody
      PROVE  guards[f].mode # "NICE" /\ Holds(calls'[guards'[f].mutex[s]], f, s)
  <2> DEFINE u == guards'[f].mutex[s]
  <2>1. ThreadKeeps(t, cs, f, s)
    OBVIOUS
  <2>2. CASE u = t /\ guards[f].mode # "NICE" /\ Holds(cs, f, s)
    BY <1>4, <2>2
  <2>3. CASE u = guards[f].mutex[s] /\ (u = t /\ Holds(calls[t], f, s) => Holds(cs, f, s))
    <3>1. guards[f].mode # "NICE" /\ Holds(calls[u], f, s)
      BY <1>5, <2>3 DEF OwnersInv
    <3>2. u \in ThreadIds
      <4>1. guards[f] \in GuardRecords
        BY DEF MTInv, GuardsInv, GuardOK
      <4>2. u \in Owner
        BY <2>3, <4>1, Instances
      <4> QED
        BY <1>5, <4>2 DEF Owner
    <3>3. Holds(calls'[u], f, s)
      BY <1>4, <2>3, <3>1, <3>2
    <3> QED
      BY <3>1, <3>3
  <2> QED
    BY <1>5, <2>1, <2>2, <2>3 DEF ThreadKeeps
<1>6. ASSUME NEW u \in ThreadIds, NEW i \in 1 .. Len(calls'[u]), calls'[u][i].at = "lock"
      PROVE  guards'[calls'[u][i].filter].mode # "NICE"
  <2>1. CASE u = t
    BY <1>2, <1>4, <1>6, <2>1
  <2>2. CASE u # t
    <3>1. calls'[u] = calls[u]
      BY <1>4, <2>2
    <3>2. CallOK(guards, calls[u][i], u)
      BY <3>1, CallFacts DEF MTInv
    <3>3. calls[u][i].filter \in Filters
      BY <3>2 DEF CallOK, Filters
    <3>4. guards[calls[u][i].filter].mode # "NICE"
      BY <1>6, <3>1 DEF OwnersInv
    <3> QED
      BY <1>2, <3>1, <3>3, <3>4
  <2> QED
    BY <2>1, <2>2
<1>7. ThreadIds' = ThreadIds /\ Nobody' = Nobody
  BY DEF ThreadIds, Nobody
<1> QED
  BY <1>1, <1>2, <1>5, <1>6, <1>7 DEF OwnersInv

LEMMA AlikeItself == guards' = guards => Alike(guards, guards')
BY DEF Alike

\* A request starts at the lock, or inside a guard without one.
LEMMA RequestKeepsOwners ==
    ASSUME MTInv, OwnersInv, NEW t \in ThreadIds, RequestByPool(t) \/ (t = Main /\ RequestByMain)
    PROVE  OwnersInv'
<1>1. PICK f : calls' = [calls EXCEPT ![t] = <<Call(f, t)>>]
  BY DEF RequestByPool, RequestByMain
<1>2. guards' = guards /\ ~Inside(t)
  BY DEF RequestByPool, RequestByMain
<1> DEFINE cs == <<Call(f, t)>>
<1>3. f \in Filters
  <2>1. MTInv'
    BY RequestByPoolKeeps, RequestByMainKeeps
  <2>2. calls'[t] = cs
    BY <1>1 DEF MTInv, CallsInv
  <2>3. CallsOK(guards', calls'[t], t)
    BY <2>1 DEF MTInv, CallsInv, ThreadIds
  <2>4. Len(cs) = 1 /\ cs[1] = Call(f, t) /\ 1 \in 1 .. 1
    OBVIOUS
  <2>5. CallOK(guards', Call(f, t), t)
    BY <2>2, <2>3, <2>4 DEF CallsOK
  <2>6. Call(f, t).filter = f
    BY DEF Call
  <2> QED
    BY <1>2, <2>5, <2>6 DEF CallOK, Filters
<1>4. Call(f, t).filter = f /\ (Call(f, t).at = "lock" => guards[f].mode # "NICE")
  BY DEF Call
<1>5. \A i \in 1 .. Len(cs) : /\ cs[i].filter \in Filters
                              /\ cs[i].at = "lock" => guards[cs[i].filter].mode # "NICE"
  <2>1. Len(cs) = 1 /\ cs[1] = Call(f, t) /\ \A i \in 1 .. 1 : i = 1
    OBVIOUS
  <2> QED
    BY <1>3, <1>4, <2>1
<1>6. ASSUME NEW k \in Filters, NEW s \in DOMAIN guards[k].mutex
      PROVE  ThreadKeeps(t, cs, k, s)
  <2>1. ~Holds(calls[t], k, s)
    BY <1>2 DEF Holds, Inside
  <2> QED
    BY <1>2, <2>1 DEF ThreadKeeps
<1> QED
  BY <1>1, <1>2, <1>5, <1>6, AlikeItself, OwnersStep

\* Relabelling the innermost request keeps what the thread holds.
LEMMA RelabelHolds ==
    ASSUME NEW cs \in Seq(CallRecords), cs # <<>>, NEW label \in {"inside", "called", "done"},
           NEW f, NEW s, Holds(cs, f, s)
    PROVE  Holds(Relabel(cs, label), f, s)
<1> DEFINE cs2 == Relabel(cs, label)
<1>1. /\ Len(cs2) = Len(cs)
      /\ \A i \in 1 .. Len(cs) : /\ cs2[i].filter = cs[i].filter /\ cs2[i].slot = cs[i].slot
                                 /\ cs2[i].at = IF i = Len(cs) THEN label ELSE cs[i].at
  BY RelabelKeeps
<1> HIDE DEF cs2
<1>2. Holds(cs2, f, s)
  BY <1>1 DEF Holds
<1> QED
  BY <1>2 DEF cs2

LEMMA LockKeepsOwners ==
    ASSUME MTInv, OwnersInv, NEW t \in ThreadIds, Lock(t)
    PROVE  OwnersInv'
<1> DEFINE cs == calls[t]
           n == Len(cs)
           f == Top(t).filter
           s == Top(t).slot
           cs2 == Relabel(cs, "inside")
<1>1. GuardsInv /\ CallsInv /\ cs \in Seq(CallRecords) /\ cs # <<>>
  BY CallFacts DEF MTInv, Lock, Inside
<1>2. /\ n \in Nat \ {0} /\ Top(t) = cs[n] /\ f \in Filters /\ s \in DOMAIN guards[f].mutex
      /\ t \in Owner
  BY TopFacts DEF Lock
<1>3. /\ Len(cs2) = n
      /\ \A i \in 1 .. n : /\ cs2[i].filter = cs[i].filter /\ cs2[i].slot = cs[i].slot
                           /\ cs2[i].at = IF i = n THEN "inside" ELSE cs[i].at
  BY <1>1, RelabelKeeps
<1>4. guards' = SetOwner(guards, f, s, t) /\ cs[n].at = "lock"
  BY <1>2 DEF Lock, SetOwner
<1>5. calls' = [calls EXCEPT ![t] = cs2]
  BY DEF Lock, SetTop, Relabel
<1>6. guards[f].mode # "NICE"
  BY <1>2, <1>4 DEF OwnersInv
<1>7. /\ Alike(guards, guards') /\ \A k \in Filters : k # f => guards'[k] = guards[k]
      /\ \A r \in DOMAIN guards[f].mutex : guards'[f].mutex[r] = IF r = s THEN t ELSE guards[f].mutex[r]
  BY <1>1, <1>2, <1>4, SetOwnerKeeps, SMTT(30)
<1>8. Holds(cs2, f, s)
  BY <1>2, <1>3 DEF Holds
<1>9. ASSUME NEW i \in 1 .. Len(cs2)
      PROVE  cs2[i].filter \in Filters /\ (cs2[i].at = "lock" => guards[cs2[i].filter].mode # "NICE")
  <2>1. i \in 1 .. n /\ CallOK(guards, cs[i], t)
    BY <1>1, <1>3, CallFacts
  <2>2. cs[i].at = "lock" => guards[cs[i].filter].mode # "NICE"
    BY <2>1 DEF OwnersInv
  <2> QED
    BY <1>3, <2>1, <2>2 DEF CallOK, Filters
<1>10. ASSUME NEW k \in Filters, NEW r \in DOMAIN guards[k].mutex
       PROVE  ThreadKeeps(t, cs2, k, r)
  <2>1. Holds(calls[t], k, r) => Holds(cs2, k, r)
    BY <1>1, RelabelHolds
  <2> HIDE DEF cs2, f, s
  <2>2. CASE k = f /\ r = s
    BY <1>6, <1>7, <1>8, <2>2 DEF ThreadKeeps
  <2>3. CASE ~(k = f /\ r = s)
    <3>1. guards'[k].mutex[r] = guards[k].mutex[r]
      BY <1>7, <2>3
    <3> QED
      BY <2>1, <3>1 DEF ThreadKeeps
  <2> QED
    BY <2>2, <2>3
<1> HIDE DEF cs2
<1> QED
  BY <1>5, <1>7, <1>9, <1>10, OwnersStep

LEMMA NewVideoFrameKeepsOwners ==
    ASSUME MTInv, OwnersInv, NEW t \in ThreadIds, NewVideoFrame(t)
    PROVE  OwnersInv'
<1> DEFINE cs == calls[t]
           cs2 == Relabel(cs, "done")
<1>1. CallsInv /\ cs \in Seq(CallRecords) /\ cs # <<>> /\ guards' = guards
  BY CallFacts DEF MTInv, NewVideoFrame, Inside
<1>2. calls' = [calls EXCEPT ![t] = cs2]
  BY DEF NewVideoFrame, SetTop, Relabel
<1>3. /\ Len(cs2) = Len(cs)
      /\ \A i \in 1 .. Len(cs) : /\ cs2[i].filter = cs[i].filter /\ cs2[i].slot = cs[i].slot
                                 /\ cs2[i].at = IF i = Len(cs) THEN "done" ELSE cs[i].at
  BY <1>1, RelabelKeeps
<1>4. ASSUME NEW i \in 1 .. Len(cs2)
      PROVE  cs2[i].filter \in Filters /\ (cs2[i].at = "lock" => guards[cs2[i].filter].mode # "NICE")
  <2>1. i \in 1 .. Len(cs) /\ CallOK(guards, cs[i], t)
    BY <1>1, <1>3, CallFacts
  <2>2. cs[i].at = "lock" => guards[cs[i].filter].mode # "NICE"
    BY <2>1 DEF OwnersInv
  <2> QED
    BY <1>3, <2>1, <2>2 DEF CallOK, Filters
<1>5. ASSUME NEW k \in Filters, NEW r \in DOMAIN guards[k].mutex
      PROVE  ThreadKeeps(t, cs2, k, r)
  <2>1. Holds(calls[t], k, r) => Holds(cs2, k, r)
    BY <1>1, RelabelHolds
  <2> HIDE DEF cs2
  <2> QED
    BY <1>1, <2>1 DEF ThreadKeeps
<1> HIDE DEF cs2
<1> QED
  BY <1>1, <1>2, <1>4, <1>5, AlikeItself, OwnersStep

LEMMA DescendKeepsOwners ==
    ASSUME MTInv, OwnersInv, NEW t \in ThreadIds, Descend(t)
    PROVE  OwnersInv'
<1> DEFINE cs == calls[t]
           n == Len(cs)
           cs2 == Relabel(cs, "called")
           c == Call(Top(t).filter - 1, t)
           cs3 == Append(cs2, c)
<1>1. CallsInv /\ cs \in Seq(CallRecords) /\ cs # <<>> /\ guards' = guards /\ n \in Nat \ {0}
  BY CallFacts DEF MTInv, Descend, Inside
<1>2. calls' = [calls EXCEPT ![t] = cs3]
  BY DEF Descend, Relabel
<1>3. /\ cs2 \in Seq(CallRecords) /\ Len(cs2) = n
      /\ \A i \in 1 .. n : /\ cs2[i].filter = cs[i].filter /\ cs2[i].slot = cs[i].slot
                           /\ cs2[i].at = IF i = n THEN "called" ELSE cs[i].at
  BY <1>1, RelabelKeeps
<1>4. MTInv'
  BY DescendKeeps
<1>5. \A k \in Filters : \A r \in DOMAIN guards[k].mutex : Holds(calls[t], k, r) => Holds(cs2, k, r)
  BY <1>1, RelabelHolds
<1>6. c.at = "lock" => guards[c.filter].mode # "NICE"
  BY DEF Call
<1>7. calls'[t] = cs3
  BY <1>2 DEF MTInv, CallsInv
<1>8. CallsOK(guards, cs3, t)
  BY <1>1, <1>4, <1>7 DEF MTInv, CallsInv, ThreadIds
<1> HIDE DEF cs2, c
<1>9. Len(cs3) = n + 1 /\ cs3[n + 1] = c /\ \A i \in 1 .. n : cs3[i] = cs2[i]
  BY <1>1, <1>3
<1> HIDE DEF cs3
<1>10. ASSUME NEW i \in 1 .. Len(cs3)
       PROVE  cs3[i].filter \in Filters /\ (cs3[i].at = "lock" => guards[cs3[i].filter].mode # "NICE")
  <2>1. cs3[i].filter \in Filters
    BY <1>8 DEF CallsOK, CallOK, Filters
  <2>2. CASE i = n + 1
    BY <1>6, <1>9, <2>1, <2>2
  <2>3. CASE i # n + 1
    <3>1. i \in 1 .. n
      BY <1>1, <1>9, <2>3
    <3>2. cs[i].at = "lock" => guards[cs[i].filter].mode # "NICE"
      BY <3>1 DEF OwnersInv
    <3> QED
      BY <1>3, <1>9, <2>1, <3>1, <3>2
  <2> QED
    BY <2>2, <2>3
<1>11. ASSUME NEW k \in Filters, NEW r \in DOMAIN guards[k].mutex
       PROVE  ThreadKeeps(t, cs3, k, r)
  <2>1. Holds(calls[t], k, r) => Holds(cs2, k, r)
    BY <1>5
  <2>2. \A i \in 1 .. n : i \in 1 .. n + 1
    BY <1>1
  <2>3. Holds(cs2, k, r) => Holds(cs3, k, r)
    BY <1>3, <1>9, <2>2 DEF Holds
  <2> QED
    BY <1>1, <2>1, <2>3 DEF ThreadKeeps
<1> QED
  BY <1>1, <1>2, <1>10, <1>11, AlikeItself, OwnersStep

LEMMA ReturnKeepsOwners ==
    ASSUME MTInv, OwnersInv, NEW t \in ThreadIds, Return(t)
    PROVE  OwnersInv'
<1> DEFINE cs == calls[t]
           n == Len(cs)
           f == Top(t).filter
           s == Top(t).slot
           cs2 == Front(cs)
<1>1. GuardsInv /\ CallsInv /\ cs \in Seq(CallRecords) /\ cs # <<>>
  BY CallFacts DEF MTInv, Return, Inside
<1>2. /\ n \in Nat \ {0} /\ Top(t) = cs[n] /\ f \in Filters /\ s \in DOMAIN guards[f].mutex
      /\ Nobody \in Owner
  BY TopFacts DEF Return
<1>3. Len(cs2) = n - 1 /\ \A i \in 1 .. n - 1 : cs2[i] = cs[i] /\ i \in 1 .. n
  <2>1. Len(cs2) = n - 1 /\ \A i \in 1 .. n - 1 : cs2[i] = cs[i]
    BY <1>1, FrontLast
  <2> QED
    BY <1>2, <2>1
<1>4. guards[f].mode # "NICE" => guards' = SetOwner(guards, f, s, Nobody)
  BY DEF Return, SetOwner
<1>5. guards[f].mode = "NICE" => guards' = guards
  BY DEF Return
<1>6. calls' = [calls EXCEPT ![t] = cs2]
  BY DEF Return
<1>7. /\ Alike(guards, guards')
      /\ \A k \in Filters : \A r \in DOMAIN guards[k].mutex :
            IF k = f /\ r = s THEN guards'[k].mutex[r] = Nobody
                              ELSE guards'[k].mutex[r] = guards[k].mutex[r]
  <2>1. CASE guards[f].mode # "NICE"
    <3>1. /\ Alike(guards, guards') /\ \A k \in Filters : k # f => guards'[k] = guards[k]
          /\ \A r \in DOMAIN guards[f].mutex : guards'[f].mutex[r] = IF r = s THEN Nobody ELSE guards[f].mutex[r]
      BY <1>1, <1>2, <1>4, <2>1, SetOwnerKeeps
    <3> QED
      BY <3>1
  <2>2. CASE guards[f].mode = "NICE"
    <3>1. guards[f].mutex[s] = Nobody
      BY <1>2, <2>2 DEF OwnersInv
    <3> QED
      BY <1>5, <2>2, <3>1, AlikeItself
  <2> QED
    BY <2>1, <2>2
<1>8. ASSUME NEW i \in 1 .. Len(cs2)
      PROVE  cs2[i].filter \in Filters /\ (cs2[i].at = "lock" => guards[cs2[i].filter].mode # "NICE")
  <2>1. i \in 1 .. n /\ cs2[i] = cs[i]
    BY <1>3
  <2>2. CallOK(guards, cs[i], t)
    BY <1>1, <2>1, CallFacts
  <2>3. cs[i].at = "lock" => guards[cs[i].filter].mode # "NICE"
    BY <2>1 DEF OwnersInv
  <2> QED
    BY <2>1, <2>2, <2>3 DEF CallOK, Filters
<1> HIDE DEF cs2
<1>9. ASSUME NEW k \in Filters, NEW r \in DOMAIN guards[k].mutex
      PROVE  ThreadKeeps(t, cs2, k, r)
  <2>1. CASE k = f /\ r = s
    BY <1>7, <2>1 DEF ThreadKeeps
  <2>2. CASE ~(k = f /\ r = s)
    <3>1. guards'[k].mutex[r] = guards[k].mutex[r]
      BY <1>7, <2>2
    <3>2. ASSUME Holds(calls[t], k, r) PROVE Holds(cs2, k, r)
      <4>1. PICK i \in 1 .. n : cs[i].filter = k /\ cs[i].slot = r /\ cs[i].at # "lock"
        BY <3>2 DEF Holds
      <4>2. i # n
        BY <1>2, <2>2, <4>1
      <4>3. i \in 1 .. n - 1
        BY <1>2, <4>2
      <4> QED
        BY <1>3, <4>1, <4>3 DEF Holds
    <3> QED
      BY <3>1, <3>2 DEF ThreadKeeps
  <2> QED
    BY <2>1, <2>2
<1> QED
  BY <1>6, <1>7, <1>8, <1>9, OwnersStep

\* The script gives no instance away.
LEMMA ScriptKeepsOwners ==
    ASSUME MTInv, MTInv', OwnersInv,
           \/ InvokeReturns \/ EnableMT \/ MTEnabled \/ ReleaseClip
           \/ UNCHANGED <<guards, calls>>
    PROVE  OwnersInv'
<1>0. GuardsInv /\ guards \in Seq(GuardRecords) /\ Len(guards) \in Nat
  BY DEF MTInv, GuardsInv
<1>1. calls' = calls
  BY DEF InvokeReturns, EnableMT, MTEnabled, ReleaseClip
<1>2. ASSUME NEW f \in Filters' PROVE ScriptKeeps(f)
  <2>1. CASE guards' = guards
    BY <2>1 DEF ScriptKeeps, Filters
  <2>2. CASE InvokeReturns /\ guards' # guards
    <3> DEFINE g == NewGuard(Last(invoke_stack))
    <3>1. guards' = Append(guards, g)
      BY <2>2 DEF InvokeReturns
    <3>2. \A s \in DOMAIN g.mutex : g.mutex[s] = Nobody
      BY DEF NewGuard
    <3> HIDE DEF g
    <3>3. CASE f \in Filters
      <4>1. guards'[f] = guards[f]
        BY <1>0, <3>1, <3>3 DEF Filters
      <4> QED
        BY <3>3, <4>1 DEF ScriptKeeps
    <3>4. CASE f \notin Filters
      <4>1. f = Len(guards) + 1 /\ guards'[f] = g
        BY <1>0, <3>1, <3>4 DEF Filters
      <4> QED
        BY <3>2, <3>4, <4>1 DEF ScriptKeeps
    <3> QED
      BY <3>3, <3>4
  <2>3. CASE EnableMT /\ guards' # guards
    <3> DEFINE k == script.guard
               g == MoreInstances(guards[k], script.nThreads)
    <3>1. guards' = [guards EXCEPT ![k] = g]
      BY <2>3 DEF EnableMT
    <3>2. k \in Filters /\ guards[k] \in GuardRecords
      BY <2>3, PrefetchFacts DEF EnableMT, GuardOK
    <3>3. g.mode = guards[k].mode /\ \A s \in DOMAIN g.mutex : g.mutex[s] = Nobody
      BY <3>2 DEF MoreInstances, GuardRecords
    <3> HIDE DEF g
    <3>4. f \in Filters /\ guards'[k] = g /\ (f # k => guards'[f] = guards[f])
      BY <1>0, <3>1, <3>2 DEF Filters
    <3> QED
      BY <3>3, <3>4 DEF ScriptKeeps
  <2>4. CASE MTEnabled /\ guards' # guards
    <3>1. PICK n : guards' = [guards EXCEPT ![script.guard].nThreads = n, ![script.guard].mt_enabled = TRUE]
      BY <2>4 DEF MTEnabled
    <3>2. script.guard \in Filters /\ guards[script.guard] \in GuardRecords
      BY <2>4, PrefetchFacts DEF MTEnabled, GuardOK
    <3>3. f \in Filters /\ guards'[f].mutex = guards[f].mutex /\ guards'[f].mode = guards[f].mode
      BY <1>0, <3>1, <3>2 DEF Filters, GuardRecords
    <3> QED
      BY <3>3 DEF ScriptKeeps
  <2>5. CASE ReleaseClip /\ guards' # guards
    <3>1. guards # <<>> /\ guards' = Front(guards)
      BY <2>5 DEF ReleaseClip
    <3>2. Len(guards') = Len(guards) - 1 /\ \A k \in 1 .. Len(guards) - 1 : guards'[k] = guards[k]
      BY <1>0, <3>1, FrontLast
    <3>3. f \in Filters /\ guards'[f] = guards[f]
      BY <1>0, <3>2 DEF Filters
    <3> QED
      BY <3>3 DEF ScriptKeeps
  <2> QED
    BY <2>1, <2>2, <2>3, <2>4, <2>5
<1> QED
  BY <1>1, <1>2, OwnersStay

LEMMA OwnersInvHolds == Spec => []OwnersInv
<1>1. Init => OwnersInv
  BY DEF Init, OwnersInv, Filters
<1>2. ASSUME MTInv, MTInv', OwnersInv, [Next]_vars PROVE OwnersInv'
  <2>1. CASE \/ InvokeReturns \/ EnableMT \/ MTEnabled \/ ReleaseClip
             \/ UNCHANGED <<guards, calls>>
    BY <1>2, <2>1, ScriptKeepsOwners
  <2>2. CASE RequestByMain
    <3>1. Main \in ThreadIds
      BY MTGuardAssumption DEF Main, ThreadIds
    <3> QED
      BY <1>2, <2>2, <3>1, RequestKeepsOwners
  <2>3. ASSUME NEW t \in ThreadIds, RequestByPool(t) PROVE OwnersInv'
    BY <1>2, <2>3, RequestKeepsOwners
  <2>4. ASSUME NEW t \in ThreadIds, CallStep(t) PROVE OwnersInv'
    BY <1>2, <2>4, LockKeepsOwners, DescendKeepsOwners, NewVideoFrameKeepsOwners,
       ReturnKeepsOwners DEF CallStep
  <2>5. \/ InvokeReturns \/ EnableMT \/ MTEnabled \/ ReleaseClip \/ RequestByMain
        \/ UNCHANGED <<guards, calls>>
        \/ \E t \in ThreadIds : RequestByPool(t) \/ CallStep(t)
    BY <1>2 DEF Next, vars, Invoke, InvokeThrows, Prefetch, PoolStarts
  <2> QED
    BY <2>1, <2>2, <2>3, <2>4, <2>5
<1> QED
  BY <1>1, <1>2, MTInvHolds, PTL DEF Spec

LEMMA LeastNumber ==
    ASSUME NEW T, T \subseteq Nat, T # {}
    PROVE  \E x \in T : \A y \in T : x <= y
<1>1. IsWellFoundedOn(OpToRel(<, Nat), Nat)
  BY NatLessThanWellFounded
<1>2. PICK x \in T : \A y \in T : ~(<<y, x>> \in OpToRel(<, Nat))
  BY <1>1, WFMin, Zenon
<1>3. ASSUME NEW y \in T PROVE x <= y
  <2>1. x \in Nat /\ y \in Nat /\ <<y, x>> \in Nat \X Nat
    OBVIOUS
  <2>2. ~(<<y, x>> \in {ss \in Nat \X Nat : ss[1] < ss[2]})
    BY <1>2 DEF OpToRel
  <2> QED
    BY <2>1, <2>2
<1> QED
  BY <1>3

\* Thread t can take the next step of its innermost request: what the actions
\* Lock, Descend, NewVideoFrame and Return ask for.
CanGoOn(t) ==
    /\ Inside(t)
    /\ \/ Top(t).at = "lock" /\ guards[Top(t).filter].mutex[Top(t).slot] = Nobody
       \/ Top(t).at = "inside" /\ Top(t).filter > 1
       \/ /\ Top(t).at = "called" \/ (Top(t).at = "inside" /\ Top(t).filter = 1)
          /\ MayLockMemory(t)
       \/ Top(t).at = "done"

\* As long as a request is under way, some thread can go on.
SomebodyGoesOn ==
    (\E t \in ThreadIds : Inside(t)) => \E t \in ThreadIds : CanGoOn(t)

\* A thread that waits for a lock waits for one that is further down the chain,
\* or that can go on.
LEMMA WaitsForLower ==
    ASSUME MTInv, OwnersInv, NEW t \in ThreadIds, Inside(t), ~CanGoOn(t)
    PROVE  \E u \in ThreadIds : CanGoOn(u) \/ (Inside(u) /\ Top(u).filter < Top(t).filter)
<1> DEFINE f == Top(t).filter
           s == Top(t).slot
           u == guards[f].mutex[s]
<1>1. \A v \in ThreadIds : Inside(v) =>
         /\ Top(v) \in CallRecords /\ Top(v).filter \in Nat /\ Top(v).filter >= 1
         /\ (Top(v).at # "lock" => CanGoOn(v))
  <2> SUFFICES ASSUME NEW v \in ThreadIds, Inside(v)
               PROVE  /\ Top(v) \in CallRecords /\ Top(v).filter \in Nat /\ Top(v).filter >= 1
                      /\ (Top(v).at # "lock" => CanGoOn(v))
    OBVIOUS
  <2>1. Top(v) \in CallRecords
    BY CallFacts, TopFacts DEF MTInv
  <2>2. MayLockMemory(v)
    BY DEF MayLockMemory, HeldByInvoke
  <2>3. /\ Top(v).filter \in Nat /\ Top(v).filter >= 1
        /\ Top(v).at \in {"lock", "inside", "called", "done"}
    BY <2>1 DEF CallRecords
  <2> QED
    BY <2>1, <2>2, <2>3 DEF CanGoOn
<1>2. Top(t).at = "lock" /\ u # Nobody
  BY <1>1 DEF CanGoOn
<1>3. f \in Filters /\ s \in DOMAIN guards[f].mutex
  BY TopFacts
<1>4. u \in ThreadIds
  <2>1. guards[f] \in GuardRecords
    BY <1>3 DEF MTInv, GuardsInv, GuardOK
  <2>2. u \in Owner
    BY <1>3, <2>1, Instances
  <2> QED
    BY <1>2, <2>2 DEF Owner
<1>5. Holds(calls[u], f, s)
  BY <1>2, <1>3 DEF OwnersInv
<1>6. PICK i \in 1 .. Len(calls[u]) : calls[u][i].filter = f /\ calls[u][i].at # "lock"
  BY <1>5 DEF Holds
<1> HIDE DEF u
<1>7. Inside(u) /\ CallsOK(guards, calls[u], u)
  BY <1>4, <1>6, CallFacts DEF MTInv, Inside
<1>8. Len(calls[u]) \in Nat \ {0} /\ Top(u) = calls[u][Len(calls[u])]
  BY <1>4, <1>7, TopFacts
<1>9. CASE i = Len(calls[u])
  BY <1>1, <1>4, <1>6, <1>7, <1>8, <1>9
<1>10. CASE i # Len(calls[u])
  <2>1. i < Len(calls[u]) /\ Len(calls[u]) \in 1 .. Len(calls[u])
    BY <1>8, <1>10
  <2>2. calls[u][Len(calls[u])].filter < calls[u][i].filter
    BY <1>7, <2>1 DEF CallsOK
  <2> QED
    BY <1>4, <1>6, <1>7, <1>8, <2>2
<1> QED
  BY <1>9, <1>10

\* Threads never wait for each other in a circle, whatever pools are running
\* and whatever the script is constructing.
THEOREM NobodyWaitsInACircle == Spec => []SomebodyGoesOn
<1>1. ASSUME MTInv, OwnersInv PROVE SomebodyGoesOn
  <2> SUFFICES ASSUME NEW t0 \in ThreadIds, Inside(t0), \A t \in ThreadIds : ~CanGoOn(t)
               PROVE  FALSE
    BY DEF SomebodyGoesOn
  <2> DEFINE F == {Top(t).filter : t \in {u \in ThreadIds : Inside(u)}}
  <2>1. ASSUME NEW t \in ThreadIds, Inside(t) PROVE Top(t).filter \in Nat
    <3>1. Top(t) \in CallRecords
      BY <1>1, <2>1, CallFacts, TopFacts DEF MTInv
    <3> QED
      BY <3>1 DEF CallRecords
  <2>2. F \subseteq Nat /\ F # {}
    BY <2>1
  <2>3. PICK x \in F : \A y \in F : x <= y
    BY <2>2, LeastNumber
  <2>4. PICK t \in ThreadIds : Inside(t) /\ Top(t).filter = x
    BY <2>3
  <2>5. PICK u \in ThreadIds : Inside(u) /\ Top(u).filter < Top(t).filter
    BY <1>1, <2>4, WaitsForLower
  <2>6. Top(u).filter \in F
    BY <2>5
  <2> HIDE DEF F
  <2>7. x <= Top(u).filter /\ x \in Nat /\ Top(u).filter \in Nat
    BY <2>1, <2>2, <2>3, <2>5, <2>6
  <2> QED
    BY <2>4, <2>5, <2>7
<1> QED
  BY <1>1, MTInvHolds, OwnersInvHolds, PTL
===============================================================================
