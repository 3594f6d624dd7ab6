-------------------------- MODULE CacheRegistryProofs --------------------------
(***************************************************************************)
(* The registry is exact and in the order of use, the newest cache keeps   *)
(* its limit and the oldest one of the device gives way: for any guards,   *)
(* devices, hints and numbers of caches and frames.                        *)
(***************************************************************************)
EXTENDS CacheRegistry, ListProofs

-------------------------------------------------------------------------------
(* Limits                                                                  *)

CacheRecs == [cap : Capacities, size : Nat]

\* The capacity is what the limits make of the requested one.
CacheOK(x) ==
    /\ x \in CacheRecs
    /\ x.cap.real = clamp(x.cap.requested, x.cap.min, x.cap.max)

\* The registry, what it is about, and how it was used.
CachesOK(live) ==
    /\ live \subseteq Caches
    /\ \A c \in live : CacheOK(caches[c])

HintsOK ==
    /\ hints \in [Guards -> [min : Nat, max : Nat]]
    /\ pending \in [Guards -> Hints]

LostOK == lost \subseteq Throwers \X Devices

\* What is registered: the caches and what constructors that threw have left.
All == Live \cup lost

ListsOK(front, list, live, used, infront) ==
    /\ front \in Pointers \cup {NoCache}
    /\ list \in Seq(Pointers) /\ Distinct(list)
    /\ used \in Seq(Pointers) /\ Distinct(used)
    /\ Members(used) = live
    /\ live = Members(list) \cup ({front} \ {NoCache})
    /\ front \notin Members(list)
    /\ infront \subseteq live
    /\ front # NoCache => front \in infront
    /\ \A b, c : Precedes(list, b, c) => Precedes(used, b, c) \/ c \in infront

\* The inductive invariant: the registry's order is the one of use, but for caches
\* that have been in front, and the cache in front is one of these.
RegistryInv ==
    /\ CachesOK(Live)
    /\ HintsOK
    /\ LostOK
    /\ ListsOK(FrontCache, Registry, All, recent, usedInFront)

LEMMA ClampNat ==
    ASSUME NEW n \in Nat, NEW lo \in Nat, NEW hi \in Nat
    PROVE  clamp(n, lo, hi) \in Nat /\ (clamp(n, lo, hi) < n => hi <= clamp(n, lo, hi))
  BY DEF clamp

LEMMA ResizeCapacityOK ==
    ASSUME NEW c \in Capacities, NEW n \in Nat
    PROVE  /\ ResizeCapacity(c, n) \in Capacities
           /\ ResizeCapacity(c, n).max = c.max /\ ResizeCapacity(c, n).min = c.min
           /\ ResizeCapacity(c, n).real = clamp(n, c.min, c.max)
           /\ ResizeCapacity(c, n).requested = n
<1> DEFINE z == clamp(n, c.min, c.max)
<1>1. z \in Nat
  BY ClampNat DEF Capacities
<1>2. ResizeCapacity(c, n) = [c EXCEPT !.requested = n, !.real = z]
  BY DEF ResizeCapacity
<1> HIDE DEF z
<1> DEFINE d == [c EXCEPT !.requested = n, !.real = z]
<1>3. d \in Capacities /\ d.max = c.max /\ d.min = c.min /\ d.real = z /\ d.requested = n
  BY <1>1 DEF Capacities
<1> HIDE DEF d
<1>4. ResizeCapacity(c, n) = d
  BY <1>2 DEF d
<1> QED
  BY <1>3, <1>4 DEF z

LEMMA LimitCapacityOK ==
    ASSUME NEW c \in Capacities, NEW lo \in Nat, NEW hi \in Nat
    PROVE  /\ LimitCapacity(c, lo, hi) \in Capacities
           /\ LimitCapacity(c, lo, hi).max = hi
           /\ LimitCapacity(c, lo, hi).real = clamp(c.requested, lo, hi)
           /\ LimitCapacity(c, lo, hi).requested = c.requested
           /\ LimitCapacity(c, lo, hi).min = lo
<1> DEFINE d == [c EXCEPT !.min = lo, !.max = hi]
           q == c.requested
<1>1. d \in Capacities /\ d.min = lo /\ d.max = hi /\ q \in Nat
  BY DEF Capacities
<1>2. LimitCapacity(c, lo, hi) = ResizeCapacity(d, q)
  BY DEF LimitCapacity
<1> HIDE DEF d, q
<1>3. /\ ResizeCapacity(d, q) \in Capacities
      /\ ResizeCapacity(d, q).max = hi /\ ResizeCapacity(d, q).min = lo
      /\ ResizeCapacity(d, q).real = clamp(q, lo, hi)
      /\ ResizeCapacity(d, q).requested = q
  BY <1>1, ResizeCapacityOK
<1> QED
  BY <1>2, <1>3 DEF q

\* A capacity that follows its limits.
Follows(c) == c \in Capacities /\ c.real = clamp(c.requested, c.min, c.max)

LEMMA LimitFollows ==
    ASSUME NEW c \in Capacities, NEW lo \in Nat, NEW hi \in Nat
    PROVE  Follows(LimitCapacity(c, lo, hi)) /\ LimitCapacity(c, lo, hi).max = hi
<1> DEFINE d == LimitCapacity(c, lo, hi)
<1>1. d \in Capacities /\ d.max = hi /\ d.real = clamp(c.requested, lo, hi)
      /\ d.requested = c.requested /\ d.min = lo
  BY LimitCapacityOK
<1> HIDE DEF d
<1> QED
  BY <1>1 DEF Follows, d

LEMMA ResizeFollows ==
    ASSUME NEW c \in Capacities, NEW n \in Nat
    PROVE  Follows(ResizeCapacity(c, n)) /\ ResizeCapacity(c, n).max = c.max
<1> DEFINE d == ResizeCapacity(c, n)
<1>1. d \in Capacities /\ d.max = c.max /\ d.min = c.min /\ d.real = clamp(n, c.min, c.max)
      /\ d.requested = n
  BY ResizeCapacityOK
<1> HIDE DEF d
<1> QED
  BY <1>1 DEF Follows, d

\* set_limits leaves a cache whose capacity follows its limits, whatever it was.
LEMMA SetLimitsOK ==
    ASSUME NEW x \in CacheRecs, NEW lo \in Nat, NEW hi \in Nat
    PROVE  /\ CacheOK(SetLimits(x, lo, hi))
           /\ SetLimits(x, lo, hi).cap.max = hi
           /\ SetLimits(x, lo, hi).size = x.size
<1>1. PICK c \in Capacities, s \in Nat : x = [cap |-> c, size |-> s]
  BY DEF CacheRecs
<1> DEFINE d == LimitCapacity(c, lo, hi)
<1>2. SetLimits(x, lo, hi) = [cap |-> d, size |-> s]
  BY <1>1 DEF SetLimits
<1>3. Follows(d) /\ d.max = hi
  BY LimitFollows
<1> HIDE DEF d
<1> QED
  BY <1>1, <1>2, <1>3 DEF CacheOK, CacheRecs, Follows

LEMMA SetMaxOK ==
    ASSUME NEW x \in CacheRecs, NEW n \in Nat
    PROVE  CacheOK(SetMax(x, n)) /\ SetMax(x, n).cap.max = n /\ SetMax(x, n).size = x.size
<1>1. x.cap.min \in Nat
  BY DEF CacheRecs, Capacities
<1> QED
  BY <1>1, SetLimitsOK DEF SetMax

\* trim() throws out frames, and changes no limit.
LEMMA TrimOK ==
    ASSUME NEW x, CacheOK(x), NEW busy
    PROVE  CacheOK(Trim(x, busy)) /\ Trim(x, busy).cap = x.cap
<1>1. PICK c \in Capacities, s \in Nat : x = [cap |-> c, size |-> s]
  BY DEF CacheOK, CacheRecs
<1>2. PICK n \in Nat : Trim(x, busy) = [cap |-> c, size |-> n]
  <2>1. c.real \in Nat
    BY DEF Capacities
  <2>2. Trim(x, busy) = [cap |-> c, size |-> IF ~busy /\ s > c.real THEN c.real ELSE s]
    BY <1>1 DEF Trim
  <2> QED
    BY <2>1, <2>2
<1> QED
  BY <1>1, <1>2 DEF CacheOK, CacheRecs

LEMMA NewCacheOK ==
    ASSUME NEW h \in [min : Nat, max : Nat]
    PROVE  CacheOK(NewCache(h))
<1> DEFINE c0 == InitCapacity(0)
           c1 == IF h.min = 0 THEN c0 ELSE LimitCapacity(c0, h.min, Unlimited)
           c2 == IF h.max = Unlimited THEN c1 ELSE LimitCapacity(c1, c1.min, h.max)
<1>1. NewCache(h) = [cap |-> c2, size |-> 0]
  BY DEF NewCache
<1>2. h.min \in Nat /\ h.max \in Nat /\ Unlimited \in Nat
  BY UnlimitedAssumption
<1>3. Follows(c0)
  BY <1>2 DEF InitCapacity, Capacities, clamp, Follows
<1> HIDE DEF c0
<1>4. Follows(c1)
  <2>1. c0 \in Capacities
    BY <1>3 DEF Follows
  <2> QED
    BY <1>2, <1>3, <2>1, LimitFollows
<1> HIDE DEF c1
<1>5. Follows(c2)
  <2>1. c1 \in Capacities /\ c1.min \in Nat
    BY <1>4 DEF Follows, Capacities
  <2> QED
    BY <1>2, <1>4, <2>1, LimitFollows
<1> HIDE DEF c2
<1> QED
  BY <1>1, <1>5 DEF CacheOK, CacheRecs, Follows

-------------------------------------------------------------------------------
(* The lists                                                               *)

\* A new cache is in front, and the one that was there comes to the list.
LEMMA RegisterLists ==
    ASSUME NEW f, NEW l, NEW lv, NEW u, NEW i, ListsOK(f, l, lv, u, i),
           NEW c \in Pointers, c \notin lv
    PROVE  ListsOK(c, IF f # NoCache THEN Append(l, f) ELSE l, lv \cup {c},
                   Append(u, c), i \cup {c})
<1> DEFINE m == IF f # NoCache THEN Append(l, f) ELSE l
           v == Append(u, c)
<1>0. NoCache \notin Pointers
  BY CacheRegistryAssumption DEF Pointers
<1>1. /\ f \in Pointers \cup {NoCache} /\ l \in Seq(Pointers) /\ Distinct(l)
      /\ u \in Seq(Pointers) /\ Distinct(u) /\ Members(u) = lv
      /\ lv = Members(l) \cup ({f} \ {NoCache}) /\ f \notin Members(l) /\ i \subseteq lv
      /\ f # NoCache => f \in i
      /\ \A a, b : Precedes(l, a, b) => Precedes(u, a, b) \/ b \in i
  BY DEF ListsOK
<1>2. /\ v \in Seq(Pointers) /\ Members(v) = lv \cup {c} /\ Distinct(v)
      /\ \A a, b : Precedes(u, a, b) => Precedes(v, a, b)
  BY <1>1, AppendList
<1>3. /\ m \in Seq(Pointers) /\ Members(m) = lv /\ Distinct(m)
      /\ \A a, b : Precedes(m, a, b) => Precedes(l, a, b) \/ b \in i
  <2>1. CASE f # NoCache
    <3>1. f \in Pointers /\ f \in i /\ m = Append(l, f)
      BY <1>1, <2>1
    <3>2. /\ m \in Seq(Pointers) /\ Members(m) = Members(l) \cup {f} /\ Distinct(m)
          /\ \A a, b : Precedes(m, a, b) => Precedes(l, a, b) \/ b = f
      BY <1>1, <3>1, AppendList
    <3> QED
      BY <1>1, <2>1, <3>1, <3>2
  <2>2. CASE f = NoCache
    <3>1. m = l
      BY <2>2
    <3> QED
      BY <1>1, <2>2, <3>1
  <2> QED
    BY <2>1, <2>2
<1> HIDE DEF m, v
<1>4. \A a, b : Precedes(m, a, b) => Precedes(v, a, b) \/ b \in i \cup {c}
  BY <1>1, <1>2, <1>3
<1>5. ListsOK(c, m, lv \cup {c}, v, i \cup {c})
  BY <1>0, <1>1, <1>2, <1>3, <1>4 DEF ListsOK
<1> QED
  BY <1>5 DEF m, v

\* Caches are destroyed.
LEMMA DropLists ==
    ASSUME NEW f, NEW l, NEW lv, NEW u, NEW i, ListsOK(f, l, lv, u, i),
           NEW S, NoCache \notin S
    PROVE  ListsOK(IF f \in S THEN NoCache ELSE f, Drop(l, S), lv \ S, Drop(u, S), i \ S)
<1> DEFINE m == Drop(l, S)
           v == Drop(u, S)
           g == IF f \in S THEN NoCache ELSE f
<1>0. NoCache \notin Pointers
  BY CacheRegistryAssumption DEF Pointers
<1>1. /\ f \in Pointers \cup {NoCache} /\ l \in Seq(Pointers) /\ Distinct(l)
      /\ u \in Seq(Pointers) /\ Distinct(u) /\ Members(u) = lv
      /\ lv = Members(l) \cup ({f} \ {NoCache}) /\ f \notin Members(l) /\ i \subseteq lv
      /\ f # NoCache => f \in i
      /\ \A a, b : Precedes(l, a, b) => Precedes(u, a, b) \/ b \in i
  BY DEF ListsOK
<1>2. /\ m \in Seq(Pointers) /\ Members(m) = Members(l) \ S /\ Distinct(m)
      /\ \A a, b : Precedes(m, a, b) => Precedes(l, a, b) /\ a \notin S /\ b \notin S
  BY <1>1, DropList
<1>3. /\ v \in Seq(Pointers) /\ Members(v) = Members(u) \ S /\ Distinct(v)
      /\ \A a, b : Precedes(u, a, b) /\ a \notin S /\ b \notin S => Precedes(v, a, b)
  BY <1>1, DropList
<1> HIDE DEF m, v
<1>4. \A a, b : Precedes(m, a, b) => Precedes(v, a, b) \/ b \in i \ S
  BY <1>1, <1>2, <1>3
<1>5. NoCache \notin Members(l)
  <2>1. Members(l) \subseteq Pointers
    BY <1>1 DEF Members
  <2> QED
    BY <1>0, <2>1
<1>6. /\ g \in Pointers \cup {NoCache} /\ g \notin Members(m)
      /\ lv \ S = Members(m) \cup ({g} \ {NoCache})
      /\ g # NoCache => g \in i \ S
  BY <1>0, <1>1, <1>2, <1>5
<1> HIDE DEF g
<1>7. ListsOK(g, m, lv \ S, v, i \ S)
  BY <1>1, <1>2, <1>3, <1>4, <1>6 DEF ListsOK
<1> QED
  BY <1>7 DEF g, m, v

\* mapped_list's move_to_back.
LEMMA ToBackList ==
    ASSUME NEW w \in Seq(Pointers), Distinct(w), NEW c \in Pointers
    PROVE  /\ ToBack(w, c) \in Seq(Pointers) /\ Distinct(ToBack(w, c))
           /\ Members(ToBack(w, c)) = Members(w) \cup {c}
           /\ \A a, b : Precedes(ToBack(w, c), a, b)
                          <=> \/ Precedes(w, a, b) /\ a # c /\ b # c
                              \/ a \in Members(w) \ {c} /\ b = c
           /\ ToBack(w, c)[Len(ToBack(w, c))] = c
<1> DEFINE d == Drop(w, {c})
<1>1. /\ d \in Seq(Pointers) /\ Members(d) = Members(w) \ {c} /\ Distinct(d)
      /\ \A a, b : Precedes(d, a, b) <=> Precedes(w, a, b) /\ a \notin {c} /\ b \notin {c}
  BY DropList
<1> HIDE DEF d
<1>2. /\ Append(d, c) \in Seq(Pointers)
      /\ Members(Append(d, c)) = Members(d) \cup {c}
      /\ Distinct(Append(d, c))
      /\ \A a, b : Precedes(Append(d, c), a, b)
                     <=> Precedes(d, a, b) \/ (a \in Members(d) /\ b = c)
      /\ Append(d, c)[Len(Append(d, c))] = c
  BY <1>1, AppendList
<1>3. ToBack(w, c) = Append(d, c)
  BY DEF ToBack, d
<1> HIDE DEF ToBack
<1> QED
  BY <1>1, <1>2, <1>3

\* A cache is used.
LEMMA UsedLists ==
    ASSUME NEW f, NEW l, NEW lv, NEW u, NEW i, ListsOK(f, l, lv, u, i), NEW c \in lv
    PROVE  ListsOK(f, IF c = f THEN l ELSE ToBack(l, c), lv, ToBack(u, c),
                   IF c = f THEN i \cup {c} ELSE i \ {c})
<1> DEFINE m == IF c = f THEN l ELSE ToBack(l, c)
           v == ToBack(u, c)
           j == IF c = f THEN i \cup {c} ELSE i \ {c}
<1>0. NoCache \notin Pointers
  BY CacheRegistryAssumption DEF Pointers
<1>1. /\ f \in Pointers \cup {NoCache} /\ l \in Seq(Pointers) /\ Distinct(l)
      /\ u \in Seq(Pointers) /\ Distinct(u) /\ Members(u) = lv
      /\ lv = Members(l) \cup ({f} \ {NoCache}) /\ f \notin Members(l) /\ i \subseteq lv
      /\ f # NoCache => f \in i
      /\ \A a, b : Precedes(l, a, b) => Precedes(u, a, b) \/ b \in i
  BY DEF ListsOK
<1>2. Members(l) \subseteq Pointers /\ lv \subseteq Pointers /\ c \in Pointers
  <2>1. Members(l) \subseteq Pointers /\ Members(u) \subseteq Pointers
    BY <1>1 DEF Members
  <2> QED
    BY <1>1, <2>1
<1>3. ASSUME NEW w \in Seq(Pointers), Distinct(w)
      PROVE  /\ ToBack(w, c) \in Seq(Pointers) /\ Distinct(ToBack(w, c))
             /\ Members(ToBack(w, c)) = Members(w) \cup {c}
             /\ \A a, b : Precedes(ToBack(w, c), a, b)
                            <=> \/ Precedes(w, a, b) /\ a # c /\ b # c
                                \/ a \in Members(w) \ {c} /\ b = c
  BY <1>2, <1>3, ToBackList
<1>4. /\ v \in Seq(Pointers) /\ Distinct(v) /\ Members(v) = lv
      /\ \A a, b : Precedes(v, a, b)
                     <=> \/ Precedes(u, a, b) /\ a # c /\ b # c
                         \/ a \in lv \ {c} /\ b = c
  BY <1>1, <1>2, <1>3
<1> HIDE DEF v
<1>5. CASE c = f
  <2>1. c \notin Members(l) /\ c \in i /\ m = l /\ j = i
    BY <1>0, <1>1, <1>2, <1>5
  <2>2. \A a, b : Precedes(l, a, b) => a \in Members(l) /\ b \in Members(l)
    BY DEF Precedes, Members
  <2>3. \A a, b : Precedes(l, a, b) => Precedes(v, a, b) \/ b \in i
    BY <1>1, <1>4, <2>1, <2>2
  <2> HIDE DEF m, j
  <2>4. ListsOK(f, m, lv, v, j)
    BY <1>1, <1>4, <2>1, <2>3 DEF ListsOK
  <2> QED
    BY <2>4 DEF m, j, v
<1>6. CASE c # f
  <2>1. m = ToBack(l, c) /\ j = i \ {c}
    BY <1>6
  <2> HIDE DEF m, j
  <2>2. /\ m \in Seq(Pointers) /\ Distinct(m) /\ Members(m) = Members(l)
        /\ \A a, b : Precedes(m, a, b)
                       => \/ Precedes(l, a, b) /\ a # c /\ b # c
                          \/ a \in Members(l) \ {c} /\ b = c
    <3>1. Members(l) \cup {c} = Members(l)
      BY <1>1, <1>6
    <3> QED
      BY <1>1, <1>3, <2>1, <3>1
  <2>3. \A a, b : Precedes(m, a, b) => Precedes(v, a, b) \/ b \in j
    BY <1>1, <1>4, <2>1, <2>2
  <2>4. ListsOK(f, m, lv, v, j)
    BY <1>1, <1>4, <1>6, <2>1, <2>2, <2>3 DEF ListsOK
  <2> QED
    BY <2>4 DEF m, j, v
<1> QED
  BY <1>5, <1>6

-------------------------------------------------------------------------------
(* The invariant                                                           *)

LEMMA PointersApart ==
    /\ NoCache \notin Pointers /\ Caches \subseteq Pointers
    /\ Throwers \X Devices \subseteq Pointers
    /\ Caches \cap (Throwers \X Devices) = {}
  BY CacheRegistryAssumption DEF Caches, Pointers

LEMMA NoHintIsHint == NoHint \in Hints
  BY DEF NoHint, Hints

LEMMA InitInv == Init => RegistryInv
<1> SUFFICES ASSUME Init PROVE RegistryInv
  OBVIOUS
<1>0. NoCache \notin Pointers
  BY PointersApart
<1>1. Live = {} /\ lost = {} /\ All = {}
  BY DEF Init, Live, All
<1>2. CachesOK(Live) /\ LostOK
  BY <1>1 DEF CachesOK, LostOK
<1>3. HintsOK
  <2>1. Unlimited \in Nat
    BY UnlimitedAssumption
  <2>2. DefaultHints \in [min : Nat, max : Nat]
    BY <2>1 DEF DefaultHints
  <2> QED
    BY <2>2, NoHintIsHint DEF Init, HintsOK
<1>4. /\ <<>> \in Seq(Pointers) /\ Distinct(<<>>) /\ Members(<<>>) = {}
      /\ \A a, b : ~Precedes(<<>>, a, b)
  BY DEF Distinct, Members, Precedes
<1>5. ListsOK(NoCache, <<>>, {}, <<>>, {})
  BY <1>0, <1>4 DEF ListsOK
<1> QED
  BY <1>1, <1>2, <1>3, <1>5 DEF Init, RegistryInv

\* Limits that a cache is given in NodAndExpandCache: the one that asks and the
\* one that gives, with everything that OldestGives and FrontKeepsLimit need.
Expands(c) ==
    \E giver :
      /\ giver = NoCache \/ giver = OldestOn(c, Registry')
      /\ \A k \in Live : CacheOK(caches'[k])
      /\ \A k \in Live \ {c, giver} : caches'[k] = caches[k]
      /\ caches'[c].cap.max >= caches[c].cap.max

LEMMA ExpandStep ==
    ASSUME RegistryInv, NEW c \in Live, NEW short \in BOOLEAN, NEW busy \in BOOLEAN,
           NodAndExpandCache(c, short, busy)
    PROVE  Live' = Live /\ Expands(c)
<1> DEFINE x == caches[c]
           cap == x.cap.real
           giver == IF short /\ x.size # 0 THEN OldestOn(c, Registry') ELSE NoCache
           Given(k) == IF k = giver THEN Trim(SetMax(caches[k], x.size - 1), busy) ELSE caches[k]
           Expanded(k) == IF k = c THEN Trim(SetMax(Given(k), cap + 1), busy) ELSE Given(k)
<1>1. caches' = IF x.cap.requested > cap THEN [k \in Live |-> Expanded(k)] ELSE caches
  BY Zenon DEF NodAndExpandCache
<1>2. Live' = Live
  <2>1. CASE ~(x.cap.requested > cap)
    BY <1>1, <2>1 DEF Live
  <2>2. CASE x.cap.requested > cap
    <3>1. caches' = [k \in Live |-> Expanded(k)]
      BY <1>1, <2>2
    <3> HIDE DEF giver, Given, Expanded
    <3> QED
      BY <3>1 DEF Live
  <2> QED
    BY <2>1, <2>2
<1>3. \A k \in Live : CacheOK(caches[k]) /\ caches[k] \in CacheRecs
  BY DEF RegistryInv, CachesOK, CacheOK
<1>4. giver = NoCache \/ giver = OldestOn(c, Registry')
  OBVIOUS
<1>5. CASE ~(x.cap.requested > cap)
  <2>1. caches' = caches
    BY <1>1, <1>5
  <2>2. x.cap.max \in Nat
    BY <1>3 DEF CacheRecs, Capacities
  <2> HIDE DEF giver
  <2>3. \A k \in Live : CacheOK(caches'[k]) /\ caches'[k] = caches[k]
    BY <1>3, <2>1
  <2>4. caches'[c].cap.max >= caches[c].cap.max
    BY <2>1, <2>2
  <2> QED
    BY <1>2, <1>4, <2>3, <2>4 DEF Expands
<1>6. CASE x.cap.requested > cap
  <2>1. ASSUME NEW k \in Live
        PROVE  caches'[k] = Expanded(k)
    BY <1>1, <1>6
  <2>2. /\ x \in CacheRecs /\ cap \in Nat /\ x.size \in Nat /\ x.cap.max \in Nat
        /\ x.cap.requested \in Nat /\ x.cap.min \in Nat
        /\ cap = clamp(x.cap.requested, x.cap.min, x.cap.max)
    BY <1>3 DEF CacheRecs, Capacities, CacheOK
  <2>3. giver # NoCache => x.size - 1 \in Nat
    BY <2>2
  <2>4. x.cap.max <= cap
    <3>1. ASSUME NEW q \in Nat, NEW lo \in Nat, NEW hi \in Nat, NEW r \in Nat,
                 r = clamp(q, lo, hi), q > r
          PROVE  hi <= r
      BY <3>1, ClampNat
    <3> HIDE DEF cap, x
    <3> QED
      BY <1>6, <2>2, <3>1
  <2> HIDE DEF giver
  <2>5. ASSUME NEW k \in Live PROVE CacheOK(Given(k)) /\ Given(k) \in CacheRecs
    <3>1. NoCache \notin Live
      BY CacheRegistryAssumption DEF RegistryInv, CachesOK, Caches
    <3>2. CASE k = giver
      <4>1. x.size - 1 \in Nat
        BY <2>3, <3>1, <3>2
      <4>2. CacheOK(SetMax(caches[k], x.size - 1))
        BY <1>3, <4>1, SetMaxOK
      <4>3. CacheOK(Given(k))
        BY <3>2, <4>2, TrimOK
      <4> QED
        BY <4>3 DEF CacheOK
    <3>3. CASE k # giver
      BY <1>3, <3>3
    <3> QED
      BY <3>2, <3>3
  <2>6. CacheOK(Expanded(c)) /\ Expanded(c).cap.max = cap + 1
    <3> DEFINE y == SetMax(Given(c), cap + 1)
    <3>1. Given(c) \in CacheRecs /\ cap + 1 \in Nat
      BY <2>2, <2>5
    <3>2. Expanded(c) = Trim(y, busy)
      OBVIOUS
    <3> HIDE DEF Given
    <3>3. CacheOK(y) /\ y.cap.max = cap + 1
      BY <3>1, SetMaxOK
    <3> HIDE DEF y, Expanded
    <3>4. CacheOK(Trim(y, busy)) /\ Trim(y, busy).cap = y.cap
      BY <3>3, TrimOK
    <3> QED
      BY <3>2, <3>3, <3>4
  <2>7. ASSUME NEW k \in Live PROVE CacheOK(Expanded(k))
    <3>1. CASE k = c
      BY <2>6, <3>1
    <3>2. CASE k # c
      <4>1. Expanded(k) = Given(k)
        BY <3>2
      <4> QED
        BY <2>5, <4>1
    <3> QED
      BY <3>1, <3>2
  <2>8. \A k \in Live \ {c, giver} : Expanded(k) = caches[k]
    OBVIOUS
  <2> HIDE DEF Given, Expanded
  <2>9. ASSUME NEW k \in Live PROVE CacheOK(caches'[k])
    BY <2>1, <2>7
  <2>10. caches'[c].cap.max >= x.cap.max
    BY <2>1, <2>2, <2>4, <2>6
  <2>11. \A k \in Live \ {c, giver} : caches'[k] = caches[k]
    BY <2>1, <2>8
  <2> QED
    BY <1>2, <1>4, <2>9, <2>10, <2>11 DEF Expands
<1> QED
  BY <1>5, <1>6

\* What a step does to the caches there are and to the lists.
StepOfLists(c) ==
    \/ UNCHANGED <<FrontCache, Registry, recent, usedInFront>> /\ All' = All
    \/ /\ c \in Pointers /\ c \notin All /\ All' = All \cup {c}
       /\ FrontCache' = c /\ recent' = Append(recent, c)
       /\ Registry' = IF FrontCache # NoCache THEN Append(Registry, FrontCache) ELSE Registry
       /\ usedInFront' = usedInFront \cup {c}
    \/ \E S \in SUBSET Pointers :
          /\ All' = All \ S /\ Registry' = Drop(Registry, S) /\ recent' = Drop(recent, S)
          /\ FrontCache' = IF FrontCache \in S THEN NoCache ELSE FrontCache
          /\ usedInFront' = usedInFront \ S
    \/ /\ c \in All /\ All' = All
       /\ FrontCache' = FrontCache /\ recent' = ToBack(recent, c)
       /\ Registry' = IF c = FrontCache THEN Registry ELSE ToBack(Registry, c)
       /\ usedInFront' = IF c = FrontCache THEN usedInFront \cup {c} ELSE usedInFront \ {c}

LEMMA ListsStep ==
    ASSUME ListsOK(FrontCache, Registry, All, recent, usedInFront), NEW c, StepOfLists(c)
    PROVE  ListsOK(FrontCache', Registry', All', recent', usedInFront')
<1>0. NoCache \notin Pointers
  BY PointersApart
<1>1. CASE UNCHANGED <<FrontCache, Registry, recent, usedInFront>> /\ All' = All
  <2>1. FrontCache' = FrontCache /\ Registry' = Registry /\ recent' = recent
        /\ usedInFront' = usedInFront /\ All' = All
    BY <1>1
  <2> QED
    BY <2>1, Zenon
<1>2. CASE /\ c \in Pointers /\ c \notin All /\ All' = All \cup {c}
           /\ FrontCache' = c /\ recent' = Append(recent, c)
           /\ Registry' = IF FrontCache # NoCache THEN Append(Registry, FrontCache) ELSE Registry
           /\ usedInFront' = usedInFront \cup {c}
  <2>1. ListsOK(c, IF FrontCache # NoCache THEN Append(Registry, FrontCache) ELSE Registry,
                All \cup {c}, Append(recent, c), usedInFront \cup {c})
    BY <1>2, RegisterLists
  <2> QED
    BY <1>2, <2>1, Zenon
<1>3. ASSUME NEW S \in SUBSET Pointers,
             All' = All \ S /\ Registry' = Drop(Registry, S) /\ recent' = Drop(recent, S),
             FrontCache' = IF FrontCache \in S THEN NoCache ELSE FrontCache,
             usedInFront' = usedInFront \ S
      PROVE  ListsOK(FrontCache', Registry', All', recent', usedInFront')
  <2>1. NoCache \notin S
    BY <1>0
  <2>2. ListsOK(IF FrontCache \in S THEN NoCache ELSE FrontCache, Drop(Registry, S), All \ S,
                Drop(recent, S), usedInFront \ S)
    BY <2>1, DropLists
  <2> QED
    BY <1>3, <2>2, Zenon
<1>4. CASE /\ c \in All /\ All' = All
           /\ FrontCache' = FrontCache /\ recent' = ToBack(recent, c)
           /\ Registry' = IF c = FrontCache THEN Registry ELSE ToBack(Registry, c)
           /\ usedInFront' = IF c = FrontCache THEN usedInFront \cup {c} ELSE usedInFront \ {c}
  <2>1. ListsOK(FrontCache, IF c = FrontCache THEN Registry ELSE ToBack(Registry, c), All,
                ToBack(recent, c), IF c = FrontCache THEN usedInFront \cup {c} ELSE usedInFront \ {c})
    BY <1>4, UsedLists
  <2> QED
    BY <1>4, <2>1, Zenon
<1> QED
  BY <1>1, <1>2, <1>3, <1>4, Zenon DEF StepOfLists

\* The limits of caches outside S stay, and the caches stay as they should be.
CachesStep(S) ==
    /\ Live' = Live /\ lost' = lost
    /\ \A k \in Live : CacheOK(caches'[k])
    /\ \A k \in Live \ S : caches'[k].cap = caches[k].cap

LEMMA HintWritesStep ==
    ASSUME RegistryInv, NEW g \in Guards, NEW busy \in BOOLEAN, HintWrites(g, busy)
    PROVE  CachesStep({pending[g].cache}) /\ HintsOK'
<1> DEFINE p == pending[g]
           q == IF p.left = {} THEN NoHint ELSE [p EXCEPT !.cache = NoCache]
<1>1. p \in Hints
  BY DEF RegistryInv, HintsOK
<1>2. p.min \in Nat /\ p.max \in Nat
  BY <1>1 DEF Hints
<1>3. caches' = [caches EXCEPT ![p.cache] = Trim(SetLimits(@, p.min, p.max), busy)]
  BY Zenon DEF HintWrites
<1>4. HintsOK'
  <2>1. pending' = [pending EXCEPT ![g] = q] /\ hints' = hints
    BY DEF HintWrites
  <2>2. q \in Hints
    <3>1. [p EXCEPT !.cache = NoCache] \in Hints
      BY <1>1 DEF Hints
    <3> QED
      BY <3>1, NoHintIsHint
  <2> HIDE DEF q
  <2> QED
    BY <2>1, <2>2 DEF RegistryInv, HintsOK, Hints, Caches
<1> HIDE DEF p
<1>5. /\ DOMAIN caches' = DOMAIN caches /\ lost' = lost
      /\ \A k \in Live : caches'[k] = IF k = p.cache THEN Trim(SetLimits(caches[k], p.min, p.max), busy)
                                      ELSE caches[k]
  BY <1>3 DEF Live, HintWrites
<1>6. \A k \in Live : CacheOK(caches[k]) /\ caches[k] \in CacheRecs
  BY DEF RegistryInv, CachesOK, CacheOK
<1>7. \A k \in Live : CacheOK(Trim(SetLimits(caches[k], p.min, p.max), busy))
  BY <1>2, <1>6, SetLimitsOK, TrimOK
<1> QED
  BY <1>4, <1>5, <1>6, <1>7 DEF CachesStep, Live, p

\* A hint is remembered, and so is what it is about to write.
LEMMA SetHintStep ==
    ASSUME RegistryInv, NEW g \in Guards, NEW hint \in {"min", "max"}, NEW n \in HintValues,
           SetHint(g, hint, n)
    PROVE  HintsOK'
<1> DEFINE h == IF hint = "min" THEN [hints[g] EXCEPT !.min = n] ELSE [hints[g] EXCEPT !.max = n]
           q == [NoHint EXCEPT !.hint = hint, !.n = n, !.left = CachesOf(g)]
<1>1. n \in Nat /\ hints \in [Guards -> [min : Nat, max : Nat]] /\ pending \in [Guards -> Hints]
  BY CacheRegistryAssumption DEF RegistryInv, HintsOK
<1>2. h \in [min : Nat, max : Nat]
  BY <1>1
<1>3. CachesOf(g) \in SUBSET Caches
  BY DEF CachesOf, RegistryInv, CachesOK
<1>4. q \in Hints
  BY <1>1, <1>3, NoHintIsHint DEF Hints
<1>5. hints' = [hints EXCEPT ![g] = h]
  BY DEF SetHint
<1>6. pending' = pending \/ pending' = [pending EXCEPT ![g] = q]
  BY DEF SetHint
<1> HIDE DEF h, q
<1>7. hints' \in [Guards -> [min : Nat, max : Nat]] /\ pending' \in [Guards -> Hints]
  BY <1>1, <1>2, <1>4, <1>5, <1>6
<1> QED
  BY <1>7 DEF HintsOK, Hints, Caches

LEMMA HintReadsStep ==
    ASSUME RegistryInv, NEW g \in Guards, NEW c \in Live, HintReads(g, c)
    PROVE  HintsOK'
<1> DEFINE p == pending[g]
           lo == IF p.hint = "min" THEN p.n ELSE caches[c].cap.min
           hi == IF p.hint = "max" THEN p.n ELSE caches[c].cap.max
           q == [p EXCEPT !.left = p.left \ {c}, !.cache = c, !.min = lo, !.max = hi]
<1>1. /\ p \in Hints /\ hints \in [Guards -> [min : Nat, max : Nat]] /\ pending \in [Guards -> Hints]
      /\ c \in Caches /\ caches[c].cap.min \in Nat /\ caches[c].cap.max \in Nat
  BY DEF RegistryInv, HintsOK, CachesOK, CacheOK, CacheRecs, Capacities
<1>2. lo \in Nat /\ hi \in Nat
  BY <1>1 DEF Hints
<1>3. pending' = [pending EXCEPT ![g] = q] /\ hints' = hints
  BY DEF HintReads
<1> HIDE DEF lo, hi, p
<1>4. q \in Hints
  BY <1>1, <1>2 DEF Hints
<1> HIDE DEF q
<1>5. pending' \in [Guards -> Hints]
  BY <1>1, <1>3, <1>4
<1> QED
  BY <1>1, <1>3, <1>5 DEF HintsOK, Hints, Caches

LEMMA LookupStep ==
    ASSUME RegistryInv, NEW c \in Live, NEW grow \in BOOLEAN, NEW busy \in BOOLEAN,
           Lookup(c, grow, busy)
    PROVE  CachesStep({c}) /\ caches'[c].cap.max = caches[c].cap.max
<1> DEFINE x == caches[c]
           y == [size |-> x.size + 1,
                 cap |-> IF grow THEN ResizeCapacity(x.cap, x.cap.real + 1) ELSE x.cap]
<1>1. caches' = [caches EXCEPT ![c] = Trim(y, busy)]
  BY DEF Lookup
<1>2. x \in CacheRecs /\ x.cap \in Capacities /\ x.size + 1 \in Nat /\ x.cap.real + 1 \in Nat
      /\ Follows(x.cap)
  BY DEF RegistryInv, CachesOK, CacheOK, CacheRecs, Capacities, Follows
<1>3. CacheOK(y) /\ y.cap.max = x.cap.max
  <2> DEFINE d == IF grow THEN ResizeCapacity(x.cap, x.cap.real + 1) ELSE x.cap
  <2>1. Follows(d) /\ d.max = x.cap.max
    BY <1>2, ResizeFollows
  <2>2. y = [size |-> x.size + 1, cap |-> d]
    OBVIOUS
  <2> HIDE DEF d
  <2> QED
    BY <1>2, <2>1, <2>2 DEF CacheOK, CacheRecs, Follows
<1> HIDE DEF y
<1>4. CacheOK(Trim(y, busy)) /\ Trim(y, busy).cap = y.cap
  BY <1>3, TrimOK
<1>5. /\ DOMAIN caches' = DOMAIN caches /\ lost' = lost
      /\ \A k \in Live : caches'[k] = IF k = c THEN Trim(y, busy) ELSE caches[k]
  BY <1>1 DEF Live, Lookup
<1>6. \A k \in Live : CacheOK(caches[k])
  BY DEF RegistryInv, CachesOK
<1> QED
  BY <1>3, <1>4, <1>5, <1>6 DEF CachesStep, Live

LEMMA ShrinkStep ==
    ASSUME RegistryInv, NEW d \in Devices, NEW busy \in SUBSET WithFrames, ShrinkCache(d, busy)
    PROVE  CachesStep(Shrunk(d))
<1>1. /\ caches' = [k \in Live |-> IF k \in Shrunk(d)
                                   THEN Trim(SetMax(caches[k], caches[k].size - 1), k \in busy)
                                   ELSE caches[k]]
      /\ lost' = lost
  BY DEF ShrinkCache
<1>2. \A k \in Live : CacheOK(caches[k]) /\ caches[k] \in CacheRecs /\ caches[k].size \in Nat
  BY DEF RegistryInv, CachesOK, CacheOK, CacheRecs
<1>3. ASSUME NEW k \in Live, k \in Shrunk(d)
      PROVE  CacheOK(Trim(SetMax(caches[k], caches[k].size - 1), k \in busy))
  <2>1. caches[k].size # 0
    BY <1>3 DEF Shrunk
  <2>2. caches[k].size - 1 \in Nat
    BY <1>2, <2>1
  <2>3. CacheOK(SetMax(caches[k], caches[k].size - 1))
    BY <1>2, <2>2, SetMaxOK
  <2> QED
    BY <2>3, TrimOK
<1> HIDE DEF Shrunk
<1> QED
  BY <1>1, <1>2, <1>3 DEF CachesStep, Live

\* What each action does to the lists, to the limits and to the hints.
StepOK(c) == StepOfLists(c) /\ CachesOK(Live)' /\ HintsOK' /\ LostOK'

LEMMA Steps ==
    ASSUME RegistryInv, Next
    PROVE  \E c : StepOK(c)
<1>0. /\ Live \subseteq Caches
      /\ \A k \in Live : CacheOK(caches[k])
      /\ hints \in [Guards -> [min : Nat, max : Nat]]
      /\ pending \in [Guards -> Hints]
      /\ lost \subseteq Throwers \X Devices
  BY DEF RegistryInv, CachesOK, HintsOK, LostOK
<1>1. ASSUME NEW g \in Guards, NEW d \in Devices, GetCache(g, d)
      PROVE  StepOK(<<g, d>>)
  <2> DEFINE c == <<g, d>>
  <2>1. c \in Caches /\ c \notin Live /\ lost' = lost
    BY <1>1 DEF GetCache, Missing, Caches
  <2>2. c \in Pointers /\ c \notin All
    BY <1>0, <2>1, PointersApart DEF All
  <2>3. caches' = [k \in Live \cup {c} |-> IF k = c THEN NewCache(hints[g]) ELSE caches[k]]
    BY <1>1 DEF GetCache
  <2>4. CacheOK(NewCache(hints[g]))
    BY <1>0, NewCacheOK
  <2>5. HintsOK'
    BY <1>0, <1>1 DEF GetCache, HintsOK, Hints, Caches
  <2>6. /\ FrontCache' = c /\ recent' = Append(recent, c)
        /\ Registry' = IF FrontCache # NoCache THEN Append(Registry, FrontCache) ELSE Registry
        /\ usedInFront' = usedInFront \cup {c}
    BY <1>1 DEF GetCache, Register
  <2> HIDE DEF c
  <2>7. Live' = Live \cup {c} /\ \A k \in Live' : CacheOK(caches'[k])
    BY <1>0, <2>1, <2>3, <2>4 DEF Live
  <2>8. CachesOK(Live)' /\ LostOK'
    BY <1>0, <2>1, <2>7 DEF CachesOK, Caches, LostOK
  <2>9. StepOfLists(c)
    <3>1. All' = All \cup {c}
      BY <2>1, <2>7 DEF All
    <3> QED
      BY <2>2, <2>6, <3>1 DEF StepOfLists
  <2> QED
    BY <2>5, <2>8, <2>9 DEF c, StepOK
<1>2. ASSUME NEW g \in Guards, NEW d \in Devices, NEW x \in Throwers, GetCacheThrows(g, d, x)
      PROVE  StepOK(<<x, d>>)
  <2> DEFINE c == <<x, d>>
  <2>1. /\ c \in Throwers \X Devices /\ c \notin lost /\ lost' = lost \cup {c}
        /\ caches' = caches /\ hints' = hints /\ pending' = pending
    BY <1>2 DEF GetCacheThrows
  <2>2. c \in Pointers /\ c \notin All
    BY <1>0, <2>1, PointersApart DEF All
  <2>3. /\ FrontCache' = c /\ recent' = Append(recent, c)
        /\ Registry' = IF FrontCache # NoCache THEN Append(Registry, FrontCache) ELSE Registry
        /\ usedInFront' = usedInFront \cup {c}
    BY <1>2 DEF GetCacheThrows, Register
  <2> HIDE DEF c
  <2>4. Live' = Live /\ All' = All \cup {c}
    BY <2>1 DEF Live, All
  <2>5. CachesOK(Live)' /\ HintsOK' /\ LostOK'
    BY <1>0, <2>1, <2>4 DEF CachesOK, Caches, HintsOK, Hints, LostOK
  <2>6. StepOfLists(c)
    BY <2>2, <2>3, <2>4 DEF StepOfLists
  <2> QED
    BY <2>5, <2>6 DEF c, StepOK
<1>3. ASSUME NEW g \in Guards, Release(g)
      PROVE  StepOK(NoCache)
  <2> DEFINE gone == CachesOf(g)
  <2>1. /\ Registry' = Drop(Registry, gone) /\ recent' = Drop(recent, gone)
        /\ FrontCache' = IF FrontCache \in gone THEN NoCache ELSE FrontCache
        /\ usedInFront' = usedInFront \ gone
        /\ caches' = [c \in Live \ gone |-> caches[c]]
        /\ hints' = [hints EXCEPT ![g] = DefaultHints] /\ pending' = pending /\ lost' = lost
    BY <1>3, Zenon DEF Release, UnRegister
  <2>2. gone \in SUBSET Pointers /\ gone \cap lost = {}
    BY <1>0, PointersApart DEF CachesOf
  <2> HIDE DEF gone
  <2>3. Live' = Live \ gone /\ \A k \in Live' : CacheOK(caches'[k])
    BY <1>0, <2>1 DEF Live
  <2>4. All' = All \ gone
    BY <2>1, <2>2, <2>3 DEF All
  <2>5. CachesOK(Live)' /\ LostOK'
    BY <1>0, <2>1, <2>3 DEF CachesOK, Caches, LostOK
  <2>6. HintsOK'
    <3>1. DefaultHints \in [min : Nat, max : Nat]
      BY UnlimitedAssumption DEF DefaultHints
    <3> QED
      BY <1>0, <2>1, <3>1 DEF HintsOK, Hints, Caches
  <2>7. StepOfLists(NoCache)
    BY <2>1, <2>2, <2>4, Zenon DEF StepOfLists
  <2> QED
    BY <2>5, <2>6, <2>7 DEF StepOK
<1>4. ASSUME NEW S, CachesStep(S), HintsOK', UNCHANGED <<FrontCache, Registry, recent, usedInFront>>
      PROVE  StepOK(NoCache)
  <2>1. CachesOK(Live)' /\ LostOK' /\ All' = All
    BY <1>0, <1>4 DEF CachesStep, CachesOK, Caches, LostOK, All
  <2> QED
    BY <1>4, <2>1 DEF StepOK, StepOfLists
<1>5. ASSUME HintsOK', UNCHANGED <<FrontCache, Registry, caches, recent, usedInFront, lost>>
      PROVE  StepOK(NoCache)
  <2>1. CachesStep({})
    BY <1>0, <1>5 DEF CachesStep, Live
  <2> QED
    BY <1>4, <1>5, <2>1
<1>6. ASSUME NEW g \in Guards, NEW hint \in {"min", "max"}, NEW n \in HintValues, SetHint(g, hint, n)
      PROVE  StepOK(NoCache)
  <2>1. HintsOK'
    BY <1>6, SetHintStep
  <2> QED
    BY <1>5, <1>6, <2>1 DEF SetHint
<1>7. ASSUME NEW g \in Guards, NEW c \in Live, HintReads(g, c)
      PROVE  StepOK(NoCache)
  <2>1. HintsOK'
    BY <1>7, HintReadsStep
  <2> QED
    BY <1>5, <1>7, <2>1 DEF HintReads
<1>8. ASSUME NEW g \in Guards, NEW busy \in BOOLEAN, HintWrites(g, busy)
      PROVE  StepOK(NoCache)
  <2>1. CachesStep({pending[g].cache}) /\ HintsOK'
    BY <1>8, HintWritesStep
  <2>2. UNCHANGED <<FrontCache, Registry, recent, usedInFront>>
    BY <1>8 DEF HintWrites
  <2> QED
    BY <1>4, <2>1, <2>2
<1>9. ASSUME NEW c \in Live, Nod(c), Used(c), CachesOK(Live)', Live' = Live,
             hints' = hints, pending' = pending, lost' = lost
      PROVE  StepOK(c)
  <2>1. HintsOK' /\ LostOK' /\ c \in All /\ All' = All
    BY <1>0, <1>9 DEF HintsOK, Hints, Caches, LostOK, All
  <2>2. StepOfLists(c)
    BY <1>9, <2>1 DEF Nod, Used, StepOfLists
  <2> QED
    BY <1>9, <2>1, <2>2 DEF StepOK
<1>10. ASSUME NEW c \in Live, NodCache(c)
       PROVE  StepOK(c)
  <2>1. /\ Nod(c) /\ Used(c) /\ caches' = caches /\ hints' = hints /\ pending' = pending
        /\ lost' = lost
    BY <1>10 DEF NodCache
  <2>2. Live' = Live /\ CachesOK(Live)'
    BY <1>0, <2>1 DEF Live, CachesOK, Caches
  <2> QED
    BY <1>9, <2>1, <2>2
<1>11. ASSUME NEW c \in Live, NEW short \in BOOLEAN, NEW busy \in BOOLEAN,
              NodAndExpandCache(c, short, busy)
       PROVE  StepOK(c)
  <2>1. Live' = Live /\ Expands(c)
    BY <1>11, ExpandStep
  <2>2. CachesOK(Live)'
    BY <1>0, <2>1 DEF Expands, CachesOK, Caches
  <2>3. Nod(c) /\ Used(c) /\ hints' = hints /\ pending' = pending /\ lost' = lost
    BY <1>11 DEF NodAndExpandCache
  <2> QED
    BY <1>9, <2>1, <2>2, <2>3
<1>12. ASSUME NEW c \in Live, NEW grow \in BOOLEAN, NEW busy \in BOOLEAN, Lookup(c, grow, busy)
       PROVE  StepOK(NoCache)
  <2>1. CachesStep({c})
    BY <1>12, LookupStep
  <2>2. HintsOK'
    BY <1>0, <1>12 DEF Lookup, HintsOK, Hints, Caches
  <2> QED
    BY <1>4, <1>12, <2>1, <2>2 DEF Lookup
<1>13. ASSUME NEW d \in Devices, NEW busy \in SUBSET WithFrames, ShrinkCache(d, busy)
       PROVE  StepOK(NoCache)
  <2>1. CachesStep(Shrunk(d))
    BY <1>13, ShrinkStep
  <2>2. HintsOK'
    BY <1>0, <1>13 DEF ShrinkCache, HintsOK, Hints, Caches
  <2> QED
    BY <1>4, <1>13, <2>1, <2>2 DEF ShrinkCache
<1> QED
  BY <1>1, <1>2, <1>3, <1>6, <1>7, <1>8, <1>10, <1>11, <1>12, <1>13, Zenon DEF Next

LEMMA StepInv == RegistryInv /\ [Next]_vars => RegistryInv'
<1>1. ASSUME RegistryInv, Next PROVE RegistryInv'
  <2>1. PICK c : StepOK(c)
    BY <1>1, Steps
  <2>2. StepOfLists(c) /\ CachesOK(Live)' /\ HintsOK' /\ LostOK'
    BY <2>1 DEF StepOK
  <2>3. ListsOK(FrontCache', Registry', All', recent', usedInFront')
    BY <1>1, <2>2, ListsStep DEF RegistryInv
  <2> QED
    BY <2>2, <2>3, Zenon DEF RegistryInv, ListsOK
<1>2. ASSUME RegistryInv, UNCHANGED vars PROVE RegistryInv'
  <2>1. /\ FrontCache' = FrontCache /\ Registry' = Registry /\ caches' = caches /\ hints' = hints
        /\ pending' = pending /\ recent' = recent /\ usedInFront' = usedInFront /\ lost' = lost
    BY <1>2 DEF vars
  <2> QED
    BY <1>2, <2>1 DEF RegistryInv, CachesOK, HintsOK, LostOK, ListsOK, Live, All, Caches, Hints, Pointers
<1> QED
  BY <1>1, <1>2

THEOREM RegistryInvariance == Spec => []RegistryInv
<1> QED
  BY InitInv, StepInv, PTL DEF Spec

-------------------------------------------------------------------------------
(* The properties                                                          *)

LEMMA InvExact == RegistryInv => RegistryExact
<1> SUFFICES ASSUME RegistryInv PROVE RegistryExact
  OBVIOUS
<1>1. /\ FrontCache \in Pointers \cup {NoCache}
      /\ Registry \in Seq(Pointers) /\ Distinct(Registry)
      /\ All = Members(Registry) \cup ({FrontCache} \ {NoCache})
      /\ FrontCache \notin Members(Registry)
      /\ \A b, c : Precedes(Registry, b, c) => Precedes(recent, b, c) \/ c \in usedInFront
      /\ recent \in Seq(Pointers)
  BY DEF RegistryInv, ListsOK
<1>2. TypeOK
  BY <1>1 DEF RegistryInv, TypeOK, CachesOK, CacheOK, CacheRecs, HintsOK, LostOK
<1>3. DOMAIN Registry = 1 .. Len(Registry) /\ DOMAIN recent = 1 .. Len(recent)
  BY <1>1
<1>4. \A c : InList(c) <=> c \in Members(Registry)
  BY <1>3 DEF InList, Listed, Members
<1>5. \A b, c : UsedBefore(b, c) <=> Precedes(recent, b, c)
  BY <1>3 DEF UsedBefore, Precedes
<1>6. NoCache \notin Pointers
  BY PointersApart
<1>7. \A c \in Pointers : c \in Live \cup lost <=> (c = FrontCache \/ InList(c))
  BY <1>1, <1>4, <1>6 DEF All
<1>8. \A i, j \in DOMAIN Registry : Registry[i] = Registry[j] => i = j
  BY <1>1, <1>3 DEF Distinct
<1>9. ASSUME NEW i \in DOMAIN Registry, NEW j \in DOMAIN Registry, i < j
      PROVE  UsedBefore(Registry[i], Registry[j]) \/ Registry[j] \in usedInFront
  <2>1. Precedes(Registry, Registry[i], Registry[j])
    BY <1>3, <1>9 DEF Precedes
  <2> QED
    BY <1>1, <1>5, <2>1
<1>10. ~InList(FrontCache)
  BY <1>1, <1>4
<1> QED
  BY <1>2, <1>7, <1>8, <1>9, <1>10 DEF RegistryExact

\* Every cache is registered exactly once, in the order of use, and beside the
\* caches there is nothing but what constructors that threw have left.
THEOREM RegistryExactHolds == Spec => []RegistryExact
<1> QED
  BY RegistryInvariance, InvExact, PTL

LEMMA OldestOnIs ==
    ASSUME NEW list \in Seq(Pointers), NEW c, OldestOn(c, list) # NoCache
    PROVE  \E i \in 1 .. Len(list) :
              /\ OldestOn(c, list) = list[i] /\ Device(list[i]) = Device(c)
              /\ \A j \in 1 .. Len(list) : Device(list[j]) = Device(c) => i <= j
<1> DEFINE T == {i \in DOMAIN list : Device(list[i]) = Device(c)}
<1>1. DOMAIN list = 1 .. Len(list)
  OBVIOUS
<1>2. OldestOn(c, list) = list[CHOOSE i \in T : \A j \in T : i <= j] /\ T # {}
  BY DEF OldestOn
<1>3. T \subseteq Nat
  BY <1>1
<1>4. \A i \in T : i \in 1 .. Len(list) /\ Device(list[i]) = Device(c)
  BY <1>1
<1>5. \A j \in 1 .. Len(list) : Device(list[j]) = Device(c) => j \in T
  BY <1>1
<1> HIDE DEF T
<1>6. \E i \in T : \A j \in T : i <= j
  BY <1>2, <1>3, LeastNumber
<1>7. PICK i \in T : (\A j \in T : i <= j) /\ OldestOn(c, list) = list[i]
  BY <1>2, <1>6
<1> QED
  BY <1>4, <1>5, <1>7

\* The caches whose limits change in NodAndExpandCache.
LEMMA ExpandChanges ==
    ASSUME RegistryInv, NEW c \in Live, NEW short \in BOOLEAN, NEW busy \in BOOLEAN,
           NodAndExpandCache(c, short, busy)
    PROVE  \E giver :
             /\ \A k \in Live \ {c, giver} : caches'[k] = caches[k]
             /\ giver \in Live =>
                  /\ giver # FrontCache /\ Device(giver) = Device(c)
                  /\ \A other \in Live \ {c, giver, FrontCache} :
                        Device(other) = Device(c)
                          => Precedes(recent, giver, other) \/ other \in usedInFront
<1>0. NoCache \notin Live
  BY CacheRegistryAssumption DEF RegistryInv, CachesOK, Caches
<1>1. PICK giver : /\ giver = NoCache \/ giver = OldestOn(c, Registry')
                   /\ \A k \in Live \ {c, giver} : caches'[k] = caches[k]
  BY ExpandStep DEF Expands
<1>2. /\ Registry \in Seq(Pointers) /\ Distinct(Registry) /\ c \in Pointers
      /\ All = Members(Registry) \cup ({FrontCache} \ {NoCache}) /\ Live \subseteq All
      /\ FrontCache \notin Members(Registry)
      /\ \A a, b : Precedes(Registry, a, b) => Precedes(recent, a, b) \/ b \in usedInFront
  BY PointersApart DEF RegistryInv, ListsOK, CachesOK, All
<1>3. Registry' = IF c = FrontCache THEN Registry ELSE ToBack(Registry, c)
  BY DEF NodAndExpandCache, Nod
<1>4. /\ Registry' \in Seq(Pointers) /\ FrontCache \notin Members(Registry')
      /\ \A k \in Live \ {FrontCache} : k \in Members(Registry')
      /\ \A a, b : Precedes(Registry', a, b) /\ b # c => Precedes(Registry, a, b)
  <2>1. CASE c = FrontCache
    <3>1. Registry' = Registry
      BY <1>3, <2>1
    <3> QED
      BY <1>2, <3>1
  <2>2. CASE c # FrontCache
    <3>1. Registry' = ToBack(Registry, c)
      BY <1>3, <2>2
    <3>2. /\ Registry' \in Seq(Pointers) /\ Members(Registry') = Members(Registry) \cup {c}
          /\ \A a, b : Precedes(Registry', a, b)
                         <=> \/ Precedes(Registry, a, b) /\ a # c /\ b # c
                             \/ a \in Members(Registry) \ {c} /\ b = c
      BY <1>2, <3>1, ToBackList
    <3> QED
      BY <1>2, <2>2, <3>2
  <2> QED
    BY <2>1, <2>2
<1> DEFINE list == Registry'
<1> HIDE DEF list
<1>5. ASSUME giver \in Live
      PROVE  /\ giver # FrontCache /\ Device(giver) = Device(c)
             /\ \A other \in Live \ {c, giver, FrontCache} :
                   Device(other) = Device(c)
                     => Precedes(recent, giver, other) \/ other \in usedInFront
  <2>1. giver = OldestOn(c, list) /\ giver # NoCache
    BY <1>0, <1>1, <1>5 DEF list
  <2>2. list \in Seq(Pointers)
    BY <1>4 DEF list
  <2>3. PICK i \in 1 .. Len(list) :
              /\ giver = list[i] /\ Device(list[i]) = Device(c)
              /\ \A j \in 1 .. Len(list) : Device(list[j]) = Device(c) => i <= j
    BY <2>1, <2>2, OldestOnIs
  <2>4. giver \in Members(list)
    BY <2>3 DEF Members
  <2>5. giver # FrontCache
    BY <1>4, <2>4 DEF list
  <2>6. ASSUME NEW other \in Live \ {c, giver, FrontCache}, Device(other) = Device(c)
        PROVE  Precedes(recent, giver, other) \/ other \in usedInFront
    <3>1. PICK j \in 1 .. Len(list) : list[j] = other
      BY <1>4 DEF list, Members
    <3>2. i <= j /\ i # j
      BY <2>3, <2>6, <3>1
    <3>3. i < j
      BY <3>2
    <3>4. Precedes(list, giver, other)
      BY <2>3, <3>1, <3>3 DEF Precedes
    <3> QED
      BY <1>2, <1>4, <3>4 DEF list
  <2> QED
    BY <2>3, <2>5, <2>6
<1> QED
  BY <1>1, <1>5
\* The newest cache keeps its limit in every step that is not a hint's.
LEMMA FrontStep ==
    ASSUME RegistryInv, Next, pending' = pending, FrontCache \in Live \cap DOMAIN caches'
    PROVE  caches'[FrontCache].cap.max >= caches[FrontCache].cap.max
<1> DEFINE f == FrontCache
<1>0. /\ \A k \in Live : caches[k].cap.max \in Nat
      /\ \A g \in Guards : pending[g] \in Hints
      /\ NoCache \notin Live /\ f \notin Members(Registry) /\ DOMAIN Registry = 1 .. Len(Registry)
      /\ pending = [g \in Guards |-> pending[g]]
  <2>1. \A k \in Live : caches[k].cap.max \in Nat
    BY DEF RegistryInv, CachesOK, CacheOK, CacheRecs, Capacities
  <2>2. pending \in [Guards -> Hints]
    BY DEF RegistryInv, HintsOK
  <2>3. Live \subseteq Caches
    BY DEF RegistryInv, CachesOK
  <2>4. NoCache \notin Live
    BY <2>3, CacheRegistryAssumption DEF Caches
  <2>5. Registry \in Seq(Pointers) /\ f \notin Members(Registry)
    BY DEF RegistryInv, ListsOK
  <2>6. pending = [g \in Guards |-> pending[g]]
    BY <2>2
  <2> HIDE DEF f
  <2> QED
    BY <2>1, <2>2, <2>4, <2>5, <2>6
<1>1. ASSUME caches'[f] = caches[f] \/ caches'[f].cap = caches[f].cap
      PROVE  caches'[f].cap.max >= caches[f].cap.max
  BY <1>0, <1>1
<1>2. ASSUME NEW g \in Guards, NEW d \in Devices, GetCache(g, d)
      PROVE  caches'[f] = caches[f]
  <2>1. <<g, d>> # f
    BY <1>2 DEF GetCache, Missing
  <2> QED
    BY <1>2, <2>1 DEF GetCache
<1>3. ASSUME NEW g \in Guards, Release(g) PROVE caches'[f] = caches[f]
  BY <1>3 DEF Release
<1>4. ASSUME NEW g \in Guards, NEW busy \in BOOLEAN, HintWrites(g, busy) PROVE FALSE
  <2> DEFINE q == IF pending[g].left = {} THEN NoHint ELSE [pending[g] EXCEPT !.cache = NoCache]
  <2>1. pending' = [pending EXCEPT ![g] = q] /\ pending[g].cache # NoCache
    BY <1>4 DEF HintWrites
  <2>2. q.cache = NoCache
    BY <1>0 DEF NoHint, Hints
  <2> HIDE DEF q
  <2>3. pending'[g] = q
    BY <1>0, <2>1
  <2> QED
    BY <2>1, <2>2, <2>3
<1>5. ASSUME \/ \E g \in Guards, d \in Devices, x \in Throwers : GetCacheThrows(g, d, x)
             \/ \E g \in Guards, hint \in {"min", "max"}, n \in HintValues : SetHint(g, hint, n)
             \/ \E g \in Guards, c \in Live : HintReads(g, c)
             \/ \E c \in Live : NodCache(c)
      PROVE  caches'[f] = caches[f]
  BY <1>5 DEF GetCacheThrows, SetHint, HintReads, NodCache
<1>6. ASSUME NEW c \in Live, NEW short \in BOOLEAN, NEW busy \in BOOLEAN,
             NodAndExpandCache(c, short, busy)
      PROVE  caches'[f].cap.max >= caches[f].cap.max
  <2>1. CASE f = c
    <3>1. Expands(c)
      BY <1>6, ExpandStep
    <3> QED
      BY <2>1, <3>1 DEF Expands
  <2>2. CASE f # c
    <3>1. PICK giver : /\ \A k \in Live \ {c, giver} : caches'[k] = caches[k]
                       /\ giver \in Live => giver # f
      BY <1>6, ExpandChanges
    <3> QED
      BY <1>1, <2>2, <3>1
  <2> QED
    BY <2>1, <2>2
<1>7. ASSUME NEW c \in Live, NEW grow \in BOOLEAN, NEW busy \in BOOLEAN, Lookup(c, grow, busy)
      PROVE  caches'[f].cap.max >= caches[f].cap.max
  <2>1. CachesStep({c}) /\ caches'[c].cap.max = caches[c].cap.max
    BY <1>7, LookupStep
  <2> QED
    BY <1>0, <1>1, <2>1 DEF CachesStep
<1>8. ASSUME NEW d \in Devices, NEW busy \in SUBSET WithFrames, ShrinkCache(d, busy)
      PROVE  caches'[f].cap = caches[f].cap
  <2>1. CachesStep(Shrunk(d))
    BY <1>8, ShrinkStep
  <2>2. f \notin Shrunk(d)
    BY <1>0 DEF Shrunk, Members
  <2> QED
    BY <2>1, <2>2 DEF CachesStep
<1> QED
  BY <1>1, <1>2, <1>3, <1>4, <1>5, <1>6, <1>7, <1>8, Zenon DEF Next

\* Memory that is short is never taken from the newest cache.
THEOREM FrontKeepsLimitHolds == Spec => FrontKeepsLimit
<1>1. RegistryInv /\ [Next]_vars
        => [pending' = pending /\ FrontCache \in Live \cap DOMAIN caches'
              => (caches'[FrontCache].cap.max >= caches[FrontCache].cap.max)]_vars
  <2> SUFFICES ASSUME RegistryInv, [Next]_vars, ~(UNCHANGED vars), pending' = pending,
                      FrontCache \in Live \cap DOMAIN caches'
               PROVE  caches'[FrontCache].cap.max >= caches[FrontCache].cap.max
    BY Zenon
  <2>1. Next
    OBVIOUS
  <2> QED
    BY <2>1, FrontStep
<1> QED
  BY <1>1, RegistryInvariance, PTL DEF Spec, FrontKeepsLimit

\* One device at a time, and the oldest one of it: what a step may do to limits.
GivesTo(c, k) ==
    LET Rest == Live \ {c, FrontCache}
    IN  /\ k \in Rest /\ Device(k) = Device(c)
        /\ \A other \in Rest \ {k} :
              /\ caches'[other] = caches[other]
              /\ Device(other) = Device(c) => UsedBefore(k, other) \/ other \in usedInFront

LEMMA GiverStep ==
    ASSUME RegistryInv, Next, recent' # recent, DOMAIN caches' = Live,
           NEW k \in Live \ {recent'[Len(recent')]}, caches'[k].cap # caches[k].cap
    PROVE  GivesTo(recent'[Len(recent')], k)
<1>0. /\ recent \in Seq(Pointers) /\ Distinct(recent) /\ Live \subseteq Pointers
      /\ DOMAIN recent = 1 .. Len(recent)
  BY PointersApart DEF RegistryInv, ListsOK, CachesOK
<1>1. ASSUME NEW g \in Guards, NEW d \in Devices, GetCache(g, d) PROVE FALSE
  <2>1. <<g, d>> \notin Live /\ DOMAIN caches' = Live \cup {<<g, d>>}
    BY <1>1 DEF GetCache, Missing
  <2> QED
    BY <2>1
<1>2. ASSUME NEW g \in Guards, Release(g) PROVE FALSE
  <2>1. DOMAIN caches' = Live => caches'[k] = caches[k]
    BY <1>2 DEF Release
  <2> QED
    BY <2>1
<1>3. ASSUME \/ \E c \in Live : NodCache(c)
             \/ \E g \in Guards, busy \in BOOLEAN : HintWrites(g, busy)
             \/ \E g \in Guards, d \in Devices, x \in Throwers : GetCacheThrows(g, d, x)
             \/ \E g \in Guards, hint \in {"min", "max"}, n \in HintValues : SetHint(g, hint, n)
             \/ \E g \in Guards, c \in Live : HintReads(g, c)
             \/ \E c \in Live, grow \in BOOLEAN, busy \in BOOLEAN : Lookup(c, grow, busy)
             \/ \E d \in Devices, busy \in SUBSET WithFrames : ShrinkCache(d, busy)
      PROVE  FALSE
  BY <1>3 DEF NodCache, GetCacheThrows, SetHint, HintWrites, HintReads, Lookup, ShrinkCache
<1>4. ASSUME NEW c \in Live, NEW short \in BOOLEAN, NEW busy \in BOOLEAN,
             NodAndExpandCache(c, short, busy)
      PROVE  GivesTo(recent'[Len(recent')], k)
  <2>1. recent' = ToBack(recent, c)
    BY <1>4 DEF NodAndExpandCache, Used
  <2>2. recent'[Len(recent')] = c
    BY <1>0, <2>1, ToBackList
  <2>3. PICK giver :
             /\ \A x \in Live \ {c, giver} : caches'[x] = caches[x]
             /\ giver \in Live =>
                  /\ giver # FrontCache /\ Device(giver) = Device(c)
                  /\ \A other \in Live \ {c, giver, FrontCache} :
                        Device(other) = Device(c)
                          => Precedes(recent, giver, other) \/ other \in usedInFront
    BY <1>4, ExpandChanges
  <2>4. k = giver /\ k # c
    BY <2>2, <2>3
  <2>5. \A a, b : Precedes(recent, a, b) => UsedBefore(a, b)
    BY <1>0 DEF UsedBefore, Precedes
  <2>6. GivesTo(c, k)
    BY <2>3, <2>4, <2>5 DEF GivesTo
  <2> QED
    BY <2>2, <2>6
<1> QED
  BY <1>1, <1>2, <1>3, <1>4, Zenon DEF Next

LEMMA DevicesApart ==
    ASSUME RegistryInv, Next, NEW b \in Live \cap DOMAIN caches', NEW c \in Live \cap DOMAIN caches',
           caches'[b].cap # caches[b].cap, caches'[c].cap # caches[c].cap
    PROVE  Device(b) = Device(c)
<1>1. ASSUME NEW g \in Guards, NEW d \in Devices, GetCache(g, d) PROVE FALSE
  <2>1. <<g, d>> # b
    BY <1>1 DEF GetCache, Missing
  <2> QED
    BY <1>1, <2>1 DEF GetCache
<1>2. ASSUME NEW g \in Guards, Release(g) PROVE FALSE
  BY <1>2 DEF Release
<1>3. ASSUME \/ \E k \in Live : NodCache(k)
             \/ \E g \in Guards, d \in Devices, x \in Throwers : GetCacheThrows(g, d, x)
             \/ \E g \in Guards, hint \in {"min", "max"}, n \in HintValues : SetHint(g, hint, n)
             \/ \E g \in Guards, k \in Live : HintReads(g, k)
      PROVE  FALSE
  BY <1>3 DEF NodCache, GetCacheThrows, SetHint, HintReads
<1>4. ASSUME NEW k, CachesStep({k}) PROVE Device(b) = Device(c)
  BY <1>4 DEF CachesStep
<1>5. ASSUME NEW g \in Guards, NEW busy \in BOOLEAN, HintWrites(g, busy)
      PROVE  Device(b) = Device(c)
  BY <1>4, <1>5, HintWritesStep
<1>6. ASSUME NEW k \in Live, NEW grow \in BOOLEAN, NEW busy \in BOOLEAN, Lookup(k, grow, busy)
      PROVE  Device(b) = Device(c)
  BY <1>4, <1>6, LookupStep
<1>7. ASSUME NEW k \in Live, NEW short \in BOOLEAN, NEW busy \in BOOLEAN,
             NodAndExpandCache(k, short, busy)
      PROVE  Device(b) = Device(c)
  <2>1. PICK giver : /\ \A x \in Live \ {k, giver} : caches'[x] = caches[x]
                     /\ giver \in Live => Device(giver) = Device(k)
    BY <1>7, ExpandChanges
  <2> QED
    BY <2>1
<1>8. ASSUME NEW d \in Devices, NEW busy \in SUBSET WithFrames, ShrinkCache(d, busy)
      PROVE  Device(b) = Device(c)
  <2>1. CachesStep(Shrunk(d))
    BY <1>8, ShrinkStep
  <2>2. \A x \in Shrunk(d) : Device(x) = d
    BY DEF Shrunk
  <2> QED
    BY <2>1, <2>2 DEF CachesStep
<1> QED
  BY <1>1, <1>2, <1>3, <1>5, <1>6, <1>7, <1>8, Zenon DEF Next

\* A cache that needs room takes it from the oldest one of its device, and from
\* no other.
THEOREM OldestGivesHolds == Spec => OldestGives
<1> DEFINE A == recent' # recent /\ DOMAIN caches' = Live =>
                  LET c == recent'[Len(recent')]
                      Rest == Live \ {c, FrontCache}
                  IN  \A k \in Live \ {c} :
                         caches'[k].cap # caches[k].cap =>
                            /\ k \in Rest /\ Device(k) = Device(c)
                            /\ \A other \in Rest \ {k} :
                                  /\ caches'[other] = caches[other]
                                  /\ Device(other) = Device(c)
                                        => UsedBefore(k, other) \/ other \in usedInFront
           B == \A b, c \in Live \cap DOMAIN caches' :
                   caches'[b].cap # caches[b].cap /\ caches'[c].cap # caches[c].cap
                      => Device(b) = Device(c)
<1>1. RegistryInv /\ Next => A
  BY GiverStep, Zenon DEF GivesTo
<1>2. RegistryInv /\ Next => B
  BY DevicesApart
<1>3. RegistryInv /\ [Next]_vars => [A /\ B]_vars
  BY <1>1, <1>2, Zenon
<1> QED
  BY <1>3, RegistryInvariance, PTL DEF Spec, OldestGives
===============================================================================
