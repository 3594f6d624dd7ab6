--------------------------- MODULE FrameRegistryProofs ---------------------------
(***************************************************************************)
(* Proofs about FrameRegistry: for any number of threads, frames and       *)
(* buffers and any limits, the reference counts are right, a thread that   *)
(* may write to a frame is alone with its buffer, and nobody's frame       *)
(* properties change behind his back.                                      *)
(*                                                                         *)
(* The inductive invariant Good is stated of its arguments, so that the    *)
(* lemmas below can say what each operation does to the frames fr, the     *)
(* buffers bf, the references rf, the threads' places p and the permission *)
(* to write w, also half way through a step that does several of them.     *)
(***************************************************************************)
EXTENDS FrameRegistry, ListProofs, FiniteSetTheorems

FrameRecs == [alive : BOOLEAN, refcount : Nat, vfb : Bufs \cup {None}, props : {"clear", "set"}]
BufRecs == [alive : BOOLEAN, refcount : Nat, size : Nat, free_count : Nat, list : Seq(Frames)]
Places == [at : Labels, frame : Frames \cup {None}, src : Frames \cup Bufs \cup {None}]

Typed(fr, bf, rf, p, w) ==
    /\ fr \in [Frames -> FrameRecs]
    /\ bf \in [Bufs -> BufRecs]
    /\ rf \in [Holders -> SUBSET Frames]
    /\ p \in [Threads -> Places]
    /\ w \in [Threads -> Frames \cup {None}]

Making == {"new", "subframe", "replace"}

\* The frames without a reference that a thread is about to hand out, those
\* among them that are not in the registry yet, who holds frame f, the frames
\* that count as a use of buffer b, and the decrements of b still to come.
PendingIn(p)     == {p[t].frame : t \in {u \in Threads : p[u].at \in Making}}
Unlisted(p)      == {p[t].frame : t \in {u \in Threads : p[u].at \in {"subframe", "replace"}}}
HoldersOf(rf, f) == {h \in Holders : f \in rf[h]}
InUse(fr, p, b)  == {f \in Frames : fr[f].vfb = b /\ (fr[f].refcount > 0 \/ f \in PendingIn(p))}
Releasing(p, b)  == {t \in Threads : p[t].at = "release" /\ p[t].src = b}

CountsOK(fr, bf, rf, p) ==
    /\ \A f \in Frames : fr[f].refcount = Cardinality(HoldersOf(rf, f))
    /\ \A b \in Bufs : bf[b].refcount = Cardinality(InUse(fr, p, b)) + Cardinality(Releasing(p, b))

\* Frames and buffers refer to each other, and what does not exist is blank.
LinksOK(fr, bf, p) ==
    /\ \A f \in Frames : fr[f].alive => fr[f].vfb \in Bufs /\ bf[fr[f].vfb].alive
    /\ \A f \in Frames : ~fr[f].alive => fr[f].refcount = 0 /\ fr[f].vfb = None
    /\ \A b \in Bufs : bf[b].alive => bf[b].list # <<>>
    /\ \A b \in Bufs : ~bf[b].alive => bf[b].list = <<>> /\ bf[b].refcount = 0
    /\ \A b \in Bufs : \A f \in ToSet(bf[b].list) : fr[f].alive /\ fr[f].vfb = b /\ f \notin Unlisted(p)
    /\ \A f \in Frames : fr[f].alive /\ f \notin Unlisted(p) => f \in ToSet(bf[fr[f].vfb].list)

\* What each thread relies on where it is.
FreshOK(fr, p, t) ==
    p[t].at \in Making =>
        /\ p[t].frame \in Frames /\ fr[p[t].frame].alive /\ fr[p[t].frame].refcount = 0
        /\ \A u \in Threads \ {t} : p[u].at \in Making => p[u].frame # p[t].frame
SoleOK(fr, bf, p, t) ==
    p[t].at = "new" =>
        /\ fr[p[t].frame].props = "clear"
        /\ bf[fr[p[t].frame].vfb].list = <<p[t].frame>>
        /\ \A g \in Frames : g # p[t].frame => fr[g].vfb # fr[p[t].frame].vfb
SourceOK(rf, p, w, t) ==
    /\ p[t].at = "idle" => p[t] = Idle
    /\ p[t].at = "new" /\ p[t].src # None => p[t].src \in rf[t] /\ w[t] = None
    /\ p[t].at = "copy" => p[t].src \in rf[t] /\ w[t] = None
    /\ p[t].at \in {"subframe", "replace"} => p[t].src \in rf[t] /\ p[t].src # w[t]
    /\ p[t].at = "release" => p[t].src \in Bufs
CheckOK(fr, rf, p, w, t) ==
    p[t].at \in {"check", "makewritable"} =>
        p[t].frame \in rf[t] /\ fr[p[t].frame].refcount = 1 /\ w[t] = None
WriterOK(fr, bf, rf, w, t) ==
    w[t] # None => /\ w[t] \in rf[t] /\ fr[w[t]].refcount = 1
                   /\ bf[fr[w[t]].vfb].refcount = 1

ThreadOK(fr, bf, rf, p, w, t) ==
    /\ FreshOK(fr, p, t)
    /\ SoleOK(fr, bf, p, t)
    /\ SourceOK(rf, p, w, t)
    /\ CheckOK(fr, rf, p, w, t)
    /\ WriterOK(fr, bf, rf, w, t)

Good(fr, bf, rf, p, w) ==
    /\ Typed(fr, bf, rf, p, w)
    /\ CountsOK(fr, bf, rf, p)
    /\ LinksOK(fr, bf, p)
    /\ \A t \in Threads : ThreadOK(fr, bf, rf, p, w, t)

RegistryInv == Good(frames, bufs, refs, pc, writing)

-------------------------------------------------------------------------------
(* Counting                                                                *)

LEMMA FiniteSets1 ==
    /\ IsFiniteSet(Holders) /\ IsFiniteSet(Threads) /\ IsFiniteSet(Frames)
    /\ 0 \notin Frames /\ 0 \notin Bufs
    /\ \A rf, f : IsFiniteSet(HoldersOf(rf, f)) /\ Cardinality(HoldersOf(rf, f)) \in Nat
    /\ \A fr, p, b : IsFiniteSet(InUse(fr, p, b)) /\ Cardinality(InUse(fr, p, b)) \in Nat
    /\ \A p, b : IsFiniteSet(Releasing(p, b)) /\ Cardinality(Releasing(p, b)) \in Nat
<1>1. IsFiniteSet(Threads) /\ MaxFrames \in Nat /\ MaxBufs \in Nat
  BY RegistryAssumption
<1>2. IsFiniteSet(Holders)
  BY <1>1, FS_AddElement DEF Holders
<1>3. IsFiniteSet(Frames)
  BY <1>1, FS_Interval DEF Frames
<1>4. ASSUME NEW rf, NEW f
      PROVE  IsFiniteSet(HoldersOf(rf, f)) /\ Cardinality(HoldersOf(rf, f)) \in Nat
  <2>1. HoldersOf(rf, f) \in SUBSET Holders
    BY DEF HoldersOf
  <2> QED
    BY <1>2, <2>1, FS_Subset, FS_CardinalityType
<1>5. ASSUME NEW fr, NEW p, NEW b
      PROVE  IsFiniteSet(InUse(fr, p, b)) /\ Cardinality(InUse(fr, p, b)) \in Nat
  <2>1. InUse(fr, p, b) \in SUBSET Frames
    BY DEF InUse
  <2> QED
    BY <1>3, <2>1, FS_Subset, FS_CardinalityType
<1>6. ASSUME NEW p, NEW b
      PROVE  IsFiniteSet(Releasing(p, b)) /\ Cardinality(Releasing(p, b)) \in Nat
  <2>1. Releasing(p, b) \in SUBSET Threads
    BY DEF Releasing
  <2> QED
    BY <1>1, <2>1, FS_Subset, FS_CardinalityType
<1>7. 0 \notin Frames /\ 0 \notin Bufs
  BY <1>1 DEF Frames, Bufs
<1> QED
  BY <1>1, <1>2, <1>3, <1>4, <1>5, <1>6, <1>7

LEMMA AddOne ==
    ASSUME NEW S, IsFiniteSet(S), NEW x, x \notin S, NEW T, T = S \cup {x}
    PROVE  Cardinality(T) = Cardinality(S) + 1
BY FS_AddElement

LEMMA RemoveOne ==
    ASSUME NEW S, IsFiniteSet(S), NEW x \in S, NEW T, T = S \ {x}
    PROVE  Cardinality(T) = Cardinality(S) - 1
BY FS_RemoveElement

\* A set of one element has no two.
LEMMA OneElement ==
    ASSUME NEW S, IsFiniteSet(S), Cardinality(S) = 1, NEW x \in S, NEW y \in S
    PROVE  x = y
<1>1. PICK z : S = {z}
  BY FS_Singleton
<1> QED
  BY <1>1

\* Whoever holds a frame is counted; a count of one leaves no other holder.
LEMMA Held ==
    ASSUME NEW fr, NEW bf, NEW rf, NEW p, NEW w, Good(fr, bf, rf, p, w),
           NEW h \in Holders, NEW f \in rf[h]
    PROVE  /\ f \in Frames /\ fr[f].refcount \in Nat /\ fr[f].refcount > 0
           /\ fr[f].alive /\ fr[f].vfb \in Bufs /\ bf[fr[f].vfb].alive
           /\ f \notin PendingIn(p)
           /\ fr[f].refcount = 1 => \A g \in Holders : f \in rf[g] => g = h
<1>1. f \in Frames /\ fr[f] \in FrameRecs
  BY DEF Good, Typed
<1>2. fr[f].refcount = Cardinality(HoldersOf(rf, f)) /\ h \in HoldersOf(rf, f)
  BY <1>1 DEF Good, CountsOK, HoldersOf
<1>3. IsFiniteSet(HoldersOf(rf, f)) /\ Cardinality(HoldersOf(rf, f)) \in Nat
  BY FiniteSets1
<1>4. fr[f].refcount > 0 /\ fr[f].refcount \in Nat
  BY <1>2, <1>3, FS_EmptySet
<1>5. fr[f].alive /\ fr[f].vfb \in Bufs /\ bf[fr[f].vfb].alive
  BY <1>1, <1>4 DEF Good, LinksOK
<1>6. f \notin PendingIn(p)
  BY <1>4 DEF Good, ThreadOK, FreshOK, PendingIn
<1>7. ASSUME fr[f].refcount = 1, NEW g \in Holders, f \in rf[g]
      PROVE  g = h
  <2>1. g \in HoldersOf(rf, f)
    BY <1>7 DEF HoldersOf
  <2> QED
    BY <1>2, <1>3, <1>7, <2>1, OneElement
<1> QED
  BY <1>1, <1>4, <1>5, <1>6, <1>7

\* A buffer without references has no frame in use and no decrement to come.
LEMMA FreeBuffer ==
    ASSUME NEW fr, NEW bf, NEW rf, NEW p, NEW w, Good(fr, bf, rf, p, w),
           NEW b \in Bufs, bf[b].refcount = 0
    PROVE  InUse(fr, p, b) = {} /\ Releasing(p, b) = {}
<1>1. bf[b].refcount = Cardinality(InUse(fr, p, b)) + Cardinality(Releasing(p, b))
  BY DEF Good, CountsOK
<1>2. /\ IsFiniteSet(InUse(fr, p, b)) /\ Cardinality(InUse(fr, p, b)) \in Nat
      /\ IsFiniteSet(Releasing(p, b)) /\ Cardinality(Releasing(p, b)) \in Nat
  BY FiniteSets1
<1>3. Cardinality(InUse(fr, p, b)) = 0 /\ Cardinality(Releasing(p, b)) = 0
  BY <1>1, <1>2
<1> QED
  BY <1>2, <1>3, FS_EmptySet

\* A buffer with one reference that comes from a frame has no other.
LEMMA SoleUse ==
    ASSUME NEW fr, NEW bf, NEW rf, NEW p, NEW w, Good(fr, bf, rf, p, w),
           NEW b \in Bufs, bf[b].refcount = 1, NEW f \in InUse(fr, p, b)
    PROVE  InUse(fr, p, b) = {f} /\ Releasing(p, b) = {}
<1>1. bf[b].refcount = Cardinality(InUse(fr, p, b)) + Cardinality(Releasing(p, b))
  BY DEF Good, CountsOK
<1>2. /\ IsFiniteSet(InUse(fr, p, b)) /\ Cardinality(InUse(fr, p, b)) \in Nat
      /\ IsFiniteSet(Releasing(p, b)) /\ Cardinality(Releasing(p, b)) \in Nat
  BY FiniteSets1
<1>3. Cardinality(InUse(fr, p, b)) # 0
  BY <1>2, FS_EmptySet
<1>4. Cardinality(InUse(fr, p, b)) = 1 /\ Cardinality(Releasing(p, b)) = 0
  BY <1>1, <1>2, <1>3
<1>5. \A g \in InUse(fr, p, b) : g = f
  BY <1>2, <1>4, OneElement
<1> QED
  BY <1>2, <1>4, <1>5, FS_EmptySet

\* The buffer of a thread that writes is used through that frame only, and the
\* thread alone holds the frame.
LEMMA WriterAlone ==
    ASSUME NEW fr, NEW bf, NEW rf, NEW p, NEW w, Good(fr, bf, rf, p, w),
           NEW t \in Threads, w[t] # None
    PROVE  /\ w[t] \in Frames /\ fr[w[t]].vfb \in Bufs
           /\ InUse(fr, p, fr[w[t]].vfb) = {w[t]} /\ Releasing(p, fr[w[t]].vfb) = {}
           /\ \A h \in Holders : w[t] \in rf[h] => h = t
<1>1. w[t] \in rf[t] /\ fr[w[t]].refcount = 1 /\ bf[fr[w[t]].vfb].refcount = 1 /\ t \in Holders
  BY DEF Good, ThreadOK, WriterOK, Holders
<1>2. w[t] \in Frames /\ fr[w[t]].vfb \in Bufs /\ \A h \in Holders : w[t] \in rf[h] => h = t
  BY <1>1, Held
<1>3. w[t] \in InUse(fr, p, fr[w[t]].vfb)
  BY <1>1, <1>2 DEF InUse
<1> QED
  BY <1>1, <1>2, <1>3, SoleUse

\* The same for a thread that is about to ask for the count of the buffer.
LEMMA CheckerAlone ==
    ASSUME NEW fr, NEW bf, NEW rf, NEW p, NEW w, Good(fr, bf, rf, p, w),
           NEW t \in Threads, p[t].at \in {"check", "makewritable"}
    PROVE  /\ p[t].frame \in Frames /\ fr[p[t].frame].vfb \in Bufs
           /\ \A h \in Holders : p[t].frame \in rf[h] => h = t
<1>1. p[t].frame \in rf[t] /\ fr[p[t].frame].refcount = 1 /\ t \in Holders
  BY DEF Good, ThreadOK, CheckOK, Holders
<1> QED
  BY <1>1, Held

-------------------------------------------------------------------------------
(* What a step does to the threads that do not take it                     *)

\* A step from fr, bf to fr2, bf2 leaves alone what thread u relies on.
Respects(fr, bf, p, w, fr2, bf2, u) ==
    /\ p[u].at \in Making \cup {"check", "makewritable"} => fr2[p[u].frame] = fr[p[u].frame]
    /\ p[u].at = "new" =>
          /\ bf2[fr[p[u].frame].vfb].list = bf[fr[p[u].frame].vfb].list
          /\ \A g \in Frames : g # p[u].frame => fr2[g].vfb # fr[p[u].frame].vfb
    /\ w[u] # None => /\ fr2[w[u]].refcount = 1 /\ fr2[w[u]].vfb = fr[w[u]].vfb
                      /\ bf2[fr[w[u]].vfb].refcount = 1

LEMMA OtherThread ==
    ASSUME NEW fr, NEW bf, NEW rf, NEW p, NEW w, Good(fr, bf, rf, p, w),
           NEW fr2, NEW bf2, NEW rf2, NEW p2, NEW w2, NEW u \in Threads,
           p2[u] = p[u], w2[u] = w[u], rf[u] \subseteq rf2[u],
           Respects(fr, bf, p, w, fr2, bf2, u),
           p[u].at \in Making =>
               \A v \in Threads \ {u} : p2[v].at \in Making => p2[v].frame # p[u].frame
    PROVE  ThreadOK(fr2, bf2, rf2, p2, w2, u)
<1>1. ThreadOK(fr, bf, rf, p, w, u)
  BY DEF Good
<1>2. FreshOK(fr2, p2, u)
  BY <1>1 DEF ThreadOK, FreshOK, Respects
<1>3. SoleOK(fr2, bf2, p2, u)
  BY <1>1 DEF ThreadOK, SoleOK, Respects, Making
<1>4. SourceOK(rf2, p2, w2, u)
  BY <1>1 DEF ThreadOK, SourceOK
<1>5. CheckOK(fr2, rf2, p2, w2, u)
  BY <1>1 DEF ThreadOK, CheckOK, Respects
<1>6. WriterOK(fr2, bf2, rf2, w2, u)
  BY <1>1 DEF ThreadOK, WriterOK, Respects
<1> QED
  BY <1>2, <1>3, <1>4, <1>5, <1>6 DEF ThreadOK

\* A thread moves on without having or getting a frame in the making or a
\* buffer to release.
Plain == {"idle", "check", "makewritable", "copy"}

LEMMA MoveGood ==
    ASSUME NEW fr, NEW bf, NEW rf, NEW p, NEW w, Good(fr, bf, rf, p, w), NEW t \in Threads,
           NEW x \in Places, p[t].at \in Plain, x.at \in Plain,
           NEW wt \in Frames \cup {None},
           NEW p2, p2 = [p EXCEPT ![t] = x], NEW w2, w2 = [w EXCEPT ![t] = wt],
           SourceOK(rf, p2, w2, t), CheckOK(fr, rf, p2, w2, t), WriterOK(fr, bf, rf, w2, t)
    PROVE  Good(fr, bf, rf, p2, w2)
<1>1. Typed(fr, bf, rf, p2, w2)
  BY DEF Good, Typed
<1>2. p2[t] = x /\ w2[t] = wt /\ \A u \in Threads \ {t} : p2[u] = p[u] /\ w2[u] = w[u]
  BY DEF Good, Typed
<1>3. \A u \in Threads : /\ p2[u].at \in Making <=> p[u].at \in Making
                         /\ p2[u].at \in {"subframe", "replace"} <=> p[u].at \in {"subframe", "replace"}
                         /\ p2[u].at = "release" <=> p[u].at = "release"
                         /\ p2[u].at \in Making \cup {"release"} => p2[u] = p[u]
  BY <1>2 DEF Plain, Making
<1>4. PendingIn(p2) = PendingIn(p) /\ Unlisted(p2) = Unlisted(p)
  <2>1. PendingIn(p2) = PendingIn(p)
    BY <1>3 DEF PendingIn
  <2>2. \A u \in Threads : p2[u].at \in {"subframe", "replace"} => p2[u] = p[u]
    BY <1>3 DEF Making
  <2>3. Unlisted(p2) = Unlisted(p)
    BY <1>3, <2>2 DEF Unlisted
  <2> QED
    BY <2>1, <2>3
<1>5. \A b : Releasing(p2, b) = Releasing(p, b)
  BY <1>3 DEF Releasing
<1>6. CountsOK(fr, bf, rf, p2)
  BY <1>4, <1>5 DEF Good, CountsOK, InUse
<1>7. LinksOK(fr, bf, p2)
  BY <1>4 DEF Good, LinksOK
<1>8. ASSUME NEW u \in Threads, u # t PROVE ThreadOK(fr, bf, rf, p2, w2, u)
  <2>1. ThreadOK(fr, bf, rf, p, w, u)
    BY DEF Good
  <2>2. Respects(fr, bf, p, w, fr, bf, u)
    BY <2>1 DEF ThreadOK, SoleOK, WriterOK, Respects
  <2>3. p[u].at \in Making =>
          \A v \in Threads \ {u} : p2[v].at \in Making => p2[v].frame # p[u].frame
    BY <1>3, <2>1 DEF ThreadOK, FreshOK
  <2> QED
    BY <1>2, <1>8, <2>2, <2>3, OtherThread
<1>9. ThreadOK(fr, bf, rf, p2, w2, t)
  BY <1>2 DEF ThreadOK, FreshOK, SoleOK, Plain, Making
<1> QED
  BY <1>1, <1>6, <1>7, <1>8, <1>9 DEF Good

-------------------------------------------------------------------------------
(* References                                                              *)

\* Only f differs from fr to fr2, and it stays on its buffer.
OnlyFrame(fr, fr2, f) ==
    /\ fr2 \in [Frames -> FrameRecs]
    /\ \A g \in Frames \ {f} : fr2[g] = fr[g]
    /\ fr2[f].alive = fr[f].alive /\ fr2[f].vfb = fr[f].vfb

\* Links do not depend on counts of frames that exist, nor on properties.
LEMMA SameLinks ==
    ASSUME NEW fr, NEW bf, NEW rf, NEW p, NEW w, Typed(fr, bf, rf, p, w), LinksOK(fr, bf, p),
           NEW fr2, \A g \in Frames : fr2[g].alive = fr[g].alive /\ fr2[g].vfb = fr[g].vfb,
           \A g \in Frames : ~fr[g].alive => fr2[g].refcount = fr[g].refcount,
           NEW p2, Unlisted(p2) = Unlisted(p)
    PROVE  LinksOK(fr2, bf, p2)
<1>1. \A b \in Bufs : ToSet(bf[b].list) \subseteq Frames
  BY DEF Typed, BufRecs, ToSet
<1>2. \A g \in Frames : fr2[g].alive => fr2[g].vfb \in Bufs /\ bf[fr2[g].vfb].alive
  BY DEF LinksOK
<1>3. \A g \in Frames : ~fr2[g].alive => fr2[g].refcount = 0 /\ fr2[g].vfb = None
  BY DEF LinksOK
<1>4. \A b \in Bufs : \A g \in ToSet(bf[b].list) :
         fr2[g].alive /\ fr2[g].vfb = b /\ g \notin Unlisted(p2)
  BY <1>1 DEF LinksOK
<1>5. \A g \in Frames : fr2[g].alive /\ g \notin Unlisted(p2) => g \in ToSet(bf[fr2[g].vfb].list)
  BY DEF LinksOK
<1> QED
  BY <1>2, <1>3, <1>4, <1>5 DEF LinksOK

\* Frame f, which thread t is making, gets its first reference.  The registry
\* may list it at the same time.
FirstRef(fr, bf, rf, p, t, f, fr2, bf2, rf2, p2) ==
    /\ p[t].at \in Making /\ f = p[t].frame
    /\ OnlyFrame(fr, fr2, f) /\ fr2[f].refcount = 1
    /\ bf2 \in [Bufs -> BufRecs] /\ \A b \in Bufs : bf2[b].refcount = bf[b].refcount
    /\ \A b \in Bufs : b # fr[f].vfb => bf2[b].list = bf[b].list
    /\ rf2 = [rf EXCEPT ![t] = @ \cup {f}]
    /\ p2 = [p EXCEPT ![t] = Idle]

LEMMA FirstRefGood ==
    ASSUME NEW fr, NEW bf, NEW rf, NEW p, NEW w, Good(fr, bf, rf, p, w), NEW t \in Threads,
           NEW f, NEW fr2, NEW bf2, NEW rf2, NEW p2,
           FirstRef(fr, bf, rf, p, t, f, fr2, bf2, rf2, p2), LinksOK(fr2, bf2, p2)
    PROVE  Good(fr2, bf2, rf2, p2, w)
<1>0. /\ p[t].at \in Making /\ f = p[t].frame
      /\ OnlyFrame(fr, fr2, f) /\ fr2[f].refcount = 1
      /\ bf2 \in [Bufs -> BufRecs] /\ \A b \in Bufs : bf2[b].refcount = bf[b].refcount
      /\ \A b \in Bufs : b # fr[f].vfb => bf2[b].list = bf[b].list
      /\ rf2 = [rf EXCEPT ![t] = @ \cup {f}]
      /\ p2 = [p EXCEPT ![t] = Idle]
  BY DEF FirstRef
<1> USE <1>0
<1>1. /\ f \in Frames /\ fr[f].alive /\ fr[f].refcount = 0 /\ fr[f].vfb \in Bufs
      /\ \A u \in Threads \ {t} : p[u].at \in Making => p[u].frame # f
  <2>1. ThreadOK(fr, bf, rf, p, w, t)
    BY DEF Good
  <2>2. /\ f \in Frames /\ fr[f].alive /\ fr[f].refcount = 0
        /\ \A u \in Threads \ {t} : p[u].at \in Making => p[u].frame # f
    BY <2>1 DEF ThreadOK, FreshOK
  <2> QED
    BY <2>2 DEF Good, LinksOK
<1>2. t \in Holders /\ Idle \in Places /\ Idle.at = "idle" /\ None \notin Frames
  BY FiniteSets1 DEF Holders, Idle, Places, Labels, None
<1>3. /\ rf \in [Holders -> SUBSET Frames] /\ p \in [Threads -> Places]
      /\ rf2[t] = rf[t] \cup {f} /\ \A h \in Holders \ {t} : rf2[h] = rf[h]
      /\ p2[t] = Idle /\ \A u \in Threads \ {t} : p2[u] = p[u]
  BY <1>1, <1>2 DEF Good, Typed
<1>4. Typed(fr2, bf2, rf2, p2, w)
  BY <1>1, <1>2, <1>3 DEF Good, Typed, OnlyFrame
<1>5. HoldersOf(rf, f) = {}
  BY <1>1, FiniteSets1, FS_EmptySet DEF Good, CountsOK
<1>6. ASSUME NEW g \in Frames PROVE fr2[g].refcount = Cardinality(HoldersOf(rf2, g))
  <2>1. CASE g = f
    <3>1. HoldersOf(rf2, f) = {t}
      BY <1>2, <1>3, <1>5 DEF HoldersOf
    <3> QED
      BY <2>1, <3>1, FS_Singleton
  <2>2. CASE g # f
    <3>1. HoldersOf(rf2, g) = HoldersOf(rf, g)
      BY <1>3, <2>2 DEF HoldersOf
    <3> QED
      BY <2>2, <3>1 DEF Good, CountsOK, OnlyFrame
  <2> QED
    BY <2>1, <2>2
<1>7. ASSUME NEW g \in Frames \ {f} PROVE g \in PendingIn(p2) <=> g \in PendingIn(p)
  BY <1>2, <1>3 DEF PendingIn, Making
<1>8. ASSUME NEW b \in Bufs
      PROVE  InUse(fr2, p2, b) = InUse(fr, p, b) /\ Releasing(p2, b) = Releasing(p, b)
  <2>1. f \in PendingIn(p)
    BY DEF PendingIn
  <2>2. InUse(fr2, p2, b) = InUse(fr, p, b)
    <3>1. ASSUME NEW g \in Frames
          PROVE  /\ fr2[g].vfb = fr[g].vfb
                 /\ fr2[g].refcount > 0 \/ g \in PendingIn(p2)
                       <=> fr[g].refcount > 0 \/ g \in PendingIn(p)
      <4>1. CASE g = f
        BY <2>1, <4>1 DEF OnlyFrame
      <4>2. CASE g # f
        BY <1>7, <4>2 DEF OnlyFrame
      <4> QED
        BY <4>1, <4>2
    <3> QED
      BY <3>1 DEF InUse
  <2>3. Releasing(p2, b) = Releasing(p, b)
    BY <1>2, <1>3 DEF Releasing, Making
  <2> QED
    BY <2>2, <2>3
<1>9. CountsOK(fr2, bf2, rf2, p2)
  BY <1>6, <1>8 DEF Good, CountsOK
<1>10. ASSUME NEW u \in Threads, w[u] # None
       PROVE  w[u] # f /\ w[u] \in Frames /\ fr[w[u]].vfb \in Bufs /\ ThreadOK(fr, bf, rf, p, w, u)
  <2>1. ThreadOK(fr, bf, rf, p, w, u)
    BY DEF Good
  <2>2. w[u] # f
    BY <1>1, <1>10, <2>1 DEF ThreadOK, WriterOK
  <2> QED
    BY <1>10, <2>1, <2>2, WriterAlone
<1>11. ASSUME NEW u \in Threads \ {t} PROVE ThreadOK(fr2, bf2, rf2, p2, w, u)
  <2>1. ThreadOK(fr, bf, rf, p, w, u)
    BY DEF Good
  <2>2. ASSUME p[u].at \in Making \cup {"check", "makewritable"}
        PROVE  p[u].frame \in Frames /\ p[u].frame # f
    <3>1. p[u].at \in Making => p[u].frame \in Frames /\ p[u].frame # f
      BY <1>1, <2>1 DEF ThreadOK, FreshOK
    <3>2. p[u].at \in {"check", "makewritable"} => p[u].frame \in Frames /\ p[u].frame # f
      BY <1>1, <2>1, CheckerAlone DEF ThreadOK, CheckOK
    <3> QED
      BY <2>2, <3>1, <3>2
  <2>3. p[u].at \in Making \cup {"check", "makewritable"} => fr2[p[u].frame] = fr[p[u].frame]
    BY <2>2 DEF OnlyFrame
  <2>4. ASSUME p[u].at = "new"
        PROVE  /\ bf2[fr[p[u].frame].vfb].list = bf[fr[p[u].frame].vfb].list
               /\ \A g \in Frames : g # p[u].frame => fr2[g].vfb # fr[p[u].frame].vfb
    <3>1. p[u].frame \in Frames /\ p[u].frame # f /\ fr[p[u].frame].alive
      BY <2>1, <2>2, <2>4 DEF ThreadOK, FreshOK, Making
    <3>2. \A g \in Frames : g # p[u].frame => fr[g].vfb # fr[p[u].frame].vfb
      BY <2>1, <2>4 DEF ThreadOK, SoleOK
    <3>3. fr[p[u].frame].vfb \in Bufs
      BY <3>1 DEF Good, LinksOK
    <3> QED
      BY <1>1, <3>1, <3>2, <3>3 DEF OnlyFrame
  <2>5. w[u] # None => /\ fr2[w[u]].refcount = 1 /\ fr2[w[u]].vfb = fr[w[u]].vfb
                       /\ bf2[fr[w[u]].vfb].refcount = 1
    BY <1>10 DEF ThreadOK, WriterOK, OnlyFrame
  <2>6. Respects(fr, bf, p, w, fr2, bf2, u)
    BY <2>3, <2>4, <2>5 DEF Respects
  <2>7. p[u].at \in Making =>
          \A v \in Threads \ {u} : p2[v].at \in Making => p2[v].frame # p[u].frame
    BY <1>2, <1>3, <2>1 DEF ThreadOK, FreshOK, Making
  <2>8. p2[u] = p[u] /\ rf[u] \subseteq rf2[u]
    BY <1>3 DEF Holders
  <2> QED
    BY <2>6, <2>7, <2>8, OtherThread
<1>12. ThreadOK(fr2, bf2, rf2, p2, w, t)
  <2>1. WriterOK(fr2, bf2, rf2, w, t)
    BY <1>2, <1>3, <1>10 DEF ThreadOK, WriterOK, OnlyFrame
  <2> QED
    BY <1>2, <1>3, <2>1 DEF ThreadOK, FreshOK, SoleOK, SourceOK, CheckOK, Making
<1> QED
  BY <1>4, <1>9, <1>11, <1>12 DEF Good

\* Where a thread goes that has decremented f's count.
AfterDrop(fr, f, x) ==
    IF fr[f].refcount = 1 THEN x.at = "release" /\ x.src = fr[f].vfb ELSE x = Idle

\* A reference goes away: holder h gives up f.  If it was the last one, the
\* thread has the buffer's count still to decrement.
LEMMA DropRefGood ==
    ASSUME NEW fr, NEW bf, NEW rf, NEW p, NEW w, Good(fr, bf, rf, p, w), NEW t \in Threads,
           p[t] = Idle, NEW h \in {t, Cache}, NEW f \in rf[h], h = t => w[t] # f,
           NEW fr2, OnlyFrame(fr, fr2, f), fr2[f].refcount = fr[f].refcount - 1,
           NEW rf2, rf2 = [rf EXCEPT ![h] = @ \ {f}],
           NEW x \in Places,
           AfterDrop(fr, f, x),
           NEW p2, p2 = [p EXCEPT ![t] = x]
    PROVE  Good(fr2, bf, rf2, p2, w)
<1>0. IF fr[f].refcount = 1 THEN x.at = "release" /\ x.src = fr[f].vfb ELSE x = Idle
  BY DEF AfterDrop
<1>1. t \in Holders /\ h \in Holders /\ Idle.at = "idle" /\ None \notin Frames /\ Cache \notin Threads
  BY FiniteSets1, RegistryAssumption DEF Holders, Idle, None
<1>2. /\ f \in Frames /\ fr[f].refcount \in Nat /\ fr[f].refcount > 0
      /\ fr[f].alive /\ fr[f].vfb \in Bufs /\ f \notin PendingIn(p)
      /\ fr[f].refcount = 1 => \A g \in Holders : f \in rf[g] => g = h
  BY <1>1, Held
<1>3. /\ rf \in [Holders -> SUBSET Frames] /\ p \in [Threads -> Places]
      /\ rf2[h] = rf[h] \ {f} /\ \A g \in Holders \ {h} : rf2[g] = rf[g]
      /\ p2[t] = x /\ \A u \in Threads \ {t} : p2[u] = p[u]
  BY <1>1 DEF Good, Typed
<1>4. Typed(fr2, bf, rf2, p2, w)
  BY <1>1, <1>3 DEF Good, Typed, OnlyFrame
<1>5. x.at \notin Making /\ x.at \notin {"check", "makewritable", "copy"}
  BY <1>0, <1>1 DEF Making
<1>6. ASSUME NEW g \in Frames PROVE fr2[g].refcount = Cardinality(HoldersOf(rf2, g))
  <2>1. CASE g = f
    <3>1. HoldersOf(rf2, f) = HoldersOf(rf, f) \ {h} /\ h \in HoldersOf(rf, f)
      BY <1>1, <1>3 DEF HoldersOf
    <3>2. IsFiniteSet(HoldersOf(rf, f))
      BY FiniteSets1
    <3>3. Cardinality(HoldersOf(rf2, f)) = Cardinality(HoldersOf(rf, f)) - 1
      BY <3>1, <3>2, FS_RemoveElement
    <3> QED
      BY <1>2, <2>1, <3>3 DEF Good, CountsOK
  <2>2. CASE g # f
    <3>1. HoldersOf(rf2, g) = HoldersOf(rf, g)
      BY <1>1, <1>3, <2>2 DEF HoldersOf
    <3> QED
      BY <2>2, <3>1 DEF Good, CountsOK, OnlyFrame
  <2> QED
    BY <2>1, <2>2
<1>7. PendingIn(p2) = PendingIn(p) /\ Unlisted(p2) = Unlisted(p)
  <2>1. \A u \in Threads : /\ p2[u].at \in Making <=> p[u].at \in Making
                           /\ p2[u].at \in Making => p2[u] = p[u]
    BY <1>1, <1>3, <1>5 DEF Making
  <2>2. PendingIn(p2) = PendingIn(p)
    BY <2>1 DEF PendingIn
  <2>3. \A u \in Threads :
            /\ p2[u].at \in {"subframe", "replace"} <=> p[u].at \in {"subframe", "replace"}
            /\ p2[u].at \in {"subframe", "replace"} => p2[u] = p[u]
    BY <1>1, <1>3, <1>5 DEF Making
  <2>4. Unlisted(p2) = Unlisted(p)
    BY <2>3 DEF Unlisted
  <2> QED
    BY <2>2, <2>4
<1>8. ASSUME NEW b \in Bufs
      PROVE  Cardinality(InUse(fr2, p2, b)) + Cardinality(Releasing(p2, b))
               = Cardinality(InUse(fr, p, b)) + Cardinality(Releasing(p, b))
  <2>1. CASE fr[f].refcount = 1 /\ b = fr[f].vfb
    <3>1. InUse(fr2, p2, b) = InUse(fr, p, b) \ {f} /\ f \in InUse(fr, p, b)
      BY <1>2, <1>7, <2>1 DEF InUse, OnlyFrame
    <3>2. Releasing(p2, b) = Releasing(p, b) \cup {t} /\ t \notin Releasing(p, b)
      BY <1>0, <1>1, <1>3, <2>1 DEF Releasing
    <3>3. IsFiniteSet(InUse(fr, p, b)) /\ IsFiniteSet(Releasing(p, b))
      BY FiniteSets1
    <3>4. Cardinality(InUse(fr, p, b) \ {f}) = Cardinality(InUse(fr, p, b)) - 1
      BY <3>1, <3>3, FS_RemoveElement
    <3>5. Cardinality(Releasing(p2, b)) = Cardinality(Releasing(p, b)) + 1
      BY <3>2, <3>3, FS_AddElement
    <3>6. Cardinality(InUse(fr, p, b)) \in Nat /\ Cardinality(Releasing(p, b)) \in Nat
      BY FiniteSets1
    <3>7. Cardinality(InUse(fr2, p2, b)) = Cardinality(InUse(fr, p, b) \ {f})
      BY <3>1, Zenon
    <3> QED
      BY <3>4, <3>5, <3>6, <3>7
  <2>2. CASE ~(fr[f].refcount = 1 /\ b = fr[f].vfb)
    <3>1. \A g \in Frames : fr2[g].vfb = fr[g].vfb
      BY DEF OnlyFrame
    <3>2. \A g \in Frames : fr[g].vfb = b => (fr2[g].refcount > 0 <=> fr[g].refcount > 0)
      <4>1. fr[f].vfb = b => fr[f].refcount - 1 > 0
        BY <1>2, <2>2
      <4> QED
        BY <1>2, <4>1 DEF OnlyFrame
    <3>3. InUse(fr2, p2, b) = InUse(fr, p, b)
      BY <1>7, <3>1, <3>2 DEF InUse
    <3>4. Releasing(p2, b) = Releasing(p, b)
      BY <1>0, <1>1, <1>3, <2>2 DEF Releasing
    <3> QED
      BY <3>3, <3>4
  <2> QED
    BY <2>1, <2>2
<1>9. CountsOK(fr2, bf, rf2, p2)
  BY <1>6, <1>8 DEF Good, CountsOK
<1>10. LinksOK(fr2, bf, p2)
  <2>1. \A g \in Frames : fr2[g].alive = fr[g].alive /\ fr2[g].vfb = fr[g].vfb
    BY DEF OnlyFrame
  <2>2. \A g \in Frames : ~fr[g].alive => fr2[g].refcount = fr[g].refcount
    BY <1>2 DEF OnlyFrame
  <2> QED
    BY <1>7, <2>1, <2>2, SameLinks DEF Good
<1>11. ASSUME NEW u \in Threads, w[u] # None
       PROVE  w[u] # f /\ w[u] \in Frames /\ w[u] \in rf2[u] /\ ThreadOK(fr, bf, rf, p, w, u)
  <2>1. ThreadOK(fr, bf, rf, p, w, u)
    BY DEF Good
  <2>2. w[u] \in Frames /\ \A g \in Holders : w[u] \in rf[g] => g = u
    BY <1>11, WriterAlone
  <2>3. w[u] # f
    BY <1>1, <2>2
  <2> QED
    BY <1>1, <1>3, <1>11, <2>1, <2>2, <2>3 DEF ThreadOK, WriterOK, Holders
<1>12. ASSUME NEW u \in Threads \ {t} PROVE ThreadOK(fr2, bf, rf2, p2, w, u)
  <2>1. ThreadOK(fr, bf, rf, p, w, u)
    BY DEF Good
  <2>2. p[u].at \in Making \cup {"check", "makewritable"} => fr2[p[u].frame] = fr[p[u].frame]
    <3>1. p[u].at \in Making => p[u].frame \in Frames /\ p[u].frame # f
      BY <1>2, <2>1 DEF ThreadOK, FreshOK
    <3>2. p[u].at \in {"check", "makewritable"} => p[u].frame \in Frames /\ p[u].frame # f
      BY <1>1, CheckerAlone
    <3> QED
      BY <3>1, <3>2 DEF OnlyFrame
  <2>3. p[u].at = "new" => \A g \in Frames : g # p[u].frame => fr2[g].vfb # fr[p[u].frame].vfb
    BY <2>1 DEF ThreadOK, SoleOK, OnlyFrame
  <2>4. Respects(fr, bf, p, w, fr2, bf, u)
    BY <1>11, <2>2, <2>3 DEF Respects, ThreadOK, WriterOK, OnlyFrame
  <2>5. p[u].at \in Making =>
          \A v \in Threads \ {u} : p2[v].at \in Making => p2[v].frame # p[u].frame
    BY <1>3, <1>5, <2>1 DEF ThreadOK, FreshOK
  <2>6. p2[u] = p[u] /\ rf[u] \subseteq rf2[u]
    BY <1>1, <1>3 DEF Holders
  <2> QED
    BY <2>4, <2>5, <2>6, OtherThread
<1>13. ThreadOK(fr2, bf, rf2, p2, w, t)
  <2>1. WriterOK(fr2, bf, rf2, w, t)
    BY <1>11 DEF ThreadOK, WriterOK, OnlyFrame
  <2>2. SourceOK(rf2, p2, w, t)
    BY <1>0, <1>1, <1>2, <1>3, <1>5 DEF SourceOK, Making
  <2> QED
    BY <1>3, <1>5, <2>1, <2>2 DEF ThreadOK, FreshOK, SoleOK, CheckOK, Making
<1> QED
  BY <1>4, <1>9, <1>10, <1>12, <1>13 DEF Good

\* A reference is copied from holder g to holder h, one of which is a cache.
LEMMA CopyRefGood ==
    ASSUME NEW fr, NEW bf, NEW rf, NEW p, NEW w, Good(fr, bf, rf, p, w), NEW t \in Threads,
           p[t] = Idle, NEW g \in {t, Cache}, NEW h \in {t, Cache},
           NEW f \in rf[g] \ rf[h], w[t] # f,
           NEW fr2, OnlyFrame(fr, fr2, f), fr2[f].refcount = fr[f].refcount + 1,
           NEW rf2, rf2 = [rf EXCEPT ![h] = @ \cup {f}]
    PROVE  Good(fr2, bf, rf2, p, w)
<1>1. t \in Holders /\ g \in Holders /\ h \in Holders /\ Idle.at = "idle" /\ Cache \notin Threads
  BY RegistryAssumption DEF Holders, Idle
<1>2. /\ f \in Frames /\ fr[f].refcount \in Nat /\ fr[f].refcount > 0
      /\ fr[f].alive /\ fr[f].vfb \in Bufs /\ f \notin PendingIn(p)
      /\ fr[f].refcount = 1 => \A k \in Holders : f \in rf[k] => k = g
  BY <1>1, Held
<1>3. /\ rf \in [Holders -> SUBSET Frames]
      /\ rf2[h] = rf[h] \cup {f} /\ \A k \in Holders \ {h} : rf2[k] = rf[k]
  BY <1>1 DEF Good, Typed
<1>4. Typed(fr2, bf, rf2, p, w)
  BY <1>1, <1>2, <1>3 DEF Good, Typed, OnlyFrame
<1>5. ASSUME NEW k \in Frames PROVE fr2[k].refcount = Cardinality(HoldersOf(rf2, k))
  <2>1. CASE k = f
    <3>1. HoldersOf(rf2, f) = HoldersOf(rf, f) \cup {h} /\ h \notin HoldersOf(rf, f)
      BY <1>1, <1>3 DEF HoldersOf
    <3>2. IsFiniteSet(HoldersOf(rf, f))
      BY FiniteSets1
    <3>3. Cardinality(HoldersOf(rf, f) \cup {h}) = Cardinality(HoldersOf(rf, f)) + 1
      BY <3>1, <3>2, FS_AddElement
    <3>4. Cardinality(HoldersOf(rf2, f)) = Cardinality(HoldersOf(rf, f) \cup {h})
      BY <3>1, Zenon
    <3> QED
      BY <1>2, <2>1, <3>3, <3>4 DEF Good, CountsOK
  <2>2. CASE k # f
    <3>1. HoldersOf(rf2, k) = HoldersOf(rf, k)
      BY <1>1, <1>3, <2>2 DEF HoldersOf
    <3> QED
      BY <2>2, <3>1 DEF Good, CountsOK, OnlyFrame
  <2> QED
    BY <2>1, <2>2
<1>6. \A k \in Frames : /\ fr2[k].alive = fr[k].alive /\ fr2[k].vfb = fr[k].vfb
                        /\ fr2[k].refcount > 0 <=> fr[k].refcount > 0
  <2>1. fr2[f].refcount > 0
    BY <1>2
  <2> QED
    BY <1>2, <2>1 DEF OnlyFrame
<1>7. CountsOK(fr2, bf, rf2, p)
  <2>1. \A b \in Bufs : InUse(fr2, p, b) = InUse(fr, p, b)
    BY <1>6 DEF InUse
  <2> QED
    BY <1>5, <2>1 DEF Good, CountsOK
<1>8. LinksOK(fr2, bf, p)
  <2>1. \A k \in Frames : ~fr[k].alive => fr2[k].refcount = fr[k].refcount
    BY <1>2 DEF OnlyFrame
  <2> QED
    BY <1>6, <2>1, SameLinks DEF Good
<1>9. ASSUME NEW u \in Threads PROVE ThreadOK(fr2, bf, rf2, p, w, u)
  <2>1. ThreadOK(fr, bf, rf, p, w, u) /\ u \in Holders
    BY DEF Good, Holders
  <2>2. p[u].at \in Making \cup {"check", "makewritable"} => fr2[p[u].frame] = fr[p[u].frame]
    <3>1. p[u].at \in Making => p[u].frame \in Frames /\ p[u].frame # f
      BY <1>2, <2>1 DEF ThreadOK, FreshOK
    <3>2. p[u].at \in {"check", "makewritable"} => p[u].frame \in Frames /\ p[u].frame # f
      BY <1>1, CheckerAlone
    <3> QED
      BY <3>1, <3>2 DEF OnlyFrame
  <2>3. p[u].at = "new" => \A k \in Frames : k # p[u].frame => fr2[k].vfb # fr[p[u].frame].vfb
    BY <1>6, <2>1 DEF ThreadOK, SoleOK
  <2>4. w[u] # None => w[u] # f /\ w[u] \in Frames
    BY <1>1, WriterAlone
  <2>5. Respects(fr, bf, p, w, fr2, bf, u)
    BY <2>1, <2>2, <2>3, <2>4 DEF Respects, ThreadOK, WriterOK, OnlyFrame
  <2>6. p[u].at \in Making =>
          \A v \in Threads \ {u} : p[v].at \in Making => p[v].frame # p[u].frame
    BY <2>1 DEF ThreadOK, FreshOK
  <2>7. rf[u] \subseteq rf2[u]
    BY <1>3, <2>1
  <2> QED
    BY <2>5, <2>6, <2>7, OtherThread
<1> QED
  BY <1>4, <1>7, <1>8, <1>9 DEF Good

\* The only holder of a frame changes its properties.
LEMMA SetPropertyGood ==
    ASSUME NEW fr, NEW bf, NEW rf, NEW p, NEW w, Good(fr, bf, rf, p, w), NEW t \in Threads,
           p[t] = Idle, NEW f \in rf[t], fr[f].refcount = 1,
           NEW fr2, OnlyFrame(fr, fr2, f), fr2[f].refcount = fr[f].refcount
    PROVE  Good(fr2, bf, rf, p, w)
<1>1. t \in Holders /\ Idle.at = "idle"
  BY DEF Holders, Idle
<1>2. f \in Frames /\ f \notin PendingIn(p)
  BY <1>1, Held
<1>3. Typed(fr2, bf, rf, p, w)
  BY DEF Good, Typed, OnlyFrame
<1>4. \A k \in Frames : /\ fr2[k].alive = fr[k].alive /\ fr2[k].vfb = fr[k].vfb
                        /\ fr2[k].refcount = fr[k].refcount
  BY DEF OnlyFrame
<1>5. CountsOK(fr2, bf, rf, p)
  <2>1. \A b \in Bufs : InUse(fr2, p, b) = InUse(fr, p, b)
    BY <1>4 DEF InUse
  <2> QED
    BY <1>4, <2>1 DEF Good, CountsOK
<1>6. LinksOK(fr2, bf, p)
  BY <1>4, SameLinks DEF Good
<1>7. ASSUME NEW u \in Threads PROVE ThreadOK(fr2, bf, rf, p, w, u)
  <2>1. ThreadOK(fr, bf, rf, p, w, u)
    BY DEF Good
  <2>2. p[u].at \in Making \cup {"check", "makewritable"} => fr2[p[u].frame] = fr[p[u].frame]
    <3>1. p[u].at \in Making => p[u].frame \in Frames /\ p[u].frame # f
      BY <1>2, <2>1 DEF ThreadOK, FreshOK, PendingIn
    <3>2. p[u].at \in {"check", "makewritable"} => p[u].frame \in Frames /\ p[u].frame # f
      BY <1>1, CheckerAlone
    <3> QED
      BY <3>1, <3>2 DEF OnlyFrame
  <2>3. p[u].at = "new" => \A k \in Frames : k # p[u].frame => fr2[k].vfb # fr[p[u].frame].vfb
    BY <1>4, <2>1 DEF ThreadOK, SoleOK
  <2>4. w[u] # None => w[u] \in Frames
    BY WriterAlone
  <2>5. Respects(fr, bf, p, w, fr2, bf, u)
    BY <1>4, <2>1, <2>2, <2>3, <2>4 DEF Respects, ThreadOK, WriterOK
  <2>6. p[u].at \in Making =>
          \A v \in Threads \ {u} : p[v].at \in Making => p[v].frame # p[u].frame
    BY <2>1 DEF ThreadOK, FreshOK
  <2> QED
    BY <2>5, <2>6, OtherThread
<1> QED
  BY <1>3, <1>5, <1>6, <1>7 DEF Good

\* Only the count of buffer b differs from bf to bf2.
OnlyCount(bf, bf2, b) ==
    /\ bf2 \in [Bufs -> BufRecs]
    /\ \A c \in Bufs \ {b} : bf2[c] = bf[c]
    /\ bf2[b].alive = bf[b].alive /\ bf2[b].list = bf[b].list

\* The second half of a Release: the buffer's count goes down.
LEMMA ReleaseBufferGood ==
    ASSUME NEW fr, NEW bf, NEW rf, NEW p, NEW w, Good(fr, bf, rf, p, w), NEW t \in Threads,
           p[t].at = "release", NEW b, b = p[t].src,
           NEW bf2, bf2 = [bf EXCEPT ![b].refcount = @ - 1],
           NEW p2, p2 = [p EXCEPT ![t] = Idle]
    PROVE  Good(fr, bf2, rf, p2, w)
<1>1. Idle.at = "idle" /\ Idle \in Places /\ t \in Holders
  BY DEF Holders, Idle, Places, Labels
<1>2. b \in Bufs /\ bf[b].refcount > 0 /\ t \in Releasing(p, b)
  <2>1. b \in Bufs /\ t \in Releasing(p, b)
    BY DEF Good, ThreadOK, SourceOK, Releasing
  <2>2. bf[b].refcount \in Nat
    BY <2>1 DEF Good, Typed, BufRecs
  <2> QED
    BY <2>1, <2>2, FreeBuffer
<1>3. p \in [Threads -> Places] /\ p2[t] = Idle /\ \A u \in Threads \ {t} : p2[u] = p[u]
  BY DEF Good, Typed
<1>4. OnlyCount(bf, bf2, b) /\ bf2[b].refcount = bf[b].refcount - 1
  <2>1. bf \in [Bufs -> BufRecs] /\ bf[b] \in BufRecs
    BY <1>2 DEF Good, Typed
  <2>2. bf[b].refcount - 1 \in Nat
    BY <1>2, <2>1 DEF BufRecs
  <2>3. bf2[b] \in BufRecs /\ bf2[b].refcount = bf[b].refcount - 1
        /\ bf2[b].alive = bf[b].alive /\ bf2[b].list = bf[b].list
    BY <1>2, <2>1, <2>2 DEF BufRecs
  <2> QED
    BY <1>2, <2>1, <2>3 DEF OnlyCount
<1>5. Typed(fr, bf2, rf, p2, w)
  BY <1>1, <1>4 DEF Good, Typed, OnlyCount
<1>6. PendingIn(p2) = PendingIn(p) /\ Unlisted(p2) = Unlisted(p)
  BY <1>1, <1>3 DEF PendingIn, Unlisted, Making
<1>7. CountsOK(fr, bf2, rf, p2)
  <2>1. \A c : InUse(fr, p2, c) = InUse(fr, p, c)
    BY <1>6 DEF InUse
  <2>2. ASSUME NEW c \in Bufs, c # b PROVE Releasing(p2, c) = Releasing(p, c)
    BY <1>1, <1>3, <2>2 DEF Releasing
  <2>3. Releasing(p2, b) = Releasing(p, b) \ {t}
    BY <1>1, <1>3 DEF Releasing
  <2>4. IsFiniteSet(Releasing(p, b))
    BY FiniteSets1
  <2>5. Cardinality(Releasing(p, b) \ {t}) = Cardinality(Releasing(p, b)) - 1
    BY <1>2, <2>4, FS_RemoveElement
  <2>6. Cardinality(Releasing(p2, b)) = Cardinality(Releasing(p, b) \ {t})
    BY <2>3, Zenon
  <2>7. Cardinality(InUse(fr, p, b)) \in Nat /\ Cardinality(Releasing(p, b)) \in Nat
    BY FiniteSets1
  <2>8. bf[b].refcount = Cardinality(InUse(fr, p, b)) + Cardinality(Releasing(p, b))
    BY <1>2 DEF Good, CountsOK
  <2>9. bf2[b].refcount = Cardinality(InUse(fr, p2, b)) + Cardinality(Releasing(p2, b))
    <3>1. Cardinality(InUse(fr, p2, b)) = Cardinality(InUse(fr, p, b))
      BY <2>1, Zenon
    <3> QED
      BY <1>4, <2>5, <2>6, <2>7, <2>8, <3>1
  <2> QED
    BY <1>4, <2>1, <2>2, <2>9, ZenonT(30) DEF Good, CountsOK, OnlyCount
<1>8. LinksOK(fr, bf2, p2)
  <2>1. \A c \in Bufs : bf2[c].alive = bf[c].alive /\ bf2[c].list = bf[c].list
    BY <1>4 DEF OnlyCount
  <2>2. bf[b].alive
    BY <1>2 DEF Good, LinksOK
  <2>3. \A c \in Bufs : ~bf[c].alive => bf2[c].refcount = 0
    BY <1>4, <2>2 DEF Good, LinksOK, OnlyCount
  <2>4. LinksOK(fr, bf, p2)
    BY <1>6 DEF Good, LinksOK
  <2>5. \A f \in Frames : fr[f].alive => fr[f].vfb \in Bufs /\ bf2[fr[f].vfb].alive
    BY <2>1, <2>4 DEF LinksOK
  <2>6. \A c \in Bufs : \A f \in ToSet(bf2[c].list) :
           fr[f].alive /\ fr[f].vfb = c /\ f \notin Unlisted(p2)
    BY <2>1, <2>4 DEF LinksOK
  <2>7. \A f \in Frames : fr[f].alive /\ f \notin Unlisted(p2) => f \in ToSet(bf2[fr[f].vfb].list)
    BY <2>1, <2>4 DEF LinksOK
  <2>8. \A c \in Bufs : /\ bf2[c].alive => bf2[c].list # <<>>
                        /\ ~bf2[c].alive => bf2[c].list = <<>> /\ bf2[c].refcount = 0
    BY <2>1, <2>3, <2>4 DEF LinksOK
  <2> QED
    BY <2>4, <2>5, <2>6, <2>7, <2>8 DEF LinksOK
<1>9. ASSUME NEW u \in Threads, w[u] # None
      PROVE  bf2[fr[w[u]].vfb].refcount = 1
  <2>1. fr[w[u]].vfb \in Bufs /\ fr[w[u]].vfb # b
    BY <1>2, <1>9, WriterAlone
  <2> QED
    BY <1>4, <1>9, <2>1 DEF Good, ThreadOK, WriterOK, OnlyCount
<1>10. ASSUME NEW u \in Threads \ {t} PROVE ThreadOK(fr, bf2, rf, p2, w, u)
  <2>1. ThreadOK(fr, bf, rf, p, w, u)
    BY DEF Good
  <2>2. p[u].at = "new" => fr[p[u].frame].vfb \in Bufs
    BY <2>1 DEF ThreadOK, FreshOK, Good, LinksOK, Making
  <2>3. Respects(fr, bf, p, w, fr, bf2, u)
    BY <1>4, <1>9, <2>1, <2>2 DEF Respects, ThreadOK, SoleOK, WriterOK, OnlyCount
  <2>4. p[u].at \in Making =>
          \A v \in Threads \ {u} : p2[v].at \in Making => p2[v].frame # p[u].frame
    BY <1>1, <1>3, <2>1 DEF ThreadOK, FreshOK, Making
  <2> QED
    BY <1>3, <2>3, <2>4, OtherThread
<1>11. ThreadOK(fr, bf2, rf, p2, w, t)
  BY <1>1, <1>3, <1>9 DEF Good, ThreadOK, FreshOK, SoleOK, SourceOK, CheckOK, WriterOK, Making
<1> QED
  BY <1>5, <1>7, <1>8, <1>10, <1>11 DEF Good

-------------------------------------------------------------------------------
(* Subframes                                                               *)

\* Frame g comes into being on buffer b, where f is.
NewFrameOn(fr, fr2, f, g, b) ==
    /\ ~fr[g].alive /\ b = fr[f].vfb
    /\ fr2 \in [Frames -> FrameRecs]
    /\ \A k \in Frames \ {g} : fr2[k] = fr[k]
    /\ fr2[g].alive /\ fr2[g].refcount = 0 /\ fr2[g].vfb = b

OneMore(bf, bf2, b) == OnlyCount(bf, bf2, b) /\ bf2[b].refcount = bf[b].refcount + 1

AtSubframe(x, g, f) == x.at \in {"subframe", "replace"} /\ x.frame = g /\ x.src = f

\* A subframe of f comes into being on f's buffer, before it is registered.
LEMMA NewSubframeGood ==
    ASSUME NEW fr, NEW bf, NEW rf, NEW p, NEW w, Good(fr, bf, rf, p, w), NEW t \in Threads,
           p[t] = Idle, NEW f \in rf[t], w[t] # f,
           NEW g \in Frames, NEW b,
           NEW x \in Places, AtSubframe(x, g, f), NEW fr2, NewFrameOn(fr, fr2, f, g, b),
           NEW bf2, OneMore(bf, bf2, b),
           NEW p2, p2 = [p EXCEPT ![t] = x]
    PROVE  Good(fr2, bf2, rf, p2, w)
<1>0. /\ fr2 \in [Frames -> FrameRecs] /\ \A k \in Frames \ {g} : fr2[k] = fr[k]
      /\ fr2[g].alive /\ fr2[g].refcount = 0 /\ fr2[g].vfb = b
      /\ x.at \in {"subframe", "replace"} /\ x.frame = g /\ x.src = f
      /\ ~fr[g].alive /\ b = fr[f].vfb
      /\ OnlyCount(bf, bf2, b) /\ bf2[b].refcount = bf[b].refcount + 1
  BY DEF NewFrameOn, AtSubframe, OneMore
<1> USE <1>0
<1>1. t \in Holders /\ Idle.at = "idle" /\ None \notin Bufs /\ x.at \in Making
  BY FiniteSets1 DEF Holders, Idle, None, Making
<1>2. /\ f \in Frames /\ fr[f].refcount > 0 /\ fr[f].alive /\ b \in Bufs /\ bf[b].alive
      /\ fr[f].refcount = 1 => \A k \in Holders : f \in rf[k] => k = t
  BY <1>1, Held
<1>3. /\ p \in [Threads -> Places] /\ bf \in [Bufs -> BufRecs] /\ rf \in [Holders -> SUBSET Frames]
      /\ p2[t] = x /\ \A u \in Threads \ {t} : p2[u] = p[u]
  BY DEF Good, Typed
<1>4. Typed(fr2, bf2, rf, p2, w)
  BY DEF Good, Typed, OnlyCount
<1>5. fr[g].refcount = 0 /\ fr[g].vfb = None /\ g # f
  BY <1>2 DEF Good, LinksOK
<1>6. \A u \in Threads : p[u].at \in Making => p[u].frame \in Frames /\ p[u].frame # g
  BY DEF Good, ThreadOK, FreshOK
<1>7. PendingIn(p2) = PendingIn(p) \cup {g} /\ g \notin PendingIn(p)
  <2>1. PendingIn(p2) = PendingIn(p) \cup {g}
    BY <1>1, <1>3 DEF PendingIn, Making
  <2>2. g \notin PendingIn(p)
    BY <1>6 DEF PendingIn
  <2> QED
    BY <2>1, <2>2
<1>8. Unlisted(p2) = Unlisted(p) \cup {g}
  BY <1>1, <1>3 DEF Unlisted
<1>9. \A c : Releasing(p2, c) = Releasing(p, c)
  BY <1>1, <1>3 DEF Releasing, Making
<1>10. CountsOK(fr2, bf2, rf, p2)
  <2>1. \A k \in Frames : fr2[k].refcount = Cardinality(HoldersOf(rf, k))
    BY <1>5 DEF Good, CountsOK
  <2>2. ASSUME NEW c \in Bufs, c # b
        PROVE  bf2[c].refcount = Cardinality(InUse(fr2, p2, c)) + Cardinality(Releasing(p2, c))
    <3>1. c # None
      BY <1>1
    <3>2. InUse(fr2, p2, c) = InUse(fr, p, c)
      BY <1>5, <1>7, <2>2, <3>1, ZenonT(30) DEF InUse
    <3>3. /\ Cardinality(InUse(fr2, p2, c)) = Cardinality(InUse(fr, p, c))
          /\ Cardinality(Releasing(p2, c)) = Cardinality(Releasing(p, c))
      BY <1>9, <3>2, Zenon
    <3> QED
      BY <2>2, <3>3 DEF Good, CountsOK, OnlyCount
  <2>3. bf2[b].refcount = Cardinality(InUse(fr2, p2, b)) + Cardinality(Releasing(p2, b))
    <3>1. InUse(fr2, p2, b) = InUse(fr, p, b) \cup {g}
      <4>1. ASSUME NEW k \in Frames
            PROVE  k \in InUse(fr2, p2, b) <=> k \in InUse(fr, p, b) \/ k = g
        <5>1. CASE k = g
          BY <1>7, <5>1 DEF InUse
        <5>2. CASE k # g
          BY <1>7, <5>2 DEF InUse
        <5> QED
          BY <5>1, <5>2
      <4>2. InUse(fr2, p2, b) \subseteq Frames /\ InUse(fr, p, b) \subseteq Frames
        BY DEF InUse
      <4> QED
        BY <4>1, <4>2
    <3>2. IsFiniteSet(InUse(fr, p, b))
      BY FiniteSets1
    <3>3. g \notin InUse(fr, p, b)
      BY <1>1, <1>2, <1>5 DEF InUse
    <3>4. Cardinality(InUse(fr2, p2, b)) = Cardinality(InUse(fr, p, b)) + 1
      <4>1. \A S, T : IsFiniteSet(S) /\ g \notin S /\ T = S \cup {g}
                       => Cardinality(T) = Cardinality(S) + 1
        BY AddOne
      <4> QED
        BY <3>1, <3>2, <3>3, <4>1, Zenon
    <3>5. Cardinality(InUse(fr, p, b)) \in Nat /\ Cardinality(Releasing(p, b)) \in Nat
      BY FiniteSets1
    <3>6. bf[b].refcount = Cardinality(InUse(fr, p, b)) + Cardinality(Releasing(p, b))
      BY <1>2 DEF Good, CountsOK
    <3>7. Cardinality(Releasing(p2, b)) = Cardinality(Releasing(p, b))
      BY <1>9, Zenon
    <3> QED
      BY <3>4, <3>5, <3>6, <3>7
  <2> QED
    BY <2>1, <2>2, <2>3 DEF CountsOK
<1>11. LinksOK(fr2, bf2, p2)
  <2>1. \A c \in Bufs : bf2[c].alive = bf[c].alive /\ bf2[c].list = bf[c].list
    BY DEF OnlyCount
  <2>2. \A c \in Bufs : ToSet(bf[c].list) \subseteq Frames \ {g}
    <3>1. \A c \in Bufs : ToSet(bf[c].list) \subseteq Frames
      BY <1>3 DEF BufRecs, ToSet
    <3>2. \A c \in Bufs : g \notin ToSet(bf[c].list)
      BY DEF Good, LinksOK
    <3> QED
      BY <3>1, <3>2
  <2>3. \A k \in Frames : fr2[k].alive => fr2[k].vfb \in Bufs /\ bf2[fr2[k].vfb].alive
    BY <1>2, <2>1 DEF Good, LinksOK
  <2>4. \A k \in Frames : ~fr2[k].alive => fr2[k].refcount = 0 /\ fr2[k].vfb = None
    BY DEF Good, LinksOK
  <2>5. \A c \in Bufs : /\ bf2[c].alive => bf2[c].list # <<>>
                        /\ ~bf2[c].alive => bf2[c].list = <<>> /\ bf2[c].refcount = 0
    BY <1>2, <2>1 DEF Good, LinksOK, OnlyCount
  <2>6. \A c \in Bufs : \A k \in ToSet(bf2[c].list) :
           fr2[k].alive /\ fr2[k].vfb = c /\ k \notin Unlisted(p2)
    <3>1. ASSUME NEW c \in Bufs, NEW k \in ToSet(bf2[c].list)
          PROVE  fr2[k].alive /\ fr2[k].vfb = c /\ k \notin Unlisted(p2)
      <4>1. k \in ToSet(bf[c].list) /\ k \in Frames \ {g}
        BY <2>1, <2>2, <3>1
      <4>2. fr[k].alive /\ fr[k].vfb = c /\ k \notin Unlisted(p)
        BY <4>1 DEF Good, LinksOK
      <4> QED
        BY <1>8, <4>1, <4>2
    <3> QED
      BY <3>1
  <2>7. \A k \in Frames : fr2[k].alive /\ k \notin Unlisted(p2) => k \in ToSet(bf2[fr2[k].vfb].list)
    <3>1. ASSUME NEW k \in Frames, fr2[k].alive, k \notin Unlisted(p2)
          PROVE  k \in ToSet(bf2[fr2[k].vfb].list)
      <4>1. k # g /\ k \notin Unlisted(p) /\ fr2[k] = fr[k]
        BY <1>8, <3>1
      <4>2. k \in ToSet(bf[fr[k].vfb].list) /\ fr[k].vfb \in Bufs
        BY <3>1, <4>1 DEF Good, LinksOK
      <4> QED
        BY <2>1, <4>1, <4>2
    <3> QED
      BY <3>1
  <2> QED
    BY <2>3, <2>4, <2>5, <2>6, <2>7 DEF LinksOK
<1>12. ASSUME NEW u \in Threads, w[u] # None
       PROVE  /\ w[u] \in Frames /\ fr2[w[u]].refcount = 1 /\ fr2[w[u]].vfb = fr[w[u]].vfb
              /\ bf2[fr[w[u]].vfb].refcount = 1
  <2>1. ThreadOK(fr, bf, rf, p, w, u)
    BY DEF Good
  <2>2. /\ w[u] \in Frames /\ fr[w[u]].vfb \in Bufs /\ InUse(fr, p, fr[w[u]].vfb) = {w[u]}
        /\ \A h \in Holders : w[u] \in rf[h] => h = u
    BY <1>12, WriterAlone
  <2>3. w[u] # g
    BY <1>5, <1>12, <2>1 DEF ThreadOK, WriterOK
  <2>4. fr[w[u]].vfb # b
    <3>1. f \in InUse(fr, p, b)
      BY <1>2 DEF InUse
    <3>2. w[u] # f
      BY <1>1, <2>2
    <3> QED
      BY <2>2, <3>1, <3>2
  <2> QED
    BY <1>12, <2>1, <2>2, <2>3, <2>4 DEF ThreadOK, WriterOK, OnlyCount
<1>13. ASSUME NEW u \in Threads \ {t} PROVE ThreadOK(fr2, bf2, rf, p2, w, u)
  <2>1. ThreadOK(fr, bf, rf, p, w, u)
    BY DEF Good
  <2>2. p[u].at \in Making \cup {"check", "makewritable"} => fr2[p[u].frame] = fr[p[u].frame]
    <3>1. p[u].at \in {"check", "makewritable"} => p[u].frame \in Frames /\ p[u].frame # g
      BY <1>5, <2>1, CheckerAlone DEF ThreadOK, CheckOK
    <3> QED
      BY <1>6, <3>1
  <2>3. ASSUME p[u].at = "new"
        PROVE  /\ bf2[fr[p[u].frame].vfb].list = bf[fr[p[u].frame].vfb].list
               /\ \A k \in Frames : k # p[u].frame => fr2[k].vfb # fr[p[u].frame].vfb
    <3>1. p[u].frame \in Frames /\ fr[p[u].frame].refcount = 0 /\ fr[p[u].frame].vfb \in Bufs
      BY <2>1, <2>3 DEF ThreadOK, FreshOK, Making, Good, LinksOK
    <3>2. \A k \in Frames : k # p[u].frame => fr[k].vfb # fr[p[u].frame].vfb
      BY <2>1, <2>3 DEF ThreadOK, SoleOK
    <3>3. fr[p[u].frame].vfb # b
      BY <1>2, <3>1, <3>2
    <3> QED
      BY <3>1, <3>2, <3>3 DEF OnlyCount
  <2>4. Respects(fr, bf, p, w, fr2, bf2, u)
    BY <1>12, <2>2, <2>3 DEF Respects
  <2>5. p[u].at \in Making =>
          \A v \in Threads \ {u} : p2[v].at \in Making => p2[v].frame # p[u].frame
    BY <1>3, <1>6, <2>1 DEF ThreadOK, FreshOK
  <2> QED
    BY <1>3, <2>4, <2>5, OtherThread
<1>14. ThreadOK(fr2, bf2, rf, p2, w, t)
  <2>1. FreshOK(fr2, p2, t)
    BY <1>3, <1>6 DEF FreshOK
  <2>2. SourceOK(rf, p2, w, t)
    BY <1>1, <1>3 DEF SourceOK, Making
  <2>3. WriterOK(fr2, bf2, rf, w, t)
    BY <1>12 DEF WriterOK, Good, ThreadOK
  <2> QED
    BY <1>1, <1>3, <2>1, <2>2, <2>3 DEF ThreadOK, SoleOK, CheckOK, Making
<1> QED
  BY <1>4, <1>10, <1>11, <1>13, <1>14 DEF Good

\* Frames D of buffer b, without references, are deleted and unlisted; q is the
\* list that stays.
Purges(fr, bf, p, b, D, q, fr2, bf2) ==
    /\ D \subseteq ToSet(bf[b].list) /\ D \cap PendingIn(p) = {}
    /\ \A d \in D : fr[d].refcount = 0
    /\ \A u \in Threads : p[u].at = "new" => fr[p[u].frame].vfb # b
    /\ q \in Seq(Frames) /\ ToSet(q) = ToSet(bf[b].list) \ D /\ q # <<>> /\ bf[b].alive
    /\ fr2 = [f \in Frames |-> IF f \in D THEN NoFrame ELSE fr[f]]
    /\ bf2 \in [Bufs -> BufRecs] /\ \A c \in Bufs \ {b} : bf2[c] = bf[c]
    /\ bf2[b].alive /\ bf2[b].refcount = bf[b].refcount /\ bf2[b].list = q

LEMMA PurgeGood ==
    ASSUME NEW fr, NEW bf, NEW rf, NEW p, NEW w, Good(fr, bf, rf, p, w), NEW b \in Bufs,
           NEW D, NEW q, NEW fr2, NEW bf2, Purges(fr, bf, p, b, D, q, fr2, bf2)
    PROVE  Good(fr2, bf2, rf, p, w)
<1>0. /\ D \subseteq ToSet(bf[b].list) /\ D \cap PendingIn(p) = {}
      /\ \A d \in D : fr[d].refcount = 0
      /\ \A u \in Threads : p[u].at = "new" => fr[p[u].frame].vfb # b
      /\ q \in Seq(Frames) /\ ToSet(q) = ToSet(bf[b].list) \ D /\ q # <<>> /\ bf[b].alive
      /\ fr2 = [f \in Frames |-> IF f \in D THEN NoFrame ELSE fr[f]]
      /\ bf2 \in [Bufs -> BufRecs] /\ \A c \in Bufs \ {b} : bf2[c] = bf[c]
      /\ bf2[b].alive /\ bf2[b].refcount = bf[b].refcount /\ bf2[b].list = q
  BY DEF Purges
<1> USE <1>0
<1>1. /\ fr \in [Frames -> FrameRecs] /\ bf \in [Bufs -> BufRecs] /\ NoFrame \in FrameRecs
      /\ ~NoFrame.alive /\ NoFrame.refcount = 0 /\ NoFrame.vfb = None /\ None \notin Bufs
  BY FiniteSets1 DEF Good, Typed, NoFrame, FrameRecs, None
<1>2. Typed(fr2, bf2, rf, p, w)
  BY <1>1 DEF Good, Typed
<1>3. \A f \in Frames : fr2[f] = IF f \in D THEN NoFrame ELSE fr[f]
  OBVIOUS
<1>4. CountsOK(fr2, bf2, rf, p)
  <2>1. \A f \in Frames : fr2[f].refcount = fr[f].refcount
    BY <1>1, <1>3
  <2>2. ASSUME NEW c \in Bufs PROVE InUse(fr2, p, c) = InUse(fr, p, c)
    <3>1. c # None
      BY <1>1
    <3>2. \A f \in D : f \notin InUse(fr, p, c)
      BY <1>1 DEF InUse
    <3>3. \A f \in Frames : f \in D => fr2[f].vfb # c
      BY <1>1, <1>3, <3>1
    <3>4. \A f \in Frames : f \notin D => fr2[f] = fr[f]
      BY <1>3
    <3> QED
      BY <3>2, <3>3, <3>4 DEF InUse
  <2>3. \A c \in Bufs : bf2[c].refcount = bf[c].refcount
    OBVIOUS
  <2> QED
    BY <2>1, <2>2, <2>3 DEF Good, CountsOK
<1>5. LinksOK(fr2, bf2, p)
  <2>1. \A c \in Bufs : bf2[c].alive = bf[c].alive /\ bf2[c].refcount = bf[c].refcount
    BY <1>1 DEF BufRecs
  <2>2. \A c \in Bufs \ {b} : bf2[c].list = bf[c].list
    OBVIOUS
  <2>3. \A f \in Frames : fr2[f].alive => f \notin D /\ fr2[f] = fr[f]
    BY <1>1, <1>3
  <2>4. \A f \in Frames : fr2[f].alive => fr2[f].vfb \in Bufs /\ bf2[fr2[f].vfb].alive
    BY <2>1, <2>3 DEF Good, LinksOK
  <2>5. \A f \in Frames : ~fr2[f].alive => fr2[f].refcount = 0 /\ fr2[f].vfb = None
    BY <1>1, <1>3 DEF Good, LinksOK
  <2>6. \A c \in Bufs : /\ bf2[c].alive => bf2[c].list # <<>>
                        /\ ~bf2[c].alive => bf2[c].list = <<>> /\ bf2[c].refcount = 0
    BY DEF Good, LinksOK
  <2>7. ASSUME NEW c \in Bufs, NEW f \in ToSet(bf2[c].list)
        PROVE  fr2[f].alive /\ fr2[f].vfb = c /\ f \notin Unlisted(p)
    <3>1. f \in ToSet(bf[c].list) /\ f \in Frames
      <4>1. f \in ToSet(bf[c].list)
        BY <2>2, <2>7
      <4>2. ToSet(bf[c].list) \subseteq Frames
        BY <1>1, SMTT(30) DEF BufRecs, ToSet
      <4> QED
        BY <4>1, <4>2
    <3>2. fr[f].alive /\ fr[f].vfb = c /\ f \notin Unlisted(p)
      BY <3>1 DEF Good, LinksOK
    <3>3. f \notin D
      <4>1. CASE c = b
        BY <2>7, <4>1
      <4>2. CASE c # b
        BY <3>2, <4>2 DEF Good, LinksOK
      <4> QED
        BY <4>1, <4>2
    <3> QED
      BY <1>3, <3>1, <3>2, <3>3
  <2>8. ASSUME NEW f \in Frames, fr2[f].alive, f \notin Unlisted(p)
        PROVE  f \in ToSet(bf2[fr2[f].vfb].list)
    <3>1. f \notin D /\ fr2[f] = fr[f]
      BY <2>3, <2>8
    <3>2. f \in ToSet(bf[fr[f].vfb].list) /\ fr[f].vfb \in Bufs
      BY <2>8, <3>1 DEF Good, LinksOK
    <3>3. CASE fr[f].vfb = b
      BY <3>1, <3>2, <3>3
    <3>4. CASE fr[f].vfb # b
      BY <2>2, <3>1, <3>2, <3>4
    <3> QED
      BY <3>3, <3>4
  <2> QED
    BY <2>4, <2>5, <2>6, <2>7, <2>8 DEF LinksOK
<1>6. ASSUME NEW u \in Threads PROVE ThreadOK(fr2, bf2, rf, p, w, u)
  <2>1. ThreadOK(fr, bf, rf, p, w, u)
    BY DEF Good
  <2>2. p[u].at \in Making \cup {"check", "makewritable"} => fr2[p[u].frame] = fr[p[u].frame]
    <3>1. p[u].at \in {"check", "makewritable"} => p[u].frame \in Frames /\ p[u].frame \notin D
      BY <2>1, CheckerAlone DEF ThreadOK, CheckOK
    <3>2. p[u].at \in Making => p[u].frame \in Frames /\ p[u].frame \notin D
      BY <2>1 DEF ThreadOK, FreshOK, PendingIn
    <3> QED
      BY <1>3, <3>1, <3>2
  <2>3. ASSUME p[u].at = "new"
        PROVE  /\ bf2[fr[p[u].frame].vfb].list = bf[fr[p[u].frame].vfb].list
               /\ \A k \in Frames : k # p[u].frame => fr2[k].vfb # fr[p[u].frame].vfb
    <3>1. fr[p[u].frame].vfb \in Bufs /\ fr[p[u].frame].vfb # b
      BY <2>1, <2>3 DEF ThreadOK, FreshOK, Making, Good, LinksOK
    <3>2. \A k \in Frames : k # p[u].frame => fr[k].vfb # fr[p[u].frame].vfb
      BY <2>1, <2>3 DEF ThreadOK, SoleOK
    <3> QED
      BY <1>1, <1>3, <3>1, <3>2
  <2>4. w[u] # None => /\ fr2[w[u]].refcount = 1 /\ fr2[w[u]].vfb = fr[w[u]].vfb
                       /\ bf2[fr[w[u]].vfb].refcount = 1
    <3>1. w[u] # None => w[u] \in Frames /\ w[u] \notin D /\ fr[w[u]].vfb \in Bufs
      BY <2>1, WriterAlone DEF ThreadOK, WriterOK
    <3> QED
      BY <1>3, <2>1, <3>1 DEF ThreadOK, WriterOK
  <2>5. Respects(fr, bf, p, w, fr2, bf2, u)
    BY <2>2, <2>3, <2>4 DEF Respects
  <2>6. p[u].at \in Making =>
          \A v \in Threads \ {u} : p[v].at \in Making => p[v].frame # p[u].frame
    BY <2>1 DEF ThreadOK, FreshOK
  <2> QED
    BY <2>5, <2>6, OtherThread
<1> QED
  BY <1>2, <1>4, <1>5, <1>6 DEF Good

-------------------------------------------------------------------------------
(* The actions that GetNewFrame is not part of                             *)

SetCount(fr, f, n) == [fr EXCEPT ![f].refcount = n]

LEMMA SetCountFacts ==
    ASSUME NEW fr \in [Frames -> FrameRecs], NEW f \in Frames, NEW n \in Nat
    PROVE  /\ OnlyFrame(fr, SetCount(fr, f, n), f) /\ SetCount(fr, f, n)[f].refcount = n
           /\ \A g \in Frames : SetCount(fr, f, n)[g].props = fr[g].props
<1> DEFINE fr2 == SetCount(fr, f, n)
<1>1. fr[f] \in FrameRecs
  OBVIOUS
<1>2. fr2[f] \in FrameRecs /\ fr2[f].refcount = n /\ fr2[f].alive = fr[f].alive
      /\ fr2[f].vfb = fr[f].vfb /\ fr2[f].props = fr[f].props
  BY <1>1 DEF FrameRecs, SetCount
<1>3. \A g \in Frames \ {f} : fr2[g] = fr[g]
  BY DEF SetCount
<1>4. fr2 \in [Frames -> FrameRecs]
  BY <1>2 DEF SetCount
<1> HIDE DEF fr2
<1>5. OnlyFrame(fr, fr2, f) /\ fr2[f].refcount = n /\ \A g \in Frames : fr2[g].props = fr[g].props
  BY <1>2, <1>3, <1>4 DEF OnlyFrame
<1> QED
  BY <1>5 DEF fr2

LEMMA GotoPlaces ==
    ASSUME NEW label \in Labels, NEW f \in Frames \cup {None}, NEW src \in Frames \cup Bufs \cup {None}
    PROVE  [at |-> label, frame |-> f, src |-> src] \in Places
BY DEF Places

\* DropRef of an idle thread, after whatever else the step did.
LEMMA DropRefStep ==
    ASSUME NEW fr, NEW bf, NEW rf, NEW w, NEW t \in Threads,
           NEW p, p[t] = Idle, \A x : [p EXCEPT ![t] = x] = [pc EXCEPT ![t] = x],
           Good(fr, bf, rf, p, w), NEW h \in {t, Cache}, NEW f \in rf[h], h = t => w[t] # f,
           DropRef(t, h, f, fr, rf)
    PROVE  Good(frames', bf, refs', pc', w)
<1> DEFINE x == IF fr[f].refcount = 1 THEN [at |-> "release", frame |-> f, src |-> fr[f].vfb]
                ELSE Idle
<1>1. t \in Holders /\ h \in Holders
  BY DEF Holders
<1>2. f \in Frames /\ fr[f].refcount \in Nat /\ fr[f].refcount > 0 /\ fr[f].vfb \in Bufs
  BY <1>1, Held
<1>3. x \in Places /\ (fr[f].refcount = 1 => x.at = "release" /\ x.src = fr[f].vfb)
  BY <1>2, GotoPlaces DEF Labels, Idle, None
<1>4. fr \in [Frames -> FrameRecs]
  BY DEF Good, Typed
<1>5. frames' = [fr EXCEPT ![f].refcount = fr[f].refcount - 1]
  BY DEF DropRef
<1>6. OnlyFrame(fr, frames', f) /\ frames'[f].refcount = fr[f].refcount - 1
  <2>1. PICK n \in Nat : n = fr[f].refcount - 1
    BY <1>2
  <2>2. frames' = SetCount(fr, f, n)
    BY <1>5, <2>1 DEF SetCount
  <2> QED
    BY <1>2, <1>4, <2>1, <2>2, SetCountFacts, Zenon
<1>7. pc' = [pc EXCEPT ![t] = x] /\ refs' = [rf EXCEPT ![h] = @ \ {f}]
  BY DEF DropRef, Goto, Idle
<1>8. pc' = [p EXCEPT ![t] = x]
  BY <1>7
<1>9. AfterDrop(fr, f, x)
  BY <1>3 DEF AfterDrop
<1> HIDE DEF x
<1>10. PICK y \in Places : y = x
  BY <1>3
<1>11. AfterDrop(fr, f, y)
  BY <1>9, <1>10
<1>12. refs' = [rf EXCEPT ![h] = @ \ {f}] /\ pc' = [p EXCEPT ![t] = y]
  BY <1>7, <1>8, <1>10
<1> QED
  BY <1>6, <1>11, <1>12, DropRefGood

LEMMA ReleaseStep ==
    ASSUME RegistryInv, NEW t \in Threads, NEW h \in Holders, NEW f \in Frames, Release(t, h, f)
    PROVE  RegistryInv'
<1>1. pc \in [Threads -> Places] /\ pc[t] = Idle /\ bufs' = bufs /\ writing' = writing
  BY DEF RegistryInv, Good, Typed, Release
<1>2. Good(frames', bufs, refs', pc', writing)
  BY <1>1, DropRefStep DEF RegistryInv, Release
<1> QED
  BY <1>1, <1>2 DEF RegistryInv

LEMMA ReleaseBufferStep ==
    ASSUME RegistryInv, NEW t \in Threads, ReleaseBuffer(t)
    PROVE  RegistryInv'
<1>1. /\ pc[t].at = "release" /\ bufs' = [bufs EXCEPT ![pc[t].src].refcount = @ - 1]
      /\ pc' = [pc EXCEPT ![t] = Idle] /\ frames' = frames /\ refs' = refs /\ writing' = writing
  BY DEF ReleaseBuffer, Goto, Idle
<1> QED
  BY <1>1, ReleaseBufferGood DEF RegistryInv

LEMMA CopyRefStep ==
    ASSUME RegistryInv, NEW t \in Threads, NEW from \in Holders, NEW to \in Holders,
           NEW f \in Frames, CopyRef(t, from, to, f)
    PROVE  RegistryInv'
<1>1. from \in {t, Cache} /\ to \in {t, Cache} /\ pc[t] = Idle /\ writing[t] # f
      /\ f \in refs[from] \ refs[to]
  BY DEF CopyRef
<1>2. frames \in [Frames -> FrameRecs] /\ frames[f].refcount \in Nat
  <2>1. frames \in [Frames -> FrameRecs]
    BY DEF RegistryInv, Good, Typed
  <2> QED
    BY <2>1 DEF FrameRecs
<1>3. frames' = [frames EXCEPT ![f].refcount = frames[f].refcount + 1]
  BY DEF CopyRef
<1>4. OnlyFrame(frames, frames', f) /\ frames'[f].refcount = frames[f].refcount + 1
  <2>1. PICK n \in Nat : n = frames[f].refcount + 1
    BY <1>2
  <2>2. frames' = SetCount(frames, f, n)
    BY <1>3, <2>1 DEF SetCount
  <2> QED
    BY <1>2, <2>1, <2>2, SetCountFacts, Zenon
<1>5. refs' = [refs EXCEPT ![to] = @ \cup {f}] /\ bufs' = bufs /\ pc' = pc /\ writing' = writing
  BY DEF CopyRef
<1>6. Good(frames', bufs, refs', pc, writing)
  BY <1>1, <1>4, <1>5, CopyRefGood DEF RegistryInv
<1> QED
  BY <1>5, <1>6 DEF RegistryInv

LEMMA SetPropertyStep ==
    ASSUME RegistryInv, NEW t \in Threads, NEW f \in Frames, SetProperty(t, f)
    PROVE  RegistryInv'
<1>1. frames \in [Frames -> FrameRecs] /\ frames[f] \in FrameRecs
  BY DEF RegistryInv, Good, Typed
<1>2. frames' = [frames EXCEPT ![f].props = "set"]
  BY DEF SetProperty
<1>3. OnlyFrame(frames, frames', f) /\ frames'[f].refcount = frames[f].refcount
  <2>1. /\ frames'[f] \in FrameRecs /\ frames'[f].refcount = frames[f].refcount
        /\ frames'[f].alive = frames[f].alive /\ frames'[f].vfb = frames[f].vfb
    BY <1>1, <1>2 DEF FrameRecs
  <2>2. frames' \in [Frames -> FrameRecs] /\ \A g \in Frames \ {f} : frames'[g] = frames[g]
    BY <1>1, <1>2, <2>1
  <2> QED
    BY <2>1, <2>2 DEF OnlyFrame
<1>4. /\ pc[t] = Idle /\ f \in refs[t] /\ frames[f].refcount = 1
      /\ bufs' = bufs /\ refs' = refs /\ pc' = pc /\ writing' = writing
  BY DEF SetProperty
<1>5. Good(frames', bufs, refs, pc, writing)
  BY <1>3, <1>4, SetPropertyGood DEF RegistryInv
<1> QED
  BY <1>4, <1>5 DEF RegistryInv

LEMMA StopWritingStep ==
    ASSUME RegistryInv, NEW t \in Threads, StopWriting(t)
    PROVE  RegistryInv'
<1>1. /\ pc[t] = Idle /\ writing' = [writing EXCEPT ![t] = None] /\ writing'[t] = None
      /\ frames' = frames /\ bufs' = bufs /\ refs' = refs /\ pc' = pc
      /\ pc \in [Threads -> Places]
  BY DEF StopWriting, RegistryInv, Good, Typed
<1>2. pc = [pc EXCEPT ![t] = Idle] /\ Idle \in Places /\ Idle.at = "idle"
  BY <1>1 DEF Idle, Places, Labels
<1>3. SourceOK(refs, pc, writing', t) /\ CheckOK(frames, refs, pc, writing', t)
  BY <1>1, <1>2 DEF SourceOK, CheckOK
<1>4. WriterOK(frames, bufs, refs, writing', t)
  BY <1>1 DEF WriterOK
<1>5. Good(frames, bufs, refs, pc, writing')
  <2>1. pc[t].at \in Plain /\ Idle.at \in Plain /\ None \in Frames \cup {None}
    BY <1>1, <1>2 DEF Plain
  <2>2. \A p2, w2 :
          /\ p2 = [pc EXCEPT ![t] = Idle] /\ w2 = [writing EXCEPT ![t] = None]
          /\ SourceOK(refs, p2, w2, t) /\ CheckOK(frames, refs, p2, w2, t)
          /\ WriterOK(frames, bufs, refs, w2, t)
         => Good(frames, bufs, refs, p2, w2)
    BY <1>2, <2>1, MoveGood DEF RegistryInv
  <2> QED
    BY <1>1, <1>2, <1>3, <1>4, <2>2, Zenon
<1> QED
  BY <1>1, <1>5 DEF RegistryInv

LEMMA IsWritableStep ==
    ASSUME RegistryInv, NEW t \in Threads, NEW f \in Frames, NEW label \in {"check", "makewritable"},
           IsWritable(t, f, label)
    PROVE  RegistryInv'
<1> DEFINE x == IF frames[f].refcount = 1 THEN [at |-> label, frame |-> f, src |-> None]
                ELSE [at |-> "copy", frame |-> None, src |-> f]
<1>1. /\ pc[t] = Idle /\ f \in refs[t] /\ writing[t] = None /\ pc' = [pc EXCEPT ![t] = x]
      /\ frames' = frames /\ bufs' = bufs /\ refs' = refs /\ writing' = writing
      /\ pc \in [Threads -> Places] /\ writing \in [Threads -> Frames \cup {None}]
  BY DEF IsWritable, Goto, RegistryInv, Good, Typed
<1>2. /\ x \in Places /\ x.at \in Plain \ {"idle"} /\ Idle.at = "idle"
      /\ x.at \in {"check", "makewritable"} => x.frame = f /\ frames[f].refcount = 1
      /\ x.at = "copy" => x.src = f
  BY DEF Places, Labels, Plain, Idle
<1> HIDE DEF x
<1>3. pc'[t] = x /\ writing = [writing EXCEPT ![t] = None]
  BY <1>1
<1>4. SourceOK(refs, pc', writing, t) /\ CheckOK(frames, refs, pc', writing, t)
  BY <1>1, <1>2, <1>3 DEF SourceOK, CheckOK, Plain
<1>5. WriterOK(frames, bufs, refs, writing, t)
  BY <1>1 DEF WriterOK
<1>6. Good(frames, bufs, refs, pc', writing)
  <2>1. pc[t].at \in Plain /\ x.at \in Plain /\ None \in Frames \cup {None}
    BY <1>1, <1>2 DEF Plain
  <2>2. PICK y \in Places : y = x
    BY <1>2
  <2>3. y.at \in Plain /\ pc' = [pc EXCEPT ![t] = y]
    BY <1>1, <2>1, <2>2
  <2> QED
    BY <1>3, <1>4, <1>5, <2>1, <2>3, MoveGood DEF RegistryInv
<1> QED
  BY <1>1, <1>6 DEF RegistryInv

LEMMA IsWritableBufferStep ==
    ASSUME RegistryInv, NEW t \in Threads, IsWritableBuffer(t)
    PROVE  RegistryInv'
<1> DEFINE f == pc[t].frame
           wt == IF bufs[frames[f].vfb].refcount = 1 THEN f ELSE None
           x == IF bufs[frames[f].vfb].refcount = 1 \/ pc[t].at = "check" THEN Idle
                ELSE [at |-> "copy", frame |-> None, src |-> f]
<1>1. /\ pc[t].at \in {"check", "makewritable"}
      /\ pc \in [Threads -> Places] /\ writing \in [Threads -> Frames \cup {None}]
      /\ f \in refs[t] /\ frames[f].refcount = 1 /\ writing[t] = None /\ f \in Frames
  <2>1. pc[t].at \in {"check", "makewritable"}
    BY DEF IsWritableBuffer
  <2>2. f \in refs[t] /\ frames[f].refcount = 1 /\ writing[t] = None
    BY <2>1 DEF RegistryInv, Good, ThreadOK, CheckOK
  <2>3. f \in Frames
    BY <2>1, CheckerAlone DEF RegistryInv
  <2> QED
    BY <2>1, <2>2, <2>3 DEF RegistryInv, Good, Typed
<1>2. /\ pc' = [pc EXCEPT ![t] = x] /\ writing' = [writing EXCEPT ![t] = wt]
      /\ frames' = frames /\ bufs' = bufs /\ refs' = refs
  <2>1. writing = [writing EXCEPT ![t] = None]
    BY <1>1
  <2> QED
    BY <2>1 DEF IsWritableBuffer, Goto, Idle
<1>3. /\ x \in Places /\ x.at \in {"idle", "copy"} /\ Idle.at = "idle"
      /\ x.at = "idle" => x = Idle
      /\ x.at = "copy" => x.src = f /\ wt = None
      /\ wt \in Frames \cup {None}
      /\ wt # None => wt = f /\ bufs[frames[f].vfb].refcount = 1
  BY <1>1 DEF Places, Labels, Idle
<1> HIDE DEF x, wt
<1>4. pc'[t] = x /\ writing'[t] = wt
  BY <1>1, <1>2
<1>5. SourceOK(refs, pc', writing', t) /\ CheckOK(frames, refs, pc', writing', t)
  BY <1>1, <1>3, <1>4 DEF SourceOK, CheckOK
<1>6. WriterOK(frames, bufs, refs, writing', t)
  BY <1>1, <1>3, <1>4 DEF WriterOK
<1>7. Good(frames, bufs, refs, pc', writing')
  BY <1>1, <1>2, <1>3, <1>5, <1>6, MoveGood DEF RegistryInv, Plain
<1> QED
  BY <1>2, <1>7 DEF RegistryInv

LEMMA AddRefStep ==
    ASSUME RegistryInv, NEW t \in Threads, AddRef(t)
    PROVE  RegistryInv'
<1> DEFINE f == pc[t].frame
           src == pc[t].src
           fr == [frames EXCEPT ![f].refcount = @ + 1]
           rf == [refs EXCEPT ![t] = @ \cup {f}]
           p == [pc EXCEPT ![t] = Idle]
<1>1. /\ pc[t].at = "new" /\ bufs' = bufs /\ writing' = writing
      /\ \/ src = None /\ frames' = fr /\ refs' = rf /\ pc' = p
         \/ src # None /\ DropRef(t, t, src, [fr EXCEPT ![f].props = fr[src].props], rf)
  BY DEF AddRef, Goto, Idle
<1>2. /\ Typed(frames, bufs, refs, pc, writing) /\ LinksOK(frames, bufs, pc)
      /\ pc \in [Threads -> Places] /\ bufs \in [Bufs -> BufRecs]
      /\ frames \in [Frames -> FrameRecs] /\ refs \in [Holders -> SUBSET Frames]
  BY DEF RegistryInv, Good, Typed
<1>3. /\ f \in Frames /\ frames[f].refcount = 0
      /\ src # None => src \in refs[t] /\ writing[t] = None
  BY <1>1 DEF RegistryInv, Good, ThreadOK, FreshOK, SourceOK, Making
<1>4. t \in Holders /\ Idle.at = "idle" /\ p[t] = Idle /\ \A u \in Threads \ {t} : p[u] = pc[u]
  BY <1>2 DEF Holders, Idle
<1>5. \A x : [p EXCEPT ![t] = x] = [pc EXCEPT ![t] = x]
  BY <1>2
<1> HIDE DEF p
<1>6. Unlisted(p) = Unlisted(pc)
  BY <1>1, <1>4 DEF Unlisted
<1>7. fr = SetCount(frames, f, 1)
  BY <1>2, <1>3 DEF SetCount
<1>8. OnlyFrame(frames, fr, f) /\ fr[f].refcount = 1
  BY <1>2, <1>3, <1>7, SetCountFacts
<1>9. rf[t] = refs[t] \cup {f} /\ rf \in [Holders -> SUBSET Frames]
  BY <1>2, <1>3, <1>4
<1>10. ASSUME NEW fr2, OnlyFrame(frames, fr2, f), fr2[f].refcount = 1
       PROVE  Good(fr2, bufs, rf, p, writing)
  <2>1. LinksOK(fr2, bufs, p)
    <3>1. \A g \in Frames : fr2[g].alive = frames[g].alive /\ fr2[g].vfb = frames[g].vfb
      BY <1>10 DEF OnlyFrame
    <3>2. frames[f].alive
      BY <1>1 DEF RegistryInv, Good, ThreadOK, FreshOK, Making
    <3>3. \A g \in Frames : ~frames[g].alive => fr2[g].refcount = frames[g].refcount
      BY <1>10, <3>2 DEF OnlyFrame
    <3> QED
      BY <1>2, <1>6, <3>1, <3>3, SameLinks
  <2>2. pc[t].at \in Making /\ p = [pc EXCEPT ![t] = Idle]
    BY <1>1 DEF Making, p
  <2>3. FirstRef(frames, bufs, refs, pc, t, f, fr2, bufs, rf, p)
    BY <1>2, <1>10, <2>2 DEF FirstRef
  <2> QED
    BY <2>1, <2>3, FirstRefGood DEF RegistryInv
<1>11. CASE src = None
  <2>1. frames' = fr /\ refs' = rf /\ pc' = p
    BY <1>1, <1>11
  <2>2. Good(fr, bufs, rf, p, writing)
    BY <1>8, <1>10
  <2> QED
    BY <1>1, <2>1, <2>2 DEF RegistryInv
<1>12. CASE src # None
  <2> DEFINE fr2 == [fr EXCEPT ![f].props = fr[src].props]
  <2>1. src \in refs[t] /\ writing[t] # src /\ src \in Frames
    BY <1>2, <1>3, <1>4, <1>12
  <2>2. DropRef(t, t, src, fr2, rf)
    BY <1>1, <1>12
  <2> HIDE DEF fr, rf
  <2>3. fr \in [Frames -> FrameRecs] /\ fr[f] \in FrameRecs /\ fr[src].props \in {"clear", "set"}
    BY <1>3, <1>8, <2>1 DEF OnlyFrame, FrameRecs
  <2>4. /\ fr2[f] \in FrameRecs /\ fr2[f].refcount = fr[f].refcount
        /\ fr2[f].alive = fr[f].alive /\ fr2[f].vfb = fr[f].vfb
    BY <1>3, <2>3 DEF FrameRecs
  <2>5. fr2 \in [Frames -> FrameRecs] /\ \A g \in Frames \ {f} : fr2[g] = fr[g]
    BY <2>3, <2>4
  <2> HIDE DEF fr2
  <2>6. OnlyFrame(frames, fr2, f) /\ fr2[f].refcount = 1
    BY <1>8, <2>4, <2>5 DEF OnlyFrame
  <2>7. Good(fr2, bufs, rf, p, writing)
    BY <1>10, <2>6 DEF fr, rf
  <2>8. src \in rf[t]
    BY <1>9, <2>1 DEF fr, rf
  <2>9. Good(frames', bufs, refs', pc', writing)
    BY <1>4, <1>5, <2>1, <2>2, <2>7, <2>8, DropRefStep
  <2> QED
    BY <1>1, <2>9 DEF RegistryInv
<1> QED
  BY <1>11, <1>12

LEMMA LeastUnused ==
    ASSUME NEW objects, NEW Ids \in SUBSET Nat, Unused(objects, Ids) # {}
    PROVE  /\ Min(Unused(objects, Ids)) \in Ids
           /\ ~objects[Min(Unused(objects, Ids))].alive
<1> DEFINE S == Unused(objects, Ids)
<1>1. S \subseteq Nat /\ S # {}
  BY DEF Unused
<1>2. \E x \in S : \A y \in S : x <= y
  <2> HIDE DEF S
  <2> QED
    BY <1>1, LeastNumber
<1>3. Min(S) \in S
  BY <1>2 DEF Min
<1> QED
  BY <1>3 DEF Unused

LEMMA NewSubframeStep ==
    ASSUME RegistryInv, NEW t \in Threads, NEW f \in Frames, NEW label \in {"subframe", "replace"},
           NewSubframe(t, f, label)
    PROVE  RegistryInv'
<1> DEFINE g == Min(Unused(frames, Frames))
           b == frames[f].vfb
           x == [at |-> label, frame |-> g, src |-> f]
           new == [alive |-> TRUE, refcount |-> 0, vfb |-> b, props |-> frames[f].props]
<1>1. /\ pc[t] = Idle /\ f \in refs[t] /\ writing[t] # f /\ Unused(frames, Frames) # {}
      /\ frames' = [frames EXCEPT ![g] = new]
      /\ bufs' = [bufs EXCEPT ![b].refcount = @ + 1]
      /\ pc' = [pc EXCEPT ![t] = x]
      /\ refs' = refs /\ writing' = writing
  BY DEF NewSubframe, Goto
<1>2. frames \in [Frames -> FrameRecs] /\ bufs \in [Bufs -> BufRecs]
  BY DEF RegistryInv, Good, Typed
<1>3. g \in Frames /\ ~frames[g].alive
  <2>1. Frames \in SUBSET Nat
    BY RegistryAssumption DEF Frames
  <2> QED
    BY <1>1, <2>1, LeastUnused
<1> HIDE DEF g
<1>4. b \in Bufs
  <2>1. t \in Holders
    BY DEF Holders
  <2> QED
    BY <1>1, <2>1, Held DEF RegistryInv
<1>5. new \in FrameRecs /\ new.alive /\ new.refcount = 0 /\ new.vfb = b
  <2>1. frames[f].props \in {"clear", "set"}
    BY <1>2 DEF FrameRecs
  <2> QED
    BY <1>4, <2>1 DEF FrameRecs
<1> HIDE DEF new
<1>6. /\ frames' \in [Frames -> FrameRecs] /\ \A k \in Frames \ {g} : frames'[k] = frames[k]
      /\ frames'[g].alive /\ frames'[g].refcount = 0 /\ frames'[g].vfb = b
  BY <1>1, <1>2, <1>3, <1>5
<1> HIDE DEF b
<1>7. OnlyCount(bufs, bufs', b) /\ bufs'[b].refcount = bufs[b].refcount + 1
  <2>1. bufs[b] \in BufRecs /\ bufs[b].refcount + 1 \in Nat
    BY <1>2, <1>4 DEF BufRecs
  <2>2. bufs'[b] \in BufRecs /\ bufs'[b].refcount = bufs[b].refcount + 1
        /\ bufs'[b].alive = bufs[b].alive /\ bufs'[b].list = bufs[b].list
    BY <1>1, <1>2, <1>4, <2>1 DEF BufRecs
  <2> QED
    BY <1>1, <1>2, <1>4, <2>2 DEF OnlyCount
<1>8. /\ x \in Places /\ x.at \in {"subframe", "replace"} /\ x.frame = g /\ x.src = f
  BY <1>3 DEF Places, Labels
<1> HIDE DEF x
<1>9. PICK y \in Places : y = x
  BY <1>8
<1>10. /\ y.at \in {"subframe", "replace"} /\ y.frame = g /\ y.src = f
       /\ pc' = [pc EXCEPT ![t] = y]
  BY <1>1, <1>8, <1>9
<1>11. PICK h \in Frames : h = g
  BY <1>3
<1>12. PICK c \in Bufs : c = b
  BY <1>4
<1>13. NewFrameOn(frames, frames', f, h, c) /\ AtSubframe(y, h, f)
  BY <1>3, <1>6, <1>10, <1>11, <1>12 DEF b, NewFrameOn, AtSubframe
<1>14. OneMore(bufs, bufs', c)
  BY <1>7, <1>12 DEF OneMore
<1>15. pc[t] = Idle /\ f \in refs[t] /\ writing[t] # f /\ pc' = [pc EXCEPT ![t] = y]
  BY <1>1, <1>10
<1>16. Good(frames', bufs', refs, pc', writing)
  BY <1>13, <1>14, <1>15, NewSubframeGood DEF RegistryInv
<1> QED
  BY <1>1, <1>16 DEF RegistryInv

LEMMA ToSetOfAppend ==
    ASSUME NEW A, NEW q \in Seq(A), NEW x \in A
    PROVE  Append(q, x) \in Seq(A) /\ Append(q, x) # <<>> /\ ToSet(Append(q, x)) = ToSet(q) \cup {x}
<1> DEFINE r == Append(q, x)
<1>1. /\ r \in Seq(A) /\ Len(r) = Len(q) + 1 /\ Len(q) \in Nat /\ r[Len(q) + 1] = x
      /\ \A i \in 1 .. Len(q) : r[i] = q[i]
  OBVIOUS
<1>2. DOMAIN r = 1 .. Len(q) + 1 /\ DOMAIN q = 1 .. Len(q)
  OBVIOUS
<1>3. r # <<>>
  BY <1>1
<1> HIDE DEF r
<1>4. ASSUME NEW y PROVE y \in ToSet(r) <=> y \in ToSet(q) \/ y = x
  <2>1. y \in ToSet(r) <=> \E i \in 1 .. Len(q) + 1 : y = r[i]
    BY <1>2 DEF ToSet
  <2>2. y \in ToSet(q) <=> \E i \in 1 .. Len(q) : y = q[i]
    BY <1>2 DEF ToSet
  <2>3. \A i \in 1 .. Len(q) + 1 : i \in 1 .. Len(q) \/ i = Len(q) + 1
    BY <1>1
  <2>4. 1 .. Len(q) \subseteq 1 .. Len(q) + 1 /\ Len(q) + 1 \in 1 .. Len(q) + 1
    BY <1>1
  <2> QED
    BY <1>1, <2>1, <2>2, <2>3, <2>4
<1>5. ToSet(r) = ToSet(q) \cup {x}
  BY <1>4
<1> QED
  BY <1>1, <1>3, <1>5 DEF r

LEMMA ToSetOfDrop ==
    ASSUME NEW A, NEW q \in Seq(A), NEW S
    PROVE  Drop(q, S) \in Seq(A) /\ ToSet(Drop(q, S)) = ToSet(q) \ S
<1>1. Drop(q, S) \in Seq(A)
  BY DropFacts
<1>2. PICK r \in Seq(A) : r = Drop(q, S)
  BY <1>1
<1>3. {r[k] : k \in 1 .. Len(r)} = {q[i] : i \in 1 .. Len(q)} \ S
  BY <1>2, DropMembers
<1>4. DOMAIN r = 1 .. Len(r) /\ DOMAIN q = 1 .. Len(q)
  OBVIOUS
<1>5. ToSet(r) = ToSet(q) \ S
  BY <1>3, <1>4 DEF ToSet
<1> QED
  BY <1>2, <1>5

SetList(bf, b, q) == [bf EXCEPT ![b].list = q]

LEMMA SetListFacts ==
    ASSUME NEW bf \in [Bufs -> BufRecs], NEW b \in Bufs, NEW q \in Seq(Frames)
    PROVE  /\ SetList(bf, b, q) \in [Bufs -> BufRecs]
           /\ SetList(bf, b, q)[b].refcount = bf[b].refcount
           /\ SetList(bf, b, q)[b].alive = bf[b].alive /\ SetList(bf, b, q)[b].list = q
           /\ \A c \in Bufs \ {b} : SetList(bf, b, q)[c] = bf[c]
<1>1. PICK r \in BufRecs : r = bf[b]
  OBVIOUS
<1>2. PICK s : s = [r EXCEPT !.list = q]
  OBVIOUS
<1>3. s \in BufRecs /\ s.refcount = r.refcount /\ s.alive = r.alive /\ s.list = q
  BY <1>2 DEF BufRecs
<1>4. PICK bf2 : bf2 = [bf EXCEPT ![b] = s]
  OBVIOUS
<1>5. bf2[b] = s /\ bf2 \in [Bufs -> BufRecs] /\ \A c \in Bufs \ {b} : bf2[c] = bf[c]
  BY <1>3, <1>4
<1>6. SetList(bf, b, q) = bf2
  BY <1>1, <1>2, <1>4 DEF SetList
<1> QED
  BY <1>1, <1>3, <1>5, <1>6, Zenon

\* The new frame gets its first reference and is registered.
Registers(t, g, b, p, fr, bf, rf) ==
    /\ pc[t].at \in {"subframe", "replace"} /\ g = pc[t].frame /\ b = frames[g].vfb
    /\ p = [pc EXCEPT ![t] = Idle]
    /\ fr = SetCount(frames, g, 1)
    /\ bf = [bufs EXCEPT ![b].list = Append(@, g)]
    /\ rf = [refs EXCEPT ![t] = @ \cup {g}]

LEMMA RegisteredGood ==
    ASSUME RegistryInv, NEW t \in Threads, NEW g, NEW b, NEW p, NEW fr, NEW bf, NEW rf,
           Registers(t, g, b, p, fr, bf, rf)
    PROVE  /\ g \in Frames /\ b \in Bufs /\ bf[b].alive
           /\ Good(fr, bf, rf, p, writing)
           /\ bf \in [Bufs -> BufRecs] /\ bf[b].refcount = bufs[b].refcount
           /\ bf[b].list = Append(bufs[b].list, g) /\ \A c \in Bufs \ {b} : bf[c] = bufs[c]
<1>0. /\ pc[t].at \in {"subframe", "replace"} /\ g = pc[t].frame /\ b = frames[g].vfb
      /\ p = [pc EXCEPT ![t] = Idle]
      /\ fr = SetCount(frames, g, 1)
      /\ bf = [bufs EXCEPT ![b].list = Append(@, g)]
      /\ rf = [refs EXCEPT ![t] = @ \cup {g}]
  BY DEF Registers
<1>1. /\ pc \in [Threads -> Places] /\ bufs \in [Bufs -> BufRecs]
      /\ frames \in [Frames -> FrameRecs] /\ refs \in [Holders -> SUBSET Frames]
      /\ LinksOK(frames, bufs, pc)
  BY DEF RegistryInv, Good, Typed
<1>2. /\ g \in Frames /\ frames[g].alive /\ frames[g].refcount = 0 /\ b \in Bufs /\ bufs[b].alive
      /\ \A u \in Threads \ {t} : pc[u].at \in Making => pc[u].frame # g
  <2>1. /\ g \in Frames /\ frames[g].alive /\ frames[g].refcount = 0
        /\ \A u \in Threads \ {t} : pc[u].at \in Making => pc[u].frame # g
    BY <1>0 DEF RegistryInv, Good, ThreadOK, FreshOK, Making
  <2> QED
    BY <1>0, <1>1, <2>1 DEF LinksOK
<1>3. Idle.at = "idle" /\ p[t] = Idle /\ \A u \in Threads \ {t} : p[u] = pc[u]
  BY <1>0, <1>1 DEF Idle
<1>4. OnlyFrame(frames, fr, g) /\ fr[g].refcount = 1
  <2>1. fr = SetCount(frames, g, 1)
    BY <1>0
  <2>2. OnlyFrame(frames, SetCount(frames, g, 1), g) /\ SetCount(frames, g, 1)[g].refcount = 1
    BY <1>1, <1>2, SetCountFacts
  <2> QED
    BY <2>1, <2>2, Zenon
<1>5. /\ bufs[b] \in BufRecs /\ bufs[b].list \in Seq(Frames)
      /\ Append(bufs[b].list, g) \in Seq(Frames) /\ Append(bufs[b].list, g) # <<>>
      /\ ToSet(Append(bufs[b].list, g)) = ToSet(bufs[b].list) \cup {g}
  <2>1. bufs[b] \in BufRecs /\ bufs[b].list \in Seq(Frames)
    BY <1>1, <1>2 DEF BufRecs
  <2>2. PICK q \in Seq(Frames) : q = bufs[b].list
    BY <2>1
  <2>3. Append(q, g) \in Seq(Frames) /\ Append(q, g) # <<>> /\ ToSet(Append(q, g)) = ToSet(q) \cup {g}
    BY <1>2, ToSetOfAppend
  <2> QED
    BY <2>1, <2>2, <2>3, Zenon
<1>6. /\ bf \in [Bufs -> BufRecs] /\ bf[b].refcount = bufs[b].refcount /\ bf[b].alive
      /\ bf[b].list = Append(bufs[b].list, g) /\ \A c \in Bufs \ {b} : bf[c] = bufs[c]
  <2>1. PICK q \in Seq(Frames) : q = Append(bufs[b].list, g)
    BY <1>5
  <2>2. PICK c \in Bufs : c = b
    BY <1>2
  <2>3. bf = SetList(bufs, c, q)
    BY <1>0, <2>1, <2>2 DEF SetList
  <2>4. /\ SetList(bufs, c, q) \in [Bufs -> BufRecs]
        /\ SetList(bufs, c, q)[c].refcount = bufs[c].refcount
        /\ SetList(bufs, c, q)[c].alive = bufs[c].alive /\ SetList(bufs, c, q)[c].list = q
        /\ \A d \in Bufs \ {c} : SetList(bufs, c, q)[d] = bufs[d]
    BY <1>1, SetListFacts, Zenon
  <2> QED
    BY <1>2, <2>1, <2>2, <2>3, <2>4, Zenon
<1>7. Unlisted(p) = Unlisted(pc) \ {g}
  <2>1. \A u \in Threads \ {t} : p[u] = pc[u] /\ (pc[u].at \in {"subframe", "replace"} => pc[u].frame # g)
    BY <1>2, <1>3 DEF Making
  <2>2. pc[t].frame = g /\ pc[t].at \in {"subframe", "replace"}
    BY <1>0
  <2> QED
    BY <1>3, <2>1, <2>2 DEF Unlisted
<1>8. LinksOK(fr, bf, p)
  <2>0. /\ ToSet(bf[b].list) = ToSet(bufs[b].list) \cup {g}
        /\ \A c \in Bufs \ {b} : ToSet(bf[c].list) = ToSet(bufs[c].list)
    BY <1>5, <1>6, Zenon
  <2>1. \A k \in Frames : fr[k].alive = frames[k].alive /\ fr[k].vfb = frames[k].vfb
    BY <1>4 DEF OnlyFrame
  <2>2. \A k \in Frames : fr[k].alive => fr[k].vfb \in Bufs /\ bf[fr[k].vfb].alive
    BY <1>1, <1>6, <2>1 DEF LinksOK
  <2>3. \A k \in Frames : ~fr[k].alive => fr[k].refcount = 0 /\ fr[k].vfb = None
    BY <1>1, <1>2, <1>4, <2>1 DEF LinksOK, OnlyFrame
  <2>4. \A c \in Bufs : /\ bf[c].alive => bf[c].list # <<>>
                        /\ ~bf[c].alive => bf[c].list = <<>> /\ bf[c].refcount = 0
    BY <1>1, <1>5, <1>6 DEF LinksOK
  <2>5. ASSUME NEW c \in Bufs, NEW k \in ToSet(bf[c].list)
        PROVE  fr[k].alive /\ fr[k].vfb = c /\ k \notin Unlisted(p)
    <3>1. ToSet(bufs[c].list) \subseteq Frames
      BY <1>1 DEF BufRecs, ToSet
    <3>2. ASSUME k \in ToSet(bufs[c].list)
          PROVE  fr[k].alive /\ fr[k].vfb = c /\ k \notin Unlisted(p)
      <4>1. k \in Frames /\ frames[k].alive /\ frames[k].vfb = c /\ k \notin Unlisted(pc)
        BY <1>1, <3>1, <3>2 DEF LinksOK
      <4> QED
        BY <1>7, <2>1, <4>1
    <3>3. k \in ToSet(bufs[c].list) \/ (c = b /\ k = g)
      BY <2>0, <2>5
    <3>4. g \notin Unlisted(p) /\ fr[g].alive /\ fr[g].vfb = b
      BY <1>0, <1>2, <1>7, <2>1
    <3> QED
      BY <3>2, <3>3, <3>4
  <2>6. ASSUME NEW k \in Frames, fr[k].alive, k \notin Unlisted(p)
        PROVE  k \in ToSet(bf[fr[k].vfb].list)
    <3>1. CASE k = g
      BY <1>0, <2>0, <2>1, <3>1
    <3>2. CASE k # g
      <4>1. k \in ToSet(bufs[frames[k].vfb].list) /\ frames[k].vfb \in Bufs
        BY <1>1, <1>7, <2>1, <2>6, <3>2 DEF LinksOK
      <4> QED
        BY <2>0, <2>1, <4>1
    <3> QED
      BY <3>1, <3>2
  <2> QED
    BY <2>2, <2>3, <2>4, <2>5, <2>6 DEF LinksOK
<1>9. Good(fr, bf, rf, p, writing)
  <2>1. \A c \in Bufs : /\ bf[c].refcount = bufs[c].refcount
                        /\ c # frames[g].vfb => bf[c].list = bufs[c].list
    BY <1>0, <1>6
  <2>2. pc[t].at \in Making /\ g = pc[t].frame
    BY <1>0 DEF Making
  <2>3. rf = [refs EXCEPT ![t] = @ \cup {g}] /\ p = [pc EXCEPT ![t] = Idle]
    BY <1>0
  <2> QED
    <3>1. FirstRef(frames, bufs, refs, pc, t, g, fr, bf, rf, p)
      BY <1>4, <1>6, <2>1, <2>2, <2>3 DEF FirstRef
    <3> QED
      BY <1>8, <3>1, FirstRefGood DEF RegistryInv
<1> QED
  BY <1>2, <1>6, <1>9

LEMMA RegisterSubframeStep ==
    ASSUME RegistryInv, NEW t \in Threads, RegisterSubframe(t)
    PROVE  RegistryInv'
<1>1. PICK g : g = pc[t].frame
  OBVIOUS
<1>2. PICK b : b = frames[g].vfb
  OBVIOUS
<1>3. PICK p : p = [pc EXCEPT ![t] = Idle]
  OBVIOUS
<1>4. PICK bf : bf = [bufs EXCEPT ![b].list = Append(@, g)]
  OBVIOUS
<1>5. PICK rf : rf = [refs EXCEPT ![t] = @ \cup {g}]
  OBVIOUS
<1>6. PICK fr : fr = SetCount(frames, g, 1)
  OBVIOUS
<1>7. PICK dead : dead = {f \in ToSet(bufs[b].list) : frames[f].refcount = 0}
  OBVIOUS
<1>8. PICK q : q = Append(Drop(bufs[b].list, dead), g)
  OBVIOUS
<1>9. PICK fr2 : fr2 = [f \in Frames |-> IF f \in dead THEN NoFrame ELSE fr[f]]
  OBVIOUS
<1>10. pc[t].at \in {"subframe", "replace"}
  BY DEF RegisterSubframe
<1>11. /\ g \in Frames /\ b \in Bufs /\ bf[b].alive
       /\ Good(fr, bf, rf, p, writing)
       /\ bf \in [Bufs -> BufRecs] /\ bf[b].refcount = bufs[b].refcount
       /\ bf[b].list = Append(bufs[b].list, g) /\ \A c \in Bufs \ {b} : bf[c] = bufs[c]
  <2>1. Registers(t, g, b, p, fr, bf, rf)
    BY <1>1, <1>2, <1>3, <1>4, <1>5, <1>6, <1>10 DEF Registers
  <2> QED
    BY <2>1, RegisteredGood
<1>12. /\ pc \in [Threads -> Places] /\ bufs \in [Bufs -> BufRecs]
       /\ frames \in [Frames -> FrameRecs] /\ refs \in [Holders -> SUBSET Frames]
       /\ LinksOK(frames, bufs, pc) /\ frames[g].refcount = 0 /\ frames[g].alive
       /\ \A u \in Threads \ {t} : pc[u].at \in Making => pc[u].frame # g
  <2>1. /\ frames[g].refcount = 0 /\ frames[g].alive
        /\ \A u \in Threads \ {t} : pc[u].at \in Making => pc[u].frame # g
    BY <1>1, <1>10 DEF RegistryInv, Good, ThreadOK, FreshOK, Making
  <2> QED
    BY <2>1 DEF RegistryInv, Good, Typed
<1>13. Idle.at = "idle" /\ p[t] = Idle /\ \A u \in Threads \ {t} : p[u] = pc[u]
  BY <1>3, <1>12 DEF Idle
<1>14. OnlyFrame(frames, fr, g) /\ fr[g].refcount = 1
  BY <1>6, <1>11, <1>12, SetCountFacts
<1>15. PICK list \in Seq(Frames) : list = bufs[b].list
  BY <1>11, <1>12 DEF BufRecs
<1>16. ToSet(list) \subseteq Frames
  BY <1>15 DEF ToSet
<1>17. g \notin ToSet(list)
  <2>1. g \in Unlisted(pc)
    BY <1>1, <1>10 DEF Unlisted
  <2> QED
    BY <1>11, <1>12, <1>15, <2>1 DEF LinksOK
<1>18. dead \subseteq ToSet(list) /\ g \notin dead /\ \A d \in dead : frames[d].refcount = 0
  BY <1>7, <1>15, <1>17
<1>19. ToSet(bf[b].list) = ToSet(list) \cup {g}
  <2>1. ToSet(Append(list, g)) = ToSet(list) \cup {g}
    BY <1>11, ToSetOfAppend
  <2> QED
    BY <1>11, <1>15, <2>1, Zenon
<1>20. q \in Seq(Frames) /\ q # <<>> /\ ToSet(q) = (ToSet(list) \ dead) \cup {g}
  <2>1. PICK r : r = Drop(list, dead)
    OBVIOUS
  <2>2. r \in Seq(Frames) /\ ToSet(r) = ToSet(list) \ dead
    BY <2>1, ToSetOfDrop
  <2>3. Append(r, g) \in Seq(Frames) /\ Append(r, g) # <<>> /\ ToSet(Append(r, g)) = ToSet(r) \cup {g}
    BY <1>11, <2>2, ToSetOfAppend
  <2>4. q = Append(r, g)
    BY <1>8, <1>15, <2>1, Zenon
  <2> QED
    BY <2>2, <2>3, <2>4, Zenon
<1>21. PICK bf2 : bf2 = SetList(bufs, b, q)
  OBVIOUS
<1>22. /\ bf2 \in [Bufs -> BufRecs] /\ bf2[b].refcount = bf[b].refcount
       /\ bf2[b].alive /\ bf2[b].list = q /\ \A c \in Bufs \ {b} : bf2[c] = bf[c]
  <2>1. /\ SetList(bufs, b, q) \in [Bufs -> BufRecs]
        /\ SetList(bufs, b, q)[b].refcount = bufs[b].refcount
        /\ SetList(bufs, b, q)[b].alive = bufs[b].alive /\ SetList(bufs, b, q)[b].list = q
        /\ \A d \in Bufs \ {b} : SetList(bufs, b, q)[d] = bufs[d]
    <3>1. b \in Bufs /\ bufs \in [Bufs -> BufRecs] /\ q \in Seq(Frames)
      BY <1>11, <1>12, <1>20
    <3> QED
      BY <3>1, SetListFacts, Zenon
  <2>2. bufs[b].alive
    BY <1>2, <1>11, <1>12 DEF LinksOK
  <2> QED
    BY <1>11, <1>21, <2>1, <2>2, Zenon
<1>23. dead \cap PendingIn(p) = {} /\ \A u \in Threads : p[u].at = "new" => fr[p[u].frame].vfb # b
  <2>1. ASSUME NEW u \in Threads, p[u].at = "new"
        PROVE  /\ p[u].frame \in Frames /\ p[u].frame # g /\ frames[p[u].frame].vfb # b
    <3>1. u # t /\ p[u] = pc[u] /\ ThreadOK(frames, bufs, refs, pc, writing, u)
      BY <1>13, <2>1 DEF RegistryInv, Good
    <3>2. p[u].frame \in Frames /\ p[u].frame # g
      BY <1>12, <2>1, <3>1 DEF ThreadOK, FreshOK, Making
    <3>3. frames[g].vfb # frames[p[u].frame].vfb
      BY <1>11, <2>1, <3>1, <3>2 DEF ThreadOK, SoleOK
    <3> QED
      BY <1>2, <3>2, <3>3
  <2>2. \A u \in Threads : p[u].at = "new" => fr[p[u].frame].vfb # b
    BY <1>14, <2>1 DEF OnlyFrame
  <2>3. ASSUME NEW u \in Threads, p[u].at \in Making PROVE p[u].frame \notin dead
    <3>1. CASE p[u].at = "new"
      BY <1>11, <1>12, <1>15, <1>18, <2>1, <3>1 DEF LinksOK
    <3>2. CASE p[u].at # "new"
      <4>1. p[u] = pc[u] /\ p[u].at \in {"subframe", "replace"}
        BY <1>13, <2>3, <3>2 DEF Making
      <4>2. p[u].frame \in Unlisted(pc)
        BY <4>1 DEF Unlisted
      <4> QED
        BY <1>11, <1>12, <1>15, <1>18, <4>2 DEF LinksOK
    <3> QED
      BY <3>1, <3>2
  <2> QED
    BY <2>2, <2>3 DEF PendingIn
<1>24. Good(fr2, bf2, rf, p, writing)
  <2>1. \A d \in dead : fr[d].refcount = 0
    BY <1>14, <1>16, <1>18 DEF OnlyFrame
  <2>2. dead \in SUBSET ToSet(bf[b].list) /\ ToSet(q) = ToSet(bf[b].list) \ dead
    BY <1>18, <1>19, <1>20
  <2> QED
    <3>1. Purges(fr, bf, p, b, dead, q, fr2, bf2)
      BY <1>9, <1>11, <1>20, <1>22, <1>23, <2>1, <2>2 DEF Purges
    <3> QED
      BY <1>11, <3>1, PurgeGood
<1>25. bufs' = bf2 /\ writing' = writing
  BY <1>1, <1>2, <1>7, <1>8, <1>21 DEF RegisterSubframe, SetList
<1>26. fr2 = [DeleteFrames(Memory, dead).frames EXCEPT ![g].refcount = @ + 1]
  <2>1. DeleteFrames(Memory, dead).frames = [f \in Frames |-> IF f \in dead THEN NoFrame ELSE frames[f]]
    BY DEF DeleteFrames, Memory
  <2>2. [DeleteFrames(Memory, dead).frames EXCEPT ![g].refcount = @ + 1]
          = [f \in Frames |-> IF f \in dead THEN NoFrame
                              ELSE IF f = g THEN [frames[g] EXCEPT !.refcount = 1] ELSE frames[f]]
    BY <1>11, <1>12, <1>18, <2>1, SMTT(30)
  <2>3. \A f \in Frames : fr[f] = IF f = g THEN [frames[g] EXCEPT !.refcount = 1] ELSE frames[f]
    BY <1>6, <1>11, <1>12 DEF SetCount
  <2> QED
    BY <1>9, <2>2, <2>3
<1>27. CASE pc[t].at = "subframe"
  <2>1. frames' = fr2 /\ refs' = rf /\ pc' = p
    BY <1>1, <1>2, <1>3, <1>5, <1>7, <1>26, <1>27 DEF RegisterSubframe, Goto, Idle
  <2> QED
    BY <1>24, <1>25, <2>1 DEF RegistryInv
<1>28. CASE pc[t].at = "replace"
  <2>1. PICK src : src = pc[t].src
    OBVIOUS
  <2>2. DropRef(t, t, src, fr2, rf)
    BY <1>1, <1>2, <1>3, <1>5, <1>7, <1>26, <1>28, <2>1 DEF RegisterSubframe
  <2>3. src \in refs[t] /\ writing[t] # src
    BY <1>28, <2>1 DEF RegistryInv, Good, ThreadOK, SourceOK
  <2>4. src \in rf[t] /\ t \in Holders
    BY <1>5, <1>12, <2>3 DEF Holders
  <2>5. \A x : [p EXCEPT ![t] = x] = [pc EXCEPT ![t] = x]
    BY <1>3, <1>12
  <2>6. Good(frames', bf2, refs', pc', writing)
    BY <1>13, <1>24, <2>2, <2>3, <2>4, <2>5, DropRefStep
  <2> QED
    BY <1>25, <2>6 DEF RegistryInv
<1> QED
  BY <1>10, <1>27, <1>28

-------------------------------------------------------------------------------
(* What GetNewFrame does to the memory                                     *)

\* Only sizes and ages of buffers differ from bf to bf2.
SameUse(bf, bf2) ==
    /\ bf2 \in [Bufs -> BufRecs]
    /\ \A b \in Bufs : /\ bf2[b].alive = bf[b].alive /\ bf2[b].refcount = bf[b].refcount
                       /\ bf2[b].list = bf[b].list

LEMMA SameUseGood ==
    ASSUME NEW fr, NEW bf, NEW rf, NEW p, NEW w, Good(fr, bf, rf, p, w), NEW bf2, SameUse(bf, bf2)
    PROVE  Good(fr, bf2, rf, p, w)
<1>1. Typed(fr, bf2, rf, p, w) /\ CountsOK(fr, bf2, rf, p)
  BY DEF Good, Typed, CountsOK, SameUse
<1>2. LinksOK(fr, bf2, p)
  <2>1. \A f \in Frames : /\ fr[f].alive => fr[f].vfb \in Bufs /\ bf2[fr[f].vfb].alive
                          /\ ~fr[f].alive => fr[f].refcount = 0 /\ fr[f].vfb = None
    BY DEF Good, LinksOK, SameUse
  <2>2. \A b \in Bufs : /\ bf2[b].alive => bf2[b].list # <<>>
                        /\ ~bf2[b].alive => bf2[b].list = <<>> /\ bf2[b].refcount = 0
    BY DEF Good, LinksOK, SameUse
  <2>3. \A b \in Bufs : \A f \in ToSet(bf2[b].list) : fr[f].alive /\ fr[f].vfb = b /\ f \notin Unlisted(p)
    BY DEF Good, LinksOK, SameUse
  <2>4. \A f \in Frames : fr[f].alive /\ f \notin Unlisted(p) => f \in ToSet(bf2[fr[f].vfb].list)
    BY DEF Good, LinksOK, SameUse
  <2> QED
    BY <2>1, <2>2, <2>3, <2>4 DEF LinksOK
<1>3. ASSUME NEW u \in Threads PROVE ThreadOK(fr, bf2, rf, p, w, u)
  <2>1. ThreadOK(fr, bf, rf, p, w, u)
    BY DEF Good
  <2>2. SoleOK(fr, bf2, p, u)
    <3>1. p[u].at = "new" => fr[p[u].frame].vfb \in Bufs
      BY <2>1 DEF ThreadOK, FreshOK, Making, Good, LinksOK
    <3> QED
      BY <2>1, <3>1 DEF ThreadOK, SoleOK, SameUse
  <2>3. WriterOK(fr, bf2, rf, w, u)
    BY <2>1, WriterAlone DEF ThreadOK, WriterOK, SameUse
  <2> QED
    BY <2>1, <2>2, <2>3 DEF ThreadOK
<1> QED
  BY <1>1, <1>2, <1>3 DEF Good

\* The buffers of S, which nothing uses, are deleted with the frames D on them.
Discards(fr, bf, S, D, fr2, bf2) ==
    /\ S \subseteq Bufs /\ \A b \in S : bf[b].refcount = 0
    /\ D = UNION {ToSet(bf[b].list) : b \in S}
    /\ fr2 = [f \in Frames |-> IF f \in D THEN NoFrame ELSE fr[f]]
    /\ bf2 = [b \in Bufs |-> IF b \in S THEN NoBuf ELSE bf[b]]

LEMMA OnFreeBuffer ==
    ASSUME NEW fr, NEW bf, NEW rf, NEW p, NEW w, Good(fr, bf, rf, p, w),
           NEW b \in Bufs, bf[b].refcount = 0, NEW f \in Frames
    PROVE  /\ fr[f].vfb = b => f \in ToSet(bf[b].list) /\ fr[f].refcount = 0 /\ f \notin PendingIn(p)
           /\ f \in ToSet(bf[b].list) => fr[f].vfb = b
<1>1. f \in ToSet(bf[b].list) => fr[f].vfb = b
  BY DEF Good, LinksOK
<1>2. ASSUME fr[f].vfb = b
      PROVE  f \in ToSet(bf[b].list) /\ fr[f].refcount = 0 /\ f \notin PendingIn(p)
  <2>1. f \notin InUse(fr, p, b) /\ fr[f].refcount \in Nat
    BY FreeBuffer DEF Good, Typed, FrameRecs
  <2>2. fr[f].refcount = 0 /\ f \notin PendingIn(p)
    BY <1>2, <2>1 DEF InUse
  <2>3. f \notin Unlisted(p)
    BY <2>2 DEF Unlisted, PendingIn, Making
  <2>4. fr[f].alive
    BY <1>2, FiniteSets1 DEF Good, LinksOK, None
  <2> QED
    BY <1>2, <2>2, <2>3, <2>4 DEF Good, LinksOK
<1> QED
  BY <1>1, <1>2

LEMMA DiscardGood ==
    ASSUME NEW fr, NEW bf, NEW rf, NEW p, NEW w, Good(fr, bf, rf, p, w),
           NEW S, NEW D, NEW fr2, NEW bf2, Discards(fr, bf, S, D, fr2, bf2)
    PROVE  Good(fr2, bf2, rf, p, w)
<1>0. /\ S \subseteq Bufs /\ \A b \in S : bf[b].refcount = 0
      /\ D = UNION {ToSet(bf[b].list) : b \in S}
      /\ fr2 = [f \in Frames |-> IF f \in D THEN NoFrame ELSE fr[f]]
      /\ bf2 = [b \in Bufs |-> IF b \in S THEN NoBuf ELSE bf[b]]
  BY DEF Discards
<1>1. /\ fr \in [Frames -> FrameRecs] /\ bf \in [Bufs -> BufRecs]
      /\ NoFrame \in FrameRecs /\ ~NoFrame.alive /\ NoFrame.refcount = 0 /\ NoFrame.vfb = None
      /\ NoBuf \in BufRecs /\ ~NoBuf.alive /\ NoBuf.refcount = 0 /\ NoBuf.list = <<>>
      /\ None \notin Bufs
  BY FiniteSets1 DEF Good, Typed, NoFrame, FrameRecs, NoBuf, BufRecs, None
<1>2. Typed(fr2, bf2, rf, p, w)
  BY <1>0, <1>1 DEF Good, Typed
<1>3. \A f \in Frames : fr2[f] = IF f \in D THEN NoFrame ELSE fr[f]
  BY <1>0
<1>4. \A b \in Bufs : bf2[b] = IF b \in S THEN NoBuf ELSE bf[b]
  BY <1>0
<1>5. \A b \in Bufs : ToSet(bf[b].list) \subseteq Frames
  BY <1>1 DEF BufRecs, ToSet
<1>6. \A f \in Frames : f \in D <=> fr[f].vfb \in S
  <2>1. ASSUME NEW f \in Frames, fr[f].vfb \in S PROVE f \in D
    <3>1. fr[f].vfb \in Bufs /\ bf[fr[f].vfb].refcount = 0
      BY <1>0, <2>1
    <3>2. f \in ToSet(bf[fr[f].vfb].list)
      BY <3>1, OnFreeBuffer
    <3> QED
      BY <1>0, <2>1, <3>2
  <2>2. ASSUME NEW f \in Frames, f \in D PROVE fr[f].vfb \in S
    <3>1. PICK b \in S : f \in ToSet(bf[b].list)
      BY <1>0, <2>2
    <3>2. b \in Bufs /\ bf[b].refcount = 0
      BY <1>0
    <3> QED
      BY <3>1, <3>2, OnFreeBuffer
  <2> QED
    BY <2>1, <2>2
<1>7. \A f \in Frames : f \in D => fr[f].refcount = 0 /\ f \notin PendingIn(p)
  <2>1. ASSUME NEW f \in Frames, f \in D PROVE fr[f].refcount = 0 /\ f \notin PendingIn(p)
    <3>1. fr[f].vfb \in Bufs /\ bf[fr[f].vfb].refcount = 0
      BY <1>0, <1>6, <2>1
    <3> QED
      BY <3>1, OnFreeBuffer
  <2> QED
    BY <2>1
<1>8. CountsOK(fr2, bf2, rf, p)
  <2>1. \A f \in Frames : fr2[f].refcount = fr[f].refcount
    BY <1>1, <1>3, <1>7
  <2>2. ASSUME NEW b \in Bufs PROVE InUse(fr2, p, b) = InUse(fr, p, b)
    <3>1. b # None
      BY <1>1
    <3>2. \A f \in Frames : f \in D => fr2[f].vfb # b /\ f \notin InUse(fr, p, b)
      BY <1>1, <1>3, <1>7, <3>1 DEF InUse
    <3>3. \A f \in Frames : f \notin D => fr2[f] = fr[f]
      BY <1>3
    <3> QED
      BY <3>2, <3>3 DEF InUse
  <2>3. \A b \in Bufs : bf2[b].refcount = bf[b].refcount
    BY <1>0, <1>1, <1>4
  <2> QED
    BY <2>1, <2>2, <2>3 DEF Good, CountsOK
<1>9. LinksOK(fr2, bf2, p)
  <2>1. ASSUME NEW f \in Frames, fr2[f].alive
        PROVE  f \notin D /\ fr2[f] = fr[f] /\ fr[f].vfb \in Bufs /\ bf2[fr[f].vfb] = bf[fr[f].vfb]
               /\ bf[fr[f].vfb].alive
    <3>1. f \notin D /\ fr2[f] = fr[f]
      BY <1>1, <1>3, <2>1
    <3>2. fr[f].vfb \in Bufs /\ bf[fr[f].vfb].alive
      BY <2>1, <3>1 DEF Good, LinksOK
    <3> QED
      BY <1>4, <1>6, <3>1, <3>2
  <2>2. \A f \in Frames : fr2[f].alive => fr2[f].vfb \in Bufs /\ bf2[fr2[f].vfb].alive
    BY <2>1
  <2>3. \A f \in Frames : ~fr2[f].alive => fr2[f].refcount = 0 /\ fr2[f].vfb = None
    BY <1>1, <1>3 DEF Good, LinksOK
  <2>4. \A c \in Bufs : /\ bf2[c].alive => bf2[c].list # <<>>
                        /\ ~bf2[c].alive => bf2[c].list = <<>> /\ bf2[c].refcount = 0
    BY <1>1, <1>4 DEF Good, LinksOK
  <2>5. ASSUME NEW c \in Bufs, NEW f \in ToSet(bf2[c].list)
        PROVE  fr2[f].alive /\ fr2[f].vfb = c /\ f \notin Unlisted(p)
    <3>1. c \notin S /\ f \in ToSet(bf[c].list) /\ f \in Frames
      <4>1. ToSet(NoBuf.list) = {}
        BY <1>1 DEF ToSet
      <4>2. c \notin S
        BY <1>4, <2>5, <4>1
      <4> QED
        BY <1>4, <1>5, <2>5, <4>2
    <3>2. fr[f].alive /\ fr[f].vfb = c /\ f \notin Unlisted(p)
      BY <3>1 DEF Good, LinksOK
    <3> QED
      BY <1>3, <1>6, <3>1, <3>2
  <2>6. ASSUME NEW f \in Frames, fr2[f].alive, f \notin Unlisted(p)
        PROVE  f \in ToSet(bf2[fr2[f].vfb].list)
    <3>1. fr[f].alive /\ fr2[f].vfb = fr[f].vfb /\ bf2[fr[f].vfb] = bf[fr[f].vfb]
      BY <2>1, <2>6
    <3>2. f \in ToSet(bf[fr[f].vfb].list)
      BY <2>6, <3>1 DEF Good, LinksOK
    <3> QED
      BY <3>1, <3>2
  <2> QED
    BY <2>2, <2>3, <2>4, <2>5, <2>6 DEF LinksOK
<1>10. ASSUME NEW u \in Threads PROVE ThreadOK(fr2, bf2, rf, p, w, u)
  <2>1. ThreadOK(fr, bf, rf, p, w, u)
    BY DEF Good
  <2>2. p[u].at \in Making \cup {"check", "makewritable"} =>
           p[u].frame \in Frames /\ p[u].frame \notin D
    <3>1. p[u].at \in {"check", "makewritable"} => p[u].frame \in Frames /\ p[u].frame \notin D
      BY <1>7, <2>1, CheckerAlone DEF ThreadOK, CheckOK
    <3>2. p[u].at \in Making => p[u].frame \in Frames /\ p[u].frame \notin D
      BY <1>7, <2>1 DEF ThreadOK, FreshOK, PendingIn
    <3> QED
      BY <3>1, <3>2
  <2>3. ASSUME p[u].at = "new"
        PROVE  /\ bf2[fr[p[u].frame].vfb].list = bf[fr[p[u].frame].vfb].list
               /\ \A k \in Frames : k # p[u].frame => fr2[k].vfb # fr[p[u].frame].vfb
    <3>1. p[u].frame \in Frames /\ fr[p[u].frame].vfb \in Bufs /\ fr[p[u].frame].vfb \notin S
      BY <1>6, <2>1, <2>2, <2>3 DEF ThreadOK, FreshOK, Making, Good, LinksOK
    <3>2. \A k \in Frames : k # p[u].frame => fr[k].vfb # fr[p[u].frame].vfb
      BY <2>1, <2>3 DEF ThreadOK, SoleOK
    <3> QED
      BY <1>1, <1>3, <1>4, <3>1, <3>2
  <2>4. w[u] # None => /\ fr2[w[u]].refcount = 1 /\ fr2[w[u]].vfb = fr[w[u]].vfb
                       /\ bf2[fr[w[u]].vfb].refcount = 1
    <3>1. w[u] # None => w[u] \in Frames /\ w[u] \notin D /\ fr[w[u]].vfb \in Bufs
      BY <1>7, <2>1, WriterAlone DEF ThreadOK, WriterOK
    <3>2. w[u] # None => fr[w[u]].vfb \notin S
      BY <1>6, <3>1
    <3> QED
      BY <1>3, <1>4, <2>1, <3>1, <3>2 DEF ThreadOK, WriterOK
  <2>5. Respects(fr, bf, p, w, fr2, bf2, u)
    BY <1>3, <2>2, <2>3, <2>4 DEF Respects
  <2>6. p[u].at \in Making =>
          \A v \in Threads \ {u} : p[v].at \in Making => p[v].frame # p[u].frame
    BY <2>1 DEF ThreadOK, FreshOK
  <2> QED
    BY <2>5, <2>6, OtherThread
<1> QED
  BY <1>2, <1>8, <1>9, <1>10 DEF Good

\* The caches give up their references to the frames of S.
Evicts(fr, bf, rf, S, fr2, bf2, rf2) ==
    /\ S \subseteq rf[Cache]
    /\ fr2 = [f \in Frames |-> IF f \in S THEN [fr[f] EXCEPT !.refcount = @ - 1] ELSE fr[f]]
    /\ bf2 = [b \in Bufs |-> [bf[b] EXCEPT !.refcount =
                 @ - Cardinality({f \in S : fr2[f].refcount = 0 /\ fr2[f].vfb = b})]]
    /\ rf2 = [rf EXCEPT ![Cache] = @ \ S]

LEMMA OneLess ==
    ASSUME NEW r \in FrameRecs, r.refcount > 0, NEW s, s = [r EXCEPT !.refcount = @ - 1]
    PROVE  /\ s \in FrameRecs /\ s.refcount = r.refcount - 1
           /\ s.alive = r.alive /\ s.vfb = r.vfb /\ s.props = r.props
<1>1. r.refcount - 1 \in Nat
  BY DEF FrameRecs
<1> QED
  BY <1>1 DEF FrameRecs

LEMMA NLess ==
    ASSUME NEW r \in BufRecs, NEW n \in Nat, n <= r.refcount, NEW s, s = [r EXCEPT !.refcount = @ - n]
    PROVE  /\ s \in BufRecs /\ s.refcount = r.refcount - n
           /\ s.alive = r.alive /\ s.list = r.list /\ s.size = r.size
<1>1. r.refcount - n \in Nat
  BY DEF BufRecs
<1> QED
  BY <1>1 DEF BufRecs

LEMMA EvictGood ==
    ASSUME NEW fr, NEW bf, NEW rf, NEW p, NEW w, Good(fr, bf, rf, p, w),
           NEW S, NEW fr2, NEW bf2, NEW rf2, Evicts(fr, bf, rf, S, fr2, bf2, rf2)
    PROVE  Good(fr2, bf2, rf2, p, w)
<1> DEFINE Gone(b) == {f \in S : fr2[f].refcount = 0 /\ fr2[f].vfb = b}
<1>0. /\ S \subseteq rf[Cache]
      /\ fr2 = [f \in Frames |-> IF f \in S THEN [fr[f] EXCEPT !.refcount = @ - 1] ELSE fr[f]]
      /\ bf2 = [b \in Bufs |-> [bf[b] EXCEPT !.refcount = @ - Cardinality(Gone(b))]]
      /\ rf2 = [rf EXCEPT ![Cache] = @ \ S]
  BY DEF Evicts
<1>1. /\ fr \in [Frames -> FrameRecs] /\ bf \in [Bufs -> BufRecs] /\ rf \in [Holders -> SUBSET Frames]
      /\ Cache \in Holders /\ Cache \notin Threads /\ Threads \subseteq Holders
  BY RegistryAssumption DEF Good, Typed, Holders
<1>2. \A f \in S : /\ f \in Frames /\ fr[f].refcount > 0 /\ f \notin PendingIn(p) /\ fr[f].alive
                   /\ fr[f].refcount = 1 => \A g \in Holders : f \in rf[g] => g = Cache
  BY <1>0, <1>1, Held
<1>3. ASSUME NEW f \in Frames
      PROVE  /\ f \in S => /\ fr2[f] \in FrameRecs /\ fr2[f].refcount = fr[f].refcount - 1
                           /\ fr2[f].alive = fr[f].alive /\ fr2[f].vfb = fr[f].vfb
             /\ f \notin S => fr2[f] = fr[f]
  <2>1. ASSUME f \in S
        PROVE  /\ fr2[f] \in FrameRecs /\ fr2[f].refcount = fr[f].refcount - 1
               /\ fr2[f].alive = fr[f].alive /\ fr2[f].vfb = fr[f].vfb
    <3>1. fr2[f] = [fr[f] EXCEPT !.refcount = @ - 1] /\ fr[f] \in FrameRecs /\ fr[f].refcount > 0
      BY <1>0, <1>1, <1>2, <2>1
    <3> QED
      BY <3>1, OneLess
  <2>2. f \notin S => fr2[f] = fr[f]
    BY <1>0
  <2> QED
    BY <2>1, <2>2
<1>4. \A f \in Frames : fr2[f].alive = fr[f].alive /\ fr2[f].vfb = fr[f].vfb
  BY <1>3
<1>5. ASSUME NEW b \in Bufs
      PROVE  /\ IsFiniteSet(Gone(b)) /\ Cardinality(Gone(b)) \in Nat
             /\ Gone(b) \subseteq InUse(fr, p, b) /\ InUse(fr2, p, b) = InUse(fr, p, b) \ Gone(b)
             /\ Cardinality(Gone(b)) <= Cardinality(InUse(fr, p, b))
             /\ Cardinality(InUse(fr2, p, b)) = Cardinality(InUse(fr, p, b)) - Cardinality(Gone(b))
  <2>1. Gone(b) \subseteq InUse(fr, p, b)
    BY <1>2, <1>4 DEF InUse
  <2>2. IsFiniteSet(InUse(fr, p, b))
    BY FiniteSets1
  <2>3. \A f \in Frames : f \in S => fr[f].refcount \in Nat
    BY <1>1 DEF FrameRecs
  <2>4. \A f \in Frames : f \in InUse(fr2, p, b) <=> f \in InUse(fr, p, b) /\ f \notin Gone(b)
    <3>1. ASSUME NEW f \in Frames, f \in S
          PROVE  f \in InUse(fr2, p, b) <=> f \in InUse(fr, p, b) /\ f \notin Gone(b)
      <4>1. /\ fr2[f].refcount = fr[f].refcount - 1 /\ fr[f].refcount \in Nat /\ fr[f].refcount > 0
            /\ f \notin PendingIn(p) /\ fr2[f].vfb = fr[f].vfb
        BY <1>2, <1>3, <2>3, <3>1
      <4>2. fr2[f].refcount > 0 <=> fr2[f].refcount # 0
        BY <4>1
      <4> QED
        BY <3>1, <4>1, <4>2 DEF InUse
    <3>2. ASSUME NEW f \in Frames, f \notin S
          PROVE  f \in InUse(fr2, p, b) <=> f \in InUse(fr, p, b) /\ f \notin Gone(b)
      BY <1>3, <3>2 DEF InUse
    <3> QED
      BY <3>1, <3>2
  <2>5. InUse(fr2, p, b) = InUse(fr, p, b) \ Gone(b)
    <3>1. InUse(fr2, p, b) \subseteq Frames /\ InUse(fr, p, b) \subseteq Frames
      BY DEF InUse
    <3> QED
      BY <2>4, <3>1
  <2> HIDE DEF Gone
  <2>6. IsFiniteSet(Gone(b)) /\ Cardinality(Gone(b)) \in Nat /\ Cardinality(Gone(b)) <= Cardinality(InUse(fr, p, b))
    BY <2>1, <2>2, FS_Subset, FS_CardinalityType
  <2>7. InUse(fr, p, b) \cap Gone(b) = Gone(b)
    BY <2>1
  <2>8. Cardinality(InUse(fr2, p, b)) = Cardinality(InUse(fr, p, b)) - Cardinality(Gone(b))
    BY <2>2, <2>5, <2>7, FS_Difference
  <2> QED
    BY <2>1, <2>5, <2>6, <2>8
<1>6. ASSUME NEW b \in Bufs
      PROVE  /\ bf2[b] \in BufRecs /\ bf2[b].refcount = bf[b].refcount - Cardinality(Gone(b))
             /\ bf2[b].alive = bf[b].alive /\ bf2[b].list = bf[b].list
             /\ Cardinality(Gone(b)) <= bf[b].refcount
             /\ bf[b].refcount \in Nat
  <2>1. bf2[b] = [bf[b] EXCEPT !.refcount = @ - Cardinality(Gone(b))]
    BY <1>0
  <2> HIDE DEF Gone
  <2>2. PICK n \in Nat : n = Cardinality(Gone(b))
    BY <1>5
  <2>3. bf[b].refcount = Cardinality(InUse(fr, p, b)) + Cardinality(Releasing(p, b))
    BY DEF Good, CountsOK
  <2>4. Cardinality(InUse(fr, p, b)) \in Nat /\ Cardinality(Releasing(p, b)) \in Nat
    BY FiniteSets1
  <2>5. n <= bf[b].refcount /\ bf[b].refcount \in Nat
    BY <1>5, <2>2, <2>3, <2>4
  <2>6. bf2[b] = [bf[b] EXCEPT !.refcount = @ - n] /\ bf[b] \in BufRecs
    BY <1>1, <2>1, <2>2
  <2> QED
    BY <2>2, <2>5, <2>6, NLess
<1> HIDE DEF Gone
<1>7. rf2 \in [Holders -> SUBSET Frames] /\ rf2[Cache] = rf[Cache] \ S /\ \A h \in Holders \ {Cache} : rf2[h] = rf[h]
  BY <1>0, <1>1
<1>8. Typed(fr2, bf2, rf2, p, w)
  <2>1. fr2 \in [Frames -> FrameRecs]
    <3>1. \A f \in Frames : fr2[f] \in FrameRecs
      BY <1>1, <1>3
    <3>2. fr2 = [f \in Frames |-> fr2[f]]
      BY <1>0, Zenon
    <3> QED
      BY <3>1, <3>2
  <2>2. bf2 \in [Bufs -> BufRecs]
    <3>1. \A b \in Bufs : bf2[b] \in BufRecs
      BY <1>6
    <3>2. bf2 = [b \in Bufs |-> bf2[b]]
      BY <1>0, Zenon
    <3> QED
      BY <3>1, <3>2
  <2> QED
    BY <1>7, <2>1, <2>2 DEF Good, Typed
<1>9. CountsOK(fr2, bf2, rf2, p)
  <2>1. ASSUME NEW f \in Frames PROVE fr2[f].refcount = Cardinality(HoldersOf(rf2, f))
    <3>1. CASE f \in S
      <4>1. HoldersOf(rf2, f) = HoldersOf(rf, f) \ {Cache} /\ Cache \in HoldersOf(rf, f)
        BY <1>0, <1>1, <1>7, <3>1 DEF HoldersOf
      <4>2. IsFiniteSet(HoldersOf(rf, f))
        BY FiniteSets1
      <4>3. Cardinality(HoldersOf(rf2, f)) = Cardinality(HoldersOf(rf, f)) - 1
        BY <4>1, <4>2, RemoveOne
      <4>4. fr[f].refcount = Cardinality(HoldersOf(rf, f))
        BY DEF Good, CountsOK
      <4> QED
        BY <1>3, <3>1, <4>3, <4>4
    <3>2. CASE f \notin S
      <4>1. HoldersOf(rf2, f) = HoldersOf(rf, f)
        BY <1>7, <3>2 DEF HoldersOf
      <4> QED
        BY <1>3, <3>2, <4>1 DEF Good, CountsOK
    <3> QED
      BY <3>1, <3>2
  <2>2. ASSUME NEW b \in Bufs
        PROVE  bf2[b].refcount = Cardinality(InUse(fr2, p, b)) + Cardinality(Releasing(p, b))
    <3>1. Cardinality(InUse(fr, p, b)) \in Nat /\ Cardinality(Releasing(p, b)) \in Nat
      BY FiniteSets1
    <3>2. bf[b].refcount = Cardinality(InUse(fr, p, b)) + Cardinality(Releasing(p, b))
      BY DEF Good, CountsOK
    <3>3. /\ Cardinality(Gone(b)) \in Nat
          /\ Cardinality(InUse(fr2, p, b)) = Cardinality(InUse(fr, p, b)) - Cardinality(Gone(b))
          /\ bf2[b].refcount = bf[b].refcount - Cardinality(Gone(b))
      BY <1>5, <1>6
    <3> QED
      BY <3>1, <3>2, <3>3
  <2> QED
    BY <2>1, <2>2 DEF CountsOK
<1>10. LinksOK(fr2, bf2, p)
  <2>1. \A b \in Bufs : bf2[b].alive = bf[b].alive /\ bf2[b].list = bf[b].list
    BY <1>6
  <2>2. \A f \in Frames : fr2[f].alive => fr2[f].vfb \in Bufs /\ bf2[fr2[f].vfb].alive
    BY <1>4, <2>1 DEF Good, LinksOK
  <2>3. ASSUME NEW f \in Frames, ~fr2[f].alive PROVE fr2[f].refcount = 0 /\ fr2[f].vfb = None
    <3>1. ~fr[f].alive /\ f \notin S
      BY <1>2, <1>4, <2>3
    <3> QED
      BY <1>3, <3>1 DEF Good, LinksOK
  <2>4. ASSUME NEW b \in Bufs
        PROVE  /\ bf2[b].alive => bf2[b].list # <<>>
               /\ ~bf2[b].alive => bf2[b].list = <<>> /\ bf2[b].refcount = 0
    <3>1. ~bf[b].alive => bf[b].refcount = 0
      BY DEF Good, LinksOK
    <3>2. bf[b].refcount = 0 => bf2[b].refcount = 0
      BY <1>5, <1>6
    <3> QED
      BY <2>1, <3>1, <3>2 DEF Good, LinksOK
  <2>5. \A b \in Bufs : ToSet(bf[b].list) \subseteq Frames
    BY <1>1 DEF BufRecs, ToSet
  <2>6. \A b \in Bufs : \A f \in ToSet(bf2[b].list) : fr2[f].alive /\ fr2[f].vfb = b /\ f \notin Unlisted(p)
    BY <1>4, <2>1, <2>5 DEF Good, LinksOK
  <2>7. \A f \in Frames : fr2[f].alive /\ f \notin Unlisted(p) => f \in ToSet(bf2[fr2[f].vfb].list)
    BY <1>4, <2>1 DEF Good, LinksOK
  <2> QED
    BY <2>2, <2>3, <2>4, <2>6, <2>7 DEF LinksOK
<1>11. ASSUME NEW u \in Threads PROVE ThreadOK(fr2, bf2, rf2, p, w, u)
  <2>1. ThreadOK(fr, bf, rf, p, w, u) /\ u \in Holders /\ u # Cache
    BY <1>1 DEF Good
  <2>2. p[u].at \in Making \cup {"check", "makewritable"} =>
           p[u].frame \in Frames /\ p[u].frame \notin S
    <3>1. p[u].at \in {"check", "makewritable"} => p[u].frame \in Frames /\ p[u].frame \notin S
      BY <1>0, <1>1, <2>1, CheckerAlone
    <3>2. p[u].at \in Making => p[u].frame \in Frames /\ p[u].frame \notin S
      BY <1>2, <2>1 DEF ThreadOK, FreshOK, PendingIn
    <3> QED
      BY <3>1, <3>2
  <2>3. ASSUME p[u].at = "new"
        PROVE  /\ bf2[fr[p[u].frame].vfb].list = bf[fr[p[u].frame].vfb].list
               /\ \A k \in Frames : k # p[u].frame => fr2[k].vfb # fr[p[u].frame].vfb
    <3>1. fr[p[u].frame].vfb \in Bufs
      BY <2>1, <2>2, <2>3 DEF ThreadOK, FreshOK, Making, Good, LinksOK
    <3>2. \A k \in Frames : k # p[u].frame => fr[k].vfb # fr[p[u].frame].vfb
      BY <2>1, <2>3 DEF ThreadOK, SoleOK
    <3> QED
      BY <1>4, <1>6, <3>1, <3>2
  <2>4. ASSUME w[u] # None
        PROVE  /\ fr2[w[u]].refcount = 1 /\ fr2[w[u]].vfb = fr[w[u]].vfb
               /\ bf2[fr[w[u]].vfb].refcount = 1
    <3>1. /\ w[u] \in Frames /\ fr[w[u]].vfb \in Bufs /\ InUse(fr, p, fr[w[u]].vfb) = {w[u]}
          /\ \A h \in Holders : w[u] \in rf[h] => h = u
      BY <2>4, WriterAlone
    <3>2. w[u] \notin S
      BY <1>0, <1>1, <2>1, <3>1
    <3>3. PICK b \in Bufs : b = fr[w[u]].vfb
      BY <3>1
    <3>4. Gone(b) = {}
      <4>1. Gone(b) \subseteq {w[u]} /\ Gone(b) \subseteq S
        BY <1>5, <3>1, <3>3 DEF Gone
      <4> QED
        BY <3>2, <4>1
    <3>5. Cardinality(Gone(b)) = 0
      BY <3>4, FS_EmptySet, Zenon
    <3>6. bf[b].refcount = 1 /\ fr[w[u]].refcount = 1
      BY <2>1, <2>4, <3>3 DEF ThreadOK, WriterOK
    <3>7. bf2[b].refcount = 1
      BY <1>6, <3>5, <3>6
    <3> QED
      BY <1>3, <3>1, <3>2, <3>3, <3>6, <3>7
  <2>5. Respects(fr, bf, p, w, fr2, bf2, u)
    BY <1>3, <2>2, <2>3, <2>4 DEF Respects
  <2>6. p[u].at \in Making =>
          \A v \in Threads \ {u} : p[v].at \in Making => p[v].frame # p[u].frame
    BY <2>1 DEF ThreadOK, FreshOK
  <2>7. rf[u] \subseteq rf2[u]
    BY <1>7, <2>1
  <2> QED
    BY <2>5, <2>6, <2>7, OtherThread
<1> QED
  BY <1>8, <1>9, <1>10, <1>11 DEF Good

\* A buffer b and a frame f on it come into being, not yet in use.
Births(fr, bf, b, f, fr2, bf2) ==
    /\ b \in Bufs /\ f \in Frames /\ ~bf[b].alive /\ ~fr[f].alive
    /\ fr2 \in [Frames -> FrameRecs] /\ \A g \in Frames \ {f} : fr2[g] = fr[g]
    /\ fr2[f].alive /\ fr2[f].refcount = 0 /\ fr2[f].vfb = b
    /\ bf2 \in [Bufs -> BufRecs] /\ \A c \in Bufs \ {b} : bf2[c] = bf[c]
    /\ bf2[b].alive /\ bf2[b].refcount = 0 /\ bf2[b].list = <<f>>

LEMMA BirthGood ==
    ASSUME NEW fr, NEW bf, NEW rf, NEW p, NEW w, Good(fr, bf, rf, p, w),
           NEW b, NEW f, NEW fr2, NEW bf2, Births(fr, bf, b, f, fr2, bf2)
    PROVE  Good(fr2, bf2, rf, p, w)
<1>0. /\ b \in Bufs /\ f \in Frames /\ ~bf[b].alive /\ ~fr[f].alive
      /\ fr2 \in [Frames -> FrameRecs] /\ \A g \in Frames \ {f} : fr2[g] = fr[g]
      /\ fr2[f].alive /\ fr2[f].refcount = 0 /\ fr2[f].vfb = b
      /\ bf2 \in [Bufs -> BufRecs] /\ \A c \in Bufs \ {b} : bf2[c] = bf[c]
      /\ bf2[b].alive /\ bf2[b].refcount = 0 /\ bf2[b].list = <<f>>
  BY DEF Births
<1>1. /\ fr \in [Frames -> FrameRecs] /\ bf \in [Bufs -> BufRecs] /\ None \notin Bufs
      /\ fr[f].refcount = 0 /\ fr[f].vfb = None /\ bf[b].refcount = 0
      /\ \A g \in Frames : fr[g].vfb # b
  <2>1. fr[f].refcount = 0 /\ fr[f].vfb = None /\ bf[b].refcount = 0 /\ None \notin Bufs
    BY <1>0, FiniteSets1 DEF Good, LinksOK, None
  <2>2. \A g \in Frames : fr[g].vfb # b
    BY <1>0, <2>1 DEF Good, LinksOK
  <2> QED
    BY <2>1, <2>2 DEF Good, Typed
<1>2. Typed(fr2, bf2, rf, p, w)
  BY <1>0 DEF Good, Typed
<1>3. f \notin PendingIn(p) /\ f \notin Unlisted(p)
  <2>1. \A u \in Threads : p[u].at \in Making => p[u].frame # f
    BY <1>0 DEF Good, ThreadOK, FreshOK
  <2> QED
    BY <2>1 DEF PendingIn, Unlisted, Making
<1>4. CountsOK(fr2, bf2, rf, p)
  <2>1. \A g \in Frames : fr2[g].refcount = fr[g].refcount
    BY <1>0, <1>1
  <2>2. ASSUME NEW c \in Bufs PROVE InUse(fr2, p, c) = InUse(fr, p, c)
    <3>1. f \notin InUse(fr2, p, c) /\ f \notin InUse(fr, p, c)
      BY <1>0, <1>1, <1>3 DEF InUse
    <3>2. \A g \in Frames : g # f => fr2[g] = fr[g]
      BY <1>0
    <3> QED
      BY <3>1, <3>2 DEF InUse
  <2>3. \A c \in Bufs : bf2[c].refcount = bf[c].refcount
    BY <1>0, <1>1
  <2> QED
    BY <2>1, <2>2, <2>3 DEF Good, CountsOK
<1>5. LinksOK(fr2, bf2, p)
  <2>1. \A g \in Frames : g # f /\ fr2[g].alive =>
           fr[g].alive /\ fr2[g].vfb = fr[g].vfb /\ fr[g].vfb \in Bufs \ {b} /\ bf[fr[g].vfb].alive
    BY <1>0, <1>1 DEF Good, LinksOK
  <2>2. \A g \in Frames : fr2[g].alive => fr2[g].vfb \in Bufs /\ bf2[fr2[g].vfb].alive
    <3>1. ASSUME NEW g \in Frames, fr2[g].alive PROVE fr2[g].vfb \in Bufs /\ bf2[fr2[g].vfb].alive
      <4>1. CASE g = f
        BY <1>0, <4>1
      <4>2. CASE g # f
        BY <1>0, <2>1, <3>1, <4>2
      <4> QED
        BY <4>1, <4>2
    <3> QED
      BY <3>1
  <2>3. \A g \in Frames : ~fr2[g].alive => fr2[g].refcount = 0 /\ fr2[g].vfb = None
    BY <1>0 DEF Good, LinksOK
  <2>4. \A c \in Bufs : /\ bf2[c].alive => bf2[c].list # <<>>
                        /\ ~bf2[c].alive => bf2[c].list = <<>> /\ bf2[c].refcount = 0
    <3>1. <<f>> # <<>>
      OBVIOUS
    <3>2. bf2[b].list # <<>> /\ bf2[b].alive
      BY <1>0, <3>1, Zenon
    <3>3. \A c \in Bufs : /\ bf[c].alive => bf[c].list # <<>>
                          /\ ~bf[c].alive => bf[c].list = <<>> /\ bf[c].refcount = 0
      BY DEF Good, LinksOK
    <3>4. \A c \in Bufs \ {b} : bf2[c] = bf[c]
      BY <1>0
    <3> QED
      BY <3>2, <3>3, <3>4
  <2>5. ASSUME NEW c \in Bufs, NEW g \in ToSet(bf2[c].list)
        PROVE  fr2[g].alive /\ fr2[g].vfb = c /\ g \notin Unlisted(p)
    <3>1. CASE c = b
      <4>1. ToSet(<<f>>) = {f}
        BY DEF ToSet
      <4>2. g = f
        BY <1>0, <2>5, <3>1, <4>1
      <4> QED
        BY <1>0, <1>3, <3>1, <4>2
    <3>2. CASE c # b
      <4>1. g \in ToSet(bf[c].list)
        BY <1>0, <2>5, <3>2
      <4>2. fr[g].alive /\ fr[g].vfb = c /\ g \notin Unlisted(p)
        BY <4>1 DEF Good, LinksOK
      <4>3. g \in Frames
        BY <1>1, <4>1 DEF BufRecs, ToSet
      <4>4. g # f
        BY <1>0, <4>2
      <4> QED
        BY <1>0, <4>2, <4>3, <4>4
    <3> QED
      BY <3>1, <3>2
  <2>6. ASSUME NEW g \in Frames, fr2[g].alive, g \notin Unlisted(p)
        PROVE  g \in ToSet(bf2[fr2[g].vfb].list)
    <3>1. CASE g = f
      <4>1. f \in ToSet(<<f>>)
        BY DEF ToSet
      <4> QED
        BY <1>0, <3>1, <4>1
    <3>2. CASE g # f
      <4>1. fr[g].alive /\ fr2[g].vfb = fr[g].vfb /\ fr[g].vfb \in Bufs \ {b}
        BY <2>1, <2>6, <3>2
      <4>2. g \in ToSet(bf[fr[g].vfb].list)
        BY <2>6, <4>1 DEF Good, LinksOK
      <4> QED
        BY <1>0, <4>1, <4>2
    <3> QED
      BY <3>1, <3>2
  <2> QED
    BY <2>2, <2>3, <2>4, <2>5, <2>6 DEF LinksOK
<1>6. ASSUME NEW u \in Threads PROVE ThreadOK(fr2, bf2, rf, p, w, u)
  <2>1. ThreadOK(fr, bf, rf, p, w, u)
    BY DEF Good
  <2>2. p[u].at \in Making \cup {"check", "makewritable"} => fr2[p[u].frame] = fr[p[u].frame]
    <3>1. p[u].at \in {"check", "makewritable"} => p[u].frame \in Frames /\ p[u].frame # f
      BY <1>1, <2>1, CheckerAlone DEF ThreadOK, CheckOK
    <3>2. p[u].at \in Making => p[u].frame \in Frames /\ p[u].frame # f
      BY <1>3, <2>1 DEF ThreadOK, FreshOK, PendingIn
    <3> QED
      BY <1>0, <3>1, <3>2
  <2>3. ASSUME p[u].at = "new"
        PROVE  /\ bf2[fr[p[u].frame].vfb].list = bf[fr[p[u].frame].vfb].list
               /\ \A k \in Frames : k # p[u].frame => fr2[k].vfb # fr[p[u].frame].vfb
    <3>1. /\ p[u].frame \in Frames /\ fr[p[u].frame].vfb \in Bufs /\ fr[p[u].frame].vfb # b
      BY <1>1, <2>1, <2>3 DEF ThreadOK, FreshOK, Making, Good, LinksOK
    <3>2. \A k \in Frames : k # p[u].frame => fr[k].vfb # fr[p[u].frame].vfb
      BY <2>1, <2>3 DEF ThreadOK, SoleOK
    <3>3. \A k \in Frames : fr2[k].vfb = fr[k].vfb \/ fr2[k].vfb = b
      BY <1>0
    <3> QED
      BY <1>0, <3>1, <3>2, <3>3
  <2>4. w[u] # None => /\ fr2[w[u]].refcount = 1 /\ fr2[w[u]].vfb = fr[w[u]].vfb
                       /\ bf2[fr[w[u]].vfb].refcount = 1
    <3>1. w[u] # None => w[u] \in Frames /\ w[u] # f /\ fr[w[u]].vfb \in Bufs \ {b}
      BY <1>1, <2>1, WriterAlone DEF ThreadOK, WriterOK
    <3> QED
      BY <1>0, <2>1, <3>1 DEF ThreadOK, WriterOK
  <2>5. Respects(fr, bf, p, w, fr2, bf2, u)
    BY <2>2, <2>3, <2>4 DEF Respects
  <2>6. p[u].at \in Making =>
          \A v \in Threads \ {u} : p[v].at \in Making => p[v].frame # p[u].frame
    BY <2>1 DEF ThreadOK, FreshOK
  <2> QED
    BY <2>5, <2>6, OtherThread
<1> QED
  BY <1>2, <1>4, <1>5, <1>6 DEF Good

\* Thread t takes the only frame f of a free buffer b: the buffer has a user,
\* and the frame no properties.
Takes(fr, bf, rf, p, w, t, b, f, x, fr2, bf2, p2) ==
    /\ b \in Bufs /\ f \in Frames
    /\ bf[b].alive /\ bf[b].refcount = 0 /\ bf[b].list = <<f>>
    /\ OnlyFrame(fr, fr2, f) /\ fr2[f].refcount = fr[f].refcount /\ fr2[f].props = "clear"
    /\ bf2 \in [Bufs -> BufRecs] /\ \A c \in Bufs \ {b} : bf2[c] = bf[c]
    /\ bf2[b].alive /\ bf2[b].refcount = 1 /\ bf2[b].list = <<f>>
    /\ p[t].at \in {"idle", "copy"} /\ x.at = "new" /\ x.frame = f
    /\ x.src # None => x.src \in rf[t] /\ w[t] = None
    /\ x \in Places /\ p2 = [p EXCEPT ![t] = x]

LEMMA TakeGood ==
    ASSUME NEW fr, NEW bf, NEW rf, NEW p, NEW w, Good(fr, bf, rf, p, w), NEW t \in Threads,
           NEW b, NEW f, NEW x, NEW fr2, NEW bf2, NEW p2,
           Takes(fr, bf, rf, p, w, t, b, f, x, fr2, bf2, p2)
    PROVE  Good(fr2, bf2, rf, p2, w)
<1>0. /\ b \in Bufs /\ f \in Frames
      /\ bf[b].alive /\ bf[b].refcount = 0 /\ bf[b].list = <<f>>
      /\ OnlyFrame(fr, fr2, f) /\ fr2[f].refcount = fr[f].refcount /\ fr2[f].props = "clear"
      /\ bf2 \in [Bufs -> BufRecs] /\ \A c \in Bufs \ {b} : bf2[c] = bf[c]
      /\ bf2[b].alive /\ bf2[b].refcount = 1 /\ bf2[b].list = <<f>>
      /\ p[t].at \in {"idle", "copy"} /\ x.at = "new" /\ x.frame = f
      /\ x.src # None => x.src \in rf[t] /\ w[t] = None
      /\ x \in Places /\ p2 = [p EXCEPT ![t] = x]
  BY DEF Takes
<1>1. /\ fr \in [Frames -> FrameRecs] /\ bf \in [Bufs -> BufRecs] /\ p \in [Threads -> Places]
      /\ p2[t] = x /\ \A u \in Threads \ {t} : p2[u] = p[u]
      /\ fr2 \in [Frames -> FrameRecs]
      /\ \A g \in Frames : /\ fr2[g].alive = fr[g].alive /\ fr2[g].vfb = fr[g].vfb
                           /\ fr2[g].refcount = fr[g].refcount /\ (g # f => fr2[g] = fr[g])
  BY <1>0 DEF Good, Typed, OnlyFrame
<1>2. /\ fr[f].alive /\ fr[f].vfb = b /\ fr[f].refcount = 0 /\ f \notin PendingIn(p)
      /\ \A g \in Frames : fr[g].vfb = b => g = f
  <2>1. ToSet(<<f>>) = {f}
    BY DEF ToSet
  <2>2. f \in ToSet(bf[b].list) /\ \A g \in ToSet(bf[b].list) : g = f
    BY <1>0, <2>1
  <2>3. fr[f].alive /\ fr[f].vfb = b
    BY <1>0, <2>2 DEF Good, LinksOK
  <2>4. fr[f].refcount = 0 /\ f \notin PendingIn(p)
    BY <1>0, <2>3, OnFreeBuffer
  <2>5. \A g \in Frames : fr[g].vfb = b => g \in ToSet(bf[b].list)
    BY <1>0, OnFreeBuffer
  <2> QED
    BY <2>2, <2>3, <2>4, <2>5
<1>3. Typed(fr2, bf2, rf, p2, w)
  BY <1>0, <1>1 DEF Good, Typed
<1>4. PendingIn(p2) = PendingIn(p) \cup {f}
  BY <1>0, <1>1 DEF PendingIn, Making
<1>5. Unlisted(p2) = Unlisted(p)
  BY <1>0, <1>1 DEF Unlisted
<1>6. \A c : Releasing(p2, c) = Releasing(p, c)
  BY <1>0, <1>1 DEF Releasing
<1>7. CountsOK(fr2, bf2, rf, p2)
  <2>1. \A g \in Frames : fr2[g].refcount = Cardinality(HoldersOf(rf, g))
    BY <1>1 DEF Good, CountsOK
  <2>2. ASSUME NEW c \in Bufs, c # b
        PROVE  bf2[c].refcount = Cardinality(InUse(fr2, p2, c)) + Cardinality(Releasing(p2, c))
    <3>1. InUse(fr2, p2, c) = InUse(fr, p, c)
      BY <1>1, <1>2, <1>4, <2>2 DEF InUse
    <3>2. /\ Cardinality(InUse(fr2, p2, c)) = Cardinality(InUse(fr, p, c))
          /\ Cardinality(Releasing(p2, c)) = Cardinality(Releasing(p, c))
      BY <1>6, <3>1, Zenon
    <3> QED
      BY <1>0, <2>2, <3>2 DEF Good, CountsOK
  <2>3. bf2[b].refcount = Cardinality(InUse(fr2, p2, b)) + Cardinality(Releasing(p2, b))
    <3>1. InUse(fr2, p2, b) = {f}
      <4>1. f \in Frames /\ fr2[f].vfb = b /\ f \in PendingIn(p2)
        BY <1>0, <1>1, <1>2, <1>4
      <4>2. \A g \in Frames : fr2[g].vfb = b => g = f
        BY <1>1, <1>2
      <4> QED
        BY <4>1, <4>2 DEF InUse
    <3>2. Releasing(p2, b) = {}
      BY <1>0, <1>6, FreeBuffer
    <3>3. Cardinality(InUse(fr2, p2, b)) = 1
      BY <3>1, FS_Singleton, Zenon
    <3>4. Cardinality(Releasing(p2, b)) = 0
      BY <3>2, FS_EmptySet, Zenon
    <3> QED
      BY <1>0, <3>3, <3>4
  <2> QED
    BY <2>1, <2>2, <2>3 DEF CountsOK
<1>8. LinksOK(fr2, bf2, p2)
  <2>1. \A c \in Bufs : (bf2[c].alive <=> bf[c].alive) /\ bf2[c].list = bf[c].list
    <3>1. bf2[b].list = bf[b].list /\ bf2[b].alive /\ bf[b].alive
      BY <1>0, Zenon
    <3>2. \A c \in Bufs \ {b} : bf2[c] = bf[c]
      BY <1>0
    <3> QED
      BY <3>1, <3>2
  <2>2. \A c \in Bufs : ~bf[c].alive => bf2[c].refcount = bf[c].refcount
    BY <1>0
  <2>3. \A c \in Bufs : ToSet(bf[c].list) \subseteq Frames
    BY <1>1 DEF BufRecs, ToSet
  <2>4. \A g \in Frames : /\ fr2[g].alive => fr2[g].vfb \in Bufs /\ bf2[fr2[g].vfb].alive
                          /\ ~fr2[g].alive => fr2[g].refcount = 0 /\ fr2[g].vfb = None
    BY <1>1, <2>1 DEF Good, LinksOK
  <2>5. \A c \in Bufs : /\ bf2[c].alive => bf2[c].list # <<>>
                        /\ ~bf2[c].alive => bf2[c].list = <<>> /\ bf2[c].refcount = 0
    BY <2>1, <2>2 DEF Good, LinksOK
  <2>6. \A c \in Bufs : \A g \in ToSet(bf2[c].list) : fr2[g].alive /\ fr2[g].vfb = c /\ g \notin Unlisted(p2)
    BY <1>1, <1>5, <2>1, <2>3 DEF Good, LinksOK
  <2>7. \A g \in Frames : fr2[g].alive /\ g \notin Unlisted(p2) => g \in ToSet(bf2[fr2[g].vfb].list)
    BY <1>1, <1>5, <2>1 DEF Good, LinksOK
  <2> QED
    BY <2>4, <2>5, <2>6, <2>7 DEF LinksOK
<1>9. ASSUME NEW u \in Threads, w[u] # None
      PROVE  /\ fr2[w[u]].refcount = 1 /\ fr2[w[u]].vfb = fr[w[u]].vfb
             /\ bf2[fr[w[u]].vfb].refcount = 1
  <2>1. ThreadOK(fr, bf, rf, p, w, u)
    BY DEF Good
  <2>2. w[u] \in Frames /\ w[u] # f /\ fr[w[u]].vfb \in Bufs
    BY <1>2, <1>9, <2>1, WriterAlone DEF ThreadOK, WriterOK
  <2>3. fr[w[u]].vfb # b
    BY <1>2, <2>2
  <2> QED
    BY <1>0, <1>1, <1>9, <2>1, <2>2, <2>3 DEF ThreadOK, WriterOK
<1>10. ASSUME NEW u \in Threads \ {t} PROVE ThreadOK(fr2, bf2, rf, p2, w, u)
  <2>1. ThreadOK(fr, bf, rf, p, w, u)
    BY DEF Good
  <2>2. p[u].at \in Making \cup {"check", "makewritable"} => p[u].frame \in Frames /\ p[u].frame # f
    <3>1. p[u].at \in {"check", "makewritable"} => p[u].frame \in Frames /\ p[u].frame # f
      BY <1>2, <2>1, CheckerAlone DEF ThreadOK, CheckOK
    <3>2. p[u].at \in Making => p[u].frame \in Frames /\ p[u].frame # f
      BY <1>2, <2>1 DEF ThreadOK, FreshOK, PendingIn
    <3> QED
      BY <3>1, <3>2
  <2>3. ASSUME p[u].at = "new"
        PROVE  /\ bf2[fr[p[u].frame].vfb].list = bf[fr[p[u].frame].vfb].list
               /\ \A k \in Frames : k # p[u].frame => fr2[k].vfb # fr[p[u].frame].vfb
    <3>1. /\ p[u].frame \in Frames /\ fr[p[u].frame].vfb \in Bufs
      BY <2>1, <2>3 DEF ThreadOK, FreshOK, Making, Good, LinksOK
    <3>2. \A k \in Frames : k # p[u].frame => fr[k].vfb # fr[p[u].frame].vfb
      BY <2>1, <2>3 DEF ThreadOK, SoleOK
    <3>3. fr[p[u].frame].vfb # b
      BY <1>2, <2>2, <2>3, <3>1 DEF Making
    <3> QED
      BY <1>0, <1>1, <3>1, <3>2, <3>3
  <2>4. Respects(fr, bf, p, w, fr2, bf2, u)
    BY <1>1, <1>9, <2>2, <2>3 DEF Respects
  <2>5. p[u].at \in Making =>
          \A v \in Threads \ {u} : p2[v].at \in Making => p2[v].frame # p[u].frame
    <3>1. ASSUME p[u].at \in Making, NEW v \in Threads \ {u}, p2[v].at \in Making
          PROVE  p2[v].frame # p[u].frame
      <4>1. CASE v = t
        BY <1>0, <1>1, <2>2, <3>1, <4>1
      <4>2. CASE v # t
        BY <1>1, <2>1, <3>1, <4>2 DEF ThreadOK, FreshOK
      <4> QED
        BY <4>1, <4>2
    <3> QED
      BY <3>1
  <2> QED
    BY <1>1, <2>4, <2>5, OtherThread
<1>11. ThreadOK(fr2, bf2, rf, p2, w, t)
  <2>1. FreshOK(fr2, p2, t)
    <3>1. \A u \in Threads \ {t} : p[u].at \in Making => p[u].frame # f
      BY <1>2 DEF PendingIn
    <3> QED
      BY <1>0, <1>1, <1>2, <3>1 DEF FreshOK
  <2>2. SoleOK(fr2, bf2, p2, t)
    BY <1>0, <1>1, <1>2 DEF SoleOK
  <2>3. SourceOK(rf, p2, w, t) /\ CheckOK(fr2, rf, p2, w, t)
    BY <1>0, <1>1 DEF SourceOK, CheckOK
  <2>4. WriterOK(fr2, bf2, rf, w, t)
    BY <1>1, <1>9 DEF WriterOK, Good, ThreadOK
  <2> QED
    BY <2>1, <2>2, <2>3, <2>4 DEF ThreadOK
<1> QED
  BY <1>3, <1>7, <1>8, <1>10, <1>11 DEF Good

-------------------------------------------------------------------------------
(* The outcomes of GetNewFrame                                             *)

MemFields == {"frames", "bufs", "used", "cached"}
IsMem(m) == m = [x \in MemFields |-> m[x]]

\* A memory that fits with what the threads hold and where they are.
MemGood(m, rf, p, w) ==
    IsMem(m) /\ Good(m.frames, m.bufs, [rf EXCEPT ![Cache] = m.cached], p, w)

\* The frames that somebody holds, and: whoever keeps a frame from m to d finds
\* the same properties in it.
HeldIn(m, rf) == m.cached \cup UNION {rf[t] : t \in Threads}
Kept(m, d, rf) ==
    /\ d.cached \subseteq m.cached
    /\ \A f \in HeldIn(d, rf) : d.frames[f].props = m.frames[f].props

LEMMA KeptIf ==
    ASSUME NEW m, NEW rf, NEW p, NEW w, MemGood(m, rf, p, w), NEW d, d.cached \subseteq m.cached,
           \A f \in Frames : m.frames[f].refcount # 0 => d.frames[f].props = m.frames[f].props
    PROVE  Kept(m, d, rf)
<1>1. PICK rfm : rfm = [rf EXCEPT ![Cache] = m.cached]
  OBVIOUS
<1>2. Good(m.frames, m.bufs, rfm, p, w) /\ rfm \in [Holders -> SUBSET Frames]
  BY <1>1 DEF MemGood, Good, Typed
<1>3. rfm[Cache] = m.cached /\ \A t \in Threads : rfm[t] = rf[t]
  <2>1. Cache \in Holders /\ Threads \subseteq Holders /\ Cache \notin Threads
    BY RegistryAssumption DEF Holders
  <2> QED
    BY <1>1, <1>2, <2>1
<1>4. ASSUME NEW f \in HeldIn(d, rf) PROVE d.frames[f].props = m.frames[f].props
  <2>1. PICK h \in Holders : f \in rfm[h]
    BY <1>3 DEF HeldIn, Holders
  <2> QED
    BY <1>2, <2>1, Held
<1> QED
  BY <1>4 DEF Kept

LEMMA KeptTwice ==
    ASSUME NEW m, NEW d, NEW e, NEW rf, Kept(m, d, rf), Kept(d, e, rf)
    PROVE  Kept(m, e, rf)
BY DEF Kept, HeldIn

Without(fr, D) == [f \in Frames |-> IF f \in D THEN NoFrame ELSE fr[f]]

\* Memories with other fields.
SetFrames(m, fr) == [m EXCEPT !.frames = fr]
SetBufs(m, bf) == [m EXCEPT !.bufs = bf]
SetBufsUsed(m, bf, u) == [m EXCEPT !.bufs = bf, !.used = u]
SetAll(m, fr, bf, c) == [m EXCEPT !.frames = fr, !.bufs = bf, !.cached = c]

LEMMA SetFramesFacts ==
    ASSUME NEW m, IsMem(m), NEW fr
    PROVE  /\ IsMem(SetFrames(m, fr)) /\ SetFrames(m, fr).frames = fr
           /\ SetFrames(m, fr).bufs = m.bufs /\ SetFrames(m, fr).cached = m.cached
BY DEF IsMem, MemFields, SetFrames

LEMMA SetBufsFacts ==
    ASSUME NEW m, IsMem(m), NEW bf
    PROVE  /\ IsMem(SetBufs(m, bf)) /\ SetBufs(m, bf).frames = m.frames
           /\ SetBufs(m, bf).bufs = bf /\ SetBufs(m, bf).cached = m.cached
BY DEF IsMem, MemFields, SetBufs

LEMMA SetBufsUsedFacts ==
    ASSUME NEW m, IsMem(m), NEW bf, NEW u
    PROVE  /\ IsMem(SetBufsUsed(m, bf, u)) /\ SetBufsUsed(m, bf, u).frames = m.frames
           /\ SetBufsUsed(m, bf, u).bufs = bf /\ SetBufsUsed(m, bf, u).cached = m.cached
BY DEF IsMem, MemFields, SetBufsUsed

LEMMA SetAllFacts ==
    ASSUME NEW m, IsMem(m), NEW fr, NEW bf, NEW c
    PROVE  /\ IsMem(SetAll(m, fr, bf, c)) /\ SetAll(m, fr, bf, c).frames = fr
           /\ SetAll(m, fr, bf, c).bufs = bf /\ SetAll(m, fr, bf, c).cached = c
BY DEF IsMem, MemFields, SetAll

LEMMA DeleteFramesFields ==
    ASSUME NEW m, IsMem(m), NEW D
    PROVE  /\ IsMem(DeleteFrames(m, D)) /\ DeleteFrames(m, D).frames = Without(m.frames, D)
           /\ DeleteFrames(m, D).bufs = m.bufs /\ DeleteFrames(m, D).cached = m.cached
<1>1. DeleteFrames(m, D) = SetFrames(m, Without(m.frames, D))
  BY DEF DeleteFrames, SetFrames, Without
<1> QED
  BY <1>1, SetFramesFacts

Cleared(bf, S) == [b \in Bufs |-> IF b \in S THEN NoBuf ELSE bf[b]]
ListedOn(m, S) == UNION {ToSet(m.bufs[b].list) : b \in S}

LEMMA DiscardFields ==
    ASSUME NEW m, IsMem(m), NEW S
    PROVE  /\ IsMem(Discard(m, S)) /\ Discard(m, S).frames = Without(m.frames, ListedOn(m, S))
           /\ Discard(m, S).cached = m.cached /\ Discard(m, S).bufs = Cleared(m.bufs, S)
<1> DEFINE e == DeleteFrames(m, ListedOn(m, S))
           u == e.used - SumFunctionOnSet([b \in Bufs |-> m.bufs[b].size], S)
<1>1. IsMem(e) /\ e.frames = Without(m.frames, ListedOn(m, S)) /\ e.bufs = m.bufs /\ e.cached = m.cached
  BY DeleteFramesFields
<1>2. Discard(m, S) = SetBufsUsed(e, Cleared(e.bufs, S), u)
  BY DEF Discard, SetBufsUsed, Cleared, ListedOn
<1> HIDE DEF e, u
<1>3. PICK e0, u0 : e0 = e /\ u0 = u
  OBVIOUS
<1>4. /\ IsMem(e0) /\ e0.frames = Without(m.frames, ListedOn(m, S)) /\ e0.bufs = m.bufs
      /\ e0.cached = m.cached /\ Discard(m, S) = SetBufsUsed(e0, Cleared(e0.bufs, S), u0)
  BY <1>1, <1>2, <1>3, Zenon
<1>5. PICK bf : bf = Cleared(m.bufs, S)
  OBVIOUS
<1>6. Discard(m, S) = SetBufsUsed(e0, bf, u0)
  BY <1>4, <1>5, Zenon
<1> QED
  BY <1>4, <1>5, <1>6, SetBufsUsedFacts

LEMMA DiscardMem ==
    ASSUME NEW m, NEW rf, NEW p, NEW w, MemGood(m, rf, p, w),
           NEW S \in SUBSET FreeBufs(m), NEW d, d = Discard(m, S)
    PROVE  MemGood(d, rf, p, w) /\ Kept(m, d, rf)
<1>1. PICK D : D = ListedOn(m, S)
  OBVIOUS
<1>2. /\ IsMem(d) /\ d.frames = Without(m.frames, D) /\ d.cached = m.cached
      /\ d.bufs = Cleared(m.bufs, S)
  BY <1>1, DiscardFields DEF MemGood
<1>3. S \subseteq Bufs /\ \A b \in S : m.bufs[b].refcount = 0
  BY DEF FreeBufs
<1>4. Discards(m.frames, m.bufs, S, D, d.frames, d.bufs)
  BY <1>1, <1>2, <1>3, Zenon DEF Discards, Without, Cleared, ListedOn
<1>5. Good(d.frames, d.bufs, [rf EXCEPT ![Cache] = m.cached], p, w)
  BY <1>4, DiscardGood DEF MemGood
<1>6. ASSUME NEW f \in Frames, m.frames[f].refcount # 0
      PROVE  d.frames[f].props = m.frames[f].props
  <2>1. PICK rfm : rfm = [rf EXCEPT ![Cache] = m.cached]
    OBVIOUS
  <2>2. Good(m.frames, m.bufs, rfm, p, w) /\ LinksOK(m.frames, m.bufs, p)
    BY <2>1 DEF MemGood, Good
  <2>3. f \notin D
    <3>1. ASSUME NEW b \in S, f \in ToSet(m.bufs[b].list) PROVE FALSE
      <4>1. b \in Bufs /\ m.bufs[b].refcount = 0 /\ m.frames[f].vfb = b
        BY <1>3, <2>2, <3>1 DEF LinksOK
      <4> QED
        BY <1>6, <2>2, <4>1, OnFreeBuffer
    <3> QED
      BY <1>1, <3>1 DEF ListedOn
  <2> QED
    BY <1>2, <2>3 DEF Without
<1>7. Kept(m, d, rf)
  BY <1>2, <1>6, KeptIf
<1> QED
  BY <1>2, <1>5, <1>7 DEF MemGood

\* fr with one reference less to the frames of S, and bf without the uses that
\* end with them.
Unref(fr, S) == [f \in Frames |-> IF f \in S THEN [fr[f] EXCEPT !.refcount = @ - 1] ELSE fr[f]]
Unuse(bf, fr, S) ==
    [b \in Bufs |-> [bf[b] EXCEPT !.refcount =
                        @ - Cardinality({f \in S : fr[f].refcount = 0 /\ fr[f].vfb = b})]]

LEMMA CachesDropFields ==
    ASSUME NEW m, IsMem(m), NEW S
    PROVE  /\ IsMem(CachesDrop(m, S)) /\ CachesDrop(m, S).cached = m.cached \ S
           /\ CachesDrop(m, S).frames = Unref(m.frames, S)
           /\ CachesDrop(m, S).bufs = Unuse(m.bufs, CachesDrop(m, S).frames, S)
<1>1. PICK fr : fr = Unref(m.frames, S)
  OBVIOUS
<1>2. PICK bf : bf = Unuse(m.bufs, fr, S)
  OBVIOUS
<1>3. CachesDrop(m, S) = SetAll(m, Unref(m.frames, S), Unuse(m.bufs, Unref(m.frames, S), S), m.cached \ S)
  BY DEF CachesDrop, SetAll, Unref, Unuse
<1>4. CachesDrop(m, S) = SetAll(m, fr, bf, m.cached \ S)
  BY <1>1, <1>2, <1>3, Zenon
<1> QED
  BY <1>1, <1>2, <1>4, SetAllFacts

\* The buffers of F have been free for another call.
Aged(bf, F) == [b \in Bufs |-> IF b \in F THEN [bf[b] EXCEPT !.free_count = @ + 1] ELSE bf[b]]

LEMMA ShrinkMem ==
    ASSUME NEW m, NEW rf, NEW p, NEW w, MemGood(m, rf, p, w),
           NEW S \in SUBSET m.cached, NEW r, r = ShrinkCache(m, S)
    PROVE  MemGood(r, rf, p, w) /\ Kept(m, r, rf)
<1>1. PICK d : d = CachesDrop(m, S)
  OBVIOUS
<1>2. PICK aged : aged = SetBufs(d, Aged(d.bufs, FreeBufs(d)))
  OBVIOUS
<1>3. PICK old : old = {b \in FreeBufs(d) : d.bufs[b].free_count >= free_thresh}
  OBVIOUS
<1>4. r = Discard(aged, old)
  <2> DEFINE e == CachesDrop(m, S)
  <2>1. r = Discard(SetBufs(e, Aged(e.bufs, FreeBufs(e))),
                    {b \in FreeBufs(e) : e.bufs[b].free_count >= free_thresh})
    BY DEF ShrinkCache, SetBufs, Aged
  <2>2. d = e
    BY <1>1
  <2> HIDE DEF e
  <2> QED
    BY <1>2, <1>3, <2>1, <2>2
<1>5. PICK rfm : rfm = [rf EXCEPT ![Cache] = m.cached]
  OBVIOUS
<1>6. PICK rfd : rfd = [rf EXCEPT ![Cache] = m.cached \ S]
  OBVIOUS
<1>7. Good(m.frames, m.bufs, rfm, p, w) /\ IsMem(m) /\ rfm \in [Holders -> SUBSET Frames] /\ Cache \in Holders
  BY <1>5 DEF MemGood, Good, Typed, Holders
<1>8. rfm[Cache] = m.cached /\ rfd = [rfm EXCEPT ![Cache] = @ \ S]
  <2>1. Cache \in DOMAIN rf
    BY <1>5, <1>7
  <2> QED
    BY <1>5, <1>6, <2>1
<1>9. IsMem(d) /\ d.cached = m.cached \ S /\ Evicts(m.frames, m.bufs, rfm, S, d.frames, d.bufs, rfd)
  <2>1. /\ IsMem(d) /\ d.cached = m.cached \ S
        /\ d.frames = Unref(m.frames, S) /\ d.bufs = Unuse(m.bufs, d.frames, S)
    BY <1>1, <1>7, CachesDropFields
  <2>2. S \subseteq rfm[Cache]
    BY <1>8
  <2> QED
    BY <1>8, <2>1, <2>2, Zenon DEF Evicts, Unref, Unuse
<1>10. Good(d.frames, d.bufs, rfd, p, w)
  BY <1>7, <1>9, EvictGood
<1>11. /\ IsMem(aged) /\ aged.frames = d.frames /\ aged.cached = d.cached
       /\ aged.bufs = Aged(d.bufs, FreeBufs(d))
  <2>1. PICK bf : bf = Aged(d.bufs, FreeBufs(d))
    OBVIOUS
  <2>2. /\ IsMem(SetBufs(d, bf)) /\ SetBufs(d, bf).frames = d.frames
        /\ SetBufs(d, bf).bufs = bf /\ SetBufs(d, bf).cached = d.cached
    BY <1>9, SetBufsFacts, Zenon
  <2> QED
    BY <1>2, <2>1, <2>2, Zenon
<1>12. SameUse(d.bufs, aged.bufs)
  <2>1. d.bufs \in [Bufs -> BufRecs]
    BY <1>10 DEF Good, Typed
  <2>2. ASSUME NEW b \in Bufs
        PROVE  /\ aged.bufs[b] \in BufRecs /\ aged.bufs[b].alive = d.bufs[b].alive
               /\ aged.bufs[b].refcount = d.bufs[b].refcount /\ aged.bufs[b].list = d.bufs[b].list
    <3>1. PICK x \in BufRecs : x = d.bufs[b]
      BY <2>1
    <3>2. aged.bufs[b] = x \/ aged.bufs[b] = [x EXCEPT !.free_count = @ + 1]
      BY <1>11, <3>1 DEF Aged
    <3>3. \A y : y = [x EXCEPT !.free_count = @ + 1] =>
             y \in BufRecs /\ y.alive = x.alive /\ y.refcount = x.refcount /\ y.list = x.list
      BY DEF BufRecs
    <3> QED
      BY <3>1, <3>2, <3>3
  <2>3. aged.bufs = [b \in Bufs |-> aged.bufs[b]]
    BY <1>11 DEF Aged
  <2>4. aged.bufs \in [Bufs -> BufRecs]
    BY <2>2, <2>3
  <2> QED
    BY <2>2, <2>4 DEF SameUse
<1>13. Good(aged.frames, aged.bufs, rfd, p, w)
  <2>1. Good(d.frames, aged.bufs, rfd, p, w)
    BY <1>10, <1>12, SameUseGood
  <2> QED
    BY <1>11, <2>1, Zenon
<1>14. MemGood(aged, rf, p, w)
  <2>1. [rf EXCEPT ![Cache] = aged.cached] = rfd
    BY <1>6, <1>9, <1>11, Zenon
  <2> QED
    BY <1>11, <1>13, <2>1, Zenon DEF MemGood
<1>15. old \in SUBSET FreeBufs(aged)
  BY <1>3, <1>12 DEF FreeBufs, SameUse
<1>16. MemGood(r, rf, p, w) /\ Kept(aged, r, rf)
  BY <1>4, <1>14, <1>15, DiscardMem
<1>17. Kept(m, aged, rf)
  <2>1. aged.cached \subseteq m.cached
    BY <1>9, <1>11
  <2>2. m.frames \in [Frames -> FrameRecs] /\ aged.frames = Unref(m.frames, S)
    BY <1>1, <1>7, <1>11, CachesDropFields, Zenon DEF Good, Typed
  <2>3. ASSUME NEW f \in Frames PROVE aged.frames[f].props = m.frames[f].props
    <3>1. PICK x \in FrameRecs : x = m.frames[f]
      BY <2>2
    <3>2. aged.frames[f] = x \/ aged.frames[f] = [x EXCEPT !.refcount = @ - 1]
      BY <2>2, <3>1 DEF Unref
    <3>3. \A y : y = [x EXCEPT !.refcount = @ - 1] => y.props = x.props
      BY DEF FrameRecs
    <3> QED
      BY <3>1, <3>2, <3>3
  <2> QED
    BY <2>1, <2>3, KeptIf
<1> QED
  BY <1>16, <1>17, KeptTwice

\* A frame for thread t: it is where AddRef takes it from.
NewAt(p, t, f) == [p EXCEPT ![t] = [at |-> "new", frame |-> f, src |-> p[t].src]]

MayAsk(rf, p, w, t) ==
    /\ p[t].at \in {"idle", "copy"} /\ p[t].src \in Frames \cup {None}
    /\ p[t].src # None => p[t].src \in rf[t] /\ w[t] = None

Outcome(r, t, rf, p, w) ==
    /\ IsMem(r.m)
    /\ IF r.frame = None THEN MemGood(r.m, rf, p, w)
       ELSE MemGood(r.m, rf, NewAt(p, t, r.frame), w)

\* The last step of both ways to get a frame.
TakenFrom(m, b, f, d) ==
    /\ m.bufs[b].alive /\ m.bufs[b].refcount = 0 /\ m.bufs[b].list = <<f>>
    /\ IsMem(d) /\ d.cached = m.cached
    /\ OnlyFrame(m.frames, d.frames, f) /\ d.frames[f].refcount = m.frames[f].refcount
    /\ d.frames[f].props = "clear" /\ d.bufs \in [Bufs -> BufRecs]
    /\ \A c \in Bufs \ {b} : d.bufs[c] = m.bufs[c]
    /\ d.bufs[b].alive /\ d.bufs[b].refcount = 1 /\ d.bufs[b].list = <<f>>

LEMMA TakeMem ==
    ASSUME NEW m, NEW rf, NEW p, NEW w, MemGood(m, rf, p, w), NEW t \in Threads,
           MayAsk(rf, p, w, t), NEW b \in Bufs, NEW f \in Frames, NEW d, TakenFrom(m, b, f, d)
    PROVE  MemGood(d, rf, NewAt(p, t, f), w)
<1>1. PICK rfm : rfm = [rf EXCEPT ![Cache] = m.cached]
  OBVIOUS
<1>2. Good(m.frames, m.bufs, rfm, p, w)
  BY <1>1 DEF MemGood
<1>3. PICK x : x = [at |-> "new", frame |-> f, src |-> p[t].src]
  OBVIOUS
<1>4. x \in Places /\ x.at = "new" /\ x.frame = f /\ x.src = p[t].src
  BY <1>3 DEF MayAsk, Places, Labels
<1>5. PICK p2 : p2 = [p EXCEPT ![t] = x]
  OBVIOUS
<1>6. x.src # None => x.src \in rfm[t] /\ w[t] = None
  <2>1. rfm[t] = rf[t]
    <3>1. rfm \in [Holders -> SUBSET Frames] /\ t \in Holders /\ t # Cache
      BY <1>2, RegistryAssumption DEF Good, Typed, Holders
    <3> QED
      BY <1>1, <3>1
  <2> QED
    BY <1>4, <2>1 DEF MayAsk
<1>7. Takes(m.frames, m.bufs, rfm, p, w, t, b, f, x, d.frames, d.bufs, p2)
  BY <1>4, <1>5, <1>6, Zenon DEF Takes, MayAsk, TakenFrom
<1>8. Good(d.frames, d.bufs, rfm, p2, w)
  BY <1>2, <1>7, TakeGood
<1>9. p2 = NewAt(p, t, f)
  BY <1>3, <1>5 DEF NewAt
<1>10. rfm = [rf EXCEPT ![Cache] = d.cached]
  BY <1>1, Zenon DEF TakenFrom
<1> QED
  BY <1>8, <1>9, <1>10, Zenon DEF MemGood, TakenFrom

TakenBuf(x, f) == [x EXCEPT !.refcount = @ + 1, !.free_count = 0, !.list = <<f>>]
TakenMem(d, b, x, f) == [d EXCEPT !.bufs[b] = x, !.frames[f].props = "clear"]
SetProps(fr, f) == [fr EXCEPT ![f].props = "clear"]
SetBuf(bf, b, x) == [bf EXCEPT ![b] = x]

LEMMA TakenFacts ==
    ASSUME NEW d, IsMem(d), NEW b, NEW x, NEW f
    PROVE  /\ IsMem(TakenMem(d, b, x, f)) /\ TakenMem(d, b, x, f).cached = d.cached
           /\ TakenMem(d, b, x, f).bufs = SetBuf(d.bufs, b, x)
           /\ TakenMem(d, b, x, f).frames = SetProps(d.frames, f)
BY DEF IsMem, MemFields, TakenMem, SetBuf, SetProps

LEMMA SetPropsFacts ==
    ASSUME NEW fr \in [Frames -> FrameRecs], NEW f \in Frames
    PROVE  /\ OnlyFrame(fr, SetProps(fr, f), f) /\ SetProps(fr, f)[f].refcount = fr[f].refcount
           /\ SetProps(fr, f)[f].props = "clear"
<1>1. PICK r \in FrameRecs : r = fr[f]
  OBVIOUS
<1>2. PICK s : s = [r EXCEPT !.props = "clear"]
  OBVIOUS
<1>3. s \in FrameRecs /\ s.refcount = r.refcount /\ s.alive = r.alive /\ s.vfb = r.vfb /\ s.props = "clear"
  BY <1>2 DEF FrameRecs
<1>4. PICK fr2 : fr2 = [fr EXCEPT ![f] = s]
  OBVIOUS
<1>5. fr2[f] = s /\ fr2 \in [Frames -> FrameRecs] /\ \A g \in Frames \ {f} : fr2[g] = fr[g]
  BY <1>3, <1>4
<1>6. SetProps(fr, f) = fr2
  BY <1>1, <1>2, <1>4 DEF SetProps
<1>7. OnlyFrame(fr, fr2, f)
  BY <1>1, <1>3, <1>5, Zenon DEF OnlyFrame
<1> QED
  BY <1>1, <1>3, <1>5, <1>6, <1>7, Zenon

LEMMA ListOfOne ==
    ASSUME NEW A, NEW x \in A
    PROVE  <<x>> \in Seq(A) /\ <<x>> # <<>> /\ ToSet(<<x>>) = {x}
<1>1. <<x>> \in Seq(A) /\ <<x>> # <<>>
  OBVIOUS
<1>2. ToSet(<<x>>) = {x}
  BY DEF ToSet
<1> QED
  BY <1>1, <1>2

LEMMA TakenBufFacts ==
    ASSUME NEW x \in BufRecs, x.refcount = 0, NEW f \in Frames
    PROVE  /\ TakenBuf(x, f) \in BufRecs /\ TakenBuf(x, f).refcount = 1
           /\ TakenBuf(x, f).alive = x.alive /\ TakenBuf(x, f).list = <<f>>
<1>1. PICK q \in Seq(Frames) : q = <<f>>
  BY ListOfOne
<1>2. PICK y : y = [x EXCEPT !.refcount = 1, !.free_count = 0, !.list = q]
  OBVIOUS
<1>3. y \in BufRecs /\ y.refcount = 1 /\ y.alive = x.alive /\ y.list = q
  BY <1>2 DEF BufRecs
<1>4. x.refcount + 1 = 1
  OBVIOUS
<1>5. TakenBuf(x, f) = y
  BY <1>1, <1>2, <1>4, Zenon DEF TakenBuf
<1> QED
  BY <1>1, <1>3, <1>5, Zenon

LEMMA SetBufFacts ==
    ASSUME NEW bf \in [Bufs -> BufRecs], NEW b \in Bufs, NEW x \in BufRecs
    PROVE  /\ SetBuf(bf, b, x) \in [Bufs -> BufRecs] /\ SetBuf(bf, b, x)[b] = x
           /\ \A c \in Bufs \ {b} : SetBuf(bf, b, x)[c] = bf[c]
BY DEF SetBuf

LEMMA HeadFacts ==
    ASSUME NEW A, NEW q \in Seq(A), q # <<>>
    PROVE  Head(q) \in A /\ Head(q) \in ToSet(q)
<1>1. Head(q) = q[1] /\ 1 \in DOMAIN q /\ q[1] \in A
  OBVIOUS
<1> QED
  BY <1>1 DEF ToSet

\* A free buffer from the registry, with the first frame of its list.
LEMMA GetFrameMem ==
    ASSUME NEW m, NEW rf, NEW p, NEW w, MemGood(m, rf, p, w), NEW t \in Threads,
           MayAsk(rf, p, w, t), NEW b \in FreeBufs(m), NEW r, r = GetFrameFromRegistry(m, b)
    PROVE  Outcome(r, t, rf, p, w) /\ Kept(m, r.m, rf)
<1>1. b \in Bufs /\ m.bufs[b].alive /\ m.bufs[b].refcount = 0
  BY DEF FreeBufs
<1>2. PICK rfm : rfm = [rf EXCEPT ![Cache] = m.cached]
  OBVIOUS
<1>3. /\ IsMem(m) /\ Good(m.frames, m.bufs, rfm, p, w) /\ LinksOK(m.frames, m.bufs, p)
      /\ m.frames \in [Frames -> FrameRecs] /\ m.bufs \in [Bufs -> BufRecs]
  BY <1>2 DEF MemGood, Good, Typed
<1>4. PICK list \in Seq(Frames) : list = m.bufs[b].list
  BY <1>1, <1>3 DEF BufRecs
<1>5. list # <<>> /\ ToSet(list) \subseteq Frames
  BY <1>1, <1>3, <1>4 DEF LinksOK, ToSet
<1>6. PICK found \in Frames : found = Head(list) /\ found \in ToSet(list)
  BY <1>5, HeadFacts
<1>7. PICK D : D = ToSet(list) \ {found}
  OBVIOUS
<1>8. PICK d : d = DeleteFrames(m, D)
  OBVIOUS
<1>9. IsMem(d) /\ d.frames = Without(m.frames, D) /\ d.bufs = m.bufs /\ d.cached = m.cached
  BY <1>3, <1>8, DeleteFramesFields
<1>10. PICK x : x = TakenBuf(m.bufs[b], found)
  OBVIOUS
<1>11. r.m = TakenMem(d, b, x, found) /\ r.frame = found
  <2>1. /\ r.m = TakenMem(DeleteFrames(m, ToSet(m.bufs[b].list) \ {Head(m.bufs[b].list)}), b,
                          TakenBuf(m.bufs[b], Head(m.bufs[b].list)), Head(m.bufs[b].list))
        /\ r.frame = Head(m.bufs[b].list)
    BY DEF GetFrameFromRegistry, TakenMem, TakenBuf
  <2> QED
    BY <1>4, <1>6, <1>7, <1>8, <1>10, <2>1, Zenon
<1>12. PICK q \in Seq(Frames) : q = <<found>> /\ q # <<>> /\ ToSet(q) = {found}
  BY ListOfOne
<1>13. PICK bf1 : bf1 = SetList(m.bufs, b, q)
  OBVIOUS
<1>14. /\ bf1 \in [Bufs -> BufRecs] /\ bf1[b].refcount = m.bufs[b].refcount
       /\ bf1[b].alive /\ bf1[b].list = q /\ \A c \in Bufs \ {b} : bf1[c] = m.bufs[c]
  <2>1. /\ SetList(m.bufs, b, q) \in [Bufs -> BufRecs]
        /\ SetList(m.bufs, b, q)[b].refcount = m.bufs[b].refcount
        /\ SetList(m.bufs, b, q)[b].alive = m.bufs[b].alive /\ SetList(m.bufs, b, q)[b].list = q
        /\ \A c \in Bufs \ {b} : SetList(m.bufs, b, q)[c] = m.bufs[c]
    <3>1. PICK bf : bf = m.bufs
      OBVIOUS
    <3>2. bf \in [Bufs -> BufRecs]
      BY <1>3, <3>1
    <3>3. b \in Bufs
      BY <1>1
    <3>4. /\ SetList(bf, b, q) \in [Bufs -> BufRecs]
          /\ SetList(bf, b, q)[b].refcount = bf[b].refcount
          /\ SetList(bf, b, q)[b].alive = bf[b].alive /\ SetList(bf, b, q)[b].list = q
          /\ \A c \in Bufs \ {b} : SetList(bf, b, q)[c] = bf[c]
      BY <3>2, <3>3, SetListFacts
    <3> QED
      BY <3>1, <3>4, Zenon
  <2> QED
    BY <1>1, <1>13, <2>1, Zenon
<1>15. D \cap PendingIn(p) = {} /\ \A g \in D : m.frames[g].refcount = 0
  <2>1. ASSUME NEW g \in D PROVE m.frames[g].refcount = 0 /\ g \notin PendingIn(p)
    <3>1. g \in Frames /\ g \in ToSet(m.bufs[b].list)
      BY <1>4, <1>5, <1>7, <2>1
    <3>2. m.frames[g].vfb = b
      BY <1>1, <1>3, <3>1, OnFreeBuffer
    <3> QED
      BY <1>1, <1>3, <3>1, <3>2, OnFreeBuffer
  <2> QED
    BY <2>1
<1>16. ASSUME NEW u \in Threads, p[u].at = "new" PROVE m.frames[p[u].frame].vfb # b
  <2>1. p[u].frame \in PendingIn(p)
    BY <1>16 DEF PendingIn, Making
  <2>2. p[u].frame \in Frames
    BY <1>3, <1>16 DEF Good, ThreadOK, FreshOK, Making
  <2> QED
    BY <1>1, <1>3, <2>1, <2>2, OnFreeBuffer
<1>17. Purges(m.frames, m.bufs, p, b, D, q, d.frames, bf1)
  <2>1. D \subseteq ToSet(m.bufs[b].list) /\ ToSet(q) = ToSet(m.bufs[b].list) \ D
    BY <1>4, <1>6, <1>7, <1>12
  <2> QED
    BY <1>1, <1>9, <1>12, <1>14, <1>15, <1>16, <2>1, Zenon DEF Purges, Without
<1>18. Good(d.frames, bf1, rfm, p, w)
  BY <1>1, <1>3, <1>17, PurgeGood
<1>19. PICK m1 : m1 = SetBufs(d, bf1)
  OBVIOUS
<1>20. IsMem(m1) /\ m1.frames = d.frames /\ m1.bufs = bf1 /\ m1.cached = m.cached
  BY <1>9, <1>19, SetBufsFacts
<1>21. MemGood(m1, rf, p, w)
  BY <1>2, <1>18, <1>20, Zenon DEF MemGood
<1>22. PICK e : e = r.m
  OBVIOUS
<1>23. /\ IsMem(e) /\ e.cached = m.cached /\ e.bufs = SetBuf(m.bufs, b, x)
       /\ e.frames = SetProps(d.frames, found)
  <2>1. e = TakenMem(d, b, x, found)
    BY <1>11, <1>22
  <2> QED
    BY <1>9, <2>1, TakenFacts
<1>24. x \in BufRecs /\ x.refcount = 1 /\ x.alive /\ x.list = <<found>>
  <2>1. m.bufs[b] \in BufRecs
    BY <1>1, <1>3
  <2> QED
    BY <1>1, <1>10, <2>1, TakenBufFacts
<1>25. /\ e.bufs \in [Bufs -> BufRecs] /\ e.bufs[b] = x /\ \A c \in Bufs \ {b} : e.bufs[c] = m1.bufs[c]
  <2>1. /\ SetBuf(m.bufs, b, x) \in [Bufs -> BufRecs] /\ SetBuf(m.bufs, b, x)[b] = x
        /\ \A c \in Bufs \ {b} : SetBuf(m.bufs, b, x)[c] = m.bufs[c]
    BY <1>1, <1>3, <1>24, SetBufFacts
  <2>2. \A c \in Bufs \ {b} : m1.bufs[c] = m.bufs[c]
    BY <1>14, <1>20, Zenon
  <2> QED
    BY <1>23, <2>1, <2>2, Zenon
<1>26. /\ OnlyFrame(m1.frames, e.frames, found) /\ e.frames[found].refcount = m1.frames[found].refcount
       /\ e.frames[found].props = "clear"
  <2>1. d.frames \in [Frames -> FrameRecs]
    BY <1>18 DEF Good, Typed
  <2> QED
    BY <1>20, <1>23, <2>1, SetPropsFacts
<1>27. TakenFrom(m1, b, found, e)
  <2>1. m1.bufs[b].alive /\ m1.bufs[b].refcount = 0 /\ m1.bufs[b].list = <<found>>
    BY <1>1, <1>12, <1>14, <1>20, Zenon
  <2>2. e.bufs[b].alive /\ e.bufs[b].refcount = 1 /\ e.bufs[b].list = <<found>>
    BY <1>24, <1>25, Zenon
  <2> QED
    BY <1>20, <1>23, <1>25, <1>26, <2>1, <2>2, Zenon DEF TakenFrom
<1>28. MemGood(e, rf, NewAt(p, t, found), w)
  BY <1>1, <1>21, <1>27, TakeMem
<1>29. r.frame # None
  BY <1>11, FiniteSets1 DEF None
<1>30. ASSUME NEW g \in Frames, m.frames[g].refcount # 0
       PROVE  e.frames[g].props = m.frames[g].props
  <2>1. g \notin D
    BY <1>15, <1>30
  <2>2. g # found
    <3>1. m.frames[found].vfb = b
      BY <1>1, <1>3, <1>4, <1>6 DEF LinksOK
    <3> QED
      BY <1>1, <1>3, <1>30, <3>1, OnFreeBuffer
  <2>3. d.frames[g] = m.frames[g]
    BY <1>9, <2>1 DEF Without
  <2>4. e.frames[g] = d.frames[g]
    BY <1>20, <1>26, <2>2 DEF OnlyFrame
  <2> QED
    BY <2>3, <2>4
<1>31. Kept(m, e, rf)
  BY <1>23, <1>30, KeptIf
<1> QED
  BY <1>11, <1>22, <1>23, <1>28, <1>29, <1>31, Zenon DEF Outcome

SetFrame(fr, f, y) == [fr EXCEPT ![f] = y]
BornMem(m, b, x, f, y, u) == [m EXCEPT !.bufs[b] = x, !.frames[f] = y, !.used = u]

LEMMA BornFacts ==
    ASSUME NEW m, IsMem(m), NEW b, NEW x, NEW f, NEW y, NEW u
    PROVE  /\ IsMem(BornMem(m, b, x, f, y, u)) /\ BornMem(m, b, x, f, y, u).cached = m.cached
           /\ BornMem(m, b, x, f, y, u).bufs = SetBuf(m.bufs, b, x)
           /\ BornMem(m, b, x, f, y, u).frames = SetFrame(m.frames, f, y)
BY DEF IsMem, MemFields, BornMem, SetBuf, SetFrame

LEMMA SetFrameFacts ==
    ASSUME NEW fr \in [Frames -> FrameRecs], NEW f \in Frames, NEW y \in FrameRecs
    PROVE  /\ SetFrame(fr, f, y) \in [Frames -> FrameRecs] /\ SetFrame(fr, f, y)[f] = y
           /\ \A g \in Frames \ {f} : SetFrame(fr, f, y)[g] = fr[g]
BY DEF SetFrame

NewBuf(n, f, count) ==
    [alive |-> TRUE, refcount |-> count, size |-> n, free_count |-> 0, list |-> <<f>>]
BlankFrame(b) == [alive |-> TRUE, refcount |-> 0, vfb |-> b, props |-> "clear"]

LEMMA NewBufFacts ==
    ASSUME NEW n \in Nat, NEW f \in Frames, NEW count \in Nat
    PROVE  /\ NewBuf(n, f, count) \in BufRecs /\ NewBuf(n, f, count).alive
           /\ NewBuf(n, f, count).refcount = count /\ NewBuf(n, f, count).list = <<f>>
<1>1. PICK q \in Seq(Frames) : q = <<f>>
  BY ListOfOne
<1>2. PICK y : y = [alive |-> TRUE, refcount |-> count, size |-> n, free_count |-> 0, list |-> q]
  OBVIOUS
<1>3. y \in BufRecs /\ y.alive /\ y.refcount = count /\ y.list = q
  BY <1>2 DEF BufRecs
<1>4. NewBuf(n, f, count) = y
  BY <1>1, <1>2, Zenon DEF NewBuf
<1> QED
  BY <1>1, <1>3, <1>4, Zenon

LEMMA BlankFrameFacts ==
    ASSUME NEW b \in Bufs
    PROVE  /\ BlankFrame(b) \in FrameRecs /\ BlankFrame(b).alive /\ BlankFrame(b).refcount = 0
           /\ BlankFrame(b).vfb = b /\ BlankFrame(b).props = "clear"
BY DEF BlankFrame, FrameRecs

\* A new buffer with a new frame.
LEMMA AllocateMem ==
    ASSUME NEW m, NEW rf, NEW p, NEW w, MemGood(m, rf, p, w), NEW t \in Threads,
           MayAsk(rf, p, w, t), CanAllocate(m), NEW n \in Nat, NEW r, r = AllocateFrame(m, n)
    PROVE  Outcome(r, t, rf, p, w) /\ Kept(m, r.m, rf)
<1>1. PICK b \in Bufs : b = Min(Unused(m.bufs, Bufs)) /\ ~m.bufs[b].alive
  <2>1. Bufs \in SUBSET Nat
    BY RegistryAssumption DEF Bufs
  <2> QED
    BY <2>1, LeastUnused DEF CanAllocate
<1>2. PICK f \in Frames : f = Min(Unused(m.frames, Frames)) /\ ~m.frames[f].alive
  <2>1. Frames \in SUBSET Nat
    BY RegistryAssumption DEF Frames
  <2> QED
    BY <2>1, LeastUnused DEF CanAllocate
<1>3. PICK rfm : rfm = [rf EXCEPT ![Cache] = m.cached]
  OBVIOUS
<1>4. /\ IsMem(m) /\ Good(m.frames, m.bufs, rfm, p, w)
      /\ m.frames \in [Frames -> FrameRecs] /\ m.bufs \in [Bufs -> BufRecs]
  BY <1>3 DEF MemGood, Good, Typed
<1>5. PICK u : u = m.used + n
  OBVIOUS
<1>6. r.m = BornMem(m, b, NewBuf(n, f, 1), f, BlankFrame(b), u) /\ r.frame = f
  BY <1>1, <1>2, <1>5 DEF AllocateFrame, BornMem, NewBuf, BlankFrame
<1>7. PICK x0 \in BufRecs : x0 = NewBuf(n, f, 0) /\ x0.alive /\ x0.refcount = 0 /\ x0.list = <<f>>
  BY NewBufFacts
<1>8. PICK x1 \in BufRecs : x1 = NewBuf(n, f, 1) /\ x1.alive /\ x1.refcount = 1 /\ x1.list = <<f>>
  BY NewBufFacts
<1>9. PICK y \in FrameRecs : y = BlankFrame(b) /\ y.alive /\ y.refcount = 0 /\ y.vfb = b /\ y.props = "clear"
  BY BlankFrameFacts
<1>10. PICK m1 : m1 = BornMem(m, b, x0, f, y, u)
  OBVIOUS
<1>11. PICK d : d = BornMem(m, b, x1, f, y, u)
  OBVIOUS
<1>12. /\ IsMem(m1) /\ m1.cached = m.cached /\ m1.bufs = SetBuf(m.bufs, b, x0)
       /\ m1.frames = SetFrame(m.frames, f, y)
  BY <1>4, <1>10, BornFacts
<1>13. /\ IsMem(d) /\ d.cached = m.cached /\ d.bufs = SetBuf(m.bufs, b, x1)
       /\ d.frames = SetFrame(m.frames, f, y)
  BY <1>4, <1>11, BornFacts
<1>14. /\ m1.frames \in [Frames -> FrameRecs] /\ m1.frames[f] = y
       /\ \A g \in Frames \ {f} : m1.frames[g] = m.frames[g]
  BY <1>4, <1>12, SetFrameFacts
<1>15. /\ m1.bufs \in [Bufs -> BufRecs] /\ m1.bufs[b] = x0
       /\ \A c \in Bufs \ {b} : m1.bufs[c] = m.bufs[c]
  BY <1>4, <1>12, SetBufFacts
<1>16. /\ d.bufs \in [Bufs -> BufRecs] /\ d.bufs[b] = x1
       /\ \A c \in Bufs \ {b} : d.bufs[c] = m.bufs[c]
  BY <1>4, <1>13, SetBufFacts
<1>17. Births(m.frames, m.bufs, b, f, m1.frames, m1.bufs)
  BY <1>1, <1>2, <1>7, <1>9, <1>14, <1>15, Zenon DEF Births
<1>18. MemGood(m1, rf, p, w)
  <2>1. Good(m1.frames, m1.bufs, rfm, p, w)
    BY <1>4, <1>17, BirthGood
  <2> QED
    BY <1>3, <1>12, <2>1, Zenon DEF MemGood
<1>19. TakenFrom(m1, b, f, d)
  <2>1. d.frames = m1.frames
    BY <1>12, <1>13
  <2>2. OnlyFrame(m1.frames, d.frames, f)
    BY <1>14, <2>1 DEF OnlyFrame
  <2>3. d.frames[f].refcount = m1.frames[f].refcount /\ d.frames[f].props = "clear"
    BY <1>9, <1>14, <2>1
  <2>4. m1.bufs[b].alive /\ m1.bufs[b].refcount = 0 /\ m1.bufs[b].list = <<f>>
    BY <1>7, <1>15, Zenon
  <2>5. d.bufs[b].alive /\ d.bufs[b].refcount = 1 /\ d.bufs[b].list = <<f>>
    BY <1>8, <1>16, Zenon
  <2>6. \A c \in Bufs \ {b} : d.bufs[c] = m1.bufs[c]
    BY <1>15, <1>16
  <2>7. d.cached = m1.cached
    BY <1>12, <1>13
  <2> QED
    BY <1>13, <1>16, <2>2, <2>3, <2>4, <2>5, <2>6, <2>7, Zenon DEF TakenFrom
<1>20. MemGood(d, rf, NewAt(p, t, f), w)
  BY <1>18, <1>19, TakeMem
<1>21. r.m = d
  BY <1>6, <1>8, <1>9, <1>11, Zenon
<1>22. r.frame # None
  BY <1>6, FiniteSets1 DEF None
<1>23. Kept(m, d, rf)
  <2>1. m.frames[f].refcount = 0
    BY <1>2, <1>4 DEF Good, LinksOK
  <2>2. \A g \in Frames \ {f} : d.frames[g] = m.frames[g]
    BY <1>12, <1>13, <1>14, Zenon
  <2> QED
    BY <1>13, <2>1, <2>2, KeptIf
<1> QED
  BY <1>6, <1>13, <1>20, <1>21, <1>22, <1>23, Zenon DEF Outcome

LEMMA CollectMem ==
    ASSUME NEW m, NEW rf, NEW p, NEW w, MemGood(m, rf, p, w), NEW n, NEW c, c = CollectGarbage(m, n)
    PROVE  MemGood(c, rf, p, w) /\ Kept(m, c, rf)
<1>1. PICK S : S = {b \in FreeBufs(m) : m.bufs[b].size <= n}
  OBVIOUS
<1>2. c = Discard(m, S) /\ S \in SUBSET FreeBufs(m)
  BY <1>1 DEF CollectGarbage
<1> QED
  BY <1>2, DiscardMem

LEMMA AfterShrinkMem ==
    ASSUME NEW m, NEW rf, NEW p, NEW w, MemGood(m, rf, p, w), NEW t \in Threads,
           MayAsk(rf, p, w, t), NEW n \in Nat, NEW r \in AfterShrink(m, n)
    PROVE  Outcome(r, t, rf, p, w) /\ Kept(m, r.m, rf)
<1>1. CASE Candidates(m, n) # {}
  <2>1. PICK b \in Candidates(m, n) : r = GetFrameFromRegistry(m, b)
    BY <1>1 DEF AfterShrink
  <2>2. b \in FreeBufs(m)
    BY DEF Candidates, FreeBufs
  <2> QED
    BY <2>1, <2>2, GetFrameMem
<1>2. CASE Candidates(m, n) = {} /\ CanAllocate(m)
  <2>1. r = AllocateFrame(m, n)
    BY <1>2 DEF AfterShrink
  <2> QED
    BY <1>2, <2>1, AllocateMem
<1>3. CASE Candidates(m, n) = {} /\ ~CanAllocate(m)
  <2>1. PICK c : c = CollectGarbage(m, n)
    OBVIOUS
  <2>2. MemGood(c, rf, p, w) /\ Kept(m, c, rf)
    BY <2>1, CollectMem
  <2>3. r \in IF CanAllocate(c) THEN {AllocateFrame(c, n)} ELSE {[m |-> c, frame |-> None]}
    BY <1>3, <2>1 DEF AfterShrink
  <2>4. CASE CanAllocate(c)
    <3>1. r = AllocateFrame(c, n)
      BY <2>3, <2>4
    <3>2. Outcome(r, t, rf, p, w) /\ Kept(c, r.m, rf)
      BY <2>2, <2>4, <3>1, AllocateMem
    <3> QED
      BY <2>2, <3>2, KeptTwice
  <2>5. CASE ~CanAllocate(c)
    <3>1. r.m = c /\ r.frame = None
      BY <2>3, <2>5
    <3> QED
      BY <2>2, <3>1, Zenon DEF Outcome, MemGood
  <2> QED
    BY <2>4, <2>5
<1> QED
  BY <1>1, <1>2, <1>3

LEMMA NewFramesMem ==
    ASSUME NEW m, NEW rf, NEW p, NEW w, MemGood(m, rf, p, w), NEW t \in Threads,
           MayAsk(rf, p, w, t), NEW n \in Nat, NEW r \in NewFrames(m, n)
    PROVE  Outcome(r, t, rf, p, w) /\ Kept(m, r.m, rf)
<1>1. CASE Candidates(m, n) # {}
  <2>1. PICK b \in Candidates(m, n) : r = GetFrameFromRegistry(m, b)
    BY <1>1 DEF NewFrames
  <2>2. b \in FreeBufs(m)
    BY DEF Candidates, FreeBufs
  <2> QED
    BY <2>1, <2>2, GetFrameMem
<1>2. CASE Candidates(m, n) = {} /\ BelowLimit(m, n) /\ CanAllocate(m)
  <2>1. r = AllocateFrame(m, n)
    BY <1>2 DEF NewFrames
  <2> QED
    BY <1>2, <2>1, AllocateMem
<1>3. CASE Candidates(m, n) = {} /\ ~(BelowLimit(m, n) /\ CanAllocate(m))
  <2>1. PICK c \in Shrunk(m) : r \in AfterShrink(c, n)
    BY <1>3 DEF NewFrames
  <2>2. MemGood(c, rf, p, w) /\ Kept(m, c, rf)
    <3>1. (\E S \in SUBSET m.cached : c = ShrinkCache(m, S)) \/ c = m
      BY DEF Shrunk
    <3>2. ASSUME NEW S \in SUBSET m.cached, c = ShrinkCache(m, S)
          PROVE  MemGood(c, rf, p, w) /\ Kept(m, c, rf)
      BY <3>2, ShrinkMem
    <3>3. Kept(m, m, rf)
      BY DEF Kept
    <3> QED
      BY <3>1, <3>2, <3>3
  <2>3. Outcome(r, t, rf, p, w) /\ Kept(c, r.m, rf)
    BY <2>1, <2>2, AfterShrinkMem
  <2> QED
    BY <2>2, <2>3, KeptTwice
<1> QED
  BY <1>1, <1>2, <1>3

\* What thread t gets for a request of n bytes, and from which memory.
LEMMA Asked ==
    ASSUME RegistryInv, NEW t \in Threads, NEW n \in Requests, GetNewFrame(t, n)
    PROVE  \E m, r :
             /\ m.frames = frames /\ m.cached = refs[Cache] /\ Kept(m, r.m, refs)
             /\ Outcome(r, t, refs, pc, writing)
             /\ frames' = r.m.frames /\ bufs' = r.m.bufs
             /\ refs' = [refs EXCEPT ![Cache] = r.m.cached]
             /\ IF r.frame = None THEN Goto(t, "idle", None, None)
                ELSE Goto(t, "new", r.frame, pc[t].src)
<1>1. PICK m : m = Memory
  OBVIOUS
<1>2. /\ IsMem(m) /\ m.frames = frames /\ m.bufs = bufs /\ m.cached = refs[Cache]
  BY <1>1 DEF Memory, IsMem, MemFields
<1>3. refs \in [Holders -> SUBSET Frames] /\ pc \in [Threads -> Places] /\ Cache \in Holders /\ t \in Holders
  BY DEF RegistryInv, Good, Typed, Holders
<1>4. MemGood(m, refs, pc, writing)
  <2>1. [refs EXCEPT ![Cache] = refs[Cache]] = refs
    BY <1>3
  <2> QED
    BY <1>2, <2>1, Zenon DEF MemGood, RegistryInv
<1>5. pc[t].at \in {"idle", "copy"} /\ SourceOK(refs, pc, writing, t)
  BY DEF GetNewFrame, RegistryInv, Good, ThreadOK
<1>6. MayAsk(refs, pc, writing, t)
  <2>1. CASE pc[t].at = "idle"
    BY <1>5, <2>1 DEF SourceOK, MayAsk, Idle
  <2>2. CASE pc[t].at = "copy"
    BY <1>3, <1>5, <2>2 DEF SourceOK, MayAsk
  <2> QED
    BY <1>5, <2>1, <2>2
<1>7. PICK size \in Nat : size = RoundUp(n)
  BY RegistryAssumption DEF RoundUp
<1>8. PICK r \in NewFrames(m, size) :
         /\ frames' = r.m.frames /\ bufs' = r.m.bufs
         /\ refs' = [refs EXCEPT ![Cache] = r.m.cached]
         /\ IF r.frame = None THEN Goto(t, "idle", None, None)
            ELSE Goto(t, "new", r.frame, pc[t].src)
  BY <1>1, <1>7, Zenon DEF GetNewFrame
<1>9. Outcome(r, t, refs, pc, writing) /\ Kept(m, r.m, refs)
  BY <1>4, <1>6, NewFramesMem
<1> QED
  BY <1>2, <1>8, <1>9, Zenon

LEMMA GetNewFrameStep ==
    ASSUME RegistryInv, NEW t \in Threads, NEW n \in Requests, GetNewFrame(t, n)
    PROVE  RegistryInv'
<1>1. pc \in [Threads -> Places]
  BY DEF RegistryInv, Good, Typed
<1>2. pc[t].at \in {"idle", "copy"}
  BY DEF GetNewFrame
<1>3. PICK r :
         /\ Outcome(r, t, refs, pc, writing)
         /\ frames' = r.m.frames /\ bufs' = r.m.bufs
         /\ refs' = [refs EXCEPT ![Cache] = r.m.cached]
         /\ IF r.frame = None THEN Goto(t, "idle", None, None)
            ELSE Goto(t, "new", r.frame, pc[t].src)
  BY Asked
<1>4. writing' = writing
  BY DEF GetNewFrame
<1>5. Outcome(r, t, refs, pc, writing)
  BY <1>3
<1>6. CASE r.frame # None
  <2>1. MemGood(r.m, refs, NewAt(pc, t, r.frame), writing)
    BY <1>5, <1>6 DEF Outcome
  <2>2. pc' = NewAt(pc, t, r.frame)
    BY <1>3, <1>6 DEF Goto, NewAt
  <2> QED
    BY <1>3, <1>4, <2>1, <2>2, Zenon DEF MemGood, RegistryInv
<1>7. CASE r.frame = None
  <2>1. MemGood(r.m, refs, pc, writing)
    BY <1>5, <1>7 DEF Outcome
  <2>2. Good(frames', bufs', refs', pc, writing)
    BY <1>3, <2>1, Zenon DEF MemGood
  <2>3. pc' = [pc EXCEPT ![t] = Idle]
    BY <1>3, <1>7 DEF Goto, Idle
  <2>4. Idle \in Places /\ Idle.at = "idle" /\ pc'[t] = Idle
    BY <1>1, <2>3 DEF Idle, Places, Labels
  <2>5. writing \in [Threads -> Frames \cup {None}] /\ WriterOK(frames', bufs', refs', writing, t)
    BY <2>2 DEF Good, Typed, ThreadOK
  <2>6. SourceOK(refs', pc', writing, t) /\ CheckOK(frames', refs', pc', writing, t)
    BY <2>4 DEF SourceOK, CheckOK
  <2>7. writing = [writing EXCEPT ![t] = writing[t]] /\ writing[t] \in Frames \cup {None}
    BY <2>5
  <2>8. pc[t].at \in Plain /\ Idle.at \in Plain
    BY <1>2, <2>4 DEF Plain
  <2>9. Good(frames', bufs', refs', pc', writing)
    <3>1. PICK x \in Places, wt \in Frames \cup {None} : x = Idle /\ wt = writing[t]
      BY <2>4, <2>7
    <3>2. /\ pc' = [pc EXCEPT ![t] = x] /\ writing = [writing EXCEPT ![t] = wt]
          /\ pc[t].at \in Plain /\ x.at \in Plain
      BY <2>3, <2>7, <2>8, <3>1, Zenon
    <3> QED
      BY <2>2, <2>5, <2>6, <3>2, MoveGood
  <2> QED
    BY <1>4, <2>9 DEF RegistryInv
<1> QED
  BY <1>6, <1>7

-------------------------------------------------------------------------------
(* The invariant                                                           *)

LEMMA InitGood == Init => RegistryInv
<1> SUFFICES ASSUME Init PROVE RegistryInv
  OBVIOUS
<1>1. /\ \A f \in Frames : frames[f] = NoFrame
      /\ \A b \in Bufs : bufs[b] = NoBuf
      /\ \A h \in Holders : refs[h] = {}
      /\ \A t \in Threads : pc[t] = Idle /\ writing[t] = None
  BY DEF Init
<1>2. NoFrame \in FrameRecs /\ ~NoFrame.alive /\ NoFrame.refcount = 0 /\ NoFrame.vfb = None
  BY DEF NoFrame, FrameRecs
<1>3. PICK q \in Seq(Frames) : q = <<>> /\ ToSet(q) = {}
  <2>1. <<>> \in Seq(Frames) /\ ToSet(<<>>) = {}
    BY DEF ToSet
  <2> QED
    BY <2>1
<1>4. NoBuf \in BufRecs /\ ~NoBuf.alive /\ NoBuf.refcount = 0 /\ NoBuf.list = q
  <2>1. NoBuf = [alive |-> FALSE, refcount |-> 0, size |-> 0, free_count |-> 0, list |-> q]
    BY <1>3, Zenon DEF NoBuf
  <2> QED
    BY <2>1 DEF BufRecs
<1>5. Idle \in Places /\ Idle.at = "idle"
  BY DEF Idle, Places, Labels
<1>6. Typed(frames, bufs, refs, pc, writing)
  BY <1>2, <1>4, <1>5 DEF Init, Typed
<1>7. PendingIn(pc) = {} /\ Unlisted(pc) = {} /\ \A b : Releasing(pc, b) = {}
  BY <1>1, <1>5 DEF PendingIn, Unlisted, Releasing, Making
<1>8. /\ \A f \in Frames : HoldersOf(refs, f) = {}
      /\ \A b : InUse(frames, pc, b) = {}
  BY <1>1, <1>2, <1>7 DEF HoldersOf, InUse
<1>9. CountsOK(frames, bufs, refs, pc)
  <2>1. Cardinality({}) = 0 /\ 0 + 0 = 0
    BY FS_EmptySet
  <2>2. \A f \in Frames : frames[f].refcount = Cardinality(HoldersOf(refs, f))
    BY <1>1, <1>2, <1>8, <2>1, Zenon
  <2>3. \A b \in Bufs : bufs[b].refcount = Cardinality(InUse(frames, pc, b)) + Cardinality(Releasing(pc, b))
    BY <1>1, <1>4, <1>7, <1>8, <2>1, Zenon
  <2> QED
    BY <2>2, <2>3 DEF CountsOK
<1>10. LinksOK(frames, bufs, pc)
  BY <1>1, <1>2, <1>3, <1>4 DEF LinksOK
<1>11. ASSUME NEW t \in Threads PROVE ThreadOK(frames, bufs, refs, pc, writing, t)
  BY <1>1, <1>5 DEF ThreadOK, FreshOK, SoleOK, SourceOK, CheckOK, WriterOK, Making
<1> QED
  BY <1>6, <1>9, <1>10, <1>11 DEF RegistryInv, Good

LEMMA NextGood == RegistryInv /\ [Next]_vars => RegistryInv'
<1> SUFFICES ASSUME RegistryInv, [Next]_vars PROVE RegistryInv'
  OBVIOUS
<1>1. CASE UNCHANGED vars
  BY <1>1 DEF vars, RegistryInv
<1>2. ASSUME NEW t \in Threads, Step(t, Requests) PROVE RegistryInv'
  <2>1. ASSUME NEW n \in Requests, GetNewFrame(t, n) PROVE RegistryInv'
    BY <2>1, GetNewFrameStep
  <2>2. CASE AddRef(t)
    BY <2>2, AddRefStep
  <2>3. CASE ReleaseBuffer(t)
    BY <2>3, ReleaseBufferStep
  <2>4. CASE RegisterSubframe(t)
    BY <2>4, RegisterSubframeStep
  <2>5. CASE IsWritableBuffer(t)
    BY <2>5, IsWritableBufferStep
  <2>6. CASE StopWriting(t)
    BY <2>6, StopWritingStep
  <2>7. ASSUME NEW f \in Frames, NEW h \in Holders, Release(t, h, f) PROVE RegistryInv'
    BY <2>7, ReleaseStep
  <2>8. ASSUME NEW f \in Frames, NEW label \in {"subframe", "replace"}, NewSubframe(t, f, label)
        PROVE  RegistryInv'
    BY <2>8, NewSubframeStep
  <2>9. ASSUME NEW f \in Frames, NEW label \in {"check", "makewritable"}, IsWritable(t, f, label)
        PROVE  RegistryInv'
    BY <2>9, IsWritableStep
  <2>10. ASSUME NEW f \in Frames, SetProperty(t, f) PROVE RegistryInv'
    BY <2>10, SetPropertyStep
  <2>11. ASSUME NEW f \in Frames, NEW from \in Holders, NEW to \in Holders, CopyRef(t, from, to, f)
         PROVE  RegistryInv'
    BY <2>11, CopyRefStep
  <2> QED
    BY <1>2, <2>1, <2>2, <2>3, <2>4, <2>5, <2>6, <2>7, <2>8, <2>9, <2>10, <2>11 DEF Step
<1> QED
  BY <1>1, <1>2 DEF Next

LEMMA InvariantHolds == Spec => []RegistryInv
<1> QED
  BY InitGood, NextGood, PTL DEF Spec

\* The reference counts of frames and buffers (VideoFrame, VideoFrameBuffer)
\* are what the PVideoFrames and the decrements to come add up to, and whatever
\* is in use exists, in every interleaving of AddRef, Release, Subframe,
\* GetNewFrame and the steps of the registry.
THEOREM CountsAreRight == Spec => []RefCounts
<1>1. ASSUME RegistryInv PROVE RefCounts
  <2>1. Good(frames, bufs, refs, pc, writing)
    BY <1>1 DEF RegistryInv
  <2>2. Pending = PendingIn(pc)
    BY DEF Pending, PendingIn, Making
  <2>3. \A f \in Frames : frames[f].refcount = Cardinality({h \in Holders : f \in refs[h]})
    BY <2>1 DEF Good, CountsOK, HoldersOf
  <2>4. ASSUME NEW b \in Bufs
        PROVE  bufs[b].refcount =
                 Cardinality({f \in Frames : /\ frames[f].vfb = b
                                             /\ frames[f].refcount > 0 \/ f \in Pending})
                 + Cardinality({t \in Threads : pc[t].at = "release" /\ pc[t].src = b})
    <3>1. {f \in Frames : frames[f].vfb = b /\ (frames[f].refcount > 0 \/ f \in Pending)}
            = InUse(frames, pc, b)
      BY <2>2 DEF InUse
    <3>2. {t \in Threads : pc[t].at = "release" /\ pc[t].src = b} = Releasing(pc, b)
      BY DEF Releasing
    <3> QED
      BY <2>1, <3>1, <3>2, Zenon DEF Good, CountsOK
  <2>5. ASSUME NEW f \in Frames, f \in Pending \cup UNION {refs[h] : h \in Holders}
        PROVE  frames[f].alive /\ bufs[frames[f].vfb].alive
    <3>1. CASE f \in Pending
      <4>1. frames[f].alive
        BY <2>1, <2>2, <3>1 DEF PendingIn, Good, ThreadOK, FreshOK
      <4> QED
        BY <2>1, <4>1 DEF Good, LinksOK
    <3>2. CASE \E h \in Holders : f \in refs[h]
      BY <2>1, <3>2, Held
    <3> QED
      BY <2>5, <3>1, <3>2
  <2>6. ASSUME NEW t \in Threads, pc[t].at = "release" PROVE bufs[pc[t].src].alive
    <3>1. PICK b \in Bufs : b = pc[t].src
      BY <2>1, <2>6 DEF Good, ThreadOK, SourceOK
    <3>2. t \in Releasing(pc, b)
      BY <2>6, <3>1 DEF Releasing
    <3>3. bufs[b].refcount # 0
      BY <2>1, <3>2, FreeBuffer
    <3> QED
      BY <2>1, <3>1, <3>3 DEF Good, LinksOK
  <2> QED
    BY <2>3, <2>4, <2>5, <2>6 DEF RefCounts
<1> QED
  BY <1>1, InvariantHolds, PTL

\* A thread that IsWritable or MakeWritable has let write is alone with the
\* buffer, through whatever frame, and so is a frame fresh from GetNewFrame.
THEOREM WriterIsAlone == Spec => []ExclusiveWriter
<1>1. ASSUME RegistryInv PROVE ExclusiveWriter
  <2>1. Good(frames, bufs, refs, pc, writing)
    BY <1>1 DEF RegistryInv
  <2>2. ASSUME NEW t \in Threads, writing[t] # None
        PROVE  LET b == frames[writing[t]].vfb
               IN  /\ bufs[b].refcount > 0
                   /\ \A h \in Holders, f \in Frames :
                        f \in refs[h] /\ frames[f].vfb = b => h = t /\ f = writing[t]
    <3>1. PICK b \in Bufs : b = frames[writing[t]].vfb
      BY <2>1, <2>2, WriterAlone
    <3>2. InUse(frames, pc, b) = {writing[t]} /\ \A h \in Holders : writing[t] \in refs[h] => h = t
      BY <2>1, <2>2, <3>1, WriterAlone
    <3>3. bufs[b].refcount = 1
      BY <2>1, <2>2, <3>1 DEF Good, ThreadOK, WriterOK
    <3>4. ASSUME NEW h \in Holders, NEW f \in Frames, f \in refs[h], frames[f].vfb = b
          PROVE  h = t /\ f = writing[t]
      <4>1. frames[f].refcount > 0
        BY <2>1, <3>4, Held
      <4>2. f \in InUse(frames, pc, b)
        BY <3>4, <4>1 DEF InUse
      <4> QED
        BY <3>2, <3>4, <4>2
    <3> QED
      BY <3>1, <3>3, <3>4
  <2>3. ASSUME NEW t \in Threads, pc[t].at = "new"
        PROVE  LET f == pc[t].frame
               IN  /\ frames[f].props = "clear"
                   /\ bufs[frames[f].vfb].list = <<f>>
                   /\ \A g \in Frames : g # f => frames[g].vfb # frames[f].vfb
    BY <2>1, <2>3 DEF Good, ThreadOK, SoleOK
  <2> QED
    BY <2>2, <2>3 DEF ExclusiveWriter
<1> QED
  BY <1>1, InvariantHolds, PTL

-------------------------------------------------------------------------------
(* Properties of frames that somebody keeps                                *)

\* Whoever keeps a frame in this step finds the same properties in it.
StepKeeps ==
    \A h \in Holders : \A f \in refs[h] \cap refs'[h] : frames'[f].props = frames[f].props

\* Counting references leaves the properties alone.
LEMMA CountKeeps ==
    ASSUME NEW fr \in [Frames -> FrameRecs], NEW f, NEW n, NEW g \in Frames
    PROVE  SetCount(fr, f, n)[g].props = fr[g].props
<1>1. PICK x \in FrameRecs : x = fr[g]
  OBVIOUS
<1>2. [x EXCEPT !.refcount = n].props = x.props
  BY DEF FrameRecs
<1>3. SetCount(fr, f, n)[g] \in {x, [x EXCEPT !.refcount = n]}
  BY <1>1 DEF SetCount
<1> QED
  BY <1>1, <1>2, <1>3

LEMMA AddRefKeeps ==
    ASSUME RegistryInv, NEW t \in Threads, AddRef(t)
    PROVE  StepKeeps
<1> DEFINE f == pc[t].frame
           src == pc[t].src
           fr == [frames EXCEPT ![f].refcount = @ + 1]
           fr2 == [fr EXCEPT ![f].props = fr[src].props]
<1>1. \/ frames' = fr
      \/ src # None /\ \E n : frames' = SetCount(fr2, src, n)
  BY DEF AddRef, DropRef, SetCount
<1>2. /\ frames \in [Frames -> FrameRecs] /\ f \in Frames /\ pc[t].at = "new"
      /\ src # None => src \in Frames
  <2>1. pc[t].at = "new" /\ t \in Holders
    BY DEF AddRef, Holders
  <2>2. refs[t] \subseteq Frames
    BY <2>1 DEF RegistryInv, Good, Typed
  <2> QED
    BY <2>1, <2>2 DEF RegistryInv, Good, Typed, ThreadOK, FreshOK, SourceOK, Making
<1>3. \A h \in Holders : f \notin refs[h]
  <2>1. f \in PendingIn(pc)
    BY <1>2 DEF PendingIn, Making
  <2> QED
    BY <2>1, Held DEF RegistryInv
<1>4. \A h \in Holders : refs[h] \subseteq Frames
  BY DEF RegistryInv, Good, Typed
<1>5. fr = SetCount(frames, f, frames[f].refcount + 1) /\ frames[f].refcount + 1 \in Nat
  BY <1>2 DEF SetCount, FrameRecs
<1> HIDE DEF fr
<1>6. fr \in [Frames -> FrameRecs] /\ \A g \in Frames : fr[g].props = frames[g].props
  <2>1. PICK n \in Nat : n = frames[f].refcount + 1
    BY <1>5
  <2>2. frames \in [Frames -> FrameRecs] /\ f \in Frames /\ fr = SetCount(frames, f, n)
    BY <1>2, <1>5, <2>1, Zenon
  <2>3. PICK k \in Frames : k = f
    BY <2>2
  <2>4. fr = SetCount(frames, k, n)
    BY <2>2, <2>3
  <2> QED
    BY <2>1, <2>2, <2>4, SetCountFacts DEF OnlyFrame
<1>7. ASSUME src # None
      PROVE  fr2 \in [Frames -> FrameRecs] /\ \A g \in Frames \ {f} : fr2[g] = fr[g]
  <2>1. fr[f] \in FrameRecs /\ fr[src].props \in {"clear", "set"}
    BY <1>2, <1>6, <1>7 DEF FrameRecs
  <2>2. fr2[f] \in FrameRecs
    BY <1>2, <1>6, <2>1 DEF FrameRecs
  <2> QED
    BY <1>6, <2>2
<1> HIDE DEF fr2
<1>8. \A g \in Frames \ {f} : frames'[g].props = frames[g].props
  <2>1. CASE frames' = fr
    BY <1>6, <2>1
  <2>2. ASSUME src # None, NEW n, frames' = SetCount(fr2, src, n)
        PROVE  \A g \in Frames \ {f} : frames'[g].props = frames[g].props
    <3>1. \A g \in Frames : frames'[g].props = fr2[g].props
      BY <1>7, <2>2, CountKeeps
    <3> QED
      BY <1>6, <1>7, <2>2, <3>1
  <2> QED
    BY <1>1, <2>1, <2>2
<1> QED
  BY <1>3, <1>4, <1>8 DEF StepKeeps

LEMMA RegisterSubframeKeeps ==
    ASSUME RegistryInv, NEW t \in Threads, RegisterSubframe(t)
    PROVE  StepKeeps
<1> DEFINE g == pc[t].frame
           src == pc[t].src
           dead == {f \in ToSet(bufs[frames[g].vfb].list) : frames[f].refcount = 0}
           fr0 == DeleteFrames(Memory, dead).frames
           fr == [fr0 EXCEPT ![g].refcount = @ + 1]
<1>1. frames' = fr \/ \E n : frames' = SetCount(fr, src, n)
  BY DEF RegisterSubframe, DropRef, SetCount
<1>2. /\ frames \in [Frames -> FrameRecs] /\ \A h \in Holders : refs[h] \subseteq Frames
      /\ \A f \in dead : frames[f].refcount = 0
  BY DEF RegistryInv, Good, Typed
<1>3. fr0 = Without(frames, dead)
  <2>1. IsMem(Memory) /\ Memory.frames = frames
    BY DEF Memory, IsMem, MemFields
  <2> QED
    BY <2>1, DeleteFramesFields
<1> HIDE DEF dead, fr0
<1>4. fr0 \in [Frames -> FrameRecs] /\ \A f \in Frames \ dead : fr0[f] = frames[f]
  <2>1. NoFrame \in FrameRecs
    BY DEF NoFrame, FrameRecs
  <2> QED
    BY <1>2, <1>3, <2>1 DEF Without
<1>5. fr = SetCount(fr0, g, fr0[g].refcount + 1) /\ g \in Frames /\ fr0[g].refcount + 1 \in Nat
  <2>1. g \in Frames
    BY DEF RegisterSubframe, RegistryInv, Good, ThreadOK, FreshOK, Making
  <2> QED
    BY <1>4, <2>1 DEF SetCount, FrameRecs
<1> HIDE DEF fr
<1>6. fr \in [Frames -> FrameRecs] /\ \A f \in Frames : fr[f].props = fr0[f].props
  <2>1. PICK n \in Nat : n = fr0[g].refcount + 1
    BY <1>5
  <2> QED
    BY <1>4, <1>5, <2>1, SetCountFacts, SMTT(30) DEF OnlyFrame
<1>7. \A f \in Frames : frames'[f].props = fr0[f].props
  BY <1>1, <1>6, CountKeeps
<1>8. \A h \in Holders : \A f \in refs[h] : f \in Frames /\ f \notin dead
  BY <1>2, Held DEF RegistryInv
<1> QED
  BY <1>4, <1>7, <1>8 DEF StepKeeps

LEMMA GetNewFrameKeeps ==
    ASSUME RegistryInv, NEW t \in Threads, NEW n \in Requests, GetNewFrame(t, n)
    PROVE  StepKeeps
<1>1. PICK m, r : /\ m.frames = frames /\ m.cached = refs[Cache] /\ Kept(m, r.m, refs)
                  /\ frames' = r.m.frames /\ refs' = [refs EXCEPT ![Cache] = r.m.cached]
  BY Asked
<1>2. refs \in [Holders -> SUBSET Frames] /\ Cache \in Holders
  BY DEF RegistryInv, Good, Typed, Holders
<1>3. \A h \in Holders : refs'[h] \subseteq HeldIn(r.m, refs)
  BY <1>1, <1>2 DEF HeldIn, Holders
<1> QED
  BY <1>1, <1>3 DEF StepKeeps, Kept

LEMMA NextKeeps ==
    ASSUME RegistryInv, [Next]_vars
    PROVE  \/ StepKeeps
           \/ \E t \in Threads, f \in Frames : SetProperty(t, f)
<1>1. frames \in [Frames -> FrameRecs] /\ \A h \in Holders : refs[h] \subseteq Frames
  BY DEF RegistryInv, Good, Typed
<1>2. ASSUME frames' = frames PROVE StepKeeps
  BY <1>2 DEF StepKeeps
<1>3. ASSUME NEW t \in Threads, Step(t, Requests)
      PROVE  StepKeeps \/ \E f \in Frames : SetProperty(t, f)
  <2>1. ASSUME NEW n \in Requests, GetNewFrame(t, n) PROVE StepKeeps
    BY <2>1, GetNewFrameKeeps
  <2>2. CASE AddRef(t)
    BY <2>2, AddRefKeeps
  <2>3. CASE RegisterSubframe(t)
    BY <2>3, RegisterSubframeKeeps
  <2>4. CASE ReleaseBuffer(t) \/ IsWritableBuffer(t) \/ StopWriting(t)
    <3>1. frames' = frames
      BY <2>4 DEF ReleaseBuffer, IsWritableBuffer, StopWriting
    <3> QED
      BY <1>2, <3>1
  <2>5. ASSUME NEW f \in Frames, NEW h \in Holders, Release(t, h, f) PROVE StepKeeps
    <3>1. \E n : frames' = SetCount(frames, f, n)
      BY <2>5 DEF Release, DropRef, SetCount
    <3> QED
      BY <1>1, <3>1, CountKeeps DEF StepKeeps
  <2>6. ASSUME NEW f \in Frames, NEW label \in {"subframe", "replace"}, NewSubframe(t, f, label)
        PROVE  StepKeeps
    <3>1. PICK g : g = Min(Unused(frames, Frames))
      OBVIOUS
    <3>2. \A k \in Frames : k # g => frames'[k] = frames[k]
      BY <1>1, <2>6, <3>1 DEF NewSubframe
    <3>3. ~frames[g].alive
      <4>1. Frames \in SUBSET Nat
        BY RegistryAssumption DEF Frames
      <4>2. Unused(frames, Frames) # {}
        BY <2>6 DEF NewSubframe
      <4> QED
        BY <3>1, <4>1, <4>2, LeastUnused
    <3>4. \A h \in Holders : \A k \in refs[h] : k \in Frames /\ k # g
      BY <1>1, <3>3, Held DEF RegistryInv
    <3> QED
      BY <3>2, <3>4 DEF StepKeeps
  <2>7. ASSUME NEW f \in Frames, NEW label \in {"check", "makewritable"}, IsWritable(t, f, label)
        PROVE  StepKeeps
    <3>1. frames' = frames
      BY <2>7 DEF IsWritable
    <3> QED
      BY <1>2, <3>1
  <2>8. ASSUME NEW f \in Frames, NEW from \in Holders, NEW to \in Holders, CopyRef(t, from, to, f)
        PROVE  StepKeeps
    <3>1. \E n : frames' = SetCount(frames, f, n)
      BY <2>8 DEF CopyRef, SetCount
    <3> QED
      BY <1>1, <3>1, CountKeeps DEF StepKeeps
  <2> QED
    BY <1>3, <2>1, <2>2, <2>3, <2>4, <2>5, <2>6, <2>7, <2>8 DEF Step
<1> QED
  BY <1>2, <1>3 DEF Next, vars

\* Frame properties that somebody else can see do not change: neither what the
\* registry recycles or deletes nor a subframe nor a copy touches them, and
\* only the one holder of a frame sets them.
THEOREM PropertiesKeep == Spec => PropertiesAreStable
<1>1. RegistryInv /\ [Next]_vars
        => [\A h \in Holders : \A f \in refs[h] \cap refs'[h] :
              frames'[f].props # frames[f].props
                => \A g \in Holders : f \in refs[g] => g = h]_vars
  <2> SUFFICES ASSUME RegistryInv, [Next]_vars, NEW h \in Holders, NEW f \in refs[h] \cap refs'[h],
                      frames'[f].props # frames[f].props, NEW g \in Holders, f \in refs[g]
               PROVE  g = h
    BY Zenon
  <2>1. PICK t \in Threads, k \in Frames : SetProperty(t, k)
    BY NextKeeps DEF StepKeeps
  <2>2. frames \in [Frames -> FrameRecs]
    BY DEF RegistryInv, Good, Typed
  <2>3. f = k
    BY <2>1, <2>2 DEF SetProperty
  <2>4. frames[f].refcount = 1
    BY <2>1, <2>3 DEF SetProperty
  <2> QED
    BY <2>4, Held DEF RegistryInv
<1> QED
  BY <1>1, InvariantHolds, PTL DEF Spec, PropertiesAreStable

===============================================================================
