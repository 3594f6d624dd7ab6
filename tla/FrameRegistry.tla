----------------------------- MODULE FrameRegistry ----------------------------
(***************************************************************************)
(* Video frames and their buffers: the reference counts of VideoFrame and  *)
(* VideoFrameBuffer, and FrameRegistry2, from which GetNewFrame recycles   *)
(* them.                                                                   *)
(*                                                                         *)
(* memory_mutex makes every registry operation one action.  The counts     *)
(* themselves are changed without it: a Release is two decrements, a new   *)
(* frame is handed out with a count of zero and referenced afterwards, a   *)
(* subframe is built before it is registered, and IsWritable reads two     *)
(* counts one after the other.  Other threads may run in between.          *)
(*                                                                         *)
(* Frame and buffer objects are numbered; the allocator takes the smallest *)
(* free number and fails when there is none.  One device is modelled, and  *)
(* the caches are one holder that keeps a reference to a set of frames.    *)
(***************************************************************************)
EXTENDS Naturals, Sequences, FiniteSets, SequencesExt, FiniteSetsExt, Lists

CONSTANTS
    Threads,
    MaxFrames,    \* bound: VideoFrame objects that exist at once
    MaxBufs,      \* bound: VideoFrameBuffer objects that exist at once
    Requests,     \* buffer sizes that filters ask for
    memory_max,   \* Device::memory_max
    free_thresh,  \* Device::free_thresh
    Cache         \* the holder that stands for all frame caches

ASSUME RegistryAssumption ==
    /\ MaxFrames \in Nat /\ MaxBufs \in Nat
    /\ Requests \subseteq Nat
    /\ memory_max \in Nat /\ free_thresh \in Nat
    /\ IsFiniteSet(Threads) /\ Cache \notin Threads

VARIABLES
    frames,   \* the VideoFrame objects
    bufs,     \* the VFBStorage objects with their lists in FrameRegistry2
    used,     \* Device::memory_used
    refs,     \* the PVideoFrames of each thread and of the caches
    pc,       \* the operation that each thread is in the middle of
    writing   \* the frame each thread has permission to write, or None

vars == <<frames, bufs, used, refs, pc, writing>>

None    == 0
Frames  == 1..MaxFrames
Bufs    == 1..MaxBufs
Holders == Threads \cup {Cache}

NoFrame == [alive |-> FALSE, refcount |-> 0, vfb |-> None, props |-> "clear"]
NoBuf   == [alive |-> FALSE, refcount |-> 0, size |-> 0, free_count |-> 0,
            list |-> <<>>]

Idle == [at |-> "idle", frame |-> None, src |-> None]

-------------------------------------------------------------------------------
(* Operations on the objects: m is a record with the fields frames, bufs,  *)
(* used and cached, the last one being the frames that caches refer to.    *)

Unused(objects, Ids) == {i \in Ids : ~objects[i].alive}

\* delete of VideoFrame objects; the destructor's own Release takes the count
\* of a frame without references below zero and leaves the buffer alone.
DeleteFrames(m, S) ==
    [m EXCEPT !.frames = [f \in Frames |-> IF f \in S THEN NoFrame ELSE @[f]]]

\* Small requests are rounded up so that small buffers can be shared.
RoundUp(n) ==
    CASE n < 64   -> 64
      [] n >= 64 /\ n < 256 -> 256
      [] n >= 256 /\ n < 512 -> 512
      [] n >= 512 /\ n < 1024 -> 1024
      [] n >= 1024 /\ n < 2048 -> 2048
      [] n >= 2048 /\ n < 4096 -> 4096
      [] OTHER -> n

\* Buffers that may serve a request for n bytes: free, and at most half as
\* large again.  The registry is searched by increasing size.
Candidates(m, n) ==
    LET free == {b \in Bufs : /\ m.bufs[b].alive /\ m.bufs[b].refcount = 0
                              /\ m.bufs[b].size >= n
                              /\ m.bufs[b].size <= (n * 3) \div 2}
    IN  {b \in free : \A c \in free : m.bufs[b].size <= m.bufs[c].size}

\* Mutant: the deleted frames stay in the list.
GetFrameKeepsList(m, b) ==
    LET found == Head(m.bufs[b].list)
        d == DeleteFrames(m, ToSet(m.bufs[b].list) \ {found})
        taken == [m.bufs[b] EXCEPT !.refcount = @ + 1, !.free_count = 0]
    IN  [m |-> [d EXCEPT !.bufs[b] = taken, !.frames[found].props = "clear"],
         frame |-> found]

\* GetFrameFromRegistry: keep the first frame of the buffer's list, delete the
\* others.  The result has no properties and no references yet.
GetFrameFromRegistry(m, b) ==
    LET found == Head(m.bufs[b].list)
        d == DeleteFrames(m, ToSet(m.bufs[b].list) \ {found})
        taken == [m.bufs[b] EXCEPT !.refcount = @ + 1, !.free_count = 0, !.list = <<found>>]
    IN  [m |-> [d EXCEPT !.bufs[b] = taken, !.frames[found].props = "clear"],
         frame |-> found]

CanAllocate(m) == Unused(m.bufs, Bufs) # {} /\ Unused(m.frames, Frames) # {}

\* AllocateFrame: a buffer, and a frame that counts as one use of it.
AllocateFrame(m, n) ==
    LET b == Min(Unused(m.bufs, Bufs))
        f == Min(Unused(m.frames, Frames))
    IN  [m |-> [m EXCEPT !.bufs[b] = [alive |-> TRUE, refcount |-> 1, size |-> n,
                                      free_count |-> 0, list |-> <<f>>],
                         !.frames[f] = [alive |-> TRUE, refcount |-> 0, vfb |-> b,
                                        props |-> "clear"],
                         !.used = @ + n],
         frame |-> f]

\* Remove the buffers of S with all of their frames.
Discard(m, S) ==
    LET d == DeleteFrames(m, UNION {ToSet(m.bufs[b].list) : b \in S})
    IN  [d EXCEPT !.bufs = [b \in Bufs |-> IF b \in S THEN NoBuf ELSE @[b]],
                  !.used = @ - SumFunctionOnSet([b \in Bufs |-> m.bufs[b].size], S)]

\* The caches give up their references to the frames of S.
CachesDrop(m, S) ==
    LET fr == [f \in Frames |-> IF f \in S THEN [m.frames[f] EXCEPT !.refcount = @ - 1]
                                ELSE m.frames[f]]
        Gone(b) == {f \in S : fr[f].refcount = 0 /\ fr[f].vfb = b}
        bf == [b \in Bufs |-> [m.bufs[b] EXCEPT !.refcount = @ - Cardinality(Gone(b))]]
    IN  [m EXCEPT !.frames = fr, !.bufs = bf, !.cached = @ \ S]

\* Buffers that no frame in use refers to.
FreeBufs(m) == {b \in Bufs : m.bufs[b].alive /\ m.bufs[b].refcount = 0}

\* ShrinkCache when some cache has an entry: it is shrunk, which evicts the
\* frames of S, and buffers that have been free for too long are discarded.
ShrinkCache(m, S) ==
    LET d == CachesDrop(m, S)
        old == {b \in FreeBufs(d) : d.bufs[b].free_count >= free_thresh}
        bf == [b \in Bufs |-> IF b \in FreeBufs(d) THEN [d.bufs[b] EXCEPT !.free_count = @ + 1]
                              ELSE d.bufs[b]]
    IN  Discard([d EXCEPT !.bufs = bf], old)

\* Which frames go depends on the caches: entries in use stay, and those of the
\* newest cache and of prefetchers, which ShrinkCache does not walk over.  If no
\* other cache has an entry nothing happens; an entry that is being filled has
\* no frame yet, but counts.
Shrunk(m) == {m} \cup {ShrinkCache(m, S) : S \in SUBSET m.cached}

\* The last resort of GetNewFrame: discard every free buffer that is not
\* larger than the request.
CollectGarbage(m, n) == Discard(m, {b \in FreeBufs(m) : m.bufs[b].size <= n})

BelowLimit(m, n) == 100 * (m.used + n) < 85 * memory_max

\* What GetNewFrame tries, in this order, once the registry and the limit have
\* failed it: results are the possible outcomes, none when it throws.
AfterShrink(m, n) ==
    IF Candidates(m, n) # {}
    THEN {GetFrameFromRegistry(m, b) : b \in Candidates(m, n)}
    ELSE IF CanAllocate(m) THEN {AllocateFrame(m, n)}
    ELSE LET c == CollectGarbage(m, n)
         IN  IF CanAllocate(c) THEN {AllocateFrame(c, n)}
             ELSE {[m |-> c, frame |-> None]}

\* The outcomes of GetNewFrame, with the frame that it returns or None.
NewFrames(m, n) ==
    IF Candidates(m, n) # {}
    THEN {GetFrameFromRegistry(m, b) : b \in Candidates(m, n)}
    ELSE IF BelowLimit(m, n) /\ CanAllocate(m) THEN {AllocateFrame(m, n)}
    ELSE UNION {AfterShrink(c, n) : c \in Shrunk(m)}

-------------------------------------------------------------------------------
Init ==
    /\ frames = [f \in Frames |-> NoFrame]
    /\ bufs = [b \in Bufs |-> NoBuf]
    /\ used = 0
    /\ refs = [h \in Holders |-> {}]
    /\ pc = [t \in Threads |-> Idle]
    /\ writing = [t \in Threads |-> None]

Memory == [frames |-> frames, bufs |-> bufs, used |-> used, cached |-> refs[Cache]]

Goto(t, label, f, src) == pc' = [pc EXCEPT ![t] = [at |-> label, frame |-> f, src |-> src]]

\* GetNewFrame, for a filter (src is None) or for MakeWritable.
GetNewFrame(t, n) ==
    /\ pc[t].at \in {"idle", "copy"}
    /\ \E r \in NewFrames(Memory, RoundUp(n)) :
         /\ frames' = r.m.frames
         /\ bufs' = r.m.bufs
         /\ used' = r.m.used
         /\ refs' = [refs EXCEPT ![Cache] = r.m.cached]
         /\ IF r.frame = None THEN Goto(t, "idle", None, None)
            ELSE Goto(t, "new", r.frame, pc[t].src)
    /\ UNCHANGED writing

\* One reference of holder h to f goes away; the thread whose decrement reaches
\* zero still has to give back the buffer.
DropRef(t, h, f, fr, rf) ==
    /\ frames' = [fr EXCEPT ![f].refcount = @ - 1]
    /\ refs' = [rf EXCEPT ![h] = @ \ {f}]
    /\ IF fr[f].refcount = 1 THEN Goto(t, "release", f, fr[f].vfb)
       ELSE Goto(t, "idle", None, None)

\* The caller of GetNewFrame wraps the frame in a PVideoFrame.  MakeWritable
\* has copied the pixels and the properties and drops its old frame.
AddRef(t) ==
    LET f == pc[t].frame
        src == pc[t].src
        fr == [frames EXCEPT ![f].refcount = @ + 1]
        rf == [refs EXCEPT ![t] = @ \cup {f}]
    IN  /\ pc[t].at = "new"
        /\ \/ /\ src = None
              /\ frames' = fr
              /\ refs' = rf
              /\ Goto(t, "idle", None, None)
           \/ /\ src # None
              /\ DropRef(t, t, src, [fr EXCEPT ![f].props = fr[src].props], rf)
        /\ UNCHANGED <<bufs, used, writing>>

\* VideoFrame::Release, first decrement, on behalf of the thread itself or of
\* a cache that the thread makes evict a frame.
Release(t, h, f) ==
    /\ pc[t] = Idle
    /\ h \in {t, Cache}
    /\ f \in refs[h]
    /\ h = t => writing[t] # f
    /\ DropRef(t, h, f, frames, refs)
    /\ UNCHANGED <<bufs, used, writing>>

\* Mutant: the buffer is read from the frame after the first decrement, when
\* the frame may have been deleted and its memory may be another frame.
ReleaseBufferLate(t) ==
    /\ pc[t].at = "release"
    /\ bufs' = [b \in Bufs |-> IF b = frames[pc[t].frame].vfb
                               THEN [bufs[b] EXCEPT !.refcount = @ - 1] ELSE bufs[b]]
    /\ Goto(t, "idle", None, None)
    /\ UNCHANGED <<frames, used, refs, writing>>

\* VideoFrame::Release, second decrement, through the pointer that was read
\* before the first one.
ReleaseBuffer(t) ==
    /\ pc[t].at = "release"
    /\ bufs' = [bufs EXCEPT ![pc[t].src].refcount = @ - 1]
    /\ Goto(t, "idle", None, None)
    /\ UNCHANGED <<frames, used, refs, writing>>

\* VideoFrame::Subframe: a second frame on the buffer of f, with a copy of its
\* properties.  label says whether ScriptEnvironment::Subframe called it or
\* MakePropertyWritable, which does so for shared frames only.
NewSubframe(t, f, label) ==
    /\ pc[t] = Idle
    /\ f \in refs[t]
    /\ writing[t] # f
    /\ label = "replace" => frames[f].refcount # 1
    /\ Unused(frames, Frames) # {}
    /\ LET g == Min(Unused(frames, Frames))
           b == frames[f].vfb
       IN  /\ frames' = [frames EXCEPT ![g] = [alive |-> TRUE, refcount |-> 0, vfb |-> b,
                                               props |-> frames[f].props]]
           /\ bufs' = [bufs EXCEPT ![b].refcount = @ + 1]
           /\ Goto(t, label, g, f)
    /\ UNCHANGED <<used, refs, writing>>

\* RegisterSubFrameInRegistry purges the buffer's list of frames without
\* references and appends the new one, which gets its first reference before
\* memory_mutex is released.  MakePropertyWritable then drops its old frame.
RegisterSubframe(t) ==
    LET g == pc[t].frame
        src == pc[t].src
        b == frames[g].vfb
        dead == {f \in ToSet(bufs[b].list) : frames[f].refcount = 0}
        fr == [DeleteFrames(Memory, dead).frames EXCEPT ![g].refcount = @ + 1]
        rf == [refs EXCEPT ![t] = @ \cup {g}]
    IN  /\ pc[t].at \in {"subframe", "replace"}
        /\ bufs' = [bufs EXCEPT ![b].list = Append(Drop(@, dead), g)]
        /\ \/ /\ pc[t].at = "subframe"
              /\ frames' = fr
              /\ refs' = rf
              /\ Goto(t, "idle", None, None)
           \/ /\ pc[t].at = "replace"
              /\ DropRef(t, t, src, fr, rf)
        /\ UNCHANGED <<used, writing>>

\* IsWritable, for GetWritePtr (label "check") or for MakeWritable (label
\* "makewritable"): the frame's own count is read first.
IsWritable(t, f, label) ==
    /\ pc[t] = Idle
    /\ f \in refs[t]
    /\ writing[t] = None
    /\ IF frames[f].refcount = 1 THEN Goto(t, label, f, None)
       ELSE /\ label = "makewritable"
            /\ Goto(t, "copy", None, f)
    /\ UNCHANGED <<frames, bufs, used, refs, writing>>

\* Mutant: the count of the buffer is not looked at.
IsWritableAnyway(t) ==
    /\ pc[t].at \in {"check", "makewritable"}
    /\ writing' = [writing EXCEPT ![t] = pc[t].frame]
    /\ Goto(t, "idle", None, None)
    /\ UNCHANGED <<frames, bufs, used, refs>>

\* IsWritable reads the count of the buffer and answers.
IsWritableBuffer(t) ==
    LET f == pc[t].frame
    IN  /\ pc[t].at \in {"check", "makewritable"}
        /\ \/ /\ bufs[frames[f].vfb].refcount = 1
              /\ writing' = [writing EXCEPT ![t] = f]
              /\ Goto(t, "idle", None, None)
           \/ /\ bufs[frames[f].vfb].refcount # 1
              /\ IF pc[t].at = "check" THEN Goto(t, "idle", None, None)
                 ELSE Goto(t, "copy", None, f)
              /\ UNCHANGED writing
        /\ UNCHANGED <<frames, bufs, used, refs>>

\* A filter that has write access is done with the frame's pixels.
StopWriting(t) ==
    /\ pc[t] = Idle
    /\ writing[t] # None
    /\ writing' = [writing EXCEPT ![t] = None]
    /\ UNCHANGED <<frames, bufs, used, refs, pc>>

\* Mutant: the filter does not ask whether it may.
SetPropertyShared(t, f) ==
    /\ pc[t] = Idle
    /\ f \in refs[t]
    /\ frames' = [frames EXCEPT ![f].props = "set"]
    /\ UNCHANGED <<bufs, used, refs, pc, writing>>

\* A filter sets a frame property after it has made sure that it may.
SetProperty(t, f) ==
    /\ pc[t] = Idle
    /\ f \in refs[t]
    /\ frames[f].refcount = 1
    /\ frames' = [frames EXCEPT ![f].props = "set"]
    /\ UNCHANGED <<bufs, used, refs, pc, writing>>

\* A PVideoFrame is copied: into a cache, or out of one.
CopyRef(t, from, to, f) ==
    /\ pc[t] = Idle
    /\ <<from, to>> \in {<<t, Cache>>, <<Cache, t>>}
    /\ f \in refs[from] \ refs[to]
    /\ writing[t] # f
    /\ frames' = [frames EXCEPT ![f].refcount = @ + 1]
    /\ refs' = [refs EXCEPT ![to] = @ \cup {f}]
    /\ UNCHANGED <<bufs, used, pc, writing>>

\* A step of thread t, whose filters ask for buffers of the given sizes.
Step(t, sizes) ==
    \/ \E n \in sizes : GetNewFrame(t, n)
    \/ AddRef(t) \/ ReleaseBuffer(t) \/ RegisterSubframe(t)
    \/ IsWritableBuffer(t) \/ StopWriting(t)
    \/ \E f \in Frames :
         \/ \E h \in Holders : Release(t, h, f)
         \/ \E label \in {"subframe", "replace"} : NewSubframe(t, f, label)
         \/ \E label \in {"check", "makewritable"} : IsWritable(t, f, label)
         \/ SetProperty(t, f)
         \/ \E from, to \in Holders : CopyRef(t, from, to, f)

Next == \E t \in Threads : Step(t, Requests)

Spec == Init /\ [][Next]_vars

-------------------------------------------------------------------------------
(* Properties                                                              *)

Labels == {"idle", "new", "release", "subframe", "replace", "check",
           "makewritable", "copy"}

\* The shape of the state; counts never go below zero.
TypeOK ==
    /\ frames \in [Frames -> [alive : BOOLEAN, refcount : Nat, vfb : Bufs \cup {None},
                              props : {"clear", "set"}]]
    /\ bufs \in [Bufs -> [alive : BOOLEAN, refcount : Nat, size : Nat,
                          free_count : Nat, list : Seq(Frames)]]
    /\ used \in Nat
    /\ refs \in [Holders -> SUBSET Frames]
    /\ pc \in [Threads -> [at : Labels, frame : Frames \cup {None},
                           src : Frames \cup Bufs \cup {None}]]
    /\ writing \in [Threads -> Frames \cup {None}]

\* Frames that exist without a reference because an operation is under way.
Pending == {pc[t].frame : t \in {u \in Threads :
                                   pc[u].at \in {"new", "subframe", "replace"}}}

\* A frame's count is the number of PVideoFrames, and a buffer's count is the
\* number of frames in use plus the decrements that are still to come, in
\* every interleaving of AddRef, Release, Subframe and GetNewFrame.  Whatever
\* is in use exists: neither GetFrameFromRegistry, nor the purge of
\* RegisterSubFrameInRegistry, nor garbage collection deletes it, and no buffer
\* is deleted under a Release that is still going to decrement it.
RefCounts ==
    /\ \A f \in Frames :
         frames[f].refcount = Cardinality({h \in Holders : f \in refs[h]})
    /\ \A b \in Bufs :
         bufs[b].refcount =
             Cardinality({f \in Frames : /\ frames[f].vfb = b
                                         /\ frames[f].refcount > 0 \/ f \in Pending})
             + Cardinality({t \in Threads : pc[t].at = "release" /\ pc[t].src = b})
    /\ \A f \in Frames : f \in Pending \cup UNION {refs[h] : h \in Holders}
         => frames[f].alive /\ bufs[frames[f].vfb].alive
    /\ \A t \in Threads : pc[t].at = "release" => bufs[pc[t].src].alive

\* While a thread writes to a frame nobody else can reach its buffer, through
\* that frame or through any subframe of it, and it is not on offer.  The same
\* holds of a frame fresh from GetNewFrame, which brings neither properties nor
\* subframes of an earlier life.
ExclusiveWriter ==
    /\ \A t \in Threads : writing[t] # None =>
          LET b == frames[writing[t]].vfb
          IN  /\ bufs[b].refcount > 0
              /\ \A h \in Holders, f \in Frames :
                   f \in refs[h] /\ frames[f].vfb = b => h = t /\ f = writing[t]
    /\ \A t \in Threads : pc[t].at = "new" =>
          LET f == pc[t].frame
          IN  /\ frames[f].props = "clear"
              /\ bufs[frames[f].vfb].list = <<f>>
              /\ \A g \in Frames : g # f => frames[g].vfb # frames[f].vfb

\* Every frame that exists is listed exactly once under its buffer, except a
\* subframe that is about to be registered: nothing leaks and nothing is
\* deleted twice.  memory_used is the size of the buffers that exist, so the
\* limit is neither exhausted by buffers long gone nor blind to any.
RegistryComplete ==
    /\ TypeOK
    /\ \A f \in Frames : frames[f].alive =>
          LET places == {p \in Bufs \X (1..MaxFrames) :
                           p[2] \in DOMAIN bufs[p[1]].list /\ bufs[p[1]].list[p[2]] = f}
              listed == ~ \E t \in Threads : pc[t].at \in {"subframe", "replace"}
                                             /\ pc[t].frame = f
          IN  IF listed THEN Cardinality(places) = 1 /\ (\A p \in places : p[1] = frames[f].vfb)
              ELSE places = {}
    /\ used = SumFunctionOnSet([b \in Bufs |-> bufs[b].size], {b \in Bufs : bufs[b].alive})

\* Nobody's frame properties change behind his back: they change only in a
\* step of the one thread that refers to the frame.
PropertiesAreStable ==
    [][\A h \in Holders : \A f \in refs[h] \cap refs'[h] :
         frames'[f].props # frames[f].props
           => \A g \in Holders : f \in refs[g] => g = h]_vars
===============================================================================
