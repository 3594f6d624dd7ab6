------------------------------ MODULE EditManual ------------------------------
(***************************************************************************)
(* What the manual (corefilters/*.rst, filters_mult_input_clips.rst) says  *)
(* of the editing filters, on the sequences of frames and samples that a   *)
(* clip consists of.  It knows nothing of filter objects, offsets and      *)
(* requests: Edit.tla has those.                                           *)
(***************************************************************************)
EXTENDS Integers, Sequences, SequencesExt

\* Frame and sample n of the source are <<n>>.
Silence == <<>>
Blank   == <<-1>>   \* a frame of the colour that a fade ends in
Unsaid  == <<-2>>   \* a frame that the manual says nothing about

\* k parts of b and the rest of a.
Blend(a, b, k, parts) == IF a = b THEN a ELSE <<a, b, k, parts>>

\* A sequence of frames, a sequence of samples and the samples per frame.
Shown(frames, audio, spf) == [frames |-> frames, audio |-> audio, spf |-> spf]

FramesOf(s) == Len(s.frames)

\* The number of samples that go with a number of frames.
At(s, frames) == (frames * s.spf[1]) \div s.spf[2]

Larger(a, b) == IF a > b THEN a ELSE b
Least(a, b)  == IF a < b THEN a ELSE b

\* Sample p, counted from 0, and count samples from sample p on: there is
\* silence before and after the sound.
SampleAt(s, p) == IF p + 1 \in DOMAIN s.audio THEN s.audio[p + 1] ELSE Silence
Sound(s, p, count) == [i \in 1 .. count |-> SampleAt(s, p + i - 1)]

\* The frames with the given indices, in their order.
Picked(s, Test(_)) ==
    LET indices == SelectSeq([i \in 1 .. FramesOf(s) |-> i], Test)
    IN  [i \in DOMAIN indices |-> s.frames[indices[i]]]

\* Trim: frames first .. end - 1 with their sound, filled up with silence if
\* that is asked for.  Without a last frame the sound runs on to its end.
Trimmed(s, first, end, pad, open) ==
    Shown(SubSeq(s.frames, first + 1, end),
          IF pad THEN Sound(s, At(s, first), At(s, end) - At(s, first))
          ELSE SubSeq(s.audio, At(s, first) + 1,
                      IF open THEN Len(s.audio) ELSE Least(At(s, end), Len(s.audio))),
          s.spf)

\* FreezeFrame: frames first .. last are the source frame.
Frozen(s, first, last, source) ==
    [s EXCEPT !.frames = [i \in DOMAIN @ |-> IF i - 1 \in first .. last THEN @[source + 1] ELSE @[i]]]

\* DeleteFrame: all the frames but the given ones.
Deleted(s, args) == [s EXCEPT !.frames = Picked(s, LAMBDA i : i - 1 \notin ToSet(args))]

\* DuplicateFrame: a frame once more for each time that it is given.
Duplicated(s, args) ==
    LET times(i) == 1 + Len(SelectSeq(args, LAMBDA f : f = i - 1))
    IN  [s EXCEPT !.frames = FlattenSeq([i \in DOMAIN @ |-> [k \in 1 .. times(i) |-> s.frames[i]]])]

\* AlignedSplice keeps the second sound in step with its video.
Spliced(s, t, aligned) ==
    [s EXCEPT !.frames = @ \o t.frames,
              !.audio = (IF aligned THEN Sound(s, 0, At(s, FramesOf(s))) ELSE @) \o t.audio]

\* Dissolve: the last frames of the one are blended progressively with the
\* first ones of the other, and so are the samples.
Dissolved(s, t, overlap) ==
    LET start == FramesOf(s) - overlap
        audio_start == At(s, start)
        last == At(s, FramesOf(s)) - 1
        blended(f, g, k) == IF Unsaid \in {f, g} THEN Unsaid ELSE Blend(f, g, k, overlap + 1)
        frame(n) ==
            IF n < start THEN s.frames[n + 1]
            ELSE IF n >= FramesOf(s) THEN t.frames[n - start + 1]
            ELSE blended(s.frames[n + 1], t.frames[n - start + 1], n - start + 1)
        sample(p) ==
            IF p <= audio_start /\ p < last THEN SampleAt(s, p)
            ELSE IF p >= last THEN SampleAt(t, p - audio_start)
            ELSE Blend(SampleAt(t, p - audio_start), SampleAt(s, p), last - p, last - audio_start)
    IN  Shown([i \in 1 .. start + FramesOf(t) |-> frame(i - 1)],
              [i \in 1 .. audio_start + Len(t.audio) |-> sample(i - 1)], s.spf)

\* The picture and the silence that fades begin and end with.
Blanked(s, frames) ==
    Shown([i \in 1 .. frames |-> Blank], [i \in 1 .. At(s, frames) |-> Silence], s.spf)

\* AudioDub: the video of the one and the sound of the other.
Dubbed(s, t) == [s EXCEPT !.audio = t.audio]

Reversed(s) == [s EXCEPT !.frames = Reverse(@), !.audio = Reverse(@)]

\* The range that begins at `from', a number of times instead of once.
Repeated(seq, from, count, times) ==
    SubSeq(seq, 1, from) \o FlattenSeq([k \in 1 .. times |-> SubSeq(seq, from + 1, from + count)])
      \o SubSeq(seq, from + count + 1, Len(seq))

\* Loop: the frames first .. last a number of times, with their sound, which is
\* longer afterwards by what was repeated.
Looped(s, times, first, last) ==
    LET count == last - first + 1
        full == Sound(s, 0, Larger(At(s, FramesOf(s)), Len(s.audio)))
    IN  [s EXCEPT !.frames = Repeated(@, first, count, times),
                  !.audio = SubSeq(Repeated(full, At(s, first), At(s, count), times),
                                   1, Len(@) + (times - 1) * At(s, count))]

\* The same without an end: so many frames of it.
LoopedForever(s, first, last, frames) ==
    LET count == last - first + 1
        turn(i, from, size) == IF i < from THEN i ELSE from + ((i - from) % size)
    IN  Shown([i \in 1 .. frames |-> s.frames[turn(i - 1, first, count) + 1]],
              [i \in 1 .. At(s, frames + 1) |-> SampleAt(s, turn(i - 1, At(s, first), At(s, count)))],
              s.spf)

\* SelectEvery: of every `every' frames those at the offsets.  Where a step
\* reaches beyond the end, some frame takes the place up to the last one that
\* is selected.
Selected(s, every, offsets) ==
    LET num == Len(offsets)
        source(i) == ((i - 1) \div num) * every + offsets[((i - 1) % num) + 1]
        chosen == {i \in 1 .. FramesOf(s) * num : source(i) < FramesOf(s)}
        size == CHOOSE i \in chosen : \A j \in chosen : j <= i
    IN  Shown([i \in 1 .. size |-> IF i \in chosen THEN s.frames[source(i) + 1] ELSE Unsaid],
              s.audio, <<s.spf[1] * every, s.spf[2] * num>>)

\* Interleave: the frames of both in turns, with the first one's sound; twice as
\* many as the longer one has, and the last one of the shorter is repeated
\* (filters_mult_input_clips.rst).
Alternated(s, t) ==
    LET of(i) == IF i % 2 = 1 THEN s.frames ELSE t.frames
    IN  Shown([i \in 1 .. 2 * Larger(FramesOf(s), FramesOf(t)) |->
                 of(i)[Least((i + 1) \div 2, Len(of(i)))]],
              s.audio, <<s.spf[1], s.spf[2] * 2>>)

\* SelectRangeEvery: from the offset on, the first `length' of every `every'
\* frames, with their sound or with all of it.
RangesOf(s, every, length, offset, audio) ==
    LET in(i) == i > offset /\ (i - 1 - offset) % every < length
        indices == SelectSeq([i \in 1 .. FramesOf(s) |-> i], in)
    IN  [s EXCEPT !.frames = Picked(s, in),
                  !.audio = IF audio THEN FlattenSeq([i \in DOMAIN indices |->
                                                        Sound(s, At(s, indices[i] - 1), At(s, 1))])
                            ELSE @]
===============================================================================
