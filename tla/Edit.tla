--------------------------------- MODULE Edit ---------------------------------
(***************************************************************************)
(* The editing filters: which frames and samples of the source a script of *)
(* Trim, Splice, Loop, SelectEvery and the like delivers.                  *)
(*                                                                         *)
(* A clip is a tree of filter objects over the source; its frames are      *)
(* those of the source, by number, and so are its samples.  Every object   *)
(* has the VideoInfo that its constructor computes.  Invoke puts a cache   *)
(* on every filter that does not refuse one, and the cache keeps requests  *)
(* within the clip.  The clips have video and sound, of one sample rate,   *)
(* and `shown' is what the manual says of the same script.                 *)
(***************************************************************************)
EXTENDS EditManual, FiniteSets

CONSTANTS
    SourceFrames,   \* length of the source
    SourceSamples,
    Spf,            \* samples per frame of the source: <<numerator, denominator>>
    Numbers,        \* frame numbers and counts that filters are called with
    MaxArgs,        \* bound: frames that DeleteFrame and DuplicateFrame are given
    MaxOffsets,     \* bound: offsets that SelectEvery is given
    MaxTimes,       \* bound: repetitions of a Loop
    Forever,        \* 10000000: the length of an endless Loop
    MaxEdits        \* bound: filters on each other

ASSUME EditAssumption ==
    /\ SourceFrames \in Nat \ {0} /\ SourceSamples \in Nat
    /\ Spf[1] \in Nat \ {0} /\ Spf[2] \in Nat \ {0}
    /\ Numbers \subseteq Int
    /\ MaxArgs \in Nat /\ MaxOffsets \in Nat /\ MaxTimes \in Nat /\ Forever \in Nat /\ MaxEdits \in Nat

VARIABLES
    clip,      \* what the script has made so far
    shown,     \* the same by the manual
    disputed,  \* the frames of an Interleave that the manual has and the code not
    edits

editVars == <<clip, shown, disputed, edits>>

-------------------------------------------------------------------------------
(* VideoInfo                                                               *)

Clamp(n, lo, hi) == IF n < lo THEN lo ELSE IF n > hi THEN hi ELSE n

\* Integer division of C rounds towards zero.
Quotient(a, b) == IF a >= 0 THEN a \div b ELSE -((-a) \div b)

AudioSamplesFromFrames(vi, frames) == Quotient(frames * vi.spf[1], vi.spf[2])

FramesFromAudioSamples(vi, samples) == Quotient(samples * vi.spf[2], vi.spf[1])

MulDivFPS(vi, multiplier, divisor) ==
    [vi EXCEPT !.spf = <<@[1] * divisor, @[2] * multiplier>>]

\* A filter object with its members and the VideoInfo of its clip.
Filter(kind, children, vi, members) ==
    [kind |-> kind, children |-> children, vi |-> vi, m |-> members]

\* CACHE_DONT_CACHE_ME.
RefusesCache(c) ==
    \/ c.kind \in {"Splice", "AudioDub", "SelectEvery", "Interleave", "SelectRangeEvery"}
    \/ c.kind = "Trim" /\ ~c.m.cache

\* What Invoke returns: the filter, with a cache unless it refuses one.
Invoked(c) == IF RefusesCache(c) THEN c ELSE Filter("Cache", <<c>>, c.vi, <<>>)

Source ==
    Invoked(Filter("Source", <<>>, [frames |-> SourceFrames, samples |-> SourceSamples, spf |-> Spf], <<>>))

-------------------------------------------------------------------------------
(* Constructors                                                            *)

\* The last frame that Trim keeps.
TrimLast(vi, first, last, mode) ==
    LET asked == CASE mode = "Default" /\ last = 0 -> vi.frames - 1
                   [] mode = "Default" /\ last < 0 -> first - last - 1
                   [] mode = "Default" /\ last > 0 -> last
                   [] mode = "Length" -> first + last - 1
                   [] mode = "End" -> last
    IN  IF mode = "Default" THEN Clamp(asked, first, vi.frames - 1) ELSE Least(asked, vi.frames - 1)

\* The constructor of Trim.
Trimming(c, first, last, mode, pad, cache) ==
    LET vi == c.vi
        firstframe == Clamp(first, 0, vi.frames - 1)
        lastframe == TrimLast(vi, firstframe, last, mode)
        offset == AudioSamplesFromFrames(vi, firstframe)
        end == AudioSamplesFromFrames(vi, lastframe + 1)
        samples == IF last = 0 /\ mode = "Default" THEN vi.samples ELSE Least(end, vi.samples)
    IN  Filter("Trim", <<c>>,
               [vi EXCEPT !.frames = lastframe + 1 - firstframe,
                          !.samples = IF pad THEN end - offset ELSE Larger(samples - offset, 0)],
               [firstframe |-> firstframe, audio_offset |-> offset, cache |-> cache])

FreezeFrame(c, first, last, source) ==
    Filter("FreezeFrame", <<c>>, c.vi, [first |-> first, last |-> last, source |-> source])

DeleteFrame(c, frame) ==
    Filter("DeleteFrame", <<c>>, [c.vi EXCEPT !.frames = @ - 1], [frame |-> frame])

DuplicateFrame(c, frame) ==
    Filter("DuplicateFrame", <<c>>, [c.vi EXCEPT !.frames = @ + 1], [frame |-> frame])

Splice(c, d, realign_sound) ==
    LET switchover == IF realign_sound /\ c.vi.frames # 0
                      THEN AudioSamplesFromFrames(c.vi, c.vi.frames) ELSE c.vi.samples
    IN  Filter("Splice", <<c, d>>,
               [c.vi EXCEPT !.frames = @ + d.vi.frames, !.samples = switchover + d.vi.samples],
               [video_switchover_point |-> c.vi.frames, audio_switchover_point |-> switchover])

Dissolve(c, d, overlap) ==
    LET vi == c.vi
        fade_start == AudioSamplesFromFrames(vi, vi.frames - overlap)
        fade_end == AudioSamplesFromFrames(vi, vi.frames) - 1
        video_fade_start == Larger(vi.frames - overlap, 0)
        audio_fade_start == Larger(fade_start, 0)
    IN  Filter("Dissolve", <<c, d>>,
               [vi EXCEPT !.frames = video_fade_start + d.vi.frames,
                          !.samples = audio_fade_start + d.vi.samples],
               [overlap |-> overlap,
                video_fade_start |-> video_fade_start, video_fade_end |-> vi.frames - 1,
                audio_fade_start |-> audio_fade_start, audio_fade_end |-> fade_end,
                audio_overlap |-> fade_end - fade_start])

\* BlankClip with the format of c.
ColorClip(c, duration) ==
    Filter("Blank", <<>>,
           [c.vi EXCEPT !.frames = duration, !.samples = AudioSamplesFromFrames(c.vi, duration)], <<>>)

AudioDub(c, d) == Filter("AudioDub", <<c, d>>, [c.vi EXCEPT !.samples = d.vi.samples], <<>>)

\* The constructor of Reverse.
Backwards(c) == Filter("Reverse", <<c>>, c.vi, <<>>)

Loop(c, times, first, last) ==
    LET vi == c.vi
        start == Clamp(first, 0, vi.frames - 1)
        frames == Clamp(last, start, vi.frames - 1) - start + 1
        end == IF times < 0 THEN Forever ELSE start + times * frames - 1
        aud_end == AudioSamplesFromFrames(vi, end + 1) - 1
        aud_count == AudioSamplesFromFrames(vi, frames)
    IN  Filter("Loop", <<c>>,
               [vi EXCEPT !.frames = IF times < 0 THEN Forever ELSE @ + (times - 1) * frames,
                          !.samples = IF times < 0 THEN aud_end + 1 ELSE @ + (times - 1) * aud_count],
               [start |-> start, end |-> end, frames |-> frames, aud_end |-> aud_end,
                aud_start |-> AudioSamplesFromFrames(vi, start), aud_count |-> aud_count])

SelectEvery(c, every, from) ==
    Filter("SelectEvery", <<c>>,
           [MulDivFPS(c.vi, 1, every) EXCEPT !.frames = Quotient(@ - 1 - from, every) + 1],
           [every |-> every, from |-> from])

\* The constructor of Interleave.
Interleaved(children) ==
    LET num == Len(children)
        ends == [i \in 1 .. num |-> (children[i].vi.frames - 1) * num + i]
    IN  Filter("Interleave", children,
               [MulDivFPS(children[1].vi, num, 1) EXCEPT !.frames = FoldLeft(Larger, ends[1], ends)], <<>>)

\* The child is trimmed to begin at the offset; the sound may be left alone.
SelectRangeEvery(c, every0, length0, offset, audio) ==
    LET trimmed == Invoked(Trimming(c, offset, 0, "Default", TRUE, TRUE))
        vi == trimmed.vi
        every == Clamp(every0, 1, vi.frames)
        length == Clamp(length0, 1, every)
        frames == (vi.frames \div every) * length + Least(vi.frames % every, length)
    IN  Filter("SelectRangeEvery", <<trimmed, c>>,
               [vi EXCEPT !.frames = frames,
                          !.samples = IF audio THEN AudioSamplesFromFrames(vi, frames) ELSE c.vi.samples],
               [every |-> every, length |-> length, audio |-> audio])

-------------------------------------------------------------------------------
(* GetFrame: the frame of its child that a filter returns as frame n, for  *)
(* the filters that pass on a frame of their only child.                   *)

CacheGetFrame(c, n) == Clamp(n, 0, c.vi.frames - 1)

TrimGetFrame(c, n) == n + c.m.firstframe

FreezeFrameGetFrame(c, n) == IF n >= c.m.first /\ n <= c.m.last THEN c.m.source ELSE n

DeleteFrameGetFrame(c, n) == IF n >= c.m.frame THEN n + 1 ELSE n

DuplicateFrameGetFrame(c, n) == IF n > c.m.frame THEN n - 1 ELSE n

ReverseGetFrame(c, n) == c.vi.frames - n - 1

\* Mutant: the frames after the loop are counted from its end, not from the
\* frame after it.
LoopGetFrameTail(c, n) ==
    CASE n > c.m.end -> n - c.m.end + c.m.start + c.m.frames
      [] n <= c.m.end /\ n >= c.m.start -> ((n - c.m.start) % c.m.frames) + c.m.start
      [] OTHER -> n

\* Loop::convert.
LoopGetFrame(c, n) ==
    CASE n > c.m.end -> n - c.m.end + c.m.start + c.m.frames - 1
      [] n <= c.m.end /\ n >= c.m.start -> ((n - c.m.start) % c.m.frames) + c.m.start
      [] OTHER -> n

SelectEveryGetFrame(c, n) == n * c.m.every + c.m.from

SelectRangeEveryGetFrame(c, n) == (n \div c.m.length) * c.m.every + (n % c.m.length)

ChildFrame(c, n) ==
    CASE c.kind = "Cache" -> CacheGetFrame(c, n)
      [] c.kind = "Trim" -> TrimGetFrame(c, n)
      [] c.kind = "FreezeFrame" -> FreezeFrameGetFrame(c, n)
      [] c.kind = "DeleteFrame" -> DeleteFrameGetFrame(c, n)
      [] c.kind = "DuplicateFrame" -> DuplicateFrameGetFrame(c, n)
      [] c.kind = "AudioDub" -> n
      [] c.kind = "Reverse" -> ReverseGetFrame(c, n)
      [] c.kind = "Loop" -> LoopGetFrame(c, n)
      [] c.kind = "SelectEvery" -> SelectEveryGetFrame(c, n)
      [] c.kind = "SelectRangeEvery" -> SelectRangeEveryGetFrame(c, n)

RECURSIVE FrameOf(_, _)

SpliceGetFrame(c, n) ==
    IF n < c.m.video_switchover_point THEN FrameOf(c.children[1], n)
    ELSE FrameOf(c.children[2], n - c.m.video_switchover_point)

DissolveGetFrame(c, n) ==
    CASE n < c.m.video_fade_start -> FrameOf(c.children[1], n)
      [] n > c.m.video_fade_end -> FrameOf(c.children[2], n - c.m.video_fade_start)
      [] OTHER -> Blend(FrameOf(c.children[1], n), FrameOf(c.children[2], n - c.m.video_fade_start),
                        n - c.m.video_fade_end + c.m.overlap, c.m.overlap + 1)

InterleaveGetFrame(c, n) ==
    FrameOf(c.children[(n % Len(c.children)) + 1], Quotient(n, Len(c.children)))

FrameOf(c, n) ==
    CASE c.kind = "Source" -> <<n>>
      [] c.kind = "Blank" -> Blank
      [] c.kind = "Splice" -> SpliceGetFrame(c, n)
      [] c.kind = "Dissolve" -> DissolveGetFrame(c, n)
      [] c.kind = "Interleave" -> InterleaveGetFrame(c, n)
      [] OTHER -> FrameOf(c.children[1], ChildFrame(c, n))

-------------------------------------------------------------------------------
(* GetAudio                                                                *)

Zeros(count) == [i \in 1 .. count |-> Silence]

RECURSIVE AudioOf(_, _, _)

\* A cache fills with silence what is before and behind the clip.
CacheGetAudio(c, start, count) ==
    LET before == Clamp(-start, 0, count)
        behind == Clamp(start + count - c.vi.samples, 0, count)
    IN  IF start + count <= 0 \/ start >= c.vi.samples THEN Zeros(count)
        ELSE Zeros(before) \o AudioOf(c.children[1], start + before, count - before - behind) \o Zeros(behind)

TrimGetAudio(c, start, count) == AudioOf(c.children[1], start + c.m.audio_offset, count)

\* Mutant: a request across the seam reads the second clip from where it would
\* be if the request began there.
SpliceGetAudioSeam(c, start, count) ==
    LET count1 == Clamp(c.m.audio_switchover_point - start, 0, count)
    IN  AudioOf(c.children[1], start, count1)
          \o AudioOf(c.children[2], start - c.m.audio_switchover_point, count - count1)

SpliceGetAudio(c, start, count) ==
    LET count1 == Clamp(c.m.audio_switchover_point - start, 0, count)
    IN  AudioOf(c.children[1], start, count1)
          \o AudioOf(c.children[2], start + count1 - c.m.audio_switchover_point, count - count1)

\* The weight is a count-down from the last sample of the fade.
DissolveGetAudio(c, start, count) ==
    LET a == AudioOf(c.children[1], start, count)
        b == AudioOf(c.children[2], start - c.m.audio_fade_start, count)
        numerator(i) == c.m.audio_fade_end - start - (i - 1)
        mixed(i) == CASE numerator(i) <= 0 -> b[i]
                      [] numerator(i) > 0 /\ numerator(i) < c.m.audio_overlap ->
                           Blend(b[i], a[i], numerator(i), c.m.audio_overlap)
                      [] OTHER -> a[i]
    IN  CASE start + count <= c.m.audio_fade_start -> a
          [] start + count > c.m.audio_fade_start /\ start > c.m.audio_fade_end -> b
          [] OTHER -> [i \in 1 .. count |-> mixed(i)]

AudioDubGetAudio(c, start, count) == AudioOf(c.children[2], start, count)

ReverseGetAudio(c, start, count) ==
    Reverse(AudioOf(c.children[1], c.vi.samples - start - count, count))

\* One turn of Loop::GetAudio: where the child is read, and how much of it.
LoopRead(m, start, count) ==
    LET get_start == CASE start > m.aud_end -> m.aud_start + m.aud_count + start - (m.aud_end + 1)
                       [] start <= m.aud_end /\ start > m.aud_start ->
                            ((start - m.aud_start) % m.aud_count) + m.aud_start
                       [] OTHER -> start
        left == m.aud_count - (get_start - m.aud_start)
        get_count == CASE start > m.aud_end -> count
                       [] start <= m.aud_end /\ get_start + left > m.aud_end + 1 -> m.aud_end + 1 - get_start
                       [] OTHER -> IF start + left > m.aud_end THEN count ELSE left
    IN  [start |-> get_start, count |-> Least(get_count, count)]

RECURSIVE LoopGetAudio(_, _, _)
LoopGetAudio(c, start, count) ==
    LET get == LoopRead(c.m, start, count)
    IN  IF count <= 0 THEN <<>>
        ELSE AudioOf(c.children[1], get.start, get.count)
               \o LoopGetAudio(c, start + get.count, count - get.count)

\* The turns of SelectRangeEvery::GetAudio, one for each range.
RECURSIVE RangeAudio(_, _, _, _)
RangeAudio(c, startframe, general_offset, count) ==
    LET iteration == startframe \div c.m.length
        into == startframe % c.m.length
        getsamples == Least(AudioSamplesFromFrames(c.vi, c.m.length - into), count)
        start_offset == AudioSamplesFromFrames(c.vi, iteration * c.m.every + into) + general_offset
    IN  IF count <= 0 THEN <<>>
        ELSE AudioOf(c.children[1], start_offset, getsamples)
               \o RangeAudio(c, (iteration + 1) * c.m.length, 0, count - getsamples)

SelectRangeEveryGetAudio(c, start, count) ==
    LET startframe == FramesFromAudioSamples(c.vi, start)
    IN  IF c.m.audio
        THEN RangeAudio(c, startframe, start - AudioSamplesFromFrames(c.vi, startframe), count)
        ELSE AudioOf(c.children[2], start, count)

\* The other filters pass on the sound of their first child.
AudioOf(c, start, count) ==
    CASE count <= 0 -> <<>>
      [] count > 0 /\ c.kind = "Source" -> [i \in 1 .. count |-> <<start + i - 1>>]
      [] count > 0 /\ c.kind = "Blank" -> Zeros(count)
      [] count > 0 /\ c.kind = "Cache" -> CacheGetAudio(c, start, count)
      [] count > 0 /\ c.kind = "Trim" -> TrimGetAudio(c, start, count)
      [] count > 0 /\ c.kind = "Splice" -> SpliceGetAudio(c, start, count)
      [] count > 0 /\ c.kind = "Dissolve" -> DissolveGetAudio(c, start, count)
      [] count > 0 /\ c.kind = "AudioDub" -> AudioDubGetAudio(c, start, count)
      [] count > 0 /\ c.kind = "Reverse" -> ReverseGetAudio(c, start, count)
      [] count > 0 /\ c.kind = "Loop" -> LoopGetAudio(c, start, count)
      [] count > 0 /\ c.kind = "SelectRangeEvery" -> SelectRangeEveryGetAudio(c, start, count)
      [] OTHER -> AudioOf(c.children[1], start, count)

-------------------------------------------------------------------------------
(* The script: one call after the other, with arguments that the manual    *)
(* says something about.                                                   *)

SourceShown ==
    Shown([i \in 1 .. SourceFrames |-> <<i - 1>>], [i \in 1 .. SourceSamples |-> <<i - 1>>], Spf)

EditInit ==
    /\ clip = Source
    /\ shown = SourceShown
    /\ disputed = {}
    /\ edits = 0

Frames == 0 .. FramesOf(shown) - 1

\* One call of a filter: what Invoke makes of it, what the manual says, and
\* where the two differ.
CallBut(c, s, frames) ==
    /\ edits < MaxEdits
    /\ edits' = edits + 1
    /\ clip' = Invoked(c)
    /\ shown' = s
    /\ disputed' = frames

Call(c, s) == CallBut(c, s, {})

\* first, last and length as the manual has them.
CallTrim(first, last, mode, pad, cache) ==
    LET open == mode = "Default" /\ last = 0
        end == CASE open -> FramesOf(shown)
                 [] mode = "Default" /\ last < 0 -> first - last
                 [] mode = "Length" -> first + last
                 [] OTHER -> Larger(last, first) + 1
    IN  /\ first \in Frames
        /\ mode = "Length" => last >= 0
        /\ mode = "End" => last >= first
        /\ Call(Trimming(clip, first, last, mode, pad, cache),
                Trimmed(shown, first, Least(end, FramesOf(shown)), pad, open))

CallFreezeFrame(first, last, source) ==
    /\ source \in Frames
    /\ Call(FreezeFrame(clip, first, last, source), Frozen(shown, first, last, source))

\* Argument i finds its place among the earlier ones.  DeleteFrame marks a
\* duplicate with the largest int and does not count it.
INT_MAX == 2147483647

RECURSIVE BubbleInsert(_, _, _)
BubbleInsert(a, i, j) ==
    CASE j = i -> a
      [] j < i /\ a.unique /\ a.frames[i] = a.frames[j] ->
           [a EXCEPT !.frames[i] = INT_MAX, !.count = @ - 1]
      [] j < i /\ a.frames[i] < a.frames[j] ->
           BubbleInsert([a EXCEPT !.frames[i] = a.frames[j], !.frames[j] = a.frames[i]], i, j + 1)
      [] OTHER -> BubbleInsert(a, i, j + 1)

SortedFrames(args, unique) ==
    LET a == FoldLeft(LAMBDA b, i : BubbleInsert(b, i, 1),
                      [frames |-> args, count |-> Len(args), unique |-> unique],
                      [i \in DOMAIN args |-> i])
    IN  SubSeq(a.frames, 1, a.count)

\* One object for each frame, the last frame first.  With two duplicates the
\* markers themselves are taken for duplicates, and a later frame is lost.
CallDeleteFrame(args) ==
    /\ ToSet(args) \subseteq Frames
    /\ Len(args) <= Cardinality(ToSet(args)) + 1
    /\ Call(FoldRight(LAMBDA f, c : DeleteFrame(c, f), SortedFrames(args, TRUE), clip), Deleted(shown, args))

CallDuplicateFrame(args) ==
    /\ ToSet(args) \subseteq Frames
    /\ Call(FoldRight(LAMBDA f, c : DuplicateFrame(c, f), SortedFrames(args, FALSE), clip),
            Duplicated(shown, args))

\* The second clip of a filter that takes two: the same once more or the source.
OtherClip(same)  == IF same THEN clip ELSE Source
OtherShown(same) == IF same THEN shown ELSE SourceShown

\* The clips have the same frame rate.
CallSplice(same, aligned) ==
    /\ LET vi2 == OtherClip(same).vi IN clip.vi.spf[1] * vi2.spf[2] = vi2.spf[1] * clip.vi.spf[2]
    /\ Call(Splice(clip, OtherClip(same), aligned), Spliced(shown, OtherShown(same), aligned))

CallDissolve(same, overlap) ==
    /\ overlap \in 1 .. Least(FramesOf(shown), FramesOf(OtherShown(same)))
    /\ Call(Dissolve(clip, OtherClip(same), overlap), Dissolved(shown, OtherShown(same), overlap))

\* FadeIn, FadeOut and FadeIO, with so many frames of the colour at the end.
CallFade(type, duration, offset) ==
    LET b == ColorClip(clip, duration + offset)
        c == Blanked(shown, duration + offset)
    IN  /\ duration \in 1 .. FramesOf(shown)
        /\ CASE type = "Out" -> Call(Dissolve(clip, b, duration), Dissolved(shown, c, duration))
             [] type = "In" -> Call(Dissolve(b, clip, duration), Dissolved(c, shown, duration))
             [] type = "IO" -> Call(Dissolve(Dissolve(b, clip, duration), b, duration),
                                    Dissolved(Dissolved(c, shown, duration), c, duration))

\* The source with the sound of the clip, or the other way round.
CallAudioDub(video) ==
    IF video THEN Call(AudioDub(clip, Source), Dubbed(shown, SourceShown))
    ELSE Call(AudioDub(Source, clip), Dubbed(SourceShown, shown))

CallReverse == Call(Backwards(clip), Reversed(shown))

\* Without the sound of the frames that it drops, Loop(0) has no length for it.
CallLoop(times, first, last) ==
    /\ first \in Frames /\ last \in first .. FramesOf(shown) - 1
    /\ times <= MaxTimes
    /\ times = 0 => Len(shown.audio) >= At(shown, last - first + 1)
    /\ Call(Loop(clip, times, first, last),
            IF times < 0 THEN LoopedForever(shown, first, last, Forever)
            ELSE Looped(shown, times, first, last))

\* SelectEven and SelectOdd are SelectEvery(2, 0) and SelectEvery(2, 1).
CallSelectEvery(every, offsets) ==
    /\ every > 0
    /\ ToSet(offsets) \subseteq Frames
    /\ Call(IF Len(offsets) = 1 THEN SelectEvery(clip, every, offsets[1])
            ELSE Interleaved([i \in DOMAIN offsets |-> SelectEvery(clip, every, offsets[i])]),
            Selected(shown, every, offsets))

\* Beyond its end a clip shows its last frame if a cache clamps the request.
RECURSIVE Clamps(_)
Clamps(c) ==
    \/ c.kind = "Cache"
    \/ c.kind = "AudioDub" /\ Clamps(c.children[1])
    \/ c.kind = "Splice" /\ Clamps(c.children[2])

\* Interleave is one frame short if its first clip is the longer one, and shows
\* other frames than the last one of a shorter clip that does not clamp.
CallInterleave(same) ==
    LET other == OtherClip(same)
        beyond(c, i) == {2 * k + i : k \in c.vi.frames .. Larger(clip.vi.frames, other.vi.frames) - 1}
    IN  CallBut(Interleaved(<<clip, other>>), Alternated(shown, OtherShown(same)),
                {n \in beyond(other, 1) : n = 2 * clip.vi.frames - 1 \/ ~Clamps(other)}
                  \cup {n \in beyond(clip, 0) : ~Clamps(clip)})

CallSelectRangeEvery(every, length, offset, audio) ==
    /\ offset \in Frames
    /\ length \in 1 .. every /\ every <= FramesOf(shown) - offset
    /\ Call(SelectRangeEvery(clip, every, length, offset, audio),
            RangesOf(shown, every, length, offset, audio))

Lists(size) == UNION {[1 .. k -> Numbers] : k \in 1 .. size}

\* A script ends with a clip of which the manual and the code disagree.
EditNext ==
    /\ clip.vi.frames > 0 /\ disputed = {}
    /\ \/ \E first, last \in Numbers, mode \in {"Default", "Length", "End"}, pad, cache \in BOOLEAN :
             CallTrim(first, last, mode, pad, cache)
       \/ \E first, last, source \in Numbers : CallFreezeFrame(first, last, source)
       \/ \E args \in Lists(MaxArgs) : CallDeleteFrame(args)
       \/ \E args \in Lists(MaxArgs) : CallDuplicateFrame(args)
       \/ \E same, aligned \in BOOLEAN : CallSplice(same, aligned)
       \/ \E same \in BOOLEAN, overlap \in Numbers : CallDissolve(same, overlap)
       \/ \E type \in {"In", "Out", "IO"}, duration \in Numbers, offset \in 0 .. 2 :
             CallFade(type, duration, offset)
       \/ \E video \in BOOLEAN : CallAudioDub(video)
       \/ CallReverse
       \/ \E times, first, last \in Numbers : CallLoop(times, first, last)
       \/ \E every \in Numbers, offsets \in Lists(MaxOffsets) : CallSelectEvery(every, offsets)
       \/ \E same \in BOOLEAN : CallInterleave(same)
       \/ \E every, length, offset \in Numbers, audio \in BOOLEAN :
             CallSelectRangeEvery(every, length, offset, audio)

-------------------------------------------------------------------------------
(* Properties                                                              *)

\* An edited clip has the frames that the manual says, in number and in rate,
\* whatever filters it is made of: nested offsets, the caches that are and are not
\* there and the ends of the clips come out right together.  Excepted are the
\* frames of an Interleave that the code leaves out or takes from beyond the end
\* of a shorter clip without a cache; the rest of that clip is as the manual says.
FramesAsDocumented ==
    edits > 0 =>
      /\ 0 .. clip.vi.frames - 1 \subseteq Frames
      /\ clip.vi.spf[1] * shown.spf[2] = shown.spf[1] * clip.vi.spf[2]
      /\ \A n \in Frames \ disputed :
            /\ n < clip.vi.frames
            /\ shown.frames[n + 1] # Unsaid => FrameOf(clip, n) = shown.frames[n + 1]

\* A clip is as long as the manual says, Interleave with clips of different
\* lengths included: the number of clips times the longer one's length.
LengthAsDocumented == clip.vi.frames = FramesOf(shown)

\* Below SelectRangeEvery, which reads past its range when a request begins
\* inside a frame.
RECURSIVE SelectsSound(_)
SelectsSound(c) ==
    \/ c.kind = "SelectRangeEvery" /\ c.m.audio
    \/ \E i \in DOMAIN c.children : SelectsSound(c.children[i])

\* A client of an edited clip gets the sound that the manual says, in step with
\* the video, however it divides its requests; with SelectRangeEvery in the clip,
\* if it asks for one sample at a time.
AudioAsDocumented ==
    edits > 0 =>
      /\ clip.vi.samples = Len(shown.audio)
      /\ \A start \in 0 .. Len(shown.audio) - 1 : \A count \in 1 .. Len(shown.audio) - start :
            (SelectsSound(clip) => count = 1)
               => AudioOf(clip, start, count) = SubSeq(shown.audio, start + 1, start + count)
===============================================================================
