------------------------------ MODULE AudioCache ------------------------------
(***************************************************************************)
(* The audio cache of the Cache filter: AvsCache::GetAudio and the audio   *)
(* part of AvsCache::SetCacheHints.                                        *)
(*                                                                         *)
(* The cache is a window of the child's samples, kept in one buffer.  A    *)
(* request moves the window; the policy switches itself on and off.  The   *)
(* mutex is the one of the CacheGuard: hints that come from the script     *)
(* take it, the switch inside GetAudio does not.  Sizes are in bytes where *)
(* the code has bytes.  A sample is its number, so that what is delivered  *)
(* can be compared with what was asked for.                                *)
(***************************************************************************)
EXTENDS Integers, Sequences, FiniteSets, SequencesExt

CONSTANTS
    Threads,
    Requests,      \* pairs <<start, count>> that clients ask for
    Hints,         \* pairs <<policy, size>> that SetCacheHints is called with
    num_audio_samples,
    SampleSize,    \* bytes per sample
    Align,         \* 8192: sizes are multiples of it
    DefaultBytes,  \* 256 KB
    AutoMaxBytes,  \* 4 MB: the largest buffer that auto mode starts with
    MaxBytes,      \* 8 MB: the largest buffer that grows by itself
    ScoreStart, ScoreOff, ScoreMax, ScoreFloor   \* 20, 80, 90, -2000000

Policies == {"AUDIO", "NOTHING", "AUTO_OFF", "AUTO_ON"}

Off == {"AUTO_OFF", "NOTHING"}

Nobody == "nobody"

ASSUME AudioCacheAssumption ==
    /\ Nobody \notin Threads
    /\ Requests \subseteq Int \X (Nat \ {0})
    /\ Hints \subseteq Policies \X Nat
    /\ num_audio_samples \in Nat \ {0}
    /\ SampleSize \in Nat \ {0} /\ Align \in Nat /\ Align >= SampleSize
    /\ {DefaultBytes, AutoMaxBytes, MaxBytes} \subseteq Nat
    /\ DefaultBytes <= AutoMaxBytes /\ AutoMaxBytes <= MaxBytes
    /\ {ScoreFloor, ScoreStart, ScoreOff, ScoreMax} \subseteq Int
    /\ ScoreFloor < 0 /\ 0 < ScoreStart /\ ScoreStart < ScoreOff /\ ScoreOff < ScoreMax

VARIABLES
    cache,               \* [policy, data, start, count]: AudioPolicy, AudioCache,
                         \* AudioCacheStart, CacheCount; MaxSampleCount is Len(data)
    ac_expected_next,
    ac_too_small_count,
    ac_currentscore,
    mutex,               \* CacheGuardMutex: the thread that holds it
    req                  \* what each thread is doing

vars == <<cache, ac_expected_next, ac_too_small_count, ac_currentscore, mutex, req>>

\* Contents of a buffer that are no samples of the child: zeros, bytes that
\* realloc has added, and what a child leaves behind that throws.
Silence == -1
Garbage == -2
Undelivered == -3

Idle == [at |-> "idle", asked |-> <<0, 0>>, start |-> 0, count |-> 0, buf |-> <<>>]

-------------------------------------------------------------------------------
Bytes(n) == n * SampleSize

Samples(b) == b \div SampleSize

Smaller(a, b) == IF a < b THEN a ELSE b

Larger(a, b) == IF a < b THEN b ELSE a

MaxSampleCount == Len(cache.data)

\* The end of the window, and of the window that the buffer has room for.
CacheEnd(c) == c.start + c.count

Reach(c) == c.start + Len(c.data)

\* Samples s, s + 1, ..., as the child delivers them.
ChildSamples(s, n) == [i \in 1 .. n |-> s + i - 1]

\* data with the samples d from index i on.
Overwrite(data, i, d) ==
    [j \in DOMAIN data |-> IF j \in i + 1 .. i + Len(d) THEN d[j - i] ELSE data[j]]

\* realloc: the buffer only becomes bigger; the new bytes are undefined.
Realloc(c, max) ==
    IF max <= Len(c.data) THEN c
    ELSE [c EXCEPT !.data = @ \o [i \in 1 .. max - Len(@) |-> Garbage],
                   !.start = IF c.data = <<>> THEN 0 ELSE @,
                   !.count = IF c.data = <<>> THEN 0 ELSE Smaller(@, max)]

\* SetCacheHints for the audio policies.
SetCacheHints(c, hint, size) ==
    IF hint \in Off THEN [policy |-> hint, data |-> <<>>, start |-> 0, count |-> 0]
    ELSE IF size = 0 /\ c.policy # "AUTO_OFF" THEN c
    ELSE [Realloc(c, Samples(IF size = 0 THEN DefaultBytes ELSE size)) EXCEPT !.policy = hint]

NewCache == [policy |-> "AUTO_OFF", data |-> <<>>, start |-> 0, count |-> 0]

-------------------------------------------------------------------------------
\* The constructor asks the child for its policy and size.
Init ==
    /\ \E h \in Hints \cup {<<"AUTO_OFF", 0>>} : cache = SetCacheHints(NewCache, h[1], h[2])
    /\ ac_expected_next = 0
    /\ ac_too_small_count = 0
    /\ ac_currentscore = ScoreStart
    /\ mutex = Nobody
    /\ req = [t \in Threads |-> Idle]

\* CacheGuard::ApplyHints, under the mutex.
ApplyHints(h) ==
    /\ mutex = Nobody
    /\ cache' = SetCacheHints(cache, h[1], h[2])
    /\ UNCHANGED <<ac_expected_next, ac_too_small_count, ac_currentscore, mutex, req>>

(* GetAudio before the lock                                                *)

\* The part of a request that lies in the clip; the rest is silence.
Clip(s, n) ==
    [start |-> Larger(s, 0), count |-> Smaller(s + n, num_audio_samples) - Larger(s, 0)]

\* The client's buffer when the samples d from start on have arrived.
Filled(asked, start, d) ==
    [i \in 1 .. asked[2] |->
        LET n == asked[1] + i - 1 IN IF n \in start .. start + Len(d) - 1 THEN d[n - start + 1] ELSE Silence]

\* Revisiting old ground, skipping and linear reading.
Score(start) ==
    LET cs == ac_currentscore + (IF start < ac_expected_next THEN -5
                                 ELSE IF start > ac_expected_next THEN -1 ELSE 1)
    IN  Smaller(Larger(cs, ScoreFloor), ScoreMax)

\* Auto mode: on when the score is low, off when it is high.
SwitchPolicy(score, count) ==
    LET Rounded == ((Bytes(count) + Align - 1) \div Align) * Align
    IN  IF cache.policy = "AUTO_OFF" /\ score <= 0
        THEN SetCacheHints(cache, "AUTO_ON", Smaller(AutoMaxBytes, Rounded))
        ELSE IF cache.policy = "AUTO_ON" /\ score > ScoreOff
        THEN SetCacheHints(cache, "AUTO_OFF", 0)
        ELSE cache

\* A request for samples outside the clip returns at once.
GetAudioOutside(t, r) ==
    /\ req[t].at = "idle"
    /\ Clip(r[1], r[2]).count <= 0
    /\ req' = [req EXCEPT ![t] = [Idle EXCEPT !.at = "return", !.asked = r,
                                              !.buf = Filled(r, 0, <<>>)]]
    /\ UNCHANGED <<cache, ac_expected_next, ac_too_small_count, ac_currentscore, mutex>>

\* Any other one: the score, the switch of the policy and the decision.
GetAudio(t, r) ==
    LET q == Clip(r[1], r[2])
        switched == SwitchPolicy(Score(q.start), q.count)
    IN  /\ req[t].at = "idle"
        /\ q.count > 0
        /\ ac_currentscore' = Score(q.start)
        /\ ac_expected_next' = q.start + q.count
        /\ cache' = switched
        /\ req' = [req EXCEPT ![t] = [at |-> IF switched.policy \in Off THEN "direct" ELSE "lock",
                                      asked |-> r, start |-> q.start, count |-> q.count, buf |-> <<>>]]
        /\ UNCHANGED <<ac_too_small_count, mutex>>

\* The buffer cannot be allocated when auto mode switches on.
GetAudioFails(t, r) ==
    LET q == Clip(r[1], r[2])
    IN  /\ req[t].at = "idle"
        /\ q.count > 0
        /\ cache.policy = "AUTO_OFF" /\ Score(q.start) <= 0
        /\ ac_currentscore' = Score(q.start)
        /\ UNCHANGED <<cache, ac_expected_next, ac_too_small_count, mutex, req>>

Goto(t, label) == req' = [req EXCEPT ![t].at = label]

\* The request is answered with the samples d.
Deliver(t, d) ==
    req' = [req EXCEPT ![t].at = "return", ![t].buf = Filled(req[t].asked, req[t].start, d)]

\* The child is read without a cache.
ReadDirect(t) ==
    /\ req[t].at = "direct"
    /\ Deliver(t, ChildSamples(req[t].start, req[t].count))
    /\ UNCHANGED <<cache, ac_expected_next, ac_too_small_count, ac_currentscore, mutex>>

(* GetAudio under the lock                                                 *)

Lock(t) ==
    /\ req[t].at = "lock" /\ mutex = Nobody
    /\ mutex' = t
    /\ Goto(t, "size")
    /\ UNCHANGED <<cache, ac_expected_next, ac_too_small_count, ac_currentscore>>

\* Bound: the counter is only compared with 2.
TooSmallBound == 3

TooSmall(t) == req[t].count > MaxSampleCount

MayGrow == ac_too_small_count + 1 > 2 /\ MaxSampleCount < Samples(MaxBytes)

\* The size of a buffer that holds the request and what follows it in the window.
GrownSize(t) ==
    LET n == Larger(req[t].count, CacheEnd(cache) - req[t].start)
    IN  Smaller(MaxBytes, ((Bytes(n) + Align) \div Align) * Align)

\* Mutant: the counter is not reset.
GrowNoReset(t) ==
    /\ req[t].at = "size" /\ TooSmall(t) /\ MayGrow
    /\ cache' = SetCacheHints(cache, cache.policy, GrownSize(t))
    /\ UNCHANGED <<ac_expected_next, ac_too_small_count, ac_currentscore, mutex, req>>

\* The cache was too small three times: it grows, and the loop goes on.
Grow(t) ==
    /\ req[t].at = "size" /\ TooSmall(t) /\ MayGrow
    /\ cache' = SetCacheHints(cache, cache.policy, GrownSize(t))
    /\ ac_too_small_count' = 0
    /\ UNCHANGED <<ac_expected_next, ac_currentscore, mutex, req>>

\* realloc fails: the exception unlocks the mutex.
GrowFails(t) ==
    /\ req[t].at = "size" /\ TooSmall(t) /\ MayGrow /\ cache.policy \notin Off
    /\ ac_too_small_count' = Smaller(ac_too_small_count + 1, TooSmallBound)
    /\ mutex' = Nobody
    /\ req' = [req EXCEPT ![t] = Idle]
    /\ UNCHANGED <<cache, ac_expected_next, ac_currentscore>>

\* The cache is too small: the child is read with the mutex unlocked.
Bypass(t) ==
    /\ req[t].at = "size" /\ TooSmall(t) /\ ~MayGrow
    /\ ac_too_small_count' = Smaller(ac_too_small_count + 1, TooSmallBound)
    /\ mutex' = Nobody
    /\ Goto(t, "bypass")
    /\ UNCHANGED <<cache, ac_expected_next, ac_currentscore>>

BypassRead(t) ==
    /\ req[t].at = "bypass"
    /\ Goto(t, "relock")
    /\ UNCHANGED <<cache, ac_expected_next, ac_too_small_count, ac_currentscore, mutex>>

\* Mutant: the window is as long as the request.
KeepTailAll(t) ==
    /\ req[t].at = "relock" /\ mutex = Nobody
    /\ LET n == req[t].count
           s == req[t].start
       IN  cache' = [cache EXCEPT !.data = Overwrite(@, 0, ChildSamples(s, n)),
                                  !.start = s, !.count = n]
    /\ Deliver(t, ChildSamples(req[t].start, req[t].count))
    /\ UNCHANGED <<ac_expected_next, ac_too_small_count, ac_currentscore, mutex>>

\* Locked again: the end of the request becomes the window.  The buffer may
\* have another size by now.
KeepTail(t) ==
    /\ req[t].at = "relock" /\ mutex = Nobody
    /\ LET n == Smaller(req[t].count, MaxSampleCount)
           s == req[t].start + req[t].count - n
       IN  cache' = [cache EXCEPT !.data = Overwrite(@, 0, ChildSamples(s, n)),
                                  !.start = s, !.count = n]
    /\ Deliver(t, ChildSamples(req[t].start, req[t].count))
    /\ UNCHANGED <<ac_expected_next, ac_too_small_count, ac_currentscore, mutex>>

\* Before the window, or beyond linear reach.
NeedsRestart(t) == req[t].start < cache.start \/ req[t].start > Reach(cache)

ReqEnd(t) == req[t].start + req[t].count

Covered(t) == ReqEnd(t) <= CacheEnd(cache)

\* The window at the request's start; its samples are still to be read.
Restarted(t) == [cache EXCEPT !.start = req[t].start, !.count = Smaller(req[t].count, MaxSampleCount)]

\* How far the window must move for the end of the request to fit: by half of
\* what precedes the request if that is more.
Shift(t) ==
    LET needed == ReqEnd(t) - Reach(cache)
        half   == (req[t].start - cache.start) \div 2
    IN  IF half > needed THEN half ELSE needed

\* The window shifted; by everything if nothing of it can be kept.
Shifted(t) ==
    IF ReqEnd(t) <= Reach(cache) THEN cache
    ELSE IF Shift(t) >= cache.count
    THEN [cache EXCEPT !.start = ReqEnd(t) - MaxSampleCount, !.count = 0]
    ELSE [cache EXCEPT !.data = Overwrite(@, 0, SubSeq(@, Shift(t) + 1, cache.count)),
                       !.start = @ + Shift(t), !.count = @ - Shift(t)]

Restart(t) ==
    /\ req[t].at = "size" /\ ~TooSmall(t) /\ NeedsRestart(t)
    /\ cache' = Restarted(t)
    /\ Goto(t, "restart")
    /\ UNCHANGED <<ac_expected_next, ac_too_small_count, ac_currentscore, mutex>>

Extend(t) ==
    /\ req[t].at = "size" /\ ~TooSmall(t) /\ ~NeedsRestart(t) /\ ~Covered(t)
    /\ cache' = Shifted(t)
    /\ Goto(t, "append")
    /\ UNCHANGED <<ac_expected_next, ac_too_small_count, ac_currentscore, mutex>>

Hit(t) ==
    /\ req[t].at = "size" /\ ~TooSmall(t) /\ ~NeedsRestart(t) /\ Covered(t)
    /\ Goto(t, "copy")
    /\ UNCHANGED <<cache, ac_expected_next, ac_too_small_count, ac_currentscore, mutex>>

\* The child fills the restarted window.
ReadRestart(t) ==
    /\ req[t].at = "restart"
    /\ cache' = [cache EXCEPT !.data = Overwrite(@, 0, ChildSamples(cache.start, cache.count))]
    /\ Goto(t, "copy")
    /\ UNCHANGED <<ac_expected_next, ac_too_small_count, ac_currentscore, mutex>>

\* Mutant: the samples are written to the beginning of the buffer.
ReadAppendAtFront(t) ==
    LET n == ReqEnd(t) - CacheEnd(cache)
    IN  /\ req[t].at = "append"
        /\ cache' = [cache EXCEPT !.data = Overwrite(@, 0, ChildSamples(CacheEnd(cache), n)),
                                  !.count = @ + n]
        /\ Goto(t, "copy")
        /\ UNCHANGED <<ac_expected_next, ac_too_small_count, ac_currentscore, mutex>>

\* The child completes the request; its samples are appended to the window.
ReadAppend(t) ==
    LET n == ReqEnd(t) - CacheEnd(cache)
    IN  /\ req[t].at = "append"
        /\ cache' = [cache EXCEPT !.data = Overwrite(@, cache.count, ChildSamples(CacheEnd(cache), n)),
                                  !.count = @ + n]
        /\ Goto(t, "copy")
        /\ UNCHANGED <<ac_expected_next, ac_too_small_count, ac_currentscore, mutex>>

\* The samples of the request, from the buffer.
CopyOut(t) ==
    /\ req[t].at = "copy"
    /\ Deliver(t, SubSeq(cache.data, req[t].start - cache.start + 1,
                         req[t].start - cache.start + req[t].count))
    /\ mutex' = Nobody
    /\ UNCHANGED <<cache, ac_expected_next, ac_too_small_count, ac_currentscore>>

\* The child throws.  The mutex is unlocked if it is held; the window stays
\* as it is, also the one of a Restart, whose samples have not been delivered.
ChildThrows(t) ==
    /\ req[t].at \in {"direct", "bypass", "restart", "append"}
    /\ cache' = IF req[t].at # "restart" THEN cache
                ELSE [cache EXCEPT !.data = Overwrite(@, 0, [i \in 1 .. cache.count |-> Undelivered])]
    /\ mutex' = IF mutex = t THEN Nobody ELSE mutex
    /\ req' = [req EXCEPT ![t] = Idle]
    /\ UNCHANGED <<ac_expected_next, ac_too_small_count, ac_currentscore>>

\* GetAudio returns to the client.
Return(t) ==
    /\ req[t].at = "return"
    /\ req' = [req EXCEPT ![t] = Idle]
    /\ UNCHANGED <<cache, ac_expected_next, ac_too_small_count, ac_currentscore, mutex>>

-------------------------------------------------------------------------------
\* A step of GetAudio after its beginning.
Step(t) ==
    \/ ReadDirect(t) \/ Lock(t) \/ Grow(t) \/ GrowFails(t) \/ Bypass(t) \/ BypassRead(t)
    \/ KeepTail(t) \/ Restart(t) \/ Extend(t) \/ Hit(t) \/ ReadRestart(t) \/ ReadAppend(t)
    \/ CopyOut(t) \/ ChildThrows(t) \/ Return(t)

Next ==
    \/ \E t \in Threads, r \in Requests : GetAudioOutside(t, r) \/ GetAudio(t, r) \/ GetAudioFails(t, r)
    \/ \E t \in Threads : Step(t)
    \/ \E h \in Hints : ApplyHints(h)

Spec == Init /\ [][Next]_vars

\* A thread that may run goes on; a mutex is handed to a thread that waits for
\* it again and again.
Fairness == \A t \in Threads : WF_vars(Step(t)) /\ SF_vars(Lock(t)) /\ SF_vars(KeepTail(t))

FairSpec == Spec /\ Fairness

-------------------------------------------------------------------------------
(* Properties                                                              *)

Labels == {"idle", "direct", "lock", "size", "bypass", "relock", "restart", "append", "copy", "return"}

\* The shape of the state.
TypeOK ==
    /\ cache.policy \in Policies
    /\ cache.data \in Seq(Undelivered .. num_audio_samples - 1)
    /\ cache.start \in 0 .. num_audio_samples
    /\ cache.count \in 0 .. num_audio_samples
    /\ ac_expected_next \in 0 .. num_audio_samples
    /\ ac_too_small_count \in 0 .. TooSmallBound
    /\ ac_currentscore \in ScoreFloor .. ScoreMax
    /\ mutex \in Threads \cup {Nobody}
    /\ \A t \in Threads : req[t].at \in Labels

\* The window never exceeds the buffer, and neither does what the child writes
\* and what is copied out, although another thread or a hint may have changed
\* the buffer while the mutex was unlocked for the child.  A thread that finds
\* the cache switched off in the meantime does not bring the buffer back.
WindowFits ==
    /\ TypeOK
    /\ cache.count <= MaxSampleCount
    /\ \A t \in Threads :
          req[t].at \in {"restart", "append", "copy"} =>
              /\ mutex = t
              /\ cache.start <= req[t].start /\ ReqEnd(t) <= Reach(cache)
    /\ cache.policy \in Off => cache.data = <<>>

\* What the client of a cache expects: the samples it would get from the child
\* itself, and silence outside the clip.
Reference(r) ==
    [i \in 1 .. r[2] |-> LET n == r[1] + i - 1
                         IN  IF n \in 0 .. num_audio_samples - 1 THEN n ELSE Silence]

\* A request is answered as if there was no cache, and every sample in the
\* window is the child's sample at that place, whatever window, policy and size
\* earlier requests and hints have left.  The exception is the samples that a
\* Restart whose read has failed leaves undelivered.
SamplesRight ==
    /\ \A t \in Threads : req[t].at = "return" =>
          \A i \in DOMAIN req[t].buf : req[t].buf[i] \in {Reference(req[t].asked)[i], Undelivered}
    /\ \A i \in 1 .. cache.count :
          \/ cache.data[i] \in {cache.start + i - 1, Undelivered}
          \/ \E t \in Threads : req[t].at = "restart"

\* Every request ends, with samples or an exception: the loop that enlarges the
\* cache stops, for every policy, and nobody waits for the mutex forever.
GetAudioEnds == \A t \in Threads : (req[t].at # "idle") ~> (req[t].at = "idle")
===============================================================================
