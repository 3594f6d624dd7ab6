--------------------------- MODULE AudioCacheProofs ---------------------------
(***************************************************************************)
(* The window of the audio cache fits its buffer and holds the child's     *)
(* samples, for any number of threads, any clip, any sizes and limits.     *)
(*                                                                         *)
(* The switch of the policy inside GetAudio does not take the mutex, so    *)
(* that this holds only while no two threads use a cache that switches     *)
(* itself.  Auto mode is the default and nothing in the code keeps threads *)
(* from sharing such a cache: the theorems assume it.                      *)
(***************************************************************************)
EXTENDS AudioCache, SequenceTheorems, TLAPS

\* Nobody shares a cache that GetAudio may switch on or off.
SharedOnlyIfScripted ==
    \A t, u \in Threads : t # u => cache.policy \in {"AUDIO", "NOTHING"}

Stored == Undelivered .. num_audio_samples - 1

Caches == [policy : Policies, data : Seq(Stored), start : 0 .. num_audio_samples, count : 0 .. num_audio_samples]

\* The window lies in the clip and in the buffer; a cache that is off has none.
WindowOK(c) ==
    /\ c \in Caches
    /\ c.count <= Len(c.data)
    /\ CacheEnd(c) <= num_audio_samples
    /\ c.policy \in Off => c.data = <<>>

\* Element i is the sample with number s + i - 1, or was never delivered.
RightFrom(d, s, n) == \A i \in 1 .. n : d[i] \in {s + i - 1, Undelivered}

Reqs == [at : Labels, asked : Int \X Nat, start : Int, count : Int, buf : Seq(Stored)]

\* A request that is under way is about the part of it that lies in the clip.
ClippedOK(r) ==
    /\ r.asked \in Requests
    /\ r.start = Clip(r.asked[1], r.asked[2]).start
    /\ r.count = Clip(r.asked[1], r.asked[2]).count
    /\ r.count > 0

\* What the next step of a request relies on.
RequestOK(r, t, c, m) ==
    /\ r.at \notin {"idle", "return"} => ClippedOK(r)
    /\ r.at \in {"size", "restart", "append", "copy"} => m = t
    /\ r.at = "restart" => c.start = r.start /\ c.count = r.count
    /\ r.at \in {"append", "copy"} => c.start <= r.start
    /\ r.at = "append" => r.start + r.count <= Reach(c) /\ CacheEnd(c) <= r.start + r.count
    /\ r.at = "copy" => r.start + r.count <= CacheEnd(c)
    /\ r.at = "return" => \A i \in DOMAIN r.buf : r.buf[i] \in {Reference(r.asked)[i], Undelivered}

CountersOK ==
    /\ ac_expected_next \in 0 .. num_audio_samples
    /\ ac_too_small_count \in 0 .. TooSmallBound
    /\ ac_currentscore \in ScoreFloor .. ScoreMax

AudioInv ==
    /\ CountersOK
    /\ WindowOK(cache)
    /\ mutex \in Threads \cup {Nobody}
    /\ req \in [Threads -> Reqs]
    /\ \A t \in Threads : RequestOK(req[t], t, cache, mutex)
    /\ RightFrom(cache.data, cache.start, cache.count) \/ \E t \in Threads : req[t].at = "restart"

-------------------------------------------------------------------------------
(* The buffer                                                              *)

LEMMA Sizes ==
    /\ num_audio_samples \in Nat \ {0} /\ SampleSize \in Nat \ {0} /\ Align \in Nat \ {0}
    /\ DefaultBytes \in Nat /\ AutoMaxBytes \in Nat /\ MaxBytes \in Nat
    /\ \A n \in Nat : Bytes(n) \in Nat /\ Samples(n) \in Nat
    /\ \A n \in Nat : ((n + Align) \div Align) * Align \in Nat
    /\ \A n \in Nat : ((n + Align - 1) \div Align) * Align \in Nat
<1>1. /\ num_audio_samples \in Nat \ {0} /\ SampleSize \in Nat \ {0} /\ Align \in Nat \ {0}
      /\ DefaultBytes \in Nat /\ AutoMaxBytes \in Nat /\ MaxBytes \in Nat
  BY AudioCacheAssumption
<1>2. \A n \in Nat : n * SampleSize \in Nat /\ n \div SampleSize \in Nat
  BY <1>1
<1>3. \A k \in Nat : k * Align \in Nat
  BY <1>1
<1>4. \A n \in Nat : (n + Align) \div Align \in Nat /\ (n + Align - 1) \div Align \in Nat
  BY <1>1
<1> QED
  BY <1>1, <1>2, <1>3, <1>4 DEF Bytes, Samples

LEMMA StoredFacts ==
    /\ Silence \in Stored /\ Garbage \in Stored /\ Undelivered \in Stored
    /\ \A n \in 0 .. num_audio_samples - 1 : n \in Stored
    /\ Stored \subseteq Int
BY Sizes DEF Stored, Silence, Garbage, Undelivered

\* What a hint does to the cache, also the one inside GetAudio and the one that
\* makes the buffer bigger.
LEMMA HintKeepsWindow ==
    ASSUME NEW c, WindowOK(c), NEW hint \in Policies, NEW size \in Nat
    PROVE  /\ WindowOK(SetCacheHints(c, hint, size))
           /\ RightFrom(c.data, c.start, c.count) =>
                LET d == SetCacheHints(c, hint, size) IN RightFrom(d.data, d.start, d.count)
<1> DEFINE e == SetCacheHints(c, hint, size)
           max == Samples(IF size = 0 THEN DefaultBytes ELSE size)
           k == Realloc(c, max)
<1>1. max \in Nat
  BY Sizes
<1> HIDE DEF max
<1>2. c.data \in Seq(Stored) /\ Len(c.data) \in Nat /\ c.start \in 0 .. num_audio_samples
      /\ c.count \in 0 .. num_audio_samples /\ c.count <= Len(c.data)
      /\ c.start + c.count <= num_audio_samples /\ num_audio_samples \in Nat
  BY Sizes DEF WindowOK, Caches, CacheEnd
<1>3. CASE hint \in Off
  <2>1. e = [policy |-> hint, data |-> <<>>, start |-> 0, count |-> 0]
    BY <1>3 DEF SetCacheHints
  <2>2. <<>> \in Seq(Stored) /\ Len(<<>>) = 0
    OBVIOUS
  <2> QED
    BY <1>2, <2>1, <2>2 DEF WindowOK, Caches, CacheEnd, RightFrom
<1>4. CASE hint \notin Off /\ e = c
  BY <1>4
<1>5. CASE hint \notin Off /\ e = [k EXCEPT !.policy = hint]
  <2>1. CASE max <= Len(c.data)
    <3>1. k = c
      BY <2>1 DEF Realloc
    <3>2. e.data = c.data /\ e.start = c.start /\ e.count = c.count /\ e.policy = hint /\ e \in Caches
      BY <1>5, <3>1 DEF WindowOK, Caches
    <3> QED
      BY <1>2, <1>5, <3>2 DEF WindowOK, CacheEnd
  <2>2. CASE ~(max <= Len(c.data))
    <3> DEFINE new == [i \in 1 .. max - Len(c.data) |-> Garbage]
    <3>1. new \in Seq(Stored) /\ Len(new) = max - Len(c.data)
      BY <1>1, <1>2, <2>2, StoredFacts
    <3>2. k = [c EXCEPT !.data = c.data \o new, !.start = IF c.data = <<>> THEN 0 ELSE c.start,
                        !.count = IF c.data = <<>> THEN 0 ELSE Smaller(c.count, max)]
      BY <2>2 DEF Realloc
    <3> HIDE DEF new
    <3>3. /\ c.data \o new \in Seq(Stored) /\ Len(c.data \o new) = max
          /\ \A i \in 1 .. Len(c.data) : (c.data \o new)[i] = c.data[i]
      BY <1>1, <1>2, <3>1
    <3>4. Smaller(c.count, max) = c.count
      BY <1>1, <1>2, <2>2 DEF Smaller
    <3>5. /\ e \in Caches /\ e.policy = hint /\ e.data = c.data \o new
          /\ e.start = (IF c.data = <<>> THEN 0 ELSE c.start)
          /\ e.count = (IF c.data = <<>> THEN 0 ELSE c.count)
      <4>1. PICK s : s = IF c.data = <<>> THEN 0 ELSE c.start
        OBVIOUS
      <4>2. PICK n : n = IF c.data = <<>> THEN 0 ELSE c.count
        OBVIOUS
      <4>3. PICK d : d = c.data \o new
        OBVIOUS
      <4>4. e = [[c EXCEPT !.data = d, !.start = s, !.count = n] EXCEPT !.policy = hint]
        BY <1>5, <3>2, <3>4, <4>1, <4>2, <4>3
      <4>5. d \in Seq(Stored) /\ s \in 0 .. num_audio_samples /\ n \in 0 .. num_audio_samples
        BY <1>2, <3>3, <4>1, <4>2, <4>3
      <4>6. c \in Caches
        BY DEF WindowOK
      <4> HIDE DEF e
      <4> QED
        BY <4>1, <4>2, <4>3, <4>4, <4>5, <4>6 DEF Caches
    <3>6. WindowOK(e)
      BY <1>1, <1>2, <1>5, <2>2, <3>3, <3>5 DEF WindowOK, CacheEnd
    <3>7. RightFrom(c.data, c.start, c.count) => RightFrom(e.data, e.start, e.count)
      BY <1>2, <3>3, <3>5 DEF RightFrom
    <3> QED
      BY <3>6, <3>7
  <2> QED
    BY <2>1, <2>2
<1> QED
  BY <1>3, <1>4, <1>5 DEF SetCacheHints, max

LEMMA Overwritten ==
    ASSUME NEW data \in Seq(Stored), NEW d \in Seq(Stored), NEW i \in Nat, i + Len(d) <= Len(data)
    PROVE  /\ Overwrite(data, i, d) \in Seq(Stored) /\ Len(Overwrite(data, i, d)) = Len(data)
           /\ \A j \in 1 .. Len(data) : Overwrite(data, i, d)[j] =
                 IF j \in i + 1 .. i + Len(d) THEN d[j - i] ELSE data[j]
<1>1. \A j \in 1 .. Len(data) : j \in i + 1 .. i + Len(d) => j - i \in 1 .. Len(d)
  OBVIOUS
<1>2. DOMAIN data = 1 .. Len(data) /\ Len(data) \in Nat
  OBVIOUS
<1>3. \A j \in 1 .. Len(data) : (IF j \in i + 1 .. i + Len(d) THEN d[j - i] ELSE data[j]) \in Stored
  BY <1>1
<1> QED
  BY <1>2, <1>3 DEF Overwrite

LEMMA ChildDelivers ==
    ASSUME NEW s \in Nat, NEW n \in Nat, s + n <= num_audio_samples
    PROVE  /\ ChildSamples(s, n) \in Seq(Stored) /\ Len(ChildSamples(s, n)) = n
           /\ \A i \in 1 .. n : ChildSamples(s, n)[i] = s + i - 1
<1>1. \A i \in 1 .. n : s + i - 1 \in Stored
  BY StoredFacts, Sizes
<1> QED
  BY <1>1 DEF ChildSamples

-------------------------------------------------------------------------------
(* Requests                                                                *)

LEMMA Clipped ==
    ASSUME NEW r, ClippedOK(r)
    PROVE  /\ r.asked \in Int \X (Nat \ {0})
           /\ r.start \in Nat /\ r.count \in Nat \ {0} /\ r.start + r.count <= num_audio_samples
           /\ \A n \in r.asked[1] .. r.asked[1] + r.asked[2] - 1 :
                 n \in 0 .. num_audio_samples - 1 <=> n \in r.start .. r.start + r.count - 1
           /\ r.asked[1] <= r.start /\ r.start + r.count <= r.asked[1] + r.asked[2]
<1>1. r.asked \in Int \X (Nat \ {0})
  BY AudioCacheAssumption DEF ClippedOK
<1>2. PICK s \in Int, n \in Nat \ {0} : r.asked = <<s, n>>
  BY <1>1
<1>3. r.asked[1] = s /\ r.asked[2] = n
  BY <1>2
<1>4. r.start = Larger(s, 0) /\ r.count = Smaller(s + n, num_audio_samples) - Larger(s, 0) /\ r.count > 0
  BY <1>3 DEF ClippedOK, Clip
<1> QED
  BY <1>1, <1>3, <1>4, Sizes DEF Larger, Smaller

\* The answer to a request, when the samples d of the clip have arrived.
LEMMA AnswerRight ==
    ASSUME NEW r, ClippedOK(r), NEW d \in Seq(Stored), Len(d) = r.count, RightFrom(d, r.start, r.count)
    PROVE  /\ Filled(r.asked, r.start, d) \in Seq(Stored)
           /\ \A i \in DOMAIN Filled(r.asked, r.start, d) :
                 Filled(r.asked, r.start, d)[i] \in {Reference(r.asked)[i], Undelivered}
<1>0. PICK s \in Int, k \in Nat \ {0} : r.asked = <<s, k>>
  BY Clipped
<1> DEFINE a == r.asked
           b == Filled(a, r.start, d)
<1>1. a[1] = s /\ a[2] = k
  BY <1>0
<1>2. /\ r.start \in Nat /\ r.count \in Nat
      /\ \A n \in s .. s + k - 1 : n \in 0 .. num_audio_samples - 1 <=> n \in r.start .. r.start + r.count - 1
  BY <1>1, Clipped
<1> HIDE DEF a
<1>3. ASSUME NEW i \in 1 .. k
      PROVE  b[i] \in Stored /\ b[i] \in {Reference(a)[i], Undelivered}
  <2>1. PICK n \in Int : n = s + i - 1
    OBVIOUS
  <2>2. b[i] = IF n \in r.start .. r.start + Len(d) - 1 THEN d[n - r.start + 1] ELSE Silence
    BY <1>1, <2>1 DEF Filled
  <2>3. Reference(a)[i] = IF n \in 0 .. num_audio_samples - 1 THEN n ELSE Silence
    BY <1>1, <2>1 DEF Reference
  <2>4. n \in 0 .. num_audio_samples - 1 <=> n \in r.start .. r.start + r.count - 1
    BY <1>2, <2>1
  <2> HIDE DEF b
  <2>5. CASE n \in r.start .. r.start + r.count - 1
    <3>1. n - r.start + 1 \in 1 .. r.count /\ r.start + (n - r.start + 1) - 1 = n
      BY <1>2, <2>5
    <3>2. d[n - r.start + 1] \in Stored /\ d[n - r.start + 1] \in {n, Undelivered}
      BY <3>1 DEF RightFrom
    <3> QED
      BY <2>2, <2>3, <2>4, <2>5, <3>2
  <2>6. CASE n \notin r.start .. r.start + r.count - 1
    BY <2>2, <2>3, <2>4, <2>6, StoredFacts
  <2> QED
    BY <2>5, <2>6
<1>4. b = [i \in 1 .. k |-> b[i]]
  BY <1>1 DEF Filled
<1> HIDE DEF b
<1>5. b \in Seq(Stored) /\ DOMAIN b = 1 .. k
  BY <1>3, <1>4
<1> QED
  BY <1>3, <1>5 DEF a, b

\* Outside of the clip there is only silence.
LEMMA SilenceRight ==
    ASSUME NEW a \in Requests, Clip(a[1], a[2]).count <= 0
    PROVE  /\ Filled(a, 0, <<>>) \in Seq(Stored)
           /\ \A i \in DOMAIN Filled(a, 0, <<>>) : Filled(a, 0, <<>>)[i] = Reference(a)[i]
<1>1. PICK s \in Int, n \in Nat \ {0} : a = <<s, n>>
  BY AudioCacheAssumption
<1>2. a[1] = s /\ a[2] = n
  BY <1>1
<1>3. Smaller(s + n, num_audio_samples) - Larger(s, 0) <= 0
  BY <1>2 DEF Clip
<1>4. \A i \in 1 .. n : s + i - 1 \notin 0 .. num_audio_samples - 1
  BY <1>3, Sizes DEF Smaller, Larger
<1>5. \A i \in 1 .. n : s + i - 1 \notin 0 .. 0 + 0 - 1
  OBVIOUS
<1>6. Filled(a, 0, <<>>) = [i \in 1 .. n |-> Silence]
  BY <1>2, <1>5 DEF Filled
<1>7. \A i \in 1 .. n : Reference(a)[i] = Silence
  BY <1>2, <1>4 DEF Reference
<1> QED
  BY <1>6, <1>7, StoredFacts

-------------------------------------------------------------------------------
(* Steps                                                                   *)

Inside == {"size", "restart", "append", "copy"}

LEMMA IdleFacts == Idle \in Reqs /\ \A t, c, m : RequestOK(Idle, t, c, m)
BY DEF Idle, Reqs, Labels, RequestOK

\* A step of thread t, which alone may change what a thread inside relies on.
LEMMA OneMoves ==
    ASSUME AudioInv, NEW t \in Threads, NEW r \in Reqs, req' = [req EXCEPT ![t] = r],
           CountersOK', WindowOK(cache'), mutex' \in Threads \cup {Nobody},
           RequestOK(r, t, cache', mutex'),
           \/ cache' = cache /\ mutex' = mutex
           \/ mutex \in {t, Nobody}
           \/ \A u \in Threads : u = t,
           \/ RightFrom(cache'.data, cache'.start, cache'.count)
           \/ r.at = "restart"
           \/ cache' = cache /\ req[t].at # "restart"
    PROVE  AudioInv'
<1>1. /\ req \in [Threads -> Reqs] /\ Nobody \notin Threads
      /\ \A u \in Threads : RequestOK(req[u], u, cache, mutex)
  BY AudioCacheAssumption DEF AudioInv
<1>2. req' \in [Threads -> Reqs] /\ req'[t] = r /\ \A u \in Threads : u # t => req'[u] = req[u]
  BY <1>1
<1>3. ASSUME NEW u \in Threads PROVE RequestOK(req'[u], u, cache', mutex')
  <2>1. CASE u = t
    BY <1>2, <2>1
  <2>2. CASE u # t /\ cache' = cache /\ mutex' = mutex
    BY <1>1, <1>2, <2>2
  <2>3. CASE u # t /\ mutex \in {t, Nobody}
    <3>1. RequestOK(req[u], u, cache, mutex) /\ mutex # u /\ req'[u] = req[u]
      BY <1>1, <1>2, <2>3
    <3>2. req[u].at \notin Inside
      BY <3>1 DEF RequestOK, Inside
    <3> QED
      BY <3>1, <3>2 DEF RequestOK, Inside
  <2> QED
    BY <2>1, <2>2, <2>3
<1>4. \/ RightFrom(cache'.data, cache'.start, cache'.count)
      \/ \E u \in Threads : req'[u].at = "restart"
  <2>1. CASE RightFrom(cache'.data, cache'.start, cache'.count)
    BY <2>1
  <2>2. CASE r.at = "restart"
    BY <1>2, <2>2
  <2>3. CASE cache' = cache /\ req[t].at # "restart"
    <3>1. RightFrom(cache.data, cache.start, cache.count) \/ \E u \in Threads : req[u].at = "restart"
      BY DEF AudioInv
    <3> QED
      BY <1>2, <2>3, <3>1
  <2> QED
    BY <2>1, <2>2, <2>3
<1> QED
  BY <1>2, <1>3, <1>4 DEF AudioInv

\* Whoever owns the mutex, or finds it free, sees a window that holds the child's
\* samples, unless it is about to read them.
LEMMA WindowRight ==
    ASSUME AudioInv, NEW t \in Threads \cup {Nobody}, mutex \in {t, Nobody},
           t \in Threads => req[t].at # "restart"
    PROVE  RightFrom(cache.data, cache.start, cache.count)
<1> SUFFICES ASSUME NEW u \in Threads, req[u].at = "restart" PROVE FALSE
  BY DEF AudioInv
<1>1. RequestOK(req[u], u, cache, mutex)
  BY DEF AudioInv
<1> QED
  BY <1>1, AudioCacheAssumption DEF RequestOK

LEMMA InitInv == Init => AudioInv
<1> SUFFICES ASSUME Init PROVE AudioInv
  OBVIOUS
<1>1. PICK h \in Hints \cup {<<"AUTO_OFF", 0>>} : cache = SetCacheHints(NewCache, h[1], h[2])
  BY DEF Init
<1>2. h[1] \in Policies /\ h[2] \in Nat
  BY AudioCacheAssumption DEF Policies
<1>3. WindowOK(NewCache) /\ RightFrom(NewCache.data, NewCache.start, NewCache.count)
  BY Sizes DEF NewCache, WindowOK, Caches, CacheEnd, RightFrom, Policies
<1>4. WindowOK(cache) /\ RightFrom(cache.data, cache.start, cache.count)
  BY <1>1, <1>2, <1>3, HintKeepsWindow
<1>6. CountersOK
  BY Sizes, AudioCacheAssumption DEF Init, CountersOK, TooSmallBound
<1> QED
  BY <1>4, <1>6, IdleFacts DEF Init, AudioInv

\* A step that leaves the requests alone, when nobody is inside.
LEMMA HintKeepsInv ==
    ASSUME AudioInv, NEW h \in Hints, ApplyHints(h)
    PROVE  AudioInv'
<1>1. h[1] \in Policies /\ h[2] \in Nat
  BY AudioCacheAssumption
<1>2. RightFrom(cache.data, cache.start, cache.count)
  <2>1. mutex = Nobody /\ Nobody \notin Threads
    BY AudioCacheAssumption DEF ApplyHints
  <2> QED
    BY <2>1, WindowRight
<1>3. WindowOK(cache') /\ RightFrom(cache'.data, cache'.start, cache'.count)
  BY <1>1, <1>2, HintKeepsWindow DEF ApplyHints, AudioInv
<1>4. ASSUME NEW t \in Threads PROVE RequestOK(req[t], t, cache', mutex)
  <2>1. RequestOK(req[t], t, cache, mutex) /\ mutex # t
    BY AudioCacheAssumption DEF AudioInv, ApplyHints
  <2> QED
    BY <2>1 DEF RequestOK
<1> QED
  BY <1>3, <1>4 DEF AudioInv, ApplyHints, CountersOK

LEMMA RequestFacts ==
    ASSUME AudioInv, NEW t \in Threads
    PROVE  /\ req[t] \in Reqs /\ RequestOK(req[t], t, cache, mutex)
           /\ req[t].at \notin {"idle", "return"} =>
                 /\ ClippedOK(req[t])
                 /\ req[t].start \in Nat /\ req[t].count \in Nat \ {0}
                 /\ req[t].start + req[t].count <= num_audio_samples
           /\ WindowOK(cache)
           /\ cache.data \in Seq(Stored) /\ Len(cache.data) \in Nat
           /\ cache.start \in Nat /\ cache.count \in Nat /\ cache.count <= Len(cache.data)
           /\ cache.start + cache.count <= num_audio_samples
<1>1. req[t] \in Reqs /\ RequestOK(req[t], t, cache, mutex) /\ WindowOK(cache)
  BY DEF AudioInv
<1>2. req[t].at \notin {"idle", "return"} => ClippedOK(req[t])
  BY <1>1 DEF RequestOK
<1>3. /\ cache.data \in Seq(Stored) /\ Len(cache.data) \in Nat
      /\ cache.start \in Nat /\ cache.count \in Nat /\ cache.count <= Len(cache.data)
      /\ cache.start + cache.count <= num_audio_samples
  BY <1>1 DEF WindowOK, Caches, CacheEnd
<1> QED
  BY <1>1, <1>2, <1>3, Clipped

LEMMA OutsideKeepsInv ==
    ASSUME AudioInv, NEW t \in Threads, NEW r \in Requests, GetAudioOutside(t, r)
    PROVE  AudioInv'
<1> DEFINE q == [Idle EXCEPT !.at = "return", !.asked = r, !.buf = Filled(r, 0, <<>>)]
<1>1. /\ Filled(r, 0, <<>>) \in Seq(Stored)
      /\ \A i \in DOMAIN Filled(r, 0, <<>>) : Filled(r, 0, <<>>)[i] = Reference(r)[i]
  BY SilenceRight DEF GetAudioOutside
<1>2. q \in Reqs /\ q.at = "return" /\ q.asked = r /\ q.buf = Filled(r, 0, <<>>)
  <2>1. r \in Int \X Nat
    BY AudioCacheAssumption
  <2>2. PICK b \in Seq(Stored) : b = Filled(r, 0, <<>>)
    BY <1>1
  <2>3. q = [Idle EXCEPT !.at = "return", !.asked = r, !.buf = b]
    BY <2>2
  <2> HIDE DEF q
  <2> QED
    BY <2>1, <2>2, <2>3, IdleFacts DEF Reqs, Labels
<1>3. req' = [req EXCEPT ![t] = q] /\ req[t].at = "idle"
      /\ cache' = cache /\ mutex' = mutex /\ CountersOK' /\ WindowOK(cache')
      /\ mutex' \in Threads \cup {Nobody}
  BY DEF GetAudioOutside, AudioInv, CountersOK
<1> HIDE DEF q
<1>4. RequestOK(q, t, cache', mutex')
  BY <1>1, <1>2 DEF RequestOK
<1> QED
  BY <1>2, <1>3, <1>4, OneMoves

LEMMA ScoreType ==
    ASSUME CountersOK, NEW s \in Nat
    PROVE  Score(s) \in ScoreFloor .. ScoreMax
<1>1. PICK k \in Int : ac_currentscore + (IF s < ac_expected_next THEN -5
                                         ELSE IF s > ac_expected_next THEN -1 ELSE 1) = k
  BY AudioCacheAssumption DEF CountersOK
<1> QED
  BY <1>1, AudioCacheAssumption DEF Score, Smaller, Larger

LEMMA SwitchKeepsWindow ==
    ASSUME WindowOK(cache), NEW score, NEW n \in Nat
    PROVE  /\ WindowOK(SwitchPolicy(score, n))
           /\ RightFrom(cache.data, cache.start, cache.count) =>
                LET d == SwitchPolicy(score, n) IN RightFrom(d.data, d.start, d.count)
           /\ cache.policy \in {"AUDIO", "NOTHING"} => SwitchPolicy(score, n) = cache
<1> DEFINE Rounded == ((Bytes(n) + Align - 1) \div Align) * Align
           size == Smaller(AutoMaxBytes, Rounded)
<1>1. size \in Nat
  BY Sizes DEF Smaller
<1> HIDE DEF size
<1>2. \/ SwitchPolicy(score, n) = cache
      \/ cache.policy = "AUTO_OFF" /\ SwitchPolicy(score, n) = SetCacheHints(cache, "AUTO_ON", size)
      \/ cache.policy = "AUTO_ON" /\ SwitchPolicy(score, n) = SetCacheHints(cache, "AUTO_OFF", 0)
  BY DEF SwitchPolicy, size
<1> QED
  BY <1>1, <1>2, HintKeepsWindow DEF Policies

LEMMA GetAudioKeepsInv ==
    ASSUME AudioInv, SharedOnlyIfScripted, NEW t \in Threads, NEW r \in Requests, GetAudio(t, r)
    PROVE  AudioInv'
<1> DEFINE q == Clip(r[1], r[2])
           q2 == [at |-> IF cache'.policy \in Off THEN "direct" ELSE "lock",
                  asked |-> r, start |-> q.start, count |-> q.count, buf |-> <<>>]
<1>1. /\ req[t].at = "idle" /\ q.count > 0 /\ mutex' = mutex
      /\ ac_currentscore' = Score(q.start) /\ ac_expected_next' = q.start + q.count
      /\ ac_too_small_count' = ac_too_small_count
      /\ cache' = SwitchPolicy(Score(q.start), q.count)
      /\ req' = [req EXCEPT ![t] = q2]
  BY DEF GetAudio
<1>2. ClippedOK(q2)
  BY <1>1 DEF ClippedOK
<1>3. q.start \in Nat /\ q.count \in Nat /\ q.start + q.count <= num_audio_samples
  BY <1>2, Clipped
<1>4. q2 \in Reqs
  BY <1>3, AudioCacheAssumption DEF Reqs, Labels
<1>5. CountersOK'
  <2>1. Score(q.start) \in ScoreFloor .. ScoreMax
    BY <1>3, ScoreType DEF AudioInv
  <2>2. q.start + q.count \in 0 .. num_audio_samples
    BY <1>3, Sizes
  <2> HIDE DEF q
  <2> QED
    BY <1>1, <2>1, <2>2 DEF AudioInv, CountersOK
<1>6. /\ WindowOK(cache')
      /\ RightFrom(cache.data, cache.start, cache.count) => RightFrom(cache'.data, cache'.start, cache'.count)
      /\ cache.policy \in {"AUDIO", "NOTHING"} => cache' = cache
  BY <1>1, <1>3, SwitchKeepsWindow DEF AudioInv
<1>7. RequestOK(q2, t, cache', mutex')
  BY <1>2 DEF RequestOK
<1>8. mutex' \in Threads \cup {Nobody}
  BY <1>1 DEF AudioInv
<1>9. CASE \A u \in Threads : u = t
  <2>1. RightFrom(cache.data, cache.start, cache.count)
    BY <1>1, <1>9 DEF AudioInv
  <2> HIDE DEF q2
  <2> QED
    BY <1>1, <1>4, <1>5, <1>6, <1>7, <1>8, <1>9, <2>1, OneMoves
<1>10. CASE ~\A u \in Threads : u = t
  <2>1. cache' = cache
    BY <1>6, <1>10 DEF SharedOnlyIfScripted
  <2> HIDE DEF q2
  <2> QED
    BY <1>1, <1>4, <1>5, <1>6, <1>7, <1>8, <2>1, OneMoves
<1> QED
  BY <1>9, <1>10

LEMMA FailsKeepsInv ==
    ASSUME AudioInv, NEW t \in Threads, NEW r \in Requests, GetAudioFails(t, r)
    PROVE  AudioInv'
<1> DEFINE q == Clip(r[1], r[2])
           q2 == [at |-> "direct", asked |-> r, start |-> q.start, count |-> q.count, buf |-> <<>>]
<1>1. ClippedOK(q2)
  BY DEF ClippedOK, GetAudioFails
<1>2. q.start \in Nat
  BY <1>1, Clipped
<1>3. Score(q.start) \in ScoreFloor .. ScoreMax
  BY <1>2, ScoreType DEF AudioInv
<1>4. ac_currentscore' = Score(q.start) /\ UNCHANGED <<cache, ac_expected_next, ac_too_small_count, mutex, req>>
  BY DEF GetAudioFails
<1> HIDE DEF q
<1> QED
  BY <1>3, <1>4 DEF AudioInv, CountersOK

\* A step to another label, with neither the cache nor the mutex touched.
LEMMA MovesOn ==
    ASSUME AudioInv, NEW t \in Threads, NEW label \in Labels \ {"return"}, Goto(t, label),
           req[t].at \notin {"idle", "return", "restart"}, label # "idle",
           cache' = cache, mutex' = mutex, CountersOK',
           LET r == [req[t] EXCEPT !.at = label] IN RequestOK(r, t, cache, mutex)
    PROVE  AudioInv'
<1> DEFINE r == [req[t] EXCEPT !.at = label]
<1>1. r \in Reqs
  BY RequestFacts DEF Reqs
<1>2. req' = [req EXCEPT ![t] = r]
  BY RequestFacts DEF Goto, Reqs, AudioInv
<1>3. WindowOK(cache') /\ mutex' \in Threads \cup {Nobody}
  BY DEF AudioInv
<1> HIDE DEF r
<1> QED
  BY <1>1, <1>2, <1>3, OneMoves DEF r

\* A request is answered.
LEMMA Delivered ==
    ASSUME AudioInv, NEW t \in Threads, NEW d \in Seq(Stored), Deliver(t, d),
           req[t].at \notin {"idle", "return"},
           Len(d) = req[t].count, RightFrom(d, req[t].start, req[t].count)
    PROVE  \E r \in Reqs : /\ req' = [req EXCEPT ![t] = r] /\ r.at = "return"
                            /\ \A c, m : RequestOK(r, t, c, m)
<1>1. /\ Filled(req[t].asked, req[t].start, d) \in Seq(Stored)
      /\ \A i \in DOMAIN Filled(req[t].asked, req[t].start, d) :
            Filled(req[t].asked, req[t].start, d)[i] \in {Reference(req[t].asked)[i], Undelivered}
  BY RequestFacts, AnswerRight
<1>2. PICK b \in Seq(Stored) : b = Filled(req[t].asked, req[t].start, d)
  BY <1>1
<1> DEFINE r == [req[t] EXCEPT !.at = "return", !.buf = b]
<1>3. r \in Reqs /\ r.at = "return" /\ r.buf = b /\ r.asked = req[t].asked
  BY RequestFacts DEF Reqs, Labels
<1>4. req' = [req EXCEPT ![t] = r]
  BY <1>2, RequestFacts DEF Deliver, Reqs, AudioInv
<1> HIDE DEF r
<1>5. \A c, m : RequestOK(r, t, c, m)
  BY <1>1, <1>2, <1>3 DEF RequestOK
<1> QED
  BY <1>3, <1>4, <1>5

LEMMA ChildsAnswer ==
    ASSUME AudioInv, NEW t \in Threads, req[t].at \notin {"idle", "return"}
    PROVE  LET d == ChildSamples(req[t].start, req[t].count)
           IN  d \in Seq(Stored) /\ Len(d) = req[t].count /\ RightFrom(d, req[t].start, req[t].count)
BY RequestFacts, ChildDelivers DEF RightFrom

\* The steps that leave the window alone.
LEMMA QuietSteps ==
    ASSUME AudioInv, NEW t \in Threads,
           ReadDirect(t) \/ Lock(t) \/ Bypass(t) \/ GrowFails(t) \/ BypassRead(t) \/ Hit(t) \/ Return(t)
    PROVE  AudioInv'
<1>1. /\ req[t] \in Reqs /\ RequestOK(req[t], t, cache, mutex) /\ WindowOK(cache)
      /\ mutex \in Threads \cup {Nobody} /\ CountersOK
  BY RequestFacts DEF AudioInv
<1>2. CASE ReadDirect(t)
  <2> DEFINE d == ChildSamples(req[t].start, req[t].count)
  <2>1. d \in Seq(Stored) /\ Len(d) = req[t].count /\ RightFrom(d, req[t].start, req[t].count)
    BY <1>2, ChildsAnswer DEF ReadDirect
  <2>2. Deliver(t, d) /\ req[t].at = "direct" /\ cache' = cache /\ mutex' = mutex /\ CountersOK'
    BY <1>1, <1>2 DEF ReadDirect, CountersOK
  <2> HIDE DEF d
  <2>3. PICK r \in Reqs : /\ req' = [req EXCEPT ![t] = r] /\ r.at = "return"
                          /\ \A c, m : RequestOK(r, t, c, m)
    BY <2>1, <2>2, Delivered
  <2> QED
    BY <1>1, <2>2, <2>3, OneMoves
<1>3. CASE Lock(t)
  <2> DEFINE r == [req[t] EXCEPT !.at = "size"]
  <2>1. r \in Reqs /\ req' = [req EXCEPT ![t] = r] /\ RequestOK(r, t, cache, t)
    BY <1>1, <1>3 DEF Lock, Goto, Reqs, Labels, AudioInv, RequestOK, ClippedOK
  <2>2. mutex = Nobody /\ mutex' = t /\ cache' = cache /\ CountersOK' /\ req[t].at = "lock"
    BY <1>1, <1>3 DEF Lock, CountersOK
  <2> HIDE DEF r
  <2> QED
    BY <1>1, <2>1, <2>2, OneMoves
<1>4. CASE Bypass(t)
  <2> DEFINE r == [req[t] EXCEPT !.at = "bypass"]
  <2>1. r \in Reqs /\ req' = [req EXCEPT ![t] = r] /\ RequestOK(r, t, cache, Nobody)
    BY <1>1, <1>4 DEF Bypass, Goto, Reqs, Labels, AudioInv, RequestOK, ClippedOK
  <2>2. req[t].at = "size" /\ mutex = t /\ mutex' = Nobody /\ cache' = cache
    BY <1>1, <1>4 DEF Bypass, RequestOK
  <2>3. CountersOK'
    BY <1>1, <1>4 DEF Bypass, CountersOK, TooSmallBound, Smaller
  <2> HIDE DEF r
  <2> QED
    BY <1>1, <2>1, <2>2, <2>3, OneMoves
<1>5. CASE GrowFails(t)
  <2>1. /\ req[t].at = "size" /\ mutex = t /\ mutex' = Nobody /\ cache' = cache
        /\ req' = [req EXCEPT ![t] = Idle]
    BY <1>1, <1>5 DEF GrowFails, RequestOK
  <2>2. CountersOK'
    BY <1>1, <1>5 DEF GrowFails, CountersOK, TooSmallBound, Smaller
  <2> QED
    BY <1>1, <2>1, <2>2, IdleFacts, OneMoves
<1>6. CASE BypassRead(t)
  <2>1. LET r == [req[t] EXCEPT !.at = "relock"] IN RequestOK(r, t, cache, mutex)
    BY <1>1, <1>6 DEF BypassRead, RequestOK, ClippedOK, Reqs
  <2>2. Goto(t, "relock") /\ req[t].at = "bypass" /\ cache' = cache /\ mutex' = mutex /\ CountersOK'
    BY <1>1, <1>6 DEF BypassRead, CountersOK
  <2>3. "relock" \in Labels \ {"return"}
    BY DEF Labels
  <2> QED
    BY <2>1, <2>2, <2>3, MovesOn
<1>7. CASE Hit(t)
  <2>1. LET r == [req[t] EXCEPT !.at = "copy"] IN RequestOK(r, t, cache, mutex)
    <3>1. req[t].at = "size" /\ mutex = t /\ ClippedOK(req[t])
      BY <1>1, <1>7, RequestFacts DEF Hit, RequestOK
    <3>2. cache.start <= req[t].start /\ req[t].start + req[t].count <= CacheEnd(cache)
      BY <1>7, <3>1, RequestFacts DEF Hit, NeedsRestart, Covered, ReqEnd
    <3>3. ClippedOK([req[t] EXCEPT !.at = "copy"])
      BY <1>1, <3>1 DEF ClippedOK, Reqs
    <3> QED
      BY <1>1, <3>1, <3>2, <3>3 DEF RequestOK, Reqs
  <2>2. Goto(t, "copy") /\ req[t].at = "size" /\ cache' = cache /\ mutex' = mutex /\ CountersOK'
    BY <1>1, <1>7 DEF Hit, CountersOK
  <2>3. "copy" \in Labels \ {"return"}
    BY DEF Labels
  <2> QED
    BY <2>1, <2>2, <2>3, MovesOn
<1>8. CASE Return(t)
  <2>1. /\ req' = [req EXCEPT ![t] = Idle] /\ req[t].at = "return" /\ cache' = cache /\ mutex' = mutex
        /\ CountersOK'
    BY <1>1, <1>8 DEF Return, CountersOK
  <2> QED
    BY <1>1, <2>1, IdleFacts, OneMoves
<1> QED
  BY <1>2, <1>3, <1>4, <1>5, <1>6, <1>7, <1>8

LEMMA GrowKeepsInv ==
    ASSUME AudioInv, NEW t \in Threads, Grow(t)
    PROVE  AudioInv'
<1>1. req[t] \in Reqs /\ RequestOK(req[t], t, cache, mutex) /\ WindowOK(cache) /\ CountersOK
  BY RequestFacts DEF AudioInv
<1>2. mutex = t /\ mutex' = t /\ req' = req /\ req[t].at = "size" /\ ac_too_small_count' = 0
  BY <1>1 DEF Grow, RequestOK
<1>3. GrownSize(t) \in Nat
  <2>1. req[t].count \in Nat /\ CacheEnd(cache) - req[t].start \in Int
    BY <1>2, RequestFacts DEF CacheEnd
  <2>2. Larger(req[t].count, CacheEnd(cache) - req[t].start) \in Nat
    BY <2>1 DEF Larger
  <2>3. PICK n \in Nat : n = Bytes(Larger(req[t].count, CacheEnd(cache) - req[t].start))
    BY <2>2, Sizes
  <2>4. ((n + Align) \div Align) * Align \in Nat
    BY Sizes
  <2> QED
    BY <2>3, <2>4, Sizes DEF GrownSize, Smaller
<1>4. cache' = SetCacheHints(cache, cache.policy, GrownSize(t)) /\ cache.policy \in Policies
  BY <1>1 DEF Grow, WindowOK, Caches
<1>5. RightFrom(cache.data, cache.start, cache.count)
  BY <1>2, WindowRight
<1>6. WindowOK(cache') /\ RightFrom(cache'.data, cache'.start, cache'.count)
  BY <1>1, <1>3, <1>4, <1>5, HintKeepsWindow
<1>7. RequestOK(req[t], t, cache', mutex')
  BY <1>1, <1>2 DEF RequestOK
<1>8. req' = [req EXCEPT ![t] = req[t]]
  BY <1>2 DEF AudioInv
<1>9. CountersOK'
  BY <1>1, <1>2 DEF Grow, CountersOK, TooSmallBound
<1> QED
  BY <1>1, <1>2, <1>6, <1>7, <1>8, <1>9, OneMoves

\* d is the buffer of c with n samples of the child from s on read in after i.
HasRead(d, c, i, s, n) ==
    /\ d \in Seq(Stored) /\ Len(d) = Len(c.data)
    /\ \A j \in 1 .. Len(c.data) : d[j] = IF j \in i + 1 .. i + n THEN s + (j - i) - 1 ELSE c.data[j]

LEMMA ReadIn ==
    ASSUME NEW c, WindowOK(c), NEW i \in Nat, NEW s \in Nat, NEW n \in Nat,
           i + n <= Len(c.data), s + n <= num_audio_samples,
           NEW d, d = Overwrite(c.data, i, ChildSamples(s, n))
    PROVE  HasRead(d, c, i, s, n)
<1>1. c.data \in Seq(Stored)
  BY DEF WindowOK, Caches
<1>2. /\ ChildSamples(s, n) \in Seq(Stored) /\ Len(ChildSamples(s, n)) = n
      /\ \A j \in 1 .. n : ChildSamples(s, n)[j] = s + j - 1
  BY ChildDelivers
<1>3. \A j \in i + 1 .. i + n : ChildSamples(s, n)[j - i] = s + (j - i) - 1
  BY <1>2
<1>4. PICK v \in Seq(Stored) : v = ChildSamples(s, n)
  BY <1>2
<1>5. /\ d \in Seq(Stored) /\ Len(d) = Len(c.data)
      /\ \A j \in 1 .. Len(c.data) : d[j] = IF j \in i + 1 .. i + Len(v) THEN v[j - i] ELSE c.data[j]
  BY <1>1, <1>2, <1>4, Overwritten, SMTT(30)
<1> QED
  BY <1>2, <1>3, <1>4, <1>5 DEF HasRead

LEMMA ReadAtFront ==
    ASSUME NEW c, WindowOK(c), NEW s \in Nat, NEW n \in Nat, n <= Len(c.data), s + n <= num_audio_samples,
           NEW d, d = Overwrite(c.data, 0, ChildSamples(s, n))
    PROVE  d \in Seq(Stored) /\ Len(d) = Len(c.data) /\ \A j \in 1 .. n : d[j] = s + j - 1
<1>1. PICK i \in Nat : i = 0
  OBVIOUS
<1>2. Len(c.data) \in Nat
  BY DEF WindowOK, Caches
<1>3. i + n <= Len(c.data)
  BY <1>1, <1>2
<1>4. d = Overwrite(c.data, i, ChildSamples(s, n))
  BY <1>1
<1>5. HasRead(d, c, i, s, n)
  BY <1>3, <1>4, ReadIn
<1>6. d \in Seq(Stored) /\ Len(d) = Len(c.data)
  BY <1>5 DEF HasRead
<1>7. ASSUME NEW j \in 1 .. n PROVE d[j] = s + j - 1
  <2>1. j \in 1 .. Len(c.data) /\ j \in i + 1 .. i + n /\ s + (j - i) - 1 = s + j - 1
    BY <1>1, <1>2, <1>3
  <2>2. d[j] = s + (j - i) - 1
    BY <1>5, <2>1 DEF HasRead
  <2> QED
    BY <2>1, <2>2
<1> QED
  BY <1>6, <1>7

\* A window with other data, another start and another end.
Rewindowed(d, s, n) == [cache EXCEPT !.data = d, !.start = s, !.count = n]

LEMMA NewWindow ==
    ASSUME WindowOK(cache), NEW d \in Seq(Stored), Len(d) = Len(cache.data),
           NEW s \in Nat, NEW n \in Nat, n <= Len(d), s + n <= num_audio_samples,
           NEW c, c = Rewindowed(d, s, n)
    PROVE  WindowOK(c) /\ c.data = d /\ c.start = s /\ c.count = n
<1>1. s \in 0 .. num_audio_samples /\ n \in 0 .. num_audio_samples
  <2>1. num_audio_samples \in Nat
    BY Sizes
  <2> QED
    BY <2>1
<1>2. c \in Caches /\ c.policy = cache.policy /\ c.data = d /\ c.start = s /\ c.count = n
  BY <1>1 DEF Rewindowed, WindowOK, Caches
<1>3. cache.data = <<>> => d = <<>>
  OBVIOUS
<1> QED
  BY <1>2, <1>3 DEF WindowOK, CacheEnd

LEMMA KeepTailKeepsInv ==
    ASSUME AudioInv, NEW t \in Threads, KeepTail(t)
    PROVE  AudioInv'
<1> DEFINE n == Smaller(req[t].count, MaxSampleCount)
           s == req[t].start + req[t].count - n
           d == ChildSamples(req[t].start, req[t].count)
           w == Overwrite(cache.data, 0, ChildSamples(s, n))
<1>1. /\ req[t] \in Reqs /\ RequestOK(req[t], t, cache, mutex) /\ WindowOK(cache) /\ CountersOK
      /\ mutex \in Threads \cup {Nobody}
  BY RequestFacts DEF AudioInv
<1>2. /\ mutex = Nobody /\ mutex' = mutex /\ req[t].at = "relock" /\ Deliver(t, d) /\ CountersOK'
      /\ cache' = Rewindowed(w, s, n)
  BY <1>1 DEF KeepTail, CountersOK, Rewindowed
<1>3. /\ req[t].start \in Nat /\ req[t].count \in Nat /\ req[t].start + req[t].count <= num_audio_samples
      /\ Len(cache.data) \in Nat
  BY <1>2, RequestFacts
<1>4. n \in Nat /\ n <= req[t].count /\ n <= Len(cache.data)
  BY <1>3 DEF Smaller, MaxSampleCount
<1>5. s \in Nat /\ s + n <= num_audio_samples
  <2>1. PICK a \in Nat, k \in Nat : a = req[t].start /\ k = req[t].count
    BY <1>3
  <2>2. a + k <= num_audio_samples /\ n <= k /\ num_audio_samples \in Nat /\ s = a + k - n
    BY <1>3, <1>4, <2>1, Sizes
  <2> HIDE DEF s, n
  <2> QED
    BY <1>4, <2>2
<1>6. d \in Seq(Stored) /\ Len(d) = req[t].count /\ RightFrom(d, req[t].start, req[t].count)
  BY <1>2, ChildsAnswer
<1> HIDE DEF d, s, n
<1>7. PICK r \in Reqs : /\ req' = [req EXCEPT ![t] = r] /\ r.at = "return"
                        /\ \A c, m : RequestOK(r, t, c, m)
  BY <1>2, <1>6, Delivered
<1>8. w \in Seq(Stored) /\ Len(w) = Len(cache.data) /\ \A j \in 1 .. n : w[j] = s + j - 1
  <2>1. PICK v : v = w
    OBVIOUS
  <2>2. v = Overwrite(cache.data, 0, ChildSamples(s, n))
    BY <2>1
  <2> HIDE DEF w
  <2>3. v \in Seq(Stored) /\ Len(v) = Len(cache.data) /\ \A j \in 1 .. n : v[j] = s + j - 1
    BY <1>1, <1>4, <1>5, <2>2, ReadAtFront
  <2> QED
    BY <2>1, <2>3
<1> HIDE DEF w
<1>9. WindowOK(cache') /\ cache'.data = w /\ cache'.start = s /\ cache'.count = n
  <2>1. n <= Len(w)
    BY <1>4, <1>8
  <2> QED
    BY <1>1, <1>2, <1>4, <1>5, <1>8, <2>1, NewWindow
<1>10. RightFrom(cache'.data, cache'.start, cache'.count)
  BY <1>8, <1>9 DEF RightFrom
<1> QED
  BY <1>1, <1>2, <1>7, <1>9, <1>10, OneMoves

\* What a thread inside may rely on, and what it leaves to its next step: the
\* window becomes d from s on, with n samples.
LEMMA Proceeds ==
    ASSUME AudioInv, NEW t \in Threads, req[t].at \in Inside, NEW label \in {"restart", "append", "copy"},
           Goto(t, label), mutex' = mutex, CountersOK',
           NEW d \in Seq(Stored), Len(d) = Len(cache.data), NEW s \in Nat, NEW n \in Nat,
           n <= Len(d), s + n <= num_audio_samples, cache' = Rewindowed(d, s, n),
           label = "restart" \/ RightFrom(d, s, n),
           label = "restart" => s = req[t].start /\ n = req[t].count,
           label \in {"append", "copy"} => s <= req[t].start,
           label = "append" => req[t].start + req[t].count <= s + Len(d) /\ s + n <= req[t].start + req[t].count,
           label = "copy" => req[t].start + req[t].count <= s + n
    PROVE  AudioInv'
<1> DEFINE r == [req[t] EXCEPT !.at = label]
<1>1. /\ req[t] \in Reqs /\ RequestOK(req[t], t, cache, mutex) /\ WindowOK(cache)
      /\ mutex \in Threads \cup {Nobody}
  BY RequestFacts DEF AudioInv
<1>2. mutex = t /\ ClippedOK(req[t])
  BY <1>1 DEF RequestOK, Inside
<1>3. /\ r \in Reqs /\ req' = [req EXCEPT ![t] = r] /\ r.at = label /\ r.start = req[t].start
      /\ r.count = req[t].count /\ r.asked = req[t].asked
  BY <1>1 DEF Goto, Reqs, Labels, AudioInv
<1>4. WindowOK(cache') /\ cache'.data = d /\ cache'.start = s /\ cache'.count = n
  BY <1>1, NewWindow
<1> HIDE DEF r
<1>5. ClippedOK(r)
  BY <1>2, <1>3 DEF ClippedOK
<1>6. RequestOK(r, t, cache', mutex')
  BY <1>2, <1>3, <1>4, <1>5 DEF RequestOK, CacheEnd, Reach
<1>7. RightFrom(cache'.data, cache'.start, cache'.count) \/ r.at = "restart"
  BY <1>3, <1>4
<1> QED
  BY <1>1, <1>2, <1>3, <1>4, <1>6, <1>7, OneMoves

LEMMA RestartKeepsInv ==
    ASSUME AudioInv, NEW t \in Threads, Restart(t)
    PROVE  AudioInv'
<1>1. /\ req[t].at = "size" /\ ~TooSmall(t) /\ cache' = Restarted(t) /\ Goto(t, "restart")
      /\ mutex' = mutex /\ CountersOK'
  BY DEF Restart, AudioInv, CountersOK
<1>2. /\ req[t].start \in Nat /\ req[t].count \in Nat /\ req[t].start + req[t].count <= num_audio_samples
      /\ cache.data \in Seq(Stored) /\ Len(cache.data) \in Nat
  BY <1>1, RequestFacts
<1>3. req[t].count <= Len(cache.data) /\ Smaller(req[t].count, MaxSampleCount) = req[t].count
  BY <1>1, <1>2 DEF TooSmall, MaxSampleCount, Smaller
<1>4. cache' = Rewindowed(cache.data, req[t].start, req[t].count)
  BY <1>1, <1>3 DEF Restarted, Rewindowed, WindowOK, Caches, AudioInv
<1> QED
  BY <1>1, <1>2, <1>3, <1>4, Proceeds DEF Inside

\* The shifted window ends where it did, unless nothing of it is left.
LEMMA ShiftFits ==
    ASSUME AudioInv, NEW t \in Threads, Extend(t)
    PROVE  \E d \in Seq(Stored), s, n \in Nat :
              /\ cache' = Rewindowed(d, s, n)
              /\ Len(d) = Len(cache.data) /\ n <= Len(d) /\ s + n <= num_audio_samples
              /\ RightFrom(d, s, n)
              /\ s <= req[t].start /\ req[t].start + req[t].count <= s + Len(d)
              /\ s + n <= req[t].start + req[t].count
<1>1. /\ req[t].at = "size" /\ ~TooSmall(t) /\ ~NeedsRestart(t) /\ ~Covered(t) /\ cache' = Shifted(t)
  BY DEF Extend
<1>2. /\ req[t].start \in Nat /\ req[t].count \in Nat /\ req[t].start + req[t].count <= num_audio_samples
      /\ cache.data \in Seq(Stored) /\ Len(cache.data) \in Nat
      /\ cache.start \in Nat /\ cache.count \in Nat /\ cache.count <= Len(cache.data)
      /\ cache.start + cache.count <= num_audio_samples
      /\ cache \in Caches /\ num_audio_samples \in Nat
  BY <1>1, RequestFacts, Sizes DEF WindowOK
<1>3. /\ req[t].count <= Len(cache.data) /\ cache.start <= req[t].start
      /\ req[t].start <= cache.start + Len(cache.data)
      /\ cache.start + cache.count < req[t].start + req[t].count
  BY <1>1, <1>2 DEF TooSmall, MaxSampleCount, NeedsRestart, Reach, Covered, ReqEnd, CacheEnd
<1>4. RightFrom(cache.data, cache.start, cache.count)
  <2>1. mutex = t
    BY <1>1, RequestFacts DEF RequestOK
  <2> QED
    BY <1>1, <2>1, WindowRight
<1>5. PICK a \in Nat, k \in Nat, s \in Nat, n \in Nat, len \in Nat, data \in Seq(Stored) :
         /\ a = req[t].start /\ k = req[t].count /\ s = cache.start /\ n = cache.count
         /\ data = cache.data /\ len = Len(data)
  BY <1>2
<1>6. /\ a + k <= num_audio_samples /\ n <= len /\ s + n <= num_audio_samples
      /\ k <= len /\ s <= a /\ a <= s + len /\ s + n < a + k /\ num_audio_samples \in Nat
  BY <1>2, <1>3, <1>5
<1>7. RightFrom(data, s, n) /\ cache \in Caches
  BY <1>2, <1>4, <1>5
<1> DEFINE Fits(d, b, m) ==
              /\ d \in Seq(Stored) /\ b \in Nat /\ m \in Nat
              /\ cache' = Rewindowed(d, b, m)
              /\ Len(d) = len /\ m <= len /\ b + m <= num_audio_samples
              /\ RightFrom(d, b, m)
              /\ b <= a /\ a + k <= b + len /\ b + m <= a + k
<1> SUFFICES \E d, b, m : Fits(d, b, m)
  <2>1. ASSUME NEW d, NEW b, NEW m, Fits(d, b, m)
        PROVE  /\ d \in Seq(Stored) /\ b \in Nat /\ m \in Nat
               /\ cache' = Rewindowed(d, b, m)
               /\ Len(d) = Len(cache.data) /\ m <= Len(d) /\ b + m <= num_audio_samples
               /\ RightFrom(d, b, m)
               /\ b <= req[t].start /\ req[t].start + req[t].count <= b + Len(d)
               /\ b + m <= req[t].start + req[t].count
    BY <1>5, <2>1
  <2> HIDE DEF Fits
  <2> QED
    BY <2>1
<1>8. ReqEnd(t) = a + k /\ Reach(cache) = s + len /\ MaxSampleCount = len
  BY <1>5 DEF ReqEnd, Reach, MaxSampleCount
<1>9. PICK shift : shift = Shift(t)
  OBVIOUS
<1> HIDE DEF Fits
<1>10. CASE a + k <= s + len
  <2>1. cache' = Rewindowed(data, s, n)
    BY <1>1, <1>5, <1>7, <1>8, <1>10 DEF Shifted, Rewindowed, Caches
  <2>a. Len(data) = len
    BY <1>5
  <2>b. \A x, y \in Nat : x < y => x <= y
    OBVIOUS
  <2>2. Len(data) = len /\ s + n <= a + k
    BY <1>6, <2>a, <2>b
  <2>3. Fits(data, s, n)
    BY <1>6, <1>7, <1>10, <2>1, <2>2 DEF Fits
  <2> QED
    BY <2>3
<1>11. CASE ~(a + k <= s + len)
  <2>1. /\ shift \in Nat /\ shift > 0 /\ s + shift <= a /\ a + k <= s + shift + len
    <3>1. PICK half \in Int : half = (a - s) \div 2
      BY <1>6
    <3>2. half >= 0 /\ half <= a - s
      BY <1>6, <3>1
    <3>3. shift = IF half > a + k - (s + len) THEN half ELSE a + k - (s + len)
      <4>1. ReqEnd(t) - Reach(cache) = a + k - (s + len)
        BY <1>8
      <4>2. (req[t].start - cache.start) \div 2 = half
        BY <1>5, <3>1
      <4> QED
        BY <1>9, <4>1, <4>2, Zenon DEF Shift
    <3> QED
      BY <1>6, <1>11, <3>2, <3>3
  <2>2. CASE shift >= n
    <3>1. cache' = Rewindowed(data, a + k - len, 0)
      <4>1. cache' = [cache EXCEPT !.start = a + k - len, !.count = 0]
        <5>1. ~(ReqEnd(t) <= Reach(cache)) /\ Shift(t) >= cache.count
          BY <1>5, <1>8, <1>9, <1>11, <2>2
        <5>2. ReqEnd(t) - MaxSampleCount = a + k - len
          BY <1>8
        <5> QED
          BY <1>1, <5>1, <5>2, Zenon DEF Shifted
      <4> QED
        BY <1>5, <1>7, <4>1 DEF Rewindowed, Caches
    <3>2. PICK b \in Nat : b = a + k - len
      BY <1>6, <1>11
    <3>3. RightFrom(data, b, 0)
      BY DEF RightFrom
    <3>4. b + len = a + k /\ b <= a /\ b + 0 <= num_audio_samples /\ b + 0 <= a + k /\ 0 <= len
      BY <1>6, <3>2
    <3>5. Len(data) = len
      BY <1>5
    <3>6. cache' = Rewindowed(data, b, 0)
      BY <3>1, <3>2
    <3>7. Fits(data, b, 0)
      BY <3>3, <3>4, <3>5, <3>6 DEF Fits
    <3> QED
      BY <3>7
  <2>3. CASE ~(shift >= n)
    <3> DEFINE kept == SubSeq(data, shift + 1, n)
               d == Overwrite(data, 0, kept)
    <3>1. cache' = Rewindowed(d, s + shift, n - shift)
      <4>1. cache' = [cache EXCEPT !.data = Overwrite(cache.data, 0, SubSeq(cache.data, shift + 1, cache.count)),
                                   !.start = cache.start + shift, !.count = cache.count - shift]
        BY <1>1, <1>5, <1>8, <1>9, <1>11, <2>3 DEF Shifted
      <4>2. d = Overwrite(cache.data, 0, SubSeq(cache.data, shift + 1, cache.count))
        BY <1>5
      <4> HIDE DEF kept, d
      <4> QED
        BY <1>5, <1>7, <4>1, <4>2 DEF Rewindowed, Caches
    <3>2. /\ kept \in Seq(Stored) /\ Len(kept) = n - shift
          /\ \A j \in 1 .. n - shift : kept[j] = data[shift + j]
      <4>1. PICK m \in 1 .. Len(data) + 1 : m = shift + 1
        BY <1>5, <1>6, <2>1, <2>3, SMTT(30)
      <4>2. n \in m - 1 .. Len(data)
        BY <1>5, <1>6, <2>1, <2>3, <4>1
      <4>3. /\ SubSeq(data, m, n) \in Seq(Stored) /\ Len(SubSeq(data, m, n)) = n - m + 1
            /\ \A j \in 1 .. n - m + 1 : SubSeq(data, m, n)[j] = data[m + j - 1]
        BY <4>2, SubSeqProperties
      <4>4. n - m + 1 = n - shift /\ \A j \in 1 .. n - shift : m + j - 1 = shift + j
        BY <2>1, <4>1
      <4> QED
        BY <4>1, <4>3, <4>4
    <3> HIDE DEF kept
    <3>3. /\ d \in Seq(Stored) /\ Len(d) = len
          /\ \A j \in 1 .. len : d[j] =
                IF j \in 0 + 1 .. 0 + Len(kept) THEN kept[j - 0] ELSE data[j]
      <4>1. 0 + Len(kept) <= Len(data)
        BY <1>5, <1>6, <2>1, <2>3, <3>2, SMTT(30)
      <4> QED
        BY <1>5, <3>2, <4>1, Overwritten
    <3> HIDE DEF d
    <3>4. \A j \in 1 .. n - shift : d[j] = data[shift + j]
      BY <1>6, <2>1, <2>3, <3>2, <3>3
    <3>5. RightFrom(d, s + shift, n - shift)
      <4> SUFFICES ASSUME NEW j \in 1 .. n - shift
                   PROVE  d[j] \in {(s + shift) + j - 1, Undelivered}
        BY DEF RightFrom
      <4>1. shift + j \in 1 .. n /\ s + (shift + j) - 1 = (s + shift) + j - 1
        BY <2>1, <2>3
      <4> QED
        BY <1>7, <3>4, <4>1 DEF RightFrom
    <3>6. /\ s + shift \in Nat /\ n - shift \in Nat /\ n - shift <= len
          /\ (s + shift) + (n - shift) = s + n /\ s + n <= a + k
      BY <1>6, <2>1, <2>3
    <3>7. Fits(d, s + shift, n - shift)
      BY <1>6, <2>1, <3>1, <3>3, <3>5, <3>6 DEF Fits
    <3> QED
      BY <3>7
  <2> QED
    BY <2>2, <2>3
<1> QED
  BY <1>10, <1>11

LEMMA ExtendKeepsInv ==
    ASSUME AudioInv, NEW t \in Threads, Extend(t)
    PROVE  AudioInv'
<1>1. req[t].at \in Inside /\ Goto(t, "append") /\ mutex' = mutex /\ CountersOK'
  BY DEF Extend, Inside, AudioInv, CountersOK
<1>2. PICK d \in Seq(Stored), s \in Nat, n \in Nat :
              /\ cache' = Rewindowed(d, s, n)
              /\ Len(d) = Len(cache.data) /\ n <= Len(d) /\ s + n <= num_audio_samples
              /\ RightFrom(d, s, n)
              /\ s <= req[t].start /\ req[t].start + req[t].count <= s + Len(d)
              /\ s + n <= req[t].start + req[t].count
  BY ShiftFits
<1> QED
  BY <1>1, <1>2, Proceeds

LEMMA ReadKeepsInv ==
    ASSUME AudioInv, NEW t \in Threads, ReadRestart(t) \/ ReadAppend(t)
    PROVE  AudioInv'
<1>1. /\ req[t].at \in Inside /\ Goto(t, "copy") /\ mutex' = mutex /\ CountersOK'
      /\ req[t].at \notin {"idle", "return"}
  BY DEF ReadRestart, ReadAppend, Inside, AudioInv, CountersOK
<1>2. PICK a \in Nat, k \in Nat, s \in Nat, n \in Nat, len \in Nat :
         /\ a = req[t].start /\ k = req[t].count /\ s = cache.start /\ n = cache.count
         /\ len = Len(cache.data)
  BY <1>1, RequestFacts
<1>3. /\ a + k <= num_audio_samples /\ n <= len /\ s + n <= num_audio_samples
      /\ WindowOK(cache) /\ cache \in Caches /\ mutex = t /\ RequestOK(req[t], t, cache, mutex)
  BY <1>1, <1>2, RequestFacts DEF WindowOK, RequestOK, Inside
<1>4. CASE ReadRestart(t)
  <2>1. s = a /\ n = k /\ cache' = [cache EXCEPT !.data = Overwrite(@, 0, ChildSamples(s, n))]
    BY <1>2, <1>3, <1>4 DEF ReadRestart, RequestOK
  <2>2. PICK d : d = Overwrite(cache.data, 0, ChildSamples(s, n))
    OBVIOUS
  <2>3. n <= Len(cache.data) /\ s + n <= num_audio_samples
    BY <1>2, <1>3
  <2>4. d \in Seq(Stored) /\ Len(d) = len /\ \A j \in 1 .. n : d[j] = s + j - 1
    <3>1. WindowOK(cache)
      BY <1>3
    <3> QED
      BY <1>2, <2>2, <2>3, <3>1, ReadAtFront
  <2>5. RightFrom(d, s, n)
    BY <1>3, <2>4 DEF RightFrom
  <2>6. cache' = Rewindowed(d, s, n)
    BY <1>2, <1>3, <2>1, <2>2 DEF Rewindowed, Caches
  <2>7. n <= Len(d) /\ s <= req[t].start /\ req[t].start + req[t].count <= s + n
    BY <1>2, <1>3, <2>1, <2>4
  <2> QED
    BY <1>1, <1>2, <1>3, <2>4, <2>5, <2>6, <2>7, Proceeds
<1>5. CASE ReadAppend(t)
  <2>1. /\ req[t].at = "append" /\ ReqEnd(t) = a + k /\ CacheEnd(cache) = s + n
        /\ s <= a /\ a + k <= s + len /\ s + n <= a + k
    BY <1>2, <1>3, <1>5 DEF ReadAppend, RequestOK, ReqEnd, CacheEnd, Reach
  <2>2. PICK m \in Nat : m = a + k - (s + n)
    BY <2>1
  <2>3. PICK d : d = Overwrite(cache.data, n, ChildSamples(s + n, m))
    OBVIOUS
  <2>4. cache' = [cache EXCEPT !.data = d, !.count = n + m]
    <3>1. ReqEnd(t) - CacheEnd(cache) = m
      BY <2>1, <2>2
    <3> QED
      BY <1>2, <1>5, <2>1, <2>3, <3>1 DEF ReadAppend
  <2>5. n + m <= len /\ (s + n) + m <= num_audio_samples /\ s + n \in Nat
    BY <1>3, <2>1, <2>2
  <2>a. n + m <= Len(cache.data)
    BY <1>2, <2>5
  <2>b. PICK b \in Nat : b = s + n
    OBVIOUS
  <2>c. HasRead(d, cache, n, b, m)
    <3>1. d = Overwrite(cache.data, n, ChildSamples(b, m)) /\ b + m <= num_audio_samples
      BY <2>3, <2>5, <2>b
    <3>2. WindowOK(cache)
      BY <1>3
    <3> QED
      BY <2>a, <3>1, <3>2, ReadIn
  <2>6. /\ d \in Seq(Stored) /\ Len(d) = len
        /\ \A j \in 1 .. len : d[j] = IF j \in n + 1 .. n + m THEN (s + n) + (j - n) - 1 ELSE cache.data[j]
    BY <1>2, <2>b, <2>c DEF HasRead
  <2>7. RightFrom(cache.data, s, n)
    BY <1>2, <1>3, <2>1, WindowRight
  <2>8. RightFrom(d, s, n + m)
    <3> SUFFICES ASSUME NEW j \in 1 .. n + m PROVE d[j] \in {s + j - 1, Undelivered}
      BY DEF RightFrom
    <3>1. CASE j \in 1 .. n
      BY <1>3, <2>6, <2>7, <3>1 DEF RightFrom
    <3>2. CASE j \in n + 1 .. n + m
      <4>1. (s + n) + (j - n) - 1 = s + j - 1
        OBVIOUS
      <4> QED
        BY <2>5, <2>6, <3>2, <4>1
    <3> QED
      BY <3>1, <3>2
  <2>9. cache' = Rewindowed(d, s, n + m)
    BY <1>2, <1>3, <2>4 DEF Rewindowed, Caches
  <2>10. /\ n + m \in Nat /\ n + m <= Len(d) /\ s + (n + m) <= num_audio_samples
         /\ s <= req[t].start /\ req[t].start + req[t].count <= s + (n + m)
    <3>1. n + m \in Nat /\ s + (n + m) = (s + n) + m /\ a + k = s + (n + m)
      BY <2>1, <2>2
    <3>2. n + m <= Len(d)
      BY <2>5, <2>6
    <3> QED
      BY <1>2, <2>1, <2>5, <3>1, <3>2
  <2> QED
    BY <1>1, <1>2, <1>3, <2>6, <2>8, <2>9, <2>10, Proceeds
<1> QED
  BY <1>4, <1>5

LEMMA CopyOutKeepsInv ==
    ASSUME AudioInv, NEW t \in Threads, CopyOut(t)
    PROVE  AudioInv'
<1>1. /\ req[t].at = "copy" /\ mutex' = Nobody /\ cache' = cache /\ CountersOK'
  BY DEF CopyOut, AudioInv, CountersOK
<1>2. PICK a \in Nat, k \in Nat, s \in Nat, n \in Nat, len \in Nat, data \in Seq(Stored) :
         /\ a = req[t].start /\ k = req[t].count /\ s = cache.start /\ n = cache.count
         /\ data = cache.data /\ len = Len(data)
  <2>1. req[t].at \notin {"idle", "return"}
    BY <1>1
  <2>2. req[t].start \in Nat /\ req[t].count \in Nat
    BY <2>1, RequestFacts
  <2>3. cache.start \in Nat /\ cache.count \in Nat /\ cache.data \in Seq(Stored) /\ Len(cache.data) \in Nat
    BY RequestFacts
  <2> QED
    BY <2>2, <2>3
<1>3. /\ n <= len /\ WindowOK(cache) /\ mutex = t /\ s <= a /\ a + k <= s + n /\ k > 0
  BY <1>1, <1>2, RequestFacts, SMTT(30) DEF RequestOK, CacheEnd
<1>4. RightFrom(data, s, n)
  BY <1>1, <1>2, <1>3, WindowRight
<1> DEFINE d == SubSeq(data, a - s + 1, a - s + k)
<1>5. Deliver(t, d)
  BY <1>2 DEF CopyOut
<1>6. PICK i \in Nat, j \in Nat : i = a - s + 1 /\ j = a - s + k
  <2>1. a - s + 1 \in Nat /\ a - s + k \in Nat
    BY <1>3
  <2> QED
    BY <2>1
<1>7. \A x \in i .. j : data[x] \in Stored
  <2>1. ASSUME NEW x \in i .. j PROVE x \in 1 .. len
    BY <1>3, <1>6
  <2> QED
    BY <1>2, <2>1
<1>8. /\ SubSeq(data, i, j) \in Seq(Stored)
      /\ Len(SubSeq(data, i, j)) = IF i <= j THEN j - i + 1 ELSE 0
      /\ \A x \in 1 .. j - i + 1 : SubSeq(data, i, j)[x] = data[i + x - 1]
  BY <1>7, SubSeqProperties
<1>9. d \in Seq(Stored) /\ Len(d) = k /\ \A x \in 1 .. k : d[x] = data[a - s + x]
  <2>1. j - i + 1 = k /\ i <= j /\ \A x \in 1 .. k : i + x - 1 = a - s + x
    BY <1>3, <1>6
  <2> QED
    BY <1>6, <1>8, <2>1
<1> HIDE DEF d
<1>10. RightFrom(d, a, k)
  <2> SUFFICES ASSUME NEW x \in 1 .. k PROVE d[x] \in {a + x - 1, Undelivered}
    BY DEF RightFrom
  <2>1. a - s + x \in 1 .. n /\ s + (a - s + x) - 1 = a + x - 1
    BY <1>3
  <2> QED
    BY <1>4, <1>9, <2>1 DEF RightFrom
<1>11. PICK r \in Reqs : /\ req' = [req EXCEPT ![t] = r] /\ r.at = "return"
                         /\ \A c, m : RequestOK(r, t, c, m)
  BY <1>1, <1>2, <1>5, <1>9, <1>10, Delivered
<1>12. req[t].at # "restart" /\ mutex' \in Threads \cup {Nobody}
  BY <1>1
<1> QED
  BY <1>1, <1>3, <1>11, <1>12, OneMoves

LEMMA ThrowKeepsInv ==
    ASSUME AudioInv, NEW t \in Threads, ChildThrows(t)
    PROVE  AudioInv'
<1>1. /\ req[t].at \in {"direct", "bypass", "restart", "append"} /\ req' = [req EXCEPT ![t] = Idle]
      /\ mutex' = (IF mutex = t THEN Nobody ELSE mutex) /\ CountersOK'
  BY DEF ChildThrows, AudioInv, CountersOK
<1>2. /\ RequestOK(req[t], t, cache, mutex) /\ WindowOK(cache) /\ mutex \in Threads \cup {Nobody}
  BY RequestFacts DEF AudioInv
<1>3. mutex' \in Threads \cup {Nobody} /\ (mutex' = mutex \/ mutex = t)
  BY <1>1, <1>2
<1>4. CASE req[t].at # "restart"
  <2>1. cache' = cache
    BY <1>4 DEF ChildThrows
  <2> QED
    BY <1>1, <1>2, <1>3, <1>4, <2>1, IdleFacts, OneMoves
<1>5. CASE req[t].at = "restart"
  <2>1. PICK n \in Nat, len \in Nat, s \in Nat : n = cache.count /\ len = Len(cache.data) /\ s = cache.start
    BY RequestFacts
  <2>2. n <= len /\ s + n <= num_audio_samples /\ cache.data \in Seq(Stored) /\ mutex = t /\ cache \in Caches
    BY <1>2, <1>5, <2>1, RequestFacts DEF RequestOK, WindowOK
  <2> DEFINE nothing == [i \in 1 .. n |-> Undelivered]
             d == Overwrite(cache.data, 0, nothing)
  <2>3. nothing \in Seq(Stored) /\ Len(nothing) = n /\ \A i \in 1 .. n : nothing[i] = Undelivered
    BY StoredFacts
  <2>4. cache' = [cache EXCEPT !.data = d]
    BY <1>5, <2>1 DEF ChildThrows
  <2> HIDE DEF nothing
  <2>5. /\ d \in Seq(Stored) /\ Len(d) = len
        /\ \A j \in 1 .. len : d[j] = IF j \in 0 + 1 .. 0 + Len(nothing) THEN nothing[j - 0] ELSE cache.data[j]
    <3>1. 0 + Len(nothing) <= Len(cache.data)
      BY <2>1, <2>2, <2>3
    <3>2. PICK v \in Seq(Stored) : v = nothing
      BY <2>3
    <3>3. cache.data \in Seq(Stored)
      BY <2>2
    <3>4. d = Overwrite(cache.data, 0, v) /\ 0 + Len(v) <= Len(cache.data)
      BY <3>1, <3>2
    <3> HIDE DEF d
    <3>5. /\ d \in Seq(Stored) /\ Len(d) = Len(cache.data)
          /\ \A j \in 1 .. Len(cache.data) : d[j] = IF j \in 0 + 1 .. 0 + Len(v) THEN v[j - 0] ELSE cache.data[j]
      BY <3>3, <3>4, Overwritten
    <3> QED
      BY <2>1, <3>2, <3>5
  <2> HIDE DEF d
  <2>6. cache' = Rewindowed(d, s, n)
    BY <2>1, <2>2, <2>4 DEF Rewindowed, Caches
  <2>7. WindowOK(cache') /\ cache'.data = d /\ cache'.start = s /\ cache'.count = n
    BY <1>2, <2>1, <2>2, <2>5, <2>6, NewWindow
  <2>8. RightFrom(cache'.data, cache'.start, cache'.count)
    BY <2>2, <2>3, <2>5, <2>7 DEF RightFrom
  <2> QED
    BY <1>1, <1>3, <2>2, <2>7, <2>8, IdleFacts, OneMoves
<1> QED
  BY <1>4, <1>5

LEMMA NextKeepsInv == AudioInv /\ SharedOnlyIfScripted /\ [Next]_vars => AudioInv'
<1> SUFFICES ASSUME AudioInv, SharedOnlyIfScripted, [Next]_vars PROVE AudioInv'
  OBVIOUS
<1>1. CASE UNCHANGED vars
  BY <1>1 DEF vars, AudioInv, CountersOK
<1>2. ASSUME NEW t \in Threads, NEW r \in Requests, GetAudioOutside(t, r) \/ GetAudio(t, r) \/ GetAudioFails(t, r)
      PROVE  AudioInv'
  BY <1>2, OutsideKeepsInv, GetAudioKeepsInv, FailsKeepsInv
<1>3. ASSUME NEW t \in Threads, Step(t) PROVE AudioInv'
  BY <1>3, QuietSteps, GrowKeepsInv, KeepTailKeepsInv, RestartKeepsInv, ExtendKeepsInv, ReadKeepsInv,
     CopyOutKeepsInv, ThrowKeepsInv
  DEF Step
<1>4. ASSUME NEW h \in Hints, ApplyHints(h) PROVE AudioInv'
  BY <1>4, HintKeepsInv
<1> QED
  BY <1>1, <1>2, <1>3, <1>4 DEF Next

-------------------------------------------------------------------------------
(* Theorems                                                                *)

\* The type invariant, and WindowFits: the window never exceeds the buffer,
\* nor does what is read into it or copied out of it, although the buffer may
\* have been replaced or freed while GetAudio had unlocked the mutex.
THEOREM WindowFitsHolds == Spec /\ []SharedOnlyIfScripted => []WindowFits
<1>1. AudioInv => WindowFits
  <2> SUFFICES ASSUME AudioInv PROVE WindowFits
    OBVIOUS
  <2>1. /\ cache \in Caches /\ cache.count <= Len(cache.data) /\ (cache.policy \in Off => cache.data = <<>>)
        /\ cache.start \in Nat /\ cache.count \in Nat /\ Len(cache.data) \in Nat
    BY DEF AudioInv, WindowOK, Caches
  <2>2. TypeOK
    BY <2>1 DEF AudioInv, CountersOK, Caches, Stored, Reqs, TypeOK
  <2>3. ASSUME NEW t \in Threads, req[t].at \in {"restart", "append", "copy"}
        PROVE  mutex = t /\ cache.start <= req[t].start /\ ReqEnd(t) <= Reach(cache)
    BY <2>1, <2>3, RequestFacts DEF RequestOK, ReqEnd, Reach, CacheEnd
  <2> QED
    BY <2>1, <2>2, <2>3 DEF WindowFits, MaxSampleCount
<1> QED
  BY <1>1, InitInv, NextKeepsInv, PTL DEF Spec

\* SamplesRight while no two threads share a cache in auto mode, which is how a
\* cache begins unless the script sets a policy, and which nothing in the code
\* keeps threads from sharing: a client is given the samples that the child would
\* give, whatever windows and sizes earlier requests and hints have left.  The
\* samples that a restart with a failed read has left undelivered are excepted.
THEOREM SamplesRightHolds == Spec /\ []SharedOnlyIfScripted => []SamplesRight
<1>1. AudioInv => SamplesRight
  BY DEF AudioInv, RequestOK, RightFrom, SamplesRight
<1> QED
  BY <1>1, InitInv, NextKeepsInv, PTL DEF Spec

\* SamplesRight for a cache that only one thread uses, in auto mode or not: then
\* the code makes sure of all that is needed.  The exception is the same.
THEOREM SamplesRightForOne ==
    ASSUME \A t, u \in Threads : t = u
    PROVE  Spec => []SamplesRight
<1>1. SharedOnlyIfScripted
  BY DEF SharedOnlyIfScripted
<1> QED
  BY <1>1, SamplesRightHolds, PTL
===============================================================================
