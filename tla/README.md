# AviSynth+ core: TLA+ models, checks and proofs

AviSynth+ is a frame server: scripts build a graph of filters, and a client asks
the last filter for frames by number. What is hard to get right in it is not the
pixel arithmetic but the machinery below it, which several threads use at once:
frame caches that compute each frame once and hand it to everyone, reference
counted frames that are recycled, a thread pool, and a prefetcher that runs ahead
of the client. This directory models that machinery from its source under
`src/avs_core/`, checks it with TLC on small instances, and proves part of
it with TLAPS for all instances. Above it, it models how a script is evaluated
and what the editing filters deliver, which are sequential, but in which filters
call each other in orders that nobody wrote down.

## 1. Inventory

| Component | State | Operations | Interacts with | Hard behaviour | What makes it correct |
|---|---|---|---|---|---|
| Frame cache (`LruCache.h`, `SimpleLruCache.h`) | recency list, entries (state, locks, value, eviction count), ghost list, capacities | lookup, commit_value, rollback, set_limits | owned by AvsCache and Prefetcher; filled through the child's GetFrame | waiting on a frame somebody else computes, failures of the owner, notification after unlock, eviction around locked entries | one computation per frame, no lost wake-up, no entry destroyed in use, growth only when earned |
| Cache filter (`cache.cpp`) | a frame cache, an audio cache | GetFrame, SetCacheHints | ManageCache, LruCache | exceptions between reserving and committing | frames as asked for |
| Frames and registry (`interface.cpp`, `avisynth.cpp`) | frame and buffer counts, FrameRegistry2, memory_used | GetNewFrame, AddRef, Release, Subframe, MakeWritable, MakePropertyWritable | caches hold frames, ShrinkCache evicts them | counts change without the registry's mutex | exact counts, nothing in use deleted, writers alone |
| Thread pool (`ThreadPool.cpp/.h`, `mpmc_bounded_queue.h`) | ring buffer, finished flag, workers, promises | QueueJob, ThreadFunc, Finish, Join, JobCompletion | Prefetcher, ParallelJob, QueuePrefetcher | two condition variables, shutdown with sleepers | FIFO, nothing lost or run twice, shutdown ends |
| Prefetcher (`Prefetcher.cpp`) | stride tracker, running_workers, its cache and pool, a stored exception | GetFrame, SchedulePrefetch, ThreadWorker, destructor | frame cache and thread pool | check then act on running_workers, jobs that fail or never run | work bounded and counted, no abandoned entry, GetFrame ends |
| Audio cache (`cache.cpp`) | a window of samples in one buffer, policy, score | GetAudio, SetCacheHints | CacheGuard's mutex, the child's GetAudio | the mutex is given up while the child is read; buffer and window are changed by others meanwhile; failing reads and allocations | the samples that the child would deliver, no read or write outside the buffer, requests end |
| Cache registry (`ManageCache` and `ShrinkCache` in `avisynth.cpp`, `MappedList.h`, `CacheGuard`) | FrontCache and the other caches in order of use, per-guard hints | register, unregister, nod, want to expand, shrink, hints | LruCache limits, memory_used | caches made and destroyed while others ask for room; several devices | the registry is exact, the oldest cache of the device gives way and no other |
| MT guard and Invoke (`MTGuard.cpp`, `FilterConstructor.cpp`, `avisynth.cpp`) | filter instances with their mutexes, MT modes, pools | Invoke, GetFrame, EnableMT, Prefetch | thread pool, caches | instances multiplied while frames are requested; nested constructors; requests from constructors | one thread per instance, a filter guarded as strictly as what it contains, nobody waits in a circle |
| Variables, script evaluation, runtime filters (`vartable.h`, `expression.cpp`, `script.cpp`, `conditional*.cpp`) | stacks of frames, globals, ImportDepth, last, current_frame | assignment, functions, try/catch, Import, ScriptClip, ConditionalFilter, ConditionalSelect, Write, UseVar | requests for frames from within scripts | exceptions between saving and restoring, filters evaluated inside each other | contexts balanced, a script sees its own frame, callers undisturbed |
| Editing filters (`edit.cpp`, `field.cpp`) | offsets and lengths fixed by constructors | Trim, Splice, Dissolve, Loop, SelectEvery and the like: GetFrame, GetAudio | each other, caches on some of them | nesting, requests across seams and beyond ends | the frames and samples that the manual describes |
| Queue prefetcher (`DeviceManager.cpp`) | queue of frames between devices | GetFrame, worker | pool, cache | moving a queue while workers run | as for Prefetcher |
| Buffer pool (`BufferPool.cpp`), global locks, plugin manager, parser, argument matching | maps and lists | | | sequences of calls | lookup order, reuse, no leak |

Other filters, conversions, SIMD code, sources, fonts, the C interface and the plugins
are numerical code or I/O and are not candidates (see section 8). `PROJECT.json`
lists every component with its status and, under `hazards`, what can go wrong at
which line and which property would notice.

## 2. Modules

| Module | Models | State and actions |
|---|---|---|
| `SimpleLruCache` | `SimpleLruCache.h` | pure operators: capacities and their limits, the recency list, which keys trim() visits and in which order |
| `LruCache` | `LruCache.h` with `AvsCache::GetFrame` as its client | `lru` is the cache object, `pc` and `at` where each thread is and with which key, `result` the frame it got. One action per critical section: the six outcomes of lookup(), `Recheck` after a wait, `Fill`, `commit_value`, `notify_all`, `RollbackRemove`, `RollbackPass`, `notify_one`, `set_limits` |
| `LruGrowth` | the same with a history of evictions | adds the number of real evictions per key |
| `FrameRegistry` | `VideoFrame`, `VideoFrameBuffer`, `FrameRegistry2` | objects with their counts and lists, `refs` for the PVideoFrames of each thread and of the caches; GetNewFrame is one action (memory_mutex), Release and IsWritable are two each |
| `JobQueue` | what a thread pool promises | accept, start, end, close, give back |
| `ThreadPool` | `ThreadPool.cpp`, `mpmc_bounded_queue.h`, `JobCompletion` | the ring, its flag, the position of every client, worker and finisher; notify_one is an action of its own |
| `PrefetchPattern` | the stride tracker of `Prefetcher::GetFrame` | its six fields and a short history of strides |
| `Prefetcher` | `Prefetcher.cpp` over `LruCache`, with the pool in the form of `JobQueue` | extends `LruCache`: clients and jobs are its threads; each turn of SchedulePrefetch's loop is split where the code touches shared state |
| `MTGuard` | `MTGuard.cpp`, `FilterConstructor.cpp`, Invoke and Prefetch | `guards` of the chain with instances and mutexes, `pools`, `invoke_stack` of constructors, `calls` of every thread. `Invoke` (with the mode of a clip argument that a constructor has made itself), its return and its failure, `Prefetch`, EnableMT and the raised thread count as two steps, `PoolStarts`, release of a clip; a request locks, descends, calls NewVideoFrame and returns |
| `AudioCache` | audio part of `cache.cpp` | `cache` is policy, buffer and window, `req` where each thread is; one action per stretch between taking and giving up the mutex, so that the child is read in a step of its own |
| `CacheRegistry` | ManageCache, ShrinkCache, CacheGuard | `FrontCache`, `Registry`, `caches` with their capacities and number of frames, `hints`; a hint of the script goes to one cache of its guard after the other (`pending`), in two steps each because it does not hold memory_mutex. The constructor of a cache may throw after it has registered the cache; `lost` has the pointers that are left then. `recent`, `usedInFront` and `lost` are history |
| `VarTable` | `vartable.h` | operators on one thread's table: push and pop with their pools, set, lookup order |
| `Script` | evaluation of scripts and the runtime filters | `act` is the C++ call stack as far as it saves something, `exc` an exception on its way through it; one action per operation and per place where it returns or throws. `spoiled` and `misnamed` are history: frames that the code itself leaves unrestored |
| `EditManual` | the manual's pages on editing filters | reference operators on sequences of frames and samples |
| `Edit` | `edit.cpp`, `field.cpp` | `clip` is a tree of filter objects, each with the VideoInfo and members its constructor computes; `FrameOf` and `AudioOf` are GetFrame and GetAudio; one action per script function. `shown` is the same script by `EditManual`, and `disputed` the frames of an Interleave that the code leaves out or takes from elsewhere (section 5) |
| `MC*` | small instances for TLC | constants, symmetry sets, and a variable that picks one of several instances, so that one run covers them all; `MCPlayback` puts `Edit`, `PrefetchPattern` and `LruGrowth` side by side |
| `Lists` | erasing from the `std::list`s and `std::vector`s | a recursive function, which the proofs can unfold |
| `ListProofs` | lemmas about `Lists` and finite sequences | section 6 |
| `PrefetcherProofs` (also for `LruCache` and `PrefetchPattern`), `FrameRegistryProofs`, `ThreadPoolProofs`, `MTGuardProofs`, `CacheRegistryProofs`, `AudioCacheProofs`, `ScriptProofs` (with `VarTable`) | theorems | section 6 |

`Prefetcher` composes `LruCache` and `JobQueue`'s promise; `ThreadPool` is shown to
keep that promise, so the pair says what the code's composition does.
In the same way `MTGuard` takes from the pool only that its threads run jobs, and
`CacheRegistry` takes from a cache only its capacities and its number of frames.
Where a script decides what happens next (`MTGuard`, `Script`, `Edit`), the
specification allows every sequence of operations a script can ask for; what the
operations compare or compute is left out.

Abstractions: frames are their numbers, pixels and formats are left out; a mutex
section is atomic; waiting on a condition variable may end spuriously;
notifications after unlock are separate steps. Eviction counts saturate at 2 (the
code compares with 1), pattern counters at PATTERN_LOCK_LENGTH. An evicted entry's
condition variable lives on in the object pool, so a notification that arrives late
is at worst a spurious wake-up of another entry, which the model allows. `size_t`
and `int` do not overflow within these uses; the conversion of a negative frame
number to a cache key is one to one. Operators marked
*Mutant:* in a comment are deliberately wrong variants with which the properties
are tested; no specification uses them.

## 3. Runs

| Run | Shows |
|---|---|
| `lru` | lock counts, single ownership, pending notifications, list coherence and stability of handed-out frames, with failures and changing limits; waiters are served or the computation fails, and then somebody takes over |
| `frame_registry` | counts, lifetime, exclusive writing, recycling, properties, memory accounting over two sizes |
| `thread_pool` | no idle worker or producer, promises accounted for, refinement of `JobQueue`; jobs are served, Wait() and Finish() return |
| `prefetcher` | jobs counted and bounded, no abandoned entry up to destruction, refinement of `LruCache`; GetFrame ends |
| `mt_guard` | one thread per instance, instances exist and are not replaced under a request, modes cover what constructors invoke and make, nobody waits in a circle |
| `audio_cache` | the window fits its buffer and is right, clients get the child's samples, no buffer while off; GetAudio ends |
| `cache_registry` | every cache is registered once and in order of use, and nothing else but what constructors that threw have left; the oldest cache of the device gives way and no other, the newest keeps its limit |
| `script` | contexts balanced, reused frames empty, own frame numbers, names of the inner and of the outermost script, callers undisturbed |
| `playback` | scripts of two editing filters deliver frames and sound as the manual says; strides are locked and given up for a reason; a cache grows by one, and only for frames evicted twice, and exceeds its capacity only by entries in use. The three share no state; one moves while the others stay as they began |
| `lru_null`, `prefetch_pattern_stuck`, `interleave_length` | disagreements, section 5 |

## 4. Bounds and fairness

| Run | Instance and why it is enough |
|---|---|
| `lru` | three threads are the fewest with an owner, a waiter and a third that looks up in between; two keys over a capacity of one make every lookup of the other key an eviction; `set_limits(0, 0)` is what ShrinkCache may do to a cache. `GHOSTS_MIN_CAPACITY` is 1 instead of 50 so that ghosts are forgotten too; `Unlimited` stands for the largest `size_t` and only caps growth |
| `frame_registry` | three frames over two buffers give a subframe next to a second buffer, and every allocation beyond that takes the garbage collection path. Sizes of 3000 and 5000 bytes under a limit of 8000: the two fit together, two large ones do not, and a buffer of 5000 is or is not reused for 3000 |
| `thread_pool` | two workers, a ring of one slot for each and three jobs: full and empty often, wrapped around. Either two clients and one finisher, or one client and two finishers that race |
| `prefetcher` | two clients with one prefetched frame overtake each other in the test of running_workers; clients read forwards past the end of a clip of two frames, or backwards before its start |
| `mt_guard` | two guarded filters in a chain of calls up to depth 3, four threads, pools of one or two threads, every mode of a filter and of a clip handed to it, forced and default |
| `audio_cache` | five samples of two bytes; buffers grow from 4 to 8 bytes in steps of 3, which is less than the clip, so that windows shift, restart and are bypassed. Scores start at 2, switch at 4 and stop at 5 and −5. Either two threads under policies that the script sets, or one thread under all policies |
| `cache_registry` | up to four caches of one frame, three with a constructor that throws, three over two devices, or two caches, of two frames or on two devices, with hints of the script that arrive in between |
| `script` | four calls in each other of functions, try and ScriptClip with a statement between them; four of try, ScriptClip and Import up to depth 2; or three of all kinds but Import. Every call but try and Import sets a variable of its own, so that the last two need no further statements |
| `playback` | clips of three frames and six samples, up to two filters on each other with every frame number from −1 to 2, three frame arguments or two offsets. Two samples per frame: the manual says nothing exact about rates where it is a fraction. An endless loop has 9 frames where the code has 10000000. Strides: a history of PATTERN_LOCK_LENGTH is what the properties look at; twelve frames leave room to lose and regain a lock. Growth: two threads and three keys, so that two evict the third twice; a floor of one frame as for a cache in use |

Symmetry is used in `frame_registry`, `playback` and `cache_registry`, for threads,
keys, guards and devices, which these models only compare; never in runs of
liveness. Deadlock is checked in every run: a state without a step is an error.
Where the system is meant to stop (destroyed prefetcher, clients abandoned by a
finished pool, a script that has ended) the specification says so with an explicit
stuttering action.

Fairness is weak fairness of the steps of a thread that is inside an operation:
the operating system schedules it, and the child's GetFrame or the job returns or
throws. `AudioCache` needs strong fairness for the two steps that take its mutex
again after the child was read: another thread may take and release it in between,
and the step is right only if the mutex is handed to those who wait for it, which
the platforms' mutexes do in practice though the C++ standard does not ask for it.
No fairness is assumed of clients calling, of condition variables choosing
a particular waiter, of spurious wake-ups, of hints or of shutdown being requested.

## 5. What the checks found

1. `lru_null`: lookup() tests for EMPTY only. After rollback() has left an entry
   ROLLED_BACK and before the notified waiter runs, a third thread gets
   FOUND_AND_READY with a null frame (`LruCache.h:174`, against `LruCache.h:15` and
   the assertion `cache.cpp:266`).
2. `prefetch_pattern_stuck`: the unlocked branch compares with `Pattern` but never
   assigns it (`Prefetcher.cpp:251`). It begins as 1, so that a client that asks for
   every second frame from the start is never locked on to its stride, against the
   comments at `Prefetcher.cpp:49` and `:95`. While there is a lock `Pattern` follows
   the requests (`:238`), and a client that changes its stride then is locked again.
3. `interleave_length`: the manual gives Interleave of two clips twice the frames of
   the longer one (`filters_mult_input_clips.rst:29`, to which `interleave.rst:20`
   refers). In the code the clip ends with the last frame of the longer one
   (`field.cpp:758`), which is one frame less if that is the first.

Seen while modelling, and not runs. The models do what the code does; where a
property would fail for one of these reasons alone, it says so in its comment.

Caches:

- At capacity zero each NO_CACHE lookup counts as an eviction (`LruCache.h:268`), so
  a frame that was never stored can make the cache grow, although the comment at
  `LruCache.h:209` asks for two evictions. In `playback` the cache has a slot always.
- ManageCache picks an old cache to shrink and takes the size from the cache that
  asked (`avisynth.cpp:4861`, comment at 4853), so that the limit of the old one may
  even rise. ShrinkCache may raise a limit too when more frames are in use than it
  allows.
- The constructor of AvsCache registers the cache before things in it that can throw
  (`cache.cpp:149`, allocations at `:146`), and nothing unregisters it then.
  `RegistryExact` counts these pointers as `lost`; a step that would follow one
  is not modelled.
- The branch at `Prefetcher.cpp:240` cannot be reached: of a locked stride, PatternHits is
  always at least one behind PatternMisses.
- The audio window is moved before the child has delivered (`cache.cpp:409`); after
  an exception it covers samples that were never read. In auto mode the buffer is
  freed without the mutex (`cache.cpp:361`), which is why `audio_cache` has two threads
  only under policies that the script sets.

Scripts:

- An exception out of Import leaves the script's names and ImportDepth as they were
  inside (`script.cpp:739`, `:745`); an Import in a runtime script, at depth 0, overwrites
  `$MainScriptName$`.
- ScriptClip, ConditionalFilter and Write do not restore `last` and `current_frame`
  on every way out (`conditional.cpp:679`, `:645`, `:631`; `conditional_reader.cpp:734`).
- ConditionalFilter takes the length of the first clip for requests to the second
  (`conditional.cpp:558`).
- A `break` in a function that was defined inside a loop escapes the function
  (`expression.cpp:73`).

Editing filters:

- `DeleteFrame(1, 1, 1, 2)` deletes only frame 1: duplicates are replaced by INT_MAX, and
  two of these are taken for a further duplicate once a new number is sorted in
  before them (`edit.cpp:371`). `CallDeleteFrame` admits one duplicate.
- SelectRangeEvery::GetAudio leaves its offset out of the samples that remain in a
  range (`field.cpp:1134`, comment in the next line). `AudioAsDocumented` then looks at
  requests of one sample.
- `Loop(0)` with sound that is shorter than the dropped frames has a negative number of
  samples (`edit.cpp:1069`); `CallLoop` leaves it out. With a fractional number of
  samples per frame, sound drifts from one turn to the next.
- Dissolve with an overlap of zero takes the last sample before the seam from
  the second clip's sample −1 when a request crosses it.
- SelectEvery with an offset beyond the clip has one frame instead of none, by C's
  division (`field.cpp:827`).
- Trim and SelectEvery have no cache of their own that would clamp frame numbers.
  Under Interleave with a longer clip they show frames outside of their selection,
  where the manual repeats the last one (`filters_mult_input_clips.rst:35`).
  `FramesAsDocumented` excepts these frames and the one that is missing by item 3
  (`disputed`), and `Edit` lets a script end there.

## 6. Proofs

All theorems are about the unbounded specifications: any constants that the named
ASSUMEs allow (finite sets of threads and workers where they are counted, natural
capacities, a null frame that is no frame), which TLC evaluates in every run.
TLC tried the parts of an inductive invariant on the instance of its run before they
were proved.

**Frame cache** (first part of `PrefetcherProofs`). `CoreInv` is the conjunction of `CoreTypeOK`,
`LockAccounting`, `SingleFlight` and `NotificationPending`. None of the three safety
parts is inductive alone: that `Recheck` and `commit_value` find their entry needs
the lock count, which keeps `Trim` from evicting it; that the count is exact after a
take-over needs single ownership; that a rolled back entry still has somebody awake
needs both. Evictions (`MissEvicts`, `TrimEvicts`) remove only unlocked entries and
change no other; each action then changes one entry and one thread, and one lemma
per action accounts for the threads that hold the entry before and after.

`LruInv` adds `Coherent`, for `ListCoherent`, `SizeBound` and `AvailableIsStable`.
In the middle of a missed lookup the list holds a key that has no entry
yet, so `Coherent(c, K)` says that list and pool agree except for the keys of K, and
the lemmas follow the cache object through Link, GhostPut and Grow. The one way for
that key to be lost again is Grow's trim with a capacity of nothing, so the
invariant must also say (`CapOK`) that a cache that can store something has a limit
above zero. What the loop of `trim` leaves in the ghost list is proved by induction over its
turns (`CountedOK`).

**Prefetcher** (second part of `PrefetcherProofs`), for any clients, jobs, workers, strides and clip length:

- It implements `LruCache` (`PrefetcherUsesLruCache`), so that the theorems above hold
  inside a prefetcher (`PrefetchedOnce`). The invariant says what a step needs to be a
  step of the cache: calls are about frames of the clip, lookups ahead are within
  nPrefetchFrames of them and so are keys, and everything queued or running is a job.
- `WorkersCountedHolds` and `PrefetchBoundHolds`. The test of running_workers and its
  increment are two steps, so the plain bound is not inductive. `CountInv` charges a
  client that has tested and not yet incremented in advance, and relates
  running_workers to the jobs that are queued or running: never fewer, and equal
  until the prefetcher is closed. That the counts are numbers needs finite workers.
- `NoOrphanEntryHolds`: `IdleInv` says which threads are outside the cache once a job has
  ended or a client has returned; with `LockAccounting` and `SingleFlight` of the
  embedded cache, an entry without a value has an owner who is still running.

**Stride tracker** (last part of `PrefetcherProofs`). `LockFollowsRequests` speaks of the last strides only, while
the counters remember older ones; `PatternInv` says for each counter how long the run
of equal (or of deviating) strides behind it must be.

**Thread pool** (`ThreadPoolProofs`). `PoolInv` says that every job is in one place
(`JobsInv`: in the queue once, or with one client or worker), that the values
that are ready and the promises still to be kept add up to nJobs until Finish
(`AccountInv`), and that NumRunning counts the workers, of whom nobody sleeps on a
finished queue (`WorkersInv`).
`NoLostWakeup` needs to know that whoever has changed the ring under the mutex still
owes its notification. The refinement of `JobQueue` maps the ring buffer to a queue;
that a job is started once there is `JobsInv`.

**MT guard** (`MTGuardProofs`). `OneThreadPerInstance` and `ArrayNotInUse` follow from
`MTInv`: a call past the lock owns its instance, the nested calls of a thread go down
the chain, a pool's thread stays at or below the pool's filter (`CallsInv`), and
pools stand behind guards that EnableMT has been through, so that it replaces no array
in use (`PoolsInv`, `ScriptInv`). `ModeCoversInner` needs that the counters on
`invoke_stack` cover what the filters below a guard ask for (`StackInv`). `NobodyStuck`
is stated with ENABLED, which the prover does not take. What is proved is the argument
behind it, `NobodyWaitsInACircle`: while a request is under way some thread can go
on. Whoever owns an instance has a request past its lock (`OwnersInv`), so a
waiting thread waits for one whose innermost request is further down the chain,
and the furthest down can go on.

**Frame registry** (`FrameRegistryProofs`). The counts of frames and buffers are sums
over references in many places, and decrements whose second half is still to come.
`RegistryInv` keeps, for each object, the set of its holders (references, caches,
and threads between the two halves of Release) and the count as that set's size,
so that a step is an element that is added or removed. `ExclusiveWriter` needs more: IsWritable
reads two counts one after the other, so the invariant says what a thread that has read
the first may rely on while others still run. `RegistryComplete` adds up sizes with a fold that
chooses its own order, of which the prover knows nothing; it stays with TLC.

**Cache registry** (`CacheRegistryProofs`). With constructors that throw at any time, the registry has
every cache there is and what such constructors have left (`lost`). It is ordered by use, except for
caches that have been in front: they keep their place and are moved when they
leave it. `RegistryInv` states this (`ListsOK`), and that the real capacity of a cache
follows its limits (`CachesOK`): without it, expanding another cache might lower the
front cache's limit, which `FrontKeepsLimit` forbids.

**Audio cache** (`AudioCacheProofs`). `WindowFits` and `SamplesRight` hold of any clip, any
requests and any sizes, also when the child throws, an allocation fails or a hint
replaces the buffer in between, provided that `SharedOnlyIfScripted` always holds: threads may
share a cache only while its policy is one that GetAudio does not switch. Auto mode is
the default, its switch takes no mutex (section 5), and nothing in the code enforces
the assumption; with one thread it holds, which is `SamplesRightForOne`. Both
theorems except the positions that a failed restart has left undelivered. `AudioInv` says where the
window lies in the clip (`WindowOK`), what each label of a request has established about
it under the mutex (`RequestOK`: the child is read to exactly the end of the window, which
leaves room for it), and that the window holds the right samples unless somebody
is about to read them. The arithmetic of shifting by half of what precedes
the request is in `ShiftFits`.

**Scripts** (`ScriptProofs`), for any clips, files and frame numbers, any depth of calls and imports, and
exceptions at any point. None of the four properties is inductive: the frames that a
call must find again when it returns may have many others above them, and each
of these belongs to another call. `ScriptInv` therefore accounts for the whole C++ stack `act` at once:

- `Counted`: one stack frame for the script, each function and each filter with
  variables of its own, and one global frame for each of the latter.
- `DepthOK`: ImportDepth is at least the number of imports under way, and more if the
  outermost of them has not set `$MainScriptName$`.
- `Fitting`: there is a sequence of levels, one for each depth of `act`, that fits the
  table (`Fits`). A level has the sizes of the two stacks of frames there, what the global
  frames show of `last` and `current_frame`, the `current_frame` that is seen, and
  the script that is read. `Levels` says how a level follows from the one below by
  the kind of the call; `Kept`, that the table under a call is as the call has saved
  it; `Seen`, `NameSeen` and `MainSeen`, that the table shows what the levels say,
  except in frames that an error has left unrestored (`spoiled`, `misnamed`).

A witness is needed because the levels of the outer calls cannot be computed from the
table: they are hidden by the frames above. Steps then come in four shapes: a
statement writes to the innermost frame, a call pushes a level, a return or an exception
pops one, and a filter changes its phase. What `Get` finds is first restated as
the value in the topmost frame that has the name (`GlobalSees`, `FrameSees`, `GetIs`), and one lemma
per shape says what it leaves of a fit. Of the step that ends a call
`StepOK` says in addition what the caller sees, which is `CallerUndisturbed`.

**Lists** (`ListProofs`). What erasing leaves is defined by recursion over the list, and
the library's induction theorems take an operator as a parameter. Induction
is therefore stated for properties given as sets (`InductionOnSet`, from the well-foundedness of <
by `LeastNumber`); `DropList`, `AppendList` and `PrependList` say what is left, in which order,
and that a list without repetitions stays one.

Only model-checked: liveness and ENABLED, which the prover does not support; `RegistryComplete`;
`GrowthAfterEvictions`, which holds only for caches that always may store a frame;
`FramesAsDocumented`, `AudioAsDocumented` and `LengthAsDocumented` of `Edit`, whose trees of filters are walked by
RECURSIVE operators, which the prover does not take. `NobodyStuck` is proved in the
form without ENABLED above.

## 7. Plan

Modelled so far: frame cache, audio cache, cache registry, frame registry, thread
pool, prefetcher, MT guard with the constructing part of Invoke, variables,
evaluation of scripts with the runtime filters, editing filters. Left, in this order:

1. `Script`: loops and `break`, and the choice among overloaded functions in Invoke.
2. `Edit`: AudioTrim, clips without sound or without video, and the field filters
   (Weave, Bob, SeparateFields) with GetParity.
3. `QueuePrefetcher`: the queue between devices, over `JobQueue`.
4. `BufferPool` and the named global locks.

## 8. Not modelled

Pixel and sample processing with its SIMD variants, colour conversion, text
rendering, the Expr compiler: functions of data without state. They, with the font
tables and the assembler that Expr uses, are most of the repository's
lines, which is why these models stand for a small share of them. Sources, AVI and
plugin loading, the C interface, CUDA: I/O or forwarding. The filter graph is a
debugging aid. Debug builds, the alternative registry (`ALTERNATIVE_VFB_TIMESTAMP`, not
defined in any build) and logging are left out. Left out besides, by component:

- Prefetcher: the path that bypasses it while Invoke runs only forwards to the child.
  A job that fails stores its exception and decrements running_workers in one
  step (`JobFailed`), while the code takes a mutex for the first only.
- Frame registry: IsPropertyWritable and the change of a property that follows are
  one step (`SetProperty`); a count of one is the caller's own reference, so that no other
  thread can raise it in between.
- Cache registry: the amount that ManageCache takes away, and a limit that a hint
  loses, are in the model, but no property judges them. The memory of a cache whose
  constructor threw becoming another cache's, and a cache that is leaked because
  its guard's audio hint throws (`cache.cpp:652`), are left out.
- Audio cache: auto mode with two threads at once, which is a data race.
- MT guard: ForwardUserCacheHint, which tells all instances a hint, and GetParity,
  which takes no lock.
- Scripts: exceptions of other classes than AvisynthError, which take another way
  through `expression.cpp`; what the constructors of WriteFileStart and WriteFileEnd evaluate
  (`conditional_reader.cpp:644`); tokenizer, parser, operators and loops; matching of arguments to parameter
  types; the store of saved strings; threads of the prefetcher that evaluate runtime
  scripts, each on a table of its own under the same top frame.
- Queue prefetcher: used only between a CPU and a CUDA device, with constant sizes.
- Buffer pool: a free list that one thread uses at a time. Global locks: a map of named
  mutexes. AVSMap: a copy-on-write map; `FrameRegistry` keeps one property per frame.
  Plugin manager: a chain of map lookups behind library loading.
- Editing filters: AudioTrim, clips without sound or video, field filters; DeleteFrame with two
  or more duplicates, Dissolve with an overlap of zero (section 5).
