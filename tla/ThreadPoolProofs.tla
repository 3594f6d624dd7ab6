---------------------------- MODULE ThreadPoolProofs ---------------------------
(***************************************************************************)
(* ThreadPool for any number of workers, clients and jobs: the wake-ups    *)
(* that push_front, pop_back and finish send are enough, every promise is  *)
(* accounted for, and the pool is a FIFO queue of jobs.                    *)
(***************************************************************************)
EXTENDS ThreadPool, Integers, FiniteSetTheorems, TLAPS

Owners == Clients \cup Workers

LEMMA CapacityType == Capacity \in Nat \ {0} /\ Slots = 0 .. Capacity - 1
<1>1. Cardinality(Workers) \in Nat \ {0}
  BY PoolAssumption, FS_CardinalityType, FS_EmptySet
<1>2. \A a, b \in Nat \ {0} : a * b \in Nat \ {0}
  OBVIOUS
<1> QED
  BY <1>1, <1>2, PoolAssumption DEF Capacity, Slots

-------------------------------------------------------------------------------
(* The circular buffer                                                     *)

Rings == [array : [Slots -> Jobs \cup {NoJob}], head : Slots, tail : Slots,
          size : 0 .. Capacity]

\* The place of the i-th item from the tail t, oldest first.
Place(t, i) == (t + i - 1) % Capacity

\* The buffer holds size jobs between its tail and its head.
RingOK(r) ==
    /\ r \in Rings
    /\ r.head = (r.tail + r.size) % Capacity
    /\ \A i \in 1 .. r.size : r.array[Place(r.tail, i)] \in Jobs

\* Wrapping around at the end of the array.
LEMMA Wrap ==
    ASSUME NEW a \in 0 .. 2 * Capacity - 1
    PROVE  a % Capacity = IF a < Capacity THEN a ELSE a - Capacity
<1> DEFINE N == Capacity
<1>1. N \in Nat \ {0}
  BY CapacityType
<1> HIDE DEF N
<1>2. ASSUME NEW b \in 0 .. N - 1 PROVE b % N = b
  BY <1>1
<1>3. ASSUME NEW b \in N .. 2 * N - 1 PROVE b % N = b - N
  BY <1>1
<1>4. a % N = IF a < N THEN a ELSE a - N
  BY <1>1, <1>2, <1>3 DEF N
<1> QED
  BY <1>4 DEF N

\* The places of n items from the tail t: no two meet, and the head is behind
\* the newest one.
LEMMA Places ==
    ASSUME NEW t \in 0 .. Capacity - 1, NEW n \in 0 .. Capacity
    PROVE  /\ \A i \in 1 .. n : Place(t, i) \in 0 .. Capacity - 1
           /\ n < Capacity => \A i \in 1 .. n : Place(t, i) # (t + n) % Capacity
           /\ n < Capacity => (((t + n) % Capacity) + 1) % Capacity = (t + (n + 1)) % Capacity
           /\ Place(t, 1) = t
           /\ \A i \in 2 .. n : Place(t, i) # t
           /\ n > 0 => /\ (t + n) % Capacity = (((t + 1) % Capacity) + (n - 1)) % Capacity
                       /\ \A i \in 1 .. n - 1 : Place((t + 1) % Capacity, i) = Place(t, i + 1)
<1> DEFINE N == Capacity
<1>0. N \in Nat \ {0} /\ \A k \in 0 .. 2 * N - 1 : k % N = IF k < N THEN k ELSE k - N
  BY Wrap, CapacityType
<1>1. t \in 0 .. N - 1 /\ n \in 0 .. N
  OBVIOUS
<1> USE DEF Place
<1> DEFINE u == (t + 1) % N
<1>2. u = (IF t + 1 < N THEN t + 1 ELSE t + 1 - N) /\ u \in 0 .. N - 1
  BY <1>0, <1>1
<1> HIDE DEF N, u
<1>3. \A i \in 1 .. N : (t + i - 1) % N = IF t + i - 1 < N THEN t + i - 1 ELSE t + i - 1 - N
  BY <1>0, <1>1
<1>4. (t + n) % N = IF t + n < N THEN t + n ELSE t + n - N
  BY <1>0, <1>1
<1>5. n < N => (((t + n) % N) + 1) % N = (t + (n + 1)) % N
  BY <1>0, <1>1, <1>4
<1>6. n > 0 => (u + (n - 1)) % N = IF u + (n - 1) < N THEN u + (n - 1) ELSE u + (n - 1) - N
  BY <1>0, <1>1, <1>2
<1>7. \A i \in 1 .. N - 1 : (u + i - 1) % N = IF u + i - 1 < N THEN u + i - 1 ELSE u + i - 1 - N
  BY <1>0, <1>2, SMTT(30)
<1>8. n > 0 => (t + n) % N = (u + (n - 1)) % N
  BY <1>0, <1>1, <1>2, <1>4, <1>6
<1>9. \A i \in 1 .. n - 1 : (u + i - 1) % N = (t + (i + 1) - 1) % N
  <2> SUFFICES ASSUME NEW i \in 1 .. n - 1 PROVE (u + i - 1) % N = (t + (i + 1) - 1) % N
    OBVIOUS
  <2>1. i \in 1 .. N - 1 /\ i + 1 \in 1 .. N
    BY <1>0, <1>1
  <2> QED
    BY <1>0, <1>1, <1>2, <1>3, <1>7, <2>1
<1>10. n < N => \A i \in 1 .. n : (t + i - 1) % N # (t + n) % N
  BY <1>0, <1>1, <1>3, <1>4
<1>11. \A i \in 1 .. n : (t + i - 1) % N \in 0 .. N - 1
  BY <1>0, <1>1, <1>3
<1>12. (t + 1 - 1) % N = t /\ \A i \in 2 .. n : (t + i - 1) % N # t
  BY <1>0, <1>1, <1>3
<1> QED
  BY <1>5, <1>8, <1>9, <1>10, <1>11, <1>12 DEF N, u

LEMMA RingFacts ==
    ASSUME NEW r, RingOK(r)
    PROVE  /\ r \in Rings /\ r.size \in 0 .. Capacity /\ Capacity \in Nat \ {0}
           /\ r.tail \in 0 .. Capacity - 1 /\ r.head \in 0 .. Capacity - 1
           /\ r.tail \in Slots /\ r.head \in Slots
           /\ r.array \in [Slots -> Jobs \cup {NoJob}]
           /\ r.head = (r.tail + r.size) % Capacity
BY CapacityType DEF RingOK, Rings

LEMMA ItemsType ==
    ASSUME NEW r, RingOK(r)
    PROVE  /\ Items(r) \in Seq(Jobs)
           /\ Len(Items(r)) = r.size
           /\ DOMAIN Items(r) = 1 .. r.size
           /\ \A i \in 1 .. r.size : Items(r)[i] = r.array[Place(r.tail, i)]
<1>1. r.size \in Nat
  BY RingFacts
<1>2. Items(r) = [i \in 1 .. r.size |-> r.array[Place(r.tail, i)]]
  BY DEF Items, Place
<1> QED
  BY <1>1, <1>2 DEF RingOK

\* push_front adds a job behind the newest one.
LEMMA PushItems ==
    ASSUME NEW r, RingOK(r), ~Full(r), NEW j \in Jobs
    PROVE  /\ RingOK(PushFront(r, j))
           /\ PushFront(r, j).size = r.size + 1
           /\ Items(PushFront(r, j)) = Append(Items(r), j)
<1> DEFINE p == PushFront(r, j)
<1>0. r.size \in 0 .. Capacity /\ r.tail \in 0 .. Capacity - 1
  BY RingFacts
<1>1. r.size < Capacity /\ r.size \in Nat
  BY RingFacts DEF Full
<1>a. /\ \A i \in 1 .. r.size : Place(r.tail, i) \in 0 .. Capacity - 1
      /\ \A i \in 1 .. r.size : Place(r.tail, i) # (r.tail + r.size) % Capacity
      /\ (((r.tail + r.size) % Capacity) + 1) % Capacity = (r.tail + (r.size + 1)) % Capacity
  BY <1>0, <1>1, Places, SMTT(30)
<1>b. r.head = (r.tail + r.size) % Capacity
  BY RingFacts
<1>2. /\ p.array = [r.array EXCEPT ![r.head] = j] /\ p.head = (r.head + 1) % Capacity
      /\ p.tail = r.tail /\ p.size = r.size + 1
  BY RingFacts DEF PushFront, Rings
<1>3. (r.head + 1) % Capacity \in 0 .. Capacity - 1
      /\ (r.head + 1) % Capacity = (r.tail + (r.size + 1)) % Capacity
  <2>1. (r.head + 1) % Capacity = (r.tail + (r.size + 1)) % Capacity
    BY <1>a, <1>b
  <2> QED
    BY <2>1, RingFacts, Wrap
<1>4. p \in Rings
  <2>1. r.size + 1 \in 0 .. Capacity /\ (r.head + 1) % Capacity \in Slots /\ r \in Rings
    <3>1. r.size + 1 \in 0 .. Capacity
      BY <1>1, CapacityType
    <3> QED
      BY <3>1, <1>3, RingFacts, CapacityType
  <2> QED
    BY <2>1 DEF Rings, PushFront
<1>5. \A i \in 1 .. r.size : Place(r.tail, i) \in Slots /\ Place(r.tail, i) # r.head
  BY <1>a, <1>b, CapacityType
<1>6. Place(r.tail, r.size + 1) = r.head
  BY <1>1, RingFacts DEF Place
<1> HIDE DEF p
<1>7. /\ \A i \in 1 .. r.size : p.array[Place(r.tail, i)] = r.array[Place(r.tail, i)]
      /\ p.array[Place(r.tail, r.size + 1)] = j
  BY <1>2, <1>5, <1>6, RingFacts
<1>8. \A i \in 1 .. p.size : p.array[Place(p.tail, i)] \in Jobs
  BY <1>1, <1>2, <1>7 DEF RingOK
<1>9. RingOK(p)
  BY <1>2, <1>3, <1>4, <1>8, RingFacts DEF RingOK
<1>10. Items(p) = Append(Items(r), j)
  <2> DEFINE a == Append(Items(r), j)
             n == r.size
  <2>1. /\ Items(p) \in Seq(Jobs) /\ Len(Items(p)) = n + 1
        /\ \A i \in 1 .. n + 1 : Items(p)[i] = p.array[Place(r.tail, i)]
    <3>1. /\ Items(p) \in Seq(Jobs) /\ Len(Items(p)) = p.size
          /\ \A i \in 1 .. p.size : Items(p)[i] = p.array[Place(p.tail, i)]
      BY <1>9, ItemsType
    <3> QED
      BY <1>2, <3>1
  <2>2. /\ Items(r) \in Seq(Jobs) /\ Len(Items(r)) = n
        /\ \A i \in 1 .. n : Items(r)[i] = r.array[Place(r.tail, i)]
    BY ItemsType
  <2>3. a \in Seq(Jobs) /\ Len(a) = n + 1 /\ a[n + 1] = j
        /\ \A i \in 1 .. n : a[i] = Items(r)[i]
    BY <2>2, <1>1
  <2> HIDE DEF a
  <2>4. \A i \in 1 .. n + 1 : Items(p)[i] = a[i]
    <3> SUFFICES ASSUME NEW i \in 1 .. n + 1 PROVE Items(p)[i] = a[i]
      OBVIOUS
    <3>1. CASE i = n + 1
      BY <3>1, <1>7, <2>1, <2>3
    <3>2. CASE i \in 1 .. n
      BY <3>2, <1>7, <2>1, <2>2, <2>3
    <3> QED
      BY <1>1, <3>1, <3>2
  <2>5. Items(p) = a
    BY <2>1, <2>3, <2>4
  <2> QED
    BY <2>5 DEF a
<1> QED
  BY <1>2, <1>9, <1>10 DEF p

\* pop_back takes the oldest job.
LEMMA PopItems ==
    ASSUME NEW r, RingOK(r), ~Empty(r)
    PROVE  /\ RingOK(PopBack(r))
           /\ r.size > 0
           /\ PopBack(r).size = r.size - 1
           /\ Items(r) # <<>>
           /\ Oldest(r) \in Jobs
           /\ Oldest(r) = Head(Items(r))
           /\ Items(PopBack(r)) = Tail(Items(r))
<1> DEFINE p == PopBack(r)
<1>1. r.size > 0 /\ r.size \in Nat
  BY RingFacts DEF Empty
<1>2. /\ p.array = [r.array EXCEPT ![r.tail] = NoJob] /\ p.tail = (r.tail + 1) % Capacity
      /\ p.head = r.head /\ p.size = r.size - 1
  BY RingFacts DEF PopBack, Rings
<1>3. (r.tail + 1) % Capacity \in Slots
      /\ r.head = (((r.tail + 1) % Capacity) + (r.size - 1)) % Capacity
  <2>1. r.head = (((r.tail + 1) % Capacity) + (r.size - 1)) % Capacity
    BY <1>1, RingFacts, Places
  <2> QED
    BY <2>1, RingFacts, Wrap, CapacityType, SMTT(30)
<1>4. p \in Rings
  <2>1. r.size - 1 \in 0 .. Capacity
    BY <1>1, RingFacts
  <2> QED
    BY <2>1, <1>3, RingFacts DEF Rings, PopBack
<1>5. /\ \A i \in 1 .. r.size - 1 : Place(p.tail, i) = Place(r.tail, i + 1)
      /\ Place(r.tail, 1) = r.tail
  BY <1>1, <1>2, Places, RingFacts
<1>6. \A i \in 1 .. r.size - 1 : /\ i + 1 \in 1 .. r.size
                                 /\ Place(r.tail, i + 1) \in Slots
                                 /\ Place(r.tail, i + 1) # r.tail
  <2> SUFFICES ASSUME NEW i \in 1 .. r.size - 1
               PROVE  /\ i + 1 \in 1 .. r.size
                      /\ Place(r.tail, i + 1) \in Slots
                      /\ Place(r.tail, i + 1) # r.tail
    OBVIOUS
  <2>1. i + 1 \in 1 .. r.size /\ i + 1 \in 2 .. r.size
    BY <1>1
  <2> QED
    BY <2>1, Places, RingFacts, CapacityType
<1> HIDE DEF p
<1>7. \A i \in 1 .. r.size - 1 : p.array[Place(p.tail, i)] = r.array[Place(r.tail, i + 1)]
  BY <1>2, <1>5, <1>6, RingFacts
<1>8. \A i \in 1 .. p.size : p.array[Place(p.tail, i)] \in Jobs
  BY <1>2, <1>6, <1>7 DEF RingOK
<1>9. RingOK(p)
  BY <1>2, <1>3, <1>4, <1>8 DEF RingOK
<1>10. Oldest(r) = r.array[Place(r.tail, 1)] /\ Oldest(r) \in Jobs
  BY <1>1, <1>5 DEF Oldest, RingOK
<1>11. /\ Items(r) \in Seq(Jobs) /\ Len(Items(r)) = r.size
       /\ \A i \in 1 .. r.size : Items(r)[i] = r.array[Place(r.tail, i)]
  BY ItemsType
<1>12. /\ Items(p) \in Seq(Jobs) /\ Len(Items(p)) = r.size - 1
       /\ \A i \in 1 .. r.size - 1 : Items(p)[i] = p.array[Place(p.tail, i)]
  BY <1>2, <1>9, ItemsType
<1>13. Items(r) # <<>> /\ Head(Items(r)) = Oldest(r)
  BY <1>1, <1>10, <1>11
<1>14. Items(p) = Tail(Items(r))
  <2> DEFINE a == Tail(Items(r))
             n == r.size
  <2>1. a \in Seq(Jobs) /\ Len(a) = n - 1 /\ \A i \in 1 .. n - 1 : a[i] = Items(r)[i + 1]
    BY <1>1, <1>11
  <2> HIDE DEF a
  <2>2. \A i \in 1 .. n - 1 : Items(p)[i] = a[i]
    BY <1>6, <1>7, <1>11, <1>12, <2>1
  <2>3. Items(p) = a
    BY <1>12, <2>1, <2>2
  <2> QED
    BY <2>3 DEF a
<1> QED
  BY <1>1, <1>2, <1>9, <1>10, <1>13, <1>14 DEF p

-------------------------------------------------------------------------------
(* The invariant                                                           *)

Distinct(q) == \A i, k \in 1 .. Len(q) : q[i] = q[k] => i = k

\* Every job is in one place: in the queue once, with one client or with one
\* worker; and only such a job has a promise to keep.
JobsInv ==
    /\ RingOK(ring)
    /\ Distinct(Items(ring))
    /\ \A t, u \in Owners : job[t] = job[u] /\ job[t] # NoJob => t = u
    /\ \A t \in Owners : job[t] \notin Queued
    /\ \A j \in Jobs : promise[j] # NoClient => j \in Queued \/ \E t \in Owners : job[t] = j

\* The promises that a completion object waits for.
Pending(c) == {j \in Jobs : promise[j] = c}

\* Finish() may leave promises that nobody sets.
AccountInv ==
    \A c \in Clients :
        /\ IsFiniteSet(Pending(c))
        /\ completion[c].ready + Cardinality(Pending(c)) <= completion[c].nJobs
        /\ ~finished => completion[c].ready + Cardinality(Pending(c)) = completion[c].nJobs

\* NumRunning counts the workers, which leave only a finished queue, as
\* finishers wait only for one; and nobody sleeps on a finished queue.
WorkersInv ==
    /\ NumRunning = Cardinality({w \in Workers : pc[w] # "gone"})
    /\ \A w \in Workers : pc[w] \in {"exit", "gone"} => finished
    /\ \A f \in Finishers : pc[f] # "idle" => finished
    /\ finished => \A t \in Owners : pc[t] \notin {"pop_wait", "push_wait"}

PoolInv == TypeOK /\ JobsInv /\ AccountInv /\ WorkersInv /\ NoLostWakeup

-------------------------------------------------------------------------------
(* Jobs                                                                    *)

LEMMA AppendDistinct ==
    ASSUME NEW q \in Seq(Jobs), Distinct(q), NEW j \in Jobs, j \notin ToSet(q)
    PROVE  Distinct(Append(q, j)) /\ ToSet(Append(q, j)) = ToSet(q) \cup {j}
<1> DEFINE a == Append(q, j)
           n == Len(q)
<1>1. a \in Seq(Jobs) /\ Len(a) = n + 1 /\ a[n + 1] = j /\ n \in Nat
      /\ \A i \in 1 .. n : a[i] = q[i]
  OBVIOUS
<1>2. DOMAIN q = 1 .. n /\ DOMAIN a = 1 .. n + 1
  BY <1>1
<1> HIDE DEF a
<1>3. \A i \in 1 .. n : q[i] # j
  BY <1>2 DEF ToSet
<1>4. Distinct(a)
  <2> SUFFICES ASSUME NEW i \in 1 .. n + 1, NEW k \in 1 .. n + 1, a[i] = a[k] PROVE i = k
    BY <1>1 DEF Distinct
  <2>1. CASE i \in 1 .. n /\ k \in 1 .. n
    BY <1>1, <2>1 DEF Distinct
  <2>2. CASE i = n + 1 \/ k = n + 1
    BY <1>1, <1>3, <2>2
  <2> QED
    BY <1>1, <2>1, <2>2
<1>5. ToSet(a) = ToSet(q) \cup {j}
  <2>1. ToSet(a) = {a[i] : i \in 1 .. n + 1} /\ ToSet(q) = {q[i] : i \in 1 .. n}
    BY <1>2 DEF ToSet
  <2> QED
    BY <1>1, <2>1
<1> QED
  BY <1>4, <1>5 DEF a

LEMMA TailDistinct ==
    ASSUME NEW q \in Seq(Jobs), Distinct(q), q # <<>>
    PROVE  /\ Distinct(Tail(q)) /\ Head(q) \in ToSet(q)
           /\ ToSet(Tail(q)) = ToSet(q) \ {Head(q)}
<1> DEFINE a == Tail(q)
           n == Len(q)
<1>1. a \in Seq(Jobs) /\ Len(a) = n - 1 /\ n \in Nat \ {0} /\ Head(q) = q[1]
      /\ \A i \in 1 .. n - 1 : a[i] = q[i + 1]
  OBVIOUS
<1>2. DOMAIN q = 1 .. n /\ DOMAIN a = 1 .. n - 1
  BY <1>1
<1> HIDE DEF a
<1>3. ToSet(a) = {a[i] : i \in 1 .. n - 1} /\ ToSet(q) = {q[i] : i \in 1 .. n}
  BY <1>2 DEF ToSet
<1>4. Distinct(a)
  <2> SUFFICES ASSUME NEW i \in 1 .. n - 1, NEW k \in 1 .. n - 1, a[i] = a[k] PROVE i = k
    BY <1>1 DEF Distinct
  <2>1. i + 1 \in 1 .. n /\ k + 1 \in 1 .. n /\ q[i + 1] = q[k + 1]
    BY <1>1
  <2>2. i + 1 = k + 1
    BY <2>1 DEF Distinct
  <2> QED
    BY <2>2
<1>5. \A i \in 2 .. n : q[i] # q[1]
  BY <1>1 DEF Distinct
<1>6. ASSUME NEW x \in ToSet(a) PROVE x \in ToSet(q) \ {q[1]}
  <2>1. PICK i \in 1 .. n - 1 : x = a[i]
    BY <1>3, <1>6
  <2>2. i + 1 \in 2 .. n /\ i + 1 \in 1 .. n /\ x = q[i + 1]
    BY <1>1, <2>1
  <2> QED
    BY <1>3, <1>5, <2>2
<1>7. ASSUME NEW x \in ToSet(q), x # q[1] PROVE x \in ToSet(a)
  <2>1. PICK i \in 1 .. n : x = q[i]
    BY <1>3
  <2>2. i - 1 \in 1 .. n - 1 /\ a[i - 1] = q[(i - 1) + 1] /\ (i - 1) + 1 = i
    BY <1>1, <1>7, <2>1
  <2> QED
    BY <1>3, <2>1, <2>2
<1>8. q[1] \in ToSet(q)
  BY <1>1, <1>3
<1> QED
  BY <1>1, <1>4, <1>6, <1>7, <1>8 DEF a

\* A step that leaves the jobs where they are.
LEMMA JobsStay ==
    ASSUME JobsInv, UNCHANGED <<ring, job, promise>>
    PROVE  JobsInv'
BY DEF JobsInv, Queued

\* Who holds a job, and what is queued, at the start of a step.
LEMMA JobFacts ==
    ASSUME TypeOK, JobsInv
    PROVE  /\ job = [t \in Owners |-> job[t]]
           /\ \A t \in Owners : job[t] \in Jobs \cup {NoJob}
           /\ promise = [j \in Jobs |-> promise[j]]
           /\ Items(ring) \in Seq(Jobs) /\ Queued \subseteq Jobs
<1>1. Items(ring) \in Seq(Jobs)
  BY ItemsType DEF JobsInv
<1>2. Queued \subseteq Jobs
  BY <1>1 DEF Queued, ToSet
<1> QED
  BY <1>1, <1>2 DEF TypeOK, Owners

\* Some thread lets go of its job, which also loses its promise.
LEMMA JobEnds ==
    ASSUME TypeOK, JobsInv, NEW t \in Owners, job[t] \in Jobs,
           job' = [job EXCEPT ![t] = NoJob], promise' = [promise EXCEPT ![job[t]] = NoClient],
           ring' = ring
    PROVE  JobsInv'
<1>1. \A u \in Owners : job'[u] = IF u = t THEN NoJob ELSE job[u]
  BY JobFacts
<1>2. \A j \in Jobs : promise'[j] = IF j = job[t] THEN NoClient ELSE promise[j]
  BY JobFacts
<1>3. Queued' = Queued /\ NoJob \notin Queued
  BY JobFacts, PoolAssumption DEF Queued
<1>4. \A u, v \in Owners : job'[u] = job'[v] /\ job'[u] # NoJob => u = v
  BY <1>1 DEF JobsInv
<1>5. \A u \in Owners : job'[u] \notin Queued'
  BY <1>1, <1>3 DEF JobsInv
<1>6. \A j \in Jobs : promise'[j] # NoClient => j \in Queued' \/ \E u \in Owners : job'[u] = j
  <2> SUFFICES ASSUME NEW j \in Jobs, promise'[j] # NoClient, j \notin Queued
               PROVE  \E u \in Owners : job'[u] = j
    BY <1>3
  <2>1. PICK u \in Owners : job[u] = j
    BY <1>2 DEF JobsInv
  <2>2. u # t
    BY <1>2, <2>1
  <2> QED
    BY <1>1, <2>1, <2>2
<1> QED
  BY <1>4, <1>5, <1>6 DEF JobsInv

LEMMA JobsStep == ASSUME TypeOK, JobsInv, WorkersInv, Next PROVE JobsInv'
<1>1. ASSUME NEW c \in Clients, NEW j \in Jobs, NEW tc \in Clients \cup {NoClient},
             QueueJob(c, j, tc)
      PROVE  JobsInv'
  <2>1. /\ ring' = ring /\ job' = [job EXCEPT ![c] = j] /\ promise' = [promise EXCEPT ![j] = tc]
        /\ j \notin Queued /\ \A t \in Owners : job[t] # j
    BY <1>1 DEF QueueJob, Fresh, Owners
  <2>2. c \in Owners /\ job[c] = NoJob
    BY <1>1 DEF QueueJob, Owners, TypeOK
  <2>3. \A u \in Owners : job'[u] = IF u = c THEN j ELSE job[u]
    BY <2>1, JobFacts
  <2>4. \A i \in Jobs : i # j => promise'[i] = promise[i]
    BY <2>1, JobFacts
  <2>5. Queued' = Queued
    BY <2>1 DEF Queued
  <2>6. \A u, v \in Owners : job'[u] = job'[v] /\ job'[u] # NoJob => u = v
    BY <2>1, <2>3 DEF JobsInv
  <2>7. \A u \in Owners : job'[u] \notin Queued'
    BY <2>1, <2>3, <2>5 DEF JobsInv
  <2>8. \A i \in Jobs : promise'[i] # NoClient => i \in Queued' \/ \E u \in Owners : job'[u] = i
    <3> SUFFICES ASSUME NEW i \in Jobs, promise'[i] # NoClient, i \notin Queued, i # j
                 PROVE  \E u \in Owners : job'[u] = i
      BY <2>2, <2>3, <2>5
    <3>1. PICK u \in Owners : job[u] = i
      BY <2>4 DEF JobsInv
    <3>2. u # c
      BY <2>2, <3>1, PoolAssumption
    <3> QED
      BY <2>3, <3>1, <3>2
  <2> QED
    BY <2>1, <2>6, <2>7, <2>8 DEF JobsInv
<1>2. ASSUME NEW c \in Clients, Push(c) PROVE JobsInv'
  <2>0. c \in Owners /\ job[c] \in Jobs
    BY <1>2 DEF Push, TypeOK, Owners
  <2>1. CASE finished
    BY <1>2, <2>0, <2>1, JobEnds DEF Push
  <2>2. CASE ~finished /\ Full(ring)
    BY <1>2, <2>2, JobsStay DEF Push
  <2>3. CASE ~finished /\ ~Full(ring)
    <3>1. ring' = PushFront(ring, job[c]) /\ job' = [job EXCEPT ![c] = NoJob]
          /\ promise' = promise
      BY <1>2, <2>3 DEF Push
    <3>2. RingOK(ring) /\ ~Full(ring) /\ Distinct(Items(ring)) /\ job[c] \notin Queued
      BY <2>0, <2>3 DEF JobsInv
    <3>3. RingOK(ring') /\ Items(ring') = Append(Items(ring), job[c])
      BY <2>0, <3>1, <3>2, PushItems
    <3>4. Distinct(Items(ring')) /\ Queued' = Queued \cup {job[c]}
      BY <2>0, <3>2, <3>3, AppendDistinct, JobFacts DEF Queued
    <3>5. \A u \in Owners : job'[u] = IF u = c THEN NoJob ELSE job[u]
      BY <3>1, JobFacts
    <3>6. \A u, v \in Owners : job'[u] = job'[v] /\ job'[u] # NoJob => u = v
      BY <3>5 DEF JobsInv
    <3>7. \A u \in Owners : job'[u] \notin Queued'
      BY <2>0, <3>4, <3>5, JobFacts, PoolAssumption DEF JobsInv
    <3>8. \A i \in Jobs : promise'[i] # NoClient => i \in Queued' \/ \E u \in Owners : job'[u] = i
      BY <3>1, <3>4, <3>5 DEF JobsInv
    <3> QED
      BY <3>3, <3>4, <3>6, <3>7, <3>8 DEF JobsInv
  <2> QED
    BY <2>1, <2>2, <2>3
<1>3. ASSUME NEW w \in Workers, Pop(w) PROVE JobsInv'
  <2>0. w \in Owners /\ job[w] = NoJob
    BY <1>3 DEF Pop, TypeOK, Owners
  <2>1. CASE finished \/ Empty(ring)
    BY <1>3, <2>1, JobsStay DEF Pop
  <2>2. CASE ~finished /\ ~Empty(ring)
    <3> DEFINE j == Oldest(ring)
    <3>1. ring' = PopBack(ring) /\ job' = [job EXCEPT ![w] = j] /\ promise' = promise
      BY <1>3, <2>2 DEF Pop
    <3>2. RingOK(ring) /\ ~Empty(ring) /\ Distinct(Items(ring))
      BY <2>2 DEF JobsInv
    <3>3. /\ RingOK(ring') /\ Items(ring) # <<>> /\ j \in Jobs
          /\ j = Head(Items(ring)) /\ Items(ring') = Tail(Items(ring))
      BY <3>1, <3>2, PopItems
    <3>4. Distinct(Items(ring')) /\ Queued' = Queued \ {j} /\ j \in Queued
      BY <3>2, <3>3, TailDistinct, JobFacts DEF Queued
    <3> HIDE DEF j
    <3>5. \A u \in Owners : job'[u] = IF u = w THEN j ELSE job[u]
      BY <3>1, JobFacts
    <3>6. \A u, v \in Owners : job'[u] = job'[v] /\ job'[u] # NoJob => u = v
      BY <3>4, <3>5 DEF JobsInv
    <3>7. \A u \in Owners : job'[u] \notin Queued'
      BY <3>4, <3>5 DEF JobsInv
    <3>8. \A i \in Jobs : promise'[i] # NoClient => i \in Queued' \/ \E u \in Owners : job'[u] = i
      <4> SUFFICES ASSUME NEW i \in Jobs, promise[i] # NoClient, i \notin Queued, i # j
                   PROVE  \E u \in Owners : job'[u] = i
        BY <2>0, <3>1, <3>4, <3>5
      <4>1. PICK u \in Owners : job[u] = i
        BY DEF JobsInv
      <4> QED
        BY <2>0, <3>5, <4>1, PoolAssumption
    <3> QED
      BY <3>3, <3>4, <3>6, <3>7, <3>8 DEF JobsInv
  <2> QED
    BY <2>1, <2>2
<1>4. ASSUME NEW w \in Workers, Run(w) PROVE JobsInv'
  <2>1. w \in Owners /\ job[w] \in Jobs
    BY <1>4 DEF Run, TypeOK, Owners
  <2> QED
    BY <1>4, <2>1, JobEnds DEF Run
<1>5. ASSUME NEW f \in Finishers, FinishDrain(f) PROVE JobsInv'
  <2>1. /\ job' = job
        /\ promise' = [j \in Jobs |-> IF j \in Queued THEN NoClient ELSE promise[j]]
        /\ ring' = [ring EXCEPT !.array = [i \in Slots |-> NoJob],
                                !.tail = (ring.tail + ring.size) % Capacity,
                                !.size = 0]
    BY <1>5 DEF FinishDrain
  <2>2. RingOK(ring)
    BY DEF JobsInv
  <2>3. ring \in Rings /\ ring.head \in Slots /\ ring.head \in 0 .. Capacity - 1
        /\ ring.head = (ring.tail + ring.size) % Capacity
    BY <2>2, RingFacts
  <2>4. ring' \in Rings /\ ring'.size = 0 /\ ring'.head = ring'.tail /\ ring'.head = ring.head
    <3> DEFINE e == [i \in Slots |-> NoJob]
               h == (ring.tail + ring.size) % Capacity
    <3>1. e \in [Slots -> Jobs \cup {NoJob}] /\ 0 \in 0 .. Capacity /\ h \in Slots
      BY <2>3, CapacityType
    <3>2. ring' = [ring EXCEPT !.array = e, !.tail = h, !.size = 0]
      BY <2>1
    <3> HIDE DEF e, h
    <3>3. ring' \in Rings
      BY <2>3, <3>1, <3>2 DEF Rings
    <3>4. ring'.size = 0 /\ ring'.head = ring.head /\ ring'.tail = h
      BY <2>3, <3>2 DEF Rings
    <3> QED
      BY <2>3, <3>3, <3>4 DEF h
  <2>5. ring'.head = (ring'.tail + ring'.size) % Capacity
    <3>1. ring.head + 0 = ring.head /\ ring.head \in 0 .. 2 * Capacity - 1 /\ ring.head < Capacity
      BY <2>3, CapacityType
    <3>2. (ring.head + 0) % Capacity = ring.head
      BY <3>1, Wrap
    <3> QED
      BY <2>4, <3>2
  <2>6. RingOK(ring')
    BY <2>4, <2>5 DEF RingOK
  <2>7. Items(ring') \in Seq(Jobs) /\ Len(Items(ring')) = 0 /\ DOMAIN Items(ring') = {}
    BY <2>4, <2>6, ItemsType
  <2>8. Distinct(Items(ring')) /\ Queued' = {}
    BY <2>7 DEF Distinct, Queued, ToSet
  <2>9. \A i \in Jobs : promise'[i] # NoClient => \E u \in Owners : job'[u] = i
    BY <2>1 DEF JobsInv
  <2> QED
    BY <2>1, <2>6, <2>8, <2>9 DEF JobsInv
<1>6. CASE \/ \E c \in Clients : NotifyNotEmpty(c) \/ Reset(c) \/ Wait(c)
           \/ \E w \in Workers : NotifyNotFull(w) \/ Exit(w)
           \/ \E f \in Finishers : Finish(f)
           \/ \E t \in Owners : SpuriousWakeup(t)
           \/ Abandoned
  <2>1. UNCHANGED <<ring, job, promise>>
    BY <1>6 DEF NotifyNotEmpty, Reset, Wait, NotifyNotFull, Exit, Finish, SpuriousWakeup,
                Abandoned, vars
  <2> QED
    BY <2>1, JobsStay
<1> QED
  BY <1>1, <1>2, <1>3, <1>4, <1>5, <1>6 DEF Next, WorkerStep, ClientStep, Owners

-------------------------------------------------------------------------------
(* Promises                                                                *)

\* A promise is set or dropped, and no other changes hands.
LEMMA PromiseEnds ==
    ASSUME NEW c \in Clients, NEW j \in Jobs, TypeOK, AccountInv,
           promise' = [promise EXCEPT ![j] = NoClient]
    PROVE  /\ Pending(c)' = Pending(c) \ {j}
           /\ IsFiniteSet(Pending(c)')
           /\ Cardinality(Pending(c)') \in Nat
           /\ Cardinality(Pending(c)') = IF promise[j] = c THEN Cardinality(Pending(c)) - 1
                                         ELSE Cardinality(Pending(c))
<1>1. \A i \in Jobs : promise'[i] = IF i = j THEN NoClient ELSE promise[i]
  BY DEF TypeOK
<1>2. Pending(c)' = Pending(c) \ {j}
  BY <1>1, PoolAssumption DEF Pending
<1>3. IsFiniteSet(Pending(c)) /\ (j \in Pending(c) <=> promise[j] = c)
  BY DEF AccountInv, Pending
<1> QED
  BY <1>2, <1>3, FS_RemoveElement, FS_CardinalityType

LEMMA AccountTypes ==
    ASSUME TypeOK, AccountInv, NEW c \in Clients
    PROVE  /\ completion = [d \in Clients |-> completion[d]]
           /\ completion[c] \in [nJobs : 0 .. max_jobs, ready : 0 .. max_jobs]
           /\ completion[c].nJobs \in Nat /\ completion[c].ready \in Nat
           /\ IsFiniteSet(Pending(c)) /\ Cardinality(Pending(c)) \in Nat
           /\ \A j \in Pending(c) : Cardinality(Pending(c)) > 0
<1>1. IsFiniteSet(Pending(c))
  BY DEF AccountInv
<1>2. Cardinality(Pending(c)) \in Nat
  BY <1>1, FS_CardinalityType
<1>3. Pending(c) # {} => Cardinality(Pending(c)) > 0
  BY <1>1, <1>2, FS_EmptySet
<1> QED
  BY <1>1, <1>2, <1>3, PoolAssumption DEF TypeOK

LEMMA AccountStep == ASSUME TypeOK, JobsInv, WorkersInv, AccountInv, Next PROVE AccountInv'
<1>1. ASSUME NEW c \in Clients, NEW j \in Jobs, NEW tc \in Clients \cup {NoClient},
             QueueJob(c, j, tc)
      PROVE  AccountInv'
  <2>1. /\ finished' = finished /\ promise' = [promise EXCEPT ![j] = tc]
        /\ completion' = IF tc = c THEN [completion EXCEPT ![c].nJobs = @ + 1] ELSE completion
        /\ tc \in {c, NoClient}
        /\ j \notin Queued /\ \A t \in Owners : job[t] # j
    BY <1>1 DEF QueueJob, Fresh, Owners
  <2>2. promise[j] = NoClient
    BY <2>1 DEF JobsInv
  <2>3. \A i \in Jobs : promise'[i] = IF i = j THEN tc ELSE promise[i]
    BY <2>1 DEF TypeOK
  <2>4. ASSUME NEW d \in Clients
        PROVE  /\ IsFiniteSet(Pending(d)')
               /\ completion'[d].ready + Cardinality(Pending(d)') <= completion'[d].nJobs
               /\ ~finished' => completion'[d].ready + Cardinality(Pending(d)')
                                  = completion'[d].nJobs
    <3>1. CASE d = tc
      <4>1. Pending(d)' = Pending(d) \cup {j} /\ j \notin Pending(d)
        BY <2>2, <2>3, <3>1, PoolAssumption DEF Pending
      <4>2. IsFiniteSet(Pending(d)') /\ Cardinality(Pending(d)') = Cardinality(Pending(d)) + 1
        BY <4>1, AccountTypes, FS_AddElement
      <4>3. completion'[d].nJobs = completion[d].nJobs + 1 /\ completion'[d].ready = completion[d].ready
        BY <2>1, <3>1, AccountTypes, PoolAssumption
      <4> QED
        BY <2>1, <4>2, <4>3, AccountTypes DEF AccountInv
    <3>2. CASE d # tc
      <4>1. Pending(d)' = Pending(d)
        BY <2>2, <2>3, <3>2, PoolAssumption DEF Pending
      <4>2. completion'[d] = completion[d]
        BY <2>1, <3>2, AccountTypes
      <4> QED
        BY <2>1, <4>1, <4>2 DEF AccountInv
    <3> QED
      BY <3>1, <3>2
  <2> QED
    BY <2>4 DEF AccountInv
<1>2. ASSUME NEW c \in Clients, Push(c) PROVE AccountInv'
  <2>1. CASE ~finished
    <3>1. UNCHANGED <<promise, completion, finished>>
      BY <1>2, <2>1 DEF Push
    <3> QED
      BY <3>1 DEF AccountInv, Pending
  <2>2. CASE finished
    <3>1. completion' = completion /\ finished' = finished
          /\ promise' = [promise EXCEPT ![job[c]] = NoClient] /\ job[c] \in Jobs
      BY <1>2, <2>2 DEF Push, TypeOK
    <3>2. ASSUME NEW d \in Clients
          PROVE  /\ IsFiniteSet(Pending(d)')
                 /\ completion'[d].ready + Cardinality(Pending(d)') <= completion'[d].nJobs
      <4>1. /\ IsFiniteSet(Pending(d)') /\ Cardinality(Pending(d)') \in Nat
            /\ Cardinality(Pending(d)') <= Cardinality(Pending(d))
        <5>1. /\ IsFiniteSet(Pending(d)') /\ Cardinality(Pending(d)') \in Nat
              /\ \/ Cardinality(Pending(d)') = Cardinality(Pending(d)) - 1
                 \/ Cardinality(Pending(d)') = Cardinality(Pending(d))
          BY <3>1, PromiseEnds
        <5>2. Cardinality(Pending(d)) \in Nat
          BY AccountTypes
        <5> QED
          BY <5>1, <5>2
      <4> QED
        BY <3>1, <4>1, AccountTypes DEF AccountInv
    <3> QED
      BY <2>2, <3>1, <3>2 DEF AccountInv
  <2> QED
    BY <2>1, <2>2
<1>3. ASSUME NEW w \in Workers, Run(w) PROVE AccountInv'
  <2> DEFINE c == promise[job[w]]
  <2>1. /\ finished' = finished /\ promise' = [promise EXCEPT ![job[w]] = NoClient]
        /\ completion' = IF c = NoClient THEN completion
                         ELSE [completion EXCEPT ![c].ready = @ + 1]
        /\ job[w] \in Jobs
    BY <1>3 DEF Run, TypeOK
  <2>2. c \in Clients \cup {NoClient}
    BY <2>1 DEF TypeOK
  <2>3. ASSUME NEW d \in Clients
        PROVE  /\ IsFiniteSet(Pending(d)')
               /\ completion'[d].ready + Cardinality(Pending(d)')
                    = completion[d].ready + Cardinality(Pending(d))
               /\ completion'[d].nJobs = completion[d].nJobs
    <3>1. /\ IsFiniteSet(Pending(d)')
          /\ Cardinality(Pending(d)') = IF c = d THEN Cardinality(Pending(d)) - 1
                                        ELSE Cardinality(Pending(d))
      BY <2>1, PromiseEnds
    <3>2. CASE c = d
      <4>1. completion'[d].ready = completion[d].ready + 1
            /\ completion'[d].nJobs = completion[d].nJobs
        BY <2>1, <3>2, AccountTypes, PoolAssumption
      <4> QED
        BY <3>1, <3>2, <4>1, AccountTypes
    <3>3. CASE c # d
      <4>1. completion'[d] = completion[d]
        BY <2>1, <2>2, <3>3, AccountTypes
      <4> QED
        BY <3>1, <3>3, <4>1
    <3> QED
      BY <3>2, <3>3
  <2> QED
    BY <2>1, <2>3 DEF AccountInv
<1>4. ASSUME NEW f \in Finishers, FinishDrain(f) PROVE AccountInv'
  <2>1. /\ completion' = completion /\ finished' = finished /\ finished
        /\ promise' = [j \in Jobs |-> IF j \in Queued THEN NoClient ELSE promise[j]]
    BY <1>4 DEF FinishDrain, WorkersInv
  <2>2. ASSUME NEW d \in Clients
        PROVE  /\ IsFiniteSet(Pending(d)')
               /\ completion'[d].ready + Cardinality(Pending(d)') <= completion'[d].nJobs
    <3>1. Pending(d)' \in SUBSET Pending(d)
      BY <2>1, PoolAssumption DEF Pending
    <3>2. /\ IsFiniteSet(Pending(d)') /\ Cardinality(Pending(d)') \in Nat
          /\ Cardinality(Pending(d)') <= Cardinality(Pending(d))
      BY <3>1, AccountTypes, FS_Subset, FS_CardinalityType
    <3> QED
      BY <2>1, <3>2, AccountTypes DEF AccountInv
  <2> QED
    BY <2>1, <2>2 DEF AccountInv
<1>5. ASSUME NEW c \in Clients, Reset(c) PROVE AccountInv'
  <2>1. /\ completion[c].ready = completion[c].nJobs /\ UNCHANGED <<promise, finished>>
        /\ completion' = [completion EXCEPT ![c] = [nJobs |-> 0, ready |-> 0]]
    BY <1>5 DEF Reset
  <2>2. Cardinality(Pending(c)) = 0
    BY <2>1, AccountTypes DEF AccountInv
  <2>3. completion'[c].nJobs = 0 /\ completion'[c].ready = 0
        /\ \A d \in Clients : d # c => completion'[d] = completion[d]
    BY <2>1, AccountTypes
  <2>4. \A d \in Clients : Pending(d)' = Pending(d)
    BY <2>1 DEF Pending
  <2> QED
    BY <2>1, <2>2, <2>3, <2>4 DEF AccountInv
<1>6. CASE \/ \E c \in Clients : NotifyNotEmpty(c) \/ Wait(c)
           \/ \E w \in Workers : Pop(w) \/ NotifyNotFull(w) \/ Exit(w)
           \/ \E f \in Finishers : Finish(f)
           \/ \E t \in Owners : SpuriousWakeup(t)
           \/ Abandoned
  <2>1. UNCHANGED <<promise, completion>> /\ (finished' = finished \/ finished')
    BY <1>6 DEF NotifyNotEmpty, Wait, Pop, NotifyNotFull, Exit, Finish, SpuriousWakeup,
                Abandoned, vars
  <2>2. \A d \in Clients : Pending(d)' = Pending(d)
    BY <2>1 DEF Pending
  <2> QED
    BY <2>1, <2>2 DEF AccountInv
<1> QED
  BY <1>1, <1>2, <1>3, <1>4, <1>5, <1>6 DEF Next, WorkerStep, ClientStep, Owners

-------------------------------------------------------------------------------
(* Types and the workers                                                   *)

LEMMA TypeStep == ASSUME TypeOK, JobsInv, AccountInv, WorkersInv, Next PROVE TypeOK'
<1> USE DEF Threads, ClientLabels, WorkerLabels, FinisherLabels
<1>0. ring' \in [array : [Slots -> Jobs \cup {NoJob}], head : Slots, tail : Slots,
                 size : 0 .. Capacity]
  BY JobsStep DEF JobsInv, RingOK, Rings
<1>1. ASSUME NEW c \in Clients, NEW j \in Jobs, NEW tc \in Clients \cup {NoClient},
             QueueJob(c, j, tc)
      PROVE  TypeOK'
  <2>1. completion' \in [Clients -> [nJobs : 0 .. max_jobs, ready : 0 .. max_jobs]]
    BY <1>1, PoolAssumption DEF QueueJob, TypeOK
  <2> QED
    BY <1>0, <1>1, <2>1, PoolAssumption DEF QueueJob, TypeOK, Goto
<1>2. ASSUME NEW c \in Clients, Push(c) PROVE TypeOK'
  <2>1. job[c] \in Jobs
    BY <1>2 DEF Push, TypeOK
  <2>2. promise' \in [Jobs -> Clients \cup {NoClient}]
    BY <1>2, <2>1 DEF Push, TypeOK
  <2> QED
    BY <1>0, <1>2, <2>2, PoolAssumption DEF Push, TypeOK, Goto
<1>3. ASSUME NEW w \in Workers, Pop(w) PROVE TypeOK'
  <2>1. ~finished /\ ~Empty(ring) => Oldest(ring) \in Jobs
    BY PopItems DEF JobsInv
  <2> HIDE DEF Oldest
  <2> QED
    BY <1>0, <1>3, <2>1, PoolAssumption DEF Pop, TypeOK, Goto
<1>4. ASSUME NEW w \in Workers, Run(w) PROVE TypeOK'
  <2>1. job[w] \in Jobs
    BY <1>4 DEF Run, TypeOK
  <2>2. promise' \in [Jobs -> Clients \cup {NoClient}]
    BY <1>4, <2>1 DEF Run, TypeOK
  <2>3. completion' \in [Clients -> [nJobs : 0 .. max_jobs, ready : 0 .. max_jobs]]
    <3> DEFINE c == promise[job[w]]
    <3>1. CASE c = NoClient
      BY <1>4, <3>1 DEF Run, TypeOK
    <3>2. CASE c \in Clients
      <4>1. job[w] \in Pending(c)
        BY <2>1 DEF Pending
      <4>2. completion[c].ready + 1 \in 0 .. max_jobs
        BY <3>2, <4>1, AccountTypes, PoolAssumption DEF AccountInv
      <4>3. completion' = [completion EXCEPT ![c].ready = @ + 1]
        BY <1>4, <3>2, PoolAssumption DEF Run
      <4> HIDE DEF c
      <4> QED
        BY <3>2, <4>2, <4>3 DEF TypeOK
    <3> QED
      BY <2>1, <3>1, <3>2 DEF TypeOK
  <2> QED
    BY <1>0, <1>4, <2>2, <2>3, PoolAssumption DEF Run, TypeOK, Goto
<1>5. ASSUME NEW w \in Workers, Exit(w) PROVE TypeOK'
  <2>1. {v \in Workers : pc[v] # "gone"} # {}
    BY <1>5 DEF Exit
  <2>2. NumRunning' \in Nat
    <3>1. IsFiniteSet({v \in Workers : pc[v] # "gone"})
      BY PoolAssumption, FS_Subset
    <3>2. NumRunning # 0
      BY <2>1, <3>1, FS_EmptySet DEF WorkersInv
    <3> QED
      BY <1>5, <3>2 DEF Exit, TypeOK
  <2> QED
    BY <1>0, <1>5, <2>2, PoolAssumption DEF Exit, TypeOK
<1>6. ASSUME NEW f \in Finishers, Finish(f) PROVE TypeOK'
  BY <1>0, <1>6, PoolAssumption DEF Finish, TypeOK
<1>7. ASSUME NEW f \in Finishers, FinishDrain(f) PROVE TypeOK'
  <2>1. promise' \in [Jobs -> Clients \cup {NoClient}]
    BY <1>7 DEF FinishDrain, TypeOK
  <2>2. returned' \subseteq Jobs
    BY <1>7, JobFacts DEF FinishDrain, TypeOK
  <2> QED
    BY <1>0, <1>7, <2>1, <2>2, PoolAssumption DEF FinishDrain, TypeOK, Goto
<1>8. ASSUME NEW c \in Clients, Reset(c) PROVE TypeOK'
  <2>1. completion' \in [Clients -> [nJobs : 0 .. max_jobs, ready : 0 .. max_jobs]]
    BY <1>8, PoolAssumption DEF Reset, TypeOK
  <2> QED
    BY <1>0, <1>8, <2>1, PoolAssumption DEF Reset, TypeOK, Goto
<1>9. ASSUME NEW c \in Clients, NotifyNotEmpty(c) \/ Wait(c) PROVE TypeOK'
  BY <1>0, <1>9, PoolAssumption DEF NotifyNotEmpty, Wait, TypeOK, Goto, NotifyOne, At
<1>10. ASSUME NEW w \in Workers, NotifyNotFull(w) PROVE TypeOK'
  BY <1>0, <1>10, PoolAssumption DEF NotifyNotFull, TypeOK, Goto, NotifyOne, At
<1>11. ASSUME NEW t \in Owners, SpuriousWakeup(t) PROVE TypeOK'
  BY <1>0, <1>11, PoolAssumption DEF SpuriousWakeup, TypeOK, Goto, Owners
<1>12. CASE Abandoned
  BY <1>0, <1>12 DEF Abandoned, vars, TypeOK
<1> QED
  BY <1>1, <1>2, <1>3, <1>4, <1>5, <1>6, <1>7, <1>8, <1>9, <1>10, <1>11, <1>12
     DEF Next, WorkerStep, ClientStep, Owners

\* A step in which no worker leaves and finished does not change.
LEMMA WorkersStay ==
    ASSUME WorkersInv, UNCHANGED <<NumRunning, finished>>,
           \A w \in Workers : pc'[w] = "gone" <=> pc[w] = "gone",
           \A w \in Workers : pc'[w] = "exit" => pc[w] = "exit" \/ finished,
           \A f \in Finishers : pc'[f] # "idle" => pc[f] # "idle",
           finished => \A t \in Owners : pc'[t] \in {"pop_wait", "push_wait"}
                                           => pc[t] \in {"pop_wait", "push_wait"}
    PROVE  WorkersInv'
<1>1. {w \in Workers : pc'[w] # "gone"} = {w \in Workers : pc[w] # "gone"}
  OBVIOUS
<1> QED
  BY <1>1 DEF WorkersInv

LEMMA WorkersStep == ASSUME TypeOK, WorkersInv, Next PROVE WorkersInv'
<1> USE DEF Threads, Owners, ClientLabels, WorkerLabels, FinisherLabels
<1>1. ASSUME NEW c \in Clients,
             \/ \E j \in Jobs, tc \in Clients \cup {NoClient} : QueueJob(c, j, tc)
             \/ Reset(c) \/ Wait(c)
      PROVE  WorkersInv'
  BY <1>1, WorkersStay, PoolAssumption DEF QueueJob, Reset, Wait, TypeOK, Goto
<1>2. ASSUME NEW c \in Clients, Push(c) PROVE WorkersInv'
  BY <1>2, WorkersStay, PoolAssumption DEF Push, TypeOK, Goto
<1>3. ASSUME NEW c \in Clients, NotifyNotEmpty(c) PROVE WorkersInv'
  BY <1>3, WorkersStay, PoolAssumption DEF NotifyNotEmpty, NotifyOne, At, TypeOK, Goto
<1>4. ASSUME NEW w \in Workers, Pop(w) PROVE WorkersInv'
  BY <1>4, WorkersStay, PoolAssumption DEF Pop, TypeOK, Goto
<1>5. ASSUME NEW w \in Workers, NotifyNotFull(w) PROVE WorkersInv'
  BY <1>5, WorkersStay, PoolAssumption DEF NotifyNotFull, NotifyOne, At, TypeOK, Goto
<1>6. ASSUME NEW w \in Workers, Run(w) PROVE WorkersInv'
  BY <1>6, WorkersStay, PoolAssumption DEF Run, TypeOK, Goto
<1>7. ASSUME NEW w \in Workers, Exit(w) PROVE WorkersInv'
  <2> DEFINE A == {v \in Workers : pc[v] # "gone"}
  <2>1. finished /\ finished' = finished /\ NumRunning' = NumRunning - 1 /\ w \in A
    BY <1>7 DEF Exit, WorkersInv
  <2>2. \A t \in Owners : pc'[t] = IF t = w THEN "gone" ELSE pc[t]
    BY <1>7, PoolAssumption DEF Exit, TypeOK
  <2>3. {v \in Workers : pc'[v] # "gone"} = A \ {w}
    BY <2>2
  <2>4. Cardinality(A \ {w}) = Cardinality(A) - 1
    BY <2>1, PoolAssumption, FS_Subset, FS_RemoveElement
  <2> HIDE DEF A
  <2>5. NumRunning' = Cardinality({v \in Workers : pc'[v] # "gone"})
    BY <2>1, <2>3, <2>4 DEF WorkersInv, A
  <2>6. \A t \in Owners : pc'[t] \notin {"pop_wait", "push_wait"}
    BY <2>1, <2>2 DEF WorkersInv
  <2> QED
    BY <2>1, <2>5, <2>6 DEF WorkersInv
<1>8. ASSUME NEW f \in Finishers, Finish(f) PROVE WorkersInv'
  <2>1. finished' /\ NumRunning' = NumRunning
    BY <1>8 DEF Finish
  <2>2. \A t \in Owners : pc'[t] = CASE pc[t] = "pop_wait" /\ ~finished -> "pop"
                                     [] pc[t] = "push_wait" /\ ~finished -> "push"
                                     [] OTHER -> pc[t]
    BY <1>8, PoolAssumption DEF Finish, TypeOK
  <2>3. {w \in Workers : pc'[w] # "gone"} = {w \in Workers : pc[w] # "gone"}
    BY <2>2
  <2>4. \A t \in Owners : pc'[t] \notin {"pop_wait", "push_wait"}
    BY <2>2 DEF WorkersInv
  <2> QED
    BY <2>1, <2>3, <2>4 DEF WorkersInv
<1>9. ASSUME NEW f \in Finishers, FinishDrain(f) PROVE WorkersInv'
  BY <1>9, WorkersStay, PoolAssumption DEF FinishDrain, TypeOK, Goto
<1>10. ASSUME NEW t \in Owners, SpuriousWakeup(t) PROVE WorkersInv'
  BY <1>10, WorkersStay, PoolAssumption DEF SpuriousWakeup, TypeOK, Goto
<1>11. CASE Abandoned
  BY <1>11, WorkersStay DEF Abandoned, vars
<1> QED
  BY <1>1, <1>2, <1>3, <1>4, <1>5, <1>6, <1>7, <1>8, <1>9, <1>10, <1>11
     DEF Next, WorkerStep, ClientStep

-------------------------------------------------------------------------------
(* Wake-ups                                                                *)

\* How many threads of S are at label l when f says where each of them is.
Num(f, S, l) == Cardinality({t \in S : f[t] = l})

\* One thread goes from one label to another.
LEMMA MoveOne ==
    ASSUME NEW S, IsFiniteSet(S), NEW f, NEW g, NEW t, NEW l,
           \A u \in S : u # t => g[u] = f[u]
    PROVE  /\ Num(f, S, l) \in Nat
           /\ Num(g, S, l) = CASE t \in S /\ f[t] = l /\ g[t] # l -> Num(f, S, l) - 1
                               [] t \in S /\ f[t] # l /\ g[t] = l -> Num(f, S, l) + 1
                               [] OTHER -> Num(f, S, l)
<1> DEFINE A == {u \in S : f[u] = l}
           B == {u \in S : g[u] = l}
<1>1. IsFiniteSet(A) /\ Num(f, S, l) = Cardinality(A) /\ Num(g, S, l) = Cardinality(B)
  BY FS_Subset DEF Num
<1>2. Num(f, S, l) \in Nat
  BY <1>1, FS_CardinalityType
<1>3. CASE t \in S /\ f[t] = l /\ g[t] # l
  <2>1. B = A \ {t} /\ t \in A
    BY <1>3
  <2> QED
    BY <1>1, <1>2, <1>3, <2>1, FS_RemoveElement
<1>4. CASE t \in S /\ f[t] # l /\ g[t] = l
  <2>1. B = A \cup {t} /\ t \notin A
    BY <1>4
  <2> QED
    BY <1>1, <1>2, <1>4, <2>1, FS_AddElement
<1>5. CASE t \notin S \/ (f[t] = l <=> g[t] = l)
  <2>1. B = A
    BY <1>5
  <2> QED
    BY <1>1, <1>2, <1>5, <2>1
<1> QED
  BY <1>3, <1>4, <1>5

\* NoLostWakeup of a queue of n items whose users are where f says.
NoneLost(f, n) ==
    /\ (\E w \in Workers : f[w] = "pop_wait")
          => n <= Num(f, Workers, "pop") + Num(f, Clients, "push_notify")
    /\ (\E c \in Clients : f[c] = "push_wait")
          => Capacity - n <= Num(f, Clients, "push") + Num(f, Workers, "pop_notify")

LEMMA NoneLostMeans == /\ NoLostWakeup <=> NoneLost(pc, ring.size)
                       /\ NoLostWakeup' <=> NoneLost(pc', ring'.size)
<1>1. \A S, l : Cardinality(At(S, l)) = Num(pc, S, l) /\ Cardinality(At(S, l)') = Num(pc', S, l)
  BY DEF At, Num
<1>2. \A S, l : /\ At(S, l) # {} <=> \E t \in S : pc[t] = l
                /\ At(S, l)' # {} <=> \E t \in S : pc'[t] = l
  BY DEF At
<1>3. /\ At(Workers, "pop_wait") # {} <=> \E w \in Workers : pc[w] = "pop_wait"
      /\ At(Clients, "push_wait") # {} <=> \E w \in Clients : pc[w] = "push_wait"
      /\ At(Workers, "pop_wait")' # {} <=> \E w \in Workers : pc'[w] = "pop_wait"
      /\ At(Clients, "push_wait")' # {} <=> \E w \in Clients : pc'[w] = "push_wait"
  BY <1>2
<1>4. /\ Cardinality(At(Workers, "pop")) = Num(pc, Workers, "pop")
      /\ Cardinality(At(Workers, "pop")') = Num(pc', Workers, "pop")
      /\ Cardinality(At(Workers, "pop_notify")) = Num(pc, Workers, "pop_notify")
      /\ Cardinality(At(Workers, "pop_notify")') = Num(pc', Workers, "pop_notify")
      /\ Cardinality(At(Clients, "push")) = Num(pc, Clients, "push")
      /\ Cardinality(At(Clients, "push")') = Num(pc', Clients, "push")
      /\ Cardinality(At(Clients, "push_notify")) = Num(pc, Clients, "push_notify")
      /\ Cardinality(At(Clients, "push_notify")') = Num(pc', Clients, "push_notify")
  BY <1>1
<1> QED
  BY <1>3, <1>4 DEF NoLostWakeup, NoneLost

One(x, l) == IF x = l THEN 1 ELSE 0

\* g is f with t at b.
Moved(f, g, t, b) == \A u \in Owners : g[u] = IF u = t THEN b ELSE f[u]

\* The four numbers when t goes from a to b.
NumsChange(f, g, t, a, b) ==
    /\ \A l \in {"pop", "pop_notify"} :
          /\ Num(f, Workers, l) \in Nat
          /\ Num(g, Workers, l) = IF t \in Workers
                                  THEN Num(f, Workers, l) - One(a, l) + One(b, l)
                                  ELSE Num(f, Workers, l)
    /\ \A l \in {"push", "push_notify"} :
          /\ Num(f, Clients, l) \in Nat
          /\ Num(g, Clients, l) = IF t \in Clients
                                  THEN Num(f, Clients, l) - One(a, l) + One(b, l)
                                  ELSE Num(f, Clients, l)

LEMMA NumsMove ==
    ASSUME NEW f, NEW g, NEW t \in Owners, NEW b, Moved(f, g, t, b)
    PROVE  NumsChange(f, g, t, f[t], b)
<1>1. ASSUME NEW S, IsFiniteSet(S), S \subseteq Owners, NEW l
      PROVE  /\ Num(f, S, l) \in Nat
             /\ Num(g, S, l) = IF t \in S THEN Num(f, S, l) - One(f[t], l) + One(b, l)
                               ELSE Num(f, S, l)
  <2>1. g[t] = b /\ \A u \in S : u # t => g[u] = f[u]
    BY <1>1 DEF Moved
  <2>2. /\ Num(f, S, l) \in Nat
        /\ Num(g, S, l) = CASE t \in S /\ f[t] = l /\ g[t] # l -> Num(f, S, l) - 1
                            [] t \in S /\ f[t] # l /\ g[t] = l -> Num(f, S, l) + 1
                            [] OTHER -> Num(f, S, l)
    BY <1>1, <2>1, MoveOne
  <2> QED
    BY <2>1, <2>2 DEF One
<1> QED
  BY <1>1, PoolAssumption DEF Owners, NumsChange

\* What a thread t that moves to b does to a queue of n items, which grows by d.
Turn(f, t, b, n, d) ==
    \/ /\ t \in Clients /\ d = 0
       /\ \/ f[t] = "idle" /\ b \in {"push", "waiting"}
          \/ f[t] = "waiting" /\ b = "idle"
          \/ f[t] = "push" /\ b = "push_wait" /\ n = Capacity
          \/ f[t] = "push_wait" /\ b = "push"
          \/ f[t] = "push_notify" /\ b = "idle"
               /\ \A w \in Workers : f[w] # "pop_wait"
    \/ t \in Clients /\ d = 1 /\ f[t] = "push" /\ b = "push_notify"
    \/ /\ t \in Workers /\ d = 0
       /\ \/ f[t] = "pop" /\ b = "pop_wait" /\ n = 0
          \/ f[t] = "pop_wait" /\ b = "pop"
          \/ f[t] = "run" /\ b = "pop"
          \/ f[t] = "pop_notify" /\ b = "run"
               /\ \A c \in Clients : f[c] # "push_wait"
    \/ t \in Workers /\ d = -1 /\ f[t] = "pop" /\ b = "pop_notify"

\* One thread moves and the queue grows by d.
LEMMA WakeStep ==
    ASSUME NEW f, NEW g, NEW t \in Owners, NEW b, NEW n \in 0 .. Capacity, NEW d \in {-1, 0, 1},
           NoneLost(f, n),
           Moved(f, g, t, b),
           Turn(f, t, b, n, d)
    PROVE  NoneLost(g, n + d)
<1> DEFINE p == Num(f, Workers, "pop")
           pn == Num(f, Workers, "pop_notify")
           q == Num(f, Clients, "push")
           qn == Num(f, Clients, "push_notify")
<1>a. NumsChange(f, g, t, f[t], b)
  BY NumsMove DEF Moved
<1>1. p \in Nat /\ pn \in Nat /\ q \in Nat /\ qn \in Nat
  BY <1>a DEF NumsChange
<1>0. Num(g, Workers, "pop") \in Nat /\ Num(g, Clients, "push") \in Nat
  <2>1. \A u \in Owners : f[u] = IF u = t THEN f[t] ELSE g[u]
    BY DEF Moved
  <2>2. NumsChange(g, f, t, g[t], f[t])
    BY <2>1, NumsMove DEF Moved
  <2> QED
    BY <2>2 DEF NumsChange
<1>2. /\ t \in Workers => /\ Num(g, Workers, "pop") = p - One(f[t], "pop") + One(b, "pop")
                          /\ Num(g, Workers, "pop_notify")
                               = pn - One(f[t], "pop_notify") + One(b, "pop_notify")
      /\ t \notin Workers => /\ Num(g, Workers, "pop") = p
                             /\ Num(g, Workers, "pop_notify") = pn
      /\ t \in Clients => /\ Num(g, Clients, "push") = q - One(f[t], "push") + One(b, "push")
                          /\ Num(g, Clients, "push_notify")
                               = qn - One(f[t], "push_notify") + One(b, "push_notify")
      /\ t \notin Clients => /\ Num(g, Clients, "push") = q
                             /\ Num(g, Clients, "push_notify") = qn
  BY <1>a DEF NumsChange
<1>3. Capacity \in Nat /\ Workers \cap Clients = {} /\ Workers \subseteq Owners
      /\ Clients \subseteq Owners
  BY CapacityType, PoolAssumption DEF Owners
<1> DEFINE W == \E w \in Workers : f[w] = "pop_wait"
           C == \E c \in Clients : f[c] = "push_wait"
<1>4. (W => n <= p + qn) /\ (C => Capacity - n <= q + pn)
  BY DEF NoneLost
<1>5. /\ (\E w \in Workers : g[w] = "pop_wait") => W \/ (t \in Workers /\ b = "pop_wait")
      /\ (\E c \in Clients : g[c] = "push_wait") => C \/ (t \in Clients /\ b = "push_wait")
      /\ t \in Clients /\ f[t] = "push_notify" => ~W
      /\ t \in Workers /\ f[t] = "pop_notify" => ~C
      /\ t \in Workers /\ f[t] = "pop_wait" => W
      /\ t \in Clients /\ f[t] = "push_wait" => C
  <2>1. /\ t \in Clients /\ f[t] = "push_notify" => ~W
        /\ t \in Workers /\ f[t] = "pop_notify" => ~C
    BY <1>3 DEF Turn
  <2>2. /\ (\E w \in Workers : g[w] = "pop_wait") => W \/ (t \in Workers /\ b = "pop_wait")
        /\ (\E c \in Clients : g[c] = "push_wait") => C \/ (t \in Clients /\ b = "push_wait")
    BY <1>3 DEF Moved
  <2> QED
    BY <2>1, <2>2
<1> HIDE DEF p, pn, q, qn, W, C
<1> DEFINE x == f[t]
<1> HIDE DEF x
<1>6. CASE t \in Clients
  <2>1. /\ Num(g, Workers, "pop") = p /\ Num(g, Workers, "pop_notify") = pn
        /\ Num(g, Clients, "push") = q - One(x, "push") + One(b, "push")
        /\ Num(g, Clients, "push_notify") = qn - One(x, "push_notify") + One(b, "push_notify")
    BY <1>2, <1>3, <1>6 DEF x
  <2>2. \/ /\ d = 0
           /\ \/ x = "idle" /\ b \in {"push", "waiting"}
              \/ x = "waiting" /\ b = "idle"
              \/ x = "push" /\ b = "push_wait" /\ n = Capacity
              \/ x = "push_wait" /\ b = "push"
              \/ x = "push_notify" /\ b = "idle" /\ ~W
        \/ d = 1 /\ x = "push" /\ b = "push_notify"
    BY <1>3, <1>5, <1>6 DEF x, Turn
  <2>3. W \/ b = "pop_wait" => n + d <= p + (qn - One(x, "push_notify") + One(b, "push_notify"))
    BY <1>1, <1>3, <1>4, <2>2 DEF One
  <2>4. C \/ b = "push_wait" => Capacity - (n + d) <= q - One(x, "push") + One(b, "push") + pn
    BY <1>0, <1>1, <1>3, <1>4, <2>1, <2>2 DEF One
  <2> QED
    BY <1>5, <2>1, <2>3, <2>4 DEF NoneLost
<1>7. CASE t \in Workers
  <2>1. /\ Num(g, Clients, "push") = q /\ Num(g, Clients, "push_notify") = qn
        /\ Num(g, Workers, "pop") = p - One(x, "pop") + One(b, "pop")
        /\ Num(g, Workers, "pop_notify") = pn - One(x, "pop_notify") + One(b, "pop_notify")
    BY <1>2, <1>3, <1>7 DEF x
  <2>2. \/ /\ d = 0
           /\ \/ x = "pop" /\ b = "pop_wait" /\ n = 0
              \/ x = "pop_wait" /\ b = "pop"
              \/ x = "run" /\ b = "pop"
              \/ x = "pop_notify" /\ b = "run" /\ ~C
        \/ d = -1 /\ x = "pop" /\ b = "pop_notify"
    BY <1>3, <1>5, <1>7 DEF x, Turn
  <2>3. W \/ b = "pop_wait" => n + d <= p - One(x, "pop") + One(b, "pop") + qn
    BY <1>0, <1>1, <1>3, <1>4, <2>1, <2>2 DEF One
  <2>4. C \/ b = "push_wait"
          => Capacity - (n + d) <= q + (pn - One(x, "pop_notify") + One(b, "pop_notify"))
    BY <1>1, <1>3, <1>4, <2>2 DEF One
  <2> QED
    BY <1>5, <2>1, <2>3, <2>4 DEF NoneLost
<1> QED
  BY <1>6, <1>7 DEF Owners

\* notify_one with somebody to wake: the woken thread takes the place of the
\* notification.
LEMMA NotifyStep ==
    ASSUME NEW f, NEW g, NEW n \in 0 .. Capacity, NEW t \in Owners, NEW u \in Owners, NEW b, NEW a,
           t # u, NoneLost(f, n),
           \A v \in Owners : g[v] = IF v = u THEN a ELSE IF v = t THEN b ELSE f[v],
           \/ /\ t \in Clients /\ f[t] = "push_notify" /\ b = "idle"
              /\ u \in Workers /\ f[u] = "pop_wait" /\ a = "pop"
           \/ /\ t \in Workers /\ f[t] = "pop_notify" /\ b = "run"
              /\ u \in Clients /\ f[u] = "push_wait" /\ a = "push"
    PROVE  NoneLost(g, n)
<1> DEFINE h == [v \in Owners |-> IF v = t THEN b ELSE f[v]]
           p == Num(f, Workers, "pop")
           pn == Num(f, Workers, "pop_notify")
           q == Num(f, Clients, "push")
           qn == Num(f, Clients, "push_notify")
<1>1. h[u] = f[u] /\ \A v \in Owners : h[v] = IF v = t THEN b ELSE f[v]
  OBVIOUS
<1>2. \A v \in Owners : g[v] = IF v = u THEN a ELSE h[v]
  BY <1>1
<1>3. Capacity \in Nat /\ Workers \cap Clients = {} /\ Workers \subseteq Owners
      /\ Clients \subseteq Owners
  BY CapacityType, PoolAssumption DEF Owners
<1> HIDE DEF h
<1>4. NumsChange(f, h, t, f[t], b)
  BY <1>1, NumsMove DEF Moved
<1>5. NumsChange(h, g, u, f[u], a)
  BY <1>1, <1>2, NumsMove DEF Moved
<1>6. p \in Nat /\ pn \in Nat /\ q \in Nat /\ qn \in Nat
  BY <1>4 DEF NumsChange
<1>7. CASE t \in Clients /\ f[t] = "push_notify"
  <2>1. /\ t \in Clients /\ b = "idle" /\ u \in Workers /\ f[u] = "pop_wait" /\ a = "pop"
        /\ t \notin Workers /\ u \notin Clients
    BY <1>3, <1>7
  <2>2. /\ Num(g, Workers, "pop") = p + 1 /\ Num(g, Workers, "pop_notify") = pn
        /\ Num(g, Clients, "push") = q /\ Num(g, Clients, "push_notify") = qn - 1
    BY <1>4, <1>5, <1>6, <1>7, <2>1 DEF One, NumsChange
  <2>3. n <= p + qn
    BY <2>1 DEF NoneLost
  <2>4. (\E c \in Clients : g[c] = "push_wait") => \E c \in Clients : f[c] = "push_wait"
    BY <1>3, <2>1
  <2> HIDE DEF p, pn, q, qn
  <2>5. n <= p + 1 + (qn - 1)
    BY <1>6, <2>3
  <2> QED
    BY <2>2, <2>4, <2>5 DEF NoneLost, q, pn
<1>8. CASE t \in Workers /\ f[t] = "pop_notify"
  <2>1. /\ t \in Workers /\ b = "run" /\ u \in Clients /\ f[u] = "push_wait" /\ a = "push"
        /\ t \notin Clients /\ u \notin Workers
    BY <1>3, <1>8
  <2>2. /\ Num(g, Workers, "pop") = p /\ Num(g, Workers, "pop_notify") = pn - 1
        /\ Num(g, Clients, "push") = q + 1 /\ Num(g, Clients, "push_notify") = qn
    BY <1>4, <1>5, <1>6, <1>8, <2>1 DEF One, NumsChange
  <2>3. Capacity - n <= q + pn
    BY <2>1 DEF NoneLost
  <2>4. (\E w \in Workers : g[w] = "pop_wait") => \E w \in Workers : f[w] = "pop_wait"
    BY <1>3, <2>1
  <2> HIDE DEF p, pn, q, qn
  <2>5. Capacity - n <= q + 1 + (pn - 1)
    BY <1>3, <1>6, <2>3
  <2> QED
    BY <2>2, <2>4, <2>5 DEF NoneLost, p, qn
<1> QED
  BY <1>7, <1>8

LEMMA NoLostStep ==
    ASSUME TypeOK, JobsInv, AccountInv, WorkersInv, NoLostWakeup, Next
    PROVE  NoLostWakeup'
<1>1. CASE finished'
  BY <1>1, WorkersStep DEF WorkersInv, NoLostWakeup, At, Owners
<1> SUFFICES ASSUME ~finished' PROVE NoneLost(pc', ring'.size)
  BY <1>1, NoneLostMeans
<1> DEFINE n == ring.size
<1>2. NoneLost(pc, n) /\ n \in 0 .. Capacity /\ n + 0 = n
  BY NoneLostMeans DEF TypeOK
<1>3. Owners \subseteq Threads /\ pc = [t \in Threads |-> pc[t]]
  BY DEF Owners, Threads, TypeOK
<1>4. ASSUME NEW t \in Owners, NEW b, Goto(t, b)
      PROVE  Moved(pc, pc', t, b)
  BY <1>3, <1>4 DEF Goto, Moved
<1>5. RingOK(ring)
  BY DEF JobsInv
<1> HIDE DEF n
<1>6. ASSUME NEW c \in Clients,
             \/ \E j \in Jobs, tc \in Clients \cup {NoClient} : QueueJob(c, j, tc)
             \/ Reset(c) \/ Wait(c)
      PROVE  NoneLost(pc', ring'.size)
  <2>1. PICK b \in {"push", "waiting", "idle"} :
           /\ Goto(c, b) /\ ring' = ring
           /\ \/ pc[c] = "idle" /\ b \in {"push", "waiting"}
              \/ pc[c] = "waiting" /\ b = "idle"
    BY <1>6 DEF QueueJob, Reset, Wait
  <2>2. c \in Owners
    BY DEF Owners
  <2>3. Moved(pc, pc', c, b)
    BY <1>4, <2>1, <2>2
  <2>4. NoneLost(pc', n + 0)
    <3>1. Turn(pc, c, b, n, 0)
      BY <2>1 DEF Turn
    <3> QED
      BY <1>2, <2>2, <2>3, <3>1, WakeStep
  <2> QED
    BY <1>2, <2>1, <2>4 DEF n
<1>7. ASSUME NEW c \in Clients, Push(c) PROVE NoneLost(pc', ring'.size)
  <2>1. c \in Owners /\ pc[c] = "push" /\ ~finished /\ job[c] \in Jobs
    BY <1>7 DEF Push, Owners, TypeOK
  <2>2. CASE Full(ring)
    <3>1. Goto(c, "push_wait") /\ ring' = ring /\ n = Capacity
      BY <1>7, <2>1, <2>2 DEF Push, Full, n
    <3>2. Moved(pc, pc', c, "push_wait")
      BY <1>4, <2>1, <3>1
    <3>3. NoneLost(pc', n + 0)
      <4>1. Turn(pc, c, "push_wait", n, 0)
        BY <1>2, <2>1, <3>1 DEF Turn
      <4> QED
        BY <1>2, <2>1, <3>2, <4>1, WakeStep
    <3> QED
      BY <1>2, <3>1, <3>3 DEF n
  <2>3. CASE ~Full(ring)
    <3>1. Goto(c, "push_notify") /\ ring' = PushFront(ring, job[c])
      BY <1>7, <2>1, <2>3 DEF Push
    <3>2. ring'.size = n + 1
      BY <1>5, <2>1, <2>3, <3>1, PushItems DEF n
    <3>3. Moved(pc, pc', c, "push_notify")
      BY <1>4, <2>1, <3>1
    <3>4. NoneLost(pc', n + 1)
      <4>1. Turn(pc, c, "push_notify", n, 1)
        BY <1>2, <2>1 DEF Turn
      <4> QED
        BY <1>2, <2>1, <3>3, <4>1, WakeStep
    <3> QED
      BY <3>2, <3>4
  <2> QED
    BY <2>2, <2>3
<1>8. ASSUME NEW w \in Workers, Pop(w) PROVE NoneLost(pc', ring'.size)
  <2>1. w \in Owners /\ pc[w] = "pop" /\ ~finished
    BY <1>8 DEF Pop, Owners
  <2>2. CASE Empty(ring)
    <3>1. Goto(w, "pop_wait") /\ ring' = ring /\ n = 0
      BY <1>8, <2>1, <2>2 DEF Pop, Empty, n
    <3>2. Moved(pc, pc', w, "pop_wait")
      BY <1>4, <2>1, <3>1
    <3>3. NoneLost(pc', n + 0)
      <4>1. Turn(pc, w, "pop_wait", n, 0)
        BY <1>2, <2>1, <3>1 DEF Turn
      <4> QED
        BY <1>2, <2>1, <3>2, <4>1, WakeStep
    <3> QED
      BY <1>2, <3>1, <3>3 DEF n
  <2>3. CASE ~Empty(ring)
    <3>1. Goto(w, "pop_notify") /\ ring' = PopBack(ring)
      BY <1>8, <2>1, <2>3 DEF Pop
    <3>2. ring'.size = n - 1
      BY <1>5, <2>3, <3>1, PopItems DEF n
    <3>3. Moved(pc, pc', w, "pop_notify")
      BY <1>4, <2>1, <3>1
    <3>4. NoneLost(pc', n + (-1))
      <4>1. Turn(pc, w, "pop_notify", n, (-1))
        BY <1>2, <2>1 DEF Turn
      <4> QED
        BY <1>2, <2>1, <3>3, <4>1, WakeStep
    <3>5. n + (-1) = n - 1
      BY <1>2
    <3> QED
      BY <3>2, <3>4, <3>5
  <2> QED
    BY <2>2, <2>3
<1>9. ASSUME NEW w \in Workers, Run(w) PROVE NoneLost(pc', ring'.size)
  <2>1. w \in Owners /\ pc[w] = "run" /\ Goto(w, "pop") /\ ring' = ring
    BY <1>9 DEF Run, Owners
  <2>2. Moved(pc, pc', w, "pop")
    BY <1>4, <2>1
  <2>3. NoneLost(pc', n + 0)
    <3>1. Turn(pc, w, "pop", n, 0)
      BY <1>2, <2>1 DEF Turn
    <3> QED
      BY <1>2, <2>1, <2>2, <3>1, WakeStep
  <2> QED
    BY <1>2, <2>1, <2>3 DEF n
<1>10. ASSUME NEW t \in Owners, SpuriousWakeup(t) PROVE NoneLost(pc', ring'.size)
  <2>1. PICK b \in {"pop", "push"} :
           /\ Goto(t, b) /\ ring' = ring
           /\ \/ t \in Workers /\ pc[t] = "pop_wait" /\ b = "pop"
              \/ t \in Clients /\ pc[t] = "push_wait" /\ b = "push"
    BY <1>10 DEF SpuriousWakeup, Owners, TypeOK, ClientLabels, WorkerLabels
  <2>2. Moved(pc, pc', t, b)
    BY <1>4, <2>1
  <2>3. NoneLost(pc', n + 0)
    <3>1. Turn(pc, t, b, n, 0)
      BY <1>2, <2>1 DEF Turn
    <3> QED
      BY <1>2, <2>1, <2>2, <3>1, WakeStep
  <2> QED
    BY <1>2, <2>1, <2>3 DEF n
<1>11. ASSUME NEW c \in Clients, NotifyNotEmpty(c) PROVE NoneLost(pc', ring'.size)
  <2>1. c \in Owners /\ pc[c] = "push_notify" /\ ring' = ring
    BY <1>11 DEF NotifyNotEmpty, Owners
  <2>2. CASE At(Workers, "pop_wait") = {} /\ Goto(c, "idle")
    <3>1. Moved(pc, pc', c, "idle")
      BY <1>4, <2>1, <2>2
    <3>2. \A w \in Workers : pc[w] # "pop_wait"
      BY <2>2 DEF At
    <3>3. NoneLost(pc', n + 0)
      <4>1. Turn(pc, c, "idle", n, 0)
        BY <1>2, <2>1, <3>2 DEF Turn
      <4> QED
        BY <1>2, <2>1, <3>1, <4>1, WakeStep
    <3> QED
      BY <1>2, <2>1, <3>3 DEF n
  <2>3. ASSUME NEW u \in At(Workers, "pop_wait"), pc' = [pc EXCEPT ![c] = "idle", ![u] = "pop"]
        PROVE  NoneLost(pc', ring'.size)
    <3>1. u \in Owners /\ u \in Workers /\ pc[u] = "pop_wait" /\ c # u
      BY <2>1, <2>3 DEF At, Owners
    <3>2. \A v \in Owners : pc'[v] = IF v = u THEN "pop" ELSE IF v = c THEN "idle" ELSE pc[v]
      BY <1>3, <2>1, <2>3, <3>1
    <3>3. NoneLost(pc', n)
      BY <1>2, <2>1, <3>1, <3>2, NotifyStep
    <3> QED
      BY <2>1, <3>3 DEF n
  <2> QED
    BY <1>11, <2>2, <2>3 DEF NotifyNotEmpty, NotifyOne
<1>12. ASSUME NEW w \in Workers, NotifyNotFull(w) PROVE NoneLost(pc', ring'.size)
  <2>1. w \in Owners /\ pc[w] = "pop_notify" /\ ring' = ring
    BY <1>12 DEF NotifyNotFull, Owners
  <2>2. CASE At(Clients, "push_wait") = {} /\ Goto(w, "run")
    <3>1. Moved(pc, pc', w, "run")
      BY <1>4, <2>1, <2>2
    <3>2. \A c \in Clients : pc[c] # "push_wait"
      BY <2>2 DEF At
    <3>3. NoneLost(pc', n + 0)
      <4>1. Turn(pc, w, "run", n, 0)
        BY <1>2, <2>1, <3>2 DEF Turn
      <4> QED
        BY <1>2, <2>1, <3>1, <4>1, WakeStep
    <3> QED
      BY <1>2, <2>1, <3>3 DEF n
  <2>3. ASSUME NEW u \in At(Clients, "push_wait"), pc' = [pc EXCEPT ![w] = "run", ![u] = "push"]
        PROVE  NoneLost(pc', ring'.size)
    <3>1. u \in Owners /\ u \in Clients /\ pc[u] = "push_wait" /\ w # u
      BY <2>1, <2>3 DEF At, Owners
    <3>2. \A v \in Owners : pc'[v] = IF v = u THEN "push" ELSE IF v = w THEN "run" ELSE pc[v]
      BY <1>3, <2>1, <2>3, <3>1
    <3>3. NoneLost(pc', n)
      BY <1>2, <2>1, <3>1, <3>2, NotifyStep
    <3> QED
      BY <2>1, <3>3 DEF n
  <2> QED
    BY <1>12, <2>2, <2>3 DEF NotifyNotFull, NotifyOne
<1>13. CASE \/ \E w \in Workers : Exit(w)
            \/ \E f \in Finishers : Finish(f) \/ FinishDrain(f)
  BY <1>13 DEF Exit, Finish, FinishDrain, WorkersInv
<1>14. CASE Abandoned
  BY <1>2, <1>14 DEF Abandoned, vars, n
<1> QED
  BY <1>6, <1>7, <1>8, <1>9, <1>10, <1>11, <1>12, <1>13, <1>14
     DEF Next, WorkerStep, ClientStep, Owners

-------------------------------------------------------------------------------
(* The invariant holds                                                     *)

LEMMA InitRing == Init => RingOK(ring) /\ Items(ring) = <<>> /\ ring.size = 0
<1> SUFFICES ASSUME Init PROVE RingOK(ring) /\ Items(ring) = <<>> /\ ring.size = 0
  OBVIOUS
<1>1. ring = [array |-> [i \in Slots |-> NoJob], head |-> 0, tail |-> 0, size |-> 0]
  BY DEF Init
<1>2. 0 \in Slots /\ 0 \in 0 .. Capacity /\ 0 \in 0 .. 2 * Capacity - 1 /\ 0 < Capacity
  BY CapacityType
<1>3. 0 % Capacity = 0
  BY <1>2, Wrap
<1>4. ring \in Rings
  BY <1>1, <1>2 DEF Rings
<1>5. RingOK(ring)
  BY <1>1, <1>3, <1>4 DEF RingOK
<1>6. Items(ring) \in Seq(Jobs) /\ Len(Items(ring)) = 0
  BY <1>1, <1>5, ItemsType
<1> QED
  BY <1>1, <1>5, <1>6

LEMMA InitPool == Init => PoolInv
<1> SUFFICES ASSUME Init PROVE PoolInv
  OBVIOUS
<1>1. RingOK(ring) /\ Items(ring) = <<>> /\ ring.size = 0
  BY InitRing
<1>2. Cardinality(Workers) \in Nat
  BY PoolAssumption, FS_CardinalityType
<1>3. TypeOK
  <2>1. completion \in [Clients -> [nJobs : 0 .. max_jobs, ready : 0 .. max_jobs]]
    BY PoolAssumption DEF Init
  <2>2. ring \in [array : [Slots -> Jobs \cup {NoJob}], head : Slots, tail : Slots,
                  size : 0 .. Capacity]
    BY <1>1 DEF RingOK, Rings
  <2> QED
    BY <1>2, <2>1, <2>2, PoolAssumption
       DEF Init, TypeOK, Threads, ClientLabels, WorkerLabels, FinisherLabels
<1>4. JobsInv
  <2>1. Queued = {}
    BY <1>1 DEF Queued, ToSet
  <2>2. Distinct(Items(ring))
    BY <1>1 DEF Distinct
  <2> QED
    BY <1>1, <2>1, <2>2 DEF Init, JobsInv, Owners
<1>5. AccountInv
  <2>1. \A c \in Clients : Pending(c) = {}
    BY PoolAssumption DEF Init, Pending
  <2> QED
    BY <2>1, FS_EmptySet DEF Init, AccountInv
<1>6. WorkersInv
  <2>1. \A w \in Workers : pc[w] = "pop"
    BY DEF Init, Threads
  <2>2. {w \in Workers : pc[w] # "gone"} = Workers
    BY <2>1
  <2>3. \A t \in Clients \cup Finishers : pc[t] = "idle"
    BY PoolAssumption DEF Init, Threads
  <2> QED
    BY <2>1, <2>2, <2>3 DEF Init, WorkersInv, Owners
<1>7. NoLostWakeup
  <2>1. At(Workers, "pop_wait") = {} /\ At(Clients, "push_wait") = {}
    BY PoolAssumption DEF Init, At, Threads
  <2> QED
    BY <2>1 DEF NoLostWakeup
<1> QED
  BY <1>3, <1>4, <1>5, <1>6, <1>7 DEF PoolInv

LEMMA PoolInvStep == PoolInv /\ [Next]_vars => PoolInv'
<1> SUFFICES ASSUME PoolInv, [Next]_vars PROVE PoolInv'
  OBVIOUS
<1>1. CASE Next
  BY <1>1, TypeStep, JobsStep, AccountStep, WorkersStep, NoLostStep DEF PoolInv
<1>2. CASE UNCHANGED vars
  BY <1>2 DEF PoolInv, TypeOK, JobsInv, AccountInv, WorkersInv, NoLostWakeup, vars,
              Queued, Pending, At
<1> QED
  BY <1>1, <1>2

LEMMA PoolInvHolds == Spec => []PoolInv
BY InitPool, PoolInvStep, PTL DEF Spec

\* For any number of clients and workers, notify_one after the mutex has been
\* released never leaves a worker asleep beside work, or a client beside room,
\* that nobody is on the way to.
THEOREM NoWakeupIsLost == Spec => []NoLostWakeup
<1>1. PoolInv => NoLostWakeup
  BY DEF PoolInv
<1> QED
  BY <1>1, PoolInvHolds, PTL

\* The counters of a JobCompletion match its outstanding jobs for any number of
\* them, and no future is set that was not given out: after Finish() as well,
\* which is what keeps ready within max_jobs.
THEOREM CompletionIsAccounted == Spec => []CompletionAccounting
<1>1. PoolInv => CompletionAccounting
  <2> SUFFICES ASSUME PoolInv, ~finished, NEW c \in Clients
               PROVE  completion[c].nJobs - completion[c].ready
                        = Cardinality({j \in Jobs : promise[j] = c})
    BY DEF PoolInv, CompletionAccounting
  <2>1. completion[c].ready + Cardinality(Pending(c)) = completion[c].nJobs
    BY DEF PoolInv, AccountInv
  <2>2. /\ completion[c].nJobs \in Nat /\ completion[c].ready \in Nat
        /\ Cardinality(Pending(c)) \in Nat
    BY AccountTypes DEF PoolInv
  <2> QED
    BY <2>1, <2>2 DEF Pending
<1> QED
  BY <1>1, PoolInvHolds, PTL

-------------------------------------------------------------------------------
(* The pool is a queue                                                     *)

\* A step that neither queues, starts nor ends a job.
LEMMA QueueStays ==
    ASSUME UNCHANGED <<ring, finished, returned>>, \A w \in Workers : job'[w] = job[w]
    PROVE  UNCHANGED JobQueueSpec!vars
<1>1. [w \in Workers |-> job[w]]' = [w \in Workers |-> job[w]]
  OBVIOUS
<1> QED
  BY <1>1 DEF JobQueueSpec!vars

LEMMA QueueInit == Init => JobQueueSpec!Init
<1> SUFFICES ASSUME Init PROVE JobQueueSpec!Init
  OBVIOUS
<1>1. Items(ring) = <<>>
  BY InitRing
<1>2. [w \in Workers |-> job[w]] = [w \in Workers |-> NoJob]
  BY DEF Init
<1> QED
  BY <1>1, <1>2 DEF JobQueueSpec!Init, Init

LEMMA QueueStep ==
    ASSUME PoolInv, Next
    PROVE  JobQueueSpec!Next \/ UNCHANGED JobQueueSpec!vars
<1>0. TypeOK /\ JobsInv /\ WorkersInv /\ RingOK(ring)
  BY DEF PoolInv, JobsInv
<1> DEFINE running == [w \in Workers |-> job[w]]
<1>1. ASSUME NEW c \in Clients, Push(c) PROVE JobQueueSpec!Next \/ UNCHANGED JobQueueSpec!vars
  <2>1. job[c] \in Jobs /\ c \in Owners
    BY <1>0, <1>1 DEF Push, TypeOK, Owners
  <2>2. \A w \in Workers : job'[w] = job[w]
    BY <1>0, <1>1, PoolAssumption DEF Push, TypeOK
  <2>3. CASE finished \/ Full(ring)
    BY <1>1, <2>2, <2>3, QueueStays DEF Push
  <2>4. CASE ~finished /\ ~Full(ring)
    <3>1. ring' = PushFront(ring, job[c]) /\ UNCHANGED <<finished, returned>>
      BY <1>1, <2>4 DEF Push
    <3>2. Items(ring)' = Append(Items(ring), job[c])
      BY <1>0, <2>1, <2>4, <3>1, PushItems
    <3>3. Len(Items(ring)) < Capacity
      <4>1. Len(Items(ring)) = ring.size /\ ring.size \in 0 .. Capacity /\ Capacity \in Nat
        BY <1>0, ItemsType, RingFacts
      <4> QED
        BY <2>4, <4>1 DEF Full
    <3>4. job[c] \notin ToSet(Items(ring))
      BY <1>0, <2>1 DEF JobsInv, Queued
    <3>5. \A w \in Workers : running[w] # job[c]
      BY <1>0, <2>1, PoolAssumption DEF JobsInv, Owners
    <3>6. running' = running
      BY <2>2
    <3>7. JobQueueSpec!Submit(job[c])
      BY <2>4, <3>1, <3>2, <3>3, <3>4, <3>5, <3>6
         DEF JobQueueSpec!Submit, JobQueueSpec!ToSet, ToSet
    <3> QED
      BY <2>1, <3>7 DEF JobQueueSpec!Next
  <2> QED
    BY <2>3, <2>4
<1>2. ASSUME NEW w \in Workers, Pop(w) PROVE JobQueueSpec!Next \/ UNCHANGED JobQueueSpec!vars
  <2>1. CASE finished \/ Empty(ring)
    BY <1>2, <2>1, QueueStays DEF Pop
  <2>2. CASE ~finished /\ ~Empty(ring)
    <3>1. /\ ring' = PopBack(ring) /\ job' = [job EXCEPT ![w] = Oldest(ring)]
          /\ UNCHANGED <<finished, returned>> /\ pc[w] = "pop"
      BY <1>2, <2>2 DEF Pop
    <3>2. /\ Items(ring) # <<>> /\ Oldest(ring) = Head(Items(ring))
          /\ Items(ring)' = Tail(Items(ring))
      BY <1>0, <2>2, <3>1, PopItems
    <3>3. running[w] = NoJob
      BY <1>0, <3>1 DEF TypeOK
    <3>4. running' = [running EXCEPT ![w] = Head(Items(ring))]
      BY <1>0, <3>1, <3>2 DEF TypeOK
    <3>5. JobQueueSpec!Start(w)
      BY <2>2, <3>1, <3>2, <3>3, <3>4 DEF JobQueueSpec!Start
    <3> QED
      BY <3>5 DEF JobQueueSpec!Next
  <2> QED
    BY <2>1, <2>2
<1>3. ASSUME NEW w \in Workers, Run(w) PROVE JobQueueSpec!Next
  <2>1. job' = [job EXCEPT ![w] = NoJob] /\ UNCHANGED <<ring, finished, returned>>
        /\ pc[w] = "run"
    BY <1>3 DEF Run
  <2>2. running[w] # NoJob
    BY <1>0, <2>1 DEF TypeOK
  <2>3. running' = [running EXCEPT ![w] = NoJob]
    BY <1>0, <2>1 DEF TypeOK
  <2>4. JobQueueSpec!End(w)
    BY <2>1, <2>2, <2>3 DEF JobQueueSpec!End
  <2> QED
    BY <2>4 DEF JobQueueSpec!Next
<1>4. ASSUME NEW f \in Finishers, Finish(f)
      PROVE  JobQueueSpec!Next \/ UNCHANGED JobQueueSpec!vars
  <2>1. finished' = TRUE /\ UNCHANGED <<ring, job, returned>>
    BY <1>4 DEF Finish
  <2>2. CASE finished
    <3>1. finished' = finished
      BY <1>0, <2>1, <2>2 DEF TypeOK
    <3> QED
      BY <2>1, <3>1, QueueStays
  <2>3. CASE ~finished
    <3>1. JobQueueSpec!Close
      BY <2>1, <2>3 DEF JobQueueSpec!Close
    <3> QED
      BY <3>1 DEF JobQueueSpec!Next
  <2> QED
    BY <2>2, <2>3
<1>5. ASSUME NEW f \in Finishers, FinishDrain(f) PROVE JobQueueSpec!Next
  <2>1. /\ NumRunning = 0 /\ UNCHANGED <<job, finished>> /\ finished
        /\ returned' = returned \cup ToSet(Items(ring)) /\ ring'.size = 0
    <3>1. ring'.size = 0
      BY <1>0, <1>5, RingFacts DEF FinishDrain, Rings
    <3> QED
      BY <1>0, <1>5, <3>1 DEF FinishDrain, WorkersInv, Queued
  <2>2. \A w \in Workers : running[w] = NoJob
    <3>1. IsFiniteSet({w \in Workers : pc[w] # "gone"})
      BY PoolAssumption, FS_Subset
    <3>2. {w \in Workers : pc[w] # "gone"} = {}
      BY <1>0, <2>1, <3>1, FS_EmptySet DEF WorkersInv
    <3> QED
      BY <1>0, <3>2 DEF TypeOK
  <2>3. Items(ring)' = <<>>
    <3>1. RingOK(ring')
      BY <1>0, JobsStep DEF JobsInv
    <3>2. Items(ring') \in Seq(Jobs) /\ Len(Items(ring')) = 0
      BY <2>1, <3>1, ItemsType
    <3> QED
      BY <3>2
  <2>4. JobQueueSpec!GiveBack
    BY <2>1, <2>2, <2>3 DEF JobQueueSpec!GiveBack, JobQueueSpec!ToSet, ToSet
  <2> QED
    BY <2>4 DEF JobQueueSpec!Next
<1>6. ASSUME NEW c \in Clients, NEW j \in Jobs, NEW tc \in Clients \cup {NoClient},
             QueueJob(c, j, tc)
      PROVE  UNCHANGED JobQueueSpec!vars
  <2>1. \A w \in Workers : job'[w] = job[w]
    BY <1>0, <1>6, PoolAssumption DEF QueueJob, TypeOK
  <2> QED
    BY <1>6, <2>1, QueueStays DEF QueueJob
<1>7. CASE \/ \E c \in Clients : NotifyNotEmpty(c) \/ Wait(c) \/ Reset(c)
           \/ \E w \in Workers : NotifyNotFull(w) \/ Exit(w)
           \/ \E t \in Owners : SpuriousWakeup(t)
           \/ Abandoned
  <2>1. UNCHANGED <<ring, finished, returned, job>>
    BY <1>7 DEF NotifyNotEmpty, Wait, Reset, NotifyNotFull, Exit, SpuriousWakeup, Abandoned, vars
  <2> QED
    BY <2>1, QueueStays
<1> QED
  BY <1>1, <1>2, <1>3, <1>4, <1>5, <1>6, <1>7 DEF Next, WorkerStep, ClientStep, Owners

\* The thread pool implements the job queue for any number of threads and jobs
\* and any capacity: jobs start in the order of QueueJob, each once, none after
\* Finish(), and those left over are handed back once all workers are gone.
THEOREM PoolImplementsJobQueue == Spec => ImplementsJobQueue
<1>1. PoolInv /\ [Next]_vars => [JobQueueSpec!Next]_(JobQueueSpec!vars)
  <2> SUFFICES ASSUME PoolInv, [Next]_vars
               PROVE  JobQueueSpec!Next \/ UNCHANGED JobQueueSpec!vars
    OBVIOUS
  <2>1. CASE Next
    BY <2>1, QueueStep
  <2>2. CASE UNCHANGED vars
    BY <2>2, QueueStays DEF vars
  <2> QED
    BY <2>1, <2>2
<1> QED
  BY <1>1, QueueInit, PoolInvHolds, PTL DEF Spec, ImplementsJobQueue, JobQueueSpec!Spec
===============================================================================
