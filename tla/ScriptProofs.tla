----------------------------- MODULE ScriptProofs -----------------------------
(***************************************************************************)
(* Proofs about Script: for any scripts, files and depths, contexts are    *)
(* pushed and popped in pairs, the script of a runtime filter sees the     *)
(* number of its own frame, $ScriptName$ is the script being read, and     *)
(* what a call must leave as it was is so when it ends.                    *)
(***************************************************************************)
EXTENDS Script, Integers, FiniteSetTheorems, SequenceTheorems, WellFoundedInduction, TLAPS

LastFrame(T) == T.stack[Len(T.stack)]

Contents == {"last", "current_frame"}

ScriptNames == {"$ScriptName$", "$MainScriptName$"}

\* The frame that SetGlobal writes to.
GlobalFrame(T) == IF Len(T.globals) > 0 THEN T.globals[Len(T.globals)] ELSE T.top

\* v is what the first g global frames and the top frame have for a name.
GlobalSees(T, g, name, v) ==
    \/ \E i \in 1 .. g : /\ T.globals[i][name] = v /\ v # Unset
                         /\ \A j \in i + 1 .. g : T.globals[j][name] = Unset
    \/ /\ \A j \in 1 .. g : T.globals[j][name] = Unset
       /\ v = IF T.top[name] # Unset THEN T.top[name] ELSE Undefined

\* v is what a frame of the stack has for a name, behind which seen is seen.
FrameSees(frame, seen, name, v) ==
    v = IF frame[name] # Unset THEN frame[name] ELSE seen

Kinds == Runtime \cup {"function", "try", "EvalOop", "Import", "UseVar"}

\* The calls that only a script makes.
Evaluated == {"function", "try", "EvalOop", "Import"}

\* What a call remembers of its caller: its frame, all variables, or what it sees.
Shaped(a) ==
    /\ a.kind = "function" => a.before = <<a.before[1]>>
    /\ a.local /\ a.kind # "function" => /\ a.before = <<a.before[1], a.before[2], a.before[3]>>
                                         /\ a.before[2] \in Seq(Frames)
    /\ ~a.local /\ a.kind \in Runtime \cup {"EvalOop", "UseVar"} => a.before = <<a.before[1], a.before[2]>>

\* A call on the C++ stack A.
CallOK(a) ==
    /\ a.kind \in Kinds /\ a.local \in BOOLEAN /\ Shaped(a)
    /\ a.kind = "function" => a.local
    /\ a.kind \in {"try", "EvalOop", "Import"} => ~a.local
    /\ a.kind \in Evaluated => a.phase = "script"
    /\ a.kind = "UseVar" => a.phase = "fetch"
    /\ a.kind \in Runtime => a.phase \in {"before", "script", "message", "after"}
    /\ a.main => a.kind = "Import"
    /\ a.kind = "Import" => a.saved[1] \in Values
    /\ ~a.local /\ a.kind \in Runtime \cup {"EvalOop"} => a.saved[1] \in Values /\ a.saved[2] \in Values

\* A filter that waits for a frame after it has put back the variables, or
\* without having changed them.
Resting(a) == ~a.local /\ a.phase \in {"fetch", "after"}

\* What there is to know about each depth k of the C++ stack: the sizes d and g of
\* the two stacks of frames, what is seen of last and current_frame through
\* the global frames, the current_frame c that is seen there, and the script s that
\* is read.
Level == [d : Nat \ {0}, g : Nat, last : Values, current_frame : Values, c : Values, s : Values]

CallFrames(a) == IF a.local THEN 1 ELSE 0

CallGlobals(a) == IF a.local /\ a.kind # "function" THEN 1 ELSE 0

\* A new level k of the C++ stack A.
LevelOK(L, A, k) ==
    /\ CallOK(A[k])
    /\ A[k].kind \in Evaluated /\ k > 1 => A[k - 1].phase = "script"
    /\ L[k].d = L[k - 1].d + CallFrames(A[k])
    /\ L[k].g = L[k - 1].g + CallGlobals(A[k])
    /\ IF A[k].local /\ A[k].kind \in Runtime
       THEN L[k].current_frame = A[k].n
       ELSE L[k].current_frame = L[k - 1].current_frame /\ L[k].last = L[k - 1].last
    /\ L[k].c = IF A[k].kind \in Runtime /\ (A[k].local \/ A[k].phase # "after") THEN A[k].n
                ELSE IF A[k].local THEN L[k].current_frame
                ELSE L[k - 1].c
    /\ L[k].s = IF A[k].kind = "Import" THEN A[k].file ELSE L[k - 1].s
    /\ ~A[k].local /\ A[k].kind \in Runtime \cup {"EvalOop"} => A[k].saved = A[k].before
    /\ ~A[k].local /\ A[k].kind \in Runtime \cup {"EvalOop", "UseVar"} /\ ~A[k].spoiled =>
          /\ A[k].before[2] = L[k - 1].c
          /\ k > 1 /\ Resting(A[k - 1]) => A[k].before[1] = A[k - 1].before[1]

\* What levels have to do with those below.
Ordered(L, A) ==
    \A k \in 0 .. Len(A) : \A i \in 0 .. k : L[i].d <= L[k].d /\ L[i].g <= L[k].g

OwnFrame(L, A) ==
    \A k \in 1 .. Len(A) : \A i \in 1 .. k :
        A[i].kind \in Runtime /\ (\A j \in i + 1 .. k : A[j].kind \notin Runtime) =>
            /\ A[i].local => L[k].current_frame = A[i].n /\ L[k].c = A[i].n
            /\ ~A[i].local /\ A[i].phase # "after" /\ (\A j \in i + 1 .. k : ~A[j].local) => L[k].c = A[i].n

OwnName(L, A) ==
    \A k \in 0 .. Len(A) :
        /\ \A i \in 1 .. k : A[i].kind = "Import" /\ (\A j \in i + 1 .. k : A[j].kind # "Import") => L[k].s = A[i].file
        /\ (\A i \in 1 .. k : A[i].kind # "Import") => L[k].s = Undefined

Inherited(L, A) ==
    \A k \in 1 .. Len(A) : \A i \in 1 .. k :
        ~A[i].local /\ ~A[k].local /\ L[i].d = L[k].d /\ A[i].spoiled => A[k].spoiled

Levels(L, A) ==
    /\ L \in [0 .. Len(A) -> Level]
    /\ L[0].d = 1 /\ L[0].g = 0 /\ L[0].s = Undefined
    /\ \A k \in 1 .. Len(A) : LevelOK(L, A, k)
    /\ Ordered(L, A) /\ OwnFrame(L, A) /\ OwnName(L, A) /\ Inherited(L, A)

\* The table under level k, as call k must find it again.
KeptAt(L, T, A, k) ==
    A[k].local =>
        /\ T.stack[L[k - 1].d] = A[k].before[1]
        /\ A[k].kind # "function" =>
             /\ Len(A[k].before[2]) = L[k - 1].g
             /\ \A i \in 1 .. L[k - 1].g : T.globals[i] = A[k].before[2][i]
             /\ T.top = A[k].before[3]

Kept(L, T, A) == \A k \in 1 .. Len(A) : KeptAt(L, T, A, k)

SeenGlobally(L, T, A) ==
    \A k \in 0 .. Len(A) : /\ GlobalSees(T, L[k].g, "last", L[k].last)
                           /\ GlobalSees(T, L[k].g, "current_frame", L[k].current_frame)

\* The variables that the level at the top of its frame sees.
SeenAt(L, T, A, k) ==
    /\ FrameSees(T.stack[L[k].d], L[k].current_frame, "current_frame", L[k].c)
    /\ k > 0 /\ Resting(A[k]) => FrameSees(T.stack[L[k].d], L[k].last, "last", A[k].before[1])

Seen(L, T, A, bad) ==
    \A k \in 0 .. Len(A) : (k = Len(A) \/ A[k + 1].local) /\ L[k].d \notin bad => SeenAt(L, T, A, k)

SpoiledOK(L, A, bad) ==
    \A k \in 1 .. Len(A) : ~A[k].local /\ A[k].spoiled => L[k].d \in bad

Right(g, bad) == \A i \in 0 .. g : i \notin bad

SavedName(L, A, k) == A[k].saved[1] = L[k - 1].s

NameSeen(L, T, A, bad) ==
    /\ \A k \in 0 .. Len(A) :
          (k = Len(A) \/ CallGlobals(A[k + 1]) = 1) /\ Right(L[k].g, bad) =>
              GlobalSees(T, L[k].g, "$ScriptName$", L[k].s)
    /\ \A k \in 1 .. Len(A) : A[k].kind = "Import" /\ Right(L[k].g, bad) => SavedName(L, A, k)

MainSeen(L, T, A) ==
    \A i \in 1 .. Len(A) : A[i].main =>
        /\ \A j \in 1 .. i - 1 : A[j].kind # "Import"
        /\ \A k \in i .. Len(A) : GlobalSees(T, L[k].g, "$MainScriptName$", A[i].file)

\* The sizes of the two stacks, and what the names of scripts are not in.
Clean(T) ==
    /\ \A i \in DOMAIN T.stackPool : T.stackPool[i] = Empty
    /\ \A i \in DOMAIN T.globalPool : T.globalPool[i] = Empty

TableOK(L, T, A) ==
    /\ T \in Tables /\ Clean(T)
    /\ Len(T.stack) = L[Len(A)].d /\ Len(T.globals) = L[Len(A)].g
    /\ \A i \in 1 .. Len(T.stack) : \A name \in ScriptNames : T.stack[i][name] = Unset

ImportsOf(A) == {i \in 1 .. Len(A) : A[i].kind = "Import"}

FiltersOf(A) == {i \in 1 .. Len(A) : CallGlobals(A[i]) = 1}

FunctionsOf(A) == {i \in 1 .. Len(A) : A[i].kind = "function"}

\* Imports that have thrown leave ImportDepth too high.
DepthOK(A, depth) ==
    /\ depth \in Nat
    /\ depth >= Cardinality(ImportsOf(A))
    /\ \A i \in 1 .. Len(A) : A[i].kind = "Import" /\ (\A j \in 1 .. i - 1 : A[j].kind # "Import") =>
          A[i].main \/ depth > Cardinality(ImportsOf(A))

Counted(T, A) ==
    /\ Len(T.globals) = Cardinality(FiltersOf(A))
    /\ Len(T.stack) = 1 + Cardinality(FiltersOf(A)) + Cardinality(FunctionsOf(A))

Saved == Seq(Values)

Before == Seq(Values) \cup Seq(Frames) \cup (Frames \X Seq(Frames) \X Frames)

Calls ==
    [kind : Kinds, local : BOOLEAN, phase : {"before", "script", "message", "after", "fetch"},
     main : BOOLEAN, n : Values, file : Values, saved : Saved, before : Before, spoiled : BOOLEAN]

Fits(L, T, A, bad, mis) ==
    /\ A \in Seq(Calls)
    /\ TableOK(L, T, A) /\ Levels(L, A)
    /\ bad \subseteq 1 .. Len(T.stack) /\ mis \subseteq 0 .. Len(T.globals)
    /\ Kept(L, T, A) /\ SeenGlobally(L, T, A)
    /\ Seen(L, T, A, bad) /\ SpoiledOK(L, A, bad)
    /\ NameSeen(L, T, A, mis) /\ MainSeen(L, T, A)

Fitting(T, A, bad, mis) == \E L : Fits(L, T, A, bad, mis)

Going(T, A, depth, bad, mis) ==
    Counted(T, A) /\ DepthOK(A, depth) /\ Fitting(T, A, bad, mis)

ScriptInv == exc \in BOOLEAN /\ Going(table, act, ImportDepth, spoiled, misnamed)

-------------------------------------------------------------------------------
(* The table                                                               *)

\* U is T with variables S set in the innermost frame and G globally.
Writes(T, U, S, G) ==
    /\ T \in Tables /\ U \in Tables
    /\ Len(T.stack) > 0
    /\ Len(U.stack) = Len(T.stack) /\ Len(U.globals) = Len(T.globals)
    /\ \A i \in 1 .. Len(T.stack) - 1 : U.stack[i] = T.stack[i]
    /\ \A i \in 1 .. Len(T.globals) - 1 : U.globals[i] = T.globals[i]
    /\ Len(T.globals) > 0 => U.top = T.top
    /\ \A name \in Names \ S : LastFrame(U)[name] = LastFrame(T)[name]
    /\ \A name \in Names \ G :
         /\ Len(T.globals) > 0 => U.globals[Len(T.globals)][name] = T.globals[Len(T.globals)][name]
         /\ U.top[name] = T.top[name]
    /\ G = {} => U.globals = T.globals /\ U.top = T.top
    /\ Clean(T) => Clean(U)

\* A new frame has no variables.
LEMMA EmptyFrame == Empty \in Frames /\ \A name \in Names : Empty[name] = Unset
BY DEF Empty, Frames

\* What being a table says of its stacks, as the steps below use it.
LEMMA TableParts ==
    ASSUME NEW T \in Tables
    PROVE  /\ T.stack \in Seq(Frames) /\ T.globals \in Seq(Frames) /\ T.top \in Frames
           /\ T.stackPool \in Seq(Frames) /\ T.globalPool \in Seq(Frames)
           /\ Len(T.stack) \in Nat /\ Len(T.globals) \in Nat
           /\ DOMAIN T.stack = 1 .. Len(T.stack) /\ DOMAIN T.globals = 1 .. Len(T.globals)
           /\ \A i \in 1 .. Len(T.stack) : T.stack[i] \in Frames
           /\ \A i \in 1 .. Len(T.globals) : T.globals[i] \in Frames
BY DEF Tables

\* One variable of one frame is set.
LEMMA FrameChange ==
    ASSUME NEW s \in Seq(Frames), NEW n \in 1 .. Len(s), NEW name \in Names, NEW val \in Values
    PROVE  LET u == [s EXCEPT ![n][name] = val]
           IN  /\ u \in Seq(Frames) /\ Len(u) = Len(s)
               /\ \A i \in 1 .. Len(s) : i # n => u[i] = s[i]
               /\ \A x \in Names : u[n][x] = IF x = name THEN val ELSE s[n][x]
<1> DEFINE f == [s[n] EXCEPT ![name] = val]
           u == [s EXCEPT ![n] = f]
<1>1. s[n] \in Frames
  OBVIOUS
<1>2. f \in Frames /\ \A x \in Names : f[x] = IF x = name THEN val ELSE s[n][x]
  BY <1>1 DEF Frames
<1> HIDE DEF f
<1>3. u \in Seq(Frames) /\ Len(u) = Len(s) /\ u[n] = f /\ \A i \in 1 .. Len(s) : i # n => u[i] = s[i]
  BY <1>2
<1> QED
  BY <1>2, <1>3 DEF f

\* var_table->Set writes to the innermost frame and nowhere else.
LEMMA SetWrites ==
    ASSUME NEW T \in Tables, Len(T.stack) > 0, NEW name \in Names, NEW val \in Values
    PROVE  /\ Writes(T, Set(T, name, val), {name}, {})
           /\ LastFrame(Set(T, name, val))[name] = val
<1> DEFINE n == Len(T.stack)
           s == [T.stack EXCEPT ![n][name] = val]
           U == [T EXCEPT !.stack = s]
<1>1. n \in 1 .. Len(T.stack) /\ T.stack \in Seq(Frames)
  BY TableParts
<1>2. /\ s \in Seq(Frames) /\ Len(s) = Len(T.stack)
      /\ \A i \in 1 .. Len(T.stack) : i # n => s[i] = T.stack[i]
      /\ \A x \in Names : s[n][x] = IF x = name THEN val ELSE T.stack[n][x]
  BY <1>1, FrameChange
<1>3. Set(T, name, val) = U
  BY DEF Set, Tables
<1> HIDE DEF s
<1>4. /\ U \in Tables /\ U.stack = s /\ U.globals = T.globals /\ U.top = T.top
      /\ U.stackPool = T.stackPool /\ U.globalPool = T.globalPool
  BY <1>2 DEF Tables
<1> HIDE DEF U
<1>5. \A i \in 1 .. Len(T.stack) - 1 : i \in 1 .. Len(T.stack) /\ i # n
  BY <1>1
<1> QED
  BY <1>1, <1>2, <1>3, <1>4, <1>5 DEF Writes, LastFrame, Clean

\* SetGlobal writes to the innermost global frame and nowhere else.
LEMMA SetGlobalWrites ==
    ASSUME NEW T \in Tables, Len(T.stack) > 0, NEW name \in Names, NEW val \in Values
    PROVE  /\ Writes(T, SetGlobal(T, name, val), {}, {name})
           /\ GlobalFrame(SetGlobal(T, name, val))[name] = val
<1> DEFINE n == Len(T.globals)
           U == SetGlobal(T, name, val)
<1>1. n \in Nat /\ T.globals \in Seq(Frames) /\ T.top \in Frames
  BY TableParts
<1>2. CASE T.globals # <<>>
  <2> DEFINE s == [T.globals EXCEPT ![n][name] = val]
             V == [T EXCEPT !.globals = s]
  <2>1. n \in 1 .. Len(T.globals)
    BY <1>1, <1>2
  <2>2. /\ s \in Seq(Frames) /\ Len(s) = Len(T.globals)
        /\ \A i \in 1 .. Len(T.globals) : i # n => s[i] = T.globals[i]
        /\ \A x \in Names : s[n][x] = IF x = name THEN val ELSE T.globals[n][x]
    BY <1>1, <2>1, FrameChange
  <2>3. U = V
    BY <1>2 DEF SetGlobal, Tables
  <2> HIDE DEF s
  <2>4. /\ V \in Tables /\ V.globals = s /\ V.stack = T.stack /\ V.top = T.top
        /\ V.stackPool = T.stackPool /\ V.globalPool = T.globalPool
    BY <2>2 DEF Tables
  <2> HIDE DEF U, V
  <2>5. \A i \in 1 .. Len(T.globals) - 1 : i \in 1 .. Len(T.globals) /\ i # n
    BY <1>1
  <2>6. Writes(T, V, {}, {name})
    BY <1>1, <2>1, <2>2, <2>4, <2>5 DEF Writes, LastFrame, Clean
  <2>7. GlobalFrame(V)[name] = val
    BY <2>1, <2>2, <2>4 DEF GlobalFrame
  <2> QED
    BY <2>3, <2>6, <2>7 DEF U
<1>3. CASE T.globals = <<>>
  <2> DEFINE f == [T.top EXCEPT ![name] = val]
             V == [T EXCEPT !.top = f]
  <2>1. f \in Frames /\ \A x \in Names : f[x] = IF x = name THEN val ELSE T.top[x]
    BY <1>1 DEF Frames
  <2>2. U = V
    BY <1>3 DEF SetGlobal, Tables
  <2> HIDE DEF f
  <2>3. /\ V \in Tables /\ V.globals = T.globals /\ V.stack = T.stack /\ V.top = f
        /\ V.stackPool = T.stackPool /\ V.globalPool = T.globalPool
    BY <2>1 DEF Tables
  <2> HIDE DEF U, V
  <2>4. Len(T.globals) = 0
    BY <1>3
  <2> QED
    BY <2>1, <2>2, <2>3, <2>4 DEF Writes, LastFrame, GlobalFrame, Clean, U
<1> QED
  BY <1>2, <1>3

\* A step without an assignment.
LEMMA NothingWritten ==
    ASSUME NEW T \in Tables, Len(T.stack) > 0
    PROVE  Writes(T, T, {}, {})
BY DEF Writes

\* One assignment after the other.
LEMMA WritesTwice ==
    ASSUME NEW T, NEW U, NEW V, NEW S1, NEW S2, NEW G1, NEW G2,
           Writes(T, U, S1, G1), Writes(U, V, S2, G2)
    PROVE  Writes(T, V, S1 \cup S2, G1 \cup G2)
<1>1. G1 \cup G2 = {} => G1 = {} /\ G2 = {}
  OBVIOUS
<1> QED
  BY <1>1, TableParts DEF Writes, LastFrame

\* Writing less than one might have.
-------------------------------------------------------------------------------

(* What Get finds                                                          *)

\* What is seen globally depends on the first g global frames and the top frame.
LEMMA GlobalSame ==
    ASSUME NEW T, NEW U, NEW g \in Nat, NEW name, NEW v,
           \A i \in 1 .. g : U.globals[i][name] = T.globals[i][name], U.top[name] = T.top[name],
           GlobalSees(T, g, name, v)
    PROVE  GlobalSees(U, g, name, v)
BY DEF GlobalSees

\* A global frame without the name does not hide it.
LEMMA GlobalNext ==
    ASSUME NEW T, NEW g \in Nat, NEW name, NEW v,
           T.globals[g + 1][name] = Unset, GlobalSees(T, g, name, v)
    PROVE  GlobalSees(T, g + 1, name, v)
<1>1. \A i \in 1 .. g + 1 : i \in 1 .. g \/ i = g + 1
  OBVIOUS
<1>2. \A i \in 1 .. g : i \in 1 .. g + 1 /\ \A j \in i + 1 .. g + 1 : j \in i + 1 .. g \/ j = g + 1
  OBVIOUS
<1> QED
  BY <1>1, <1>2 DEF GlobalSees

\* The innermost global frame has the name.
LEMMA GlobalHit ==
    ASSUME NEW T, NEW g \in Nat \ {0}, NEW name, NEW v, v # Unset, T.globals[g][name] = v
    PROVE  GlobalSees(T, g, name, v)
<1>1. g \in 1 .. g /\ g + 1 .. g = {}
  OBVIOUS
<1> QED
  BY <1>1 DEF GlobalSees

\* A name that has just been set globally is seen.
LEMMA GlobalSet ==
    ASSUME NEW T \in Tables, NEW name, NEW v, v # Unset, GlobalFrame(T)[name] = v
    PROVE  GlobalSees(T, Len(T.globals), name, v)
<1>1. Len(T.globals) \in Nat
  BY TableParts
<1>2. CASE Len(T.globals) > 0
  BY <1>1, <1>2, GlobalHit DEF GlobalFrame
<1>3. CASE Len(T.globals) = 0
  <2>1. 1 .. 0 = {}
    OBVIOUS
  <2> QED
    BY <1>3, <2>1 DEF GlobalFrame, GlobalSees
<1> QED
  BY <1>1, <1>2, <1>3

\* The order in which Get looks at the frames.
LEMMA ScopeIs ==
    ASSUME NEW T \in Tables, Len(T.stack) > 0, NEW N, N = Len(T.globals)
    PROVE  /\ DOMAIN Scope(T) = 1 .. N + 2
           /\ Scope(T)[1] = LastFrame(T)
           /\ \A i \in 1 .. N : Scope(T)[N + 2 - i] = T.globals[i]
           /\ Scope(T)[N + 2] = T.top
<1>1. T.globals \in Seq(Frames) /\ T.top \in Frames /\ N \in Nat /\ LastFrame(T) \in Frames
  BY TableParts DEF LastFrame
<1> DEFINE r == [i \in 1 .. N |-> T.globals[(N - i) + 1]]
<1>2. r \in Seq(Frames) /\ Len(r) = N
  BY <1>1
<1>3. \A i \in 1 .. N : r[N + 1 - i] = T.globals[i]
  <2> TAKE i \in 1 .. N
  <2>1. N + 1 - i \in 1 .. N /\ (N - (N + 1 - i)) + 1 = i
    BY <1>1
  <2> QED
    BY <2>1
<1>4. Scope(T) = <<LastFrame(T)>> \o r \o <<T.top>>
  BY DEF Scope, Last, LastFrame, Reverse
<1> HIDE DEF r
<1>5. PICK f \in Frames, h \in Frames : f = LastFrame(T) /\ h = T.top
  BY <1>1
<1> DEFINE a == <<f>> \o r
<1>6. a \in Seq(Frames) /\ Len(a) = N + 1 /\ a[1] = f /\ \A i \in 1 .. N : a[i + 1] = r[i]
  BY <1>1, <1>2
<1> HIDE DEF a
<1> DEFINE b == a \o <<h>>
<1>7. b \in Seq(Frames) /\ Len(b) = N + 2 /\ b[N + 2] = h /\ \A i \in 1 .. N + 1 : b[i] = a[i]
  <2>1. <<h>> \in Seq(Frames) /\ Len(<<h>>) = 1 /\ <<h>>[1] = h
    OBVIOUS
  <2>2. PICK w \in Seq(Frames) : w = <<h>>
    BY <2>1
  <2>3. Len(a \o w) = N + 2 /\ a \o w \in Seq(Frames)
    BY <1>1, <1>6, <2>1, <2>2
  <2>4. (a \o w)[N + 2] = w[1]
    BY <1>1, <1>6, <2>1, <2>2
  <2>5. \A i \in 1 .. N + 1 : (a \o w)[i] = a[i]
    BY <1>1, <1>6, <2>1, <2>2
  <2> QED
    BY <2>1, <2>2, <2>3, <2>4, <2>5
<1> HIDE DEF b
<1>8. Scope(T) = b
  BY <1>4, <1>5 DEF a, b
<1>9. \A i \in 1 .. N : b[N + 2 - i] = T.globals[i]
  <2> TAKE i \in 1 .. N
  <2>1. N + 1 - i \in 1 .. N /\ N + 2 - i = (N + 1 - i) + 1 /\ N + 2 - i \in 1 .. N + 1
    BY <1>1
  <2> QED
    BY <1>3, <1>6, <1>7, <2>1
<1>10. b[1] = f
  BY <1>1, <1>6, <1>7
<1> QED
  BY <1>1, <1>5, <1>7, <1>8, <1>9, <1>10

\* Get takes the value from the first frame that has the name.
LEMMA GetFirst ==
    ASSUME NEW T \in Tables, NEW name, NEW p \in DOMAIN Scope(T), DOMAIN Scope(T) \subseteq Nat,
           Scope(T)[p][name] # Unset,
           \A q \in DOMAIN Scope(T) : q < p => Scope(T)[q][name] = Unset
    PROVE  Get(T, name) = Scope(T)[p][name]
<1> DEFINE F == Found(T, name)
<1>1. F \subseteq Nat /\ p \in F
  BY DEF Found
<1>2. \A q \in F : p <= q
  BY <1>1 DEF Found
<1> DEFINE c == CHOOSE i \in F : \A j \in F : i <= j
<1>3. c \in F /\ \A j \in F : c <= j
  BY <1>1, <1>2
<1> HIDE DEF F, c
<1>4. c = p
  BY <1>1, <1>2, <1>3
<1> QED
  BY <1>1, <1>4 DEF Get, F, c

\* What Get finds: the innermost frame first, and then what is seen globally.
LEMMA GetIs ==
    ASSUME NEW T \in Tables, Len(T.stack) > 0, NEW name \in Names, NEW seen, NEW v,
           GlobalSees(T, Len(T.globals), name, seen), FrameSees(LastFrame(T), seen, name, v)
    PROVE  Get(T, name) = v
<1> DEFINE N == Len(T.globals)
           D == DOMAIN Scope(T)
<1>1. N \in Nat
  BY TableParts
<1>2. /\ D = 1 .. N + 2 /\ Scope(T)[1] = LastFrame(T)
      /\ \A i \in 1 .. N : Scope(T)[N + 2 - i] = T.globals[i]
      /\ Scope(T)[N + 2] = T.top
  BY ScopeIs
<1> HIDE DEF N
<1>3. \A q \in D : q = 1 \/ q = N + 2 \/ (N + 2 - q \in 1 .. N /\ N + 2 - (N + 2 - q) = q)
  BY <1>1, <1>2
<1>4. CASE LastFrame(T)[name] # Unset
  <2>1. 1 \in D /\ D \subseteq Nat /\ \A q \in D : q < 1 => Scope(T)[q][name] = Unset
    BY <1>1, <1>2
  <2>2. Scope(T)[1][name] # Unset /\ Scope(T)[1][name] = v
    BY <1>2, <1>4 DEF FrameSees
  <2>3. Get(T, name) = Scope(T)[1][name]
    BY <2>1, <2>2, GetFirst
  <2> QED
    BY <2>2, <2>3
<1>5. ASSUME LastFrame(T)[name] = Unset,
             NEW i \in 1 .. N, T.globals[i][name] = seen, seen # Unset,
             \A j \in i + 1 .. N : T.globals[j][name] = Unset
      PROVE  Get(T, name) = v
  <2> DEFINE p == N + 2 - i
  <2>1. p \in D /\ Scope(T)[p][name] = seen /\ v = seen /\ p < N + 2
    BY <1>1, <1>2, <1>5 DEF FrameSees
  <2>2. ASSUME NEW q \in D, q < p PROVE Scope(T)[q][name] = Unset
    <3>1. CASE q = 1
      BY <1>2, <1>5, <3>1
    <3>2. CASE q # 1
      <4>1. PICK j \in 1 .. N : j = N + 2 - q /\ N + 2 - j = q
        BY <1>1, <1>3, <2>1, <2>2, <3>2
      <4>2. j \in i + 1 .. N
        BY <1>1, <2>2, <4>1
      <4> QED
        BY <1>2, <1>5, <4>1, <4>2
    <3> QED
      BY <3>1, <3>2
  <2> HIDE DEF p
  <2>3. D \subseteq Nat
    BY <1>1, <1>2
  <2>4. Scope(T)[p][name] # Unset
    BY <1>5, <2>1
  <2>5. Get(T, name) = Scope(T)[p][name]
    BY <2>1, <2>2, <2>3, <2>4, GetFirst
  <2> QED
    BY <2>1, <2>5
<1>6. ASSUME LastFrame(T)[name] = Unset, \A j \in 1 .. N : T.globals[j][name] = Unset,
             seen = IF T.top[name] # Unset THEN T.top[name] ELSE Undefined
      PROVE  Get(T, name) = v
  <2>1. \A q \in D : q # N + 2 => Scope(T)[q][name] = Unset
    BY <1>2, <1>3, <1>6
  <2>2. v = seen
    BY <1>6 DEF FrameSees
  <2>3. N + 2 \in D /\ D \subseteq Nat /\ \A q \in D : q < N + 2 => q # N + 2
    BY <1>1, <1>2
  <2>4. CASE T.top[name] # Unset
    BY <1>2, <1>6, <2>1, <2>2, <2>3, <2>4, GetFirst
  <2>5. CASE T.top[name] = Unset
    <3>1. Found(T, name) = {}
      BY <1>2, <2>1, <2>5 DEF Found
    <3> QED
      BY <1>6, <2>2, <2>5, <3>1 DEF Get
  <2> QED
    BY <2>4, <2>5
<1> QED
  BY <1>4, <1>5, <1>6 DEF GlobalSees, N

\* Behind the innermost frame, there is what is seen globally.
LEMMA GetBehind ==
    ASSUME NEW T \in Tables, Len(T.stack) > 0, NEW name \in Names, NEW seen,
           GlobalSees(T, Len(T.globals), name, seen)
    PROVE  FrameSees(LastFrame(T), seen, name, Get(T, name))
<1>1. PICK v : FrameSees(LastFrame(T), seen, name, v)
  BY DEF FrameSees
<1> QED
  BY <1>1, GetIs

-------------------------------------------------------------------------------

(* Frames that are pushed and popped                                       *)

\* A frame is pushed on the stack and b frames are pushed globally.
Opens(T, U, b) ==
    /\ T \in Tables /\ U \in Tables
    /\ Len(U.stack) = Len(T.stack) + 1 /\ Len(U.globals) = Len(T.globals) + b
    /\ \A i \in 1 .. Len(T.stack) : U.stack[i] = T.stack[i]
    /\ \A i \in 1 .. Len(T.globals) : U.globals[i] = T.globals[i]
    /\ U.top = T.top
    /\ \A name \in Contents \cup ScriptNames : LastFrame(U)[name] = Unset
    /\ b = 1 => \A name \in ScriptNames : U.globals[Len(U.globals)][name] = Unset
    /\ Clean(U)

\* They are popped.
Closes(T, U, b) ==
    /\ T \in Tables /\ U \in Tables
    /\ Len(U.stack) = Len(T.stack) - 1 /\ Len(U.globals) = Len(T.globals) - b
    /\ \A i \in 1 .. Len(U.stack) : U.stack[i] = T.stack[i]
    /\ \A i \in 1 .. Len(U.globals) : U.globals[i] = T.globals[i]
    /\ U.top = T.top
    /\ Clean(T) => Clean(U)

\* The names there are, and that being unset is not a value.
LEMMA TheNames == Names = Contents \cup ScriptNames \cup {"x"} /\ Undefined \in Values /\ Unset \notin Values
BY ScriptAssumption, VarTableAssumption DEF Contents, ScriptNames

\* The sequence without its last element.
LEMMA FrontIs ==
    ASSUME NEW S, NEW s \in Seq(S)
    PROVE  /\ Front(s) \in Seq(S)
           /\ Len(Front(s)) = IF Len(s) = 0 THEN 0 ELSE Len(s) - 1
           /\ \A i \in 1 .. Len(s) - 1 : Front(s)[i] = s[i]
<1>1. Len(s) \in Nat /\ 1 \in Int /\ Len(s) - 1 \in Int
  OBVIOUS
<1>2. \A i \in 1 .. Len(s) - 1 : s[i] \in S
  OBVIOUS
<1>3. /\ SubSeq(s, 1, Len(s) - 1) \in Seq(S)
      /\ Len(SubSeq(s, 1, Len(s) - 1)) = IF 1 <= Len(s) - 1 THEN (Len(s) - 1) - 1 + 1 ELSE 0
      /\ \A i \in 1 .. (Len(s) - 1) - 1 + 1 : SubSeq(s, 1, Len(s) - 1)[i] = s[1 + i - 1]
  BY <1>1, <1>2, SubSeqProperties
<1> QED
  BY <1>1, <1>3 DEF Front

\* What a pool gives is empty, and what is left of it.
LEMMA PoolGives ==
    ASSUME NEW p \in Seq(Frames), \A i \in DOMAIN p : p[i] = Empty
    PROVE  /\ Reused(p) = Empty
           /\ Front(p) \in Seq(Frames) /\ \A i \in DOMAIN Front(p) : Front(p)[i] = Empty
<1>1. Reused(p) = Empty
  BY DEF Reused, Last
<1>2. \A i \in 1 .. Len(Front(p)) : i \in 1 .. Len(p) - 1 /\ i \in DOMAIN p
  BY FrontIs
<1>3. DOMAIN Front(p) = 1 .. Len(Front(p))
  BY FrontIs
<1> QED
  BY <1>1, <1>2, <1>3, FrontIs

\* A frame is cleared before it goes into the pool.
LEMMA PoolTakes ==
    ASSUME NEW p \in Seq(Frames)
    PROVE  /\ Append(p, Empty) \in Seq(Frames)
           /\ (\A i \in DOMAIN p : p[i] = Empty) => \A i \in DOMAIN Append(p, Empty) : Append(p, Empty)[i] = Empty
BY EmptyFrame

\* Push adds an empty frame, reused or new.
LEMMA PushOpens ==
    ASSUME NEW T \in Tables, Clean(T)
    PROVE  Opens(T, Push(T), 0)
<1>1. T.stack \in Seq(Frames) /\ T.stackPool \in Seq(Frames) /\ T.globals \in Seq(Frames)
  BY TableParts
<1>2. /\ Reused(T.stackPool) = Empty /\ Front(T.stackPool) \in Seq(Frames)
      /\ \A i \in DOMAIN Front(T.stackPool) : Front(T.stackPool)[i] = Empty
  BY <1>1, PoolGives DEF Clean
<1> DEFINE s == Append(T.stack, Empty)
           q == Front(T.stackPool)
           U == [T EXCEPT !.stack = s, !.stackPool = q]
<1>3. Push(T) = U
  BY <1>2 DEF Push, Tables
<1>4. /\ s \in Seq(Frames) /\ Len(s) = Len(T.stack) + 1 /\ s[Len(s)] = Empty
      /\ \A i \in 1 .. Len(T.stack) : s[i] = T.stack[i]
  BY <1>1, EmptyFrame
<1> HIDE DEF s, q
<1>5. /\ U \in Tables /\ U.stack = s /\ U.stackPool = q /\ U.globals = T.globals /\ U.top = T.top
      /\ U.globalPool = T.globalPool
  BY <1>2, <1>4 DEF Tables, q
<1> HIDE DEF U
<1>6. \A name \in Contents \cup ScriptNames : LastFrame(U)[name] = Unset
  BY <1>4, <1>5, EmptyFrame, TheNames DEF LastFrame
<1>7. Len(U.globals) = Len(T.globals) + 0
  BY <1>1, <1>5
<1>8. Clean(U)
  BY <1>2, <1>5 DEF Clean, q
<1> QED
  BY <1>3, <1>4, <1>5, <1>6, <1>7, <1>8 DEF Opens

\* PushGlobal adds an empty stack frame and an empty global frame.
LEMMA PushGlobalOpens ==
    ASSUME NEW T \in Tables, Clean(T)
    PROVE  /\ Opens(T, PushGlobal(T), 1)
           /\ PushGlobal(T).globals[Len(PushGlobal(T).globals)] = Empty
<1> DEFINE W == Push(T)
           s == Append(T.globals, Empty)
           q == Front(T.globalPool)
           U == [W EXCEPT !.globals = s, !.globalPool = q]
<1>1. T.globals \in Seq(Frames) /\ T.globalPool \in Seq(Frames)
  BY TableParts
<1>2. Opens(T, W, 0) /\ W.globals = T.globals /\ W.globalPool = T.globalPool /\ W \in Tables
  BY PushOpens DEF Push, Tables, Opens
<1>3. /\ Reused(T.globalPool) = Empty /\ q \in Seq(Frames)
      /\ \A i \in DOMAIN q : q[i] = Empty
  BY <1>1, PoolGives DEF Clean
<1> HIDE DEF W
<1>4. PushGlobal(T) = U
  BY <1>2, <1>3 DEF PushGlobal, Tables, W
<1>5. /\ s \in Seq(Frames) /\ Len(s) = Len(T.globals) + 1 /\ s[Len(s)] = Empty
      /\ \A i \in 1 .. Len(T.globals) : s[i] = T.globals[i]
  BY <1>1, EmptyFrame
<1> HIDE DEF s, q
<1>6. /\ U \in Tables /\ U.stack = W.stack /\ U.stackPool = W.stackPool /\ U.globals = s /\ U.top = W.top
      /\ U.globalPool = q
  BY <1>2, <1>3, <1>5 DEF Tables
<1> HIDE DEF U
<1>7. \A name \in ScriptNames : U.globals[Len(U.globals)][name] = Unset
  BY <1>5, <1>6, EmptyFrame, TheNames
<1>8. Clean(U)
  BY <1>2, <1>3, <1>6 DEF Clean, Opens
<1>9. Opens(T, U, 1)
  BY <1>2, <1>5, <1>6, <1>7, <1>8 DEF Opens, LastFrame
<1> QED
  BY <1>4, <1>5, <1>6, <1>9

\* The variables set after a push are in the new frames.
LEMMA OpensThenWrites ==
    ASSUME NEW T, NEW W, NEW U, NEW b \in {0, 1}, NEW S, NEW G, Opens(T, W, b), Writes(W, U, S, G),
           S \cap (Contents \cup ScriptNames) = {}, G \cap ScriptNames = {}, b = 0 => G = {}
    PROVE  Opens(T, U, b)
<1>1. /\ T \in Tables /\ U \in Tables /\ W \in Tables
      /\ Len(T.stack) \in Nat /\ Len(T.globals) \in Nat
      /\ Len(W.stack) = Len(T.stack) + 1 /\ Len(W.globals) = Len(T.globals) + b
      /\ Len(U.stack) = Len(W.stack) /\ Len(U.globals) = Len(W.globals)
  BY TableParts DEF Opens, Writes
<1>2. \A i \in 1 .. Len(T.stack) : U.stack[i] = T.stack[i]
  BY <1>1 DEF Opens, Writes
<1>3. \A i \in 1 .. Len(T.globals) : U.globals[i] = T.globals[i]
  BY <1>1 DEF Opens, Writes
<1>4. U.top = T.top
  BY <1>1 DEF Opens, Writes
<1>5. \A name \in Contents \cup ScriptNames : name \in Names \ S /\ LastFrame(U)[name] = Unset
  BY TheNames DEF Opens, Writes
<1>6. ASSUME b = 1, NEW name \in ScriptNames PROVE U.globals[Len(U.globals)][name] = Unset
  <2>1. name \in Names \ G /\ Len(W.globals) > 0
    BY <1>1, <1>6, TheNames
  <2> QED
    BY <1>1, <1>6, <2>1 DEF Opens, Writes
<1>7. Clean(U)
  BY DEF Opens, Writes
<1> QED
  BY <1>1, <1>2, <1>3, <1>4, <1>5, <1>6, <1>7 DEF Opens

\* Pop takes the innermost frame away and leaves the others.
LEMMA PopCloses ==
    ASSUME NEW T \in Tables, Len(T.stack) > 0
    PROVE  Closes(T, Pop(T), 0) /\ Pop(T).globals = T.globals /\ Pop(T).globalPool = T.globalPool
<1>1. T.stack \in Seq(Frames) /\ T.stackPool \in Seq(Frames) /\ T.globals \in Seq(Frames)
  BY TableParts
<1> DEFINE s == Front(T.stack)
           q == Append(T.stackPool, Empty)
           U == [T EXCEPT !.stackPool = q, !.stack = s]
<1>2. Pop(T) = U
  BY DEF Pop, Tables
<1>3. s \in Seq(Frames) /\ Len(s) = Len(T.stack) - 1 /\ \A i \in 1 .. Len(T.stack) - 1 : s[i] = T.stack[i]
  BY <1>1, FrontIs
<1>4. q \in Seq(Frames) /\ ((\A i \in DOMAIN T.stackPool : T.stackPool[i] = Empty) => \A i \in DOMAIN q : q[i] = Empty)
  BY <1>1, PoolTakes
<1> HIDE DEF s, q
<1>5. /\ U \in Tables /\ U.stack = s /\ U.stackPool = q /\ U.globals = T.globals /\ U.top = T.top
      /\ U.globalPool = T.globalPool
  BY <1>3, <1>4 DEF Tables
<1> HIDE DEF U
<1>6. Len(U.globals) = Len(T.globals) - 0
  BY <1>1, <1>5
<1> QED
  BY <1>2, <1>3, <1>4, <1>5, <1>6 DEF Closes, Clean

\* PopGlobal takes one frame of each kind away.
LEMMA PopGlobalCloses ==
    ASSUME NEW T \in Tables, Len(T.stack) > 0, Len(T.globals) > 0
    PROVE  Closes(T, PopGlobal(T), 1)
<1>1. T.globals \in Seq(Frames) /\ T.globalPool \in Seq(Frames)
  BY TableParts
<1> DEFINE W == Pop(T)
           s == Front(T.globals)
           q == Append(T.globalPool, Empty)
           U == [W EXCEPT !.globalPool = q, !.globals = s]
<1>2. Closes(T, W, 0) /\ W.globals = T.globals /\ W.globalPool = T.globalPool /\ W \in Tables
  BY PopCloses DEF Closes
<1> HIDE DEF W
<1>3. PopGlobal(T) = U
  BY <1>2 DEF PopGlobal, Tables, W
<1>4. /\ s \in Seq(Frames) /\ Len(s) = Len(T.globals) - 1 /\ \A i \in 1 .. Len(T.globals) - 1 : s[i] = T.globals[i]
  BY <1>1, FrontIs
<1>5. q \in Seq(Frames) /\ ((\A i \in DOMAIN T.globalPool : T.globalPool[i] = Empty) => \A i \in DOMAIN q : q[i] = Empty)
  BY <1>1, PoolTakes
<1> HIDE DEF s, q
<1>6. /\ U \in Tables /\ U.stack = W.stack /\ U.stackPool = W.stackPool /\ U.globals = s /\ U.top = W.top
      /\ U.globalPool = q
  BY <1>2, <1>4, <1>5 DEF Tables
<1> HIDE DEF U
<1>7. Clean(T) => Clean(U)
  BY <1>2, <1>5, <1>6 DEF Closes, Clean
<1> QED
  BY <1>2, <1>3, <1>4, <1>6, <1>7 DEF Closes

-------------------------------------------------------------------------------

(* Levels                                                                  *)

\* The parts of a level.
LEMMA LevelTypes ==
    ASSUME NEW L, NEW A, Len(A) \in Nat, Levels(L, A)
    PROVE  /\ \A k \in 0 .. Len(A) : /\ L[k].d \in Nat \ {0} /\ L[k].g \in Nat
                                     /\ L[k].last \in Values /\ L[k].current_frame \in Values
                                     /\ L[k].c \in Values /\ L[k].s \in Values
           /\ \A k \in 1 .. Len(A) : k - 1 \in 0 .. Len(A) /\ k \in 0 .. Len(A)
<1>1. \A k \in 0 .. Len(A) : L[k] \in Level
  BY DEF Levels
<1> QED
  BY <1>1 DEF Level

\* The frames of a call with variables of its own are above those of all the
\* calls around it.
LEMMA Above ==
    ASSUME NEW L, NEW A, Len(A) \in Nat, Levels(L, A), NEW k \in 1 .. Len(A)
    PROVE  /\ L[k].d = L[k - 1].d + CallFrames(A[k]) /\ L[k].g = L[k - 1].g + CallGlobals(A[k])
           /\ CallFrames(A[k]) \in {0, 1} /\ CallGlobals(A[k]) \in {0, 1}
           /\ \A j \in k .. Len(A) : L[k - 1].d + CallFrames(A[k]) <= L[j].d /\ L[k - 1].g + CallGlobals(A[k]) <= L[j].g
<1>1. LevelOK(L, A, k)
  BY DEF Levels
<1>2. \A j \in k .. Len(A) : j \in 0 .. Len(A) /\ k \in 0 .. j
  OBVIOUS
<1>3. \A j \in k .. Len(A) : L[k].d <= L[j].d /\ L[k].g <= L[j].g
  BY <1>2 DEF Levels, Ordered
<1> QED
  BY <1>1, <1>3 DEF LevelOK, CallFrames, CallGlobals

\* LevelOK looks at a level and the one below only.
LEMMA SameLevelOK ==
    ASSUME NEW L, NEW A, NEW M, NEW B, NEW k \in Nat \ {0},
           M[k - 1] = L[k - 1], M[k] = L[k], B[k] = A[k], k > 1 => B[k - 1] = A[k - 1], LevelOK(L, A, k)
    PROVE  LevelOK(M, B, k)
<1>1. CASE k > 1
  BY <1>1 DEF LevelOK
<1>2. CASE ~(k > 1)
  BY <1>2 DEF LevelOK
<1> QED
  BY <1>1, <1>2

Inherits(M, B, m) ==
    \A i \in 1 .. m - 1 : ~B[i].local /\ ~B[m].local /\ M[i].d = M[m].d /\ B[i].spoiled => B[m].spoiled

\* The innermost level is new, or what it was is replaced.
LEMMA NewLevel ==
    ASSUME NEW L, NEW A, NEW M, NEW B, Len(A) \in Nat, Levels(L, A),
           NEW m \in Nat \ {0}, m = Len(B), m \in {Len(A), Len(A) + 1},
           M \in [0 .. m -> Level],
           \A i \in 0 .. m - 1 : M[i] = L[i], \A i \in 1 .. m - 1 : B[i] = A[i],
           LevelOK(M, B, m), Inherits(M, B, m)
    PROVE  Levels(M, B)
<1>1. /\ \A k \in 1 .. m : k = m \/ k \in 1 .. m - 1
      /\ \A k \in 0 .. m : k = m \/ k \in 0 .. m - 1
      /\ \A k \in 1 .. m - 1 : k \in 1 .. Len(A) /\ k \in 0 .. m - 1 /\ k - 1 \in 0 .. m - 1
      /\ \A k \in 0 .. m - 1 : k \in 0 .. Len(A)
      /\ m - 1 \in 0 .. m - 1 /\ 0 \in 0 .. m - 1
      /\ \A k \in 2 .. m - 1 : k - 1 \in 1 .. m - 1
  OBVIOUS
<1>2. \A k \in 1 .. m : LevelOK(M, B, k)
  <2> TAKE k \in 1 .. m
  <2>1. CASE k \in 1 .. m - 1
    <3>1. LevelOK(L, A, k)
      BY <1>1, <2>1 DEF Levels
    <3>2. k > 1 => B[k - 1] = A[k - 1]
      BY <2>1
    <3>3. k \in Nat \ {0} /\ M[k - 1] = L[k - 1] /\ M[k] = L[k] /\ B[k] = A[k]
      BY <1>1, <2>1
    <3> QED
      BY <3>1, <3>2, <3>3, SameLevelOK
  <2> QED
    BY <1>1, <2>1
<1>3. M[m].d = M[m - 1].d + CallFrames(B[m]) /\ M[m].g = M[m - 1].g + CallGlobals(B[m])
  BY DEF LevelOK
<1>4. \A k \in 0 .. m - 1 : M[k].d \in Nat \ {0} /\ M[k].g \in Nat
  BY <1>1, LevelTypes
<1>5. CallFrames(B[m]) \in Nat /\ CallGlobals(B[m]) \in Nat
  BY DEF CallFrames, CallGlobals
<1>6. Ordered(M, B)
  <2>1. ASSUME NEW k \in 0 .. m - 1, NEW i \in 0 .. k PROVE M[i].d <= M[k].d /\ M[i].g <= M[k].g
    <3>1. i \in 0 .. m - 1 /\ k \in 0 .. Len(A)
      OBVIOUS
    <3>2. L[i].d <= L[k].d /\ L[i].g <= L[k].g
      BY <3>1 DEF Levels, Ordered
    <3> QED
      BY <3>1, <3>2
  <2>2. ASSUME NEW i \in 0 .. m PROVE M[i].d <= M[m].d /\ M[i].g <= M[m].g
    <3>1. CASE i = m
      BY <1>1, <1>3, <1>4, <1>5, <3>1
    <3>2. CASE i \in 0 .. m - 1
      <4>1. M[i].d <= M[m - 1].d /\ M[i].g <= M[m - 1].g
        BY <1>1, <2>1, <3>2
      <4>2. PICK a \in Nat, b \in Nat : a = CallFrames(B[m]) /\ b = CallGlobals(B[m])
        BY <1>5
      <4>3. /\ M[i].d \in Nat /\ M[i].g \in Nat /\ M[m - 1].d \in Nat /\ M[m - 1].g \in Nat
            /\ M[m].d = M[m - 1].d + a /\ M[m].g = M[m - 1].g + b
        BY <1>1, <1>3, <1>4, <3>2, <4>2
      <4> QED
        BY <4>1, <4>3
    <3> QED
      BY <3>1, <3>2
  <2> QED
    BY <1>1, <2>1, <2>2 DEF Ordered
<1>7. OwnFrame(M, B)
  <2>1. ASSUME NEW k \in 1 .. m - 1, NEW i \in 1 .. k,
               B[i].kind \in Runtime, \A j \in i + 1 .. k : B[j].kind \notin Runtime
        PROVE  /\ B[i].local => M[k].current_frame = B[i].n /\ M[k].c = B[i].n
               /\ ~B[i].local /\ B[i].phase # "after" /\ (\A j \in i + 1 .. k : ~B[j].local) => M[k].c = B[i].n
    <3>1. /\ k \in 1 .. Len(A) /\ i \in 1 .. m - 1 /\ B[i] = A[i] /\ M[k] = L[k]
          /\ \A j \in i + 1 .. k : j \in 1 .. m - 1 /\ B[j] = A[j]
      <4>1. k \in 1 .. Len(A) /\ k \in 0 .. m - 1 /\ i \in 1 .. m - 1
        BY <1>1
      <4>2. \A j \in i + 1 .. k : j \in 1 .. m - 1
        OBVIOUS
      <4> QED
        BY <4>1, <4>2
    <3>2. A[i].kind \in Runtime /\ \A j \in i + 1 .. k : A[j].kind \notin Runtime
      BY <2>1, <3>1
    <3>3. /\ A[i].local => L[k].current_frame = A[i].n /\ L[k].c = A[i].n
          /\ ~A[i].local /\ A[i].phase # "after" /\ (\A j \in i + 1 .. k : ~A[j].local) => L[k].c = A[i].n
      BY <3>1, <3>2 DEF Levels, OwnFrame
    <3> QED
      BY <3>1, <3>3
  <2>2. ASSUME NEW i \in 1 .. m,
               B[i].kind \in Runtime, \A j \in i + 1 .. m : B[j].kind \notin Runtime
        PROVE  /\ B[i].local => M[m].current_frame = B[i].n /\ M[m].c = B[i].n
               /\ ~B[i].local /\ B[i].phase # "after" /\ (\A j \in i + 1 .. m : ~B[j].local) => M[m].c = B[i].n
    <3>1. CASE i = m
      BY <2>2, <3>1 DEF LevelOK
    <3>2. CASE i \in 1 .. m - 1
      <4>1. /\ m - 1 \in 1 .. m - 1 /\ i \in 1 .. m - 1 /\ m \in i + 1 .. m
            /\ \A j \in i + 1 .. m - 1 : j \in i + 1 .. m
        BY <3>2
      <4>2. /\ B[i].local => M[m - 1].current_frame = B[i].n /\ M[m - 1].c = B[i].n
            /\ ~B[i].local /\ B[i].phase # "after" /\ (\A j \in i + 1 .. m - 1 : ~B[j].local) => M[m - 1].c = B[i].n
        BY <2>1, <2>2, <4>1
      <4>3. /\ B[m].kind \notin Runtime
            /\ M[m].current_frame = M[m - 1].current_frame
            /\ M[m].c = IF B[m].local THEN M[m].current_frame ELSE M[m - 1].c
        BY <2>2, <4>1 DEF LevelOK
      <4> QED
        BY <4>1, <4>2, <4>3
    <3> QED
      BY <1>1, <3>1, <3>2
  <2> QED
    BY <1>1, <2>1, <2>2 DEF OwnFrame
<1>8. OwnName(M, B)
  <2>1. ASSUME NEW k \in 0 .. m - 1
        PROVE  /\ \A i \in 1 .. k : B[i].kind = "Import" /\ (\A j \in i + 1 .. k : B[j].kind # "Import") => M[k].s = B[i].file
               /\ (\A i \in 1 .. k : B[i].kind # "Import") => M[k].s = Undefined
    <3>1. k \in 0 .. Len(A) /\ M[k] = L[k] /\ \A j \in 1 .. k : B[j] = A[j]
      OBVIOUS
    <3>2. /\ \A i \in 1 .. k : A[i].kind = "Import" /\ (\A j \in i + 1 .. k : A[j].kind # "Import") => L[k].s = A[i].file
          /\ (\A i \in 1 .. k : A[i].kind # "Import") => L[k].s = Undefined
      BY <3>1 DEF Levels, OwnName
    <3>3. \A i \in 1 .. k : \A j \in i + 1 .. k : j \in 1 .. k
      OBVIOUS
    <3> QED
      BY <3>1, <3>2, <3>3
  <2>2. M[m].s = IF B[m].kind = "Import" THEN B[m].file ELSE M[m - 1].s
    BY DEF LevelOK
  <2>3. ASSUME NEW i \in 1 .. m, B[i].kind = "Import", \A j \in i + 1 .. m : B[j].kind # "Import"
        PROVE  M[m].s = B[i].file
    <3>1. CASE i = m
      BY <2>2, <2>3, <3>1
    <3>2. CASE i \in 1 .. m - 1
      <4>1. m \in i + 1 .. m /\ m - 1 \in 0 .. m - 1 /\ \A j \in i + 1 .. m - 1 : j \in i + 1 .. m
        BY <3>2
      <4>2. \A j \in i + 1 .. m - 1 : B[j].kind # "Import"
        BY <2>3, <4>1
      <4>3. M[m - 1].s = B[i].file
        BY <2>1, <2>3, <3>2, <4>1, <4>2
      <4> QED
        BY <2>2, <2>3, <4>1, <4>3
    <3> QED
      BY <1>1, <3>1, <3>2
  <2>4. ASSUME \A i \in 1 .. m : B[i].kind # "Import" PROVE M[m].s = Undefined
    <3>1. m - 1 \in 0 .. m - 1 /\ m \in 1 .. m /\ \A i \in 1 .. m - 1 : i \in 1 .. m
      OBVIOUS
    <3> QED
      BY <2>1, <2>2, <2>4, <3>1
  <2> QED
    BY <1>1, <2>1, <2>3, <2>4 DEF OwnName
<1>9. Inherited(M, B)
  <2>1. ASSUME NEW k \in 1 .. m - 1, NEW i \in 1 .. k, ~B[i].local, ~B[k].local, M[i].d = M[k].d, B[i].spoiled
        PROVE  B[k].spoiled
    <3>1. k \in 1 .. Len(A) /\ B[k] = A[k] /\ B[i] = A[i] /\ M[k] = L[k] /\ M[i] = L[i]
      OBVIOUS
    <3> QED
      BY <2>1, <3>1 DEF Levels, Inherited
  <2>2. ASSUME NEW i \in 1 .. m, ~B[i].local, ~B[m].local, M[i].d = M[m].d, B[i].spoiled
        PROVE  B[m].spoiled
    BY <1>1, <2>2 DEF Inherits
  <2> QED
    BY <1>1, <2>1, <2>2 DEF Inherited
<1> QED
  BY <1>1, <1>2, <1>6, <1>7, <1>8, <1>9 DEF Levels

\* The innermost level is gone.
LEMMA OldLevels ==
    ASSUME NEW L, NEW A, NEW M, NEW B, Len(A) \in Nat, Levels(L, A),
           NEW m \in Nat, m = Len(B), m <= Len(A), M = [k \in 0 .. m |-> L[k]], \A i \in 1 .. m : B[i] = A[i]
    PROVE  Levels(M, B)
<1>1. /\ \A k \in 0 .. m : k \in 0 .. Len(A) /\ M[k] = L[k]
      /\ \A k \in 1 .. m : k \in 1 .. Len(A) /\ k \in 0 .. m /\ k - 1 \in 0 .. m /\ (k > 1 => k - 1 \in 1 .. m)
      /\ 0 \in 0 .. m
      /\ \A k \in 0 .. m : \A i \in 1 .. k : i \in 1 .. m /\ \A j \in i + 1 .. k : j \in 1 .. m
      /\ \A k \in 0 .. m : \A i \in 0 .. k : i \in 0 .. m
  OBVIOUS
<1>2. M \in [0 .. m -> Level]
  BY <1>1 DEF Levels
<1>3. \A k \in 1 .. m : LevelOK(M, B, k)
  <2> TAKE k \in 1 .. m
  <2>1. LevelOK(L, A, k)
    BY <1>1 DEF Levels
  <2>2. k > 1 => B[k - 1] = A[k - 1]
    BY <1>1
  <2> QED
    BY <1>1, <2>1, <2>2, SameLevelOK
<1>4. Ordered(M, B)
  BY <1>1 DEF Levels, Ordered
<1>5. OwnFrame(M, B)
  <2> SUFFICES ASSUME NEW k \in 1 .. m, NEW i \in 1 .. k,
                      B[i].kind \in Runtime, \A j \in i + 1 .. k : B[j].kind \notin Runtime
               PROVE  /\ B[i].local => M[k].current_frame = B[i].n /\ M[k].c = B[i].n
                      /\ ~B[i].local /\ B[i].phase # "after" /\ (\A j \in i + 1 .. k : ~B[j].local) => M[k].c = B[i].n
    BY DEF OwnFrame
  <2>1. /\ k \in 1 .. Len(A) /\ B[i] = A[i] /\ M[k] = L[k]
        /\ \A j \in i + 1 .. k : B[j] = A[j]
    BY <1>1
  <2>2. A[i].kind \in Runtime /\ \A j \in i + 1 .. k : A[j].kind \notin Runtime
    BY <2>1
  <2>3. /\ A[i].local => L[k].current_frame = A[i].n /\ L[k].c = A[i].n
        /\ ~A[i].local /\ A[i].phase # "after" /\ (\A j \in i + 1 .. k : ~A[j].local) => L[k].c = A[i].n
    BY <2>1, <2>2 DEF Levels, OwnFrame
  <2> QED
    BY <2>1, <2>3
<1>6. OwnName(M, B)
  <2> SUFFICES ASSUME NEW k \in 0 .. m
        PROVE  /\ \A i \in 1 .. k : B[i].kind = "Import" /\ (\A j \in i + 1 .. k : B[j].kind # "Import") => M[k].s = B[i].file
               /\ (\A i \in 1 .. k : B[i].kind # "Import") => M[k].s = Undefined
    BY DEF OwnName
  <2>1. k \in 0 .. Len(A) /\ M[k] = L[k] /\ \A j \in 1 .. k : B[j] = A[j]
    BY <1>1
  <2>2. /\ \A i \in 1 .. k : A[i].kind = "Import" /\ (\A j \in i + 1 .. k : A[j].kind # "Import") => L[k].s = A[i].file
        /\ (\A i \in 1 .. k : A[i].kind # "Import") => L[k].s = Undefined
    BY <2>1 DEF Levels, OwnName
  <2>3. \A i \in 1 .. k : \A j \in i + 1 .. k : j \in 1 .. k
    OBVIOUS
  <2> QED
    BY <2>1, <2>2, <2>3
<1>7. Inherited(M, B)
  BY <1>1 DEF Levels, Inherited
<1> QED
  BY <1>1, <1>2, <1>3, <1>4, <1>5, <1>6, <1>7 DEF Levels

-------------------------------------------------------------------------------

(* What a step leaves alone                                                *)

\* From the C++ stack A to B at most the innermost call changes, in its phase or
\* its file.
Moves(L, A, M, B) ==
    /\ Len(B) \in {Len(A) - 1, Len(A), Len(A) + 1}
    /\ \A i \in 0 .. Len(A) : i < Len(B) => M[i] = L[i] /\ (i > 0 => B[i] = A[i])
    /\ \A i \in 0 .. Len(A) : i <= Len(B) =>
          /\ M[i].d = L[i].d /\ M[i].g = L[i].g
          /\ M[i].last = L[i].last /\ M[i].current_frame = L[i].current_frame
    /\ \A i \in 1 .. Len(A) : i <= Len(B) =>
          /\ B[i].kind = A[i].kind /\ B[i].local = A[i].local /\ B[i].main = A[i].main
          /\ B[i].saved = A[i].saved /\ B[i].before = A[i].before /\ B[i].spoiled = A[i].spoiled

\* All frames but the innermost ones are as they were.
Under(T, U) ==
    /\ \A i \in 1 .. Len(U.stack) - 1 : i <= Len(T.stack) => U.stack[i] = T.stack[i]
    /\ \A i \in 1 .. Len(U.globals) - 1 : i <= Len(T.globals) => U.globals[i] = T.globals[i]
    /\ Len(U.globals) > 0 => U.top = T.top

\* Nobody has set these names globally.
SameNames(T, U, names) ==
    \A name \in names :
        /\ \A i \in 1 .. Len(U.globals) : i <= Len(T.globals) => U.globals[i][name] = T.globals[i][name]
        /\ U.top[name] = T.top[name]

\* The frames of a depth are below those of the depths above it.
LEMMA Sizes ==
    ASSUME NEW L, NEW T, NEW A, Len(A) \in Nat, Levels(L, A), TableOK(L, T, A)
    PROVE  /\ Len(T.stack) \in Nat \ {0} /\ Len(T.globals) \in Nat
           /\ Len(T.stack) = L[Len(A)].d /\ Len(T.globals) = L[Len(A)].g
           /\ \A k \in 0 .. Len(A) : L[k].d \in Nat \ {0} /\ L[k].g \in Nat
           /\ \A k \in 0 .. Len(A) : L[k].d <= Len(T.stack) /\ L[k].g <= Len(T.globals)
           /\ \A k \in 1 .. Len(A) : A[k].local => L[k - 1].d + 1 <= Len(T.stack)
           /\ \A k \in 1 .. Len(A) : CallGlobals(A[k]) = 1 => L[k - 1].g + 1 <= Len(T.globals)
<1>1. /\ Len(A) \in 0 .. Len(A) /\ \A k \in 0 .. Len(A) : k \in 0 .. Len(A)
      /\ \A k \in 1 .. Len(A) : Len(A) \in k .. Len(A) /\ k - 1 \in 0 .. Len(A)
  OBVIOUS
<1>2. \A k \in 0 .. Len(A) : L[k].d \in Nat \ {0} /\ L[k].g \in Nat
  BY LevelTypes
<1>3. \A k \in 0 .. Len(A) : L[k].d <= L[Len(A)].d /\ L[k].g <= L[Len(A)].g
  BY <1>1 DEF Levels, Ordered
<1>4. Len(T.stack) = L[Len(A)].d /\ Len(T.globals) = L[Len(A)].g
  BY DEF TableOK
<1>5. ASSUME NEW k \in 1 .. Len(A) PROVE /\ A[k].local => L[k - 1].d + 1 <= L[Len(A)].d
                                         /\ CallGlobals(A[k]) = 1 => L[k - 1].g + 1 <= L[Len(A)].g
  <2>1. L[k - 1].d + CallFrames(A[k]) <= L[Len(A)].d /\ L[k - 1].g + CallGlobals(A[k]) <= L[Len(A)].g
    BY <1>1, Above
  <2> QED
    BY <2>1 DEF CallFrames
<1> QED
  BY <1>1, <1>2, <1>3, <1>4, <1>5

\* What a call has saved stays so if no frame below it is written.
LEMMA StillKept ==
    ASSUME NEW L, NEW T, NEW A, NEW M, NEW U, NEW B, Len(A) \in Nat, Len(B) \in Nat,
           Levels(L, A), Levels(M, B), TableOK(L, T, A), TableOK(M, U, B),
           Moves(L, A, M, B), Under(T, U), Kept(L, T, A),
           NEW k \in 1 .. Len(A), k <= Len(B)
    PROVE  KeptAt(M, U, B, k)
<1>1. /\ k \in 1 .. Len(B) /\ k - 1 \in 0 .. Len(A) /\ k - 1 <= Len(B)
  OBVIOUS
<1>2. /\ M[k - 1].d = L[k - 1].d /\ M[k - 1].g = L[k - 1].g
      /\ B[k].kind = A[k].kind /\ B[k].local = A[k].local /\ B[k].before = A[k].before
  BY <1>1 DEF Moves
<1>3. PICK d \in Nat \ {0}, g \in Nat : d = L[k - 1].d /\ g = L[k - 1].g
  BY <1>1, Sizes
<1>4. KeptAt(L, T, A, k)
  BY DEF Kept
<1>5. ASSUME B[k].local PROVE U.stack[d] = T.stack[d]
  <2>1. d + 1 <= Len(T.stack) /\ d + 1 <= Len(U.stack) /\ Len(T.stack) \in Nat /\ Len(U.stack) \in Nat
    BY <1>1, <1>2, <1>3, <1>5, Sizes
  <2>2. d \in 1 .. Len(U.stack) - 1 /\ d <= Len(T.stack)
    BY <2>1
  <2> QED
    BY <2>2 DEF Under
<1>6. ASSUME B[k].local, B[k].kind # "function"
      PROVE  U.top = T.top /\ \A i \in 1 .. g : U.globals[i] = T.globals[i]
  <2>1. CallGlobals(A[k]) = 1 /\ CallGlobals(B[k]) = 1
    BY <1>2, <1>6 DEF CallGlobals
  <2>2. g + 1 <= Len(T.globals) /\ g + 1 <= Len(U.globals) /\ Len(T.globals) \in Nat /\ Len(U.globals) \in Nat
    BY <1>1, <1>2, <1>3, <2>1, Sizes
  <2>3. Len(U.globals) > 0 /\ \A i \in 1 .. g : i \in 1 .. Len(U.globals) - 1 /\ i <= Len(T.globals)
    BY <2>2
  <2> QED
    BY <2>3 DEF Under
<1> QED
  BY <1>2, <1>3, <1>4, <1>5, <1>6 DEF KeptAt

\* What a depth sees globally stays so while its global frames do.
LEMMA StillSeenGlobally ==
    ASSUME NEW L, NEW T, NEW A, NEW M, NEW U, NEW B, Len(A) \in Nat, Len(B) \in Nat,
           Levels(L, A), Levels(M, B), TableOK(L, T, A), TableOK(M, U, B),
           Moves(L, A, M, B), NEW names, SameNames(T, U, names), NEW name \in names,
           NEW k \in 0 .. Len(A), k <= Len(B), NEW v, GlobalSees(T, L[k].g, name, v)
    PROVE  GlobalSees(U, M[k].g, name, v)
<1>1. k \in 0 .. Len(B) /\ M[k].g = L[k].g
  BY DEF Moves
<1>2. PICK g \in Nat : g = L[k].g
  BY Sizes
<1>3. g <= Len(T.globals) /\ g <= Len(U.globals) /\ Len(T.globals) \in Nat /\ Len(U.globals) \in Nat
  BY <1>1, <1>2, Sizes
<1>4. \A i \in 1 .. g : i \in 1 .. Len(U.globals) /\ i <= Len(T.globals)
  BY <1>3
<1>5. (\A i \in 1 .. g : U.globals[i][name] = T.globals[i][name]) /\ U.top[name] = T.top[name]
  BY <1>4 DEF SameNames
<1> QED
  BY <1>1, <1>2, <1>5, GlobalSame

\* The variables of an outer call stay visible where nothing has spoiled them.
LEMMA StillSeen ==
    ASSUME NEW L, NEW T, NEW A, NEW M, NEW U, NEW B, Len(A) \in Nat, Len(B) \in Nat,
           Levels(L, A), Levels(M, B), TableOK(L, T, A), TableOK(M, U, B),
           Moves(L, A, M, B), Under(T, U), NEW bad, NEW bad2, Seen(L, T, A, bad),
           \A d \in 1 .. Len(U.stack) - 1 : d \in bad => d \in bad2,
           NEW k \in 0 .. Len(A), k < Len(B), B[k + 1].local, M[k].d \notin bad2
    PROVE  SeenAt(M, U, B, k)
<1>1. /\ k + 1 \in 1 .. Len(B) /\ (k + 1) - 1 = k
      /\ M[k] = L[k] /\ (k > 0 => B[k] = A[k])
  BY DEF Moves
<1>2. k = Len(A) \/ A[k + 1].local
  <2>1. CASE k + 1 \in 1 .. Len(A)
    BY <1>1, <2>1 DEF Moves
  <2> QED
    BY <2>1
<1>3. PICK d \in Nat \ {0} : d = L[k].d
  BY Sizes
<1>4. d <= Len(T.stack) /\ d + 1 <= Len(U.stack) /\ Len(T.stack) \in Nat /\ Len(U.stack) \in Nat
  BY <1>1, <1>3, Sizes
<1>5. d \in 1 .. Len(U.stack) - 1
  BY <1>4
<1>6. U.stack[d] = T.stack[d] /\ d \notin bad
  BY <1>1, <1>3, <1>4, <1>5 DEF Under
<1>7. SeenAt(L, T, A, k)
  BY <1>2, <1>3, <1>6 DEF Seen
<1> QED
  BY <1>1, <1>3, <1>6, <1>7 DEF SeenAt

\* The same for the name of the script.
LEMMA StillNamed ==
    ASSUME NEW L, NEW T, NEW A, NEW M, NEW U, NEW B, Len(A) \in Nat, Len(B) \in Nat,
           Levels(L, A), Levels(M, B), TableOK(L, T, A), TableOK(M, U, B),
           Moves(L, A, M, B), Under(T, U), NEW mis, NEW mis2, NameSeen(L, T, A, mis),
           \A g \in 0 .. Len(U.globals) : g \in mis => g \in mis2,
           NEW k \in 0 .. Len(A), k < Len(B), CallGlobals(B[k + 1]) = 1, Right(M[k].g, mis2)
    PROVE  GlobalSees(U, M[k].g, "$ScriptName$", M[k].s)
<1>1. k + 1 \in 1 .. Len(B) /\ (k + 1) - 1 = k /\ M[k] = L[k]
  BY DEF Moves
<1>2. k = Len(A) \/ CallGlobals(A[k + 1]) = 1
  <2>1. CASE k + 1 \in 1 .. Len(A)
    BY <1>1, <2>1 DEF Moves, CallGlobals
  <2> QED
    BY <2>1
<1>3. PICK g \in Nat : g = L[k].g
  BY Sizes
<1>4. g <= Len(T.globals) /\ g + 1 <= Len(U.globals) /\ Len(T.globals) \in Nat /\ Len(U.globals) \in Nat
  BY <1>1, <1>3, Sizes
<1>5. \A i \in 0 .. g : i \in 0 .. Len(U.globals)
  BY <1>4
<1>6. Right(g, mis)
  BY <1>1, <1>3, <1>5 DEF Right
<1>7. GlobalSees(T, g, "$ScriptName$", L[k].s)
  BY <1>2, <1>3, <1>6 DEF NameSeen
<1>8. \A i \in 1 .. g : i \in 1 .. Len(U.globals) - 1 /\ i <= Len(T.globals)
  BY <1>4
<1>9. U.top = T.top /\ \A i \in 1 .. g : U.globals[i] = T.globals[i]
  BY <1>4, <1>8 DEF Under
<1> QED
  BY <1>1, <1>3, <1>7, <1>9, GlobalSame

\* The same for the name that an Import will put back.
LEMMA StillSaved ==
    ASSUME NEW L, NEW T, NEW A, NEW M, NEW U, NEW B, Len(A) \in Nat, Len(B) \in Nat,
           Levels(L, A), Levels(M, B), TableOK(L, T, A), TableOK(M, U, B),
           Moves(L, A, M, B), NEW mis, NEW mis2, NameSeen(L, T, A, mis),
           \A g \in 0 .. Len(U.globals) : g \in mis => g \in mis2,
           NEW k \in 1 .. Len(A), k <= Len(B), B[k].kind = "Import", Right(M[k].g, mis2)
    PROVE  SavedName(M, B, k)
<1>1. k \in 0 .. Len(A) /\ k \in 0 .. Len(B) /\ k - 1 \in 0 .. Len(A) /\ k - 1 < Len(B)
  OBVIOUS
<1>2. M[k - 1] = L[k - 1] /\ M[k].g = L[k].g /\ B[k].kind = A[k].kind /\ B[k].saved = A[k].saved
  BY <1>1 DEF Moves
<1>3. PICK g \in Nat : g = L[k].g
  BY <1>1, Sizes
<1>4. \A i \in 0 .. g : i \in 0 .. Len(U.globals)
  <2>1. g <= Len(U.globals) /\ Len(U.globals) \in Nat
    BY <1>1, <1>2, <1>3, Sizes
  <2> QED
    BY <2>1
<1>5. Right(L[k].g, mis)
  BY <1>2, <1>3, <1>4 DEF Right
<1> QED
  BY <1>2, <1>5 DEF NameSeen, SavedName

-------------------------------------------------------------------------------

\* $MainScriptName$ is not set, and no first import begins.
LEMMA StillMain ==
    ASSUME NEW L, NEW T, NEW A, NEW M, NEW U, NEW B, Len(A) \in Nat, Len(B) \in Nat,
           Levels(L, A), Levels(M, B), TableOK(L, T, A), TableOK(M, U, B),
           Moves(L, A, M, B), SameNames(T, U, {"$MainScriptName$"}), MainSeen(L, T, A),
           \A i \in 1 .. Len(A) : i <= Len(B) /\ B[i].main => B[i].file = A[i].file,
           Len(B) > Len(A) => /\ ~B[Len(B)].main
                              /\ CallGlobals(B[Len(B)]) = 1 => U.globals[Len(U.globals)]["$MainScriptName$"] = Unset
    PROVE  MainSeen(M, U, B)
<1> SUFFICES ASSUME NEW i \in 1 .. Len(B), B[i].main
             PROVE  /\ \A j \in 1 .. i - 1 : B[j].kind # "Import"
                    /\ \A k \in i .. Len(B) : GlobalSees(U, M[k].g, "$MainScriptName$", B[i].file)
  BY DEF MainSeen
<1>1. Len(B) \in {Len(A) - 1, Len(A), Len(A) + 1}
  BY DEF Moves
<1>2. i \in 1 .. Len(A)
  BY <1>1
<1>3. A[i].main /\ B[i].file = A[i].file
  BY <1>2 DEF Moves
<1>4. \A j \in 1 .. i - 1 : j \in 1 .. Len(A) /\ j <= Len(B)
  BY <1>2
<1>5. \A j \in 1 .. i - 1 : B[j].kind # "Import"
  BY <1>2, <1>3, <1>4 DEF Moves, MainSeen
<1>6. ASSUME NEW k \in i .. Len(B), k \in 0 .. Len(A)
      PROVE  GlobalSees(U, M[k].g, "$MainScriptName$", B[i].file)
  <2>1. GlobalSees(T, L[k].g, "$MainScriptName$", A[i].file)
    BY <1>2, <1>3, <1>6 DEF MainSeen
  <2>2. PICK names : names = {"$MainScriptName$"}
    OBVIOUS
  <2>3. PICK name \in names : name = "$MainScriptName$"
    BY <2>2
  <2>4. PICK v : v = A[i].file
    OBVIOUS
  <2>5. k \in 0 .. Len(A) /\ k <= Len(B) /\ SameNames(T, U, names) /\ GlobalSees(T, L[k].g, name, v)
    BY <1>6, <2>1, <2>2, <2>3, <2>4
  <2>6. GlobalSees(U, M[k].g, name, v)
    BY <2>5, StillSeenGlobally
  <2> QED
    BY <1>3, <2>3, <2>4, <2>6
<1>7. ASSUME NEW k \in i .. Len(B), k \notin 0 .. Len(A)
      PROVE  GlobalSees(U, M[k].g, "$MainScriptName$", B[i].file)
  <2>1. k = Len(B) /\ Len(B) > Len(A) /\ k \in 1 .. Len(B) /\ k - 1 \in i .. Len(B) /\ k - 1 \in 0 .. Len(A)
    BY <1>1, <1>2, <1>7
  <2>2. GlobalSees(U, M[k - 1].g, "$MainScriptName$", B[i].file)
    BY <1>6, <2>1
  <2>3. /\ M[k].g = M[k - 1].g + CallGlobals(B[k]) /\ CallGlobals(B[k]) \in {0, 1} /\ M[k - 1].g \in Nat
        /\ M[k].g = Len(U.globals)
    <3>1. k - 1 \in 0 .. Len(B)
      BY <2>1
    <3> QED
      BY <2>1, <3>1, Above, Sizes
  <2>4. CASE CallGlobals(B[k]) = 0
    BY <2>2, <2>3, <2>4
  <2>5. CASE CallGlobals(B[k]) = 1
    <3>1. U.globals[M[k - 1].g + 1]["$MainScriptName$"] = Unset
      BY <2>1, <2>3, <2>5
    <3>2. GlobalSees(U, M[k - 1].g + 1, "$MainScriptName$", B[i].file)
      BY <2>2, <2>3, <3>1, GlobalNext
    <3> QED
      BY <2>3, <2>5, <3>2
  <2> QED
    BY <2>3, <2>4, <2>5
<1> QED
  BY <1>5, <1>6, <1>7

\* What the innermost level needs.
TopOK(M, U, B, bad, mis) ==
    LET m == Len(B)
    IN  /\ M[m].d \notin bad => SeenAt(M, U, B, m)
        /\ Right(M[m].g, mis) => GlobalSees(U, M[m].g, "$ScriptName$", M[m].s)
        /\ \A k \in 1 .. m : ~B[k].local /\ B[k].spoiled /\ M[k].d = M[m].d => M[k].d \in bad

\* What a new call needs besides.
NewOK(M, U, B, mis) ==
    LET m == Len(B)
    IN  /\ KeptAt(M, U, B, m)
        /\ GlobalSees(U, M[m].g, "last", M[m].last)
        /\ GlobalSees(U, M[m].g, "current_frame", M[m].current_frame)
        /\ B[m].kind = "Import" /\ Right(M[m].g, mis) => SavedName(M, B, m)

\* A step that touches the innermost call only keeps the fit of all others.
LEMMA Moved ==
    ASSUME NEW L, NEW T, NEW A, NEW bad, NEW mis, Fits(L, T, A, bad, mis),
           NEW M, NEW U, NEW B \in Seq(Calls), NEW bad2, NEW mis2,
           Levels(M, B), TableOK(M, U, B), Moves(L, A, M, B), Under(T, U), SameNames(T, U, Contents),
           bad2 \subseteq 1 .. Len(U.stack), mis2 \subseteq 0 .. Len(U.globals),
           \A d \in 1 .. Len(U.stack) - 1 : d \in bad => d \in bad2,
           \A g \in 0 .. Len(U.globals) : g \in mis => g \in mis2,
           MainSeen(M, U, B), TopOK(M, U, B, bad2, mis2), Len(B) > Len(A) => NewOK(M, U, B, mis2)
    PROVE  Fits(M, U, B, bad2, mis2)
<1>1. /\ Len(A) \in Nat /\ Len(B) \in Nat /\ Levels(L, A) /\ TableOK(L, T, A) /\ Kept(L, T, A)
      /\ SeenGlobally(L, T, A) /\ Seen(L, T, A, bad) /\ SpoiledOK(L, A, bad) /\ NameSeen(L, T, A, mis)
  BY DEF Fits
<1>2. Len(B) \in {Len(A) - 1, Len(A), Len(A) + 1}
  BY DEF Moves
<1>3. /\ \A k \in 1 .. Len(B) : (k \in 1 .. Len(A) /\ k <= Len(B)) \/ (k = Len(B) /\ Len(B) > Len(A))
      /\ \A k \in 0 .. Len(B) : (k \in 0 .. Len(A) /\ k <= Len(B)) \/ (k = Len(B) /\ Len(B) > Len(A))
      /\ \A k \in 0 .. Len(B) : k = Len(B) \/ (k \in 0 .. Len(A) /\ k < Len(B))
  BY <1>1, <1>2
<1>4. Kept(M, U, B)
  BY <1>1, <1>3, StillKept DEF Kept, NewOK
<1>5. SeenGlobally(M, U, B)
  <2>1. ASSUME NEW k \in 0 .. Len(A), k <= Len(B)
        PROVE  GlobalSees(U, M[k].g, "last", M[k].last) /\ GlobalSees(U, M[k].g, "current_frame", M[k].current_frame)
    <3>1. GlobalSees(T, L[k].g, "last", L[k].last) /\ GlobalSees(T, L[k].g, "current_frame", L[k].current_frame)
      BY <1>1 DEF SeenGlobally
    <3>2. M[k].last = L[k].last /\ M[k].current_frame = L[k].current_frame
      BY <2>1 DEF Moves
    <3>3. "last" \in Contents /\ "current_frame" \in Contents
      BY DEF Contents
    <3>6. /\ Len(A) \in Nat /\ Len(B) \in Nat /\ Levels(L, A) /\ TableOK(L, T, A)
          /\ Levels(M, B) /\ TableOK(M, U, B) /\ Moves(L, A, M, B) /\ SameNames(T, U, Contents)
      BY <1>1
    <3>7. \A name \in Contents : \A v : GlobalSees(T, L[k].g, name, v) => GlobalSees(U, M[k].g, name, v)
      BY <2>1, <3>6, StillSeenGlobally
    <3>4. GlobalSees(U, M[k].g, "last", L[k].last)
      BY <3>1, <3>3, <3>7
    <3>5. GlobalSees(U, M[k].g, "current_frame", L[k].current_frame)
      BY <3>1, <3>3, <3>7
    <3> QED
      BY <3>2, <3>4, <3>5
  <2> QED
    BY <1>3, <2>1 DEF SeenGlobally, NewOK
<1>6. Seen(M, U, B, bad2)
  <2> SUFFICES ASSUME NEW k \in 0 .. Len(B), k = Len(B) \/ B[k + 1].local, M[k].d \notin bad2
               PROVE  SeenAt(M, U, B, k)
    BY DEF Seen
  <2>1. CASE k = Len(B)
    BY <2>1 DEF TopOK
  <2>2. CASE k # Len(B)
    <3>1. k \in 0 .. Len(A) /\ k < Len(B) /\ B[k + 1].local
      BY <1>3, <2>2
    <3> QED
      BY <1>1, <3>1, StillSeen
  <2> QED
    BY <2>1, <2>2
<1>7. SpoiledOK(M, B, bad2)
  <2> SUFFICES ASSUME NEW k \in 1 .. Len(B), ~B[k].local, B[k].spoiled
               PROVE  M[k].d \in bad2
    BY DEF SpoiledOK
  <2>1. CASE M[k].d = M[Len(B)].d
    BY <2>1 DEF TopOK
  <2>2. CASE M[k].d # M[Len(B)].d
    <3>1. k \in 0 .. Len(B) /\ Len(B) \in 0 .. Len(B) /\ k # Len(B)
      BY <1>1, <2>2
    <3>2. M[k].d \in Nat \ {0} /\ M[k].d <= Len(U.stack) /\ Len(U.stack) \in Nat /\ Len(U.stack) = M[Len(B)].d
      BY <1>1, <3>1, Sizes
    <3>3. k \in 1 .. Len(A) /\ k <= Len(B) /\ k \in 0 .. Len(A)
      BY <1>3, <3>1
    <3>4. M[k].d = L[k].d /\ ~A[k].local /\ A[k].spoiled
      BY <3>3 DEF Moves
    <3>5. M[k].d \in bad /\ M[k].d \in 1 .. Len(U.stack) - 1
      BY <1>1, <2>2, <3>2, <3>3, <3>4 DEF SpoiledOK
    <3> QED
      BY <3>5
  <2> QED
    BY <2>1, <2>2
<1>8. NameSeen(M, U, B, mis2)
  <2>1. ASSUME NEW k \in 0 .. Len(B), k = Len(B) \/ CallGlobals(B[k + 1]) = 1, Right(M[k].g, mis2)
        PROVE  GlobalSees(U, M[k].g, "$ScriptName$", M[k].s)
    <3>1. CASE k = Len(B)
      BY <2>1, <3>1 DEF TopOK
    <3>2. CASE k # Len(B)
      <4>1. k \in 0 .. Len(A) /\ k < Len(B) /\ CallGlobals(B[k + 1]) = 1
        BY <1>3, <2>1, <3>2
      <4> QED
        BY <1>1, <2>1, <4>1, StillNamed
    <3> QED
      BY <3>1, <3>2
  <2>2. ASSUME NEW k \in 1 .. Len(B), B[k].kind = "Import", Right(M[k].g, mis2)
        PROVE  SavedName(M, B, k)
    <3>1. CASE k \in 1 .. Len(A) /\ k <= Len(B)
      <4>1. k \in 1 .. Len(A) /\ k <= Len(B) /\ B[k].kind = "Import" /\ Right(M[k].g, mis2)
        BY <2>2, <3>1
      <4> QED
        BY <1>1, <4>1, StillSaved
    <3>2. CASE k = Len(B) /\ Len(B) > Len(A)
      BY <2>2, <3>2 DEF NewOK
    <3> QED
      BY <1>3, <3>1, <3>2
  <2> QED
    BY <2>1, <2>2 DEF NameSeen
<1> QED
  BY <1>4, <1>5, <1>6, <1>7, <1>8 DEF Fits

-------------------------------------------------------------------------------

(* The frames that a step leaves                                           *)

\* An assignment leaves the table under the innermost frame alone.
LEMMA Wrote ==
    ASSUME NEW L, NEW T, NEW A, TableOK(L, T, A),
           NEW U, NEW S, NEW G, Writes(T, U, S, G), S \cap ScriptNames = {}, G \cap Contents = {},
           NEW M, NEW B, M[Len(B)].d = Len(T.stack), M[Len(B)].g = Len(T.globals)
    PROVE  /\ TableOK(M, U, B) /\ Under(T, U) /\ SameNames(T, U, Contents)
           /\ \A name \in ScriptNames : name \notin G => SameNames(T, U, {name})
<1>1. /\ T \in Tables /\ U \in Tables /\ Clean(U)
      /\ Len(U.stack) = Len(T.stack) /\ Len(U.globals) = Len(T.globals)
      /\ Len(T.stack) \in Nat /\ Len(T.globals) \in Nat /\ Len(T.stack) > 0
  BY TableParts DEF Writes, TableOK
<1>2. ASSUME NEW i \in 1 .. Len(U.stack), NEW name \in ScriptNames PROVE U.stack[i][name] = Unset
  <2>1. T.stack[i][name] = Unset /\ name \in Names \ S
    BY <1>1, TheNames DEF TableOK
  <2>2. CASE i \in 1 .. Len(T.stack) - 1
    BY <2>1, <2>2 DEF Writes
  <2>3. CASE i = Len(T.stack)
    BY <1>1, <2>1, <2>3 DEF Writes, LastFrame
  <2> QED
    BY <1>1, <2>2, <2>3
<1>3. TableOK(M, U, B)
  BY <1>1, <1>2 DEF TableOK
<1>4. Under(T, U)
  BY <1>1 DEF Under, Writes
<1>5. ASSUME NEW name \in Names \ G, NEW i \in 1 .. Len(U.globals)
      PROVE  U.globals[i][name] = T.globals[i][name]
  <2>1. CASE i \in 1 .. Len(T.globals) - 1
    BY <2>1 DEF Writes
  <2>2. CASE i = Len(T.globals)
    BY <1>1, <2>2 DEF Writes
  <2> QED
    BY <1>1, <2>1, <2>2
<1>6. \A name \in Names \ G : U.top[name] = T.top[name]
  BY DEF Writes
<1>7. SameNames(T, U, Contents)
  BY <1>5, <1>6, TheNames DEF SameNames
<1>8. \A name \in ScriptNames : name \notin G => SameNames(T, U, {name})
  BY <1>5, <1>6, TheNames DEF SameNames
<1> QED
  BY <1>3, <1>4, <1>7, <1>8

\* So does a push.
LEMMA Opened ==
    ASSUME NEW L, NEW T, NEW A, TableOK(L, T, A), NEW U, NEW b \in {0, 1}, Opens(T, U, b),
           NEW M, NEW B, M[Len(B)].d = Len(T.stack) + 1, M[Len(B)].g = Len(T.globals) + b
    PROVE  /\ TableOK(M, U, B) /\ Under(T, U) /\ SameNames(T, U, Contents)
           /\ \A name \in ScriptNames : SameNames(T, U, {name})
<1>1. /\ T \in Tables /\ U \in Tables /\ Clean(U)
      /\ Len(U.stack) = Len(T.stack) + 1 /\ Len(U.globals) = Len(T.globals) + b
      /\ Len(T.stack) \in Nat /\ Len(T.globals) \in Nat
  BY TableParts DEF Opens, TableOK
<1>2. ASSUME NEW i \in 1 .. Len(U.stack), NEW name \in ScriptNames PROVE U.stack[i][name] = Unset
  <2>1. CASE i \in 1 .. Len(T.stack)
    BY <2>1 DEF Opens, TableOK
  <2>2. CASE i = Len(U.stack)
    BY <2>2 DEF Opens, LastFrame
  <2> QED
    BY <1>1, <2>1, <2>2
<1>3. TableOK(M, U, B)
  BY <1>1, <1>2 DEF TableOK
<1>4. Under(T, U)
  <2>1. /\ \A i \in 1 .. Len(U.stack) - 1 : i \in 1 .. Len(T.stack)
        /\ \A i \in 1 .. Len(U.globals) - 1 : i <= Len(T.globals) => i \in 1 .. Len(T.globals)
    BY <1>1
  <2> QED
    BY <2>1 DEF Under, Opens
<1>5. /\ \A i \in 1 .. Len(U.globals) : i <= Len(T.globals) => U.globals[i] = T.globals[i]
      /\ U.top = T.top
  <2>1. \A i \in 1 .. Len(U.globals) : i <= Len(T.globals) => i \in 1 .. Len(T.globals)
    BY <1>1
  <2> QED
    BY <2>1 DEF Opens
<1> QED
  BY <1>3, <1>4, <1>5 DEF SameNames

\* So does a pop.
LEMMA Closed ==
    ASSUME NEW L, NEW T, NEW A, TableOK(L, T, A), NEW U, NEW b \in {0, 1}, Closes(T, U, b),
           NEW M, NEW B, M[Len(B)].d = Len(T.stack) - 1, M[Len(B)].g = Len(T.globals) - b
    PROVE  /\ TableOK(M, U, B) /\ Under(T, U) /\ SameNames(T, U, Contents)
           /\ \A name \in ScriptNames : SameNames(T, U, {name})
<1>1. /\ T \in Tables /\ U \in Tables /\ Clean(U)
      /\ Len(U.stack) = Len(T.stack) - 1 /\ Len(U.globals) = Len(T.globals) - b
      /\ Len(T.stack) \in Nat /\ Len(T.globals) \in Nat /\ Len(U.stack) \in Nat /\ Len(U.globals) \in Nat
  BY TableParts DEF Closes, TableOK
<1>2. \A i \in 1 .. Len(U.stack) : i \in 1 .. Len(T.stack) /\ U.stack[i] = T.stack[i]
  BY <1>1 DEF Closes
<1>3. (\A i \in 1 .. Len(U.globals) : U.globals[i] = T.globals[i]) /\ U.top = T.top
  BY DEF Closes
<1>4. TableOK(M, U, B)
  <2>1. \A i \in 1 .. Len(U.stack) : \A name \in ScriptNames : U.stack[i][name] = Unset
    BY <1>2 DEF TableOK
  <2> QED
    BY <1>1, <2>1 DEF TableOK
<1>5. Under(T, U)
  <2>1. /\ \A i \in 1 .. Len(U.stack) - 1 : i \in 1 .. Len(U.stack)
        /\ \A i \in 1 .. Len(U.globals) - 1 : i \in 1 .. Len(U.globals)
    BY <1>1
  <2> QED
    BY <1>2, <1>3, <2>1 DEF Under
<1> QED
  BY <1>3, <1>4, <1>5 DEF SameNames

-------------------------------------------------------------------------------

(* The numbers of calls                                                    *)

\* A has as many calls as it seems.
LEMMA CallsAreFinite ==
    ASSUME NEW n \in Nat, NEW S, S \subseteq 1 .. n
    PROVE  IsFiniteSet(S) /\ Cardinality(S) \in Nat
<1>1. IsFiniteSet(1 .. n)
  BY FS_Interval
<1>2. IsFiniteSet(S)
  BY <1>1, FS_Subset
<1> QED
  BY <1>2, FS_CardinalityType

\* A call more is counted once.
LEMMA OneMore ==
    ASSUME NEW n \in Nat, NEW S, S \subseteq 1 .. n
    PROVE  Cardinality(S \cup {n + 1}) = Cardinality(S) + 1
<1>1. IsFiniteSet(S)
  BY CallsAreFinite
<1>2. n + 1 \notin S
  OBVIOUS
<1> QED
  BY <1>1, <1>2, FS_AddElement

\* B has one more call than A, which has n.
OneMoreCall(A, B, n) ==
    /\ Cardinality(FiltersOf(A)) \in Nat /\ Cardinality(FunctionsOf(A)) \in Nat
    /\ Cardinality(ImportsOf(A)) \in Nat
    /\ Cardinality(FiltersOf(B)) = Cardinality(FiltersOf(A)) + CallGlobals(B[n + 1])
    /\ Cardinality(FunctionsOf(B)) + Cardinality(FiltersOf(B)) =
          Cardinality(FunctionsOf(A)) + Cardinality(FiltersOf(A)) + CallFrames(B[n + 1])
    /\ Cardinality(ImportsOf(B)) =
          IF B[n + 1].kind = "Import" THEN Cardinality(ImportsOf(A)) + 1 ELSE Cardinality(ImportsOf(A))

\* One more call, of each kind.
LEMMA Counts ==
    ASSUME NEW A, NEW B, NEW n \in Nat, n = Len(A), Len(B) = n + 1, CallOK(B[n + 1]),
           \A i \in 1 .. n : B[i].kind = A[i].kind /\ B[i].local = A[i].local
    PROVE  OneMoreCall(A, B, n)
<1>1. /\ \A i \in 1 .. n + 1 : i \in 1 .. n \/ i = n + 1
      /\ \A i \in 1 .. n : i \in 1 .. n + 1
      /\ n + 1 \in 1 .. n + 1
  OBVIOUS
<1>2. \A i \in 1 .. n : CallGlobals(B[i]) = CallGlobals(A[i])
  BY DEF CallGlobals
<1>3. FiltersOf(A) \subseteq 1 .. n /\ FunctionsOf(A) \subseteq 1 .. n /\ ImportsOf(A) \subseteq 1 .. n
  BY DEF FiltersOf, FunctionsOf, ImportsOf
<1>4. FiltersOf(B) = IF CallGlobals(B[n + 1]) = 1 THEN FiltersOf(A) \cup {n + 1} ELSE FiltersOf(A)
  BY <1>1, <1>2 DEF FiltersOf
<1>5. FunctionsOf(B) = IF B[n + 1].kind = "function" THEN FunctionsOf(A) \cup {n + 1} ELSE FunctionsOf(A)
  BY <1>1 DEF FunctionsOf
<1>6. ImportsOf(B) = IF B[n + 1].kind = "Import" THEN ImportsOf(A) \cup {n + 1} ELSE ImportsOf(A)
  BY <1>1 DEF ImportsOf
<1>7. PICK x, y, z : x = Cardinality(FiltersOf(A)) /\ y = Cardinality(FunctionsOf(A)) /\ z = Cardinality(ImportsOf(A))
  OBVIOUS
<1>8. x \in Nat /\ y \in Nat /\ z \in Nat
  BY <1>3, <1>7, CallsAreFinite
<1>9. Cardinality(FiltersOf(B)) = x + CallGlobals(B[n + 1])
  <2>1. Cardinality(FiltersOf(A) \cup {n + 1}) = x + 1
    BY <1>3, <1>7, OneMore
  <2> QED
    BY <1>4, <1>7, <1>8, <2>1 DEF CallGlobals
<1>10. Cardinality(FunctionsOf(B)) = IF B[n + 1].kind = "function" THEN y + 1 ELSE y
  <2>1. Cardinality(FunctionsOf(A) \cup {n + 1}) = y + 1
    BY <1>3, <1>7, OneMore
  <2> QED
    BY <1>5, <1>7, <2>1
<1>11. Cardinality(ImportsOf(B)) = IF B[n + 1].kind = "Import" THEN z + 1 ELSE z
  <2>1. Cardinality(ImportsOf(A) \cup {n + 1}) = z + 1
    BY <1>3, <1>7, OneMore
  <2> QED
    BY <1>6, <1>7, <2>1
<1>12. Cardinality(FunctionsOf(B)) + Cardinality(FiltersOf(B)) = y + x + CallFrames(B[n + 1])
  <2>1. CallFrames(B[n + 1]) = IF B[n + 1].kind = "function" THEN 1 ELSE CallGlobals(B[n + 1])
    BY DEF CallOK, CallFrames, CallGlobals
  <2>2. PICK g \in {0, 1} : g = CallGlobals(B[n + 1])
    BY DEF CallGlobals
  <2>3. B[n + 1].kind = "function" => g = 0
    BY <2>2 DEF CallGlobals
  <2> QED
    BY <1>8, <1>9, <1>10, <2>1, <2>2, <2>3
<1> QED
  BY <1>7, <1>8, <1>9, <1>11, <1>12 DEF OneMoreCall

\* The numbers of frames follow a call that begins, and one that ends.
LEMMA CountedPush ==
    ASSUME NEW A, NEW B, NEW n \in Nat, n = Len(A), Len(B) = n + 1, CallOK(B[n + 1]),
           \A i \in 1 .. n : B[i].kind = A[i].kind /\ B[i].local = A[i].local,
           NEW T, NEW U, Len(U.stack) = Len(T.stack) + CallFrames(B[n + 1]),
           Len(U.globals) = Len(T.globals) + CallGlobals(B[n + 1]),
           Len(T.stack) \in Nat, Len(T.globals) \in Nat, Len(U.stack) \in Nat, Len(U.globals) \in Nat
    PROVE  Counted(T, A) <=> Counted(U, B)
<1>1. CallFrames(B[n + 1]) \in Nat /\ CallGlobals(B[n + 1]) \in Nat
  BY DEF CallFrames, CallGlobals
<1>2. PICK f \in Nat, g \in Nat : f = CallFrames(B[n + 1]) /\ g = CallGlobals(B[n + 1])
  BY <1>1
<1>3. PICK x, y, x2, y2 : /\ x = Cardinality(FiltersOf(A)) /\ y = Cardinality(FunctionsOf(A))
                          /\ x2 = Cardinality(FiltersOf(B)) /\ y2 = Cardinality(FunctionsOf(B))
  OBVIOUS
<1>4. x \in Nat /\ y \in Nat /\ x2 = x + g /\ y2 + x2 = y + x + f
  <2>1. OneMoreCall(A, B, n)
    BY Counts
  <2> QED
    BY <1>2, <1>3, <2>1 DEF OneMoreCall
<1>5. y2 \in Nat /\ x2 \in Nat
  <2>1. FunctionsOf(B) \subseteq 1 .. n + 1 /\ FiltersOf(B) \subseteq 1 .. n + 1 /\ n + 1 \in Nat
    BY DEF FunctionsOf, FiltersOf
  <2> QED
    BY <1>3, <2>1, CallsAreFinite
<1>6. Counted(T, A) <=> Len(T.globals) = x /\ Len(T.stack) = 1 + x + y
  BY <1>3 DEF Counted
<1>7. Counted(U, B) <=> Len(U.globals) = x2 /\ Len(U.stack) = 1 + x2 + y2
  BY <1>3 DEF Counted
<1>8. PICK p \in Nat, q \in Nat, p2 \in Nat, q2 \in Nat :
        p = Len(T.stack) /\ q = Len(T.globals) /\ p2 = Len(U.stack) /\ q2 = Len(U.globals)
  OBVIOUS
<1>9. p2 = p + f /\ q2 = q + g
  BY <1>2, <1>8
<1>10. (q = x /\ p = 1 + x + y) <=> (q2 = x2 /\ p2 = 1 + x2 + y2)
  BY <1>4, <1>5, <1>9
<1> QED
  BY <1>6, <1>7, <1>8, <1>10

\* A step inside a call changes no count.
LEMMA CountedStay ==
    ASSUME NEW A, NEW B, Len(B) = Len(A),
           \A i \in 1 .. Len(A) : B[i].kind = A[i].kind /\ B[i].local = A[i].local,
           NEW T, NEW U, Len(U.stack) = Len(T.stack), Len(U.globals) = Len(T.globals), Counted(T, A)
    PROVE  Counted(U, B)
<1>1. FiltersOf(B) = FiltersOf(A)
  BY DEF FiltersOf, CallGlobals
<1>2. FunctionsOf(B) = FunctionsOf(A)
  BY DEF FunctionsOf
<1> QED
  BY <1>1, <1>2 DEF Counted

-------------------------------------------------------------------------------

(* ImportDepth                                                             *)

\* ImportDepth may be too high, by an Import that has failed to open its file.
LEMMA DepthStay ==
    ASSUME NEW A, NEW B, Len(A) \in Nat, Len(B) = Len(A),
           \A i \in 1 .. Len(A) : B[i].kind = A[i].kind /\ B[i].main = A[i].main,
           NEW d, DepthOK(A, d), NEW e \in {d, d + 1}
    PROVE  DepthOK(B, e)
<1>1. ImportsOf(B) = ImportsOf(A)
  BY DEF ImportsOf
<1>2. ImportsOf(A) \subseteq 1 .. Len(A)
  BY DEF ImportsOf
<1>3. PICK z \in Nat : z = Cardinality(ImportsOf(A)) /\ z = Cardinality(ImportsOf(B))
  BY <1>1, <1>2, CallsAreFinite
<1>4. d \in Nat /\ d >= z
  BY <1>3 DEF DepthOK
<1>5. e \in Nat /\ e >= z /\ (d > z => e > z)
  BY <1>4
<1>6. \A i \in 1 .. Len(A) : \A j \in 1 .. i - 1 : j \in 1 .. Len(A)
  OBVIOUS
<1>7. ASSUME NEW i \in 1 .. Len(B), B[i].kind = "Import", \A j \in 1 .. i - 1 : B[j].kind # "Import"
      PROVE  B[i].main \/ e > z
  <2>1. A[i].kind = "Import" /\ \A j \in 1 .. i - 1 : A[j].kind # "Import"
    BY <1>6, <1>7
  <2>2. A[i].main \/ d > z
    BY <1>3, <2>1 DEF DepthOK
  <2> QED
    BY <1>5, <2>2
<1> QED
  BY <1>3, <1>5, <1>7 DEF DepthOK

\* ImportDepth when call a begins, and when it ends.
Deeper(a, d, e) == IF a.kind = "Import" THEN e = d + 1 /\ (a.main \/ d > 0) ELSE e = d

Shallower(a, d, e) == IF a.kind = "Import" THEN e \in {d - 1, d} ELSE e = d

\* ImportDepth after a call has begun.
LEMMA DepthPush ==
    ASSUME NEW A, NEW B, NEW n \in Nat, n = Len(A), Len(B) = n + 1, CallOK(B[n + 1]),
           \A i \in 1 .. n : B[i].kind = A[i].kind /\ B[i].local = A[i].local /\ B[i].main = A[i].main,
           NEW d, DepthOK(A, d), NEW e,
           Deeper(B[n + 1], d, e)
    PROVE  DepthOK(B, e)
<1>1. OneMoreCall(A, B, n)
  BY Counts
<1>2. PICK y, z : y = Cardinality(ImportsOf(A)) /\ z = Cardinality(ImportsOf(B))
  OBVIOUS
<1>3. y \in Nat /\ z = IF B[n + 1].kind = "Import" THEN y + 1 ELSE y
  BY <1>1, <1>2 DEF OneMoreCall
<1>4. d \in Nat /\ d >= y
  BY <1>2 DEF DepthOK
<1>5. e \in Nat /\ e >= z /\ (d > y => e > z)
  BY <1>3, <1>4 DEF Deeper
<1>6. ASSUME NEW i \in 1 .. Len(B), B[i].kind = "Import", \A j \in 1 .. i - 1 : B[j].kind # "Import"
      PROVE  B[i].main \/ e > z
  <2>1. CASE i \in 1 .. n
    <3>1. \A j \in 1 .. i - 1 : j \in 1 .. n
      BY <2>1
    <3>2. A[i].kind = "Import" /\ (\A j \in 1 .. i - 1 : A[j].kind # "Import") /\ B[i].main = A[i].main
      BY <1>6, <2>1, <3>1
    <3>3. A[i].main \/ d > y
      BY <1>2, <2>1, <3>2 DEF DepthOK
    <3> QED
      BY <1>5, <3>2, <3>3
  <2>2. CASE i = n + 1
    <3>1. \A j \in 1 .. n : j \in 1 .. i - 1
      BY <2>2
    <3>2. ImportsOf(A) = {}
      BY <1>6, <3>1 DEF ImportsOf
    <3>3. y = 0
      BY <1>2, <3>2, FS_EmptySet
    <3> QED
      BY <1>3, <1>4, <1>6, <2>2, <3>3 DEF Deeper
  <2> QED
    BY <1>6, <2>1, <2>2
<1> QED
  BY <1>2, <1>5, <1>6 DEF DepthOK

\* ImportDepth after a call has ended.
LEMMA DepthPop ==
    ASSUME NEW A, NEW B, NEW n \in Nat, n = Len(A), Len(B) = n + 1, CallOK(B[n + 1]),
           \A i \in 1 .. n : B[i].kind = A[i].kind /\ B[i].local = A[i].local /\ B[i].main = A[i].main,
           NEW d, DepthOK(B, d), NEW e,
           Shallower(B[n + 1], d, e)
    PROVE  DepthOK(A, e)
<1>1. OneMoreCall(A, B, n)
  BY Counts
<1>2. PICK y, z : y = Cardinality(ImportsOf(A)) /\ z = Cardinality(ImportsOf(B))
  OBVIOUS
<1>3. y \in Nat /\ z = IF B[n + 1].kind = "Import" THEN y + 1 ELSE y
  BY <1>1, <1>2 DEF OneMoreCall
<1>4. d \in Nat /\ d >= z
  BY <1>2 DEF DepthOK
<1>5. e \in Nat /\ e >= y /\ (d > z => e > y)
  BY <1>3, <1>4 DEF Shallower
<1>6. ASSUME NEW i \in 1 .. Len(A), A[i].kind = "Import", \A j \in 1 .. i - 1 : A[j].kind # "Import"
      PROVE  A[i].main \/ e > y
  <2>1. i \in 1 .. Len(B) /\ \A j \in 1 .. i - 1 : j \in 1 .. n
    OBVIOUS
  <2>2. B[i].kind = "Import" /\ (\A j \in 1 .. i - 1 : B[j].kind # "Import") /\ B[i].main = A[i].main
    BY <1>6, <2>1
  <2>3. B[i].main \/ d > z
    BY <1>2, <2>1, <2>2 DEF DepthOK
  <2> QED
    BY <1>5, <2>2, <2>3
<1> QED
  BY <1>2, <1>5, <1>6 DEF DepthOK

\* At ImportDepth 0 no Import is under way.
LEMMA NoImports ==
    ASSUME NEW A, Len(A) \in Nat, DepthOK(A, 0)
    PROVE  \A i \in 1 .. Len(A) : A[i].kind # "Import"
<1>1. ImportsOf(A) \subseteq 1 .. Len(A)
  BY DEF ImportsOf
<1>2. IsFiniteSet(ImportsOf(A)) /\ Cardinality(ImportsOf(A)) \in Nat
  BY <1>1, CallsAreFinite
<1>3. 0 >= Cardinality(ImportsOf(A))
  BY DEF DepthOK
<1>4. Cardinality(ImportsOf(A)) = 0
  BY <1>2, <1>3
<1>5. ImportsOf(A) = {}
  BY <1>2, <1>4, FS_EmptySet
<1> QED
  BY <1>5 DEF ImportsOf

-------------------------------------------------------------------------------

\* A relation on the naturals that has no infinite descent.
Orders(R) == IsWellFoundedOn(R, Nat) /\ \A x \in Nat : \A y \in Nat : x < y => (<<x, y>> \in R)

\* A set of numbers has a smallest one.
LEMMA Smallest ==
    ASSUME NEW F, F \subseteq Nat, F # {}
    PROVE  \E c \in F : \A j \in F : c <= j
<1>1. \E R : Orders(R)
  <2>1. PICK R : R = OpToRel(<, Nat)
    OBVIOUS
  <2>2. IsWellFoundedOn(R, Nat)
    BY <2>1, NatLessThanWellFounded
  <2>3. \A x \in Nat : \A y \in Nat : x < y => (<<x, y>> \in R)
    BY <2>1 DEF OpToRel
  <2> QED
    BY <2>2, <2>3 DEF Orders
<1>2. PICK R : Orders(R)
  BY <1>1
<1>3. IsWellFoundedOn(R, Nat)
  BY <1>2 DEF Orders
<1>4. PICK x \in F : \A y \in F : ~ (<<y, x>> \in R)
  BY <1>3, WFMin, Zenon
<1>5. \A y \in F : ~ (y < x)
  BY <1>2, <1>4 DEF Orders
<1> QED
  BY <1>4, <1>5

\* Whatever is there, Get finds a value.
LEMMA GetTyped ==
    ASSUME NEW T \in Tables, Len(T.stack) > 0, NEW name \in Names
    PROVE  Get(T, name) \in Values
<1> DEFINE N == Len(T.globals)
           F == Found(T, name)
<1>1. N \in Nat /\ LastFrame(T) \in Frames /\ T.top \in Frames /\ \A i \in 1 .. N : T.globals[i] \in Frames
  BY TableParts DEF LastFrame
<1>2. /\ DOMAIN Scope(T) = 1 .. N + 2 /\ Scope(T)[1] = LastFrame(T)
      /\ \A i \in 1 .. N : Scope(T)[N + 2 - i] = T.globals[i]
      /\ Scope(T)[N + 2] = T.top
  BY ScopeIs
<1> HIDE DEF N
<1>3. \A q \in 1 .. N + 2 : q = 1 \/ q = N + 2 \/ (N + 2 - q \in 1 .. N /\ N + 2 - (N + 2 - q) = q)
  BY <1>1
<1>4. \A q \in 1 .. N + 2 : Scope(T)[q] \in Frames
  BY <1>1, <1>2, <1>3
<1>5. CASE F = {}
  BY <1>5, TheNames DEF Get
<1>6. CASE F # {}
  <2>1. F \subseteq Nat
    BY <1>2 DEF Found
  <2>2. \E c \in F : \A j \in F : c <= j
    BY <1>6, <2>1, Smallest
  <2>3. PICK c : c = CHOOSE i \in F : \A j \in F : i <= j
    OBVIOUS
  <2>4. c \in F
    BY <2>2, <2>3
  <2>5. Get(T, name) = Scope(T)[c][name]
    BY <1>6, <2>3 DEF Get
  <2>6. Scope(T)[c] \in Frames /\ Scope(T)[c][name] # Unset
    BY <1>2, <1>4, <2>4 DEF Found
  <2> QED
    BY <2>5, <2>6 DEF Frames
<1> QED
  BY <1>5, <1>6

-------------------------------------------------------------------------------

(* Steps that write                                                        *)

\* What a fit says of the sizes.
LEMMA FitsParts ==
    ASSUME NEW L, NEW T, NEW A, NEW bad, NEW mis, Fits(L, T, A, bad, mis)
    PROVE  /\ Len(A) \in Nat /\ Len(A) \in 0 .. Len(A) /\ Levels(L, A) /\ TableOK(L, T, A)
           /\ T \in Tables /\ Clean(T) /\ Len(T.stack) > 0
           /\ Len(T.stack) \in Nat \ {0} /\ Len(T.globals) \in Nat
           /\ Len(T.stack) = L[Len(A)].d /\ Len(T.globals) = L[Len(A)].g
           /\ L[Len(A)].d \in Nat \ {0} /\ L[Len(A)].g \in Nat
<1>1. Len(A) \in Nat /\ Len(A) \in 0 .. Len(A) /\ Levels(L, A) /\ TableOK(L, T, A)
  BY DEF Fits
<1>2. T \in Tables /\ Clean(T)
  BY <1>1 DEF TableOK
<1> QED
  BY <1>1, <1>2, Sizes

\* An assignment to other names does not change what is seen globally.
LEMMA WriteSees ==
    ASSUME NEW T, NEW U, NEW S, NEW G, Writes(T, U, S, G), NEW name \in Names, name \notin G,
           NEW v, GlobalSees(T, Len(T.globals), name, v)
    PROVE  GlobalSees(U, Len(U.globals), name, v)
<1>1. PICK g \in Nat : g = Len(T.globals) /\ g = Len(U.globals)
  BY TableParts DEF Writes
<1>2. ASSUME NEW i \in 1 .. g PROVE U.globals[i][name] = T.globals[i][name]
  <2>1. CASE i \in 1 .. g - 1
    BY <1>1, <2>1 DEF Writes
  <2>2. CASE i = g
    BY <1>1, <2>2 DEF Writes
  <2> QED
    BY <1>1, <2>1, <2>2
<1>3. U.top[name] = T.top[name]
  BY DEF Writes
<1> QED
  BY <1>1, <1>2, <1>3, GlobalSame

\* More may be spoiled and misnamed, in the innermost frames of T.
Worse(T, bad, mis, bad2, mis2) ==
    /\ bad2 \subseteq 1 .. Len(T.stack) /\ mis2 \subseteq 0 .. Len(T.globals)
    /\ \A d \in 1 .. Len(T.stack) - 1 : d \in bad => d \in bad2
    /\ mis \subseteq mis2

\* A step that only writes to the innermost frames keeps the fit if the top does.
LEMMA WriteStep ==
    ASSUME NEW L, NEW T, NEW A, NEW bad, NEW mis, Fits(L, T, A, bad, mis),
           NEW U, NEW S, NEW G, Writes(T, U, S, G), S \cap ScriptNames = {}, G \cap Contents = {},
           NEW M, NEW B \in Seq(Calls), Levels(M, B), Moves(L, A, M, B),
           M[Len(B)].d = Len(T.stack), M[Len(B)].g = Len(T.globals),
           NEW bad2, NEW mis2, Worse(T, bad, mis, bad2, mis2),
           MainSeen(M, U, B), TopOK(M, U, B, bad2, mis2), Len(B) > Len(A) => NewOK(M, U, B, mis2)
    PROVE  Fits(M, U, B, bad2, mis2)
<1>1. TableOK(L, T, A)
  BY FitsParts
<1>2. TableOK(M, U, B) /\ Under(T, U) /\ SameNames(T, U, Contents)
  BY <1>1, Wrote
<1>3. Len(U.stack) = Len(T.stack) /\ Len(U.globals) = Len(T.globals)
  BY DEF Writes
<1>4. /\ bad2 \subseteq 1 .. Len(U.stack) /\ mis2 \subseteq 0 .. Len(U.globals)
      /\ \A d \in 1 .. Len(U.stack) - 1 : d \in bad => d \in bad2
      /\ \A g \in 0 .. Len(U.globals) : g \in mis => g \in mis2
  BY <1>3 DEF Worse
<1> QED
  BY <1>2, <1>4, Moved

\* $MainScriptName$ stays visible when it is not assigned.
LEMMA WriteMain ==
    ASSUME NEW L, NEW T, NEW A, NEW bad, NEW mis, Fits(L, T, A, bad, mis),
           NEW U, NEW S, NEW G, Writes(T, U, S, G), S \cap ScriptNames = {}, G \cap Contents = {},
           "$MainScriptName$" \notin G,
           NEW M, NEW B \in Seq(Calls), Levels(M, B), Moves(L, A, M, B),
           M[Len(B)].d = Len(T.stack), M[Len(B)].g = Len(T.globals),
           \A i \in 1 .. Len(A) : i <= Len(B) /\ B[i].main => B[i].file = A[i].file,
           Len(B) > Len(A) => ~B[Len(B)].main /\ CallGlobals(B[Len(B)]) = 0
    PROVE  MainSeen(M, U, B)
<1>1. Len(A) \in Nat /\ Len(B) \in Nat /\ Levels(L, A) /\ TableOK(L, T, A) /\ MainSeen(L, T, A)
  BY DEF Fits
<1>2. TableOK(M, U, B) /\ SameNames(T, U, {"$MainScriptName$"})
  BY <1>1, Wrote DEF ScriptNames
<1>3. Len(B) > Len(A) => /\ ~B[Len(B)].main
                         /\ CallGlobals(B[Len(B)]) = 1 => U.globals[Len(U.globals)]["$MainScriptName$"] = Unset
  OBVIOUS
<1> QED
  BY <1>1, <1>2, <1>3, StillMain

\* B is A, but for the phase or the file of the innermost call.
Changed(A, B) ==
    /\ Len(B) = Len(A)
    /\ \A i \in 1 .. Len(A) :
          /\ i < Len(A) => B[i] = A[i]
          /\ B[i].kind = A[i].kind /\ B[i].local = A[i].local /\ B[i].main = A[i].main
          /\ B[i].saved = A[i].saved /\ B[i].before = A[i].before /\ B[i].spoiled = A[i].spoiled

\* A statement, or a call that goes on with its levels as they were.
LEMMA Stay ==
    ASSUME NEW L, NEW T, NEW A, NEW bad, NEW mis, Fits(L, T, A, bad, mis),
           NEW U, NEW S, NEW G, Writes(T, U, S, G), S \subseteq {"last", "x"}, G \subseteq {"x"},
           NEW B \in Seq(Calls), Changed(A, B), Levels(L, B),
           \A i \in 1 .. Len(A) : B[i].file = A[i].file,
           Len(B) > 0 => ~Resting(B[Len(B)])
    PROVE  Fits(L, U, B, bad, mis)
<1>1. /\ Len(A) \in Nat /\ Len(A) \in 0 .. Len(A) /\ Len(B) = Len(A)
      /\ Len(T.stack) \in Nat \ {0} /\ Len(T.stack) = L[Len(A)].d /\ Len(T.globals) = L[Len(A)].g
      /\ Len(U.stack) = Len(T.stack) /\ Len(U.globals) = Len(T.globals)
  BY FitsParts DEF Changed, Writes
<1>2. S \cap ScriptNames = {} /\ G \cap Contents = {} /\ "current_frame" \in Names \ S
  BY TheNames DEF Contents, ScriptNames
<1>3. Moves(L, A, L, B)
  BY <1>1 DEF Moves, Changed
<1>4. MainSeen(L, U, B)
  BY <1>1, <1>2, <1>3, WriteMain
<1>5. PICK m \in Nat : m = Len(A) /\ m = Len(B)
  BY <1>1
<1>6. ASSUME L[m].d \notin bad PROVE SeenAt(L, U, B, m)
  <2>1. SeenAt(L, T, A, m)
    BY <1>1, <1>5, <1>6 DEF Fits, Seen
  <2>2. U.stack[L[m].d]["current_frame"] = T.stack[L[m].d]["current_frame"]
    BY <1>1, <1>2, <1>5 DEF Writes, LastFrame
  <2>3. m > 0 => ~Resting(B[m])
    BY <1>5
  <2> QED
    BY <2>1, <2>2, <2>3 DEF SeenAt, FrameSees
<1>7. ASSUME Right(L[m].g, mis) PROVE GlobalSees(U, L[m].g, "$ScriptName$", L[m].s)
  <2>1. GlobalSees(T, L[m].g, "$ScriptName$", L[m].s)
    BY <1>1, <1>5, <1>7 DEF Fits, NameSeen
  <2>2. PICK v : v = L[m].s
    OBVIOUS
  <2>3. "$ScriptName$" \in Names /\ "$ScriptName$" \notin G
    BY TheNames DEF ScriptNames
  <2>4. GlobalSees(T, Len(T.globals), "$ScriptName$", v)
    BY <1>1, <1>5, <2>1, <2>2
  <2>5. GlobalSees(U, Len(U.globals), "$ScriptName$", v)
    BY <2>3, <2>4, WriteSees
  <2> QED
    BY <1>1, <1>5, <2>2, <2>5
<1>8. \A k \in 1 .. m : ~B[k].local /\ B[k].spoiled /\ L[k].d = L[m].d => L[k].d \in bad
  BY <1>5 DEF Fits, SpoiledOK, Changed
<1>9. TopOK(L, U, B, bad, mis)
  BY <1>5, <1>6, <1>7, <1>8 DEF TopOK
<1>10. Worse(T, bad, mis, bad, mis)
  BY DEF Fits, Worse
<1>11. Len(B) > Len(A) => NewOK(L, U, B, mis)
  BY <1>1
<1>12. L[Len(B)].d = Len(T.stack) /\ L[Len(B)].g = Len(T.globals)
  BY <1>1
<1> QED
  BY <1>2, <1>3, <1>4, <1>9, <1>10, <1>11, <1>12, WriteStep

-------------------------------------------------------------------------------

(* Calls without frames of their own end                                   *)

\* B is A without its innermost call, which is call n + 1.
Left1(A, B, n) == /\ n + 1 = Len(A) /\ n = Len(B)
                  /\ \A i \in 1 .. n : B[i] = A[i]

\* What call n of A needs to be the innermost one.
CallerOK(L, A, n, U, bad2, mis2) ==
    /\ L[n].d \notin bad2 => SeenAt(L, U, A, n)
    /\ Right(L[n].g, mis2) => GlobalSees(U, L[n].g, "$ScriptName$", L[n].s)
    /\ \A k \in 1 .. n : ~A[k].local /\ A[k].spoiled /\ L[k].d = L[n].d => L[n].d \in bad2

\* A call without frames of its own has ended.
LEMMA LeaveShared ==
    ASSUME NEW L, NEW T, NEW A, NEW bad, NEW mis, Fits(L, T, A, bad, mis),
           NEW B \in Seq(Calls), NEW n \in Nat, Left1(A, B, n), ~A[n + 1].local,
           NEW U, NEW S, NEW G, Writes(T, U, S, G), S \subseteq Contents \cup {"x"}, G \subseteq {"$ScriptName$"},
           NEW bad2, NEW mis2, Worse(T, bad, mis, bad2, mis2), CallerOK(L, A, n, U, bad2, mis2)
    PROVE  Fitting(U, B, bad2, mis2)
<1>1. PICK M : M = [k \in 0 .. n |-> L[k]]
  OBVIOUS
<1>2. /\ Len(A) = n + 1 /\ Len(B) = n /\ Len(A) \in Nat /\ Levels(L, A)
      /\ \A k \in 0 .. n : M[k] = L[k]
      /\ \A i \in 1 .. n : B[i] = A[i]
  BY <1>1, FitsParts DEF Left1
<1>3. n \in 0 .. n /\ n + 1 \in 1 .. n + 1 /\ (n > 0 => n \in 1 .. n) /\ (n + 1) - 1 = n
  OBVIOUS
<1>4. L[n + 1].d = L[n].d /\ L[n + 1].g = L[n].g
  <2>1. /\ L[n + 1].d = L[n].d + CallFrames(A[n + 1]) /\ L[n + 1].g = L[n].g + CallGlobals(A[n + 1])
    BY <1>2, <1>3, Above
  <2>2. L[n].d \in Nat /\ L[n].g \in Nat
    BY <1>2, LevelTypes
  <2> QED
    BY <2>1, <2>2 DEF CallFrames, CallGlobals
<1>5. M[n].d = Len(T.stack) /\ M[n].g = Len(T.globals)
  BY <1>2, <1>3, <1>4, FitsParts
<1>6. Levels(M, B)
  <2>1. n = Len(B) /\ n <= Len(A)
    BY <1>2
  <2> QED
    BY <1>1, <1>2, <2>1, OldLevels
<1>7. Moves(L, A, M, B)
  <2>1. /\ \A i \in 0 .. Len(A) : i <= n => i \in 0 .. n /\ (i > 0 => i \in 1 .. n)
        /\ \A i \in 1 .. Len(A) : i <= n => i \in 1 .. n
        /\ n = Len(A) - 1
    BY <1>2
  <2> QED
    BY <1>2, <2>1 DEF Moves
<1>0. S \cap ScriptNames = {} /\ G \cap Contents = {} /\ "$MainScriptName$" \notin G
  BY DEF Contents, ScriptNames
<1>8. MainSeen(M, U, B)
  <2>1. \A i \in 1 .. Len(A) : i <= Len(B) /\ B[i].main => B[i].file = A[i].file
    BY <1>2
  <2>2. ~(Len(B) > Len(A))
    BY <1>2
  <2>3. M[Len(B)].d = Len(T.stack) /\ M[Len(B)].g = Len(T.globals)
    BY <1>2, <1>5
  <2> QED
    BY <1>0, <1>6, <1>7, <2>1, <2>2, <2>3, WriteMain
<1>9. TopOK(M, U, B, bad2, mis2)
  <2>1. SeenAt(L, U, A, n) => SeenAt(M, U, B, n)
    BY <1>2, <1>3 DEF SeenAt
  <2>2. \A k \in 1 .. n : k \in 0 .. n
    OBVIOUS
  <2> QED
    BY <1>2, <1>3, <2>1, <2>2 DEF TopOK, CallerOK
<1>10. /\ ~(Len(B) > Len(A))
       /\ M[Len(B)].d = Len(T.stack) /\ M[Len(B)].g = Len(T.globals)
  BY <1>2, <1>5
<1>11. Len(B) > Len(A) => NewOK(M, U, B, mis2)
  BY <1>10
<1>12. Fits(M, U, B, bad2, mis2)
  BY <1>0, <1>6, <1>7, <1>8, <1>9, <1>10, <1>11, WriteStep
<1> QED
  BY <1>12 DEF Fitting

\* The levels n and n + 1 of such a call.
LEMMA TwoLevels ==
    ASSUME NEW L, NEW T, NEW A, NEW bad, NEW mis, Fits(L, T, A, bad, mis),
           NEW n \in Nat, n + 1 = Len(A), ~A[n + 1].local
    PROVE  /\ LevelOK(L, A, n + 1) /\ CallOK(A[n + 1])
           /\ A[n + 1].kind \in Evaluated /\ n > 0 => A[n].phase = "script"
           /\ L[n + 1].d = L[n].d /\ L[n + 1].g = L[n].g
           /\ L[n].d = Len(T.stack) /\ L[n].g = Len(T.globals)
           /\ L[n + 1].current_frame = L[n].current_frame /\ L[n + 1].last = L[n].last
           /\ L[n + 1].c = IF A[n + 1].kind \in Runtime /\ A[n + 1].phase # "after" THEN A[n + 1].n ELSE L[n].c
           /\ L[n + 1].s = IF A[n + 1].kind = "Import" THEN A[n + 1].file ELSE L[n].s
           /\ L[n].d \notin bad => SeenAt(L, T, A, n + 1)
           /\ Right(L[n].g, mis) => GlobalSees(T, L[n].g, "$ScriptName$", L[n + 1].s)
<1>1. /\ n + 1 \in 1 .. Len(A) /\ n + 1 \in 0 .. Len(A) /\ (n + 1) - 1 = n /\ (n + 1 > 1 <=> n > 0)
      /\ n \in 0 .. Len(A)
  OBVIOUS
<1>2. Levels(L, A) /\ Seen(L, T, A, bad) /\ NameSeen(L, T, A, mis) /\ Len(A) \in Nat
  BY DEF Fits
<1>3. LevelOK(L, A, n + 1)
  BY <1>1, <1>2 DEF Levels
<1>4. L[n].d \in Nat /\ L[n].g \in Nat
  BY <1>1, <1>2, LevelTypes
<1>5. CallFrames(A[n + 1]) = 0 /\ CallGlobals(A[n + 1]) = 0
  BY DEF CallFrames, CallGlobals
<1>6. L[n + 1].d = L[n].d /\ L[n + 1].g = L[n].g
  BY <1>1, <1>3, <1>4, <1>5 DEF LevelOK
<1>7. /\ CallOK(A[n + 1]) /\ (A[n + 1].kind \in Evaluated /\ n > 0 => A[n].phase = "script")
      /\ L[n + 1].current_frame = L[n].current_frame /\ L[n + 1].last = L[n].last
      /\ L[n + 1].c = IF A[n + 1].kind \in Runtime /\ A[n + 1].phase # "after" THEN A[n + 1].n ELSE L[n].c
      /\ L[n + 1].s = IF A[n + 1].kind = "Import" THEN A[n + 1].file ELSE L[n].s
  BY <1>1, <1>3 DEF LevelOK
<1>8. L[n].d = Len(T.stack) /\ L[n].g = Len(T.globals)
  BY <1>6, FitsParts
<1>9. L[n].d \notin bad => SeenAt(L, T, A, n + 1)
  BY <1>1, <1>2, <1>6 DEF Seen
<1>10. Right(L[n].g, mis) => GlobalSees(T, L[n].g, "$ScriptName$", L[n + 1].s)
  BY <1>1, <1>2, <1>6 DEF NameSeen
<1> QED
  BY <1>3, <1>6, <1>7, <1>8, <1>9, <1>10

\* try, EvalOop and Import.
LEMMA LeaveEvaluated ==
    ASSUME NEW L, NEW T, NEW A, NEW bad, NEW mis, Fits(L, T, A, bad, mis),
           NEW B \in Seq(Calls), NEW n \in Nat, Left1(A, B, n), A[n + 1].kind \in {"try", "EvalOop", "Import"},
           NEW U, NEW S, NEW G, Writes(T, U, S, G), S \subseteq {"last", "x"}, G \subseteq {"$ScriptName$"},
           NEW mis2, mis2 \subseteq 0 .. Len(T.globals), mis \subseteq mis2,
           Right(L[n].g, mis2) => GlobalSees(U, L[n].g, "$ScriptName$", L[n].s)
    PROVE  Fitting(U, B, bad, mis2)
<1>1. n + 1 = Len(A) /\ Len(A) \in Nat /\ Levels(L, A)
  BY FitsParts DEF Left1
<1>2. CallOK(A[n + 1])
  BY <1>1 DEF Levels, LevelOK
<1>3. ~A[n + 1].local /\ A[n + 1].kind \in Evaluated /\ A[n + 1].kind \notin Runtime
  BY <1>2 DEF CallOK, Evaluated, Runtime
<1>4. S \subseteq Contents \cup {"x"} /\ "current_frame" \in Names \ S
  BY TheNames DEF Contents
<1>5. /\ n > 0 => A[n].phase = "script"
      /\ L[n + 1].d = L[n].d /\ L[n].d = Len(T.stack)
      /\ L[n + 1].current_frame = L[n].current_frame /\ L[n + 1].c = L[n].c
      /\ L[n].d \notin bad => SeenAt(L, T, A, n + 1)
  BY <1>1, <1>3, TwoLevels
<1>6. ASSUME L[n].d \notin bad PROVE SeenAt(L, U, A, n)
  <2>1. U.stack[L[n].d]["current_frame"] = T.stack[L[n].d]["current_frame"]
    BY <1>4, <1>5 DEF Writes, LastFrame
  <2>2. n > 0 => ~Resting(A[n])
    BY <1>5 DEF Resting
  <2> QED
    BY <1>5, <1>6, <2>1, <2>2 DEF SeenAt, FrameSees
<1>7. \A k \in 1 .. n : ~A[k].local /\ A[k].spoiled /\ L[k].d = L[n].d => L[n].d \in bad
  BY <1>1 DEF Fits, SpoiledOK
<1>8. Worse(T, bad, mis, bad, mis2)
  BY DEF Fits, Worse
<1>9. CallerOK(L, A, n, U, bad, mis2)
  BY <1>6, <1>7 DEF CallerOK
<1> QED
  BY <1>3, <1>4, <1>8, <1>9, LeaveShared

-------------------------------------------------------------------------------

\* Both variables are put back.
LEMMA RestoreWrites ==
    ASSUME NEW T \in Tables, Len(T.stack) > 0, NEW v \in Values, NEW w \in Values
    PROVE  LET U == Set(Set(T, "last", v), "current_frame", w)
           IN  /\ Writes(T, U, Contents, {})
               /\ LastFrame(U)["last"] = v /\ LastFrame(U)["current_frame"] = w
<1> DEFINE W == Set(T, "last", v)
           U == Set(W, "current_frame", w)
<1>1. "last" \in Names /\ "current_frame" \in Names /\ Contents = {"last"} \cup {"current_frame"}
  BY TheNames DEF Contents
<1>2. Writes(T, W, {"last"}, {}) /\ LastFrame(W)["last"] = v
  BY <1>1, SetWrites
<1>3. W \in Tables /\ Len(W.stack) > 0
  BY <1>2 DEF Writes
<1>4. Writes(W, U, {"current_frame"}, {}) /\ LastFrame(U)["current_frame"] = w
  BY <1>1, <1>3, SetWrites
<1> HIDE DEF W, U
<1>5. Writes(T, U, Contents, {})
  <2>1. Writes(T, U, {"last"} \cup {"current_frame"}, {} \cup {})
    BY <1>2, <1>4, WritesTwice
  <2>2. {"last"} \cup {"current_frame"} = Contents /\ {} \cup {} = {}
    BY <1>1
  <2> QED
    BY <2>1, <2>2
<1>6. LastFrame(U)["last"] = v
  <2>1. "last" \in Names \ {"current_frame"}
    BY <1>1
  <2> QED
    BY <1>2, <1>4, <2>1 DEF Writes
<1> QED
  BY <1>4, <1>5, <1>6 DEF U, W

\* The script that is read is the caller's after any call but Import.
LEMMA NameBelow ==
    ASSUME NEW L, NEW T, NEW A, NEW bad, NEW mis, Fits(L, T, A, bad, mis),
           NEW n \in Nat, n + 1 = Len(A), ~A[n + 1].local, A[n + 1].kind # "Import",
           NEW U, NEW S, Writes(T, U, S, {}), Right(L[n].g, mis)
    PROVE  GlobalSees(U, L[n].g, "$ScriptName$", L[n].s)
<1>1. GlobalSees(T, L[n].g, "$ScriptName$", L[n + 1].s) /\ L[n + 1].s = L[n].s /\ L[n].g = Len(T.globals)
  BY TwoLevels
<1>2. PICK v : v = L[n].s
  OBVIOUS
<1>3. GlobalSees(T, Len(T.globals), "$ScriptName$", v)
  BY <1>1, <1>2
<1>4. "$ScriptName$" \in Names /\ "$ScriptName$" \notin {}
  BY TheNames DEF ScriptNames
<1>5. GlobalSees(U, Len(U.globals), "$ScriptName$", v)
  BY <1>3, <1>4, WriteSees
<1> QED
  BY <1>1, <1>2, <1>5 DEF Writes

\* A filter that restores the variables.
LEMMA LeaveRestored ==
    ASSUME NEW L, NEW T, NEW A, NEW bad, NEW mis, Fits(L, T, A, bad, mis),
           NEW B \in Seq(Calls), NEW n \in Nat, Left1(A, B, n), A[n + 1].kind \in Runtime, ~A[n + 1].local,
           NEW U, U = Set(Set(T, "last", A[n + 1].saved[1]), "current_frame", A[n + 1].saved[2]),
           NEW bad2, bad2 = IF A[n + 1].spoiled THEN bad \cup {Len(T.stack)} ELSE bad \ {Len(T.stack)}
    PROVE  Fitting(U, B, bad2, mis)
<1>1. /\ n + 1 = Len(A) /\ Len(A) \in Nat /\ Levels(L, A) /\ T \in Tables /\ Len(T.stack) > 0 /\ Len(T.stack) \in Nat
      /\ n + 1 \in 1 .. Len(A) /\ n \in 0 .. Len(A) /\ (n + 1) - 1 = n /\ (n + 1 > 1 <=> n > 0)
  BY FitsParts DEF Left1
<1>2. LevelOK(L, A, n + 1) /\ CallOK(A[n + 1]) /\ L[n + 1].d = L[n].d /\ L[n].d = Len(T.stack)
  BY <1>1, TwoLevels
<1>3. PICK v \in Values, w \in Values : v = A[n + 1].saved[1] /\ w = A[n + 1].saved[2]
  BY <1>2 DEF CallOK
<1>4. Writes(T, U, Contents, {}) /\ LastFrame(U)["last"] = v /\ LastFrame(U)["current_frame"] = w
  BY <1>1, <1>3, RestoreWrites
<1>5. LastFrame(U) = U.stack[L[n].d]
  BY <1>2, <1>4 DEF LastFrame, Writes
<1>6. ASSUME L[n].d \notin bad2 PROVE SeenAt(L, U, A, n)
  <2>1. ~A[n + 1].spoiled
    BY <1>2, <1>6
  <2>2. w = L[n].c /\ (n > 0 /\ Resting(A[n]) => v = A[n].before[1])
    BY <1>1, <1>2, <1>3, <2>1 DEF LevelOK
  <2>3. v # Unset /\ w # Unset
    BY <1>3, TheNames
  <2> QED
    BY <1>4, <1>5, <2>2, <2>3 DEF SeenAt, FrameSees
<1>7. ASSUME NEW k \in 1 .. n, ~A[k].local, A[k].spoiled, L[k].d = L[n].d PROVE L[n].d \in bad2
  <2>1. k \in 1 .. n + 1 /\ k \in 1 .. Len(A)
    BY <1>1
  <2>2. A[n + 1].spoiled
    BY <1>1, <1>2, <1>7, <2>1 DEF Levels, Inherited
  <2> QED
    BY <1>2, <2>2
<1>8. A[n + 1].kind # "Import"
  BY DEF Runtime
<1>9. CallerOK(L, A, n, U, bad2, mis)
  BY <1>1, <1>4, <1>6, <1>7, <1>8, NameBelow DEF CallerOK
<1>10. Worse(T, bad, mis, bad2, mis)
  <2>1. bad \subseteq 1 .. Len(T.stack) /\ mis \subseteq 0 .. Len(T.globals)
    BY DEF Fits
  <2>2. Len(T.stack) \in 1 .. Len(T.stack) /\ \A d \in 1 .. Len(T.stack) - 1 : d # Len(T.stack)
    BY <1>1
  <2> QED
    BY <2>1, <2>2 DEF Worse
<1>11. Contents \subseteq Contents \cup {"x"} /\ {} \subseteq {"$ScriptName$"}
  OBVIOUS
<1> QED
  BY <1>4, <1>9, <1>10, <1>11, LeaveShared

\* A filter that has restored them before, or has not touched them.
LEMMA LeaveResting ==
    ASSUME NEW L, NEW T, NEW A, NEW bad, NEW mis, Fits(L, T, A, bad, mis),
           NEW B \in Seq(Calls), NEW n \in Nat, Left1(A, B, n), A[n + 1].kind \in Runtime \cup {"UseVar"},
           Resting(A[n + 1])
    PROVE  Fitting(T, B, bad, mis)
<1>1. /\ n + 1 = Len(A) /\ Len(A) \in Nat /\ Levels(L, A) /\ T \in Tables /\ Len(T.stack) > 0 /\ Len(T.stack) \in Nat
      /\ n + 1 \in 1 .. Len(A) /\ n \in 0 .. Len(A) /\ (n + 1) - 1 = n /\ (n + 1 > 1 <=> n > 0) /\ ~A[n + 1].local
  BY FitsParts DEF Left1, Resting
<1>2. /\ LevelOK(L, A, n + 1) /\ CallOK(A[n + 1]) /\ L[n + 1].d = L[n].d
      /\ L[n + 1].current_frame = L[n].current_frame /\ L[n + 1].last = L[n].last
      /\ L[n + 1].c = IF A[n + 1].kind \in Runtime /\ A[n + 1].phase # "after" THEN A[n + 1].n ELSE L[n].c
      /\ L[n].d \notin bad => SeenAt(L, T, A, n + 1)
  BY <1>1, TwoLevels
<1>3. L[n + 1].c = L[n].c
  BY <1>2 DEF CallOK, Resting
<1>4. Writes(T, T, {}, {})
  BY <1>1, NothingWritten
<1>5. ASSUME L[n].d \notin bad PROVE SeenAt(L, T, A, n)
  <2>1. ~A[n + 1].spoiled
    BY <1>1, <1>2, <1>5 DEF Fits, SpoiledOK
  <2>2. n > 0 /\ Resting(A[n]) => A[n + 1].before[1] = A[n].before[1]
    BY <1>1, <1>2, <2>1 DEF LevelOK
  <2> QED
    BY <1>1, <1>2, <1>3, <1>5, <2>2 DEF SeenAt
<1>6. \A k \in 1 .. n : ~A[k].local /\ A[k].spoiled /\ L[k].d = L[n].d => L[n].d \in bad
  BY <1>1 DEF Fits, SpoiledOK
<1>7. A[n + 1].kind # "Import"
  BY DEF Runtime
<1>8. CallerOK(L, A, n, T, bad, mis)
  BY <1>1, <1>4, <1>5, <1>6, <1>7, NameBelow DEF CallerOK
<1>9. Worse(T, bad, mis, bad, mis)
  BY DEF Fits, Worse
<1>10. {} \subseteq Contents \cup {"x"} /\ {} \subseteq {"$ScriptName$"}
  OBVIOUS
<1>11. ~A[n + 1].local
  BY <1>1
<1> QED
  BY <1>4, <1>8, <1>9, <1>10, <1>11, LeaveShared

\* A filter that leaves the variables as they are.
LEMMA LeaveSpoiling ==
    ASSUME NEW L, NEW T, NEW A, NEW bad, NEW mis, Fits(L, T, A, bad, mis),
           NEW B \in Seq(Calls), NEW n \in Nat, Left1(A, B, n), A[n + 1].kind \in Runtime, ~A[n + 1].local,
           NEW bad2, bad2 = bad \cup {Len(T.stack)}
    PROVE  Fitting(T, B, bad2, mis)
<1>1. n + 1 = Len(A) /\ T \in Tables /\ Len(T.stack) > 0 /\ Len(T.stack) \in Nat
  BY FitsParts DEF Left1
<1>2. L[n].d \in bad2
  BY <1>1, TwoLevels
<1>3. Writes(T, T, {}, {})
  BY <1>1, NothingWritten
<1>4. A[n + 1].kind # "Import"
  BY DEF Runtime
<1>5. CallerOK(L, A, n, T, bad2, mis)
  BY <1>1, <1>2, <1>3, <1>4, NameBelow DEF CallerOK
<1>6. Worse(T, bad, mis, bad2, mis)
  <2>1. bad \subseteq 1 .. Len(T.stack) /\ mis \subseteq 0 .. Len(T.globals)
    BY DEF Fits
  <2>2. Len(T.stack) \in 1 .. Len(T.stack)
    BY <1>1
  <2> QED
    BY <2>1, <2>2 DEF Worse
<1>7. {} \subseteq Contents \cup {"x"} /\ {} \subseteq {"$ScriptName$"}
  OBVIOUS
<1> QED
  BY <1>3, <1>5, <1>6, <1>7, LeaveShared

-------------------------------------------------------------------------------

(* Calls with frames of their own end                                      *)

\* A call with frames of its own has ended: they are popped.
LEMMA LeaveOwn ==
    ASSUME NEW L, NEW T, NEW A, NEW bad, NEW mis, Fits(L, T, A, bad, mis),
           NEW B \in Seq(Calls), NEW n \in Nat, Left1(A, B, n), A[n + 1].local,
           NEW U, NEW b, b = CallGlobals(A[n + 1]), Closes(T, U, b),
           NEW bad2, bad2 = bad \ {Len(T.stack)},
           NEW mis2, mis2 = IF b = 1 THEN mis \ {Len(T.globals)} ELSE mis
    PROVE  Fitting(U, B, bad2, mis2)
<1>1. PICK M : M = [k \in 0 .. n |-> L[k]]
  OBVIOUS
<1>2. /\ Len(A) = n + 1 /\ Len(B) = n /\ Len(A) \in Nat /\ Levels(L, A) /\ TableOK(L, T, A)
      /\ \A k \in 0 .. n : M[k] = L[k]
      /\ \A i \in 1 .. n : B[i] = A[i]
      /\ n \in 0 .. n /\ n \in 0 .. Len(A) /\ n + 1 \in 1 .. Len(A) /\ n + 1 \in 0 .. Len(A) /\ (n + 1) - 1 = n
  BY <1>1, FitsParts DEF Left1
<1>3. b \in {0, 1}
  BY DEF CallGlobals
<1>4. LevelOK(L, A, n + 1)
  BY <1>2 DEF Levels
<1>5. PICK d \in Nat \ {0}, g \in Nat : d = L[n].d /\ g = L[n].g
  BY <1>2, LevelTypes
<1>6. Len(T.stack) = d + 1 /\ Len(T.globals) = g + b
  <2>1. L[n + 1].d = d + 1 /\ L[n + 1].g = g + b
    BY <1>2, <1>4, <1>5 DEF LevelOK, CallFrames
  <2> QED
    BY <1>2, <2>1, FitsParts
<1>7. Len(U.stack) = d /\ Len(U.globals) = g
  <2>1. Len(U.stack) = Len(T.stack) - 1 /\ Len(U.globals) = Len(T.globals) - b
    BY DEF Closes
  <2> QED
    BY <1>3, <1>5, <1>6, <2>1
<1>8. M[n].d = Len(T.stack) - 1 /\ M[n].g = Len(T.globals) - b
  BY <1>2, <1>3, <1>5, <1>6
<1>9. /\ TableOK(M, U, B) /\ Under(T, U) /\ SameNames(T, U, Contents)
      /\ SameNames(T, U, {"$MainScriptName$"})
  BY <1>2, <1>3, <1>8, Closed DEF ScriptNames
<1>10. Levels(M, B)
  <2>1. n = Len(B) /\ n <= Len(A)
    BY <1>2
  <2> QED
    BY <1>1, <1>2, <2>1, OldLevels
<1>11. Moves(L, A, M, B)
  <2>1. /\ \A i \in 0 .. Len(A) : i <= n => i \in 0 .. n /\ (i > 0 => i \in 1 .. n)
        /\ \A i \in 1 .. Len(A) : i <= n => i \in 1 .. n
        /\ n = Len(A) - 1
    BY <1>2
  <2> QED
    BY <1>2, <2>1 DEF Moves
<1>12. MainSeen(M, U, B)
  <2>1. \A i \in 1 .. Len(A) : i <= Len(B) /\ B[i].main => B[i].file = A[i].file
    BY <1>2
  <2>2. Len(B) > Len(A) => /\ ~B[Len(B)].main
                           /\ CallGlobals(B[Len(B)]) = 1 => U.globals[Len(U.globals)]["$MainScriptName$"] = Unset
    BY <1>2
  <2>3. MainSeen(L, T, A) /\ Len(B) \in Nat
    BY <1>2 DEF Fits
  <2> QED
    BY <1>2, <1>9, <1>10, <1>11, <2>1, <2>2, <2>3, StillMain
<1>13. ASSUME d \notin bad2 PROVE SeenAt(M, U, B, n)
  <2>1. d \notin bad
    BY <1>6, <1>13
  <2>2. SeenAt(L, T, A, n)
    BY <1>2, <1>5, <2>1 DEF Fits, Seen
  <2>3. U.stack[d] = T.stack[d]
    <3>1. d \in 1 .. Len(U.stack)
      BY <1>5, <1>7
    <3> QED
      BY <3>1 DEF Closes
  <2>4. n > 0 => B[n] = A[n]
    BY <1>2
  <2> QED
    BY <1>2, <1>5, <2>2, <2>3, <2>4 DEF SeenAt
<1>14. ASSUME Right(g, mis2) PROVE GlobalSees(U, g, "$ScriptName$", M[n].s)
  <2>1. GlobalSees(T, g, "$ScriptName$", L[n].s)
    <3>1. CASE b = 1
      <4>1. Right(g, mis)
        BY <1>5, <1>6, <1>14, <3>1 DEF Right
      <4> QED
        BY <1>2, <1>5, <3>1, <4>1 DEF Fits, NameSeen
    <3>2. CASE b = 0
      <4>1. L[n + 1].g = g /\ L[n + 1].s = L[n].s
        BY <1>2, <1>4, <1>5, <3>2 DEF LevelOK, CallOK
      <4>2. Right(g, mis)
        BY <1>14, <3>2
      <4> QED
        BY <1>2, <4>1, <4>2 DEF Fits, NameSeen
    <3> QED
      BY <1>3, <3>1, <3>2
  <2>2. U.top = T.top /\ \A i \in 1 .. g : U.globals[i] = T.globals[i]
    BY <1>7 DEF Closes
  <2>3. GlobalSees(U, g, "$ScriptName$", L[n].s)
    BY <1>5, <2>1, <2>2, GlobalSame
  <2> QED
    BY <1>2, <2>3
<1>15. ASSUME NEW k \in 1 .. n, ~B[k].local, B[k].spoiled, M[k].d = M[n].d PROVE M[k].d \in bad2
  <2>1. k \in 0 .. n /\ k \in 1 .. Len(A)
    BY <1>2
  <2>2. L[k].d \in bad /\ L[k].d = d
    BY <1>2, <1>5, <1>15, <2>1 DEF Fits, SpoiledOK
  <2> QED
    BY <1>2, <1>5, <1>6, <2>1, <2>2
<1>16. TopOK(M, U, B, bad2, mis2)
  BY <1>2, <1>5, <1>13, <1>14, <1>15 DEF TopOK
<1>17. /\ bad2 \subseteq 1 .. Len(U.stack) /\ mis2 \subseteq 0 .. Len(U.globals)
       /\ \A i \in 1 .. Len(U.stack) - 1 : i \in bad => i \in bad2
       /\ \A i \in 0 .. Len(U.globals) : i \in mis => i \in mis2
  <2>1. bad \subseteq 1 .. d + 1 /\ mis \subseteq 0 .. g + b
    BY <1>6 DEF Fits
  <2>2. bad2 \subseteq 1 .. d /\ \A i \in 1 .. d - 1 : i \in bad => i \in bad2
    <3>1. /\ \A i \in 1 .. d + 1 : i # d + 1 => i \in 1 .. d
          /\ \A i \in 1 .. d - 1 : i # d + 1
      BY <1>5
    <3>2. bad2 = bad \ {d + 1}
      BY <1>6
    <3> QED
      BY <2>1, <3>1, <3>2
  <2>3. mis2 \subseteq 0 .. g /\ \A i \in 0 .. g : i \in mis => i \in mis2
    <3>1. CASE b = 1
      <4>1. /\ \A i \in 0 .. g + 1 : i # g + 1 => i \in 0 .. g
            /\ \A i \in 0 .. g : i # g + 1
        BY <1>5
      <4>2. mis2 = mis \ {g + 1} /\ mis \subseteq 0 .. g + 1
        BY <1>6, <2>1, <3>1
      <4> QED
        BY <4>1, <4>2
    <3>2. CASE b = 0
      <4>1. mis2 = mis /\ 0 .. g + 0 = 0 .. g
        BY <1>5, <3>2
      <4> QED
        BY <2>1, <3>2, <4>1
    <3> QED
      BY <1>3, <3>1, <3>2
  <2> QED
    BY <1>7, <2>2, <2>3
<1>18. Len(B) > Len(A) => NewOK(M, U, B, mis2)
  BY <1>2
<1>19. Fits(M, U, B, bad2, mis2)
  BY <1>9, <1>10, <1>11, <1>12, <1>16, <1>17, <1>18, Moved
<1> QED
  BY <1>19 DEF Fitting

-------------------------------------------------------------------------------

(* A call goes on                                                          *)

\* The level of the innermost call changes, in c or s.
ChangedTo(L, M, n, c, s) ==
    M = [k \in 0 .. n + 1 |-> IF k = n + 1 THEN [L[n + 1] EXCEPT !.c = c, !.s = s] ELSE L[k]]

LevelChanged(L, T, A, M, B, n, c, s) ==
    /\ Levels(M, B) /\ Moves(L, A, M, B)
    /\ M[n + 1].d = Len(T.stack) /\ M[n + 1].g = Len(T.globals)
    /\ M[n + 1].c = c /\ M[n + 1].s = s
    /\ M[n + 1].last = L[n + 1].last /\ M[n + 1].current_frame = L[n + 1].current_frame
    /\ M[n] = L[n]

\* The innermost call changes, and with it only its own level.
LEMMA ChangedLevel ==
    ASSUME NEW L, NEW T, NEW A, NEW bad, NEW mis, Fits(L, T, A, bad, mis),
           NEW B, Changed(A, B), NEW n \in Nat, n + 1 = Len(A),
           NEW M, NEW c \in Values, NEW s \in Values,
           ChangedTo(L, M, n, c, s), LevelOK(M, B, n + 1)
    PROVE  LevelChanged(L, T, A, M, B, n, c, s)
<1>1. /\ Len(A) \in Nat /\ Levels(L, A) /\ Len(A) = n + 1 /\ Len(B) = n + 1
      /\ L[n + 1].d = Len(T.stack) /\ L[n + 1].g = Len(T.globals)
  BY FitsParts DEF Changed
<1>2. PICK l : l = [L[n + 1] EXCEPT !.c = c, !.s = s]
  OBVIOUS
<1>3. M = [k \in 0 .. n + 1 |-> IF k = n + 1 THEN l ELSE L[k]]
  BY <1>2 DEF ChangedTo
<1>4. L \in [0 .. n + 1 -> Level] /\ n + 1 \in 0 .. n + 1 /\ L[n + 1] \in Level
  BY <1>1 DEF Levels
<1>5. /\ l \in Level /\ l.c = c /\ l.s = s /\ l.d = L[n + 1].d /\ l.g = L[n + 1].g
      /\ l.last = L[n + 1].last /\ l.current_frame = L[n + 1].current_frame
  BY <1>2, <1>4 DEF Level
<1>6. M[n + 1] = l /\ \A k \in 0 .. n : k \in 0 .. n + 1 /\ M[k] = L[k]
  BY <1>3
<1>7. M \in [0 .. n + 1 -> Level]
  BY <1>3, <1>4, <1>5
<1>8. \A i \in 1 .. n : i \in 1 .. Len(A) /\ B[i] = A[i] /\ i \in 0 .. n
  BY <1>1 DEF Changed
<1>9. /\ B[n + 1].kind = A[n + 1].kind /\ B[n + 1].local = A[n + 1].local /\ B[n + 1].main = A[n + 1].main
      /\ B[n + 1].saved = A[n + 1].saved /\ B[n + 1].before = A[n + 1].before
      /\ B[n + 1].spoiled = A[n + 1].spoiled
  BY <1>1 DEF Changed
<1>10. Levels(M, B)
  <2>1. PICK m \in Nat \ {0} : m = n + 1
    OBVIOUS
  <2>2. m = Len(B) /\ m \in {Len(A), Len(A) + 1} /\ M \in [0 .. m -> Level] /\ LevelOK(M, B, m)
    BY <1>1, <1>7, <2>1
  <2>3. (\A i \in 0 .. m - 1 : M[i] = L[i]) /\ \A i \in 1 .. m - 1 : B[i] = A[i]
    BY <1>6, <1>8, <2>1
  <2>4. ASSUME NEW i \in 1 .. m - 1, ~B[i].local, ~B[m].local, M[i].d = M[m].d, B[i].spoiled PROVE B[m].spoiled
    <3>1. i \in 0 .. n /\ i \in 1 .. n /\ i \in 1 .. n + 1 /\ n + 1 \in 1 .. Len(A)
      BY <1>1, <2>1
    <3>2. ~A[i].local /\ ~A[n + 1].local /\ L[i].d = L[n + 1].d /\ A[i].spoiled
      BY <1>5, <1>6, <1>8, <1>9, <2>1, <2>4, <3>1
    <3>3. A[n + 1].spoiled
      BY <1>1, <3>1, <3>2 DEF Levels, Inherited
    <3> QED
      BY <1>9, <2>1, <3>3
  <2>5. Inherits(M, B, m)
    BY <2>4 DEF Inherits
  <2> QED
    BY <1>1, <2>2, <2>3, <2>5, NewLevel
<1>11. Moves(L, A, M, B)
  <2>1. /\ \A i \in 0 .. Len(A) : i = n + 1 \/ (i \in 0 .. n /\ (i > 0 => i \in 1 .. n))
        /\ \A i \in 1 .. Len(A) : i = n + 1 \/ i \in 1 .. n
    BY <1>1
  <2>2. \A i \in 0 .. Len(A) : i < Len(B) => i # n + 1
    BY <1>1
  <2> QED
    BY <1>1, <1>5, <1>6, <1>8, <1>9, <2>1, <2>2 DEF Moves
<1>12. n \in 0 .. n
  OBVIOUS
<1> QED
  BY <1>1, <1>5, <1>6, <1>10, <1>11, <1>12 DEF LevelChanged

\* A filter restores the variables and fetches another frame.
LEMMA RestoredStay ==
    ASSUME NEW L, NEW T, NEW A, NEW bad, NEW mis, Fits(L, T, A, bad, mis),
           NEW B \in Seq(Calls), Changed(A, B), NEW n \in Nat, n + 1 = Len(A),
           A[n + 1].kind \in Runtime, ~A[n + 1].local,
           B[n + 1].phase = "after", B[n + 1].n = A[n + 1].n, B[n + 1].file = A[n + 1].file,
           NEW U, U = Set(Set(T, "last", A[n + 1].saved[1]), "current_frame", A[n + 1].saved[2]),
           NEW bad2, bad2 = IF A[n + 1].spoiled THEN bad \cup {Len(T.stack)} ELSE bad \ {Len(T.stack)}
    PROVE  Fitting(U, B, bad2, mis)
<1>1. /\ Len(A) \in Nat /\ Levels(L, A) /\ T \in Tables /\ Len(T.stack) > 0 /\ Len(T.stack) \in Nat
      /\ n + 1 \in 1 .. Len(A) /\ n \in 0 .. Len(A) /\ n + 1 \in 0 .. Len(A) /\ (n + 1) - 1 = n
      /\ Len(B) = n + 1
  BY FitsParts DEF Changed
<1>2. /\ LevelOK(L, A, n + 1) /\ CallOK(A[n + 1]) /\ L[n].d = Len(T.stack) /\ L[n].g = Len(T.globals)
      /\ L[n + 1].d = L[n].d /\ L[n + 1].g = L[n].g
      /\ L[n + 1].current_frame = L[n].current_frame /\ L[n + 1].last = L[n].last
      /\ L[n + 1].s = IF A[n + 1].kind = "Import" THEN A[n + 1].file ELSE L[n].s
      /\ Right(L[n].g, mis) => GlobalSees(T, L[n].g, "$ScriptName$", L[n + 1].s)
  BY <1>1, TwoLevels
<1>3. PICK v \in Values, w \in Values : v = A[n + 1].saved[1] /\ w = A[n + 1].saved[2]
  BY <1>2 DEF CallOK
<1>4. Writes(T, U, Contents, {}) /\ LastFrame(U)["last"] = v /\ LastFrame(U)["current_frame"] = w
  BY <1>1, <1>3, RestoreWrites
<1>5. LastFrame(U) = U.stack[L[n].d] /\ Len(U.globals) = Len(T.globals)
  BY <1>2, <1>4 DEF LastFrame, Writes
<1>6. PICK c \in Values, s \in Values : c = L[n].c /\ s = L[n + 1].s
  BY <1>1, LevelTypes
<1>7. PICK M : ChangedTo(L, M, n, c, s)
  BY DEF ChangedTo
<1>8. /\ M[n] = L[n] /\ M[n + 1] = [L[n + 1] EXCEPT !.c = c, !.s = s]
      /\ \A k \in 0 .. n : M[k] = L[k]
  BY <1>7 DEF ChangedTo
<1>9. /\ M[n + 1].d = L[n + 1].d /\ M[n + 1].g = L[n + 1].g /\ M[n + 1].last = L[n + 1].last
      /\ M[n + 1].current_frame = L[n + 1].current_frame /\ M[n + 1].c = c /\ M[n + 1].s = s
  <2>1. L[n + 1] \in Level
    BY <1>1 DEF Levels
  <2> QED
    BY <1>8, <2>1 DEF Level
<1>10. /\ B[n + 1].kind = A[n + 1].kind /\ B[n + 1].local = A[n + 1].local /\ B[n + 1].main = A[n + 1].main
       /\ B[n + 1].saved = A[n + 1].saved /\ B[n + 1].before = A[n + 1].before
       /\ B[n + 1].spoiled = A[n + 1].spoiled
       /\ \A i \in 1 .. n : B[i] = A[i]
  BY <1>1 DEF Changed
<1>11. LevelOK(M, B, n + 1)
  <2>1. CallOK(B[n + 1])
    BY <1>2, <1>10 DEF CallOK, Shaped, Runtime, Evaluated
  <2>2. B[n + 1].kind \notin Evaluated /\ B[n + 1].kind \in Runtime /\ B[n + 1].kind # "Import"
    BY <1>10 DEF Evaluated, Runtime
  <2>3. n + 1 > 1 => B[(n + 1) - 1] = A[(n + 1) - 1]
    BY <1>10
  <2>4. CallFrames(B[n + 1]) = CallFrames(A[n + 1]) /\ CallGlobals(B[n + 1]) = CallGlobals(A[n + 1])
    BY <1>10 DEF CallFrames, CallGlobals
  <2> QED
    BY <1>1, <1>2, <1>6, <1>8, <1>9, <1>10, <2>1, <2>2, <2>3, <2>4 DEF LevelOK
<1>12. Levels(M, B) /\ Moves(L, A, M, B)
  <2>1. LevelChanged(L, T, A, M, B, n, c, s)
    BY <1>7, <1>11, ChangedLevel
  <2> QED
    BY <2>1 DEF LevelChanged
<1>13. M[Len(B)].d = Len(T.stack) /\ M[Len(B)].g = Len(T.globals)
  BY <1>1, <1>2, <1>9
<1>14. Contents \cap ScriptNames = {} /\ {} \cap Contents = {} /\ "$MainScriptName$" \notin {}
  BY DEF Contents, ScriptNames
<1>15. MainSeen(M, U, B)
  <2>1. \A i \in 1 .. Len(A) : i <= Len(B) /\ B[i].main => B[i].file = A[i].file
    <3>1. \A i \in 1 .. Len(A) : i \in 1 .. n \/ i = n + 1
      OBVIOUS
    <3> QED
      BY <1>10, <3>1
  <2>2. ~(Len(B) > Len(A))
    BY <1>1
  <2> QED
    BY <1>4, <1>12, <1>13, <1>14, <2>1, <2>2, WriteMain
<1>16. ASSUME L[n].d \notin bad2 PROVE SeenAt(M, U, B, n + 1)
  <2>1. ~A[n + 1].spoiled
    BY <1>2, <1>16
  <2>2. w = c /\ v = A[n + 1].before[1]
    BY <1>1, <1>2, <1>3, <1>6, <2>1 DEF LevelOK
  <2>3. v # Unset /\ w # Unset
    BY <1>3, TheNames
  <2>4. U.stack[M[n + 1].d] = LastFrame(U) /\ M[n + 1].c = w /\ B[n + 1].before[1] = v
    BY <1>2, <1>5, <1>9, <1>10, <2>2
  <2> QED
    BY <1>4, <2>3, <2>4 DEF SeenAt, FrameSees
<1>17. ASSUME Right(L[n].g, mis) PROVE GlobalSees(U, L[n].g, "$ScriptName$", s)
  <2>1. GlobalSees(T, Len(T.globals), "$ScriptName$", s)
    BY <1>2, <1>6, <1>17
  <2>2. PICK G : G = {}
    OBVIOUS
  <2>3. "$ScriptName$" \in Names /\ "$ScriptName$" \notin G /\ Writes(T, U, Contents, G)
    BY <1>4, <2>2, TheNames DEF ScriptNames
  <2>4. GlobalSees(U, Len(U.globals), "$ScriptName$", s)
    BY <2>1, <2>3, WriteSees
  <2> QED
    BY <1>2, <1>5, <2>4
<1>18. ASSUME NEW k \in 1 .. n + 1, ~B[k].local, B[k].spoiled, M[k].d = M[n + 1].d PROVE M[k].d \in bad2
  <2>1. A[n + 1].spoiled
    <3>1. CASE k = n + 1
      BY <1>10, <1>18, <3>1
    <3>2. CASE k \in 1 .. n
      <4>1. k \in 0 .. n /\ k \in 1 .. n + 1
        BY <3>2
      <4>2. ~A[k].local /\ A[k].spoiled /\ L[k].d = L[n + 1].d
        BY <1>8, <1>9, <1>10, <1>18, <3>2, <4>1
      <4> QED
        BY <1>1, <4>1, <4>2 DEF Levels, Inherited
    <3> QED
      BY <3>1, <3>2
  <2> QED
    BY <1>2, <1>9, <1>18, <2>1
<1>19. TopOK(M, U, B, bad2, mis)
  BY <1>1, <1>2, <1>9, <1>16, <1>17, <1>18 DEF TopOK
<1>20. Worse(T, bad, mis, bad2, mis)
  <2>1. bad \subseteq 1 .. Len(T.stack) /\ mis \subseteq 0 .. Len(T.globals)
    BY DEF Fits
  <2>2. Len(T.stack) \in 1 .. Len(T.stack) /\ \A d \in 1 .. Len(T.stack) - 1 : d # Len(T.stack)
    BY <1>1
  <2> QED
    BY <2>1, <2>2 DEF Worse
<1>21. Len(B) > Len(A) => NewOK(M, U, B, mis)
  BY <1>1
<1>22. Fits(M, U, B, bad2, mis)
  BY <1>4, <1>12, <1>13, <1>14, <1>15, <1>19, <1>20, <1>21, WriteStep
<1> QED
  BY <1>22 DEF Fitting

-------------------------------------------------------------------------------

(* Files that are imported                                                 *)

\* What Named writes.
NameWrites(main) == IF main THEN ScriptNames ELSE {"$ScriptName$"}

\* The innermost global frame keeps the names that are not assigned.
LEMMA WrittenOnce ==
    ASSUME NEW T, NEW U, NEW S, NEW G, Writes(T, U, S, G), NEW name \in Names, name \notin G
    PROVE  GlobalFrame(U)[name] = GlobalFrame(T)[name]
<1>1. Len(U.globals) = Len(T.globals) /\ Len(T.globals) \in Nat
  BY TableParts DEF Writes
<1>2. /\ Len(T.globals) > 0 => U.globals[Len(T.globals)][name] = T.globals[Len(T.globals)][name]
      /\ U.top[name] = T.top[name]
  BY DEF Writes
<1> QED
  BY <1>1, <1>2 DEF GlobalFrame

\* An Import sets $ScriptName$, and $MainScriptName$ when it is the outermost one.
LEMMA NamedWrites ==
    ASSUME NEW T \in Tables, Len(T.stack) > 0, NEW file \in Values, NEW main \in BOOLEAN,
           NEW U, U = Named(T, file, main)
    PROVE  /\ Writes(T, U, {}, NameWrites(main))
           /\ GlobalSees(U, Len(U.globals), "$ScriptName$", file)
           /\ main => GlobalSees(U, Len(U.globals), "$MainScriptName$", file)
<1> PICK W : W = SetGlobal(T, "$ScriptName$", file)
  OBVIOUS
<1> PICK V : V = SetGlobal(W, "$MainScriptName$", file)
  OBVIOUS
<1>1. "$ScriptName$" \in Names /\ "$MainScriptName$" \in Names /\ file # Unset
  BY TheNames DEF ScriptNames
<1>2. Writes(T, W, {}, {"$ScriptName$"}) /\ GlobalFrame(W)["$ScriptName$"] = file
  BY <1>1, SetGlobalWrites
<1>3. W \in Tables /\ Len(W.stack) > 0
  BY <1>2 DEF Writes
<1>4. Writes(W, V, {}, {"$MainScriptName$"}) /\ GlobalFrame(V)["$MainScriptName$"] = file
  BY <1>1, <1>3, SetGlobalWrites
<1>5. CASE main
  <2>1. U = V
    BY <1>5 DEF Named
  <2>2. Writes(T, V, {} \cup {}, {"$ScriptName$"} \cup {"$MainScriptName$"})
    BY <1>2, <1>4, WritesTwice
  <2>3. {} \cup {} = {} /\ {"$ScriptName$"} \cup {"$MainScriptName$"} = NameWrites(main)
    BY <1>5 DEF NameWrites, ScriptNames
  <2>4. GlobalFrame(V)["$ScriptName$"] = file
    <3>1. PICK G : G = {"$MainScriptName$"}
      OBVIOUS
    <3>2. Writes(W, V, {}, G) /\ "$ScriptName$" \notin G
      BY <1>4, <3>1
    <3> QED
      BY <1>1, <1>2, <3>2, WrittenOnce
  <2>5. V \in Tables
    BY <1>4 DEF Writes
  <2>6. /\ GlobalSees(V, Len(V.globals), "$ScriptName$", file)
        /\ GlobalSees(V, Len(V.globals), "$MainScriptName$", file)
    BY <1>1, <1>4, <2>4, <2>5, GlobalSet
  <2>7. Writes(T, V, {}, NameWrites(main))
    BY <2>2, <2>3
  <2> QED
    BY <2>1, <2>6, <2>7
<1>6. CASE ~main
  <2>1. U = W
    BY <1>6 DEF Named
  <2>2. GlobalSees(W, Len(W.globals), "$ScriptName$", file)
    BY <1>1, <1>2, <1>3, GlobalSet
  <2> QED
    BY <1>2, <1>6, <2>1, <2>2 DEF NameWrites
<1> QED
  BY <1>5, <1>6

\* An import goes on with its next file.
LEMMA NextFile ==
    ASSUME NEW L, NEW T, NEW A, NEW bad, NEW mis, Fits(L, T, A, bad, mis),
           NEW B \in Seq(Calls), Changed(A, B), NEW n \in Nat, n + 1 = Len(A),
           A[n + 1].kind = "Import", B[n + 1].phase = A[n + 1].phase, A[n + 1].main \in BOOLEAN,
           NEW file \in Values, B[n + 1].file = file,
           NEW U, U = Named(T, file, A[n + 1].main)
    PROVE  Fitting(U, B, bad, mis)
<1>1. /\ Len(A) \in Nat /\ Levels(L, A) /\ T \in Tables /\ Len(T.stack) > 0 /\ Len(T.stack) \in Nat
      /\ n + 1 \in 1 .. Len(A) /\ n \in 0 .. Len(A) /\ n + 1 \in 0 .. Len(A) /\ (n + 1) - 1 = n
      /\ Len(B) = n + 1
  BY FitsParts DEF Changed
<1>2. LevelOK(L, A, n + 1) /\ CallOK(A[n + 1])
  BY <1>1 DEF Levels, LevelOK
<1>3. ~A[n + 1].local /\ A[n + 1].phase = "script"
  BY <1>2 DEF CallOK, Evaluated
<1>4. /\ L[n].d = Len(T.stack) /\ L[n].g = Len(T.globals)
      /\ L[n + 1].d = L[n].d /\ L[n + 1].g = L[n].g
      /\ L[n].d \notin bad => SeenAt(L, T, A, n + 1)
  BY <1>1, <1>3, TwoLevels
<1>5. PICK G : G = NameWrites(A[n + 1].main)
  OBVIOUS
<1>6. /\ Writes(T, U, {}, G)
      /\ GlobalSees(U, Len(U.globals), "$ScriptName$", file)
      /\ A[n + 1].main => GlobalSees(U, Len(U.globals), "$MainScriptName$", file)
  BY <1>1, <1>5, NamedWrites
<1>7. Len(U.globals) = L[n].g /\ LastFrame(U) = U.stack[L[n].d] /\ LastFrame(T) = T.stack[L[n].d]
  BY <1>4, <1>6 DEF LastFrame, Writes
<1>8. PICK c \in Values : c = L[n + 1].c
  BY <1>1, LevelTypes
<1>9. PICK M : ChangedTo(L, M, n, c, file)
  BY DEF ChangedTo
<1>10. M[n] = L[n] /\ M[n + 1] = [L[n + 1] EXCEPT !.c = c, !.s = file]
  BY <1>9 DEF ChangedTo
<1>11. /\ M[n + 1].d = L[n + 1].d /\ M[n + 1].g = L[n + 1].g /\ M[n + 1].last = L[n + 1].last
       /\ M[n + 1].current_frame = L[n + 1].current_frame /\ M[n + 1].c = c /\ M[n + 1].s = file
  <2>1. L[n + 1] \in Level
    BY <1>1 DEF Levels
  <2> QED
    BY <1>10, <2>1 DEF Level
<1>12. /\ B[n + 1].kind = A[n + 1].kind /\ B[n + 1].local = A[n + 1].local /\ B[n + 1].main = A[n + 1].main
       /\ B[n + 1].saved = A[n + 1].saved /\ B[n + 1].before = A[n + 1].before
       /\ B[n + 1].spoiled = A[n + 1].spoiled
       /\ \A i \in 1 .. n : B[i] = A[i]
  BY <1>1 DEF Changed
<1>13. LevelOK(M, B, n + 1)
  <2>1. CallOK(B[n + 1])
    BY <1>2, <1>12 DEF CallOK, Shaped, Runtime, Evaluated
  <2>2. B[n + 1].kind \notin Runtime \cup {"EvalOop", "UseVar"}
    BY <1>12 DEF Runtime
  <2>3. n + 1 > 1 => B[(n + 1) - 1] = A[(n + 1) - 1]
    BY <1>12
  <2>4. CallFrames(B[n + 1]) = CallFrames(A[n + 1]) /\ CallGlobals(B[n + 1]) = CallGlobals(A[n + 1])
    BY <1>12 DEF CallFrames, CallGlobals
  <2> QED
    BY <1>1, <1>2, <1>8, <1>10, <1>11, <1>12, <2>1, <2>2, <2>3, <2>4 DEF LevelOK
<1>14. Levels(M, B) /\ Moves(L, A, M, B)
  <2>1. LevelChanged(L, T, A, M, B, n, c, file)
    BY <1>9, <1>13, ChangedLevel
  <2> QED
    BY <2>1 DEF LevelChanged
<1>15. M[Len(B)].d = Len(T.stack) /\ M[Len(B)].g = Len(T.globals)
  BY <1>1, <1>4, <1>11
<1>16. {} \cap ScriptNames = {} /\ G \cap Contents = {}
  BY <1>5 DEF Contents, ScriptNames, NameWrites
<1>17. MainSeen(M, U, B)
  <2>1. CASE ~A[n + 1].main
    <3>1. \A i \in 1 .. Len(A) : i <= Len(B) /\ B[i].main => B[i].file = A[i].file
      <4>1. \A i \in 1 .. Len(A) : i \in 1 .. n \/ i = n + 1
        OBVIOUS
      <4> QED
        BY <1>12, <2>1, <4>1
    <3>2. ~(Len(B) > Len(A))
      BY <1>1
    <3>3. "$MainScriptName$" \notin G
      BY <1>5, <2>1 DEF NameWrites
    <3> QED
      BY <1>6, <1>14, <1>15, <1>16, <3>1, <3>2, <3>3, WriteMain
  <2>2. CASE A[n + 1].main
    <3>1. \A j \in 1 .. n : A[j].kind # "Import"
      BY <1>1, <2>2 DEF Fits, MainSeen
    <3>2. ASSUME NEW i \in 1 .. Len(B), B[i].main PROVE i = n + 1
      <4>1. i \in 1 .. n \/ i = n + 1
        BY <1>1
      <4>2. ASSUME i \in 1 .. n PROVE FALSE
        <5>1. A[i].main /\ i \in 1 .. Len(A)
          BY <1>1, <1>12, <3>2, <4>2
        <5>2. A[i].kind = "Import"
          BY <1>1, <5>1 DEF Levels, LevelOK, CallOK
        <5> QED
          BY <3>1, <4>2, <5>2
      <4> QED
        BY <4>1, <4>2
    <3>3. GlobalSees(U, M[n + 1].g, "$MainScriptName$", B[n + 1].file)
      BY <1>4, <1>6, <1>7, <1>11, <2>2
    <3>4. \A k \in n + 1 .. Len(B) : k = n + 1
      BY <1>1
    <3>5. \A j \in 1 .. n + 1 - 1 : j \in 1 .. n
      OBVIOUS
    <3>6. \A j \in 1 .. n + 1 - 1 : B[j].kind # "Import"
      BY <1>12, <3>1, <3>5
    <3> QED
      BY <3>2, <3>3, <3>4, <3>6 DEF MainSeen
  <2> QED
    BY <2>1, <2>2
<1>18. ASSUME L[n].d \notin bad PROVE SeenAt(M, U, B, n + 1)
  <2>1. LastFrame(U)["current_frame"] = LastFrame(T)["current_frame"]
    BY <1>6, TheNames DEF Writes, Contents
  <2>2. ~Resting(B[n + 1])
    BY <1>3 DEF Resting
  <2>3. SeenAt(L, T, A, n + 1)
    BY <1>4, <1>18
  <2>4. U.stack[M[n + 1].d]["current_frame"] = T.stack[L[n + 1].d]["current_frame"]
    BY <1>4, <1>7, <1>11, <2>1
  <2>5. M[n + 1].current_frame = L[n + 1].current_frame /\ M[n + 1].c = L[n + 1].c
    BY <1>8, <1>11
  <2> QED
    BY <2>2, <2>3, <2>4, <2>5 DEF SeenAt, FrameSees
<1>19. GlobalSees(U, L[n].g, "$ScriptName$", file)
  BY <1>6, <1>7
<1>20. ASSUME NEW k \in 1 .. n + 1, ~B[k].local, B[k].spoiled, M[k].d = M[n + 1].d PROVE M[k].d \in bad
  <2>1. k \in 1 .. Len(A) /\ (k = n + 1 \/ (k \in 1 .. n /\ k \in 0 .. n))
    BY <1>1
  <2>2. M[k].d = L[k].d
    <3>1. k \in 0 .. n => M[k] = L[k]
      BY <1>9 DEF ChangedTo
    <3> QED
      BY <1>11, <2>1, <3>1
  <2>3. ~A[k].local /\ A[k].spoiled
    BY <1>12, <1>20, <2>1
  <2> QED
    BY <2>1, <2>2, <2>3 DEF Fits, SpoiledOK
<1>21. TopOK(M, U, B, bad, mis)
  BY <1>1, <1>4, <1>11, <1>18, <1>19, <1>20 DEF TopOK
<1>22. Worse(T, bad, mis, bad, mis)
  BY DEF Fits, Worse
<1>23. Len(B) > Len(A) => NewOK(M, U, B, mis)
  BY <1>1
<1>24. Fits(M, U, B, bad, mis)
  BY <1>6, <1>14, <1>15, <1>16, <1>17, <1>21, <1>22, <1>23, WriteStep
<1> QED
  BY <1>24 DEF Fitting

-------------------------------------------------------------------------------

(* Calls begin                                                             *)

\* B is A with one more call.
Entered(A, B, n) == /\ n = Len(A) /\ n + 1 = Len(B)
                    /\ \A i \in 1 .. n : B[i] = A[i]

\* M is L with one more level.
OnTop(L, M, n, l) == M = [k \in 0 .. n + 1 |-> IF k = n + 1 THEN l ELSE L[k]]

TopAdded(L, A, M, B, n, l) ==
    /\ Levels(M, B) /\ Moves(L, A, M, B)
    /\ M[n + 1] = l /\ \A k \in 0 .. n : M[k] = L[k]

\* A level for a new call can be added.
LEMMA NewTop ==
    ASSUME NEW L, NEW A, Len(A) \in Nat, Levels(L, A), NEW n \in Nat, NEW B, Entered(A, B, n),
           NEW l \in Level, NEW M, OnTop(L, M, n, l),
           LevelOK(M, B, n + 1), Inherits(M, B, n + 1)
    PROVE  TopAdded(L, A, M, B, n, l)
<1>1. Len(A) = n /\ Len(B) = n + 1 /\ \A i \in 1 .. n : B[i] = A[i]
  BY DEF Entered
<1>2. M[n + 1] = l /\ (\A k \in 0 .. n : M[k] = L[k]) /\ \A k \in 1 .. n : k \in 0 .. n
  BY DEF OnTop
<1>3. Levels(M, B)
  <2>1. PICK m \in Nat \ {0} : m = n + 1
    OBVIOUS
  <2>2. L \in [0 .. n -> Level]
    BY <1>1 DEF Levels
  <2>3. M \in [0 .. m -> Level]
    BY <2>1, <2>2 DEF OnTop
  <2>4. m = Len(B) /\ m \in {Len(A), Len(A) + 1} /\ LevelOK(M, B, m) /\ Inherits(M, B, m)
    BY <1>1, <2>1
  <2>5. (\A i \in 0 .. m - 1 : M[i] = L[i]) /\ \A i \in 1 .. m - 1 : B[i] = A[i]
    BY <1>1, <1>2, <2>1
  <2> QED
    BY <2>3, <2>4, <2>5, NewLevel
<1>4. Moves(L, A, M, B)
  <2>1. Len(B) = Len(A) + 1 /\ \A i \in 0 .. Len(A) : i > 0 => i \in 1 .. n
    BY <1>1
  <2> QED
    BY <1>1, <1>2, <2>1 DEF Moves
<1> QED
  BY <1>2, <1>3, <1>4 DEF TopAdded

\* What the level on top of A knows, and what Get finds there.
LEMMA TopLevel ==
    ASSUME NEW L, NEW T, NEW A, NEW bad, NEW mis, Fits(L, T, A, bad, mis), NEW n \in Nat, n = Len(A)
    PROVE  /\ L[n].d = Len(T.stack) /\ L[n].g = Len(T.globals)
           /\ L[n].d \notin bad => /\ SeenAt(L, T, A, n)
                                   /\ Get(T, "current_frame") = L[n].c
                                   /\ n > 0 /\ Resting(A[n]) => Get(T, "last") = A[n].before[1]
           /\ GlobalSees(T, L[n].g, "last", L[n].last)
           /\ GlobalSees(T, L[n].g, "current_frame", L[n].current_frame)
           /\ Right(L[n].g, mis) => /\ GlobalSees(T, L[n].g, "$ScriptName$", L[n].s)
                                    /\ Get(T, "$ScriptName$") = L[n].s
<1>1. /\ n \in 0 .. Len(A) /\ L[n].d = Len(T.stack) /\ L[n].g = Len(T.globals)
      /\ T \in Tables /\ Len(T.stack) > 0 /\ TableOK(L, T, A) /\ Len(T.stack) \in Nat
  BY FitsParts
<1>2. GlobalSees(T, L[n].g, "last", L[n].last) /\ GlobalSees(T, L[n].g, "current_frame", L[n].current_frame)
  BY <1>1 DEF Fits, SeenGlobally
<1>3. "last" \in Names /\ "current_frame" \in Names /\ "$ScriptName$" \in Names
  BY TheNames DEF Contents, ScriptNames
<1>4. LastFrame(T) = T.stack[L[n].d]
  BY <1>1 DEF LastFrame
<1>5. ASSUME L[n].d \notin bad
      PROVE  /\ SeenAt(L, T, A, n)
             /\ Get(T, "current_frame") = L[n].c
             /\ n > 0 /\ Resting(A[n]) => Get(T, "last") = A[n].before[1]
  <2>1. SeenAt(L, T, A, n)
    BY <1>1, <1>5 DEF Fits, Seen
  <2>2. PICK seen, v : seen = L[n].current_frame /\ v = L[n].c
    OBVIOUS
  <2>3. GlobalSees(T, Len(T.globals), "current_frame", seen) /\ FrameSees(LastFrame(T), seen, "current_frame", v)
    BY <1>1, <1>2, <1>4, <2>1, <2>2 DEF SeenAt
  <2>4. Get(T, "current_frame") = v
    BY <1>1, <1>3, <2>3, GetIs
  <2>5. ASSUME n > 0, Resting(A[n]) PROVE Get(T, "last") = A[n].before[1]
    <3>1. PICK seen2, v2 : seen2 = L[n].last /\ v2 = A[n].before[1]
      OBVIOUS
    <3>2. GlobalSees(T, Len(T.globals), "last", seen2) /\ FrameSees(LastFrame(T), seen2, "last", v2)
      BY <1>1, <1>2, <1>4, <2>1, <2>5, <3>1 DEF SeenAt
    <3>3. Get(T, "last") = v2
      BY <1>1, <1>3, <3>2, GetIs
    <3> QED
      BY <3>1, <3>3
  <2> QED
    BY <2>1, <2>2, <2>4, <2>5
<1>6. ASSUME Right(L[n].g, mis)
      PROVE  /\ GlobalSees(T, L[n].g, "$ScriptName$", L[n].s)
             /\ Get(T, "$ScriptName$") = L[n].s
  <2>1. GlobalSees(T, L[n].g, "$ScriptName$", L[n].s)
    BY <1>1, <1>6 DEF Fits, NameSeen
  <2>2. PICK v : v = L[n].s
    OBVIOUS
  <2>3. LastFrame(T)["$ScriptName$"] = Unset
    <3>1. Len(T.stack) \in 1 .. Len(T.stack) /\ "$ScriptName$" \in ScriptNames
      BY <1>1 DEF ScriptNames
    <3> QED
      BY <1>1, <3>1 DEF TableOK, LastFrame
  <2>4. GlobalSees(T, Len(T.globals), "$ScriptName$", v) /\ FrameSees(LastFrame(T), v, "$ScriptName$", v)
    BY <1>1, <2>1, <2>2, <2>3 DEF FrameSees
  <2>5. Get(T, "$ScriptName$") = v
    BY <1>1, <1>3, <2>4, GetIs
  <2> QED
    BY <2>1, <2>2, <2>5
<1> QED
  BY <1>1, <1>2, <1>5, <1>6

-------------------------------------------------------------------------------

\* A call without frames of its own, as it begins.
NewCall(T, A, n, a, bad) ==
    /\ CallOK(a) /\ ~a.local /\ a.phase # "after" /\ a.n \in Values /\ a.file \in Values
    /\ a.kind \in Evaluated /\ n > 0 => A[n].phase = "script"
    /\ a.spoiled = (Len(T.stack) \in bad)
    /\ a.kind \in Runtime \cup {"EvalOop", "UseVar"} =>
          a.before[1] = Get(T, "last") /\ a.before[2] = Get(T, "current_frame")
    /\ a.kind \in Runtime \cup {"EvalOop"} => a.saved = a.before

SharedLevel(l, L, n, a) ==
    /\ l.d = L[n].d /\ l.g = L[n].g /\ l.last = L[n].last /\ l.current_frame = L[n].current_frame
    /\ l.c = IF a.kind \in Runtime THEN a.n ELSE L[n].c
    /\ l.s = IF a.kind = "Import" THEN a.file ELSE L[n].s

\* The level of a new call without frames of its own.
LEMMA SharedTop ==
    ASSUME NEW L, NEW T, NEW A, NEW bad, NEW mis, Fits(L, T, A, bad, mis), NEW n \in Nat,
           NEW B, Entered(A, B, n), NewCall(T, A, n, B[n + 1], bad)
    PROVE  \E l \in Level : \E M : SharedLevel(l, L, n, B[n + 1]) /\ TopAdded(L, A, M, B, n, l)
<1>1. /\ Len(A) = n /\ Len(B) = n + 1 /\ (\A i \in 1 .. n : B[i] = A[i]) /\ Levels(L, A) /\ Len(A) \in Nat
      /\ n \in 0 .. Len(A) /\ (n + 1) - 1 = n /\ (n + 1 > 1 <=> n > 0) /\ (n > 0 => n \in 1 .. n)
  BY FitsParts DEF Entered
<1>2. PICK a : a = B[n + 1]
  OBVIOUS
<1>3. NewCall(T, A, n, a, bad)
  BY <1>2
<1>4. /\ L[n].d \in Nat \ {0} /\ L[n].g \in Nat /\ L[n].last \in Values /\ L[n].current_frame \in Values
      /\ L[n].c \in Values /\ L[n].s \in Values
  BY <1>1, LevelTypes
<1>5. PICK l : l = [d |-> L[n].d, g |-> L[n].g, last |-> L[n].last, current_frame |-> L[n].current_frame,
                    c |-> IF a.kind \in Runtime THEN a.n ELSE L[n].c,
                    s |-> IF a.kind = "Import" THEN a.file ELSE L[n].s]
  OBVIOUS
<1>6. l \in Level /\ SharedLevel(l, L, n, a)
  <2>1. a.n \in Values /\ a.file \in Values
    BY <1>3 DEF NewCall
  <2> QED
    BY <1>4, <1>5, <2>1 DEF Level, SharedLevel
<1>7. PICK M : OnTop(L, M, n, l)
  BY DEF OnTop
<1>8. M[n + 1] = l /\ M[n] = L[n] /\ \A k \in 0 .. n : M[k] = L[k]
  BY <1>7 DEF OnTop
<1>9. CallFrames(a) = 0 /\ CallGlobals(a) = 0
  BY <1>3 DEF CallFrames, CallGlobals, NewCall
<1>10. L[n].d = L[n].d + CallFrames(a) /\ L[n].g = L[n].g + CallGlobals(a)
  BY <1>4, <1>9
<1>11. ASSUME ~a.spoiled
       PROVE  Get(T, "current_frame") = L[n].c /\ (n > 0 /\ Resting(A[n]) => Get(T, "last") = A[n].before[1])
  <2>1. L[n].d = Len(T.stack)
    BY <1>1, TopLevel
  <2>2. L[n].d \notin bad
    BY <1>3, <1>11, <2>1 DEF NewCall
  <2> QED
    BY <1>1, <2>2, TopLevel
<1>12. LevelOK(M, B, n + 1)
  <2>1. ~a.local /\ a.phase # "after" /\ CallOK(a)
    BY <1>3 DEF NewCall
  <2>2. a.kind \in Evaluated /\ n + 1 > 1 => B[n].phase = "script"
    BY <1>1, <1>3 DEF NewCall
  <2>3. /\ l.d = L[n].d + CallFrames(a) /\ l.g = L[n].g + CallGlobals(a)
        /\ l.current_frame = L[n].current_frame /\ l.last = L[n].last
        /\ l.c = IF a.kind \in Runtime THEN a.n ELSE L[n].c
        /\ l.s = IF a.kind = "Import" THEN a.file ELSE L[n].s
    BY <1>6, <1>10 DEF SharedLevel
  <2>4. a.kind \in Runtime \cup {"EvalOop"} => a.saved = a.before
    BY <1>3 DEF NewCall
  <2>5. ASSUME a.kind \in Runtime \cup {"EvalOop", "UseVar"}, ~a.spoiled
        PROVE  a.before[2] = L[n].c /\ (n + 1 > 1 /\ Resting(B[n]) => a.before[1] = B[n].before[1])
    BY <1>1, <1>3, <1>11, <2>5 DEF NewCall
  <2> QED
    BY <1>1, <1>2, <1>8, <2>1, <2>2, <2>3, <2>4, <2>5 DEF LevelOK
<1>13. Inherits(M, B, n + 1)
  <2>1. ASSUME NEW i \in 1 .. n, ~B[i].local, M[i].d = M[n + 1].d, B[i].spoiled PROVE a.spoiled
    <3>1. i \in 1 .. Len(A) /\ i \in 0 .. n
      BY <1>1
    <3>2. ~A[i].local /\ A[i].spoiled /\ L[i].d = L[n].d /\ L[n].d = Len(T.stack)
      BY <1>1, <1>6, <1>8, <2>1, <3>1, TopLevel DEF SharedLevel
    <3>3. L[i].d \in bad
      BY <3>1, <3>2 DEF Fits, SpoiledOK
    <3> QED
      BY <1>3, <3>2, <3>3 DEF NewCall
  <2> QED
    BY <1>1, <1>2, <2>1 DEF Inherits
<1>14. TopAdded(L, A, M, B, n, l)
  BY <1>1, <1>6, <1>7, <1>12, <1>13, NewTop
<1> QED
  BY <1>2, <1>6, <1>14

\* What such a call writes as it begins.
CallWrites(T, U, a, S, G) ==
    /\ Writes(T, U, S, G) /\ S \subseteq Contents \cup {"x"} /\ G \subseteq ScriptNames \cup {"x"}
    /\ IF a.kind \in Runtime THEN LastFrame(U)["current_frame"] = a.n ELSE "current_frame" \notin S
    /\ a.kind = "UseVar" => "last" \notin S
    /\ IF a.kind = "Import"
       THEN a.saved[1] = Get(T, "$ScriptName$") /\ GlobalSees(U, Len(U.globals), "$ScriptName$", a.file)
       ELSE "$ScriptName$" \notin G
    /\ IF a.main
       THEN GlobalSees(U, Len(U.globals), "$MainScriptName$", a.file)
       ELSE "$MainScriptName$" \notin G

\* A call without frames of its own begins.
LEMMA EnterShared ==
    ASSUME NEW L, NEW T, NEW A, NEW bad, NEW mis, Fits(L, T, A, bad, mis), NEW n \in Nat,
           NEW B \in Seq(Calls), Entered(A, B, n), NewCall(T, A, n, B[n + 1], bad),
           NEW U, NEW S, NEW G, CallWrites(T, U, B[n + 1], S, G),
           B[n + 1].main => \A i \in 1 .. n : A[i].kind # "Import"
    PROVE  Fitting(U, B, bad, mis)
<1>1. /\ Len(A) = n /\ Len(B) = n + 1 /\ (\A i \in 1 .. n : B[i] = A[i]) /\ Levels(L, A) /\ Len(A) \in Nat
      /\ n \in 0 .. Len(A) /\ n \in 0 .. n /\ (n + 1) - 1 = n /\ (n > 0 => n \in 1 .. n)
      /\ T \in Tables /\ Len(T.stack) > 0
  BY FitsParts DEF Entered
<1>2. PICK a : a = B[n + 1]
  OBVIOUS
<1>3. NewCall(T, A, n, a, bad) /\ CallWrites(T, U, a, S, G)
  BY <1>2
<1>4. /\ CallOK(a) /\ ~a.local /\ a.phase # "after" /\ a.n \in Values /\ a.file \in Values
      /\ a.spoiled = (Len(T.stack) \in bad)
  BY <1>3 DEF NewCall
<1>50. PICK l \in Level : \E M : SharedLevel(l, L, n, a) /\ TopAdded(L, A, M, B, n, l)
  BY <1>2, SharedTop
<1>5. PICK M : SharedLevel(l, L, n, a) /\ TopAdded(L, A, M, B, n, l)
  BY <1>50
<1>6. Levels(M, B) /\ Moves(L, A, M, B) /\ M[n + 1] = l /\ \A k \in 0 .. n : M[k] = L[k]
  BY <1>5 DEF TopAdded
<1>7. PICK d \in Nat \ {0}, g \in Nat : d = Len(T.stack) /\ g = Len(T.globals)
  BY FitsParts
<1>8. Writes(T, U, S, G) /\ Len(U.stack) = d /\ Len(U.globals) = g /\ LastFrame(U) = U.stack[d] /\ LastFrame(T) = T.stack[d]
  BY <1>3, <1>7 DEF CallWrites, Writes, LastFrame
<1>9. L[n].d = d /\ L[n].g = g /\ l.d = d /\ l.g = g
  BY <1>1, <1>5, <1>7, TopLevel DEF SharedLevel
<1>10. S \cap ScriptNames = {} /\ G \cap Contents = {}
  BY <1>3 DEF CallWrites, Contents, ScriptNames
<1>11. M[Len(B)].d = Len(T.stack) /\ M[Len(B)].g = Len(T.globals)
  BY <1>1, <1>6, <1>7, <1>9
<1>12. MainSeen(M, U, B)
  <2>1. CASE ~a.main
    <3>1. "$MainScriptName$" \notin G
      BY <1>3, <2>1 DEF CallWrites
    <3>2. \A i \in 1 .. Len(A) : i <= Len(B) /\ B[i].main => B[i].file = A[i].file
      BY <1>1
    <3>3. Len(B) > Len(A) => ~B[Len(B)].main /\ CallGlobals(B[Len(B)]) = 0
      BY <1>1, <1>2, <1>4, <2>1 DEF CallGlobals
    <3> QED
      BY <1>6, <1>8, <1>10, <1>11, <3>1, <3>2, <3>3, WriteMain
  <2>2. CASE a.main
    <3>1. \A j \in 1 .. n : A[j].kind # "Import"
      BY <1>2, <2>2
    <3>2. ASSUME NEW i \in 1 .. Len(B), B[i].main PROVE i = n + 1
      <4>1. i \in 1 .. n \/ i = n + 1
        BY <1>1
      <4>2. ASSUME i \in 1 .. n PROVE FALSE
        <5>1. A[i].main /\ i \in 1 .. Len(A)
          BY <1>1, <3>2, <4>2
        <5>2. A[i].kind = "Import"
          BY <1>1, <5>1 DEF Levels, LevelOK, CallOK
        <5> QED
          BY <3>1, <4>2, <5>2
      <4> QED
        BY <4>1, <4>2
    <3>3. GlobalSees(U, M[n + 1].g, "$MainScriptName$", B[n + 1].file)
      BY <1>2, <1>3, <1>6, <1>8, <1>9, <2>2 DEF CallWrites
    <3>4. \A k \in n + 1 .. Len(B) : k = n + 1
      BY <1>1
    <3>5. \A j \in 1 .. n + 1 - 1 : j \in 1 .. n
      OBVIOUS
    <3>6. \A j \in 1 .. n + 1 - 1 : B[j].kind # "Import"
      BY <1>1, <3>1, <3>5
    <3> QED
      BY <3>2, <3>3, <3>4, <3>6 DEF MainSeen
  <2> QED
    BY <2>1, <2>2
<1>13. ASSUME NEW name \in Contents PROVE \A v : GlobalSees(T, g, name, v) => GlobalSees(U, g, name, v)
  <2>1. name \in Names /\ name \notin G
    BY <1>10, TheNames
  <2> QED
    BY <1>7, <1>8, <2>1, WriteSees
<1>14. /\ GlobalSees(T, g, "last", l.last) /\ GlobalSees(U, g, "last", l.last)
       /\ GlobalSees(U, g, "current_frame", l.current_frame)
  <2>1. GlobalSees(T, g, "last", l.last) /\ GlobalSees(T, g, "current_frame", l.current_frame)
    BY <1>1, <1>5, <1>9, TopLevel DEF SharedLevel
  <2>2. "last" \in Contents /\ "current_frame" \in Contents
    BY DEF Contents
  <2> QED
    BY <1>13, <2>1, <2>2
<1>15. ASSUME d \notin bad PROVE SeenAt(M, U, B, n + 1)
  <2>1. FrameSees(U.stack[d], l.current_frame, "current_frame", l.c)
    <3>1. CASE a.kind \in Runtime
      <4>1. LastFrame(U)["current_frame"] = a.n /\ l.c = a.n /\ a.n # Unset
        BY <1>3, <1>4, <1>5, <3>1, TheNames DEF CallWrites, SharedLevel
      <4> QED
        BY <1>8, <4>1 DEF FrameSees
    <3>2. CASE a.kind \notin Runtime
      <4>1. "current_frame" \in Names \ S /\ l.c = L[n].c /\ l.current_frame = L[n].current_frame
        BY <1>3, <1>5, <3>2, TheNames DEF CallWrites, SharedLevel, Contents
      <4>2. LastFrame(U)["current_frame"] = LastFrame(T)["current_frame"]
        BY <1>8, <4>1 DEF Writes
      <4>3. SeenAt(L, T, A, n)
        BY <1>1, <1>9, <1>15, TopLevel
      <4>4. FrameSees(T.stack[d], L[n].current_frame, "current_frame", L[n].c)
        BY <1>9, <4>3 DEF SeenAt
      <4> QED
        BY <1>8, <4>1, <4>2, <4>4 DEF FrameSees
    <3> QED
      BY <3>1, <3>2
  <2>2. ASSUME Resting(a) PROVE FrameSees(U.stack[d], l.last, "last", a.before[1])
    <3>1. a.kind = "UseVar"
      BY <1>4, <2>2 DEF Resting, CallOK, Kinds, Evaluated
    <3>2. "last" \in Names \ S /\ "last" \in Names /\ a.before[1] = Get(T, "last")
      BY <1>3, <3>1, TheNames DEF CallWrites, NewCall, Contents
    <3>3. LastFrame(U)["last"] = LastFrame(T)["last"]
      BY <1>8, <3>2 DEF Writes
    <3>4. PICK seen : seen = l.last
      OBVIOUS
    <3>5. GlobalSees(T, Len(T.globals), "last", seen)
      BY <1>7, <1>14, <3>4
    <3>6. FrameSees(LastFrame(T), seen, "last", Get(T, "last"))
      BY <1>1, <3>2, <3>5, GetBehind
    <3> QED
      BY <1>8, <3>2, <3>3, <3>4, <3>6 DEF FrameSees
  <2> QED
    BY <1>2, <1>6, <1>9, <2>1, <2>2 DEF SeenAt
<1>16. ASSUME Right(g, mis) PROVE GlobalSees(U, g, "$ScriptName$", l.s)
  <2>1. CASE a.kind = "Import"
    BY <1>3, <1>5, <1>8, <2>1 DEF CallWrites, SharedLevel
  <2>2. CASE a.kind # "Import"
    <3>1. "$ScriptName$" \in Names /\ "$ScriptName$" \notin G /\ l.s = L[n].s
      BY <1>3, <1>5, <2>2, TheNames DEF CallWrites, SharedLevel, ScriptNames
    <3>2. PICK v : v = l.s
      OBVIOUS
    <3>3. GlobalSees(T, Len(T.globals), "$ScriptName$", v)
      BY <1>1, <1>7, <1>9, <1>16, <3>1, <3>2, TopLevel
    <3>4. GlobalSees(U, Len(U.globals), "$ScriptName$", v)
      BY <1>8, <3>1, <3>3, WriteSees
    <3> QED
      BY <1>8, <3>2, <3>4
  <2> QED
    BY <2>1, <2>2
<1>17. ASSUME NEW k \in 1 .. n + 1, ~B[k].local, B[k].spoiled, M[k].d = M[n + 1].d PROVE M[k].d \in bad
  <2>1. CASE k = n + 1
    BY <1>2, <1>4, <1>6, <1>7, <1>9, <1>17, <2>1
  <2>2. CASE k \in 1 .. n
    <3>1. k \in 0 .. n /\ k \in 1 .. Len(A)
      BY <1>1, <2>2
    <3> QED
      BY <1>1, <1>6, <1>17, <2>2, <3>1 DEF Fits, SpoiledOK
  <2> QED
    BY <2>1, <2>2
<1>18. TopOK(M, U, B, bad, mis)
  BY <1>1, <1>6, <1>9, <1>15, <1>16, <1>17 DEF TopOK
<1>19. NewOK(M, U, B, mis)
  <2>1. KeptAt(M, U, B, n + 1)
    BY <1>2, <1>4 DEF KeptAt
  <2>2. ASSUME a.kind = "Import", Right(g, mis) PROVE SavedName(M, B, n + 1)
    <3>1. a.saved[1] = Get(T, "$ScriptName$") /\ Get(T, "$ScriptName$") = L[n].s
      BY <1>1, <1>3, <1>9, <2>2, TopLevel DEF CallWrites
    <3> QED
      BY <1>1, <1>2, <1>6, <3>1 DEF SavedName
  <2> QED
    BY <1>1, <1>2, <1>6, <1>9, <1>14, <2>1, <2>2 DEF NewOK
<1>20. Worse(T, bad, mis, bad, mis)
  BY DEF Fits, Worse
<1>21. Fits(M, U, B, bad, mis)
  BY <1>6, <1>8, <1>10, <1>11, <1>12, <1>18, <1>19, <1>20, WriteStep
<1> QED
  BY <1>21 DEF Fitting

-------------------------------------------------------------------------------

\* A call with frames of its own, as it begins.
OwnCall(T, A, n, a) ==
    /\ CallOK(a) /\ a.local /\ a.n \in Values
    /\ a.kind \in Evaluated /\ n > 0 => A[n].phase = "script"
    /\ a.before[1] = T.stack[Len(T.stack)]
    /\ a.kind # "function" => a.before[2] = T.globals /\ a.before[3] = T.top

\* What it finds globally.
OwnGlobals(U, a, child) ==
    /\ a.kind \in Runtime => GlobalFrame(U)["last"] = child /\ GlobalFrame(U)["current_frame"] = a.n
    /\ a.kind = "UseVar" => GlobalFrame(U)["last"] = Unset /\ GlobalFrame(U)["current_frame"] = Unset

OwnLevel(l, L, n, a, child) ==
    /\ l.d = L[n].d + CallFrames(a) /\ l.g = L[n].g + CallGlobals(a) /\ l.s = L[n].s
    /\ l.last = IF a.kind \in Runtime THEN child ELSE L[n].last
    /\ l.current_frame = IF a.kind \in Runtime THEN a.n ELSE L[n].current_frame
    /\ l.c = l.current_frame

\* The level of a new call with frames of its own.
LEMMA OwnTop ==
    ASSUME NEW L, NEW T, NEW A, NEW bad, NEW mis, Fits(L, T, A, bad, mis), NEW n \in Nat,
           NEW B, Entered(A, B, n), OwnCall(T, A, n, B[n + 1]), NEW child \in Values
    PROVE  \E l \in Level : \E M : OwnLevel(l, L, n, B[n + 1], child) /\ TopAdded(L, A, M, B, n, l)
<1>1. /\ Len(A) = n /\ Len(B) = n + 1 /\ (\A i \in 1 .. n : B[i] = A[i]) /\ Levels(L, A) /\ Len(A) \in Nat
      /\ n \in 0 .. Len(A) /\ (n + 1) - 1 = n /\ (n + 1 > 1 <=> n > 0) /\ (n > 0 => n \in 1 .. n)
  BY FitsParts DEF Entered
<1>2. PICK a : a = B[n + 1]
  OBVIOUS
<1>3. CallOK(a) /\ a.local /\ a.n \in Values /\ (a.kind \in Evaluated /\ n > 0 => A[n].phase = "script")
  BY <1>2 DEF OwnCall
<1>4. /\ L[n].d \in Nat \ {0} /\ L[n].g \in Nat /\ L[n].last \in Values /\ L[n].current_frame \in Values
      /\ L[n].c \in Values /\ L[n].s \in Values
  BY <1>1, LevelTypes
<1>5. PICK d \in Nat \ {0}, g \in Nat : d = L[n].d + CallFrames(a) /\ g = L[n].g + CallGlobals(a)
  <2>1. CallFrames(a) \in {0, 1} /\ CallGlobals(a) \in {0, 1}
    BY DEF CallFrames, CallGlobals
  <2> QED
    BY <1>4, <2>1
<1>6. PICK c \in Values, v \in Values : /\ c = IF a.kind \in Runtime THEN a.n ELSE L[n].current_frame
                                        /\ v = IF a.kind \in Runtime THEN child ELSE L[n].last
  BY <1>3, <1>4
<1>7. PICK l : l = [d |-> d, g |-> g, last |-> v, current_frame |-> c, c |-> c, s |-> L[n].s]
  OBVIOUS
<1>8. l \in Level /\ OwnLevel(l, L, n, a, child)
  BY <1>4, <1>5, <1>6, <1>7 DEF Level, OwnLevel
<1>9. PICK M : OnTop(L, M, n, l)
  BY DEF OnTop
<1>10. M[n + 1] = l /\ M[n] = L[n]
  BY <1>9 DEF OnTop
<1>11. LevelOK(M, B, n + 1)
  <2>1. a.kind \in Evaluated /\ n + 1 > 1 => B[n].phase = "script"
    BY <1>1, <1>3
  <2>2. a.kind # "Import" /\ (a.main => FALSE)
    BY <1>3 DEF CallOK
  <2>3. /\ l.d = L[n].d + CallFrames(a) /\ l.g = L[n].g + CallGlobals(a) /\ l.s = L[n].s
        /\ a.kind \in Runtime => l.current_frame = a.n
        /\ a.kind \notin Runtime => l.current_frame = L[n].current_frame /\ l.last = L[n].last
        /\ l.c = IF a.kind \in Runtime THEN a.n ELSE l.current_frame
    BY <1>8 DEF OwnLevel
  <2> QED
    BY <1>1, <1>2, <1>3, <1>10, <2>1, <2>2, <2>3 DEF LevelOK
<1>12. Inherits(M, B, n + 1)
  BY <1>2, <1>3 DEF Inherits
<1>13. TopAdded(L, A, M, B, n, l)
  BY <1>1, <1>8, <1>9, <1>11, <1>12, NewTop
<1> QED
  BY <1>2, <1>8, <1>13

\* A call with frames of its own begins.
LEMMA EnterOwn ==
    ASSUME NEW L, NEW T, NEW A, NEW bad, NEW mis, Fits(L, T, A, bad, mis), NEW n \in Nat,
           NEW B \in Seq(Calls), Entered(A, B, n), OwnCall(T, A, n, B[n + 1]),
           NEW U, NEW b, b = CallGlobals(B[n + 1]), Opens(T, U, b),
           NEW child \in Values, OwnGlobals(U, B[n + 1], child)
    PROVE  Fitting(U, B, bad, mis)
<1>1. /\ Len(A) = n /\ Len(B) = n + 1 /\ (\A i \in 1 .. n : B[i] = A[i]) /\ Levels(L, A) /\ Len(A) \in Nat
      /\ n \in 0 .. Len(A) /\ n \in 0 .. n /\ (n + 1) - 1 = n /\ (n > 0 => n \in 1 .. n)
      /\ T \in Tables /\ Len(T.stack) > 0 /\ TableOK(L, T, A)
  BY FitsParts DEF Entered
<1>2. PICK a : a = B[n + 1]
  OBVIOUS
<1>3. OwnCall(T, A, n, a) /\ OwnGlobals(U, a, child) /\ b = CallGlobals(a)
  BY <1>2
<1>4. CallOK(a) /\ a.local /\ a.n \in Values /\ a.kind # "Import" /\ ~a.main
  BY <1>3 DEF OwnCall, CallOK
<1>50. PICK l \in Level : \E M : OwnLevel(l, L, n, a, child) /\ TopAdded(L, A, M, B, n, l)
  BY <1>2, OwnTop
<1>5. PICK M : OwnLevel(l, L, n, a, child) /\ TopAdded(L, A, M, B, n, l)
  BY <1>50
<1>6. Levels(M, B) /\ Moves(L, A, M, B) /\ M[n + 1] = l /\ \A k \in 0 .. n : M[k] = L[k]
  BY <1>5 DEF TopAdded
<1>7. PICK d \in Nat \ {0}, g \in Nat : d = Len(T.stack) /\ g = Len(T.globals)
  BY FitsParts
<1>8. b \in {0, 1} /\ CallFrames(a) = 1
  BY <1>3, <1>4 DEF CallFrames, CallGlobals
<1>9. U \in Tables /\ Len(U.stack) = d + 1 /\ Len(U.globals) = g + b /\ LastFrame(U) = U.stack[d + 1]
  BY <1>7 DEF Opens, LastFrame
<1>10. L[n].d = d /\ L[n].g = g /\ l.d = d + 1 /\ l.g = g + b /\ l.s = L[n].s
  BY <1>1, <1>3, <1>5, <1>7, <1>8, TopLevel DEF OwnLevel
<1>11. M[Len(B)].d = Len(T.stack) + 1 /\ M[Len(B)].g = Len(T.globals) + b
  BY <1>1, <1>6, <1>7, <1>10
<1>12. /\ TableOK(M, U, B) /\ Under(T, U) /\ SameNames(T, U, Contents)
       /\ SameNames(T, U, {"$MainScriptName$"})
  BY <1>1, <1>8, <1>11, Opened DEF ScriptNames
<1>13. MainSeen(M, U, B)
  <2>1. \A i \in 1 .. Len(A) : i <= Len(B) /\ B[i].main => B[i].file = A[i].file
    BY <1>1
  <2>2. CallGlobals(B[Len(B)]) = 1 => U.globals[Len(U.globals)]["$MainScriptName$"] = Unset
    BY <1>1, <1>2, <1>3 DEF Opens, ScriptNames
  <2>3. Len(B) > Len(A) => /\ ~B[Len(B)].main
                           /\ CallGlobals(B[Len(B)]) = 1 => U.globals[Len(U.globals)]["$MainScriptName$"] = Unset
    BY <1>1, <1>2, <1>4, <2>2
  <2>4. MainSeen(L, T, A) /\ Len(B) \in Nat
    BY <1>1 DEF Fits
  <2> QED
    BY <1>1, <1>6, <1>12, <2>1, <2>3, <2>4, StillMain
<1>14. ASSUME NEW name, NEW v, GlobalSees(T, g, name, v)
       PROVE  GlobalSees(U, g, name, v)
  <2>1. (\A i \in 1 .. g : U.globals[i][name] = T.globals[i][name]) /\ U.top[name] = T.top[name]
    BY <1>7 DEF Opens
  <2> QED
    BY <1>14, <2>1, GlobalSame
<1>15. ASSUME NEW name, NEW v, GlobalSees(T, g, name, v), b = 1 => U.globals[g + 1][name] = Unset
       PROVE  GlobalSees(U, g + b, name, v)
  <2>1. GlobalSees(U, g, name, v)
    BY <1>14, <1>15
  <2>2. CASE b = 0
    <3>1. g + b = g
      BY <2>2
    <3> QED
      BY <2>1, <3>1
  <2>3. CASE b = 1
    <3>1. GlobalSees(U, g + 1, name, v)
      BY <1>15, <2>1, <2>3, GlobalNext
    <3> QED
      BY <2>3, <3>1
  <2> QED
    BY <1>8, <2>2, <2>3
<1>16. GlobalSees(T, g, "last", L[n].last) /\ GlobalSees(T, g, "current_frame", L[n].current_frame)
  BY <1>1, <1>10, TopLevel
<1>17. GlobalSees(U, g + b, "last", l.last) /\ GlobalSees(U, g + b, "current_frame", l.current_frame)
  <2>1. CASE a.kind \in Runtime
    <3>1. /\ GlobalFrame(U)["last"] = child /\ GlobalFrame(U)["current_frame"] = a.n
          /\ child # Unset /\ a.n # Unset
      BY <1>3, <1>4, <2>1, TheNames DEF OwnGlobals
    <3>2. GlobalSees(U, Len(U.globals), "last", child) /\ GlobalSees(U, Len(U.globals), "current_frame", a.n)
      BY <1>9, <3>1, GlobalSet
    <3> QED
      BY <1>5, <1>9, <2>1, <3>2 DEF OwnLevel
  <2>2. CASE a.kind \notin Runtime
    <3>1. l.last = L[n].last /\ l.current_frame = L[n].current_frame
      BY <1>5, <2>2 DEF OwnLevel
    <3>2. ASSUME b = 1 PROVE U.globals[g + 1]["last"] = Unset /\ U.globals[g + 1]["current_frame"] = Unset
      <4>1. a.kind = "UseVar"
        BY <1>3, <1>4, <2>2, <3>2 DEF CallGlobals, CallOK, Kinds
      <4>2. GlobalFrame(U) = U.globals[g + 1]
        BY <1>9, <3>2 DEF GlobalFrame
      <4> QED
        BY <1>3, <4>1, <4>2 DEF OwnGlobals
    <3>3. PICK v, c : v = L[n].last /\ c = L[n].current_frame
      OBVIOUS
    <3>4. GlobalSees(U, g + b, "last", v) /\ GlobalSees(U, g + b, "current_frame", c)
      BY <1>15, <1>16, <3>2, <3>3
    <3> QED
      BY <3>1, <3>3, <3>4
  <2> QED
    BY <2>1, <2>2
<1>18. SeenAt(M, U, B, n + 1)
  <2>1. LastFrame(U)["current_frame"] = Unset /\ l.c = l.current_frame
    BY <1>5 DEF Opens, OwnLevel, Contents
  <2>2. ~Resting(a)
    BY <1>4 DEF Resting
  <2> QED
    BY <1>2, <1>6, <1>9, <1>10, <2>1, <2>2 DEF SeenAt, FrameSees
<1>19. ASSUME Right(g + b, mis) PROVE GlobalSees(U, g + b, "$ScriptName$", l.s)
  <2>1. Right(g, mis)
    <3>1. \A i \in 0 .. g : i \in 0 .. g + b
      BY <1>8
    <3> QED
      BY <1>19, <3>1 DEF Right
  <2>2. PICK v : v = L[n].s
    OBVIOUS
  <2>3. GlobalSees(T, g, "$ScriptName$", v)
    BY <1>1, <1>10, <2>1, <2>2, TopLevel
  <2>4. b = 1 => U.globals[g + 1]["$ScriptName$"] = Unset
    BY <1>9 DEF Opens, ScriptNames
  <2>5. GlobalSees(U, g + b, "$ScriptName$", v)
    BY <1>15, <2>3, <2>4
  <2> QED
    BY <1>10, <2>2, <2>5
<1>20. ASSUME NEW k \in 1 .. n + 1, ~B[k].local, M[k].d = M[n + 1].d PROVE FALSE
  <2>1. CASE k = n + 1
    BY <1>2, <1>4, <1>20, <2>1
  <2>2. CASE k \in 1 .. n
    <3>1. k \in 0 .. n /\ k \in 0 .. Len(A)
      BY <1>1, <2>2
    <3>2. L[k].d <= Len(T.stack) /\ L[k].d \in Nat
      BY <1>1, <3>1, Sizes
    <3>3. L[k].d = d + 1
      BY <1>6, <1>10, <1>20, <3>1
    <3> QED
      BY <1>7, <3>2, <3>3
  <2> QED
    BY <2>1, <2>2
<1>21. TopOK(M, U, B, bad, mis)
  BY <1>1, <1>6, <1>10, <1>18, <1>19, <1>20 DEF TopOK
<1>22. NewOK(M, U, B, mis)
  <2>1. KeptAt(M, U, B, n + 1)
    <3>1. U.stack[d] = T.stack[d]
      <4>1. d \in 1 .. Len(T.stack)
        BY <1>7
      <4> QED
        BY <4>1 DEF Opens
    <3>2. U.top = T.top /\ \A i \in 1 .. g : U.globals[i] = T.globals[i]
      BY <1>7 DEF Opens
    <3>3. a.before[1] = T.stack[d] /\ (a.kind # "function" => a.before[2] = T.globals /\ a.before[3] = T.top)
      BY <1>3, <1>7 DEF OwnCall
    <3> QED
      BY <1>1, <1>2, <1>6, <1>7, <1>10, <3>1, <3>2, <3>3 DEF KeptAt
  <2> QED
    BY <1>1, <1>2, <1>4, <1>6, <1>10, <1>17, <2>1 DEF NewOK
<1>23. /\ bad \subseteq 1 .. Len(U.stack) /\ mis \subseteq 0 .. Len(U.globals)
  <2>1. bad \subseteq 1 .. d /\ mis \subseteq 0 .. g
    BY <1>7 DEF Fits
  <2>2. (\A i \in 1 .. d : i \in 1 .. d + 1) /\ \A i \in 0 .. g : i \in 0 .. g + b
    BY <1>8
  <2> QED
    BY <1>9, <2>1, <2>2
<1>24. Fits(M, U, B, bad, mis)
  BY <1>6, <1>12, <1>13, <1>21, <1>22, <1>23, Moved
<1> QED
  BY <1>24 DEF Fitting

-------------------------------------------------------------------------------

(* The C++ stack                                                           *)

\* The innermost call of A.
InnermostIs(A, n) ==
    /\ n + 1 = Len(A) /\ Last(A) = A[n + 1] /\ A[n + 1] \in Calls /\ CallOK(A[n + 1])
    /\ Left1(A, Front(A), n) /\ Front(A) \in Seq(Calls)

\* There is an innermost call.
LEMMA TopCall ==
    ASSUME NEW L, NEW T, NEW A, NEW bad, NEW mis, Fits(L, T, A, bad, mis), A # <<>>
    PROVE  \E n \in Nat : InnermostIs(A, n)
<1>1. A \in Seq(Calls) /\ Levels(L, A) /\ Len(A) \in Nat
  BY DEF Fits
<1>2. Len(A) # 0
  BY <1>1
<1>3. PICK n \in Nat : n + 1 = Len(A) /\ n = Len(A) - 1
  BY <1>1, <1>2
<1>4. n + 1 \in 1 .. Len(A)
  BY <1>3
<1>5. A[n + 1] \in Calls /\ CallOK(A[n + 1])
  BY <1>1, <1>4 DEF Levels, LevelOK
<1>6. Front(A) \in Seq(Calls) /\ Len(Front(A)) = n /\ \A i \in 1 .. n : Front(A)[i] = A[i]
  BY <1>1, <1>2, <1>3, FrontIs
<1> QED
  BY <1>3, <1>5, <1>6 DEF InnermostIs, Left1, Last

PhaseSet(A, B, p) == B = [A EXCEPT ![Len(A)].phase = p]

FileSet(A, B, file) == B = [A EXCEPT ![Len(A)].file = file]

Phases == {"before", "script", "message", "after", "fetch"}

\* The innermost call goes into another phase.
LEMMA Phased ==
    ASSUME NEW A \in Seq(Calls), NEW n \in Nat, n + 1 = Len(A), NEW p \in Phases,
           NEW B, PhaseSet(A, B, p)
    PROVE  /\ B \in Seq(Calls) /\ Changed(A, B)
           /\ B[n + 1].phase = p /\ B[n + 1].n = A[n + 1].n /\ B[n + 1].file = A[n + 1].file
<1>1. n + 1 \in 1 .. Len(A) /\ A[n + 1] \in Calls
  OBVIOUS
<1>2. PICK b : b = [A[n + 1] EXCEPT !.phase = p]
  OBVIOUS
<1>3. /\ b \in Calls /\ b.phase = p /\ b.n = A[n + 1].n /\ b.file = A[n + 1].file
      /\ b.kind = A[n + 1].kind /\ b.local = A[n + 1].local /\ b.main = A[n + 1].main
      /\ b.saved = A[n + 1].saved /\ b.before = A[n + 1].before /\ b.spoiled = A[n + 1].spoiled
  BY <1>1, <1>2 DEF Calls, Phases
<1>4. B = [A EXCEPT ![n + 1] = b]
  BY <1>2 DEF PhaseSet
<1>7. PICK m \in 1 .. Len(A) : m = n + 1
  BY <1>1
<1>8. B = [A EXCEPT ![m] = b] /\ b \in Calls
  BY <1>3, <1>4, <1>7
<1>5. B \in Seq(Calls) /\ Len(B) = Len(A) /\ B[n + 1] = b /\ \A i \in 1 .. Len(A) : i # n + 1 => B[i] = A[i]
  BY <1>7, <1>8
<1>6. \A i \in 1 .. Len(A) : i = n + 1 <=> ~(i < Len(A))
  OBVIOUS
<1> QED
  BY <1>3, <1>5, <1>6 DEF Changed

\* The innermost Import goes on to another file.
LEMMA Filed ==
    ASSUME NEW A \in Seq(Calls), NEW n \in Nat, n + 1 = Len(A), NEW file \in Values,
           NEW B, FileSet(A, B, file)
    PROVE  /\ B \in Seq(Calls) /\ Changed(A, B)
           /\ B[n + 1].phase = A[n + 1].phase /\ B[n + 1].file = file
<1>1. n + 1 \in 1 .. Len(A) /\ A[n + 1] \in Calls
  OBVIOUS
<1>2. PICK b : b = [A[n + 1] EXCEPT !.file = file]
  OBVIOUS
<1>3. /\ b \in Calls /\ b.phase = A[n + 1].phase /\ b.file = file
      /\ b.kind = A[n + 1].kind /\ b.local = A[n + 1].local /\ b.main = A[n + 1].main
      /\ b.saved = A[n + 1].saved /\ b.before = A[n + 1].before /\ b.spoiled = A[n + 1].spoiled
  BY <1>1, <1>2 DEF Calls
<1>4. B = [A EXCEPT ![n + 1] = b]
  BY <1>2 DEF FileSet
<1>7. PICK m \in 1 .. Len(A) : m = n + 1
  BY <1>1
<1>8. B = [A EXCEPT ![m] = b] /\ b \in Calls
  BY <1>3, <1>4, <1>7
<1>5. B \in Seq(Calls) /\ Len(B) = Len(A) /\ B[n + 1] = b /\ \A i \in 1 .. Len(A) : i # n + 1 => B[i] = A[i]
  BY <1>7, <1>8
<1>6. \A i \in 1 .. Len(A) : i = n + 1 <=> ~(i < Len(A))
  OBVIOUS
<1> QED
  BY <1>3, <1>5, <1>6 DEF Changed

\* A phase changes, and with it no level.
LEMMA PhaseLevels ==
    ASSUME NEW L, NEW A, NEW B, NEW n \in Nat, n + 1 = Len(A), Levels(L, A), Changed(A, B),
           A[n + 1].kind \in Runtime, B[n + 1].phase \in Phases \ {"fetch"},
           A[n + 1].local \/ (A[n + 1].phase # "after" /\ B[n + 1].phase # "after"),
           B[n + 1].n = A[n + 1].n
    PROVE  Levels(L, B)
<1>1. Len(A) \in Nat /\ n + 1 \in 1 .. Len(A) /\ Len(B) = n + 1 /\ (n + 1) - 1 = n
  BY DEF Changed
<1>2. LevelOK(L, A, n + 1)
  BY <1>1 DEF Levels
<1>3. /\ B[n + 1].kind = A[n + 1].kind /\ B[n + 1].local = A[n + 1].local /\ B[n + 1].main = A[n + 1].main
      /\ B[n + 1].saved = A[n + 1].saved /\ B[n + 1].before = A[n + 1].before
      /\ B[n + 1].spoiled = A[n + 1].spoiled
      /\ \A i \in 1 .. n : B[i] = A[i]
  BY <1>1 DEF Changed
<1>4. LevelOK(L, B, n + 1)
  <2>1. CallOK(A[n + 1])
    BY <1>2 DEF LevelOK
  <2>2. B[n + 1].kind \notin Evaluated /\ B[n + 1].kind \in Runtime /\ B[n + 1].kind \notin {"Import", "UseVar"}
    BY <1>3 DEF Evaluated, Runtime
  <2>3. CallOK(B[n + 1])
    BY <1>3, <2>1, <2>2 DEF CallOK, Shaped, Runtime, Evaluated, Phases
  <2>4. CallFrames(B[n + 1]) = CallFrames(A[n + 1]) /\ CallGlobals(B[n + 1]) = CallGlobals(A[n + 1])
    BY <1>3 DEF CallFrames, CallGlobals
  <2>5. n + 1 > 1 => B[(n + 1) - 1] = A[(n + 1) - 1]
    BY <1>3
  <2> QED
    BY <1>2, <1>3, <2>2, <2>3, <2>4, <2>5 DEF LevelOK
<1>5. Inherits(L, B, n + 1)
  <2>1. ASSUME NEW i \in 1 .. n, ~B[i].local, ~B[n + 1].local, L[i].d = L[n + 1].d, B[i].spoiled PROVE B[n + 1].spoiled
    <3>1. i \in 1 .. n + 1
      OBVIOUS
    <3>2. A[n + 1].spoiled
      BY <1>1, <1>3, <2>1, <3>1 DEF Levels, Inherited
    <3> QED
      BY <1>3, <3>2
  <2> QED
    BY <1>1, <2>1 DEF Inherits
<1>6. PICK m \in Nat \ {0} : m = n + 1
  OBVIOUS
<1>7. L \in [0 .. m -> Level]
  BY <1>6 DEF Levels
<1>8. /\ m = Len(B) /\ m \in {Len(A), Len(A) + 1} /\ LevelOK(L, B, m) /\ Inherits(L, B, m)
      /\ \A i \in 1 .. m - 1 : B[i] = A[i]
  BY <1>1, <1>3, <1>4, <1>5, <1>6
<1> QED
  BY <1>1, <1>7, <1>8, NewLevel

-------------------------------------------------------------------------------

(* How evaluation goes on                                                  *)

\* The counts when a call begins.
LEMMA EnterCounts ==
    ASSUME NEW T \in Tables, NEW U \in Tables, NEW A, NEW B, NEW n \in Nat, Entered(A, B, n), CallOK(B[n + 1]),
           Len(U.stack) = Len(T.stack) + CallFrames(B[n + 1]),
           Len(U.globals) = Len(T.globals) + CallGlobals(B[n + 1]),
           NEW d, Counted(T, A), DepthOK(A, d), NEW e,
           Deeper(B[n + 1], d, e)
    PROVE  Counted(U, B) /\ DepthOK(B, e)
<1>1. /\ Len(T.stack) \in Nat /\ Len(T.globals) \in Nat /\ Len(U.stack) \in Nat /\ Len(U.globals) \in Nat
  BY TableParts
<1>2. n = Len(A) /\ Len(B) = n + 1 /\ \A i \in 1 .. n : B[i] = A[i]
  BY DEF Entered
<1>3. \A i \in 1 .. n : B[i].kind = A[i].kind /\ B[i].local = A[i].local
  BY <1>2
<1>4. \A i \in 1 .. n : B[i].kind = A[i].kind /\ B[i].local = A[i].local /\ B[i].main = A[i].main
  BY <1>2
<1>5. Counted(T, A) <=> Counted(U, B)
  BY <1>1, <1>2, <1>3, CountedPush
<1>6. DepthOK(B, e)
  BY <1>2, <1>4, DepthPush
<1> QED
  BY <1>5, <1>6

\* The counts when a call ends.
LEMMA LeaveCounts ==
    ASSUME NEW T \in Tables, NEW U \in Tables, NEW A, NEW B, NEW n \in Nat, Left1(A, B, n), CallOK(A[n + 1]),
           Len(T.stack) = Len(U.stack) + CallFrames(A[n + 1]),
           Len(T.globals) = Len(U.globals) + CallGlobals(A[n + 1]),
           NEW d, Counted(T, A), DepthOK(A, d), NEW e,
           Shallower(A[n + 1], d, e)
    PROVE  Counted(U, B) /\ DepthOK(B, e)
<1>1. /\ Len(T.stack) \in Nat /\ Len(T.globals) \in Nat /\ Len(U.stack) \in Nat /\ Len(U.globals) \in Nat
  BY TableParts
<1>2. n = Len(B) /\ Len(A) = n + 1 /\ \A i \in 1 .. n : B[i] = A[i]
  BY DEF Left1
<1>3. \A i \in 1 .. n : A[i].kind = B[i].kind /\ A[i].local = B[i].local
  BY <1>2
<1>6. \A i \in 1 .. n : A[i].kind = B[i].kind /\ A[i].local = B[i].local /\ A[i].main = B[i].main
  BY <1>2
<1>4. Counted(U, B) <=> Counted(T, A)
  BY <1>1, <1>2, <1>3, CountedPush
<1>5. DepthOK(B, e)
  BY <1>2, <1>6, DepthPop
<1> QED
  BY <1>4, <1>5

\* The counts inside a call.
LEMMA StayCounts ==
    ASSUME NEW T, NEW U, NEW A, NEW B, Len(A) \in Nat, Changed(A, B),
           Len(U.stack) = Len(T.stack), Len(U.globals) = Len(T.globals),
           NEW d, Counted(T, A), DepthOK(A, d), NEW e \in {d, d + 1}
    PROVE  Counted(U, B) /\ DepthOK(B, e)
<1>1. Len(B) = Len(A) /\ \A i \in 1 .. Len(A) : B[i].kind = A[i].kind /\ B[i].local = A[i].local /\ B[i].main = A[i].main
  BY DEF Changed
<1> QED
  BY <1>1, CountedStay, DepthStay

-------------------------------------------------------------------------------

\* A statement of a script keeps the invariant.
LEMMA Statement ==
    ASSUME NEW T, NEW A, NEW d, NEW bad, NEW mis, Going(T, A, d, bad, mis),
           NEW U, NEW S, NEW G, Writes(T, U, S, G), S \subseteq {"last", "x"}, G \subseteq {"x"},
           A # <<>> => Last(A).phase = "script", NEW e \in {d, d + 1}
    PROVE  Going(U, A, e, bad, mis)
<1>1. PICK L : Fits(L, T, A, bad, mis)
  BY DEF Going, Fitting
<1>2. A \in Seq(Calls) /\ Levels(L, A) /\ Len(A) \in Nat
  BY <1>1 DEF Fits
<1>3. Changed(A, A)
  BY DEF Changed
<1>4. Len(A) > 0 => ~Resting(A[Len(A)])
  BY <1>2 DEF Resting, Last
<1>5. \A i \in 1 .. Len(A) : A[i].file = A[i].file
  OBVIOUS
<1>6. Fits(L, U, A, bad, mis)
  BY <1>1, <1>2, <1>3, <1>4, <1>5, Stay
<1>7. Len(U.stack) = Len(T.stack) /\ Len(U.globals) = Len(T.globals)
  BY DEF Writes
<1>8. Counted(U, A) /\ DepthOK(A, e)
  BY <1>2, <1>3, <1>7, StayCounts DEF Going
<1> QED
  BY <1>6, <1>8 DEF Going, Fitting

\* A change of phase without an assignment keeps it.
LEMMA PhaseGoesOn ==
    ASSUME NEW T, NEW A, NEW d, NEW bad, NEW mis, Going(T, A, d, bad, mis), A # <<>>, Last(A).kind \in Runtime,
           NEW p \in {"script", "message", "after"},
           Last(A).local \/ (Last(A).phase # "after" /\ p # "after"),
           NEW B, PhaseSet(A, B, p)
    PROVE  Going(T, B, d, bad, mis)
<1>1. PICK L : Fits(L, T, A, bad, mis)
  BY DEF Going, Fitting
<1>2. PICK n \in Nat : InnermostIs(A, n)
  BY <1>1, TopCall
<1>3. n + 1 = Len(A) /\ Last(A) = A[n + 1] /\ A \in Seq(Calls) /\ Levels(L, A) /\ Len(A) \in Nat
  BY <1>1, <1>2 DEF InnermostIs, Fits
<1>4. p \in Phases /\ p \in Phases \ {"fetch"}
  BY DEF Phases
<1>5. /\ B \in Seq(Calls) /\ Changed(A, B)
      /\ B[n + 1].phase = p /\ B[n + 1].n = A[n + 1].n /\ B[n + 1].file = A[n + 1].file
  <2>1. PICK q \in Phases : q = p
    BY <1>4
  <2>2. A \in Seq(Calls) /\ n + 1 = Len(A) /\ PhaseSet(A, B, q)
    BY <1>3, <2>1
  <2> QED
    BY <2>1, <2>2, Phased
<1>6. Levels(L, B)
  <2>1. A[n + 1].local \/ (A[n + 1].phase # "after" /\ B[n + 1].phase # "after")
    BY <1>3, <1>5
  <2>2. B[n + 1].phase \in Phases \ {"fetch"} /\ A[n + 1].kind \in Runtime
    BY <1>3, <1>4, <1>5
  <2> QED
    BY <1>3, <1>5, <2>1, <2>2, PhaseLevels
<1>7. Len(B) = n + 1 /\ n + 1 \in 1 .. Len(A) /\ B[n + 1].local = A[n + 1].local
  BY <1>3, <1>5 DEF Changed
<1>8. Len(B) > 0 => ~Resting(B[Len(B)])
  BY <1>3, <1>5, <1>7 DEF Resting
<1>9. \A i \in 1 .. Len(A) : B[i].file = A[i].file
  <2>1. \A i \in 1 .. Len(A) : i = n + 1 \/ i < Len(A)
    BY <1>3
  <2> QED
    BY <1>5, <2>1 DEF Changed
<1>10. Fits(L, T, B, bad, mis)
  <2>1. PICK S, G : S = {} /\ G = {}
    OBVIOUS
  <2>2. Writes(T, T, S, G)
    BY <1>1, <2>1, FitsParts, NothingWritten
  <2>3. S \subseteq {"last", "x"} /\ G \subseteq {"x"}
    BY <2>1
  <2>4. B \in Seq(Calls) /\ Changed(A, B)
    BY <1>5
  <2> QED
    BY <1>1, <1>6, <1>8, <1>9, <2>2, <2>3, <2>4, Stay
<1>11. Counted(T, B) /\ DepthOK(B, d)
  <2>1. d \in {d, d + 1}
    OBVIOUS
  <2> QED
    BY <1>3, <1>5, <2>1, StayCounts DEF Going
<1> QED
  BY <1>10, <1>11 DEF Going, Fitting

\* The variables as the innermost call has saved them.
RestoredFrom(T, a) == Set(Set(T, "last", a.saved[1]), "current_frame", a.saved[2])

SpoiledAfter(T, a, bad) == IF a.spoiled THEN bad \cup {Len(T.stack)} ELSE bad \ {Len(T.stack)}

\* What a filter puts back before it requests the result.
LEMMA RestoredWrites ==
    ASSUME NEW T \in Tables, Len(T.stack) > 0, NEW a, CallOK(a), ~a.local, a.kind \in Runtime
    PROVE  /\ Writes(T, RestoredFrom(T, a), Contents, {})
           /\ LastFrame(RestoredFrom(T, a))["last"] = a.saved[1]
           /\ LastFrame(RestoredFrom(T, a))["current_frame"] = a.saved[2]
           /\ a.saved[1] # Unset /\ a.saved[2] # Unset
<1>1. PICK v \in Values, w \in Values : v = a.saved[1] /\ w = a.saved[2]
  BY DEF CallOK
<1>2. v # Unset /\ w # Unset
  BY TheNames
<1>3. PICK U : U = Set(Set(T, "last", v), "current_frame", w)
  OBVIOUS
<1>4. Writes(T, U, Contents, {}) /\ LastFrame(U)["last"] = v /\ LastFrame(U)["current_frame"] = w
  BY <1>3, RestoreWrites
<1>5. U = RestoredFrom(T, a)
  BY <1>1, <1>3 DEF RestoredFrom
<1> QED
  BY <1>1, <1>2, <1>4, <1>5

\* A filter has put the variables back and requests its result.
LEMMA RestoredGoesOn ==
    ASSUME NEW T, NEW A, NEW d, NEW bad, NEW mis, Going(T, A, d, bad, mis), A # <<>>, Last(A).kind \in Runtime,
           ~Last(A).local, NEW B, PhaseSet(A, B, "after")
    PROVE  Going(RestoredFrom(T, Last(A)), B, d, SpoiledAfter(T, Last(A), bad), mis)
<1>1. PICK L : Fits(L, T, A, bad, mis)
  BY DEF Going, Fitting
<1>2. PICK n \in Nat : InnermostIs(A, n)
  BY <1>1, TopCall
<1>3. n + 1 = Len(A) /\ Last(A) = A[n + 1] /\ CallOK(A[n + 1]) /\ A \in Seq(Calls) /\ Len(A) \in Nat
  BY <1>1, <1>2 DEF InnermostIs, Fits
<1>4. /\ B \in Seq(Calls) /\ Changed(A, B)
      /\ B[n + 1].phase = "after" /\ B[n + 1].n = A[n + 1].n /\ B[n + 1].file = A[n + 1].file
  <2>1. PICK p \in Phases : p = "after"
    BY DEF Phases
  <2> QED
    BY <1>3, <2>1, Phased
<1>5. PICK U : U = RestoredFrom(T, A[n + 1])
  OBVIOUS
<1>6. Writes(T, U, Contents, {})
  BY <1>1, <1>3, <1>5, FitsParts, RestoredWrites
<1>7. PICK bad2 : bad2 = SpoiledAfter(T, A[n + 1], bad)
  OBVIOUS
<1>8. Fitting(U, B, bad2, mis)
  <2>1. U = Set(Set(T, "last", A[n + 1].saved[1]), "current_frame", A[n + 1].saved[2])
    BY <1>5 DEF RestoredFrom
  <2>2. bad2 = IF A[n + 1].spoiled THEN bad \cup {Len(T.stack)} ELSE bad \ {Len(T.stack)}
    BY <1>7 DEF SpoiledAfter
  <2>3. A[n + 1].kind \in Runtime /\ ~A[n + 1].local /\ n + 1 = Len(A)
    BY <1>3
  <2> QED
    BY <1>1, <1>4, <2>1, <2>2, <2>3, RestoredStay
<1>9. Counted(U, B) /\ DepthOK(B, d)
  <2>1. Len(U.stack) = Len(T.stack) /\ Len(U.globals) = Len(T.globals) /\ d \in {d, d + 1}
    BY <1>6 DEF Writes
  <2> QED
    BY <1>3, <1>4, <2>1, StayCounts DEF Going
<1> QED
  BY <1>3, <1>5, <1>7, <1>8, <1>9 DEF Going

\* An Import has gone on to the next file.
LEMMA FileGoesOn ==
    ASSUME NEW T, NEW A, NEW d, NEW bad, NEW mis, Going(T, A, d, bad, mis), A # <<>>, Last(A).kind = "Import",
           NEW file \in Values, NEW B, FileSet(A, B, file)
    PROVE  Going(Named(T, file, Last(A).main), B, d, bad, mis)
<1>1. PICK L : Fits(L, T, A, bad, mis)
  BY DEF Going, Fitting
<1>2. PICK n \in Nat : InnermostIs(A, n)
  BY <1>1, TopCall
<1>3. /\ n + 1 = Len(A) /\ Last(A) = A[n + 1] /\ CallOK(A[n + 1]) /\ A \in Seq(Calls) /\ Len(A) \in Nat
      /\ A[n + 1] \in Calls
  BY <1>1, <1>2 DEF InnermostIs, Fits
<1>4. B \in Seq(Calls) /\ Changed(A, B) /\ B[n + 1].phase = A[n + 1].phase /\ B[n + 1].file = file
  BY <1>3, Filed
<1>5. A[n + 1].main \in BOOLEAN /\ A[n + 1].kind = "Import"
  BY <1>3 DEF Calls
<1>6. PICK U : U = Named(T, file, A[n + 1].main)
  OBVIOUS
<1>7. Fitting(U, B, bad, mis)
  BY <1>1, <1>3, <1>4, <1>5, <1>6, NextFile
<1>8. Writes(T, U, {}, NameWrites(A[n + 1].main))
  BY <1>1, <1>5, <1>6, FitsParts, NamedWrites
<1>9. Counted(U, B) /\ DepthOK(B, d)
  <2>1. Len(U.stack) = Len(T.stack) /\ Len(U.globals) = Len(T.globals) /\ d \in {d, d + 1}
    BY <1>8 DEF Writes
  <2> QED
    BY <1>3, <1>4, <2>1, StayCounts DEF Going
<1> QED
  BY <1>3, <1>6, <1>7, <1>9 DEF Going

-------------------------------------------------------------------------------

(* How a call begins                                                       *)

\* ImportDepth, and which import is the outermost one.
Starts(a, d, e) ==
    /\ a.kind = "Import" => e = d + 1 /\ (a.main <=> d = 0)
    /\ a.kind # "Import" => e = d /\ ~a.main

\* A call without frames of its own keeps the invariant when it begins.
LEMMA SharedBegins ==
    ASSUME NEW T, NEW A, NEW d, NEW bad, NEW mis, Going(T, A, d, bad, mis),
           NEW a \in Calls, NewCall(T, A, Len(A), a, bad),
           NEW U, NEW S, NEW G, CallWrites(T, U, a, S, G), NEW e, Starts(a, d, e)
    PROVE  Going(U, Append(A, a), e, bad, mis)
<1>1. PICK L : Fits(L, T, A, bad, mis)
  BY DEF Going, Fitting
<1>2. PICK n \in Nat : n = Len(A)
  BY <1>1, FitsParts
<1>3. PICK B : B = Append(A, a)
  OBVIOUS
<1>4. A \in Seq(Calls) /\ DepthOK(A, d) /\ Counted(T, A) /\ T \in Tables
  BY <1>1, FitsParts DEF Fits, Going
<1>44. A \in Seq(Calls)
  BY <1>4
<1>5. B \in Seq(Calls) /\ Entered(A, B, n) /\ B[n + 1] = a
  BY <1>2, <1>3, <1>44 DEF Entered
<1>6. a.main => \A i \in 1 .. n : A[i].kind # "Import"
  <2>1. ASSUME a.main PROVE \A i \in 1 .. n : A[i].kind # "Import"
    <3>1. d = 0
      BY <2>1 DEF Starts
    <3>2. DepthOK(A, 0)
      BY <1>4, <3>1
    <3> QED
      BY <1>2, <3>2, NoImports
  <2> QED
    BY <2>1
<1>7. Fitting(U, B, bad, mis)
  <2>1. NewCall(T, A, n, B[n + 1], bad) /\ CallWrites(T, U, B[n + 1], S, G)
    BY <1>2, <1>5
  <2>2. B[n + 1].main => \A i \in 1 .. n : A[i].kind # "Import"
    BY <1>5, <1>6
  <2>3. B \in Seq(Calls) /\ Entered(A, B, n)
    BY <1>5
  <2> QED
    BY <1>1, <2>1, <2>2, <2>3, EnterShared
<1>8. Counted(U, B) /\ DepthOK(B, e)
  <2>1. CallOK(a) /\ CallFrames(a) = 0 /\ CallGlobals(a) = 0
    BY DEF NewCall, CallFrames, CallGlobals
  <2>2. U \in Tables /\ Len(U.stack) = Len(T.stack) + 0 /\ Len(U.globals) = Len(T.globals) + 0
    BY <1>4, TableParts DEF CallWrites, Writes
  <2>3. Len(U.stack) = Len(T.stack) + CallFrames(a) /\ Len(U.globals) = Len(T.globals) + CallGlobals(a)
    BY <2>1, <2>2
  <2>4. Deeper(a, d, e)
    <3>1. d \in Nat
      BY <1>4 DEF DepthOK
    <3>2. d # 0 => d > 0
      BY <3>1
    <3> QED
      BY <3>2 DEF Starts, Deeper
  <2>5. /\ CallOK(B[n + 1]) /\ Deeper(B[n + 1], d, e)
        /\ Len(U.stack) = Len(T.stack) + CallFrames(B[n + 1])
        /\ Len(U.globals) = Len(T.globals) + CallGlobals(B[n + 1])
    BY <1>5, <2>1, <2>3, <2>4
  <2>6. Entered(A, B, n) /\ U \in Tables
    BY <1>5, <2>2
  <2> QED
    BY <1>4, <2>5, <2>6, EnterCounts
<1> QED
  BY <1>3, <1>7, <1>8 DEF Going

\* A call with frames of its own does, too.
LEMMA OwnBegins ==
    ASSUME NEW T, NEW A, NEW d, NEW bad, NEW mis, Going(T, A, d, bad, mis),
           NEW a \in Calls, OwnCall(T, A, Len(A), a),
           NEW U, NEW b, b = CallGlobals(a), Opens(T, U, b), NEW child \in Values, OwnGlobals(U, a, child)
    PROVE  Going(U, Append(A, a), d, bad, mis)
<1>1. PICK L : Fits(L, T, A, bad, mis)
  BY DEF Going, Fitting
<1>2. PICK n \in Nat : n = Len(A)
  BY <1>1, FitsParts
<1>3. PICK B : B = Append(A, a)
  OBVIOUS
<1>4. A \in Seq(Calls) /\ DepthOK(A, d) /\ Counted(T, A) /\ T \in Tables
  BY <1>1, FitsParts DEF Fits, Going
<1>44. A \in Seq(Calls)
  BY <1>4
<1>5. B \in Seq(Calls) /\ Entered(A, B, n) /\ B[n + 1] = a
  BY <1>2, <1>3, <1>44 DEF Entered
<1>6. Fitting(U, B, bad, mis)
  <2>1. OwnCall(T, A, n, B[n + 1]) /\ OwnGlobals(U, B[n + 1], child) /\ b = CallGlobals(B[n + 1])
    BY <1>2, <1>5
  <2>2. B \in Seq(Calls) /\ Entered(A, B, n)
    BY <1>5
  <2> QED
    BY <1>1, <2>1, <2>2, EnterOwn
<1>7. Counted(U, B) /\ DepthOK(B, d)
  <2>1. CallOK(a) /\ CallFrames(a) = 1 /\ a.kind # "Import"
    BY DEF OwnCall, CallFrames, CallOK
  <2>2. U \in Tables /\ Len(U.stack) = Len(T.stack) + CallFrames(a) /\ Len(U.globals) = Len(T.globals) + CallGlobals(a)
    BY <2>1 DEF Opens
  <2>3. Deeper(a, d, d)
    BY <2>1 DEF Deeper
  <2>4. /\ CallOK(B[n + 1]) /\ Deeper(B[n + 1], d, d)
        /\ Len(U.stack) = Len(T.stack) + CallFrames(B[n + 1])
        /\ Len(U.globals) = Len(T.globals) + CallGlobals(B[n + 1])
    BY <1>5, <2>1, <2>2, <2>3
  <2>5. Entered(A, B, n) /\ U \in Tables
    BY <1>5, <2>2
  <2> QED
    BY <1>4, <2>4, <2>5, EnterCounts
<1> QED
  BY <1>3, <1>6, <1>7 DEF Going

-------------------------------------------------------------------------------

(* How a call ends                                                         *)

\* The innermost call of A is gone in B, and the frames it had.
LEMMA SharedCounts ==
    ASSUME NEW T, NEW A, NEW d, NEW bad, NEW mis, Going(T, A, d, bad, mis),
           NEW B, NEW n \in Nat, Left1(A, B, n), CallOK(A[n + 1]), ~A[n + 1].local,
           NEW U, NEW S, NEW G, Writes(T, U, S, G), NEW e, Shallower(A[n + 1], d, e)
    PROVE  Counted(U, B) /\ DepthOK(B, e)
<1>1. T \in Tables /\ U \in Tables /\ Counted(T, A) /\ DepthOK(A, d)
  BY DEF Writes, Going
<1>2. CallFrames(A[n + 1]) = 0 /\ CallGlobals(A[n + 1]) = 0
  BY DEF CallFrames, CallGlobals
<1>3. Len(T.stack) = Len(U.stack) + 0 /\ Len(T.globals) = Len(U.globals) + 0
  BY <1>1, TableParts DEF Writes
<1>4. Len(T.stack) = Len(U.stack) + CallFrames(A[n + 1]) /\ Len(T.globals) = Len(U.globals) + CallGlobals(A[n + 1])
  BY <1>2, <1>3
<1> QED
  BY <1>1, <1>4, LeaveCounts

\* try and EvalOop.
LEMMA EvaluatedEnds ==
    ASSUME NEW T, NEW A, NEW d, NEW bad, NEW mis, Going(T, A, d, bad, mis), A # <<>>,
           Last(A).kind \in {"try", "EvalOop"},
           NEW U, NEW S, Writes(T, U, S, {}), S \subseteq {"last", "x"}
    PROVE  Going(U, Front(A), d, bad, mis)
<1>1. PICK L : Fits(L, T, A, bad, mis)
  BY DEF Going, Fitting
<1>2. PICK n \in Nat : InnermostIs(A, n)
  BY <1>1, TopCall
<1>3. PICK B : B = Front(A)
  OBVIOUS
<1>4. /\ n + 1 = Len(A) /\ Last(A) = A[n + 1] /\ CallOK(A[n + 1])
      /\ B \in Seq(Calls) /\ Left1(A, B, n)
  BY <1>2, <1>3 DEF InnermostIs
<1>5. A[n + 1].kind \in {"try", "EvalOop", "Import"} /\ A[n + 1].kind # "Import" /\ ~A[n + 1].local
  BY <1>4 DEF CallOK
<1>6. Fitting(U, B, bad, mis)
  <2>1. mis \subseteq 0 .. Len(T.globals) /\ mis \subseteq mis
    BY <1>1 DEF Fits
  <2>2. Right(L[n].g, mis) => GlobalSees(U, L[n].g, "$ScriptName$", L[n].s)
    BY <1>1, <1>4, <1>5, NameBelow
  <2>3. PICK G : G = {}
    OBVIOUS
  <2>4. Writes(T, U, S, G) /\ G \subseteq {"$ScriptName$"}
    BY <2>3
  <2>5. A[n + 1].kind \in {"try", "EvalOop", "Import"} /\ B \in Seq(Calls) /\ Left1(A, B, n)
    BY <1>4, <1>5
  <2> QED
    BY <1>1, <2>1, <2>2, <2>4, <2>5, LeaveEvaluated
<1>7. Counted(U, B) /\ DepthOK(B, d)
  <2>1. Shallower(A[n + 1], d, d)
    BY <1>5 DEF Shallower
  <2>2. PICK G : G = {}
    OBVIOUS
  <2>3. Writes(T, U, S, G)
    BY <2>2
  <2> QED
    BY <1>4, <1>5, <2>1, <2>3, SharedCounts
<1> QED
  BY <1>3, <1>6, <1>7 DEF Going

\* An import that returns, or that an exception leaves.
LEMMA ImportEnds ==
    ASSUME NEW T, NEW A, NEW d, NEW bad, NEW mis, Going(T, A, d, bad, mis), A # <<>>, Last(A).kind = "Import"
    PROVE  /\ Going(SetGlobal(T, "$ScriptName$", Last(A).saved[1]), Front(A), d - 1, bad, mis)
           /\ Going(T, Front(A), d, bad, mis \cup {Len(T.globals)})
<1>1. PICK L : Fits(L, T, A, bad, mis)
  BY DEF Going, Fitting
<1>2. PICK n \in Nat : InnermostIs(A, n)
  BY <1>1, TopCall
<1>3. PICK B : B = Front(A)
  OBVIOUS
<1>4. /\ n + 1 = Len(A) /\ Last(A) = A[n + 1] /\ CallOK(A[n + 1])
      /\ B \in Seq(Calls) /\ Left1(A, B, n)
  BY <1>2, <1>3 DEF InnermostIs
<1>5. A[n + 1].kind \in {"try", "EvalOop", "Import"} /\ A[n + 1].kind = "Import" /\ ~A[n + 1].local
  BY <1>4 DEF CallOK
<1>6. PICK v \in Values : v = A[n + 1].saved[1]
  BY <1>4, <1>5 DEF CallOK
<1>7. /\ T \in Tables /\ Len(T.stack) > 0 /\ Len(T.globals) \in Nat
      /\ L[n].g = Len(T.globals) /\ L[n + 1].g = L[n].g /\ mis \subseteq 0 .. Len(T.globals)
  <2>1. T \in Tables /\ Len(T.stack) > 0 /\ Len(T.globals) \in Nat
    BY <1>1, FitsParts
  <2>2. L[n].g = Len(T.globals) /\ L[n + 1].g = L[n].g
    BY <1>1, <1>4, <1>5, TwoLevels
  <2> QED
    BY <1>1, <2>1, <2>2 DEF Fits
<1>8. d \in Nat
  BY DEF Going, DepthOK
<1>9. Going(SetGlobal(T, "$ScriptName$", v), B, d - 1, bad, mis)
  <2>1. PICK U : U = SetGlobal(T, "$ScriptName$", v)
    OBVIOUS
  <2>2. PICK S, G : S = {} /\ G = {"$ScriptName$"}
    OBVIOUS
  <2>3. "$ScriptName$" \in Names /\ v # Unset
    BY TheNames DEF ScriptNames
  <2>4. Writes(T, U, S, G) /\ GlobalFrame(U)["$ScriptName$"] = v
    BY <1>7, <2>1, <2>2, <2>3, SetGlobalWrites
  <2>5. GlobalSees(U, Len(U.globals), "$ScriptName$", v)
    BY <2>3, <2>4, GlobalSet DEF Writes
  <2>6. ASSUME Right(L[n].g, mis) PROVE GlobalSees(U, L[n].g, "$ScriptName$", L[n].s)
    <3>1. n + 1 \in 1 .. Len(A) /\ (n + 1) - 1 = n
      BY <1>4
    <3>2. SavedName(L, A, n + 1)
      BY <1>1, <1>5, <1>7, <2>6, <3>1 DEF Fits, NameSeen
    <3>3. L[n].s = v
      BY <1>6, <3>1, <3>2 DEF SavedName
    <3> QED
      BY <1>7, <2>4, <2>5, <3>3 DEF Writes
  <2>7. S \subseteq {"last", "x"} /\ G \subseteq {"$ScriptName$"} /\ mis \subseteq mis
    BY <2>2
  <2>8. Fitting(U, B, bad, mis)
    <3>1. A[n + 1].kind \in {"try", "EvalOop", "Import"} /\ B \in Seq(Calls) /\ Left1(A, B, n)
      BY <1>4, <1>5
    <3>2. mis \subseteq 0 .. Len(T.globals)
      BY <1>7
    <3>3. Writes(T, U, S, G)
      BY <2>4
    <3> QED
      BY <1>1, <2>6, <2>7, <3>1, <3>2, <3>3, LeaveEvaluated
  <2>9. Counted(U, B) /\ DepthOK(B, d - 1)
    <3>1. Shallower(A[n + 1], d, d - 1)
      BY <1>5 DEF Shallower
    <3> QED
      BY <1>4, <1>5, <2>4, <3>1, SharedCounts
  <2> QED
    BY <2>1, <2>8, <2>9 DEF Going
<1>10. PICK mis2 : mis2 = mis \cup {Len(T.globals)}
  OBVIOUS
<1>11. Going(T, B, d, bad, mis2)
  <2>1. PICK S, G : S = {} /\ G = {}
    OBVIOUS
  <2>2. Writes(T, T, S, G)
    BY <1>7, <2>1, NothingWritten
  <2>3. Len(T.globals) \in 0 .. Len(T.globals)
    BY <1>7
  <2>4. Right(L[n].g, mis2) => GlobalSees(T, L[n].g, "$ScriptName$", L[n].s)
    BY <1>7, <1>10, <2>3 DEF Right
  <2>5. mis2 \subseteq 0 .. Len(T.globals) /\ mis \subseteq mis2
    BY <1>7, <1>10, <2>3
  <2>6. S \subseteq {"last", "x"} /\ G \subseteq {"$ScriptName$"}
    BY <2>1
  <2>7. Fitting(T, B, bad, mis2)
    <3>1. A[n + 1].kind \in {"try", "EvalOop", "Import"} /\ B \in Seq(Calls) /\ Left1(A, B, n)
      BY <1>4, <1>5
    <3> QED
      BY <1>1, <2>2, <2>4, <2>5, <2>6, <3>1, LeaveEvaluated
  <2>8. Counted(T, B) /\ DepthOK(B, d)
    <3>1. Shallower(A[n + 1], d, d)
      BY <1>5 DEF Shallower
    <3> QED
      BY <1>4, <1>5, <2>2, <3>1, SharedCounts
  <2> QED
    BY <2>7, <2>8 DEF Going
<1> QED
  BY <1>3, <1>4, <1>6, <1>9, <1>10, <1>11

-------------------------------------------------------------------------------

\* What the caller of a finds in U, as CallerUndisturbed says.
Undisturbed(a, U, bad) ==
    \/ ~a.local /\ Len(U.stack) \in bad
    \/ Outside(a.kind, a.local, U) = a.before

\* What is seen of last and current_frame, for a call that has saved them.
LEMMA SeesBefore ==
    ASSUME NEW a, CallOK(a), ~a.local, a.kind \in Runtime \cup {"EvalOop", "UseVar"}, NEW U, NEW bad,
           Len(U.stack) \notin bad => Get(U, "last") = a.before[1] /\ Get(U, "current_frame") = a.before[2]
    PROVE  Undisturbed(a, U, bad)
<1>1. a.kind # "function" /\ a.before = <<a.before[1], a.before[2]>>
  BY DEF CallOK, Shaped, Runtime
<1>2. PICK v, w : v = a.before[1] /\ w = a.before[2]
  OBVIOUS
<1>3. a.before = <<v, w>>
  BY <1>1, <1>2
<1>4. ASSUME Len(U.stack) \notin bad PROVE Outside(a.kind, a.local, U) = a.before
  <2>1. Get(U, "last") = v /\ Get(U, "current_frame") = w
    BY <1>2, <1>4
  <2>2. Visible(U) = <<v, w>>
    BY <2>1 DEF Visible
  <2> QED
    BY <1>1, <1>3, <2>2 DEF Outside
<1> QED
  BY <1>4 DEF Undisturbed

\* A variable that has just been set is what Get finds.
LEMMA GetSet ==
    ASSUME NEW U \in Tables, Len(U.stack) > 0, NEW name \in Names, NEW seen, NEW v, v # Unset,
           GlobalSees(U, Len(U.globals), name, seen), LastFrame(U)[name] = v
    PROVE  Get(U, name) = v
BY GetIs DEF FrameSees

\* A filter that puts the variables back leaves them as its caller had them.
LEMMA RestoredEnds ==
    ASSUME NEW T, NEW A, NEW d, NEW bad, NEW mis, Going(T, A, d, bad, mis), A # <<>>, Last(A).kind \in Runtime,
           ~Last(A).local
    PROVE  /\ Going(RestoredFrom(T, Last(A)), Front(A), d, SpoiledAfter(T, Last(A), bad), mis)
           /\ \A bad2 : Undisturbed(Last(A), RestoredFrom(T, Last(A)), bad2)
<1>1. PICK L : Fits(L, T, A, bad, mis)
  BY DEF Going, Fitting
<1>2. PICK n \in Nat : InnermostIs(A, n)
  BY <1>1, TopCall
<1>3. PICK B : B = Front(A)
  OBVIOUS
<1>4. /\ n + 1 = Len(A) /\ Last(A) = A[n + 1] /\ CallOK(A[n + 1])
      /\ B \in Seq(Calls) /\ Left1(A, B, n) /\ A[n + 1].kind \in Runtime /\ ~A[n + 1].local
  BY <1>2, <1>3 DEF InnermostIs
<1>5. PICK U : U = RestoredFrom(T, A[n + 1])
  OBVIOUS
<1>6. /\ Writes(T, U, Contents, {})
      /\ LastFrame(U)["last"] = A[n + 1].saved[1]
      /\ LastFrame(U)["current_frame"] = A[n + 1].saved[2]
      /\ A[n + 1].saved[1] # Unset /\ A[n + 1].saved[2] # Unset
  BY <1>1, <1>4, <1>5, FitsParts, RestoredWrites
<1>7. PICK bad2 : bad2 = SpoiledAfter(T, A[n + 1], bad)
  OBVIOUS
<1>8. Fitting(U, B, bad2, mis)
  <2>1. U = Set(Set(T, "last", A[n + 1].saved[1]), "current_frame", A[n + 1].saved[2])
    BY <1>5 DEF RestoredFrom
  <2>2. bad2 = IF A[n + 1].spoiled THEN bad \cup {Len(T.stack)} ELSE bad \ {Len(T.stack)}
    BY <1>7 DEF SpoiledAfter
  <2> QED
    BY <1>1, <1>4, <2>1, <2>2, LeaveRestored
<1>9. Counted(U, B) /\ DepthOK(B, d)
  <2>1. Shallower(A[n + 1], d, d)
    BY <1>4 DEF Shallower, Runtime
  <2>2. PICK S, G : S = Contents /\ G = {}
    OBVIOUS
  <2>3. Writes(T, U, S, G)
    BY <1>6, <2>2
  <2> QED
    BY <1>4, <2>1, <2>3, SharedCounts
<1>10. Going(U, B, d, bad2, mis)
  BY <1>8, <1>9 DEF Going
<1>11. ASSUME NEW bad3 PROVE Undisturbed(A[n + 1], U, bad3)
  <2>1. PICK M : Fits(M, U, B, bad2, mis)
    BY <1>8 DEF Fitting
  <2>2. PICK l, c : GlobalSees(U, Len(U.globals), "last", l) /\ GlobalSees(U, Len(U.globals), "current_frame", c)
    <3>1. Len(B) \in Nat
      BY <2>1, FitsParts
    <3> QED
      BY <2>1, <3>1, TopLevel
  <2>3. U \in Tables /\ Len(U.stack) > 0 /\ "last" \in Names /\ "current_frame" \in Names
    BY <2>1, FitsParts, TheNames DEF Contents
  <2>4. Get(U, "last") = A[n + 1].saved[1] /\ Get(U, "current_frame") = A[n + 1].saved[2]
    BY <1>6, <2>2, <2>3, GetSet
  <2>5. A[n + 1].saved = A[n + 1].before
    BY <1>1, <1>4, TwoLevels DEF LevelOK
  <2>6. Get(U, "last") = A[n + 1].before[1] /\ Get(U, "current_frame") = A[n + 1].before[2]
    BY <2>4, <2>5
  <2> QED
    BY <1>4, <2>6, SeesBefore
<1> QED
  BY <1>3, <1>4, <1>5, <1>7, <1>10, <1>11

\* A filter that has put them back before leaves them so.
LEMMA RestingEnds ==
    ASSUME NEW T, NEW A, NEW d, NEW bad, NEW mis, Going(T, A, d, bad, mis), A # <<>>,
           Last(A).kind \in Runtime \cup {"UseVar"}, Resting(Last(A))
    PROVE  Going(T, Front(A), d, bad, mis) /\ Undisturbed(Last(A), T, bad)
<1>1. PICK L : Fits(L, T, A, bad, mis)
  BY DEF Going, Fitting
<1>2. PICK n \in Nat : InnermostIs(A, n)
  BY <1>1, TopCall
<1>3. PICK B : B = Front(A)
  OBVIOUS
<1>4. /\ n + 1 = Len(A) /\ Last(A) = A[n + 1] /\ CallOK(A[n + 1])
      /\ B \in Seq(Calls) /\ Left1(A, B, n) /\ A[n + 1].kind \in Runtime \cup {"UseVar"}
      /\ Resting(A[n + 1]) /\ ~A[n + 1].local
  BY <1>2, <1>3 DEF InnermostIs, Resting
<1>5. Fitting(T, B, bad, mis)
  BY <1>1, <1>4, LeaveResting
<1>6. Counted(T, B) /\ DepthOK(B, d)
  <2>1. Shallower(A[n + 1], d, d)
    BY <1>4 DEF Shallower, Runtime
  <2>2. PICK S, G : S = {} /\ G = {}
    OBVIOUS
  <2>3. Writes(T, T, S, G)
    BY <1>1, <2>2, FitsParts, NothingWritten
  <2> QED
    BY <1>4, <2>1, <2>3, SharedCounts
<1>7. ASSUME Len(T.stack) \notin bad
      PROVE  Get(T, "last") = A[n + 1].before[1] /\ Get(T, "current_frame") = A[n + 1].before[2]
  <2>1. n + 1 \in Nat /\ n + 1 > 0 /\ (n + 1) - 1 = n /\ n + 1 \in 1 .. Len(A)
    BY <1>4
  <2>2. /\ LevelOK(L, A, n + 1) /\ L[n].d = Len(T.stack) /\ L[n + 1].d = L[n].d
        /\ L[n + 1].c = IF A[n + 1].kind \in Runtime /\ A[n + 1].phase # "after" THEN A[n + 1].n ELSE L[n].c
    BY <1>1, <1>4, TwoLevels
  <2>3. L[n + 1].d \notin bad
    BY <1>7, <2>2
  <2>4. Get(T, "current_frame") = L[n + 1].c /\ Get(T, "last") = A[n + 1].before[1]
    BY <1>1, <1>4, <2>1, <2>3, TopLevel
  <2>5. ~A[n + 1].spoiled
    BY <1>1, <1>4, <2>1, <2>3 DEF Fits, SpoiledOK
  <2>6. A[n + 1].before[2] = L[n].c
    BY <1>4, <2>1, <2>2, <2>5 DEF LevelOK
  <2>7. L[n + 1].c = L[n].c
    BY <1>4, <2>2 DEF Resting, CallOK
  <2> QED
    BY <2>4, <2>6, <2>7
<1>8. Undisturbed(A[n + 1], T, bad)
  <2>1. A[n + 1].kind \in Runtime \cup {"EvalOop", "UseVar"}
    BY <1>4
  <2> QED
    BY <1>4, <1>7, <2>1, SeesBefore
<1> QED
  BY <1>3, <1>4, <1>5, <1>6, <1>8 DEF Going

\* A filter that forgets them leaves a spoiled frame.
LEMMA SpoilingEnds ==
    ASSUME NEW T, NEW A, NEW d, NEW bad, NEW mis, Going(T, A, d, bad, mis), A # <<>>,
           Last(A).kind \in Runtime, ~Last(A).local
    PROVE  LET bad2 == bad \cup {Len(T.stack)}
           IN  Going(T, Front(A), d, bad2, mis) /\ Undisturbed(Last(A), T, bad2)
<1>1. PICK L : Fits(L, T, A, bad, mis)
  BY DEF Going, Fitting
<1>2. PICK n \in Nat : InnermostIs(A, n)
  BY <1>1, TopCall
<1>3. PICK B, bad2 : B = Front(A) /\ bad2 = bad \cup {Len(T.stack)}
  OBVIOUS
<1>4. /\ n + 1 = Len(A) /\ Last(A) = A[n + 1] /\ CallOK(A[n + 1])
      /\ B \in Seq(Calls) /\ Left1(A, B, n) /\ A[n + 1].kind \in Runtime /\ ~A[n + 1].local
  BY <1>2, <1>3 DEF InnermostIs
<1>5. Fitting(T, B, bad2, mis)
  BY <1>1, <1>3, <1>4, LeaveSpoiling
<1>6. Counted(T, B) /\ DepthOK(B, d)
  <2>1. Shallower(A[n + 1], d, d)
    BY <1>4 DEF Shallower, Runtime
  <2>2. PICK S, G : S = {} /\ G = {}
    OBVIOUS
  <2>3. Writes(T, T, S, G)
    BY <1>1, <2>2, FitsParts, NothingWritten
  <2> QED
    BY <1>4, <2>1, <2>3, SharedCounts
<1>7. Undisturbed(A[n + 1], T, bad2)
  BY <1>3, <1>4 DEF Undisturbed
<1> QED
  BY <1>3, <1>4, <1>5, <1>6, <1>7 DEF Going

\* The frames of b = 1 filter or b = 0, of a function, are popped.
LEMMA OwnEnds ==
    ASSUME NEW T, NEW A, NEW d, NEW bad, NEW mis, Going(T, A, d, bad, mis), A # <<>>, Last(A).local,
           NEW U, NEW b, b = CallGlobals(Last(A)), Closes(T, U, b),
           NEW mis2, mis2 = IF b = 1 THEN mis \ {Len(T.globals)} ELSE mis
    PROVE  /\ Going(U, Front(A), d, bad \ {Len(T.stack)}, mis2)
           /\ \A bad2 : Undisturbed(Last(A), U, bad2)
<1>1. PICK L : Fits(L, T, A, bad, mis)
  BY DEF Going, Fitting
<1>2. PICK n \in Nat : InnermostIs(A, n)
  BY <1>1, TopCall
<1>3. PICK B, bad2, a : B = Front(A) /\ bad2 = bad \ {Len(T.stack)} /\ a = A[n + 1]
  OBVIOUS
<1>4. /\ n + 1 = Len(A) /\ Last(A) = A[n + 1] /\ CallOK(A[n + 1]) /\ CallOK(a) /\ a.local
      /\ B \in Seq(Calls) /\ Left1(A, B, n) /\ A[n + 1].local /\ b = CallGlobals(A[n + 1])
  BY <1>2, <1>3 DEF InnermostIs
<1>5. Fitting(U, B, bad2, mis2)
  BY <1>1, <1>3, <1>4, LeaveOwn
<1>6. /\ T \in Tables /\ U \in Tables /\ Len(T.stack) \in Nat /\ Len(T.globals) \in Nat
      /\ Len(U.stack) = Len(T.stack) - 1 /\ Len(U.globals) = Len(T.globals) - b
  BY TableParts DEF Closes
<1>7. b \in {0, 1} /\ CallFrames(A[n + 1]) = 1
  BY <1>4 DEF CallFrames, CallGlobals
<1>8. Counted(U, B) /\ DepthOK(B, d)
  <2>1. Shallower(A[n + 1], d, d)
    BY <1>4 DEF Shallower, CallOK
  <2>2. Len(T.stack) = Len(U.stack) + 1 /\ Len(T.globals) = Len(U.globals) + b
    BY <1>6, <1>7
  <2>3. /\ Len(T.stack) = Len(U.stack) + CallFrames(A[n + 1])
        /\ Len(T.globals) = Len(U.globals) + CallGlobals(A[n + 1])
    BY <1>4, <1>7, <2>2
  <2>4. Counted(T, A) /\ DepthOK(A, d)
    BY DEF Going
  <2> QED
    BY <1>4, <1>6, <2>1, <2>3, <2>4, LeaveCounts
<1>9. Outside(a.kind, a.local, U) = a.before
  <2>1. n + 1 \in 1 .. Len(A) /\ (n + 1) - 1 = n /\ n \in 0 .. Len(A)
    BY <1>4
  <2>2. KeptAt(L, T, A, n + 1)
    BY <1>1, <2>1 DEF Fits, Kept
  <2>3. /\ T.stack[L[n].d] = a.before[1]
        /\ a.kind # "function" => /\ Len(a.before[2]) = L[n].g /\ T.top = a.before[3]
                                  /\ \A i \in 1 .. L[n].g : T.globals[i] = a.before[2][i]
    BY <1>3, <1>4, <2>1, <2>2 DEF KeptAt
  <2>4. PICK x \in Nat \ {0}, g \in Nat : x = L[n].d /\ g = L[n].g
    BY <1>1, <2>1, LevelTypes, FitsParts
  <2>5. Len(T.stack) = x + 1 /\ Len(T.globals) = g + b
    <3>1. L[n + 1].d = x + 1 /\ L[n + 1].g = g + b
      <4>1. LevelOK(L, A, n + 1)
        BY <1>1, <2>1 DEF Fits, Levels
      <4> QED
        BY <1>4, <1>7, <2>1, <2>4, <4>1 DEF LevelOK
    <3> QED
      BY <1>1, <1>4, <3>1, FitsParts
  <2>6. Len(U.stack) = x /\ Len(U.globals) = g
    BY <1>6, <1>7, <2>4, <2>5
  <2>7. Last(U.stack) = a.before[1]
    <3>1. x \in 1 .. Len(U.stack)
      BY <2>4, <2>6
    <3>2. U.stack[x] = T.stack[x]
      BY <3>1 DEF Closes
    <3> QED
      BY <2>3, <2>4, <2>6, <3>2 DEF Last
  <2>8. CASE a.kind = "function"
    <3>1. a.before = <<a.before[1]>>
      BY <1>4, <2>8 DEF CallOK, Shaped
    <3>2. PICK f : f = a.before[1] /\ f = Last(U.stack)
      BY <2>7
    <3>3. a.before = <<f>> /\ <<Last(U.stack)>> = <<f>>
      BY <3>1, <3>2
    <3> QED
      BY <2>8, <3>3 DEF Outside
  <2>9. CASE a.kind # "function"
    <3>1. a.before = <<a.before[1], a.before[2], a.before[3]>> /\ a.before[2] \in Seq(Frames)
      BY <1>4, <2>9 DEF CallOK, Shaped
    <3>2. PICK f, s, t : f = a.before[1] /\ s = a.before[2] /\ t = a.before[3]
      OBVIOUS
    <3>3. U.top = t /\ \A i \in 1 .. g : U.globals[i] = T.globals[i]
      BY <2>3, <2>6, <2>9, <3>2 DEF Closes
    <3>4. U.globals = s
      <4>1. U.globals \in Seq(Frames) /\ s \in Seq(Frames) /\ Len(U.globals) = g /\ Len(s) = g
        BY <1>6, <2>3, <2>4, <2>6, <2>9, <3>1, <3>2, TableParts
      <4>2. \A i \in 1 .. g : U.globals[i] = s[i]
        BY <2>3, <2>4, <2>9, <3>2, <3>3
      <4> QED
        BY <4>1, <4>2
    <3>5. a.before = <<f, s, t>> /\ <<Last(U.stack), U.globals, U.top>> = <<f, s, t>>
      BY <2>7, <3>1, <3>2, <3>3, <3>4
    <3> QED
      BY <1>4, <2>9, <3>5 DEF Outside
  <2> QED
    BY <2>8, <2>9
<1>10. \A bad3 : Undisturbed(a, U, bad3)
  BY <1>9 DEF Undisturbed
<1> QED
  BY <1>3, <1>4, <1>5, <1>8, <1>10 DEF Going

\* EvalOop puts back last; current_frame has not changed.
LEMMA EvalOopRestores ==
    ASSUME NEW T, NEW A, NEW d, NEW bad, NEW mis, Going(T, A, d, bad, mis), A # <<>>, Last(A).kind = "EvalOop",
           NEW U, U = Set(T, "last", Last(A).saved[1])
    PROVE  Writes(T, U, {"last"}, {}) /\ Undisturbed(Last(A), U, bad)
<1>1. PICK L : Fits(L, T, A, bad, mis)
  BY DEF Going, Fitting
<1>2. PICK n \in Nat : InnermostIs(A, n)
  BY <1>1, TopCall
<1>3. /\ n + 1 = Len(A) /\ Last(A) = A[n + 1] /\ CallOK(A[n + 1])
      /\ A[n + 1].kind = "EvalOop" /\ ~A[n + 1].local
  BY <1>2 DEF InnermostIs, CallOK
<1>4. PICK v \in Values : v = A[n + 1].saved[1]
  BY <1>3 DEF CallOK
<1>5. "last" \in Names /\ "current_frame" \in Names /\ v # Unset
  BY TheNames DEF Contents
<1>6. T \in Tables /\ Len(T.stack) > 0
  BY <1>1, FitsParts
<1>7. U = Set(T, "last", v)
  BY <1>3, <1>4
<1>8. Writes(T, U, {"last"}, {}) /\ LastFrame(U)["last"] = v
  <2>1. PICK name \in Names : name = "last"
    BY <1>5
  <2>2. Writes(T, Set(T, name, v), {name}, {}) /\ LastFrame(Set(T, name, v))[name] = v
    BY <1>6, SetWrites
  <2> QED
    BY <1>7, <2>1, <2>2
<1>9. U \in Tables /\ Len(U.stack) > 0 /\ Len(U.stack) = Len(T.stack)
  BY <1>8 DEF Writes
<1>10. ASSUME Len(U.stack) \notin bad
       PROVE  Get(U, "last") = A[n + 1].before[1] /\ Get(U, "current_frame") = A[n + 1].before[2]
  <2>1. n + 1 \in Nat /\ n + 1 > 0 /\ (n + 1) - 1 = n /\ n + 1 \in 1 .. Len(A)
    BY <1>3
  <2>2. /\ LevelOK(L, A, n + 1) /\ L[n + 1].d = Len(T.stack) /\ L[n + 1].c = L[n].c
    <3>1. /\ LevelOK(L, A, n + 1) /\ L[n].d = Len(T.stack) /\ L[n + 1].d = L[n].d
          /\ L[n + 1].c = IF A[n + 1].kind \in Runtime /\ A[n + 1].phase # "after" THEN A[n + 1].n ELSE L[n].c
      BY <1>1, <1>3, TwoLevels
    <3>2. A[n + 1].kind \notin Runtime
      BY <1>3 DEF Runtime
    <3> QED
      BY <3>1, <3>2
  <2>3. ~A[n + 1].spoiled
    BY <1>1, <1>3, <1>9, <1>10, <2>1, <2>2 DEF Fits, SpoiledOK
  <2>4. A[n + 1].saved = A[n + 1].before /\ A[n + 1].before[2] = L[n].c
    BY <1>3, <2>1, <2>2, <2>3 DEF LevelOK
  <2>5. PICK l, f, c : l = L[n + 1].last /\ f = L[n + 1].current_frame /\ c = L[n + 1].c
    OBVIOUS
  <2>6. /\ GlobalSees(T, Len(T.globals), "last", l) /\ GlobalSees(T, Len(T.globals), "current_frame", f)
        /\ SeenAt(L, T, A, n + 1)
    <3>1. L[n + 1].d \notin bad /\ L[n + 1].g = Len(T.globals)
      BY <1>1, <1>3, <1>9, <1>10, <2>1, <2>2, TopLevel
    <3> QED
      BY <1>1, <1>3, <2>1, <2>5, <3>1, TopLevel
  <2>7. PICK G, S : G = {} /\ S = {"last"}
    OBVIOUS
  <2>8. Writes(T, U, S, G) /\ "last" \notin G /\ "current_frame" \notin G
    BY <1>8, <2>7
  <2>9. GlobalSees(U, Len(U.globals), "last", l) /\ GlobalSees(U, Len(U.globals), "current_frame", f)
    BY <1>5, <2>6, <2>8, WriteSees
  <2>10. Get(U, "last") = v
    BY <1>5, <1>8, <1>9, <2>9, GetSet
  <2>11. FrameSees(LastFrame(U), f, "current_frame", c)
    <3>1. LastFrame(U)["current_frame"] = LastFrame(T)["current_frame"]
      <4>1. "current_frame" \in Names \ S
        BY <1>5, <2>7
      <4> QED
        BY <2>8, <4>1 DEF Writes
    <3>2. FrameSees(LastFrame(T), f, "current_frame", c)
      BY <2>2, <2>5, <2>6 DEF SeenAt, LastFrame
    <3> QED
      BY <3>1, <3>2 DEF FrameSees
  <2>12. Get(U, "current_frame") = c
    BY <1>5, <1>9, <2>9, <2>11, GetIs
  <2> QED
    BY <1>4, <2>2, <2>4, <2>5, <2>10, <2>12
<1>11. Undisturbed(A[n + 1], U, bad)
  <2>1. A[n + 1].kind \in Runtime \cup {"EvalOop", "UseVar"}
    BY <1>3
  <2> QED
    BY <1>3, <1>10, <2>1, SeesBefore
<1> QED
  BY <1>3, <1>8, <1>11

-------------------------------------------------------------------------------

(* The steps                                                               *)

\* A step keeps the invariant, and the caller of a call that ends finds its
\* variables as they were.
StepOK ==
    /\ ScriptInv'
    /\ Len(act') < Len(act) /\ Inner.kind \notin {"try", "Import"} => Undisturbed(Inner, table', spoiled')

\* The parts of StepOK.
LEMMA StepIs ==
    ASSUME NEW U, NEW B, NEW e, NEW bad, NEW mis,
           table' = U, act' = B, ImportDepth' = e, spoiled' = bad, misnamed' = mis, exc' \in BOOLEAN,
           Going(U, B, e, bad, mis),
           Len(B) >= Len(act) \/ Inner.kind \in {"try", "Import"} \/ Undisturbed(Inner, U, bad),
           Len(B) \in Nat, Len(act) \in Nat
    PROVE  StepOK
<1>1. ScriptInv'
  BY DEF ScriptInv
<1>2. Len(B) >= Len(act) => ~(Len(B) < Len(act))
  OBVIOUS
<1> QED
  BY <1>1, <1>2 DEF StepOK

\* What the invariant says of the innermost call.
LEMMA GoingParts ==
    ASSUME NEW T, NEW A, NEW d, NEW bad, NEW mis, Going(T, A, d, bad, mis)
    PROVE  /\ T \in Tables /\ Len(T.stack) > 0 /\ Clean(T) /\ A \in Seq(Calls) /\ Len(A) \in Nat
           /\ d \in Nat /\ bad \subseteq 1 .. Len(T.stack) /\ mis \subseteq 0 .. Len(T.globals)
           /\ A # <<>> => /\ Last(A) \in Calls /\ CallOK(Last(A)) /\ Last(A) = A[Len(A)] /\ Len(A) > 0
                          /\ Front(A) \in Seq(Calls)
                          /\ CallGlobals(Last(A)) = 1 => Len(T.globals) > 0
<1>1. PICK L : Fits(L, T, A, bad, mis)
  BY DEF Going, Fitting
<1>2. T \in Tables /\ Len(T.stack) > 0 /\ Clean(T) /\ Len(A) \in Nat
  BY <1>1, FitsParts
<1>3. ASSUME A # <<>>
      PROVE  /\ Last(A) \in Calls /\ CallOK(Last(A)) /\ Last(A) = A[Len(A)] /\ Len(A) > 0
             /\ Front(A) \in Seq(Calls)
             /\ CallGlobals(Last(A)) = 1 => Len(T.globals) > 0
  <2>1. PICK n \in Nat : InnermostIs(A, n)
    BY <1>1, <1>3, TopCall
  <2>2. /\ n + 1 = Len(A) /\ Last(A) = A[n + 1] /\ n + 1 \in 1 .. Len(A) /\ (n + 1) - 1 = n /\ n \in 0 .. Len(A)
    BY <2>1 DEF InnermostIs
  <2>3. Levels(L, A) /\ TableOK(L, T, A)
    BY <1>1, FitsParts
  <2>4. ASSUME CallGlobals(A[n + 1]) = 1 PROVE Len(T.globals) > 0
    <3>1. Len(A) \in Nat
      BY <1>2
    <3>2. /\ \A k \in 1 .. Len(A) : CallGlobals(A[k]) = 1 => L[k - 1].g + 1 <= Len(T.globals)
          /\ \A k \in 0 .. Len(A) : L[k].g \in Nat
          /\ Len(T.globals) \in Nat
      BY <2>3, <3>1, Sizes
    <3>3. L[(n + 1) - 1].g + 1 <= Len(T.globals)
      BY <2>2, <2>4, <3>2
    <3>4. L[n].g \in Nat /\ L[n].g + 1 <= Len(T.globals)
      BY <2>2, <3>2, <3>3
    <3> QED
      BY <3>2, <3>4
  <2>5. A[n + 1] \in Calls /\ CallOK(A[n + 1]) /\ Front(A) \in Seq(Calls)
    BY <2>1 DEF InnermostIs
  <2> QED
    BY <2>2, <2>4, <2>5
<1> QED
  BY <1>1, <1>2, <1>3 DEF Fits, Going, DepthOK

\* The invariant in the present state.
LEMMA Here ==
    ASSUME ScriptInv
    PROVE  /\ exc \in BOOLEAN /\ Going(table, act, ImportDepth, spoiled, misnamed)
           /\ table \in Tables /\ Len(table.stack) > 0 /\ Clean(table) /\ act \in Seq(Calls) /\ Len(act) \in Nat
           /\ ImportDepth \in Nat
           /\ act # <<>> => /\ Inner \in Calls /\ CallOK(Inner) /\ Len(act) > 0 /\ Front(act) \in Seq(Calls)
                            /\ CallGlobals(Inner) = 1 => Len(table.globals) > 0
BY GoingParts DEF ScriptInv, Inner

\* What variables can hold.
LEMMA ValueTypes ==
    Clips \subseteq Values /\ FrameNumbers \subseteq Values /\ Files \subseteq Values /\ Plain \subseteq Values
BY ScriptAssumption

(* Statements                                                              *)

\* A step that only assigns variables in a script.
LEMMA StatementKeeps ==
    ASSUME ScriptInv, act # <<>> => Inner.phase = "script",
           NEW S, NEW G, Writes(table, table', S, G), S \subseteq {"last", "x"}, G \subseteq {"x"},
           UNCHANGED <<act, spoiled, misnamed>>, exc' \in BOOLEAN, ImportDepth' \in {ImportDepth, ImportDepth + 1}
    PROVE  StepOK
<1>1. PICK U, e : U = table' /\ e = ImportDepth'
  OBVIOUS
<1>2. Going(table, act, ImportDepth, spoiled, misnamed) /\ Len(act) \in Nat
  BY Here
<1>3. e \in {ImportDepth, ImportDepth + 1} /\ Writes(table, U, S, G)
  BY <1>1
<1>4. act # <<>> => Last(act).phase = "script"
  BY DEF Inner
<1>5. Going(U, act, e, spoiled, misnamed)
  BY <1>2, <1>3, <1>4, Statement
<1>6. Len(act) >= Len(act)
  BY <1>2
<1> QED
  BY <1>1, <1>2, <1>5, <1>6, StepIs

\* An expression with a clip as its value.
LEMMA SetsLast ==
    ASSUME ScriptInv, NEW clip \in Clips, SetLast(clip)
    PROVE  StepOK
<1>1. PICK name \in Names, v \in Values : name = "last" /\ v = clip
  BY ValueTypes, TheNames DEF Contents
<1>0. PICK S, G : S = {name} /\ G = {}
  OBVIOUS
<1>2. Writes(table, Set(table, name, v), {name}, {})
  BY Here, SetWrites
<1>3. Writes(table, table', S, G) /\ S \subseteq {"last", "x"} /\ G \subseteq {"x"}
  BY <1>0, <1>1, <1>2 DEF SetLast
<1>4. /\ act # <<>> => Inner.phase = "script"
      /\ UNCHANGED <<act, spoiled, misnamed>> /\ exc' \in BOOLEAN /\ ImportDepth' \in {ImportDepth, ImportDepth + 1}
  BY Here DEF SetLast, Evaluating
<1> QED
  BY <1>3, <1>4, StatementKeeps

\* An assignment.
LEMMA Assigns ==
    ASSUME ScriptInv, NEW val \in Plain, Assign(val)
    PROVE  StepOK
<1>1. PICK name \in Names, v \in Values : name = "x" /\ v = val
  BY ValueTypes, TheNames
<1>0. PICK S, G : S = {name} /\ G = {}
  OBVIOUS
<1>2. Writes(table, Set(table, name, v), {name}, {})
  BY Here, SetWrites
<1>3. Writes(table, table', S, G) /\ S \subseteq {"last", "x"} /\ G \subseteq {"x"}
  BY <1>0, <1>1, <1>2 DEF Assign
<1>4. /\ act # <<>> => Inner.phase = "script"
      /\ UNCHANGED <<act, spoiled, misnamed>> /\ exc' \in BOOLEAN /\ ImportDepth' \in {ImportDepth, ImportDepth + 1}
  BY Here DEF Assign, Evaluating
<1> QED
  BY <1>3, <1>4, StatementKeeps

\* An assignment to a global variable.
LEMMA AssignsGlobal ==
    ASSUME ScriptInv, NEW val \in Plain, GlobalAssign(val)
    PROVE  StepOK
<1>1. PICK name \in Names, v \in Values : name = "x" /\ v = val
  BY ValueTypes, TheNames
<1>0. PICK S, G : S = {} /\ G = {name}
  OBVIOUS
<1>2. Writes(table, SetGlobal(table, name, v), {}, {name})
  BY Here, SetGlobalWrites
<1>3. Writes(table, table', S, G) /\ S \subseteq {"last", "x"} /\ G \subseteq {"x"}
  BY <1>0, <1>1, <1>2 DEF GlobalAssign
<1>4. /\ act # <<>> => Inner.phase = "script"
      /\ UNCHANGED <<act, spoiled, misnamed>> /\ exc' \in BOOLEAN /\ ImportDepth' \in {ImportDepth, ImportDepth + 1}
  BY Here DEF GlobalAssign, Evaluating
<1> QED
  BY <1>3, <1>4, StatementKeeps

\* Import throws before it has begun.
LEMMA FailsToImport ==
    ASSUME ScriptInv, ImportFails
    PROVE  StepOK
<1>1. PICK S, G : S = {} /\ G = {}
  OBVIOUS
<1>2. Writes(table, table, S, G)
  BY <1>1, Here, NothingWritten
<1>3. Writes(table, table', S, G) /\ S \subseteq {"last", "x"} /\ G \subseteq {"x"}
  BY <1>1, <1>2 DEF ImportFails
<1>4. /\ act # <<>> => Inner.phase = "script"
      /\ UNCHANGED <<act, spoiled, misnamed>> /\ exc' \in BOOLEAN /\ ImportDepth' \in {ImportDepth, ImportDepth + 1}
  BY DEF ImportFails, Evaluating
<1> QED
  BY <1>3, <1>4, StatementKeeps

\* Only exc changes.
LEMMA ThrowsOrReports ==
    ASSUME ScriptInv, exc' \in BOOLEAN, UNCHANGED <<table, ImportDepth, act, spoiled, misnamed>>
    PROVE  StepOK
<1>1. Going(table, act, ImportDepth, spoiled, misnamed) /\ Len(act) \in Nat /\ Len(act) >= Len(act)
  BY Here
<1> QED
  BY <1>1, StepIs

(* Calls that begin                                                        *)

PhaseOK(kind, phase) ==
    /\ kind \in Evaluated => phase = "script"
    /\ kind = "UseVar" => phase = "fetch"
    /\ kind \in Runtime => phase \in {"before", "script"}

\* The last clip and the current frame are values.
LEMMA VisibleTyped ==
    ASSUME NEW T \in Tables, Len(T.stack) > 0
    PROVE  \E v \in Values, w \in Values : v = Get(T, "last") /\ w = Get(T, "current_frame") /\ Visible(T) = <<v, w>>
<1>1. "last" \in Names /\ "current_frame" \in Names
  BY TheNames DEF Contents
<1>2. PICK v \in Values, w \in Values : v = Get(T, "last") /\ w = Get(T, "current_frame")
  BY <1>1, GetTyped
<1>3. Visible(T) = <<v, w>>
  BY <1>2 DEF Visible
<1> QED
  BY <1>2, <1>3

SharedCallRecord(a, kind, phase, n, s, b, sp) ==
    a = [kind |-> kind, local |-> FALSE, phase |-> phase, main |-> FALSE, n |-> n, file |-> Undefined,
         saved |-> s, before |-> b, spoiled |-> sp]

LocalCallRecord(a, kind, phase, n, s, b, sp) ==
    a = [kind |-> kind, local |-> TRUE, phase |-> phase, main |-> FALSE, n |-> n, file |-> Undefined,
         saved |-> s, before |-> b, spoiled |-> sp]

SharedCallFields(a, kind, phase, n, s, b, sp) ==
    /\ a.kind = kind /\ ~a.local /\ a.phase = phase /\ ~a.main /\ a.n = n
    /\ a.file = Undefined /\ a.saved = s /\ a.before = b /\ a.spoiled = sp

\* The record of a call without frames of its own.
LEMMA SharedCall ==
    ASSUME NEW kind \in Kinds, NEW phase \in Phases, NEW n \in Values, NEW s \in Saved, NEW b \in Before,
           NEW sp \in BOOLEAN, NEW a, SharedCallRecord(a, kind, phase, n, s, b, sp)
    PROVE  a \in Calls /\ SharedCallFields(a, kind, phase, n, s, b, sp)
<1>1. a \in Calls
  BY TheNames DEF SharedCallRecord, Calls, Phases
<1> QED
  BY <1>1 DEF SharedCallRecord, SharedCallFields

LocalCallFields(a, kind, phase, n, s, b, sp) ==
    /\ a.kind = kind /\ a.local /\ a.phase = phase /\ ~a.main /\ a.n = n
    /\ a.file = Undefined /\ a.saved = s /\ a.before = b /\ a.spoiled = sp

\* The record of a call with frames of its own.
LEMMA LocalCall ==
    ASSUME NEW kind \in Kinds, NEW phase \in Phases, NEW n \in Values, NEW s \in Saved, NEW b \in Before,
           NEW sp \in BOOLEAN, NEW a, LocalCallRecord(a, kind, phase, n, s, b, sp)
    PROVE  a \in Calls /\ LocalCallFields(a, kind, phase, n, s, b, sp)
<1>1. a \in Calls
  BY TheNames DEF LocalCallRecord, Calls, Phases
<1> QED
  BY <1>1 DEF LocalCallRecord, LocalCallFields

Fresh(a, kind, n) ==
    /\ a \in Calls /\ NewCall(table, act, Len(act), a, spoiled)
    /\ a.kind = kind /\ a.n = n /\ ~a.main

NewRecord(a, kind, local, phase, n) == a = [Activity(kind, local, phase) EXCEPT !.n = n]

\* Activity for a call without frames of its own.
LEMMA SharedActivity ==
    ASSUME ScriptInv, NEW kind \in Kinds \ {"function", "Import"}, NEW phase \in Phases, PhaseOK(kind, phase),
           NEW n \in Values, kind \in Evaluated /\ act # <<>> => Inner.phase = "script",
           NEW a, NewRecord(a, kind, FALSE, phase, n)
    PROVE  Fresh(a, kind, n)
<1>1. table \in Tables /\ Len(table.stack) > 0 /\ act \in Seq(Calls) /\ Len(act) \in Nat
  BY Here
<1>2. PICK v \in Values, w \in Values :
        v = Get(table, "last") /\ w = Get(table, "current_frame") /\ Visible(table) = <<v, w>>
  BY <1>1, VisibleTyped
<1>3. PICK s : s = IF kind = "try" THEN <<>> ELSE <<v, w>>
  OBVIOUS
<1>33. PICK sp : sp = (Len(table.stack) \in spoiled)
  OBVIOUS
<1>34. sp \in BOOLEAN
  BY <1>33
<1>4. s \in Seq(Values)
  BY <1>2, <1>3
<1>5. SharedCallRecord(a, kind, phase, n, s, s, sp)
  BY <1>2, <1>3, <1>33 DEF SharedCallRecord, NewRecord, Activity, Outside, Depth
<1>55. kind \in Kinds /\ s \in Saved /\ s \in Before
  BY <1>4, TheNames DEF Saved, Before
<1>6. a \in Calls /\ SharedCallFields(a, kind, phase, n, s, s, sp)
  BY <1>34, <1>5, <1>55, SharedCall
<1>7. /\ a.kind = kind /\ ~a.local /\ a.phase = phase /\ ~a.main /\ a.n = n /\ a.file = Undefined
      /\ a.saved = s /\ a.before = s /\ a.spoiled = sp
  BY <1>6 DEF SharedCallFields
<1>8. kind \in Runtime \cup {"EvalOop", "UseVar"} => s = <<v, w>> /\ s[1] = v /\ s[2] = w
  BY <1>3 DEF Runtime
<1>9. CallOK(a)
  <2>1. Shaped(a)
    <3>1. kind \in Runtime \cup {"EvalOop", "UseVar"} => s = <<s[1], s[2]>>
      BY <1>8
    <3> QED
      BY <1>7, <3>1 DEF Shaped
  <2>2. kind \in Runtime => phase \in {"before", "script", "message", "after"}
    BY DEF PhaseOK
  <2>3. kind \in Runtime \cup {"EvalOop"} => s[1] \in Values /\ s[2] \in Values
    BY <1>2, <1>8
  <2>4. kind # "function" /\ kind # "Import" /\ kind \in Kinds
    OBVIOUS
  <2>5. (kind \in Evaluated => phase = "script") /\ (kind = "UseVar" => phase = "fetch")
    BY DEF PhaseOK
  <2>6. a.local \in BOOLEAN
    BY <1>6 DEF Calls
  <2> QED
    BY <1>7, <2>1, <2>2, <2>3, <2>4, <2>5, <2>6 DEF CallOK
<1>10. NewCall(table, act, Len(act), a, spoiled)
  <2>1. a.phase # "after"
    BY <1>7 DEF PhaseOK, Kinds, Evaluated
  <2>2. a.kind \in Evaluated /\ Len(act) > 0 => act[Len(act)].phase = "script"
    <3>1. Len(act) > 0 => act # <<>>
      BY <1>1
    <3>2. Inner = act[Len(act)]
      BY DEF Inner, Last
    <3> QED
      BY <1>7, <3>1, <3>2
  <2>3. a.n \in Values /\ a.file \in Values
    BY <1>7, TheNames
  <2>4. /\ a.kind \in Runtime \cup {"EvalOop", "UseVar"} =>
             a.before[1] = Get(table, "last") /\ a.before[2] = Get(table, "current_frame")
        /\ a.kind \in Runtime \cup {"EvalOop"} => a.saved = a.before
    BY <1>2, <1>7, <1>8
  <2>5. ~a.local
    BY <1>7
  <2>6. a.spoiled = (Len(table.stack) \in spoiled)
    BY <1>33, <1>7
  <2> QED
    BY <1>9, <2>1, <2>2, <2>3, <2>4, <2>5, <2>6 DEF NewCall
<1> QED
  BY <1>6, <1>7, <1>10 DEF Fresh

\* Activity for a call with frames of its own.
LEMMA OwnActivity ==
    ASSUME ScriptInv, NEW kind \in Runtime \cup {"function", "UseVar"}, NEW phase \in Phases, PhaseOK(kind, phase),
           NEW n \in Values, kind = "function" /\ act # <<>> => Inner.phase = "script",
           NEW a, NewRecord(a, kind, TRUE, phase, n)
    PROVE  /\ a \in Calls /\ OwnCall(table, act, Len(act), a)
           /\ a.kind = kind /\ a.local /\ a.n = n
<1>1. table \in Tables /\ Len(table.stack) > 0 /\ act \in Seq(Calls) /\ Len(act) \in Nat
  BY Here
<1>2. PICK f, s, t : f = Last(table.stack) /\ s = table.globals /\ t = table.top
  OBVIOUS
<1>3. f \in Frames /\ s \in Seq(Frames) /\ t \in Frames /\ f = table.stack[Len(table.stack)]
  BY <1>1, <1>2, TableParts DEF Last
<1>4. PICK b : b = IF kind = "function" THEN <<f>> ELSE <<f, s, t>>
  OBVIOUS
<1>44. PICK sp : sp = (Len(table.stack) \in spoiled)
  OBVIOUS
<1>45. sp \in BOOLEAN
  BY <1>44
<1>5. b \in Before
  BY <1>3, <1>4 DEF Before
<1>6. kind # "try" /\ kind \in Kinds
  BY DEF Runtime, Kinds
<1>66. PICK e : e = <<>>
  OBVIOUS
<1>7. LocalCallRecord(a, kind, phase, n, e, b, sp)
  BY <1>2, <1>4, <1>44, <1>6, <1>66 DEF LocalCallRecord, NewRecord, Activity, Outside, Depth
<1>77. e \in Saved
  BY <1>66 DEF Saved
<1>8. a \in Calls /\ LocalCallFields(a, kind, phase, n, e, b, sp)
  BY <1>45, <1>5, <1>6, <1>7, <1>77, LocalCall
<1>9. a.kind = kind /\ a.local /\ a.phase = phase /\ ~a.main /\ a.n = n /\ a.before = b
  BY <1>8 DEF LocalCallFields
<1>10. CallOK(a)
  <2>1. kind \notin {"try", "EvalOop", "Import"} /\ (kind \in Evaluated => kind = "function")
    BY DEF Runtime, Evaluated
  <2>2. Shaped(a)
    <3>1. kind = "function" => b = <<b[1]>>
      BY <1>4
    <3>2. kind # "function" => b = <<b[1], b[2], b[3]>> /\ b[2] \in Seq(Frames)
      BY <1>3, <1>4
    <3> QED
      BY <1>9, <3>1, <3>2 DEF Shaped
  <2> QED
    BY <1>6, <1>9, <2>1, <2>2 DEF CallOK, PhaseOK
<1>11. OwnCall(table, act, Len(act), a)
  <2>1. a.kind \in Evaluated /\ Len(act) > 0 => act[Len(act)].phase = "script"
    <3>1. kind \in Evaluated => kind = "function"
      BY DEF Runtime, Evaluated
    <3> QED
      <4>1. Len(act) > 0 => act # <<>>
        BY <1>1
      <4>2. Inner = act[Len(act)]
        BY DEF Inner, Last
      <4> QED
        BY <1>9, <3>1, <4>1, <4>2
  <2>2. b[1] = f /\ (kind # "function" => b[2] = s /\ b[3] = t)
    BY <1>4
  <2> QED
    BY <1>2, <1>3, <1>9, <1>10, <2>1, <2>2 DEF OwnCall
<1> QED
  BY <1>8, <1>9, <1>11

-------------------------------------------------------------------------------

\* A step that begins a call.
LEMMA Begun ==
    ASSUME ScriptInv, NEW U, NEW a \in Calls, NEW e, Going(U, Append(act, a), e, spoiled, misnamed),
           table' = U, act' = Append(act, a), ImportDepth' = e, UNCHANGED <<spoiled, misnamed>>, exc' \in BOOLEAN
    PROVE  StepOK
<1>1. PICK B : B = Append(act, a)
  OBVIOUS
<1>2. act \in Seq(Calls) /\ Len(act) \in Nat
  BY Here
<1>3. Len(B) = Len(act) + 1
  BY <1>1, <1>2
<1>4. Len(B) \in Nat /\ Len(B) >= Len(act)
  BY <1>2, <1>3
<1>5. Going(U, B, e, spoiled, misnamed) /\ act' = B
  BY <1>1
<1> QED
  BY <1>2, <1>4, <1>5, StepIs

\* A step inside the innermost call.
LEMMA GoneOn ==
    ASSUME ScriptInv, NEW U, NEW B, NEW e, NEW bad, NEW mis, Going(U, B, e, bad, mis), Len(B) = Len(act),
           table' = U, act' = B, ImportDepth' = e, spoiled' = bad, misnamed' = mis, exc' \in BOOLEAN
    PROVE  StepOK
<1>1. Len(act) \in Nat /\ Len(B) \in Nat /\ Len(B) >= Len(act)
  BY Here
<1> QED
  BY <1>1, StepIs

\* A step that ends the innermost call.
LEMMA Over ==
    ASSUME ScriptInv, NEW U, NEW e, NEW bad, NEW mis, Going(U, Front(act), e, bad, mis),
           table' = U, act' = Front(act), ImportDepth' = e, spoiled' = bad, misnamed' = mis, exc' \in BOOLEAN,
           Inner.kind \in {"try", "Import"} \/ Undisturbed(Inner, U, bad)
    PROVE  StepOK
<1>1. PICK B : B = Front(act)
  OBVIOUS
<1>2. Going(U, B, e, bad, mis) /\ act' = B
  BY <1>1
<1>3. Len(B) \in Nat
  BY <1>2, GoingParts
<1>4. Len(act) \in Nat
  BY Here
<1> QED
  BY <1>2, <1>3, <1>4, StepIs

\* An action that begins a call without frames of its own.
LEMMA SharedStarts ==
    ASSUME ScriptInv, NEW kind \in Kinds \ {"function", "Import"}, NEW phase \in Phases, PhaseOK(kind, phase),
           NEW n \in Values, kind \in Evaluated /\ act # <<>> => Inner.phase = "script",
           NEW S, NEW G, Writes(table, table', S, G), S \subseteq Contents \cup {"x"}, G \subseteq {"x"},
           kind \in Runtime => LastFrame(table')["current_frame"] = n,
           kind \notin Runtime => "current_frame" \notin S,
           kind = "UseVar" => "last" \notin S,
           act' = Append(act, [Activity(kind, FALSE, phase) EXCEPT !.n = n]),
           UNCHANGED <<ImportDepth, spoiled, misnamed>>, exc' \in BOOLEAN
    PROVE  StepOK
<1>1. PICK a : a = [Activity(kind, FALSE, phase) EXCEPT !.n = n]
  OBVIOUS
<1>2. /\ a \in Calls /\ NewCall(table, act, Len(act), a, spoiled)
      /\ a.kind = kind /\ a.n = n /\ ~a.main
  <2>1. NewRecord(a, kind, FALSE, phase, n)
    BY <1>1 DEF NewRecord
  <2>2. Fresh(a, kind, n)
    BY <2>1, SharedActivity
  <2> QED
    BY <2>2 DEF Fresh
<1>3. PICK U, e : U = table' /\ e = ImportDepth
  OBVIOUS
<1>4. Going(table, act, ImportDepth, spoiled, misnamed)
  BY Here
<1>5. CallWrites(table, U, a, S, G)
  <2>1. Writes(table, U, S, G) /\ G \subseteq ScriptNames \cup {"x"}
    BY <1>3
  <2>2. IF a.kind \in Runtime THEN LastFrame(U)["current_frame"] = a.n ELSE "current_frame" \notin S
    BY <1>2, <1>3
  <2>3. "$ScriptName$" \notin G /\ "$MainScriptName$" \notin G /\ a.kind # "Import"
    BY <1>2
  <2> QED
    BY <1>2, <2>1, <2>2, <2>3 DEF CallWrites
<1>6. Starts(a, ImportDepth, e)
  BY <1>2, <1>3 DEF Starts
<1>7. Going(U, Append(act, a), e, spoiled, misnamed)
  BY <1>2, <1>4, <1>5, <1>6, SharedBegins
<1>8. act' = Append(act, a)
  BY <1>1
<1>9. table' = U /\ ImportDepth' = e
  BY <1>3
<1> QED
  BY <1>2, <1>7, <1>8, <1>9, Begun

\* An action that begins a call with frames of its own.
LEMMA OwnStarts ==
    ASSUME ScriptInv, NEW kind \in Runtime \cup {"function", "UseVar"}, NEW phase \in Phases, PhaseOK(kind, phase),
           NEW n \in Values, kind = "function" /\ act # <<>> => Inner.phase = "script",
           NEW b, b = IF kind = "function" THEN 0 ELSE 1, Opens(table, table', b), NEW child \in Values,
           kind \in Runtime => GlobalFrame(table')["last"] = child /\ GlobalFrame(table')["current_frame"] = n,
           kind = "UseVar" => GlobalFrame(table')["last"] = Unset /\ GlobalFrame(table')["current_frame"] = Unset,
           act' = Append(act, [Activity(kind, TRUE, phase) EXCEPT !.n = n]),
           UNCHANGED <<ImportDepth, spoiled, misnamed>>, exc' \in BOOLEAN
    PROVE  StepOK
<1>1. PICK a : a = [Activity(kind, TRUE, phase) EXCEPT !.n = n]
  OBVIOUS
<1>2. /\ a \in Calls /\ OwnCall(table, act, Len(act), a)
      /\ a.kind = kind /\ a.local /\ a.n = n
  <2>1. NewRecord(a, kind, TRUE, phase, n)
    BY <1>1 DEF NewRecord
  <2> QED
    BY <2>1, OwnActivity
<1>3. PICK U, e : U = table' /\ e = ImportDepth
  OBVIOUS
<1>4. Going(table, act, e, spoiled, misnamed)
  BY <1>3, Here
<1>5. OwnGlobals(U, a, child)
  BY <1>2, <1>3 DEF OwnGlobals
<1>6. b = CallGlobals(a) /\ Opens(table, U, b)
  BY <1>2, <1>3 DEF CallGlobals
<1>7. Going(U, Append(act, a), e, spoiled, misnamed)
  BY <1>2, <1>4, <1>5, <1>6, OwnBegins
<1>8. act' = Append(act, a)
  BY <1>1
<1>9. table' = U /\ ImportDepth' = e
  BY <1>3
<1> QED
  BY <1>2, <1>7, <1>8, <1>9, Begun

\* A new call without a frame number.
LEMMA SameActivity ==
    ASSUME NEW kind, NEW local, NEW phase
    PROVE  Activity(kind, local, phase) = [Activity(kind, local, phase) EXCEPT !.n = Undefined]
<1>1. PICK s : s = IF kind = "try" \/ local THEN <<>> ELSE Visible(table)
  OBVIOUS
<1>2. PICK b : b = IF kind = "try" THEN <<>> ELSE Outside(kind, local, table)
  OBVIOUS
<1>3. PICK sp : sp = (Depth(table) \in spoiled)
  OBVIOUS
<1>4. PICK no : no = FALSE
  OBVIOUS
<1>5. Activity(kind, local, phase) =
        [kind |-> kind, local |-> local, phase |-> phase, main |-> no, n |-> Undefined, file |-> Undefined,
         saved |-> s, before |-> b, spoiled |-> sp]
  BY <1>1, <1>2, <1>3, <1>4 DEF Activity
<1> QED
  BY <1>5

\* What a call may set in its frames without hiding what its caller has.
Harmless(b, S, G) ==
    S \cap (Contents \cup ScriptNames) = {} /\ G \cap ScriptNames = {} /\ (b = 0 => G = {})

\* A push and the assignments after it.
LEMMA OpensAndWrites ==
    ASSUME NEW T, NEW W, NEW U, NEW b \in {0, 1}, NEW S, NEW G, Opens(T, W, b), Writes(W, U, S, G), Harmless(b, S, G)
    PROVE  Opens(T, U, b)
<1>1. S \cap (Contents \cup ScriptNames) = {}
  BY DEF Harmless
<1>2. G \cap ScriptNames = {}
  BY DEF Harmless
<1>3. b = 0 => G = {}
  BY DEF Harmless
<1> QED
  BY <1>1, <1>2, <1>3, OpensThenWrites

\* ScriptFunction::Execute pushes a frame and sets the parameter.
LEMMA CallsFunction ==
    ASSUME ScriptInv, NEW val \in Plain, CallFunction(val)
    PROVE  StepOK
<1>1. PICK name \in Names, v \in Values : name = "x" /\ v = val
  BY ValueTypes, TheNames
<1>2. PICK W, S, G : W = Push(table) /\ S = {name} /\ G = {}
  OBVIOUS
<1>22. PICK b \in {0, 1} : b = 0
  OBVIOUS
<1>3. Opens(table, W, b)
  BY <1>2, <1>22, Here, PushOpens
<1>4. W \in Tables /\ Len(W.stack) > 0
  BY <1>3, Here DEF Opens
<1>5. Writes(W, Set(W, name, v), {name}, {})
  BY <1>4, SetWrites
<1>6. PICK U : U = Set(W, name, v)
  OBVIOUS
<1>7. Writes(W, U, S, G)
  BY <1>2, <1>22, <1>5, <1>6
<1>8. Harmless(b, S, G)
  BY <1>1, <1>2 DEF Harmless, Contents, ScriptNames
<1>9. Opens(table, U, b)
  BY <1>3, <1>7, <1>8, OpensAndWrites
<1>10. Opens(table, table', b) /\ Undefined \in Values
  BY <1>1, <1>2, <1>22, <1>6, <1>9, TheNames DEF CallFunction
<1>11. PICK kind \in Runtime \cup {"function", "UseVar"} : kind = "function"
  OBVIOUS
<1>12. PICK phase \in Phases : phase = "script"
  BY DEF Phases
<1>13. PhaseOK(kind, phase) /\ kind \notin Runtime /\ kind # "UseVar" /\ b = IF kind = "function" THEN 0 ELSE 1
  BY <1>2, <1>22, <1>11, <1>12 DEF PhaseOK, Runtime
<1>14. act' = Append(act, [Activity(kind, TRUE, phase) EXCEPT !.n = Undefined])
  BY <1>11, <1>12, SameActivity DEF CallFunction, Enter
<1>15. /\ act # <<>> => Inner.phase = "script"
       /\ UNCHANGED <<ImportDepth, spoiled, misnamed>> /\ exc' \in BOOLEAN
  BY Here DEF CallFunction, Evaluating
<1> QED
  BY <1>10, <1>13, <1>14, <1>15, OwnStarts

\* A try block begins.
LEMMA Tries ==
    ASSUME ScriptInv, Try
    PROVE  StepOK
<1>1. PICK S, G : S = {} /\ G = {}
  OBVIOUS
<1>2. Writes(table, table, S, G)
  BY <1>1, Here, NothingWritten
<1>3. Writes(table, table', S, G) /\ S \subseteq Contents \cup {"x"} /\ G \subseteq {"x"}
  BY <1>1, <1>2 DEF Try
<1>4. PICK kind \in Kinds \ {"function", "Import"} : kind = "try"
  BY DEF Kinds
<1>5. PICK phase \in Phases : phase = "script"
  BY DEF Phases
<1>6. PhaseOK(kind, phase) /\ kind \notin Runtime /\ kind # "UseVar" /\ "current_frame" \notin S
  BY <1>1, <1>4, <1>5 DEF PhaseOK, Runtime
<1>7. act' = Append(act, [Activity(kind, FALSE, phase) EXCEPT !.n = Undefined])
  BY <1>4, <1>5, SameActivity DEF Try, Enter
<1>8. /\ act # <<>> => Inner.phase = "script"
      /\ UNCHANGED <<ImportDepth, spoiled, misnamed>> /\ exc' \in BOOLEAN /\ Undefined \in Values
  BY Here, TheNames DEF Try, Evaluating
<1> QED
  BY <1>3, <1>6, <1>7, <1>8, SharedStarts

\* Eval on a clip begins.
LEMMA EvaluatesOop ==
    ASSUME ScriptInv, NEW clip \in Clips, EvalOop(clip)
    PROVE  StepOK
<1>1. PICK name \in Names, v \in Values : name = "last" /\ v = clip
  BY ValueTypes, TheNames DEF Contents
<1>2. PICK S, G : S = {name} /\ G = {}
  OBVIOUS
<1>3. Writes(table, Set(table, name, v), {name}, {})
  BY Here, SetWrites
<1>4. Writes(table, table', S, G) /\ S \subseteq Contents \cup {"x"} /\ G \subseteq {"x"}
  BY <1>1, <1>2, <1>3 DEF EvalOop, Contents
<1>5. PICK kind \in Kinds \ {"function", "Import"} : kind = "EvalOop"
  BY DEF Kinds
<1>6. PICK phase \in Phases : phase = "script"
  BY DEF Phases
<1>7. PhaseOK(kind, phase) /\ kind \notin Runtime /\ kind # "UseVar" /\ "current_frame" \notin S
  BY <1>1, <1>2, <1>5, <1>6 DEF PhaseOK, Runtime
<1>8. act' = Append(act, [Activity(kind, FALSE, phase) EXCEPT !.n = Undefined])
  BY <1>5, <1>6, SameActivity DEF EvalOop, Enter
<1>9. /\ act # <<>> => Inner.phase = "script"
      /\ UNCHANGED <<ImportDepth, spoiled, misnamed>> /\ exc' \in BOOLEAN /\ Undefined \in Values
  BY Here, TheNames DEF EvalOop, Evaluating
<1> QED
  BY <1>4, <1>7, <1>8, <1>9, SharedStarts

\* GetFrame of a filter that uses the variables of its caller.
LEMMA GetsFrameShared ==
    ASSUME ScriptInv, NEW filter \in Runtime, NEW n \in FrameNumbers, NEW child \in Clips,
           NEW phase \in {"before", "script"}, GetFrame(filter, FALSE, n, child, phase)
    PROVE  StepOK
<1>1. PICK v \in Values, w \in Values : v = child /\ w = n
  BY ValueTypes
<1>2. PICK S, G : S = Contents /\ G = {}
  OBVIOUS
<1>3. PICK U : U = Set(Set(table, "last", v), "current_frame", w)
  OBVIOUS
<1>4. Writes(table, U, Contents, {}) /\ LastFrame(U)["current_frame"] = w
  BY <1>3, Here, RestoreWrites
<1>5. table' = U
  BY <1>1, <1>3 DEF GetFrame, RuntimeVariables
<1>6. Writes(table, table', S, G) /\ S \subseteq Contents \cup {"x"} /\ G \subseteq {"x"}
  BY <1>2, <1>4, <1>5
<1>7. filter \in Kinds \ {"function", "Import"} /\ filter # "UseVar" /\ filter \notin Evaluated /\ phase \in Phases
  BY DEF Kinds, Runtime, Evaluated, Phases
<1>8. PhaseOK(filter, phase)
  BY <1>7 DEF PhaseOK
<1>9. LastFrame(table')["current_frame"] = w
  BY <1>4, <1>5
<1>10. act' = Append(act, [Activity(filter, FALSE, phase) EXCEPT !.n = w])
  BY <1>1 DEF GetFrame, Enter
<1>11. UNCHANGED <<ImportDepth, spoiled, misnamed>> /\ exc' \in BOOLEAN
  BY Here DEF GetFrame
<1> QED
  BY <1>6, <1>7, <1>8, <1>9, <1>10, <1>11, SharedStarts

\* The two variables go to the new global frame.
LEMMA OwnVariables ==
    ASSUME NEW W \in Tables, Len(W.stack) > 0, NEW v \in Values, NEW w \in Values,
           NEW U, U = SetGlobal(SetGlobal(W, "last", v), "current_frame", w)
    PROVE  /\ Writes(W, U, {}, Contents)
           /\ GlobalFrame(U)["last"] = v /\ GlobalFrame(U)["current_frame"] = w
<1>1. PICK name \in Names, other \in Names : name = "last" /\ other = "current_frame"
  BY TheNames DEF Contents
<1>2. PICK V : V = SetGlobal(W, name, v)
  OBVIOUS
<1>3. Writes(W, V, {}, {name}) /\ GlobalFrame(V)[name] = v
  BY <1>2, SetGlobalWrites
<1>4. V \in Tables /\ Len(V.stack) > 0
  BY <1>3 DEF Writes
<1>5. U = SetGlobal(V, other, w)
  BY <1>1, <1>2
<1>6. Writes(V, U, {}, {other}) /\ GlobalFrame(U)[other] = w
  <2>1. Writes(V, SetGlobal(V, other, w), {}, {other}) /\ GlobalFrame(SetGlobal(V, other, w))[other] = w
    BY <1>4, SetGlobalWrites
  <2> QED
    BY <1>5, <2>1
<1>7. Writes(W, U, {} \cup {}, {name} \cup {other})
  BY <1>3, <1>6, WritesTwice
<1>8. {} \cup {} = {} /\ {name} \cup {other} = Contents
  BY <1>1 DEF Contents
<1>9. Writes(W, U, {}, Contents)
  BY <1>7, <1>8
<1>10. name \notin {other}
  BY <1>1
<1>11. GlobalFrame(U)[name] = GlobalFrame(V)[name]
  BY <1>6, <1>10, WrittenOnce
<1> QED
  BY <1>1, <1>3, <1>6, <1>9, <1>11

\* GetFrame of a filter with variables of its own.
LEMMA GetsFrameOwn ==
    ASSUME ScriptInv, NEW filter \in Runtime, NEW n \in FrameNumbers, NEW child \in Clips,
           NEW phase \in {"before", "script"}, GetFrame(filter, TRUE, n, child, phase)
    PROVE  StepOK
<1>1. PICK v \in Values, w \in Values : v = child /\ w = n
  BY ValueTypes
<1>2. PICK W, S, G : W = PushGlobal(table) /\ S = {} /\ G = Contents
  OBVIOUS
<1>22. PICK b \in {0, 1} : b = 1
  OBVIOUS
<1>3. Opens(table, W, b)
  BY <1>2, <1>22, Here, PushGlobalOpens
<1>4. W \in Tables /\ Len(W.stack) > 0
  BY <1>3, Here DEF Opens
<1>5. PICK U : U = SetGlobal(SetGlobal(W, "last", v), "current_frame", w)
  OBVIOUS
<1>6. Writes(W, U, {}, Contents) /\ GlobalFrame(U)["last"] = v /\ GlobalFrame(U)["current_frame"] = w
  BY <1>4, <1>5, OwnVariables
<1>7. Writes(W, U, S, G)
  BY <1>2, <1>6
<1>77. Harmless(b, S, G)
  BY <1>2, <1>22 DEF Harmless, Contents, ScriptNames
<1>8. Opens(table, U, b)
  BY <1>3, <1>7, <1>77, OpensAndWrites
<1>9. table' = U
  BY <1>1, <1>2, <1>22, <1>5 DEF GetFrame, RuntimeVariables
<1>10. Opens(table, table', b) /\ GlobalFrame(table')["last"] = v /\ GlobalFrame(table')["current_frame"] = w
  BY <1>6, <1>8, <1>9
<1>11. /\ filter \in Runtime \cup {"function", "UseVar"} /\ filter # "UseVar" /\ filter # "function"
       /\ filter \notin Evaluated /\ phase \in Phases
  BY DEF Kinds, Runtime, Evaluated, Phases
<1>12. PhaseOK(filter, phase) /\ b = IF filter = "function" THEN 0 ELSE 1
  BY <1>2, <1>22, <1>11 DEF PhaseOK
<1>13. act' = Append(act, [Activity(filter, TRUE, phase) EXCEPT !.n = w])
  BY <1>1 DEF GetFrame, Enter
<1>14. UNCHANGED <<ImportDepth, spoiled, misnamed>> /\ exc' \in BOOLEAN
  BY Here DEF GetFrame
<1> QED
  BY <1>10, <1>11, <1>12, <1>13, <1>14, OwnStarts

\* ConditionalReader sets a global variable and pushes nothing.
LEMMA SetsVariableShared ==
    ASSUME ScriptInv, NEW val \in Plain, SetsVariable(FALSE, val)
    PROVE  StepOK
<1>1. PICK name \in Names, v \in Values : name = "x" /\ v = val
  BY ValueTypes, TheNames
<1>2. PICK S, G : S = {} /\ G = {name}
  OBVIOUS
<1>3. Writes(table, SetGlobal(table, name, v), {}, {name})
  BY Here, SetGlobalWrites
<1>4. Writes(table, table', S, G) /\ S \subseteq Contents \cup {"x"} /\ G \subseteq {"x"}
  BY <1>1, <1>2, <1>3 DEF SetsVariable
<1>5. PICK kind \in Kinds \ {"function", "Import"} : kind = "UseVar"
  BY DEF Kinds
<1>6. PICK phase \in Phases : phase = "fetch"
  BY DEF Phases
<1>7. /\ PhaseOK(kind, phase) /\ kind \notin Runtime /\ "current_frame" \notin S /\ "last" \notin S
      /\ kind \notin Evaluated
  BY <1>2, <1>5, <1>6 DEF PhaseOK, Runtime, Evaluated
<1>8. act' = Append(act, [Activity(kind, FALSE, phase) EXCEPT !.n = Undefined])
  BY <1>5, <1>6, SameActivity DEF SetsVariable, Enter
<1>9. UNCHANGED <<ImportDepth, spoiled, misnamed>> /\ exc' \in BOOLEAN /\ Undefined \in Values
  BY Here, TheNames DEF SetsVariable
<1> QED
  BY <1>4, <1>7, <1>8, <1>9, SharedStarts

\* UseVar opens frames for its variable.
LEMMA SetsVariableOwn ==
    ASSUME ScriptInv, NEW val \in Plain, SetsVariable(TRUE, val)
    PROVE  StepOK
<1>1. PICK name \in Names, v \in Values : name = "x" /\ v = val
  BY ValueTypes, TheNames
<1>2. PICK W, S, G : W = PushGlobal(table) /\ S = {} /\ G = {name}
  OBVIOUS
<1>22. PICK b \in {0, 1} : b = 1
  OBVIOUS
<1>3. Opens(table, W, b) /\ W.globals[Len(W.globals)] = Empty
  BY <1>2, <1>22, Here, PushGlobalOpens
<1>4. W \in Tables /\ Len(W.stack) > 0 /\ Len(W.globals) > 0
  BY <1>2, <1>22, <1>3, Here, TableParts DEF Opens
<1>5. PICK U : U = SetGlobal(W, name, v)
  OBVIOUS
<1>6. Writes(W, U, {}, {name})
  BY <1>4, <1>5, SetGlobalWrites
<1>7. Writes(W, U, S, G)
  BY <1>2, <1>6
<1>77. Harmless(b, S, G)
  BY <1>1, <1>2, <1>22 DEF Harmless, Contents, ScriptNames
<1>8. Opens(table, U, b)
  BY <1>3, <1>7, <1>77, OpensAndWrites
<1>9. \A c \in Contents : GlobalFrame(U)[c] = Unset
  <2>1. TAKE c \in Contents
  <2>2. c \in Names /\ c \notin {name}
    BY <1>1, TheNames DEF Contents
  <2>3. GlobalFrame(U)[c] = GlobalFrame(W)[c]
    BY <1>6, <2>2, WrittenOnce
  <2>4. GlobalFrame(W)[c] = Unset
    BY <1>3, <1>4, <2>2, EmptyFrame DEF GlobalFrame
  <2> QED
    BY <2>3, <2>4
<1>10. table' = U
  BY <1>1, <1>2, <1>22, <1>5 DEF SetsVariable
<1>11. Opens(table, table', b) /\ GlobalFrame(table')["last"] = Unset /\ GlobalFrame(table')["current_frame"] = Unset
  BY <1>8, <1>9, <1>10 DEF Contents
<1>12. PICK kind \in Runtime \cup {"function", "UseVar"} : kind = "UseVar"
  OBVIOUS
<1>13. PICK phase \in Phases : phase = "fetch"
  BY DEF Phases
<1>14. /\ PhaseOK(kind, phase) /\ kind \notin Runtime /\ kind # "function"
       /\ b = IF kind = "function" THEN 0 ELSE 1
  BY <1>2, <1>22, <1>12, <1>13 DEF PhaseOK, Runtime, Evaluated
<1>15. act' = Append(act, [Activity(kind, TRUE, phase) EXCEPT !.n = Undefined])
  BY <1>12, <1>13, SameActivity DEF SetsVariable, Enter
<1>16. UNCHANGED <<ImportDepth, spoiled, misnamed>> /\ exc' \in BOOLEAN /\ Undefined \in Values
  BY Here, TheNames DEF SetsVariable
<1> QED
  BY <1>11, <1>14, <1>15, <1>16, OwnStarts

ImportRecord(a, main, file, s, b, sp) ==
    a = [kind |-> "Import", local |-> FALSE, phase |-> "script", main |-> main, n |-> Undefined, file |-> file,
         saved |-> s, before |-> b, spoiled |-> sp]

ImportFields(a, main, file, s, b, sp) ==
    /\ a.kind = "Import" /\ ~a.local /\ a.phase = "script" /\ (a.main <=> main) /\ a.n = Undefined
    /\ a.file = file /\ a.saved = s /\ a.before = b /\ a.spoiled = sp

\* The record of an Import.
LEMMA ImportCall ==
    ASSUME NEW main \in BOOLEAN, NEW file \in Values, NEW s \in Saved, NEW b \in Before,
           NEW sp \in BOOLEAN, NEW a, ImportRecord(a, main, file, s, b, sp)
    PROVE  a \in Calls /\ ImportFields(a, main, file, s, b, sp)
<1>1. a \in Calls
  BY TheNames DEF ImportRecord, Calls, Phases, Kinds
<1> QED
  BY <1>1 DEF ImportRecord, ImportFields

ImportReady(a, file) ==
    /\ a \in Calls /\ NewCall(table, act, Len(act), a, spoiled)
    /\ a.kind = "Import" /\ (a.main <=> ImportDepth = 0) /\ a.file = file
    /\ a.saved[1] = Get(table, "$ScriptName$")

ImportActivity(a, file) ==
    a = [Activity("Import", FALSE, "script") EXCEPT !.main = ImportDepth = 0, !.file = file,
            !.saved = <<Get(table, "$ScriptName$")>>, !.before = <<>>]

\* An Import can begin: its record and what it knows about outer ones.
LEMMA ImportBegins ==
    ASSUME ScriptInv, NEW file \in Values, act # <<>> => Inner.phase = "script", NEW a, ImportActivity(a, file)
    PROVE  ImportReady(a, file)
<1>1. table \in Tables /\ Len(table.stack) > 0 /\ act \in Seq(Calls) /\ Len(act) \in Nat
  BY Here
<1>2. PICK v \in Values : v = Get(table, "$ScriptName$")
  <2>1. "$ScriptName$" \in Names
    BY TheNames DEF ScriptNames
  <2> QED
    BY <1>1, <2>1, GetTyped
<1>3. PICK s : s = <<v>>
  OBVIOUS
<1>4. PICK b : b = <<>>
  OBVIOUS
<1>5. PICK sp : sp = (Len(table.stack) \in spoiled)
  OBVIOUS
<1>6. PICK main \in BOOLEAN : main <=> ImportDepth = 0
  OBVIOUS
<1>7. sp \in BOOLEAN /\ s \in Saved /\ b \in Before /\ s[1] = v
  BY <1>3, <1>4, <1>5 DEF Saved, Before
<1>8. ImportRecord(a, main, file, s, b, sp)
  <2>1. PICK sv : sv = IF "Import" = "try" \/ FALSE THEN <<>> ELSE Visible(table)
    OBVIOUS
  <2>2. PICK bf : bf = IF "Import" = "try" THEN <<>> ELSE Outside("Import", FALSE, table)
    OBVIOUS
  <2>5. PICK no, kind, phase, nothing : no = FALSE /\ kind = "Import" /\ phase = "script" /\ nothing = Undefined
    OBVIOUS
  <2>6. PICK m : m = main
    OBVIOUS
  <2>3. Activity("Import", FALSE, "script") =
            [kind |-> kind, local |-> no, phase |-> phase, main |-> no, n |-> nothing,
             file |-> nothing, saved |-> sv, before |-> bf, spoiled |-> sp]
    BY <1>5, <2>1, <2>2, <2>5 DEF Activity, Depth
  <2>4. a = [Activity("Import", FALSE, "script") EXCEPT !.main = main, !.file = file, !.saved = s, !.before = b]
    BY <1>2, <1>3, <1>4, <1>6 DEF ImportActivity
  <2>7. a = [[kind |-> kind, local |-> no, phase |-> phase, main |-> no, n |-> nothing,
             file |-> nothing, saved |-> sv, before |-> bf, spoiled |-> sp]
                EXCEPT !.main = m, !.file = file, !.saved = s, !.before = b]
    BY <2>3, <2>4, <2>6
  <2>8. a = [kind |-> kind, local |-> no, phase |-> phase, main |-> m, n |-> nothing,
             file |-> file, saved |-> s, before |-> b, spoiled |-> sp]
    BY <2>7
  <2> QED
    BY <2>5, <2>6, <2>8 DEF ImportRecord
<1>9. a \in Calls /\ ImportFields(a, main, file, s, b, sp)
  BY <1>7, <1>8, ImportCall
<1>10. /\ a.kind = "Import" /\ ~a.local /\ a.phase = "script" /\ (a.main <=> main) /\ a.n = Undefined
       /\ a.file = file /\ a.saved = s /\ a.before = b /\ a.spoiled = sp
  BY <1>9 DEF ImportFields
<1>11. CallOK(a)
  <2>1. "Import" \notin Runtime /\ "Import" \in Kinds /\ "Import" \in Evaluated
    BY DEF Runtime, Kinds, Evaluated
  <2>2. a.local \in BOOLEAN
    BY <1>9 DEF Calls
  <2>3. Shaped(a)
    BY <1>10, <2>1 DEF Shaped
  <2>4. a.saved[1] \in Values
    BY <1>7, <1>10
  <2> QED
    BY <1>10, <2>1, <2>2, <2>3, <2>4 DEF CallOK
<1>12. NewCall(table, act, Len(act), a, spoiled)
  <2>1. a.kind \notin Runtime /\ a.phase # "after" /\ a.n \in Values /\ a.file \in Values
    BY <1>10, TheNames DEF Runtime
  <2>2. Len(act) > 0 => act[Len(act)].phase = "script"
    <3>1. Len(act) > 0 => act # <<>>
      BY <1>1
    <3>2. Inner = act[Len(act)]
      BY DEF Inner, Last
    <3> QED
      BY <3>1, <3>2
  <2>3. a.spoiled = (Len(table.stack) \in spoiled)
    BY <1>5, <1>10
  <2> QED
    BY <1>10, <1>11, <2>1, <2>2, <2>3 DEF NewCall
<1>13. a.saved[1] = Get(table, "$ScriptName$")
  BY <1>2, <1>7, <1>10
<1> QED
  BY <1>6, <1>9, <1>10, <1>12, <1>13 DEF ImportReady

\* Import begins.
LEMMA Imported ==
    ASSUME ScriptInv, NEW file \in Files, Import(file)
    PROVE  StepOK
<1>1. PICK f \in Values : f = file
  BY ValueTypes
<1>20. PICK a : ImportActivity(a, f)
  BY DEF ImportActivity
<1>2. act # <<>> => Inner.phase = "script"
  BY DEF Import, Evaluating
<1>3. ImportReady(a, f)
  BY <1>20, <1>2, ImportBegins
<1>4. PICK main \in BOOLEAN : main <=> ImportDepth = 0
  OBVIOUS
<1>5. PICK U, e, S, G : U = Named(table, f, main) /\ e = ImportDepth + 1 /\ S = {} /\ G = NameWrites(main)
  OBVIOUS
<1>6. /\ a \in Calls /\ NewCall(table, act, Len(act), a, spoiled)
      /\ a.kind = "Import" /\ (a.main <=> main) /\ a.file = f
      /\ a.saved[1] = Get(table, "$ScriptName$")
  BY <1>3, <1>4 DEF ImportReady
<1>7. table' = U /\ ImportDepth' = e /\ act' = Append(act, a)
  BY <1>1, <1>20, <1>4, <1>5 DEF Import, ImportActivity, Enter, Named
<1>8. /\ Writes(table, U, {}, NameWrites(main))
      /\ GlobalSees(U, Len(U.globals), "$ScriptName$", f)
      /\ main => GlobalSees(U, Len(U.globals), "$MainScriptName$", f)
  BY <1>5, Here, NamedWrites
<1>9. CallWrites(table, U, a, S, G)
  <2>1. Writes(table, U, S, G)
    BY <1>5, <1>8
  <2>2. /\ S \subseteq Contents \cup {"x"} /\ G \subseteq ScriptNames \cup {"x"} /\ "current_frame" \notin S
        /\ ~main => "$MainScriptName$" \notin G
    BY <1>5 DEF NameWrites, ScriptNames
  <2>3. a.kind \notin Runtime
    BY <1>6 DEF Runtime
  <2> QED
    BY <1>6, <1>8, <2>1, <2>2, <2>3 DEF CallWrites
<1>10. Starts(a, ImportDepth, e)
  BY <1>4, <1>5, <1>6 DEF Starts
<1>11. Going(table, act, ImportDepth, spoiled, misnamed)
  BY Here
<1>12. Going(U, Append(act, a), e, spoiled, misnamed)
  BY <1>6, <1>9, <1>10, <1>11, SharedBegins
<1>13. UNCHANGED <<spoiled, misnamed>> /\ exc' \in BOOLEAN
  BY Here DEF Import
<1> QED
  BY <1>6, <1>7, <1>12, <1>13, Begun

\* Import goes on to its next file.
LEMMA ImportsNext ==
    ASSUME ScriptInv, NEW file \in Files, ImportNext(file)
    PROVE  StepOK
<1>1. PICK f \in Values : f = file
  BY ValueTypes
<1>11. PICK B, U : FileSet(act, B, f) /\ U = Named(table, f, Inner.main)
  BY DEF FileSet
<1>2. act # <<>> /\ Inner.kind = "Import" /\ Going(table, act, ImportDepth, spoiled, misnamed)
  BY Here DEF ImportNext
<1>3. Last(act).kind = "Import" /\ U = Named(table, f, Last(act).main)
  BY <1>11, <1>2 DEF Inner
<1>4. Going(Named(table, f, Last(act).main), B, ImportDepth, spoiled, misnamed)
  BY <1>11, <1>2, <1>3, FileGoesOn
<1>5. table' = U /\ act' = B /\ ImportDepth' = ImportDepth /\ spoiled' = spoiled /\ misnamed' = misnamed
  BY <1>1, <1>11 DEF ImportNext, FileSet
<1>6. Len(B) = Len(act) /\ exc' \in BOOLEAN
  BY <1>11, Here DEF ImportNext, FileSet
<1>7. Going(U, B, ImportDepth, spoiled, misnamed)
  BY <1>3, <1>4
<1> QED
  BY <1>5, <1>6, <1>7, GoneOn

\* Import returns, or an exception passes it.
LEMMA ImportOver ==
    ASSUME ScriptInv, ImportReturns \/ ImportThrows
    PROVE  StepOK
<1>1. /\ act # <<>> /\ Inner.kind = "Import" /\ Going(table, act, ImportDepth, spoiled, misnamed)
      /\ exc' \in BOOLEAN
  BY Here DEF ImportReturns, ImportThrows
<1>2. Last(act).kind = "Import"
  BY <1>1 DEF Inner
<1>3. /\ Going(SetGlobal(table, "$ScriptName$", Last(act).saved[1]), Front(act), ImportDepth - 1, spoiled, misnamed)
      /\ Going(table, Front(act), ImportDepth, spoiled, misnamed \cup {Len(table.globals)})
  BY <1>1, <1>2, ImportEnds
<1>4. PICK U, e, mis : U = table' /\ e = ImportDepth' /\ mis = misnamed'
  OBVIOUS
<1>5. Inner.kind \in {"try", "Import"}
  BY <1>1
<1>6. Going(U, Front(act), e, spoiled, mis) /\ act' = Front(act) /\ spoiled' = spoiled
  <2>1. CASE ImportReturns
    BY <1>3, <1>4, <2>1 DEF ImportReturns, Leave, Inner
  <2>2. CASE ImportThrows
    BY <1>3, <1>4, <2>2 DEF ImportThrows, Leave, Inner
  <2> QED
    BY <2>1, <2>2
<1> QED
  BY <1>1, <1>4, <1>5, <1>6, Over

\* A try block ends, or catches.
LEMMA TryOver ==
    ASSUME ScriptInv, TryEnds
    PROVE  StepOK
<1>1. /\ act # <<>> /\ Inner.kind = "try" /\ Going(table, act, ImportDepth, spoiled, misnamed)
      /\ exc' \in BOOLEAN
  BY Here DEF TryEnds
<1>2. PICK U : U = table'
  OBVIOUS
<1>3. PICK S : Writes(table, U, S, {}) /\ S \subseteq {"last", "x"}
  <2>1. CASE UNCHANGED table
    <3>1. Writes(table, U, {}, {})
      BY <1>2, <2>1, Here, NothingWritten
    <3> QED
      BY <3>1
  <2>2. CASE \E msg \in Plain : table' = Set(table, "x", msg)
    <3>1. PICK name \in Names, v \in Values : name = "x" /\ U = Set(table, name, v)
      BY <1>2, <2>2, ValueTypes, TheNames
    <3>2. Writes(table, Set(table, name, v), {name}, {})
      BY Here, SetWrites
    <3> QED
      BY <3>1, <3>2
  <2> QED
    BY <2>1, <2>2 DEF TryEnds
<1>4. Last(act).kind \in {"try", "EvalOop"} /\ Inner.kind \in {"try", "Import"}
  BY <1>1 DEF Inner
<1>5. Going(U, Front(act), ImportDepth, spoiled, misnamed)
  BY <1>1, <1>3, <1>4, EvaluatedEnds
<1>6. act' = Front(act) /\ UNCHANGED <<ImportDepth, spoiled, misnamed>>
  BY DEF TryEnds, Leave
<1> QED
  BY <1>1, <1>2, <1>4, <1>5, <1>6, Over

\* Eval on a clip ends, or an exception passes it.
LEMMA EvalOopOver ==
    ASSUME ScriptInv, EvalOopEnds
    PROVE  StepOK
<1>1. /\ act # <<>> /\ Inner.kind = "EvalOop" /\ Going(table, act, ImportDepth, spoiled, misnamed)
      /\ exc' \in BOOLEAN
  BY Here DEF EvalOopEnds
<1>2. PICK U : U = Set(table, "last", Last(act).saved[1])
  OBVIOUS
<1>3. Last(act).kind = "EvalOop"
  BY <1>1 DEF Inner
<1>4. Writes(table, U, {"last"}, {}) /\ Undisturbed(Last(act), U, spoiled)
  BY <1>1, <1>2, <1>3, EvalOopRestores
<1>5. Last(act).kind \in {"try", "EvalOop"}
  BY <1>3
<1>6. PICK S : S = {"last"}
  OBVIOUS
<1>7. Writes(table, U, S, {}) /\ S \subseteq {"last", "x"}
  BY <1>4, <1>6
<1>8. Going(U, Front(act), ImportDepth, spoiled, misnamed)
  BY <1>1, <1>5, <1>7, EvaluatedEnds
<1>9. /\ act' = Front(act) /\ UNCHANGED <<ImportDepth, spoiled, misnamed>>
      /\ table' = U /\ Undisturbed(Inner, U, spoiled)
  BY <1>2, <1>4 DEF EvalOopEnds, Leave, Inner
<1> QED
  BY <1>1, <1>8, <1>9, Over

\* A function returns or throws.
LEMMA FunctionOver ==
    ASSUME ScriptInv, FunctionEnds
    PROVE  StepOK
<1>1. /\ act # <<>> /\ Inner.kind = "function" /\ Going(table, act, ImportDepth, spoiled, misnamed)
      /\ exc' \in BOOLEAN /\ CallOK(Inner)
  BY Here DEF FunctionEnds
<1>2. Last(act).local /\ Last(act).kind = "function"
  BY <1>1 DEF Inner, CallOK
<1>3. PICK U, b, bad : U = Pop(table) /\ b = 0 /\ bad = spoiled \ {Len(table.stack)}
  OBVIOUS
<1>4. b = CallGlobals(Last(act)) /\ (misnamed = IF b = 1 THEN misnamed \ {Len(table.globals)} ELSE misnamed)
  BY <1>2, <1>3 DEF CallGlobals
<1>5. Closes(table, U, b)
  BY <1>3, Here, PopCloses
<1>6. /\ Going(U, Front(act), ImportDepth, spoiled \ {Len(table.stack)}, misnamed)
      /\ \A bad2 : Undisturbed(Last(act), U, bad2)
  BY <1>1, <1>2, <1>4, <1>5, OwnEnds
<1>7. /\ act' = Front(act) /\ UNCHANGED <<ImportDepth, misnamed>>
      /\ table' = U /\ spoiled' = bad
  BY <1>3 DEF FunctionEnds, Leave, Depth
<1>8. Going(U, Front(act), ImportDepth, bad, misnamed) /\ Undisturbed(Inner, U, bad)
  BY <1>3, <1>6 DEF Inner
<1> QED
  BY <1>1, <1>7, <1>8, Over

\* A filter with frames of its own returns or throws.
LEMMA LocalLeaves ==
    ASSUME ScriptInv, act # <<>>, Inner.local, Inner.kind \in Runtime \cup {"UseVar"},
           FilterLeaves(table, spoiled), UNCHANGED ImportDepth, exc' \in BOOLEAN
    PROVE  StepOK
<1>1. /\ Going(table, act, ImportDepth, spoiled, misnamed) /\ table \in Tables /\ Len(table.stack) > 0
      /\ CallGlobals(Inner) = 1 => Len(table.globals) > 0
  BY Here
<1>2. Inner.kind # "function"
  BY DEF Runtime
<1>3. Last(act).local /\ CallGlobals(Last(act)) = 1 /\ CallGlobals(Inner) = 1
  BY <1>2 DEF CallGlobals, Inner
<1>4. PICK U, bad, mis : /\ U = PopGlobal(table) /\ bad = spoiled \ {Len(table.stack)}
                         /\ mis = misnamed \ {Len(table.globals)}
  OBVIOUS
<1>5. PICK b : b = 1
  OBVIOUS
<1>6. b = CallGlobals(Last(act)) /\ mis = IF b = 1 THEN misnamed \ {Len(table.globals)} ELSE misnamed
  BY <1>3, <1>4, <1>5
<1>7. Closes(table, PopGlobal(table), 1)
  BY <1>1, <1>3, PopGlobalCloses
<1>8. Closes(table, U, b)
  BY <1>4, <1>5, <1>7
<1>9. /\ Going(U, Front(act), ImportDepth, spoiled \ {Len(table.stack)}, mis)
      /\ \A bad2 : Undisturbed(Last(act), U, bad2)
  BY <1>1, <1>3, <1>6, <1>8, OwnEnds
<1>10. /\ act' = Front(act) /\ ImportDepth' = ImportDepth
       /\ table' = U /\ spoiled' = bad /\ misnamed' = mis
  BY <1>4 DEF FilterLeaves, Left, Leave, Depth
<1>11. Going(U, Front(act), ImportDepth, bad, mis) /\ Undisturbed(Inner, U, bad)
  BY <1>4, <1>9 DEF Inner
<1> QED
  BY <1>10, <1>11, Over

\* A filter restores the variables and returns or throws.
LEMMA RestoringLeaves ==
    ASSUME ScriptInv, act # <<>>, Inner.kind \in Runtime,
           FilterLeaves(Restored(table), AfterRestore), UNCHANGED ImportDepth, exc' \in BOOLEAN
    PROVE  StepOK
<1>1. CASE Inner.local
  <2>1. FilterLeaves(table, spoiled)
    BY <1>1 DEF Restored, AfterRestore
  <2> QED
    BY <1>1, <2>1, LocalLeaves
<1>2. CASE ~Inner.local
  <2>1. Going(table, act, ImportDepth, spoiled, misnamed)
    BY Here
  <2>2. Last(act).kind \in Runtime /\ ~Last(act).local
    BY <1>2 DEF Inner
  <2>3. PICK U, bad : U = RestoredFrom(table, Last(act)) /\ bad = SpoiledAfter(table, Last(act), spoiled)
    OBVIOUS
  <2>4. /\ Going(RestoredFrom(table, Last(act)), Front(act), ImportDepth, SpoiledAfter(table, Last(act), spoiled), misnamed)
        /\ \A bad2 : Undisturbed(Last(act), RestoredFrom(table, Last(act)), bad2)
    BY <2>1, <2>2, RestoredEnds
  <2>5. Going(U, Front(act), ImportDepth, bad, misnamed) /\ Undisturbed(Inner, U, bad)
    BY <2>3, <2>4 DEF Inner
  <2>6. table' = U /\ spoiled' = bad
    BY <1>2, <2>3 DEF FilterLeaves, Left, Restored, AfterRestore, RestoredFrom, SpoiledAfter, Depth, Inner
  <2>7. act' = Front(act) /\ ImportDepth' = ImportDepth /\ misnamed' = misnamed
    BY <1>2 DEF FilterLeaves, Leave
  <2> QED
    BY <2>5, <2>6, <2>7, Over
<1> QED
  BY <1>1, <1>2

\* A filter that has nothing to restore returns or throws.
LEMMA QuietlyLeaves ==
    ASSUME ScriptInv, act # <<>>, Inner.kind \in Runtime \cup {"UseVar"}, Inner.local \/ Resting(Inner),
           FilterLeaves(table, spoiled), UNCHANGED ImportDepth, exc' \in BOOLEAN
    PROVE  StepOK
<1>1. CASE Inner.local
  BY <1>1, LocalLeaves
<1>2. CASE ~Inner.local
  <2>1. Going(table, act, ImportDepth, spoiled, misnamed)
    BY Here
  <2>2. Last(act).kind \in Runtime \cup {"UseVar"} /\ Resting(Last(act))
    BY <1>2 DEF Inner
  <2>3. Going(table, Front(act), ImportDepth, spoiled, misnamed) /\ Undisturbed(Last(act), table, spoiled)
    BY <2>1, <2>2, RestingEnds
  <2>4. /\ table' = table /\ spoiled' = spoiled /\ act' = Front(act) /\ ImportDepth' = ImportDepth
        /\ misnamed' = misnamed
    BY <1>2 DEF FilterLeaves, Left, Leave
  <2>5. Undisturbed(Inner, table, spoiled)
    BY <2>3 DEF Inner
  <2> QED
    BY <2>3, <2>4, <2>5, Over
<1> QED
  BY <1>1, <1>2

\* A filter throws without restoring the variables.
LEMMA SpoilingLeaves ==
    ASSUME ScriptInv, act # <<>>, Inner.kind \in Runtime, ~Inner.local,
           FilterLeaves(table, spoiled \cup {Depth(table)}), UNCHANGED ImportDepth, exc' \in BOOLEAN
    PROVE  StepOK
<1>1. Going(table, act, ImportDepth, spoiled, misnamed)
  BY Here
<1>2. Last(act).kind \in Runtime /\ ~Last(act).local
  BY DEF Inner
<1>3. PICK bad : bad = spoiled \cup {Len(table.stack)}
  OBVIOUS
<1>4. LET bad2 == spoiled \cup {Len(table.stack)}
      IN  Going(table, Front(act), ImportDepth, bad2, misnamed) /\ Undisturbed(Last(act), table, bad2)
  BY <1>1, <1>2, SpoilingEnds
<1>5. Going(table, Front(act), ImportDepth, bad, misnamed) /\ Undisturbed(Inner, table, bad)
  BY <1>3, <1>4 DEF Inner
<1>6. /\ table' = table /\ spoiled' = bad /\ act' = Front(act) /\ ImportDepth' = ImportDepth
      /\ misnamed' = misnamed
  BY <1>3 DEF FilterLeaves, Left, Leave, Depth
<1> QED
  BY <1>5, <1>6, Over

\* A filter goes on without touching the variables.
LEMMA InNextPhase ==
    ASSUME ScriptInv, act # <<>>, Inner.kind \in Runtime, NEW p \in {"script", "message", "after"},
           Inner.local \/ (Inner.phase # "after" /\ p # "after"), InPhase(p),
           UNCHANGED <<table, spoiled, misnamed, ImportDepth>>, exc' \in BOOLEAN
    PROVE  StepOK
<1>1. Going(table, act, ImportDepth, spoiled, misnamed)
  BY Here
<1>2. Last(act).kind \in Runtime /\ (Last(act).local \/ (Last(act).phase # "after" /\ p # "after"))
  BY DEF Inner
<1>3. PICK B : PhaseSet(act, B, p)
  BY DEF PhaseSet
<1>4. Going(table, B, ImportDepth, spoiled, misnamed)
  BY <1>1, <1>2, <1>3, PhaseGoesOn
<1>5. act' = B /\ Len(B) = Len(act)
  BY <1>3, Here DEF PhaseSet, InPhase
<1> QED
  BY <1>4, <1>5, GoneOn

\* The variables are restored and the frame is fetched.
LEMMA RestoringFetches ==
    ASSUME ScriptInv, act # <<>>, Inner.kind \in Runtime, table' = Restored(table), InPhase("after"),
           spoiled' = AfterRestore, UNCHANGED <<misnamed, ImportDepth>>, exc' \in BOOLEAN
    PROVE  StepOK
<1>1. CASE Inner.local
  <2>1. PICK p \in {"script", "message", "after"} : p = "after"
    OBVIOUS
  <2>2. InPhase(p) /\ table' = table /\ spoiled' = spoiled
    BY <1>1, <2>1 DEF Restored, AfterRestore
  <2> QED
    BY <1>1, <2>2, InNextPhase
<1>2. CASE ~Inner.local
  <2>1. Going(table, act, ImportDepth, spoiled, misnamed)
    BY Here
  <2>2. Last(act).kind \in Runtime /\ ~Last(act).local
    BY <1>2 DEF Inner
  <2>3. PICK B : PhaseSet(act, B, "after")
    BY DEF PhaseSet
  <2>4. PICK U, bad : U = RestoredFrom(table, Last(act)) /\ bad = SpoiledAfter(table, Last(act), spoiled)
    OBVIOUS
  <2>5. Going(RestoredFrom(table, Last(act)), B, ImportDepth, SpoiledAfter(table, Last(act), spoiled), misnamed)
    BY <2>1, <2>2, <2>3, RestoredGoesOn
  <2>6. Going(U, B, ImportDepth, bad, misnamed)
    BY <2>4, <2>5
  <2>7. table' = U /\ spoiled' = bad
    BY <1>2, <2>4 DEF Restored, AfterRestore, RestoredFrom, SpoiledAfter, Depth, Inner
  <2>8. act' = B /\ Len(B) = Len(act)
    BY <2>3, Here DEF PhaseSet, InPhase
  <2> QED
    BY <2>6, <2>7, <2>8, GoneOn
<1> QED
  BY <1>1, <1>2

\* Who can be in which phase.
LEMMA RuntimeOK ==
    ASSUME ScriptInv, act # <<>>
    PROVE  /\ Inner.phase \in {"before", "message", "after"} => Inner.kind \in Runtime
           /\ Inner.kind = "UseVar" => Inner.phase = "fetch"
           /\ Inner.local \in BOOLEAN
<1>1. CallOK(Inner)
  BY Here
<1> QED
  BY <1>1 DEF CallOK, Kinds, Evaluated

\* The frame requested before the script has arrived.
LEMMA Fetched ==
    ASSUME ScriptInv, FetchedBefore
    PROVE  StepOK
<1>1. act # <<>> /\ Inner.phase = "before" /\ UNCHANGED ImportDepth /\ exc' \in BOOLEAN
  BY Here DEF FetchedBefore
<1>2. Inner.kind \in Runtime
  BY <1>1, RuntimeOK
<1>3. CASE FilterLeaves(Restored(table), AfterRestore)
  BY <1>1, <1>2, <1>3, RestoringLeaves
<1>4. CASE InPhase("script") /\ UNCHANGED <<table, spoiled, misnamed>>
  <2>1. PICK p \in {"script", "message", "after"} : p = "script"
    OBVIOUS
  <2>2. InPhase(p) /\ (Inner.phase # "after" /\ p # "after")
    BY <1>1, <1>4, <2>1
  <2> QED
    BY <1>1, <1>2, <1>4, <2>2, InNextPhase
<1> QED
  BY <1>3, <1>4 DEF FetchedBefore

\* The script of a filter has been evaluated.
LEMMA Evaluates ==
    ASSUME ScriptInv, ScriptEvaluated
    PROVE  StepOK
<1>1. act # <<>> /\ Inner.kind \in Runtime /\ UNCHANGED ImportDepth /\ exc' \in BOOLEAN
  BY Here DEF ScriptEvaluated
<1>2. CASE Inner.kind = "Write"
  <2>1. FilterLeaves(Restored(table), AfterRestore)
    BY <1>2 DEF ScriptEvaluated
  <2> QED
    BY <1>1, <2>1, RestoringLeaves
<1>3. CASE Inner.kind # "Write"
  <2>1. table' = Restored(table) /\ InPhase("after") /\ spoiled' = AfterRestore /\ UNCHANGED misnamed
    BY <1>3 DEF ScriptEvaluated
  <2> QED
    BY <1>1, <2>1, RestoringFetches
<1> QED
  BY <1>2, <1>3

\* The filter catches the error of its script.
LEMMA Catches ==
    ASSUME ScriptInv, CatchError
    PROVE  StepOK
<1>1. /\ act # <<>> /\ Inner.kind \in Runtime /\ UNCHANGED <<ImportDepth, misnamed>> /\ exc' \in BOOLEAN
      /\ Inner.phase = "script"
  BY DEF CatchError
<1>2. CASE Inner.kind = "Write"
  <2>1. UNCHANGED <<table, act, spoiled>>
    BY <1>2 DEF CatchError
  <2> QED
    BY <1>1, <2>1, ThrowsOrReports
<1>3. CASE Inner.kind = "ConditionalSelect"
  <2>1. table' = Restored(table) /\ InPhase("after") /\ spoiled' = AfterRestore
    BY <1>3 DEF CatchError
  <2> QED
    BY <1>1, <2>1, RestoringFetches
<1>4. CASE Inner.kind # "Write" /\ Inner.kind # "ConditionalSelect"
  <2>1. InPhase("message") /\ UNCHANGED <<table, spoiled>>
    BY <1>4 DEF CatchError
  <2>2. PICK p \in {"script", "message", "after"} : p = "message"
    OBVIOUS
  <2>3. InPhase(p) /\ (Inner.phase # "after" /\ p # "after")
    BY <1>1, <2>1, <2>2
  <2> QED
    BY <1>1, <2>1, <2>3, InNextPhase
<1> QED
  BY <1>2, <1>3, <1>4

\* The error message has been drawn on a frame.
LEMMA Draws ==
    ASSUME ScriptInv, MessageDrawn
    PROVE  StepOK
<1>1. /\ act # <<>> /\ Inner.phase = "message" /\ FilterLeaves(Restored(table), AfterRestore)
      /\ UNCHANGED ImportDepth /\ exc' \in BOOLEAN
  BY Here DEF MessageDrawn
<1>2. Inner.kind \in Runtime
  BY <1>1, RuntimeOK
<1> QED
  BY <1>1, <1>2, RestoringLeaves

\* The resulting frame has arrived.
LEMMA FetchedAfter ==
    ASSUME ScriptInv, FrameReturned
    PROVE  StepOK
<1>1. /\ act # <<>> /\ Inner.phase = "after" /\ FilterLeaves(table, spoiled)
      /\ UNCHANGED ImportDepth /\ exc' \in BOOLEAN
  BY Here DEF FrameReturned
<1>2. Inner.kind \in Runtime \cup {"UseVar"} /\ (Inner.local \/ Resting(Inner))
  BY <1>1, RuntimeOK DEF Resting
<1> QED
  BY <1>1, <1>2, QuietlyLeaves

\* UseVar drops its variables.
LEMMA VariableGone ==
    ASSUME ScriptInv, VariableDropped
    PROVE  StepOK
<1>1. /\ act # <<>> /\ Inner.kind = "UseVar" /\ FilterLeaves(table, spoiled)
      /\ UNCHANGED ImportDepth /\ exc' \in BOOLEAN
  BY Here DEF VariableDropped
<1>2. Inner.kind \in Runtime \cup {"UseVar"} /\ (Inner.local \/ Resting(Inner))
  BY <1>1, RuntimeOK DEF Resting
<1> QED
  BY <1>1, <1>2, QuietlyLeaves

\* A requested frame fails, and the exception passes the filter.
LEMMA Fails ==
    ASSUME ScriptInv, GetFrameThrows
    PROVE  StepOK
<1>1. /\ act # <<>> /\ Inner.kind \in Runtime /\ UNCHANGED ImportDepth /\ exc' \in BOOLEAN
      /\ FilterLeaves(table, IF Inner.local \/ Inner.phase = "after" THEN spoiled ELSE spoiled \cup {Depth(table)})
  BY DEF GetFrameThrows, Runtime
<1>2. CASE Inner.local \/ Inner.phase = "after"
  <2>1. Inner.kind \in Runtime \cup {"UseVar"} /\ (Inner.local \/ Resting(Inner))
    BY <1>1, <1>2 DEF Resting
  <2>2. FilterLeaves(table, spoiled)
    BY <1>1, <1>2
  <2> QED
    BY <1>1, <2>1, <2>2, QuietlyLeaves
<1>3. CASE ~Inner.local /\ Inner.phase # "after"
  <2>1. FilterLeaves(table, spoiled \cup {Depth(table)})
    BY <1>1, <1>3
  <2> QED
    BY <1>1, <1>3, <2>1, SpoilingLeaves
<1> QED
  BY <1>2, <1>3

-------------------------------------------------------------------------------
(* The invariant                                                           *)

\* The table at the start.
LEMMA EmptyTable ==
    /\ NewTable \in Tables /\ Clean(NewTable)
    /\ Len(NewTable.stack) = 1 /\ Len(NewTable.globals) = 0 /\ NewTable.stack[1] = Empty /\ NewTable.top = Empty
<1>1. Empty \in Frames
  BY EmptyFrame
<1>2. <<Empty>> \in Seq(Frames) /\ <<>> \in Seq(Frames)
  BY <1>1
<1>3. NewTable \in Tables
  BY <1>1, <1>2 DEF NewTable, Tables
<1>4. /\ NewTable.stack = <<Empty>> /\ NewTable.globals = <<>> /\ NewTable.stackPool = <<>>
      /\ NewTable.globalPool = <<>> /\ NewTable.top = Empty
  BY DEF NewTable
<1>5. Clean(NewTable)
  BY <1>4 DEF Clean
<1> QED
  BY <1>3, <1>4, <1>5

\* It fits an empty call stack.
LEMMA NothingCalled ==
    ASSUME NEW T, T = NewTable, NEW A, A = <<>>, NEW bad, bad = {}, NEW mis, mis = {}
    PROVE  Fitting(T, A, bad, mis)
<1>1. PICK l : l = [d |-> 1, g |-> 0, last |-> Undefined, current_frame |-> Undefined,
                    c |-> Undefined, s |-> Undefined]
  OBVIOUS
<1>2. /\ l \in Level /\ l.d = 1 /\ l.g = 0 /\ l.last = Undefined /\ l.current_frame = Undefined
      /\ l.c = Undefined /\ l.s = Undefined
  BY <1>1, TheNames DEF Level
<1>3. PICK L : L = [k \in 0 .. 0 |-> l]
  OBVIOUS
<1>4. Len(A) = 0 /\ A \in Seq(Calls) /\ 0 \in 0 .. 0 /\ L[0] = l /\ L \in [0 .. 0 -> Level]
  BY <1>2, <1>3
<1>5. /\ T \in Tables /\ Clean(T) /\ Len(T.stack) = 1 /\ Len(T.globals) = 0
      /\ T.stack[1] = Empty /\ T.top = Empty
  BY EmptyTable
<1>6. \A name \in Contents \cup ScriptNames : name \in Names /\ T.stack[1][name] = Unset /\ T.top[name] = Unset
  BY <1>5, TheNames, EmptyFrame
<1>7. \A k \in 0 .. Len(A) : k = 0
  BY <1>4
<1>8. \A k \in 1 .. Len(A) : FALSE
  BY <1>4
<1>9. \A name \in Contents \cup ScriptNames : GlobalSees(T, 0, name, Undefined)
  <2>1. \A j \in 1 .. 0 : FALSE
    OBVIOUS
  <2> QED
    BY <1>6, <2>1 DEF GlobalSees
<1>10. TableOK(L, T, A)
  <2>1. \A i \in 1 .. Len(T.stack) : \A name \in ScriptNames : T.stack[i][name] = Unset
    <3>1. \A i \in 1 .. Len(T.stack) : i = 1
      BY <1>5
    <3> QED
      BY <1>6, <3>1
  <2> QED
    BY <1>2, <1>4, <1>5, <2>1 DEF TableOK
<1>11. Levels(L, A)
  <2>1. Ordered(L, A)
    <3>1. \A k \in 0 .. Len(A) : \A i \in 0 .. k : i = 0 /\ k = 0
      BY <1>4
    <3>2. L[0].d <= L[0].d /\ L[0].g <= L[0].g
      BY <1>2, <1>4
    <3> QED
      BY <3>1, <3>2 DEF Ordered
  <2>2. OwnFrame(L, A) /\ Inherited(L, A)
    BY <1>8 DEF OwnFrame, Inherited
  <2>3. OwnName(L, A)
    <3>1. \A k \in 0 .. Len(A) : L[k].s = Undefined /\ \A i \in 1 .. k : FALSE
      BY <1>2, <1>4, <1>7
    <3> QED
      BY <3>1 DEF OwnName
  <2>4. L \in [0 .. Len(A) -> Level] /\ L[0].d = 1 /\ L[0].g = 0 /\ L[0].s = Undefined
    BY <1>2, <1>4
  <2> QED
    BY <1>8, <2>1, <2>2, <2>3, <2>4 DEF Levels
<1>12. Kept(L, T, A) /\ SpoiledOK(L, A, bad) /\ MainSeen(L, T, A)
  BY <1>8 DEF Kept, SpoiledOK, MainSeen
<1>13. SeenGlobally(L, T, A)
  <2>1. GlobalSees(T, L[0].g, "last", L[0].last) /\ GlobalSees(T, L[0].g, "current_frame", L[0].current_frame)
    BY <1>2, <1>4, <1>9 DEF Contents
  <2> QED
    BY <1>7, <2>1 DEF SeenGlobally
<1>14. Seen(L, T, A, bad)
  <2>1. SeenAt(L, T, A, 0)
    BY <1>2, <1>4, <1>6 DEF SeenAt, FrameSees, Contents
  <2> QED
    BY <1>7, <2>1 DEF Seen
<1>15. NameSeen(L, T, A, mis)
  <2>1. GlobalSees(T, L[0].g, "$ScriptName$", L[0].s)
    BY <1>2, <1>4, <1>9 DEF ScriptNames
  <2> QED
    BY <1>7, <1>8, <2>1 DEF NameSeen
<1>16. bad \subseteq 1 .. Len(T.stack) /\ mis \subseteq 0 .. Len(T.globals)
  OBVIOUS
<1>17. Fits(L, T, A, bad, mis)
  BY <1>4, <1>10, <1>11, <1>12, <1>13, <1>14, <1>15, <1>16 DEF Fits
<1> QED
  BY <1>17 DEF Fitting

\* The invariant holds initially.
LEMMA Starting == Init => ScriptInv
<1> SUFFICES ASSUME Init PROVE ScriptInv
  OBVIOUS
<1>1. Fitting(table, act, spoiled, misnamed)
  BY NothingCalled DEF Init
<1>2. Len(act) = 0 /\ \A i \in 1 .. Len(act) : FALSE
  BY DEF Init
<1>3. FiltersOf(act) = {} /\ FunctionsOf(act) = {} /\ ImportsOf(act) = {}
  BY <1>2 DEF FiltersOf, FunctionsOf, ImportsOf
<1>4. Cardinality({}) = 0
  BY FS_EmptySet
<1>5. Len(table.stack) = 1 /\ Len(table.globals) = 0
  BY EmptyTable DEF Init
<1>6. Counted(table, act)
  BY <1>3, <1>4, <1>5 DEF Counted
<1>7. DepthOK(act, ImportDepth)
  <2>1. ImportDepth = 0 /\ Cardinality(ImportsOf(act)) = 0
    BY <1>3, <1>4 DEF Init
  <2>2. ImportDepth \in Nat /\ ImportDepth >= Cardinality(ImportsOf(act))
    BY <2>1
  <2> QED
    BY <1>2, <2>2 DEF DepthOK
<1>8. exc \in BOOLEAN
  BY DEF Init
<1> QED
  BY <1>1, <1>6, <1>7, <1>8 DEF ScriptInv, Going

\* Every step keeps the invariant, and callers undisturbed.
LEMMA Steps ==
    ASSUME ScriptInv, [Next]_vars
    PROVE  StepOK
<1>1. CASE UNCHANGED vars
  BY <1>1, Here, ThrowsOrReports DEF vars
<1>2. CASE Next
  <2>1. CASE \E clip \in Clips : SetLast(clip) \/ EvalOop(clip)
    BY <2>1, SetsLast, EvaluatesOop
  <2>2. CASE \E val \in Plain : Assign(val) \/ GlobalAssign(val) \/ CallFunction(val)
    BY <2>2, Assigns, AssignsGlobal, CallsFunction
  <2>3. ASSUME NEW local \in BOOLEAN, NEW val \in Plain, SetsVariable(local, val)
        PROVE  StepOK
    <3>1. CASE local = TRUE
      BY <2>3, <3>1, SetsVariableOwn
    <3>2. CASE local = FALSE
      BY <2>3, <3>2, SetsVariableShared
    <3> QED
      BY <3>1, <3>2
  <2>4. CASE Throw \/ ReportError
    <3>1. exc' \in BOOLEAN /\ UNCHANGED <<table, ImportDepth, act, spoiled, misnamed>>
      BY <2>4 DEF Throw, ReportError
    <3> QED
      BY <3>1, ThrowsOrReports
  <2>5. CASE FunctionEnds \/ Try \/ TryEnds \/ EvalOopEnds
    BY <2>5, FunctionOver, Tries, TryOver, EvalOopOver
  <2>6. CASE \E file \in Files : Import(file) \/ ImportNext(file)
    BY <2>6, Imported, ImportsNext
  <2>7. CASE ImportFails \/ ImportReturns \/ ImportThrows
    BY <2>7, FailsToImport, ImportOver
  <2>8. ASSUME NEW filter \in Runtime, NEW local \in BOOLEAN, NEW n \in FrameNumbers, NEW child \in Clips,
               NEW phase \in {"before", "script"}, GetFrame(filter, local, n, child, phase)
        PROVE  StepOK
    <3>1. CASE local = TRUE
      BY <2>8, <3>1, GetsFrameOwn
    <3>2. CASE local = FALSE
      BY <2>8, <3>2, GetsFrameShared
    <3> QED
      BY <3>1, <3>2
  <2>9. CASE FetchedBefore \/ ScriptEvaluated \/ CatchError \/ MessageDrawn
    BY <2>9, Fetched, Evaluates, Catches, Draws
  <2>10. CASE FrameReturned \/ GetFrameThrows \/ VariableDropped
    BY <2>10, FetchedAfter, Fails, VariableGone
  <2> QED
    BY <1>2, <2>1, <2>2, <2>3, <2>4, <2>5, <2>6, <2>7, <2>8, <2>9, <2>10 DEF Next
<1> QED
  BY <1>1, <1>2

\* The invariant of every reachable state.
LEMMA AlwaysScriptInv == Spec => []ScriptInv
<1>1. ScriptInv /\ [Next]_vars => ScriptInv'
  BY Steps DEF StepOK
<1> QED
  BY <1>1, Starting, PTL DEF Spec

-------------------------------------------------------------------------------
(* What it says of the properties                                          *)

\* Counted and Clean are the first property.
LEMMA Balanced == ScriptInv => ContextBalanced
<1> SUFFICES ASSUME ScriptInv PROVE ContextBalanced
  OBVIOUS
<1>1. /\ exc \in BOOLEAN /\ Going(table, act, ImportDepth, spoiled, misnamed)
      /\ act \in Seq(Calls) /\ Len(act) \in Nat /\ table \in Tables /\ Clean(table)
  BY Here
<1>2. Counted(table, act) /\ DepthOK(act, ImportDepth)
  BY <1>1 DEF Going
<1>3. PICK L : Fits(L, table, act, spoiled, misnamed)
  BY <1>1 DEF Going, Fitting
<1>4. Levels(L, act) /\ spoiled \subseteq 1 .. Len(table.stack) /\ misnamed \subseteq 0 .. Len(table.globals)
  BY <1>3 DEF Fits
<1>5. \A i \in 1 .. Len(act) : act[i] \in Calls /\ CallOK(act[i])
  BY <1>1, <1>4 DEF Levels, LevelOK
<1>6. DOMAIN act = 1 .. Len(act)
  BY <1>1
<1>7. TypeOK
  <2>1. ASSUME NEW i \in DOMAIN act
        PROVE  /\ act[i].kind \in Runtime \cup {"function", "try", "EvalOop", "Import", "UseVar"}
               /\ act[i].local \in BOOLEAN
               /\ act[i].phase \in {"before", "script", "message", "after", "fetch"}
    <3>1. act[i] \in Calls
      BY <1>5, <1>6
    <3> QED
      BY <3>1 DEF Calls, Kinds
  <2> QED
    BY <1>1, <1>2, <1>4, <2>1 DEF TypeOK, DepthOK
<1>8. OwnFrames(Runtime \cup {"UseVar"}) = FiltersOf(act)
  <2>1. \A i \in 1 .. Len(act) : act[i].local /\ act[i].kind \in Runtime \cup {"UseVar"} <=> CallGlobals(act[i]) = 1
    <3>1. TAKE i \in 1 .. Len(act)
    <3>2. CallOK(act[i])
      BY <1>5
    <3>3. "function" \notin Runtime
      BY DEF Runtime
    <3> QED
      BY <3>2, <3>3 DEF CallOK, CallGlobals, Kinds
  <2> QED
    BY <1>6, <2>1 DEF OwnFrames, FiltersOf
<1>9. OwnFrames({"function"}) = FunctionsOf(act)
  <2>1. \A i \in 1 .. Len(act) : act[i].kind = "function" => act[i].local
    BY <1>5 DEF CallOK
  <2> QED
    BY <1>6, <2>1 DEF OwnFrames, FunctionsOf
<1>10. \A pool \in {table.stackPool, table.globalPool} : \A i \in DOMAIN pool : pool[i] = Empty
  BY <1>1 DEF Clean
<1> QED
  BY <1>2, <1>7, <1>8, <1>9, <1>10 DEF ContextBalanced, Counted

\* The level of the innermost runtime filter has its frame number.
LEMMA OwnFrameSeen == ScriptInv => SeesOwnFrame
<1> SUFFICES ASSUME ScriptInv, NEW i \in Innermost(Runtime), act[i].phase = "script",
                    act[i].local \/ \A j \in i + 1 .. Len(act) : ~act[j].local, Depth(table) \notin spoiled
             PROVE  Get(table, "current_frame") = act[i].n
  BY DEF SeesOwnFrame
<1>1. PICK L : Fits(L, table, act, spoiled, misnamed)
  BY Here DEF Going, Fitting
<1>2. PICK n \in Nat : n = Len(act)
  BY Here
<1>3. L[n].d = Len(table.stack) /\ (L[n].d \notin spoiled => Get(table, "current_frame") = L[n].c)
  BY <1>1, <1>2, TopLevel
<1>4. Get(table, "current_frame") = L[n].c
  BY <1>3 DEF Depth
<1>5. /\ i \in 1 .. n /\ act[i].kind \in Runtime /\ \A j \in i + 1 .. n : act[j].kind \notin Runtime
  BY <1>2, Here DEF Innermost
<1>6. OwnFrame(L, act) /\ n \in 1 .. Len(act)
  BY <1>1, <1>2, <1>5 DEF Fits, Levels
<1>7. /\ act[i].local => L[n].c = act[i].n
      /\ ~act[i].local /\ act[i].phase # "after" /\ (\A j \in i + 1 .. n : ~act[j].local) => L[n].c = act[i].n
  BY <1>5, <1>6 DEF OwnFrame
<1>8. act[i].phase # "after" /\ (act[i].local \/ \A j \in i + 1 .. n : ~act[j].local)
  BY <1>2
<1> QED
  BY <1>4, <1>7, <1>8

\* Among calls of one kind there is an innermost one.
LEMMA InnermostExists ==
    ASSUME NEW n \in Nat, NEW F, F \subseteq 1 .. n, F # {}
    PROVE  \E i \in F : \A j \in i + 1 .. n : j \notin F
<1> DEFINE G == {x \in Nat : n - x \in F}
<1>1. G # {}
  <2>1. PICK i \in F : TRUE
    OBVIOUS
  <2>2. n - i \in Nat /\ n - (n - i) = i
    OBVIOUS
  <2> QED
    BY <2>1, <2>2
<1>2. PICK c \in G : \A x \in G : c <= x
  <2>1. G \subseteq Nat
    OBVIOUS
  <2> HIDE DEF G
  <2> QED
    BY <1>1, <2>1, Smallest
<1>3. c \in Nat /\ n - c \in F
  OBVIOUS
<1>4. ASSUME NEW j \in (n - c) + 1 .. n PROVE j \notin F
  <2>1. j \in Int /\ n - j \in Nat /\ n - (n - j) = j /\ n - j < c
    BY <1>3
  <2>2. n - j \notin G
    BY <1>2, <1>3, <2>1
  <2> QED
    BY <2>1, <2>2
<1> QED
  BY <1>3, <1>4

\* The top level has the script that is read, and MainSeen the outermost one.
LEMMA NamesRight == ScriptInv => ScriptNamesRight
<1> SUFFICES ASSUME ScriptInv PROVE ScriptNamesRight
  OBVIOUS
<1>1. PICK L : Fits(L, table, act, spoiled, misnamed)
  BY Here DEF Going, Fitting
<1>2. PICK n \in Nat : n = Len(act)
  BY Here
<1>3. DOMAIN act = 1 .. n /\ Imports \subseteq 1 .. n /\ n \in 0 .. n
  BY <1>2, Here DEF Imports
<1>4. ASSUME misnamed = {}
      PROVE  Get(table, "$ScriptName$") =
                IF Imports = {} THEN Undefined ELSE act[CHOOSE i \in Innermost({"Import"}) : TRUE].file
  <2>1. Right(L[n].g, misnamed)
    BY <1>4 DEF Right
  <2>2. Get(table, "$ScriptName$") = L[n].s
    BY <1>1, <1>2, <2>1, TopLevel
  <2>3. OwnName(L, act)
    BY <1>1 DEF Fits, Levels
  <2>4. CASE Imports = {}
    <3>1. \A i \in 1 .. n : act[i].kind # "Import"
      BY <1>3, <2>4 DEF Imports
    <3>2. L[n].s = Undefined
      BY <1>2, <1>3, <2>3, <3>1 DEF OwnName
    <3> QED
      BY <2>2, <2>4, <3>2
  <2>5. CASE Imports # {}
    <3>1. PICK i \in Imports : \A j \in i + 1 .. n : j \notin Imports
      BY <1>3, <2>5, InnermostExists
    <3>2. i \in Innermost({"Import"})
      <4>1. \A j \in i + 1 .. n : j \in 1 .. n
        BY <1>3
      <4> QED
        BY <1>2, <1>3, <3>1, <4>1 DEF Innermost, Imports
    <3>3. PICK k : k = CHOOSE j \in Innermost({"Import"}) : TRUE
      OBVIOUS
    <3>4. k \in Innermost({"Import"})
      BY <3>2, <3>3
    <3>5. k \in 1 .. n /\ act[k].kind = "Import" /\ \A j \in k + 1 .. n : act[j].kind # "Import"
      BY <1>2, <1>3, <3>4 DEF Innermost
    <3>6. L[n].s = act[k].file
      BY <1>2, <1>3, <2>3, <3>5 DEF OwnName
    <3> QED
      BY <2>2, <2>5, <3>3, <3>6
  <2> QED
    BY <2>4, <2>5
<1>5. ASSUME ImportDepth = Cardinality(Imports), NEW i \in Imports, \A j \in Imports : i <= j
      PROVE  Get(table, "$MainScriptName$") = act[i].file
  <2>1. DepthOK(act, ImportDepth)
    BY Here DEF Going
  <2>2. Imports = ImportsOf(act)
    BY <1>2, <1>3 DEF Imports, ImportsOf
  <2>3. i \in 1 .. n /\ act[i].kind = "Import" /\ \A j \in 1 .. i - 1 : act[j].kind # "Import"
    <3>1. i \in 1 .. n /\ act[i].kind = "Import"
      BY <1>3 DEF Imports
    <3>2. ASSUME NEW j \in 1 .. i - 1 PROVE act[j].kind # "Import"
      <4>1. j \in 1 .. n /\ ~(i <= j)
        BY <3>1
      <4>2. j \notin Imports
        BY <1>5, <4>1
      <4> QED
        BY <1>3, <4>1, <4>2 DEF Imports
    <3> QED
      BY <3>1, <3>2
  <2>4. act[i].main
    <3>1. act[i].main \/ ImportDepth > Cardinality(ImportsOf(act))
      BY <1>2, <2>1, <2>3 DEF DepthOK
    <3>2. ImportDepth \in Nat /\ ImportDepth = Cardinality(ImportsOf(act))
      BY <1>5, <2>2, Here
    <3> QED
      BY <3>1, <3>2
  <2>5. GlobalSees(table, L[n].g, "$MainScriptName$", act[i].file)
    <3>1. MainSeen(L, table, act) /\ n \in i .. Len(act)
      BY <1>1, <1>2, <2>3 DEF Fits
    <3> QED
      BY <1>2, <2>3, <2>4, <3>1 DEF MainSeen
  <2>6. L[n].g = Len(table.globals) /\ Len(table.stack) \in Nat \ {0} /\ TableOK(L, table, act)
    BY <1>1, <1>2, FitsParts
  <2>7. LastFrame(table)["$MainScriptName$"] = Unset
    <3>1. Len(table.stack) \in 1 .. Len(table.stack)
      BY <2>6
    <3> QED
      BY <2>6, <3>1 DEF TableOK, LastFrame, ScriptNames
  <2>8. FrameSees(LastFrame(table), act[i].file, "$MainScriptName$", act[i].file)
    BY <2>7 DEF FrameSees
  <2>9. "$MainScriptName$" \in Names
    BY TheNames DEF ScriptNames
  <2>10. GlobalSees(table, Len(table.globals), "$MainScriptName$", act[i].file)
    BY <2>5, <2>6
  <2>11. table \in Tables /\ Len(table.stack) > 0
    BY Here
  <2> QED
    BY <2>8, <2>9, <2>10, <2>11, GetIs
<1> QED
  BY <1>4, <1>5 DEF ScriptNamesRight

-------------------------------------------------------------------------------
(* The theorems                                                            *)

\* Contexts are balanced: ScriptFunction::Execute and GlobalVarFrame pop what
\* they have pushed, exceptions or not, and popped frames are empty.
THEOREM ScriptContextBalanced == Spec => []ContextBalanced
BY AlwaysScriptInv, Balanced, PTL

\* The script of a runtime filter finds the number of its own frame in
\* current_frame, whatever is evaluated, and fails, inside.
THEOREM ScriptSeesOwnFrame == Spec => []SeesOwnFrame
BY AlwaysScriptInv, OwnFrameSeen, PTL

\* $ScriptName$ and $MainScriptName$ name the scripts that are read, as long as
\* no import has failed.
THEOREM ScriptNamesAreRight == Spec => []ScriptNamesRight
BY AlwaysScriptInv, NamesRight, PTL

\* The caller of a function, of EvalOop or of a filter finds its variables as
\* they were when the call has ended.
THEOREM ScriptCallerUndisturbed == Spec => CallerUndisturbed
<1>1. ScriptInv /\ [Next]_vars =>
        [Len(act') < Len(act) /\ Inner.kind \notin {"try", "Import"} =>
          \/ ~Inner.local /\ Depth(table') \in spoiled'
          \/ Outside(Inner.kind, Inner.local, table') = Inner.before]_vars
  BY Steps DEF StepOK, Undisturbed, Depth
<1> QED
  BY <1>1, AlwaysScriptInv, PTL DEF Spec, CallerUndisturbed
===============================================================================
