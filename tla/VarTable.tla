------------------------------- MODULE VarTable -------------------------------
(***************************************************************************)
(* The variable table of one thread (class VarTable): a stack of frames    *)
(* for the functions that run, a stack of global frames for the runtime    *)
(* filters that keep their variables to themselves, and the top frame that *)
(* all threads share.  Frames that are popped go to a pool and are used    *)
(* again.                                                                  *)
(*                                                                         *)
(* A frame is a function from names to values; Unset is the absence of a   *)
(* variable, Undefined the value of an AVSValue that holds nothing.        *)
(***************************************************************************)
EXTENDS Naturals, Sequences, SequencesExt

CONSTANTS Names, Values, Undefined, Unset

ASSUME VarTableAssumption ==
    /\ Undefined \in Values
    /\ Unset \notin Values

Empty == [v \in Names |-> Unset]

Frames == [Names -> Values \cup {Unset}]

Tables == [stack : Seq(Frames), globals : Seq(Frames),
           stackPool : Seq(Frames), globalPool : Seq(Frames), top : Frames]

NewTable ==
    [stack |-> <<Empty>>, globals |-> <<>>, stackPool |-> <<>>, globalPool |-> <<>>, top |-> Empty]

Reused(pool) == IF pool = <<>> THEN Empty ELSE Last(pool)

Push(T) ==
    [T EXCEPT !.stack = Append(@, Reused(T.stackPool)), !.stackPool = Front(@)]

Pop(T) ==
    [T EXCEPT !.stackPool = Append(@, Empty), !.stack = Front(@)]

PushGlobal(T) ==
    [Push(T) EXCEPT !.globals = Append(@, Reused(T.globalPool)), !.globalPool = Front(@)]

\* Mutant: only the global frame is popped.
PopGlobalOnly(T) ==
    [T EXCEPT !.globalPool = Append(@, Empty), !.globals = Front(@)]

PopGlobal(T) ==
    [Pop(T) EXCEPT !.globalPool = Append(@, Empty), !.globals = Front(@)]

Set(T, name, val) == [T EXCEPT !.stack[Len(T.stack)][name] = val]

SetGlobal(T, name, val) ==
    IF T.globals # <<>> THEN [T EXCEPT !.globals[Len(T.globals)][name] = val]
    ELSE [T EXCEPT !.top[name] = val]

\* The frames that Get searches, in this order: the innermost one of the
\* stack, the global ones from the last to the first, and the top frame.
Scope(T) == <<Last(T.stack)>> \o Reverse(T.globals) \o <<T.top>>

Found(T, name) == {i \in DOMAIN Scope(T) : Scope(T)[i][name] # Unset}

\* GetVarDef: the value of the first frame that has the variable.
Get(T, name) ==
    IF Found(T, name) = {} THEN Undefined
    ELSE Scope(T)[CHOOSE i \in Found(T, name) : \A j \in Found(T, name) : i <= j][name]
===============================================================================
