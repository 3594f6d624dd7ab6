-------------------------------- MODULE Script --------------------------------
(***************************************************************************)
(* What the evaluation of a script does to the variables of its thread:    *)
(* statements, user functions, try and catch, Eval on a clip, Import, and  *)
(* the runtime filters, which evaluate a script for every frame, inside    *)
(* whatever was going on when the frame was requested.                     *)
(*                                                                         *)
(* act is the C++ call stack as far as it matters: one record for every    *)
(* call that has something to put back when it ends, or to forget when an  *)
(* exception passes through it.  Expressions, clips and messages are left  *)
(* out: a script is any sequence of these operations, and any of them may  *)
(* throw.  `last' and `current_frame' are set by the operations themselves *)
(* only, never by assignment.                                              *)
(***************************************************************************)
EXTENDS VarTable, FiniteSets

CONSTANTS
    Clips,        \* values of last
    FrameNumbers, \* values of current_frame
    Files,        \* scripts to import
    Plain,        \* values of a variable x of the user
    MaxDepth,     \* bound: calls inside each other
    MaxImports    \* bound: ImportDepth

ASSUME ScriptAssumption ==
    /\ Names = {"last", "current_frame", "x", "$ScriptName$", "$MainScriptName$"}
    /\ Values = Clips \cup FrameNumbers \cup Files \cup Plain \cup {Undefined}
    /\ MaxDepth \in Nat /\ MaxImports \in Nat

VARIABLES
    table,        \* var_table
    ImportDepth,
    act,          \* the calls in progress, the innermost one last
    exc,          \* an AvisynthError is being thrown
    spoiled,      \* history: frames of the stack that a runtime filter has left without restoring them
    misnamed      \* history: global frames that an Import has left without restoring them

vars == <<table, ImportDepth, act, exc, spoiled, misnamed>>

\* The frame of the function that runs.
Depth(T) == Len(T.stack)

Visible(T) == <<Get(T, "last"), Get(T, "current_frame")>>

\* What a call must leave as it was: a function the frame of its caller, a
\* filter with frames of its own all the variables, any other call the last
\* clip and the current frame.
Outside(kind, local, T) ==
    IF kind = "function" THEN <<Last(T.stack)>>
    ELSE IF local THEN <<Last(T.stack), T.globals, T.top>>
    ELSE Visible(T)

\* before and spoiled are history.
Activity(kind, local, phase) ==
    [kind |-> kind, local |-> local, phase |-> phase, main |-> FALSE, n |-> Undefined, file |-> Undefined,
     saved |-> IF kind = "try" \/ local THEN <<>> ELSE Visible(table),
     before |-> IF kind = "try" THEN <<>> ELSE Outside(kind, local, table),
     spoiled |-> Depth(table) \in spoiled]

Runtime == {"ScriptClip", "ConditionalFilter", "ConditionalSelect", "Write"}

Inner == Last(act)

\* Statements are evaluated now.
Evaluating ==
    /\ ~exc
    /\ act # <<>> => Inner.phase = "script"

\* A frame may be requested now: by a function of the script or by a filter.
Requesting ==
    /\ ~exc
    /\ Len(act) < MaxDepth

Enter(activity) == act' = Append(act, activity)

Leave == act' = Front(act)

InPhase(phase) == act' = [act EXCEPT ![Len(act)].phase = phase]

-------------------------------------------------------------------------------
Init ==
    /\ table = NewTable
    /\ ImportDepth = 0
    /\ act = <<>>
    /\ exc = FALSE
    /\ spoiled = {}
    /\ misnamed = {}

(* Statements                                                              *)

\* ExpSequence, ExpBlockConditional and the loops: a clip becomes last.
SetLast(clip) ==
    /\ Evaluating
    /\ table' = Set(table, "last", clip)
    /\ UNCHANGED <<ImportDepth, act, exc, spoiled, misnamed>>

Assign(val) ==
    /\ Evaluating
    /\ table' = Set(table, "x", val)
    /\ UNCHANGED <<ImportDepth, act, exc, spoiled, misnamed>>

GlobalAssign(val) ==
    /\ Evaluating
    /\ table' = SetGlobal(table, "x", val)
    /\ UNCHANGED <<ImportDepth, act, exc, spoiled, misnamed>>

\* An expression or a filter throws.
Throw ==
    /\ ~exc /\ act # <<>>
    /\ exc' = TRUE
    /\ UNCHANGED <<table, ImportDepth, act, spoiled, misnamed>>

\* The host is given the error and goes on.
ReportError ==
    /\ exc /\ act = <<>>
    /\ exc' = FALSE
    /\ UNCHANGED <<table, ImportDepth, act, spoiled, misnamed>>

-------------------------------------------------------------------------------
(* User functions                                                          *)

\* ScriptFunction::Execute: x is the parameter.
CallFunction(val) ==
    /\ Evaluating /\ Len(act) < MaxDepth
    /\ table' = Set(Push(table), "x", val)
    /\ Enter(Activity("function", TRUE, "script"))
    /\ UNCHANGED <<ImportDepth, exc, spoiled, misnamed>>

\* The function returns, or is left by an exception.
FunctionEnds ==
    /\ act # <<>> /\ Inner.kind = "function"
    /\ table' = Pop(table)
    /\ Leave
    /\ spoiled' = spoiled \ {Depth(table)}
    /\ UNCHANGED <<ImportDepth, exc, misnamed>>

\* try { ... } catch(x) { ... }: the message is assigned and the handler runs.
Try ==
    /\ Evaluating /\ Len(act) < MaxDepth
    /\ Enter(Activity("try", FALSE, "script"))
    /\ UNCHANGED <<table, ImportDepth, exc, spoiled, misnamed>>

TryEnds ==
    /\ act # <<>> /\ Inner.kind = "try"
    /\ \/ ~exc /\ UNCHANGED table
       \/ exc /\ \E msg \in Plain : table' = Set(table, "x", msg)
    /\ exc' = FALSE
    /\ Leave
    /\ UNCHANGED <<ImportDepth, spoiled, misnamed>>

-------------------------------------------------------------------------------
(* EvalOop: clip.Eval("...")                                               *)

EvalOop(clip) ==
    /\ Evaluating /\ Len(act) < MaxDepth
    /\ table' = Set(table, "last", clip)
    /\ Enter(Activity("EvalOop", FALSE, "script"))
    /\ UNCHANGED <<ImportDepth, exc, spoiled, misnamed>>

\* With or without an exception.
EvalOopEnds ==
    /\ act # <<>> /\ Inner.kind = "EvalOop"
    /\ table' = Set(table, "last", Inner.saved[1])
    /\ Leave
    /\ UNCHANGED <<ImportDepth, exc, spoiled, misnamed>>

-------------------------------------------------------------------------------
(* Import                                                                  *)

\* SetGlobalVar for the file that is opened; main when it is the first import.
Named(T, file, main) ==
    LET named == SetGlobal(T, "$ScriptName$", file)
    IN  IF main THEN SetGlobal(named, "$MainScriptName$", file) ELSE named

\* Here saved is the name that was there before.
Import(file) ==
    /\ Evaluating /\ Len(act) < MaxDepth /\ ImportDepth < MaxImports
    /\ ImportDepth' = ImportDepth + 1
    /\ table' = Named(table, file, ImportDepth = 0)
    /\ Enter([Activity("Import", FALSE, "script") EXCEPT !.main = ImportDepth = 0, !.file = file,
                 !.saved = <<Get(table, "$ScriptName$")>>, !.before = <<>>])
    /\ UNCHANGED <<exc, spoiled, misnamed>>

\* The next file of the same call.
ImportNext(file) ==
    /\ Evaluating /\ act # <<>> /\ Inner.kind = "Import"
    /\ table' = Named(table, file, Inner.main)
    /\ act' = [act EXCEPT ![Len(act)].file = file]
    /\ UNCHANGED <<ImportDepth, exc, spoiled, misnamed>>

\* The first file cannot be opened: the depth has been counted already.
ImportFails ==
    /\ Evaluating /\ ImportDepth < MaxImports
    /\ ImportDepth' = ImportDepth + 1
    /\ exc' = TRUE
    /\ UNCHANGED <<table, act, spoiled, misnamed>>

\* Mutant: the name stays.
ImportReturnsNamed ==
    /\ Evaluating /\ act # <<>> /\ Inner.kind = "Import"
    /\ ImportDepth' = ImportDepth - 1
    /\ Leave
    /\ UNCHANGED <<table, exc, spoiled, misnamed>>

ImportReturns ==
    /\ Evaluating /\ act # <<>> /\ Inner.kind = "Import"
    /\ table' = SetGlobal(table, "$ScriptName$", Inner.saved[1])
    /\ ImportDepth' = ImportDepth - 1
    /\ Leave
    /\ UNCHANGED <<exc, spoiled, misnamed>>

\* An exception leaves the name and the depth as they are.
ImportThrows ==
    /\ exc /\ act # <<>> /\ Inner.kind = "Import"
    /\ Leave
    /\ misnamed' = misnamed \cup {Len(table.globals)}
    /\ UNCHANGED <<table, ImportDepth, exc, spoiled>>

-------------------------------------------------------------------------------
(* The runtime filters: ScriptClip, ConditionalFilter, ConditionalSelect   *)
(* and Write.  With local they put last and current_frame in frames of     *)
(* their own, otherwise in the frame of whoever requests the frame.        *)

Restored(T) ==
    IF Inner.local THEN T
    ELSE Set(Set(T, "last", Inner.saved[1]), "current_frame", Inner.saved[2])

\* ~GlobalVarFrame.
Left(T) == IF Inner.local THEN PopGlobal(T) ELSE T

\* A restored frame is as good as it was when the filter began.
AfterRestore ==
    IF Inner.local THEN spoiled
    ELSE IF Inner.spoiled THEN spoiled \cup {Depth(table)}
    ELSE spoiled \ {Depth(table)}

\* The filter returns, its variables restored or not.
FilterLeaves(T, spoils) ==
    /\ table' = Left(T)
    /\ Leave
    /\ spoiled' = IF Inner.local THEN spoils \ {Depth(table)} ELSE spoils
    /\ misnamed' = IF Inner.local THEN misnamed \ {Len(table.globals)} ELSE misnamed

\* Mutant: local variables go to the frames of the caller.
RuntimeVariablesShared(local, n, child) ==
    LET T == IF local THEN PushGlobal(table) ELSE table
    IN  Set(Set(T, "last", child), "current_frame", n)

RuntimeVariables(local, n, child) ==
    IF local THEN SetGlobal(SetGlobal(PushGlobal(table), "last", child), "current_frame", n)
    ELSE Set(Set(table, "last", child), "current_frame", n)

\* GetFrame(n) of a runtime filter.  Only ScriptClip may fetch the frame of
\* its child first; Write has done so before it sets the variables.
GetFrame(filter, local, n, child, phase) ==
    /\ Requesting
    /\ phase = "before" => filter = "ScriptClip"
    /\ table' = RuntimeVariables(local, n, child)
    /\ Enter([Activity(filter, local, phase) EXCEPT !.n = n])
    /\ UNCHANGED <<ImportDepth, exc, spoiled, misnamed>>

\* The child's frame is there: the script is shown, or evaluated now.
FetchedBefore ==
    /\ ~exc /\ act # <<>> /\ Inner.phase = "before"
    /\ \/ FilterLeaves(Restored(table), AfterRestore)
       \/ InPhase("script") /\ UNCHANGED <<table, spoiled, misnamed>>
    /\ UNCHANGED <<ImportDepth, exc>>

\* The script is done.  Write returns; the others fetch the frame they return.
ScriptEvaluated ==
    /\ Evaluating /\ act # <<>> /\ Inner.kind \in Runtime
    /\ IF Inner.kind = "Write"
       THEN FilterLeaves(Restored(table), AfterRestore)
       ELSE /\ table' = Restored(table)
            /\ InPhase("after")
            /\ spoiled' = AfterRestore
            /\ UNCHANGED misnamed
    /\ UNCHANGED <<ImportDepth, exc>>

\* catch (AvisynthError): ConditionalSelect restores the variables before it
\* fetches the frame for the message, ScriptClip and ConditionalFilter do so
\* after it, Write goes on with the next expression.
CatchError ==
    /\ exc /\ act # <<>> /\ Inner.kind \in Runtime /\ Inner.phase = "script"
    /\ exc' = FALSE
    /\ CASE Inner.kind = "Write" -> UNCHANGED <<table, act, spoiled>>
         [] Inner.kind = "ConditionalSelect" ->
              table' = Restored(table) /\ InPhase("after") /\ spoiled' = AfterRestore
         [] OTHER -> InPhase("message") /\ UNCHANGED <<table, spoiled>>
    /\ UNCHANGED <<ImportDepth, misnamed>>

\* Mutant: the handler returns without restoring.
MessageDrawnOnly ==
    /\ ~exc /\ act # <<>> /\ Inner.phase = "message"
    /\ FilterLeaves(table, spoiled)
    /\ UNCHANGED <<ImportDepth, exc>>

MessageDrawn ==
    /\ ~exc /\ act # <<>> /\ Inner.phase = "message"
    /\ FilterLeaves(Restored(table), AfterRestore)
    /\ UNCHANGED <<ImportDepth, exc>>

FrameReturned ==
    /\ ~exc /\ act # <<>> /\ Inner.phase = "after"
    /\ FilterLeaves(table, spoiled)
    /\ UNCHANGED <<ImportDepth, exc>>

\* A frame that the filter requests outside its try block cannot be had, or
\* Write cannot open its file: the variables are not restored, unless they
\* have been already.
GetFrameThrows ==
    /\ act # <<>>
    /\ \/ exc /\ Inner.kind \in Runtime /\ Inner.phase # "script"
       \/ ~exc /\ Inner.kind = "Write"
    /\ exc' = TRUE
    /\ FilterLeaves(table, IF Inner.local \/ Inner.phase = "after" THEN spoiled
                           ELSE spoiled \cup {Depth(table)})
    /\ UNCHANGED ImportDepth

-------------------------------------------------------------------------------
(* Filters that only set a variable for their child: UseVar, which is      *)
(* always local, and ConditionalReader                                     *)

SetsVariable(local, val) ==
    /\ Requesting
    /\ table' = SetGlobal(IF local THEN PushGlobal(table) ELSE table, "x", val)
    /\ Enter(Activity("UseVar", local, "fetch"))
    /\ UNCHANGED <<ImportDepth, exc, spoiled, misnamed>>

\* The child has returned a frame or thrown.
VariableDropped ==
    /\ act # <<>> /\ Inner.kind = "UseVar"
    /\ FilterLeaves(table, spoiled)
    /\ UNCHANGED <<ImportDepth, exc>>

-------------------------------------------------------------------------------
Next ==
    \/ \E clip \in Clips : SetLast(clip) \/ EvalOop(clip)
    \/ \E val \in Plain : Assign(val) \/ GlobalAssign(val) \/ CallFunction(val)
    \/ \E local \in BOOLEAN, val \in Plain : SetsVariable(local, val)
    \/ Throw \/ ReportError
    \/ FunctionEnds \/ Try \/ TryEnds \/ EvalOopEnds
    \/ \E file \in Files : Import(file) \/ ImportNext(file)
    \/ ImportFails \/ ImportReturns \/ ImportThrows
    \/ \E filter \in Runtime, local \in BOOLEAN, n \in FrameNumbers, child \in Clips,
          phase \in {"before", "script"} : GetFrame(filter, local, n, child, phase)
    \/ FetchedBefore \/ ScriptEvaluated \/ CatchError \/ MessageDrawn
    \/ FrameReturned \/ GetFrameThrows \/ VariableDropped

Spec == Init /\ [][Next]_vars

-------------------------------------------------------------------------------
(* Properties                                                              *)

\* The shape of the state.
TypeOK ==
    /\ table \in Tables
    /\ ImportDepth \in Nat
    /\ exc \in BOOLEAN
    /\ \A i \in DOMAIN act :
          /\ act[i].kind \in Runtime \cup {"function", "try", "EvalOop", "Import", "UseVar"}
          /\ act[i].local \in BOOLEAN
          /\ act[i].phase \in {"before", "script", "message", "after", "fetch"}
    /\ spoiled \subseteq 1 .. Len(table.stack)
    /\ misnamed \subseteq 0 .. Len(table.globals)

OwnFrames(S) == {i \in DOMAIN act : act[i].local /\ act[i].kind \in S}

\* PushContext and PopContext are balanced, exceptions or not: there is one
\* stack frame for every function and every filter with variables of its own,
\* and one global frame for each of the latter.  A frame that is used again is
\* empty: a function never finds the variables of an earlier call.
ContextBalanced ==
    LET filters == OwnFrames(Runtime \cup {"UseVar"})
    IN  /\ TypeOK
        /\ Len(table.globals) = Cardinality(filters)
        /\ Len(table.stack) = 1 + Cardinality(filters) + Cardinality(OwnFrames({"function"}))
        /\ \A pool \in {table.stackPool, table.globalPool} :
              \A i \in DOMAIN pool : pool[i] = Empty

Innermost(S) == {i \in DOMAIN act : act[i].kind \in S /\ \A j \in i + 1 .. Len(act) : act[j].kind \notin S}

\* The script of a runtime filter sees the number of the frame it is evaluated
\* for, whatever frames have been requested, and have failed, in between; with
\* local also in the functions it calls.  The exception is the frame of the
\* stack that an inner filter, stopped by an error of its child, has left as
\* it was.
SeesOwnFrame ==
    \A i \in Innermost(Runtime) :
        /\ act[i].phase = "script"
        /\ act[i].local \/ \A j \in i + 1 .. Len(act) : ~act[j].local
        /\ Depth(table) \notin spoiled
        => Get(table, "current_frame") = act[i].n

Imports == {i \in DOMAIN act : act[i].kind = "Import"}

\* $ScriptName$ is the script that is being read, unless an import has failed
\* and left its own name; $MainScriptName$ is the outermost one, unless an
\* import has failed and left ImportDepth too high.
ScriptNamesRight ==
    /\ misnamed = {} =>
          Get(table, "$ScriptName$") =
             IF Imports = {} THEN Undefined ELSE act[CHOOSE i \in Innermost({"Import"}) : TRUE].file
    /\ ImportDepth = Cardinality(Imports) =>
          \A i \in Imports : (\A j \in Imports : i <= j) => Get(table, "$MainScriptName$") = act[i].file

\* Whatever happens inside a call, errors and nested frames included, the
\* caller finds its variables as they were: its frame after a function, all of
\* them after a filter with frames of its own, last and current_frame after
\* the others, unless an inner filter has left them.
CallerUndisturbed ==
    [][Len(act') < Len(act) /\ Inner.kind \notin {"try", "Import"} =>
          \/ ~Inner.local /\ Depth(table') \in spoiled'
          \/ Outside(Inner.kind, Inner.local, table') = Inner.before]_vars
===============================================================================
