------------------------------- MODULE MCScript -------------------------------
(***************************************************************************)
(* Small instances of Script.  Each has some kinds of calls, and bounds    *)
(* the calls inside each other and how many calls and statements there are *)
(* in all.                                                                 *)
(***************************************************************************)
EXTENDS Script

CONSTANTS clip, message, file1, file2

VARIABLES
    instance,   \* bounds of this behaviour
    calls,      \* calls so far
    statements  \* statements so far

MCNames == {"last", "current_frame", "x", "$ScriptName$", "$MainScriptName$"}

MCFiles == {file1, file2}

MCValues == {clip, message, file1, file2, 0, 1, Undefined}

Instances ==
    {[kinds |-> {"function", "try", "ScriptClip"}, calls |-> 4, statements |-> 1, imports |-> 0],
     [kinds |-> {"try", "ScriptClip", "Import"}, calls |-> 4, statements |-> 0, imports |-> 2],
     [kinds |-> Runtime \cup {"function", "try", "UseVar", "EvalOop"}, calls |-> 3, statements |-> 0, imports |-> 0]}

MCInit ==
    /\ Init
    /\ instance \in Instances
    /\ calls = 0 /\ statements = 0

\* A frame that is requested while another one is computed has another number.
MCNext ==
    /\ Next
    /\ calls' = IF Len(act') > Len(act) THEN calls + 1 ELSE calls
    /\ statements' = IF act' = act /\ table' # table THEN statements + 1 ELSE statements
    /\ calls' <= instance.calls /\ statements' <= instance.statements /\ ImportDepth' <= instance.imports
    /\ \A i \in DOMAIN act' : act'[i].kind \in instance.kinds /\ act'[i].n \in {i % 2, Undefined}
    /\ UNCHANGED instance

\* The script is done.
Finished ==
    /\ act = <<>> /\ ~exc
    /\ UNCHANGED <<vars, instance, calls, statements>>

MCSpec == MCInit /\ [][MCNext \/ Finished]_<<vars, instance, calls, statements>>
===============================================================================
