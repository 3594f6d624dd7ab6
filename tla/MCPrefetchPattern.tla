--------------------------- MODULE MCPrefetchPattern ---------------------------
(***************************************************************************)
(* A small instance of PrefetchPattern.                                    *)
(***************************************************************************)
EXTENDS PrefetchPattern

\* A client that reads every frame or every second one, and may ask again.
MCForward == {0, 1, 2}
===============================================================================
