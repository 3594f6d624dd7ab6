-------------------------------- MODULE MCEdit --------------------------------
(***************************************************************************)
(* A small instance of Edit alone.                                         *)
(***************************************************************************)
EXTENDS Edit

\* The frames of a clip of two.
MCNumbers == 0 .. 1

MCSpf == <<2, 1>>

\* The script has ended.
Finished == edits > 0 /\ UNCHANGED editVars

EditSpec == EditInit /\ [][EditNext \/ Finished]_editVars
===============================================================================
