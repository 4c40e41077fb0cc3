---------------------------- MODULE MCStateFile ----------------------------
(***************************************************************************)
(* Two processes on one state file.  The empty file is bound to the Arr    *)
(* server by the first start; the other states already are.                *)
(***************************************************************************)
EXTENDS StateFile

MCContents == {"empty", "bound", "begun", "completed"}
MCBound == [c \in MCContents |-> IF c = "empty" THEN "bound" ELSE c]
=============================================================================
