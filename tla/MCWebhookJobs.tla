--------------------------- MODULE MCWebhookJobs ---------------------------
(***************************************************************************)
(* A batch of two files and a delivery of one of them alone, or two        *)
(* deliveries of one file.                                                 *)
(***************************************************************************)
EXTENDS WebhookJobs, TLC

CONSTANTS batch, single, again, l1, l2, w1, w2

OneWorker == {w1}
TwoWorkers == {w1, w2}
OneLock == {l1}
TwoLocks == {l1, l2}

BatchAndSingle == {batch, single}
TwoFiles == {"f1", "f2"}
BatchFirst == [k \in BatchAndSingle |-> IF k = batch THEN <<"f1", "f2">> ELSE <<"f1">>]

TwoSingles == {single, again}
OneFile == {"f1"}
SameFile == [k \in TwoSingles |-> <<"f1">>]

Symmetry == Permutations({l1, l2}) \cup Permutations({w1, w2})
=============================================================================
