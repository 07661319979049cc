--------------------------- MODULE MCProvisioning ---------------------------
(* Small instances of Provisioning for TLC.                                   *)
EXTENDS Provisioning, TLC

CONSTANTS a1, t1, t2, b1

OneId == {a1}
OneThread == {t1}
TwoThreads == {t1, t2}
OneBin == {b1}

\* The supervisor Runs, an operator Starts, and both Prepare.
MCMakes == [t \in TwoThreads |-> IF t = t1 THEN {"Prepare", "Run"} ELSE {"Prepare", "Start"}]

\* Both channels ask for the target /data: the spec's mount has to win.
MCBase == <<[target |-> "data", host |-> "h1"]>>
MCSpec == <<[target |-> "data", host |-> "h2"], [target |-> "src", host |-> "h1"]>>
=============================================================================
