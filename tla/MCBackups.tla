------------------------------ MODULE MCBackups ------------------------------
(* The backups of a cluster, in four scenarios of two requests each. *)
EXTENDS Backups

CONSTANTS o1, o2, o3, b1, b2, g1

OneTarget == [o \in Ops |-> g1]

\* The first request backs up b1, the second does what a says with x; o3 stands for
\* nothing, and neither does a deletion of b2, which does not exist.
Then(a, x) ==
    [asks |-> [o \in Ops |-> CASE o = o1 -> "BackupCluster" [] o = o2 -> a [] o = o3 -> "DeleteBackup"],
     of |-> [o \in Ops |-> CASE o = o1 -> b1 [] o = o2 -> x [] o = o3 -> b2],
     past |-> {}, lost |-> {}, deletes |-> FALSE, retries |-> 0]

\* The backup is retried, ...
Retrial == [Then("DeleteBackup", b2) EXCEPT !.retries = 2]

\* ... or deleted, by request or with the cluster, ...
Removal == [Then("DeleteBackup", b1) EXCEPT !.deletes = TRUE]

\* ... or the cluster is recovered from it.
Recovery == Then("RecoverCluster", b1)

\* b1 is there and b2 has failed; the cluster is recovered from b1.
Second ==
    [asks |-> [o \in Ops |-> IF o = o3 THEN "RecoverCluster" ELSE "BackupCluster"],
     of |-> [o \in Ops |-> IF o = o2 THEN b2 ELSE b1],
     past |-> {o1, o2}, lost |-> {o2}, deletes |-> FALSE, retries |-> 0]

AllScenarios == {Retrial, Removal, Recovery, Second}
=============================================================================
