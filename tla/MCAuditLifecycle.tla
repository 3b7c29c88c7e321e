--------------------------- MODULE MCAuditLifecycle ---------------------------
(* Small instances of AuditLifecycle: commands with equal or different options. *)
EXTENDS AuditLifecycle, TLC

\* Cutoffs in the past and the current time, which is refused; a batch size that
\* fits, and the two just outside the bounds.
EveryCutoff == 1..Now
BoundarySizes == {0, MaxBatchSize, MaxBatchSize + 1}

\* Runs that compete for the same rows in the same batches.
OldRows == {1}
SingleRows == {1}

=============================================================================
