--------------------------- MODULE MCCommitBarrier ---------------------------
(* Small instances of CommitBarrier: two database aliases. *)
EXTENDS CommitBarrier, TLC

CONSTANTS d1, d2

Aliases == {d1, d2}

\* The host manages every transaction with atomic(), or one alias by hand.
NoManual == {}
OneManual == {d2}

=============================================================================
