----------------------------- MODULE BatchPromise -----------------------------
(***************************************************************************)
(* What the delivery of observation batches promises, whatever machinery   *)
(* of callbacks and counters provides it: a batch emitted under some open  *)
(* transactions is told, event by event, only when all of them have        *)
(* committed, and never once one of them has rolled back.                  *)
(***************************************************************************)
EXTENDS Naturals

CONSTANTS Conns, Batches, Events   \* Events: the most events a batch has

VARIABLES
  known,  \* batches emitted so far
  open,   \* for each batch, the transactions it still waits for
  void,   \* batches that must never be told
  told    \* events told so far

promise == <<known, open, void, told>>

PromiseInit ==
  /\ known = {}
  /\ open = [b \in Batches |-> {}]
  /\ void = {}
  /\ told = [b \in Batches |-> 0]

\* Accepted, to wait for the transactions of S.
Accept(b, S) ==
  /\ b \notin known
  /\ known' = known \cup {b}
  /\ open' = [open EXCEPT ![b] = S]
  /\ UNCHANGED <<void, told>>

\* Refused: whatever is open around it, it will not be told.
Refuse(b, S) ==
  /\ b \notin known
  /\ known' = known \cup {b}
  /\ open' = [open EXCEPT ![b] = S]
  /\ void' = void \cup {b}
  /\ UNCHANGED told

\* Nothing is open: told at once.
Announce(b) ==
  /\ b \notin known
  /\ known' = known \cup {b}
  /\ told' = [told EXCEPT ![b] = 1]
  /\ UNCHANGED <<open, void>>

Tell(b) ==
  /\ b \in known \ void
  /\ open[b] = {}
  /\ told[b] < Events
  /\ told' = [told EXCEPT ![b] = @ + 1]
  /\ UNCHANGED <<known, open, void>>

Commit(c) ==
  /\ open' = [b \in Batches |-> open[b] \ {c}]
  /\ UNCHANGED <<known, void, told>>

\* The transaction of c, or the savepoint around the batches of B alone.
Rollback(c, B) ==
  /\ \A b \in B : c \in open[b]
  /\ open' = [b \in Batches |-> IF b \in B THEN open[b] \ {c} ELSE open[b]]
  /\ void' = void \cup B
  /\ UNCHANGED <<known, told>>

PromiseNext ==
  \/ \E b \in Batches, S \in SUBSET Conns : Accept(b, S) \/ Refuse(b, S)
  \/ \E b \in Batches : Announce(b) \/ Tell(b)
  \/ \E c \in Conns : Commit(c) \/ \E B \in SUBSET Batches : Rollback(c, B)

PromiseSpec == PromiseInit /\ [][PromiseNext]_promise

=============================================================================
