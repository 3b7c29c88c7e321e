---------------------------- MODULE AuditLifecycle ----------------------------
(***************************************************************************)
(* The retention commands of the built-in audit table: redact_asklens_audit *)
(* clears question and plan of old rows, purge_asklens_audit deletes old   *)
(* rows (management/_audit_lifecycle.py).  Runs of both kinds work batch   *)
(* by batch while other runs and host writers change the same table, and   *)
(* may fail or be killed between or inside batches.                        *)
(*                                                                         *)
(* A batch selects primary keys and then updates or deletes them in one    *)
(* atomic() block.  Under READ COMMITTED other writers commit between the  *)
(* two statements; the second takes effect with its commit.                *)
(***************************************************************************)
EXTENDS Naturals, FiniteSets

CONSTANTS
  Redactions, Purges, \* the command runs, by kind
  None,               \* no high-water mark
  MaxPk,              \* bound: primary keys of the table
  Now,                \* the clock; rows are created at 0..Now
  MaxBatchSize,       \* MAX_BATCH_SIZE
  Cutoffs,            \* values given to --before
  Sizes,              \* values given to --batch-size
  MaxWrites           \* bound: changes made by host writers

Runs == Redactions \cup Purges
Pks == 1..MaxPk
Phases == {"idle", "counted", "select", "apply", "done", "failed"}

ASSUME RunAssumption == Redactions \cap Purges = {} /\ None \notin Nat
ASSUME NumberAssumption ==
  /\ MaxPk \in Nat /\ Now \in Nat /\ MaxBatchSize \in Nat /\ MaxWrites \in Nat
  /\ Cutoffs \subseteq Nat /\ Sizes \subseteq Nat
\* Every run is a process somebody started.
ASSUME FinitelyManyRuns == IsFiniteSet(Runs)

VARIABLES
  present,  \* primary keys of the rows in the table
  content,  \* those with a question or a plan left
  created,  \* created_at of each row
  writes,   \* changes made by host writers (bounded by MaxWrites)
  phase,    \* where each run stands
  before,   \* its cutoff
  size,     \* its batch size
  highWater,\* a purge's largest primary key, once captured
  picked,   \* primary_keys of the batch in progress
  count,    \* redacted, deleted_runs: what the run reports
  due,      \* history: rows eligible at the start and not written since
  supply,   \* history: rows ever inserted, rows erased by the host
  texts     \* history: contents ever written, contents erased by the host

table == <<present, content, created>>
options == <<before, size>>
vars == <<present, content, created, writes, phase, before, size, highWater,
          picked, count, due, supply, texts>>

-----------------------------------------------------------------------------
(* Vocabulary *)

\* redaction_queryset and purge_queryset
Redactable(r) == {p \in present \cap content : created[p] < before[r]}
Purgeable(r) == {p \in present : created[p] < before[r]}
UpTo(mark, S) == IF mark = None THEN S ELSE {p \in S : p <= mark}

Eligible(r) ==
  IF r \in Redactions THEN Redactable(r) ELSE UpTo(highWater[r], Purgeable(r))

\* Mutant of FirstOf: one row too many.
FirstOfTooMany(S, n) == {p \in S : Cardinality({q \in S : q < p}) <= n}

\* order_by("pk")[:batch_size]
FirstOf(S, n) == {p \in S : Cardinality({q \in S : q < p}) < n}

\* Mutant of Largest: a bound one past the last row.
LargestExclusive(S) == (CHOOSE p \in S : \A q \in S : q <= p) + 1

Largest(S) == CHOOSE p \in S : \A q \in S : q <= p

Goto(r, label) == phase' = [phase EXCEPT ![r] = label]

Init ==
  /\ present \in SUBSET Pks
  /\ content \in SUBSET present
  /\ created \in [Pks -> 0..Now]
  /\ \A p \in Pks \ present : created[p] = 0
  /\ writes = 0
  /\ phase = [r \in Runs |-> "idle"]
  /\ before = [r \in Runs |-> 0]
  /\ size = [r \in Runs |-> 0]
  /\ highWater = [r \in Runs |-> None]
  /\ picked = [r \in Runs |-> {}]
  /\ count = [r \in Runs |-> 0]
  /\ due = [r \in Runs |-> {}]
  /\ supply = [in |-> Cardinality(present), out |-> 0]
  /\ texts = [in |-> Cardinality(content), out |-> 0]

-----------------------------------------------------------------------------
(* Host writers and the audit sink *)

Host ==
  /\ writes < MaxWrites
  /\ writes' = writes + 1
  /\ UNCHANGED <<phase, options, highWater, picked, count>>

Written(p) == due' = [r \in Runs |-> due[r] \ {p}]

\* The audit sink inserts behind every row and at the current time; a backfill
\* or a reused primary key may land anywhere.
Insert(p) ==
  /\ Host
  /\ p \notin present
  /\ present' = present \cup {p}
  /\ \E full \in BOOLEAN, at \in 0..Now :
       /\ content' = IF full THEN content \cup {p} ELSE content
       /\ created' = [created EXCEPT ![p] = at]
       /\ texts' = [texts EXCEPT !.in = @ + (IF full THEN 1 ELSE 0)]
  /\ supply' = [supply EXCEPT !.in = @ + 1]
  /\ Written(p)

\* A host writes a question or a plan back.
Rewrite(p) ==
  /\ Host
  /\ p \in present \ content
  /\ content' = content \cup {p}
  /\ texts' = [texts EXCEPT !.in = @ + 1]
  /\ Written(p)
  /\ UNCHANGED <<present, created, supply>>

\* A host deletes a row.
Erase(p) ==
  /\ Host
  /\ p \in present
  /\ present' = present \ {p}
  /\ content' = content \ {p}
  /\ supply' = [supply EXCEPT !.out = @ + 1]
  /\ texts' = [texts EXCEPT !.out = @ + (IF p \in content THEN 1 ELSE 0)]
  /\ Written(p)
  /\ UNCHANGED created

-----------------------------------------------------------------------------
(* One run of a command *)

RunUnchanged == <<table, writes, supply, texts>>

\* parse_before, ensure_audit_table and validate_batch_size accept the options,
\* and the eligible rows are counted.
Begin(r) ==
  /\ phase[r] = "idle"
  /\ \E b \in Cutoffs, n \in Sizes :
       /\ b < Now
       /\ n \in 1..MaxBatchSize
       /\ before' = [before EXCEPT ![r] = b]
       /\ size' = [size EXCEPT ![r] = n]
  /\ Goto(r, "counted")
  /\ UNCHANGED <<RunUnchanged, highWater, picked, count, due>>

\* An option is refused, or the table is missing or cannot be read.
Refuse(r) ==
  /\ phase[r] = "idle"
  /\ Goto(r, "failed")
  /\ UNCHANGED <<RunUnchanged, options, highWater, picked, count, due>>

\* Without --execute the count is all there is.
Preview(r) ==
  /\ phase[r] = "counted"
  /\ Goto(r, "done")
  /\ UNCHANGED <<RunUnchanged, options, highWater, picked, count, due>>

StartRedaction(r) ==
  /\ r \in Redactions /\ phase[r] = "counted"
  /\ due' = [due EXCEPT ![r] = Redactable(r)]
  /\ Goto(r, "select")
  /\ UNCHANGED <<RunUnchanged, options, highWater, picked, count>>

\* capture_purge_high_water; without a mark there is nothing to do.
CaptureHighWater(r) ==
  /\ r \in Purges /\ phase[r] = "counted"
  /\ IF Purgeable(r) = {}
     THEN Goto(r, "done") /\ UNCHANGED <<highWater, due>>
     ELSE /\ highWater' = [highWater EXCEPT ![r] = Largest(Purgeable(r))]
          /\ due' = [due EXCEPT ![r] = Purgeable(r)]
          /\ Goto(r, "select")
  /\ UNCHANGED <<RunUnchanged, options, picked, count>>

\* Mutants of Exhausted: a short batch is taken for the end; an empty one is not.
ExhaustedShort(r) == Cardinality(Eligible(r)) < size[r]
ExhaustedNever(r) == FALSE

Exhausted(r) == Eligible(r) = {}

\* The first statement of a batch; an empty selection ends the run.
SelectBatch(r) ==
  /\ phase[r] = "select"
  /\ picked' = [picked EXCEPT ![r] = FirstOf(Eligible(r), size[r])]
  /\ Goto(r, IF Exhausted(r) THEN "done" ELSE "apply")
  /\ UNCHANGED <<RunUnchanged, options, highWater, count, due>>

\* Mutant of Affected: the predicate is not applied again.
AffectedUnchecked(r) == picked[r]

\* The second statement applies to the picked rows that are still eligible.
Affected(r) == picked[r] \cap Eligible(r)

ApplyBatch(r) ==
  /\ phase[r] = "apply"
  /\ content' = content \ Affected(r)
  /\ present' = IF r \in Purges THEN present \ Affected(r) ELSE present
  /\ count' = [count EXCEPT ![r] = @ + Cardinality(Affected(r))]
  /\ texts' = [texts EXCEPT !.out =
       @ + (IF r \in Purges THEN Cardinality(Affected(r) \cap content) ELSE 0)]
  /\ picked' = [picked EXCEPT ![r] = {}]
  /\ Goto(r, "select")
  /\ UNCHANGED <<created, writes, options, highWater, due, supply>>

\* A database error, a delete signal that raises, a killed process: the batch in
\* progress is rolled back, the committed ones stay.
Fail(r) ==
  /\ phase[r] \in {"counted", "select", "apply"}
  /\ picked' = [picked EXCEPT ![r] = {}]
  /\ Goto(r, "failed")
  /\ UNCHANGED <<RunUnchanged, options, highWater, count, due>>

Work(r) ==
  \/ Preview(r) \/ StartRedaction(r) \/ CaptureHighWater(r)
  \/ SelectBatch(r) \/ ApplyBatch(r)

Next ==
  \/ \E p \in Pks : Insert(p) \/ Rewrite(p) \/ Erase(p)
  \/ \E r \in Runs : Begin(r) \/ Refuse(r) \/ Work(r) \/ Fail(r)

Spec == Init /\ [][Next]_vars

\* A run that has begun keeps executing statements.
FairSpec == Spec /\ \A r \in Runs : WF_vars(Work(r))

-----------------------------------------------------------------------------
(* Properties *)

TypeOK ==
  /\ present \in SUBSET Pks
  /\ content \in SUBSET present
  /\ created \in [Pks -> 0..Now]
  /\ writes \in 0..MaxWrites
  /\ phase \in [Runs -> Phases]
  /\ before \in [Runs -> Nat]
  /\ size \in [Runs -> Nat]
  /\ highWater \in [Runs -> Pks \cup {None}]
  /\ picked \in [Runs -> SUBSET Pks]
  /\ count \in [Runs -> Nat]
  /\ due \in [Runs -> SUBSET Pks]
  /\ supply \in [in : Nat, out : Nat]
  /\ texts \in [in : Nat, out : Nat]

\* A run that reports success has missed nothing: a row eligible when it started
\* and not written since has been redacted, or is gone, by whoever's hand.
NothingMissed ==
  \A r \in Runs : phase[r] = "done" =>
    due[r] \cap (IF r \in Redactions THEN content ELSE present) = {}

\* Only rows older than the cutoff, and for a purge at or below the high-water
\* mark, are touched by a run, and never one inserted or written back between
\* the selection and the statement unless it is eligible itself.
OnlyEligibleRows ==
  [][\A r \in Runs : count'[r] # count[r] =>
       \A p \in Pks :
         /\ p \in present \ present' =>
              /\ r \in Purges /\ created[p] < before[r] /\ before[r] < Now
              /\ p <= highWater[r]
         /\ p \in content \ content' => created[p] < before[r]]_vars

\* What the runs of S report together: one claim for every row a run counted.
Claims(S) == UNION {{r} \X (1..count[r]) : r \in S}
Reported(S) == Cardinality(Claims(S))

\* The reports are exact, failures and races included: the rows the purges claim
\* are the rows missing from the table, and every content ever written is still
\* there, claimed by a redaction, or was erased with its row.
ReportsAreExact ==
  /\ supply.in = Cardinality(present) + supply.out + Reported(Purges)
  /\ texts.in = Cardinality(content) + texts.out + Reported(Redactions)

\* Short transactions: no batch holds more rows than the option allows.
BoundedBatches ==
  \A r \in Runs : Cardinality(picked[r]) <= size[r] /\ size[r] <= MaxBatchSize

\* Every run ends, although other runs and writers change its batches under it.
EveryRunEnds ==
  \A r \in Runs : phase[r] = "counted" ~> phase[r] \in {"done", "failed"}

=============================================================================
