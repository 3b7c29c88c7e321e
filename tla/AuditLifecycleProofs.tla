------------------------- MODULE AuditLifecycleProofs -------------------------
(***************************************************************************)
(* For any table, any runs of both commands and any host writers: type     *)
(* correctness, the size of batches, that a run which reports success has  *)
(* missed nothing, that no run touches a row it must not, and that the     *)
(* reports add up.  The induction needs Track: what a run has noted about  *)
(* the rows it started with -- their age, and the high-water mark above    *)
(* them -- stays true of every one of them that nobody has written since.  *)
(***************************************************************************)
EXTENDS AuditLifecycle, FiniteSetTheorems, TLAPS

\* The rows a run started with that are still what they were are eligible.
Track(r) ==
  /\ phase[r] \in {"idle", "counted"} => due[r] = {}
  /\ phase[r] \in {"counted", "select", "apply"} => before[r] < Now
  /\ r \in Purges /\ phase[r] \in {"select", "apply"} => highWater[r] # None
  /\ phase[r] \in {"select", "apply"} =>
       due[r] \cap (IF r \in Redactions THEN content ELSE present) \subseteq Eligible(r)
  /\ phase[r] = "done" =>
       due[r] \cap (IF r \in Redactions THEN content ELSE present) = {}
  /\ phase[r] # "apply" => picked[r] = {}
  /\ Cardinality(picked[r]) <= size[r]
  /\ size[r] <= MaxBatchSize

Inv == TypeOK /\ \A r \in Runs : Track(r)

-----------------------------------------------------------------------------
(* Lemmas *)

LEMMA PksFinite ==
  ASSUME NEW S \in SUBSET Pks
  PROVE  IsFiniteSet(S) /\ Cardinality(S) \in Nat
<1>1. IsFiniteSet(Pks)
  BY NumberAssumption, FS_Interval DEF Pks
<1>. QED  BY <1>1, FS_Subset, FS_CardinalityType

\* A non-empty finite set of primary keys has a largest element: the rows above
\* each one of it are ordered by inclusion, and one of these sets is minimal.
LEMMA LargestExists ==
  ASSUME NEW S \in SUBSET Pks, S # {}
  PROVE  \E p \in S : \A q \in S : q <= p
<1>. DEFINE Above(p) == {q \in S : q > p}
            T == {Above(p) : p \in S}
<1>1. IsFiniteSet(S) /\ S \subseteq Nat
  BY PksFinite, NumberAssumption DEF Pks
<1>2. T \subseteq FiniteSubsetsOf(S) /\ T # {}
  <2>1. ASSUME NEW p \in S  PROVE IsFiniteSet(Above(p)) /\ Above(p) \in SUBSET S
    BY <1>1, FS_Subset
  <2>. QED  BY <2>1 DEF FiniteSubsetsOf
<1>3. IsWellFoundedOn(StrictSubsetOrdering(S), FiniteSubsetsOf(S))
  BY FS_StrictSubsetOrderingWellFounded
<1>4. PICK U \in T : \A V \in T : ~(<<V, U>> \in StrictSubsetOrdering(S))
  <2>. HIDE DEF T
  <2>. QED  BY <1>2, <1>3, WFMin
<1>5. PICK p \in S : U = Above(p)
  BY <1>4
<1>6. ASSUME NEW q \in S  PROVE q <= p
  <2>1. SUFFICES ASSUME q > p PROVE FALSE
    BY <1>1
  <2>2. \A x \in S : x > q => x > p
    BY <1>1, <2>1
  <2>3. Above(q) \subseteq Above(p) /\ q \in Above(p) /\ q \notin Above(q)
    <3>1. ~(q > q)
      BY <1>1
    <3>. QED  BY <2>1, <2>2, <3>1, Zenon
  <2>4. Above(q) \in SUBSET S /\ Above(p) \in SUBSET S /\ Above(q) # Above(p)
    BY <2>3
  <2>. HIDE DEF Above
  <2>5. <<Above(q), Above(p)>> \in StrictSubsetOrdering(S)
    BY <2>3, <2>4 DEF StrictSubsetOrdering
  <2>. QED  BY <1>4, <1>5, <2>5
<1>. QED  BY <1>6

LEMMA LargestIsLargest ==
  ASSUME NEW S \in SUBSET Pks, S # {}
  PROVE  Largest(S) \in S /\ \A q \in S : q <= Largest(S)
BY LargestExists DEF Largest

\* A batch holds at most as many rows as it was asked for: below its largest row
\* there are fewer.
LEMMA FirstOfBounded ==
  ASSUME NEW S \in SUBSET Pks, NEW n \in Nat
  PROVE  FirstOf(S, n) \subseteq S /\ Cardinality(FirstOf(S, n)) <= n
<1>. DEFINE T == FirstOf(S, n)
<1>0. T \subseteq S /\ \A p \in T : Cardinality({q \in S : q < p}) < n
  BY DEF FirstOf
<1>. SUFFICES T \subseteq S /\ Cardinality(T) <= n
  OBVIOUS
<1>. HIDE DEF T
<1>1. S \subseteq Nat
  BY NumberAssumption DEF Pks
<1>2. CASE T = {}
  BY <1>0, <1>2, FS_EmptySet
<1>3. CASE T # {}
  <2>. DEFINE m == Largest(T)
              B == {q \in S : q < m}
  <2>1. m \in T /\ \A q \in T : q <= m
    BY <1>0, <1>3, LargestIsLargest
  <2>2. Cardinality(B) < n
    BY <1>0, <2>1
  <2>3. ASSUME NEW p \in T  PROVE p \in B \cup {m}
    <3>1. p \in Nat /\ m \in Nat /\ p <= m
      BY <1>0, <1>1, <2>1
    <3>2. p < m \/ p = m
      BY <3>1
    <3>. QED  BY <1>0, <3>2
  <2>4. IsFiniteSet(B) /\ Cardinality(B) \in Nat
    BY PksFinite
  <2>. HIDE DEF B, m, T
  <2>5. /\ IsFiniteSet(B \cup {m})
        /\ Cardinality(B \cup {m}) <= Cardinality(B) + 1
    BY <2>4, FS_AddElement
  <2>6. Cardinality(T) <= Cardinality(B \cup {m})
    BY <2>3, <2>5, FS_Subset
  <2>7. Cardinality(T) \in Nat /\ Cardinality(B \cup {m}) \in Nat
    BY <1>0, <2>5, PksFinite, FS_CardinalityType
  <2>. QED  BY <1>0, <2>2, <2>4, <2>5, <2>6, <2>7
<1>. QED  BY <1>2, <1>3

LEMMA EligibleRows ==
  ASSUME TypeOK, NEW r \in Runs
  PROVE  Eligible(r) \subseteq present /\ Eligible(r) \in SUBSET Pks
BY DEF TypeOK, Eligible, Redactable, Purgeable, UpTo

-----------------------------------------------------------------------------
(* Steps *)

\* A run keeps track of its rows while others write the table, as long as every
\* row that is due to it and still there, or still full, is as old as it was.
LEMMA Bystander ==
  ASSUME TypeOK, TypeOK', NEW r \in Runs, Track(r),
         phase'[r] = phase[r], before'[r] = before[r], size'[r] = size[r],
         highWater'[r] = highWater[r], picked'[r] = picked[r],
         due'[r] \subseteq due[r],
         \A p \in due'[r] : /\ created'[p] = created[p]
                            /\ p \in content' => p \in content
                            /\ p \in present' => p \in present
  PROVE  Track(r)'
<1>1. CASE r \in Redactions
  BY <1>1 DEF Track, TypeOK, Eligible, Redactable
<1>2. CASE r \notin Redactions
  BY <1>2 DEF Track, TypeOK, Eligible, Purgeable, UpTo
<1>. QED  BY <1>1, <1>2

LEMMA InsertStep ==
  ASSUME Inv, NEW p \in Pks, Insert(p)
  PROVE  Inv'
<1>. PICK full \in BOOLEAN, at \in 0..Now :
       /\ content' = IF full THEN content \cup {p} ELSE content
       /\ created' = [created EXCEPT ![p] = at]
       /\ texts' = [texts EXCEPT !.in = @ + (IF full THEN 1 ELSE 0)]
  BY DEF Insert
<1>1. TypeOK'
  <2>1. present' \in SUBSET Pks /\ content' \in SUBSET present'
    BY DEF Inv, TypeOK, Insert
  <2>2. created' \in [Pks -> 0..Now] /\ writes' \in 0..MaxWrites
    BY NumberAssumption DEF Inv, TypeOK, Insert, Host
  <2>3. due' \in [Runs -> SUBSET Pks]
    BY DEF Inv, TypeOK, Insert, Written
  <2>4. supply' \in [in : Nat, out : Nat] /\ texts' \in [in : Nat, out : Nat]
    BY DEF Inv, TypeOK, Insert
  <2>. QED  BY <2>1, <2>2, <2>3, <2>4 DEF Inv, TypeOK, Insert, Host, options
<1>2. ASSUME NEW r \in Runs  PROVE Track(r)'
  <2>1. \A q \in due'[r] : q \in due[r] /\ q # p /\ q \in Pks
    BY DEF Inv, TypeOK, Insert, Written
  <2>2. \A q \in due'[r] : /\ created'[q] = created[q]
                           /\ q \in content' => q \in content
                           /\ q \in present' => q \in present
    BY <2>1 DEF Inv, TypeOK, Insert
  <2>. QED  BY <1>1, <2>1, <2>2, Bystander DEF Inv, Insert, Host, options
<1>. QED  BY <1>1, <1>2 DEF Inv

LEMMA RewriteStep ==
  ASSUME Inv, NEW p \in Pks, Rewrite(p)
  PROVE  Inv'
<1>1. TypeOK'
  <2>1. content' \in SUBSET present' /\ writes' \in 0..MaxWrites
    BY NumberAssumption DEF Inv, TypeOK, Rewrite, Host
  <2>2. due' \in [Runs -> SUBSET Pks]
    BY DEF Inv, TypeOK, Rewrite, Written
  <2>3. texts' \in [in : Nat, out : Nat]
    BY DEF Inv, TypeOK, Rewrite
  <2>. QED  BY <2>1, <2>2, <2>3 DEF Inv, TypeOK, Rewrite, Host, options
<1>2. ASSUME NEW r \in Runs  PROVE Track(r)'
  <2>1. \A q \in due'[r] : q \in due[r] /\ q # p
    BY DEF Inv, TypeOK, Rewrite, Written
  <2>. QED  BY <1>1, <2>1, Bystander DEF Inv, Rewrite, Host, options
<1>. QED  BY <1>1, <1>2 DEF Inv

LEMMA EraseStep ==
  ASSUME Inv, NEW p \in Pks, Erase(p)
  PROVE  Inv'
<1>1. TypeOK'
  <2>1. /\ present' \in SUBSET Pks /\ content' \in SUBSET present'
        /\ writes' \in 0..MaxWrites
    BY NumberAssumption DEF Inv, TypeOK, Erase, Host
  <2>2. due' \in [Runs -> SUBSET Pks]
    BY DEF Inv, TypeOK, Erase, Written
  <2>3. supply' \in [in : Nat, out : Nat] /\ texts' \in [in : Nat, out : Nat]
    BY DEF Inv, TypeOK, Erase
  <2>. QED  BY <2>1, <2>2, <2>3 DEF Inv, TypeOK, Erase, Host, options
<1>2. ASSUME NEW r \in Runs  PROVE Track(r)'
  <2>1. due'[r] \subseteq due[r]
    BY DEF Inv, TypeOK, Erase, Written
  <2>. QED  BY <1>1, <2>1, Bystander DEF Inv, Erase, Host, options
<1>. QED  BY <1>1, <1>2 DEF Inv

\* A step of one run that leaves the table as it was: the others look on.
LEMMA OwnStep ==
  ASSUME Inv, NEW r \in Runs, TypeOK', Track(r)',
         UNCHANGED <<table, writes, supply, texts>>,
         \A d \in Runs \ {r} :
           /\ phase'[d] = phase[d] /\ before'[d] = before[d] /\ size'[d] = size[d]
           /\ highWater'[d] = highWater[d] /\ picked'[d] = picked[d] /\ due'[d] = due[d]
  PROVE  Inv'
<1>1. ASSUME NEW d \in Runs \ {r}  PROVE Track(d)'
  BY <1>1, Bystander DEF Inv, table
<1>. QED  BY <1>1 DEF Inv

LEMMA BeginStep ==
  ASSUME Inv, NEW r \in Runs, Begin(r)
  PROVE  Inv'
<1>1. PICK b \in Cutoffs, n \in Sizes :
        /\ b < Now /\ n \in 1..MaxBatchSize
        /\ before' = [before EXCEPT ![r] = b]
        /\ size' = [size EXCEPT ![r] = n]
  BY DEF Begin
<1>2. b \in Nat /\ n \in Nat /\ n <= MaxBatchSize
  BY <1>1, NumberAssumption
<1>3. TypeOK'
  BY <1>1, <1>2 DEF Inv, TypeOK, Begin, RunUnchanged, table, Goto, Phases
<1>4. picked'[r] = {} /\ size'[r] = n /\ due'[r] = {}
  BY <1>1 DEF Inv, TypeOK, Begin, Track
<1>5. Cardinality(picked'[r]) <= size'[r]
  BY <1>2, <1>4, FS_EmptySet
<1>6. Track(r)'
  BY <1>1, <1>2, <1>4, <1>5 DEF Inv, TypeOK, Track, Begin, Goto
<1>. QED  BY <1>1, <1>3, <1>6, OwnStep DEF Inv, TypeOK, Begin, Goto, RunUnchanged

\* Nothing but the phase changes, or the batch in progress is given up.
LEMMA StopStep ==
  ASSUME Inv, NEW r \in Runs, Refuse(r) \/ Preview(r) \/ Fail(r)
  PROVE  Inv'
<1>1. TypeOK'
  BY DEF Inv, TypeOK, Refuse, Preview, Fail, RunUnchanged, table, options, Goto, Phases
<1>2. /\ picked'[r] = {} /\ size'[r] = size[r] /\ size[r] \in Nat
      /\ phase'[r] \in {"done", "failed"}
      /\ phase'[r] = "done" => due'[r] = {}
  BY DEF Inv, TypeOK, Refuse, Preview, Fail, options, Goto, Track
<1>3. Cardinality(picked'[r]) <= size'[r] /\ size'[r] <= MaxBatchSize
  BY <1>2, FS_EmptySet DEF Inv, Track
<1>4. Track(r)'
  BY <1>2, <1>3 DEF Track
<1>. QED  BY <1>1, <1>4, OwnStep
          DEF Inv, TypeOK, Refuse, Preview, Fail, options, Goto, RunUnchanged

LEMMA StartRedactionStep ==
  ASSUME Inv, NEW r \in Runs, StartRedaction(r)
  PROVE  Inv'
<1>1. TypeOK'
  BY DEF Inv, TypeOK, StartRedaction, Redactable, RunUnchanged, table, options,
         Goto, Phases
<1>2. Track(r)'
  BY RunAssumption
     DEF Inv, TypeOK, StartRedaction, Track, Eligible, Redactable, RunUnchanged,
         table, options, Goto
<1>. QED  BY <1>1, <1>2, OwnStep
          DEF Inv, TypeOK, StartRedaction, options, Goto, RunUnchanged

LEMMA CaptureHighWaterStep ==
  ASSUME Inv, NEW r \in Runs, CaptureHighWater(r)
  PROVE  Inv'
<1>. r \in Purges /\ r \notin Redactions /\ phase[r] = "counted"
  BY RunAssumption DEF CaptureHighWater
<1>. Purgeable(r) \in SUBSET Pks
  BY DEF Inv, TypeOK, Purgeable
<1>1. CASE Purgeable(r) = {}
  <2>1. TypeOK'
    BY <1>1 DEF Inv, TypeOK, CaptureHighWater, RunUnchanged, table, options, Goto, Phases
  <2>2. Track(r)'
    BY <1>1 DEF Inv, TypeOK, CaptureHighWater, Track, options, Goto
  <2>. QED  BY <1>1, <2>1, <2>2, OwnStep
            DEF Inv, TypeOK, CaptureHighWater, options, Goto, RunUnchanged
<1>2. CASE Purgeable(r) # {}
  <2>. DEFINE mark == Largest(Purgeable(r))
  <2>1. mark \in Pks /\ \A p \in Purgeable(r) : p <= mark
    BY <1>2, LargestIsLargest
  <2>2. mark # None
    BY <2>1, RunAssumption, NumberAssumption DEF Pks
  <2>. HIDE DEF mark
  <2>3. /\ highWater' = [highWater EXCEPT ![r] = mark]
        /\ due' = [due EXCEPT ![r] = Purgeable(r)]
        /\ phase' = [phase EXCEPT ![r] = "select"]
    BY <1>2 DEF CaptureHighWater, Goto, mark
  <2>4. TypeOK'
    BY <2>1, <2>3
       DEF Inv, TypeOK, CaptureHighWater, RunUnchanged, table, options, Phases
  <2>5. Eligible(r)' = Purgeable(r)
    BY <2>1, <2>2, <2>3
       DEF Inv, TypeOK, CaptureHighWater, Eligible, UpTo, Purgeable, RunUnchanged,
           table, options
  <2>6. Track(r)'
    BY <2>2, <2>3, <2>5 DEF Inv, TypeOK, CaptureHighWater, Track, options
  <2>. QED  BY <2>3, <2>4, <2>6, OwnStep
            DEF Inv, TypeOK, CaptureHighWater, options, RunUnchanged
<1>. QED  BY <1>1, <1>2

\* The rows still due are among the eligible ones, so an empty selection means
\* that none is left.
LEMMA SelectBatchStep ==
  ASSUME Inv, NEW r \in Runs, SelectBatch(r)
  PROVE  Inv'
<1>. DEFINE rows == FirstOf(Eligible(r), size[r])
<1>1. rows \subseteq Eligible(r) /\ Eligible(r) \in SUBSET Pks
      /\ Cardinality(rows) <= size[r]
  BY EligibleRows, FirstOfBounded DEF Inv, TypeOK
<1>. HIDE DEF rows
<1>2. /\ picked' = [picked EXCEPT ![r] = rows]
      /\ phase' = [phase EXCEPT ![r] = IF Exhausted(r) THEN "done" ELSE "apply"]
      /\ phase[r] = "select"
  BY DEF SelectBatch, Goto, rows
<1>3. TypeOK'
  BY <1>1, <1>2 DEF Inv, TypeOK, SelectBatch, RunUnchanged, table, options, Phases
<1>4. Eligible(r)' = Eligible(r)
  BY DEF SelectBatch, RunUnchanged, table, options, Eligible, Redactable,
         Purgeable, UpTo
<1>5. Track(r)'
  <2>1. CASE Exhausted(r)
    <3>1. Eligible(r) = {} /\ rows = {}
      BY <1>1, <2>1 DEF Exhausted
    <3>. QED  BY <1>1, <1>2, <2>1, <3>1
              DEF Inv, TypeOK, SelectBatch, Track, RunUnchanged, table, options
  <2>2. CASE ~Exhausted(r)
    BY <1>1, <1>2, <1>4, <2>2
       DEF Inv, TypeOK, SelectBatch, Track, RunUnchanged, table, options
  <2>. QED  BY <2>1, <2>2
<1>. QED  BY <1>2, <1>3, <1>5, OwnStep
          DEF Inv, TypeOK, SelectBatch, options, RunUnchanged

\* A batch only takes rows and texts away, so every run keeps track.
LEMMA ApplyBatchStep ==
  ASSUME Inv, NEW r \in Runs, ApplyBatch(r)
  PROVE  Inv'
<1>. DEFINE rows == Affected(r)
<1>1. rows \in SUBSET Pks /\ Cardinality(rows) \in Nat
      /\ Cardinality(rows \cap content) \in Nat
  <2>1. rows \in SUBSET Pks
    BY EligibleRows DEF Inv, TypeOK, Affected
  <2>. QED  BY <2>1, PksFinite
<1>. HIDE DEF rows
<1>2. /\ content' = content \ rows
      /\ present' = (IF r \in Purges THEN present \ rows ELSE present)
      /\ count' = [count EXCEPT ![r] = @ + Cardinality(rows)]
      /\ texts' = [texts EXCEPT !.out =
           @ + (IF r \in Purges THEN Cardinality(rows \cap content) ELSE 0)]
      /\ picked' = [picked EXCEPT ![r] = {}]
      /\ phase' = [phase EXCEPT ![r] = "select"]
      /\ phase[r] = "apply"
  BY DEF ApplyBatch, Goto, rows
<1>3. TypeOK'
  BY <1>1, <1>2 DEF Inv, TypeOK, ApplyBatch, options, Phases
<1>4. /\ present' \subseteq present /\ content' \subseteq content
      /\ UNCHANGED <<created, before, size, highWater, due>>
  BY <1>2 DEF ApplyBatch, options
<1>5. ASSUME NEW d \in Runs \ {r}  PROVE Track(d)'
  BY <1>2, <1>3, <1>4, <1>5, Bystander DEF Inv, TypeOK
<1>6. Track(r)'
  <2>1. due[r] \cap (IF r \in Redactions THEN content ELSE present) \subseteq Eligible(r)
    BY <1>2 DEF Inv, Track
  <2>2. due'[r] \cap (IF r \in Redactions THEN content' ELSE present') \subseteq Eligible(r)'
    BY <1>3, <1>4, <2>1
       DEF TypeOK, Eligible, Redactable, Purgeable, UpTo
  <2>3. Cardinality({}) <= size[r] /\ picked'[r] = {}
    BY <1>2, FS_EmptySet DEF Inv, TypeOK
  <2>. QED  BY <1>2, <1>4, <2>2, <2>3 DEF Inv, TypeOK, Track
<1>. QED  BY <1>3, <1>5, <1>6 DEF Inv

-----------------------------------------------------------------------------
(* The invariants *)

LEMMA InvInit == Init => Inv
<1>. SUFFICES ASSUME Init PROVE Inv
  OBVIOUS
<1>1. present \in SUBSET Pks /\ content \in SUBSET Pks
  BY DEF Init
<1>2. Cardinality(present) \in Nat /\ Cardinality(content) \in Nat
  BY <1>1, PksFinite
<1>3. TypeOK
  BY <1>2, NumberAssumption DEF Init, TypeOK, Phases
<1>4. ASSUME NEW r \in Runs  PROVE Track(r)
  BY NumberAssumption, FS_EmptySet DEF Init, Track
<1>. QED  BY <1>3, <1>4 DEF Inv

LEMMA InvNext == Inv /\ [Next]_vars => Inv'
<1>. SUFFICES ASSUME Inv, [Next]_vars PROVE Inv'
  OBVIOUS
<1>1. ASSUME NEW p \in Pks, Insert(p) \/ Rewrite(p) \/ Erase(p)  PROVE Inv'
  BY <1>1, InsertStep, RewriteStep, EraseStep
<1>2. ASSUME NEW r \in Runs, Begin(r) \/ Refuse(r) \/ Work(r) \/ Fail(r)
      PROVE  Inv'
  BY <1>2, BeginStep, StopStep, StartRedactionStep, CaptureHighWaterStep,
     SelectBatchStep, ApplyBatchStep
     DEF Work
<1>3. CASE UNCHANGED vars
  <2>1. TypeOK'
    BY <1>3 DEF Inv, TypeOK, vars, table, options
  <2>2. ASSUME NEW r \in Runs  PROVE Track(r)'
    BY <1>3, <2>1, Bystander DEF Inv, vars, table, options
  <2>. QED  BY <2>1, <2>2 DEF Inv
<1>. QED  BY <1>1, <1>2, <1>3 DEF Next

LEMMA SpecInv == Spec => []Inv
BY InvInit, InvNext, PTL DEF Spec

\* Every variable keeps its type; the counts stay natural numbers because a
\* batch is finite.
THEOREM TypeCorrect == Spec => []TypeOK
<1>1. Inv => TypeOK
  BY DEF Inv
<1>. QED  BY <1>1, SpecInv, PTL

\* No batch of any run is larger than its option, nor than MAX_BATCH_SIZE.
THEOREM BatchesAreBounded == Spec => []BoundedBatches
<1>1. Inv => BoundedBatches
  BY DEF Inv, Track, BoundedBatches
<1>. QED  BY <1>1, SpecInv, PTL

\* A run that reports success has left nothing behind of what it started with,
\* whoever else wrote the table: rows written since are the writers' affair.
THEOREM SuccessMissesNothing == Spec => []NothingMissed
<1>1. Inv => NothingMissed
  BY DEF Inv, Track, NothingMissed
<1>. QED  BY <1>1, SpecInv, PTL

\* What one step of the counts may do to the rows.
Eligibly(r) ==
  count'[r] # count[r] =>
    \A p \in Pks :
      /\ p \in present \ present' =>
           /\ r \in Purges /\ created[p] < before[r] /\ before[r] < Now
           /\ p <= highWater[r]
      /\ p \in content \ content' => created[p] < before[r]

\* A run takes away only rows and texts that are old enough at that moment, a
\* purge none above its mark, whatever happened since it picked them.
THEOREM OnlyEligibleRowsAreTouched == Spec => OnlyEligibleRows
<1>1. ASSUME Inv, Next, NEW d \in Runs  PROVE Eligibly(d)
  <2>1. ASSUME NEW p \in Pks, Insert(p) \/ Rewrite(p) \/ Erase(p)
        PROVE  count'[d] = count[d]
    BY <2>1 DEF Insert, Rewrite, Erase, Host
  <2>2. ASSUME NEW r \in Runs,
               \/ Begin(r) \/ Refuse(r) \/ Preview(r) \/ StartRedaction(r)
               \/ CaptureHighWater(r) \/ SelectBatch(r) \/ Fail(r)
        PROVE  count'[d] = count[d]
    BY <2>2 DEF Begin, Refuse, Preview, StartRedaction, CaptureHighWater,
                SelectBatch, Fail
  <2>3. ASSUME NEW r \in Runs, ApplyBatch(r), r # d  PROVE count'[d] = count[d]
    BY <1>1, <2>3 DEF Inv, TypeOK, ApplyBatch
  <2>4. ASSUME ApplyBatch(d), NEW p \in Pks
        PROVE  /\ p \in present \ present' =>
                    /\ d \in Purges /\ created[p] < before[d] /\ before[d] < Now
                    /\ p <= highWater[d]
               /\ p \in content \ content' => created[p] < before[d]
    <3>1. /\ content' = content \ Affected(d)
          /\ present' = (IF d \in Purges THEN present \ Affected(d) ELSE present)
          /\ phase[d] = "apply"
      BY <2>4 DEF ApplyBatch
    <3>2. p \in Affected(d) =>
            /\ created[p] < before[d]
            /\ d \in Purges /\ highWater[d] # None => p <= highWater[d]
      BY RunAssumption
         DEF Affected, Eligible, Redactable, Purgeable, UpTo, Runs
    <3>3. before[d] < Now /\ (d \in Purges => highWater[d] # None)
      BY <1>1, <3>1 DEF Inv, Track
    <3>. QED  BY <3>1, <3>2, <3>3
  <2>. QED  BY <1>1, <2>1, <2>2, <2>3, <2>4 DEF Next, Work, Eligibly
<1>2. Inv /\ [Next]_vars => [\A r \in Runs : Eligibly(r)]_vars
  BY <1>1
<1>3. [][\A r \in Runs : Eligibly(r)]_vars => OnlyEligibleRows
  BY DEF OnlyEligibleRows, Eligibly
<1>. QED  BY <1>2, <1>3, SpecInv, PTL DEF Spec

-----------------------------------------------------------------------------
(* What the runs report *)

LEMMA ClaimsFinite ==
  ASSUME TypeOK, NEW S \in SUBSET Runs
  PROVE  IsFiniteSet(Claims(S)) /\ Reported(S) \in Nat
<1>. DEFINE T == {{r} \X (1..count[r]) : r \in S}
<1>1. IsFiniteSet(S)
  BY FinitelyManyRuns, FS_Subset
<1>2. IsFiniteSet(T)
  <2>. DEFINE f == [r \in S |-> {r} \X (1..count[r])]
  <2>1. f \in Surjection(S, T)
    BY DEF Surjection
  <2>. QED  BY <1>1, <2>1, FS_Surjection
<1>3. \A c \in T : IsFiniteSet(c)
  <2>1. ASSUME NEW r \in S  PROVE IsFiniteSet({r} \X (1..count[r]))
    <3>1. count[r] \in Int
      BY DEF TypeOK
    <3>2. IsFiniteSet({r})
      BY FS_Singleton
    <3>3. IsFiniteSet(1..count[r])
      BY <3>1, FS_Interval
    <3>. QED  BY <3>2, <3>3, FS_Product
  <2>. QED  BY <2>1
<1>4. IsFiniteSet(UNION T)
  BY <1>2, <1>3, FS_UNION
<1>. QED  BY <1>4, FS_CardinalityType DEF Claims, Reported

\* A run that counts k more rows claims k more; the other runs claim what they
\* did.
LEMMA ReportGrows ==
  ASSUME TypeOK, NEW S \in SUBSET Runs, NEW r \in Runs, NEW k \in Nat,
         count' = [count EXCEPT ![r] = @ + k]
  PROVE  Reported(S)' = Reported(S) + (IF r \in S THEN k ELSE 0)
<1>0. /\ count'[r] = count[r] + k /\ count[r] \in Nat
      /\ \A d \in S \ {r} : count'[d] = count[d]
  BY DEF TypeOK
<1>1. CASE r \notin S
  <2>1. \A d \in S : count'[d] = count[d]
    BY <1>0, <1>1
  <2>2. Claims(S)' = Claims(S)
    BY <2>1 DEF Claims
  <2>. QED  BY <1>1, <2>2, ClaimsFinite DEF Reported
<1>2. CASE r \in S
  <2>. DEFINE old == 1..count[r]
              more == (count[r] + 1)..(count[r] + k)
              New == {r} \X more
  <2>1. IsFiniteSet(New) /\ Cardinality(New) = k
    <3>1. IsFiniteSet(more) /\ Cardinality(more) = k
      BY <1>0, FS_Interval
    <3>. HIDE DEF more
    <3>2. IsFiniteSet({r}) /\ Cardinality({r}) = 1
      BY FS_Singleton
    <3>. QED  BY <3>1, <3>2, FS_Product
  <2>2. 1..count'[r] = old \cup more /\ old \cap more = {}
    BY <1>0
  <2>3. Claims(S)' = Claims(S) \cup New
    <3>. HIDE DEF old, more
    <3>1. {r} \X (1..count'[r]) = ({r} \X old) \cup New
      BY <2>2
    <3>2. ASSUME NEW c  PROVE c \in Claims(S)' <=> c \in Claims(S) \cup New
      <4>1. c \in Claims(S)' <=> \E d \in S : c \in {d} \X (1..count'[d])
        BY DEF Claims
      <4>2. c \in Claims(S) <=> \E d \in S : c \in {d} \X (1..count[d])
        BY DEF Claims
      <4>3. \A d \in S \ {r} : {d} \X (1..count'[d]) = {d} \X (1..count[d])
        BY <1>0
      <4>4. c \in {r} \X (1..count'[r]) <=> c \in {r} \X (1..count[r]) \/ c \in New
        BY <3>1 DEF old
      <4>. HIDE DEF New
      <4>. QED  BY <1>2, <4>1, <4>2, <4>3, <4>4
    <3>. QED  BY <3>2
  <2>4. Claims(S) \cap New = {}
    <3>. HIDE DEF more
    <3>1. \A c \in New : c[1] = r /\ c[2] \in more
      OBVIOUS
    <3>2. \A c \in Claims(S) : c[1] = r => c[2] \in old
      BY DEF Claims
    <3>. QED  BY <2>2, <3>1, <3>2
  <2>. HIDE DEF New
  <2>5. IsFiniteSet(Claims(S)) /\ Cardinality(Claims(S)) \in Nat
    BY ClaimsFinite, FS_CardinalityType
  <2>6. Cardinality(Claims(S) \cup New) =
          Cardinality(Claims(S)) + Cardinality(New) - Cardinality(Claims(S) \cap New)
    BY <2>1, <2>5, FS_Union
  <2>7. Cardinality(Claims(S) \cap New) = 0
    BY <2>4, FS_EmptySet
  <2>8. Reported(S)' = Cardinality(Claims(S) \cup New)
    BY <2>3 DEF Reported
  <2>. QED  BY <1>2, <2>1, <2>5, <2>6, <2>7, <2>8 DEF Reported
<1>. QED  BY <1>1, <1>2

LEMMA ReportStays ==
  ASSUME count' = count, NEW S
  PROVE  Reported(S)' = Reported(S)
BY DEF Reported, Claims

LEMMA ExactInit == Init => ReportsAreExact
<1>. SUFFICES ASSUME Init PROVE ReportsAreExact
  OBVIOUS
<1>1. ASSUME NEW S \in SUBSET Runs  PROVE Reported(S) = 0
  <2>1. \A d \in S : {d} \X (1..count[d]) = {}
    BY DEF Init
  <2>2. Claims(S) = {}
    BY <2>1 DEF Claims
  <2>. QED  BY <2>2, FS_EmptySet DEF Reported
<1>2. present \in SUBSET Pks /\ content \in SUBSET Pks
  BY DEF Init
<1>3. Cardinality(present) \in Nat /\ Cardinality(content) \in Nat
  BY <1>2, PksFinite
<1>4. Reported(Purges) = 0 /\ Reported(Redactions) = 0
  BY <1>1 DEF Runs
<1>. QED  BY <1>3, <1>4 DEF Init, ReportsAreExact

\* The sizes that occur in the balance are numbers, before and after a step.
LEMMA Sizing ==
  ASSUME TypeOK
  PROVE  /\ IsFiniteSet(present) /\ Cardinality(present) \in Nat
         /\ IsFiniteSet(content) /\ Cardinality(content) \in Nat
         /\ Reported(Purges) \in Nat /\ Reported(Redactions) \in Nat
         /\ supply.in \in Nat /\ supply.out \in Nat
         /\ texts.in \in Nat /\ texts.out \in Nat
BY PksFinite, ClaimsFinite DEF TypeOK, Runs

LEMMA ExactHost ==
  ASSUME TypeOK, ReportsAreExact, NEW p \in Pks, Insert(p) \/ Rewrite(p) \/ Erase(p)
  PROVE  ReportsAreExact'
<1>0. /\ Reported(Purges)' = Reported(Purges)
      /\ Reported(Redactions)' = Reported(Redactions)
  BY ReportStays DEF Insert, Rewrite, Erase, Host
<1>1. /\ Cardinality(present \cup {p}) =
           Cardinality(present) + (IF p \in present THEN 0 ELSE 1)
      /\ Cardinality(content \cup {p}) =
           Cardinality(content) + (IF p \in content THEN 0 ELSE 1)
      /\ Cardinality(present \ {p}) =
           Cardinality(present) - (IF p \in present THEN 1 ELSE 0)
      /\ Cardinality(content \ {p}) =
           Cardinality(content) - (IF p \in content THEN 1 ELSE 0)
  <2>1. ASSUME NEW S, IsFiniteSet(S), Cardinality(S) \in Nat
        PROVE  /\ Cardinality(S \cup {p}) =
                    Cardinality(S) + (IF p \in S THEN 0 ELSE 1)
               /\ Cardinality(S \ {p}) =
                    Cardinality(S) - (IF p \in S THEN 1 ELSE 0)
    <3>1. Cardinality(S \cup {p}) =
            IF p \in S THEN Cardinality(S) ELSE Cardinality(S) + 1
      BY <2>1, FS_AddElement
    <3>2. Cardinality(S \ {p}) =
            IF p \in S THEN Cardinality(S) - 1 ELSE Cardinality(S)
      BY <2>1, FS_RemoveElement
    <3>. QED  BY <2>1, <3>1, <3>2
  <2>. QED  BY <2>1, Sizing
<1>2. CASE Insert(p)
  <2>1. PICK full \in BOOLEAN :
          /\ content' = IF full THEN content \cup {p} ELSE content
          /\ texts' = [texts EXCEPT !.in = @ + (IF full THEN 1 ELSE 0)]
    BY <1>2 DEF Insert
  <2>2. /\ p \notin present /\ p \notin content
        /\ present' = present \cup {p}
        /\ supply' = [supply EXCEPT !.in = @ + 1]
    BY <1>2 DEF Insert, TypeOK
  <2>3. /\ supply'.in = supply.in + 1 /\ supply'.out = supply.out
        /\ texts'.in = texts.in + (IF full THEN 1 ELSE 0) /\ texts'.out = texts.out
    BY <2>1, <2>2 DEF TypeOK
  <2>4. /\ Cardinality(present') = Cardinality(present) + 1
        /\ Cardinality(content') = Cardinality(content) + (IF full THEN 1 ELSE 0)
    BY <1>1, <2>1, <2>2, Sizing
  <2>. QED  BY <1>0, <2>3, <2>4, Sizing DEF ReportsAreExact
<1>3. CASE Rewrite(p)
  <2>1. /\ present' = present /\ content' = content \cup {p} /\ p \notin content
        /\ supply' = supply /\ texts' = [texts EXCEPT !.in = @ + 1]
    BY <1>3 DEF Rewrite
  <2>2. texts'.in = texts.in + 1 /\ texts'.out = texts.out
    BY <2>1 DEF TypeOK
  <2>. QED  BY <1>0, <1>1, <2>1, <2>2, Sizing DEF ReportsAreExact
<1>4. CASE Erase(p)
  <2>1. /\ present' = present \ {p} /\ content' = content \ {p} /\ p \in present
        /\ supply' = [supply EXCEPT !.out = @ + 1]
        /\ texts' = [texts EXCEPT !.out = @ + (IF p \in content THEN 1 ELSE 0)]
    BY <1>4 DEF Erase
  <2>2. /\ supply'.in = supply.in /\ supply'.out = supply.out + 1
        /\ texts'.in = texts.in
        /\ texts'.out = texts.out + (IF p \in content THEN 1 ELSE 0)
    BY <2>1 DEF TypeOK
  <2>. QED  BY <1>0, <1>1, <2>1, <2>2, Sizing DEF ReportsAreExact
<1>. QED  BY <1>2, <1>3, <1>4

\* A batch of a redaction takes texts and claims as many; a batch of a purge
\* takes rows and claims as many, and their texts are erased with them.
LEMMA ExactBatch ==
  ASSUME TypeOK, ReportsAreExact, NEW r \in Runs, ApplyBatch(r)
  PROVE  ReportsAreExact'
<1>. DEFINE rows == Affected(r)
            k == Cardinality(rows)
            lost == Cardinality(rows \cap content)
<1>1. /\ rows \in SUBSET present
      /\ r \in Redactions => rows \subseteq content
  BY DEF Affected, Eligible, Redactable, Purgeable, UpTo, TypeOK
<1>2. k \in Nat /\ lost \in Nat
  <2>1. rows \in SUBSET Pks /\ rows \cap content \in SUBSET Pks
    BY <1>1 DEF TypeOK
  <2>. QED  BY <2>1, PksFinite
<1>3. /\ content' = content \ rows
      /\ present' = (IF r \in Purges THEN present \ rows ELSE present)
      /\ count' = [count EXCEPT ![r] = @ + k]
      /\ texts' = [texts EXCEPT !.out = @ + (IF r \in Purges THEN lost ELSE 0)]
      /\ supply' = supply
  BY DEF ApplyBatch
<1>. HIDE DEF rows
<1>4. /\ Cardinality(content \ rows) = Cardinality(content) - lost
      /\ Cardinality(present \ rows) = Cardinality(present) - k
  <2>1. content \cap rows = rows \cap content /\ present \cap rows = rows
    BY <1>1
  <2>2. /\ Cardinality(content \ rows) = Cardinality(content) - Cardinality(content \cap rows)
        /\ Cardinality(present \ rows) = Cardinality(present) - Cardinality(present \cap rows)
    BY Sizing, FS_Difference
  <2>. QED  BY <2>1, <2>2
<1>5. r \in Redactions => lost = k
  BY <1>1, Zenon
<1>6. /\ texts'.in = texts.in
      /\ texts'.out = texts.out + (IF r \in Purges THEN lost ELSE 0)
  BY <1>3 DEF TypeOK
<1>. HIDE DEF k, lost
<1>7. ASSUME NEW S \in SUBSET Runs
      PROVE  Reported(S)' = Reported(S) + (IF r \in S THEN k ELSE 0)
  BY <1>2, <1>3, ReportGrows
<1>8. CASE r \in Purges
  <2>1. /\ Reported(Purges)' = Reported(Purges) + k
        /\ Reported(Redactions)' = Reported(Redactions)
    BY <1>7, <1>8, RunAssumption, Sizing DEF Runs
  <2>. QED  BY <1>2, <1>3, <1>4, <1>6, <1>8, <2>1, Sizing DEF ReportsAreExact
<1>9. CASE r \in Redactions
  <2>1. /\ Reported(Redactions)' = Reported(Redactions) + k
        /\ Reported(Purges)' = Reported(Purges)
        /\ r \notin Purges
    BY <1>7, <1>9, RunAssumption, Sizing DEF Runs
  <2>. QED  BY <1>2, <1>3, <1>4, <1>5, <1>6, <1>9, <2>1, Sizing DEF ReportsAreExact
<1>. QED  BY <1>8, <1>9 DEF Runs

LEMMA ExactNext == Inv /\ ReportsAreExact /\ [Next]_vars => ReportsAreExact'
<1>. SUFFICES ASSUME Inv, ReportsAreExact, [Next]_vars PROVE ReportsAreExact'
  OBVIOUS
<1>0. TypeOK
  BY DEF Inv
<1>1. ASSUME NEW p \in Pks, Insert(p) \/ Rewrite(p) \/ Erase(p)
      PROVE  ReportsAreExact'
  BY <1>0, <1>1, ExactHost
<1>2. ASSUME UNCHANGED <<present, content, count, supply, texts>>
      PROVE  ReportsAreExact'
  BY <1>2, ReportStays DEF ReportsAreExact
<1>3. ASSUME NEW r \in Runs, Begin(r) \/ Refuse(r) \/ Work(r) \/ Fail(r)
      PROVE  ReportsAreExact'
  <2>1. CASE ApplyBatch(r)
    BY <1>0, <2>1, ExactBatch
  <2>2. CASE ~ApplyBatch(r)
    BY <1>2, <1>3, <2>2
       DEF Begin, Refuse, Fail, Work, Preview, StartRedaction, CaptureHighWater,
           SelectBatch, RunUnchanged, table
  <2>. QED  BY <2>1, <2>2
<1>4. CASE UNCHANGED vars
  BY <1>2, <1>4 DEF vars, table
<1>. QED  BY <1>1, <1>3, <1>4 DEF Next

\* The reports of all runs together account for every row and every text that is
\* gone and that no host took, whatever failed or raced.
THEOREM ReportsAddUp == Spec => []ReportsAreExact
<1>1. Init => Inv /\ ReportsAreExact
  BY InvInit, ExactInit
<1>2. (Inv /\ ReportsAreExact) /\ [Next]_vars => (Inv /\ ReportsAreExact)'
  BY InvNext, ExactNext
<1>. QED  BY <1>1, <1>2, PTL DEF Spec

=============================================================================
