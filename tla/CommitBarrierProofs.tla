-------------------------- MODULE CommitBarrierProofs --------------------------
(***************************************************************************)
(* For any connections, with or without manual transactions, any number of *)
(* batches and any nesting: type correctness, that a batch is delivered    *)
(* only after every commit it waits for, whole, and not forgotten, and     *)
(* that the barrier implements BatchPromise.                               *)
(*                                                                         *)
(* The inductive invariant accounts for every callback: the counter of a   *)
(* batch is the number of connections that were open at its emission and   *)
(* have not called back; a callback that is registered, or in the list     *)
(* being run, has not run yet and was not discarded by a rollback, because *)
(* the savepoints noted at its registration still surround it.             *)
(***************************************************************************)
EXTENDS CommitBarrier, FiniteSetTheorems, SequenceTheorems, TLAPS

\* The atomic() blocks of c on a call stack.
BlocksOf(s, c) == {i \in DOMAIN s : s[i].kind = "atomic" /\ s[i].conn = c}

\* The connections a batch still waits for.
Waits(b) == {c \in Conns : fate[b][c] # "none"} \ ran[b]

\* The callback of b for c is in a list that Django is running.
Running(b, c) ==
  \E i \in DOMAIN stack : stack[i].kind = "hooks" /\ stack[i].conn = c /\ b \in stack[i].todo

Connection(c) ==
  /\ depth[c] = Cardinality(BlocksOf(stack, c))
  /\ savepoints[c] \subseteq 1..depth[c]
  /\ mode[c] = "unopened" => depth[c] = 0
  /\ mode[c] = "manual" /\ depth[c] > 0 => dirty[c]
  /\ mode[c] # "manual" /\ depth[c] = 0 => hooks[c] = {}

Fate(b, c) ==
  /\ fate[b][c] = "open" =>
       (mode[c] = "manual" /\ dirty[c]) \/ (mode[c] = "autocommit" /\ depth[c] > 0)
  /\ c \in ran[b] => fate[b][c] = "committed"

\* What was noted at the registration of b still describes the savepoints of c.
Noted(b, c) ==
  /\ level[b][c] <= depth[c]
  /\ \A l \in 1..level[b][c] : l \in savepoints[c] => l \in within[b][c]
  /\ \A l \in within[b][c] : l \in 1..level[b][c]

Registered(b, c) ==
  b \in hooks[c] =>
    /\ c \notin ran[b] /\ fate[b][c] \in {"open", "committed"}
    /\ Noted(b, c)
    /\ fate[b][c] = "committed" => mode[c] = "manual" /\ level[b][c] = 0

Account(b) ==
  /\ outcome[b] # "none" => size[b] > 0
  /\ remaining[b] = Cardinality(Waits(b))
  /\ sent[b] > 0 => remaining[b] = 0 /\ outcome[b] \in {"direct", "deferred"}
  /\ outcome[b] \in {"none", "dropped", "direct"} =>
       \A c \in Conns : fate[b][c] = "none" /\ b \notin hooks[c]
  /\ sent[b] <= size[b]
  /\ sent[b] \in 1..(size[b] - 1) =>
       failed[b] \/ \E i \in DOMAIN stack : stack[i].batch = b

Remembered(b) ==
  /\ outcome[b] \in {"direct", "deferred"} /\ remaining[b] = 0 => sent[b] > 0
  /\ \A c \in Waits(b) :
       outcome[b] = "deferred" =>
         c \in lost[b] \/ fate[b][c] = "rolledback" \/ b \in hooks[c] \/ Running(b, c)

FrameOK(f) ==
  /\ f.kind # "sink" => f.batch = None
  /\ f.kind = "sink" => f.batch \in Batches /\ sent[f.batch] > 0
  /\ f.kind = "hooks" =>
       /\ f.conn \in Conns
       /\ \A b \in f.todo : /\ f.conn \notin ran[b] /\ b \notin hooks[f.conn]
                            /\ fate[b][f.conn] = "committed"

\* No callback is in two lists at a time.
Apart(f, g) ==
  f.kind = "hooks" /\ g.kind = "hooks" /\ f.conn = g.conn => f.todo \cap g.todo = {}

Stacked ==
  /\ \A i \in DOMAIN stack : FrameOK(stack[i])
  /\ \A i, j \in DOMAIN stack : i # j => Apart(stack[i], stack[j])

Inv ==
  /\ TypeOK
  /\ \A c \in Conns : Connection(c)
  /\ \A b \in Batches, c \in Conns : Fate(b, c) /\ Registered(b, c)
  /\ \A b \in Batches : Account(b) /\ Remembered(b)
  /\ Stacked

-----------------------------------------------------------------------------
(* Lemmas *)

LEMMA PushFacts ==
  ASSUME NEW s \in Seq(Frames), NEW f \in Frames
  PROVE  /\ Append(s, f) \in Seq(Frames)
         /\ Len(s) \in Nat /\ DOMAIN s = 1..Len(s)
         /\ DOMAIN Append(s, f) = 1..(Len(s) + 1)
         /\ \A i \in DOMAIN s : s[i] \in Frames /\ Append(s, f)[i] = s[i]
         /\ Append(s, f)[Len(s) + 1] = f
<1>. HIDE DEF Frames
<1>. QED  BY SMTT(20)

LEMMA PopFacts ==
  ASSUME NEW s \in Seq(Frames), s # <<>>
  PROVE  LET p == SubSeq(s, 1, Len(s) - 1)
         IN  /\ p \in Seq(Frames)
             /\ Len(s) \in Nat \ {0} /\ DOMAIN s = 1..Len(s)
             /\ Len(p) = Len(s) - 1 /\ DOMAIN p = 1..(Len(s) - 1)
             /\ \A i \in DOMAIN p : p[i] = s[i]
             /\ s[Len(s)] \in Frames
<1>. HIDE DEF Frames
<1>1. Len(s) \in Nat \ {0} /\ DOMAIN s = 1..Len(s) /\ \A i \in 1..Len(s) : s[i] \in Frames
  BY EmptySeq, LenProperties, ElementOfSeq
<1>. DEFINE n == Len(s) - 1
            p == SubSeq(s, 1, n)
<1>2. n \in Nat /\ \A i \in 1..n : s[i] \in Frames
  BY <1>1
<1>3. /\ p \in Seq(Frames) /\ Len(p) = n
      /\ \A i \in 1..n : p[i] = s[i]
  <2>1. /\ p \in Seq(Frames)
        /\ Len(p) = IF 1 <= n THEN n - 1 + 1 ELSE 0
        /\ \A i \in 1..(n - 1 + 1) : p[i] = s[1 + i - 1]
    <3>. HIDE DEF n
    <3>. QED  BY <1>2, SubSeqProperties
  <2>. HIDE DEF p, n
  <2>. QED  BY <2>1, <1>2
<1>4. DOMAIN p = 1..n
  BY <1>3, LenProperties
<1>. QED  BY <1>1, <1>2, <1>3, <1>4

LEMMA BlocksFinite ==
  ASSUME NEW s \in Seq(Frames), NEW c
  PROVE  IsFiniteSet(BlocksOf(s, c)) /\ Cardinality(BlocksOf(s, c)) \in Nat
<1>1. IsFiniteSet(DOMAIN s)
  BY LenProperties, FS_Interval
<1>. QED  BY <1>1, FS_Subset, FS_CardinalityType DEF BlocksOf

LEMMA BlocksPush ==
  ASSUME NEW s \in Seq(Frames), NEW f \in Frames, NEW c
  PROVE  Cardinality(BlocksOf(Append(s, f), c)) =
           Cardinality(BlocksOf(s, c)) + (IF f.kind = "atomic" /\ f.conn = c THEN 1 ELSE 0)
<1>. DEFINE n == Len(s) + 1
<1>1. IF f.kind = "atomic" /\ f.conn = c
      THEN BlocksOf(Append(s, f), c) = BlocksOf(s, c) \cup {n} /\ n \notin BlocksOf(s, c)
      ELSE BlocksOf(Append(s, f), c) = BlocksOf(s, c)
  <2>. HIDE DEF Frames
  <2>. QED  BY PushFacts DEF BlocksOf
<1>. QED  BY <1>1, BlocksFinite, FS_AddElement

LEMMA BlocksPop ==
  ASSUME NEW s \in Seq(Frames), NEW c, s # <<>>
  PROVE  Cardinality(BlocksOf(SubSeq(s, 1, Len(s) - 1), c)) =
           Cardinality(BlocksOf(s, c))
             - (IF s[Len(s)].kind = "atomic" /\ s[Len(s)].conn = c THEN 1 ELSE 0)
<1>. DEFINE p == SubSeq(s, 1, Len(s) - 1)
<1>1. IF s[Len(s)].kind = "atomic" /\ s[Len(s)].conn = c
      THEN BlocksOf(p, c) = BlocksOf(s, c) \ {Len(s)} /\ Len(s) \in BlocksOf(s, c)
      ELSE BlocksOf(p, c) = BlocksOf(s, c)
  <2>1. /\ Len(s) \in Nat \ {0} /\ DOMAIN s = 1..Len(s) /\ DOMAIN p = 1..(Len(s) - 1)
        /\ \A i \in DOMAIN p : p[i] = s[i]
    BY PopFacts
  <2>. HIDE DEF p, Frames
  <2>. QED  BY <2>1 DEF BlocksOf
<1>2. IsFiniteSet(BlocksOf(s, c)) /\ Cardinality(BlocksOf(s, c)) \in Nat
  BY BlocksFinite
<1>3. CASE s[Len(s)].kind = "atomic" /\ s[Len(s)].conn = c
  <2>1. BlocksOf(p, c) = BlocksOf(s, c) \ {Len(s)} /\ Len(s) \in BlocksOf(s, c)
    BY <1>1, <1>3
  <2>2. Cardinality(BlocksOf(s, c) \ {Len(s)}) = Cardinality(BlocksOf(s, c)) - 1
    BY <1>2, <2>1, FS_RemoveElement
  <2>. QED  BY <1>3, <2>1, <2>2
<1>4. CASE ~(s[Len(s)].kind = "atomic" /\ s[Len(s)].conn = c)
  BY <1>1, <1>2, <1>4
<1>. QED  BY <1>3, <1>4

LEMMA LeastIsMember ==
  ASSUME NEW S \in SUBSET Batches, S # {}
  PROVE  Least(S) \in S
<1>. DEFINE Under(p) == {q \in S : q < p}
            T == {Under(p) : p \in S}
<1>0. S \subseteq Nat /\ IsFiniteSet(S)
  <2>1. Batches \subseteq Nat /\ IsFiniteSet(Batches)
    BY BarrierBounds, FS_Interval DEF Batches
  <2>. QED  BY <2>1, FS_Subset
<1>1. IsWellFoundedOn(StrictSubsetOrdering(S), FiniteSubsetsOf(S))
  BY FS_StrictSubsetOrderingWellFounded
<1>2. T \subseteq FiniteSubsetsOf(S) /\ T # {}
  <2>1. ASSUME NEW p \in S  PROVE IsFiniteSet(Under(p)) /\ Under(p) \in SUBSET S
    BY <1>0, FS_Subset
  <2>. QED  BY <2>1 DEF FiniteSubsetsOf
<1>3. PICK U \in T : \A V \in T : ~(<<V, U>> \in StrictSubsetOrdering(S))
  <2>. HIDE DEF T
  <2>. QED  BY <1>1, <1>2, WFMin
<1>4. PICK p \in S : U = Under(p)
  BY <1>3
<1>5. ASSUME NEW q \in S, ~(p <= q)  PROVE FALSE
  <2>1. q < p /\ ~(q < q) /\ \A x \in S : x < q => x < p
    BY <1>0, <1>5
  <2>2. Under(q) \subseteq Under(p) /\ q \in Under(p) /\ q \notin Under(q)
    BY <2>1, Zenon
  <2>3. Under(q) \in SUBSET S /\ Under(p) \in SUBSET S /\ Under(q) # Under(p)
    BY <2>2
  <2>. HIDE DEF Under
  <2>4. <<Under(q), Under(p)>> \in StrictSubsetOrdering(S)
    BY <2>2, <2>3 DEF StrictSubsetOrdering
  <2>. QED  BY <1>3, <1>4, <2>4
<1>. QED  BY <1>5 DEF Least

LEMMA WaitsFinite ==
  ASSUME NEW b \in Batches
  PROVE  IsFiniteSet(Waits(b)) /\ Cardinality(Waits(b)) \in Nat
BY ConnAssumption, FS_Subset, FS_CardinalityType DEF Waits

LEMMA InvInit == Init => Inv
<1>. SUFFICES ASSUME Init PROVE Inv
  OBVIOUS
<1>1. TypeOK
  BY BarrierBounds DEF Init, TypeOK, Modes, Outcomes, Fates
<1>2. \A c \in Conns : Cardinality(BlocksOf(stack, c)) = 0
  BY FS_EmptySet DEF Init, BlocksOf
<1>3. \A b \in Batches : Cardinality(Waits(b)) = 0
  <2>1. \A b \in Batches : Waits(b) = {}
    BY DEF Init, Waits
  <2>. QED  BY <2>1, FS_EmptySet
<1>. QED  BY <1>1, <1>2, <1>3
  DEF Init, Inv, Connection, Fate, Registered, Account, Remembered, Stacked

-----------------------------------------------------------------------------
(* What a step leaves as it was *)

LEMMA StackFacts ==
  ASSUME Inv, stack # <<>>
  PROVE  /\ Top \in Frames /\ Below \in Seq(Frames)
         /\ Len(stack) \in Nat \ {0} /\ DOMAIN stack = 1..Len(stack)
         /\ DOMAIN Below = 1..(Len(stack) - 1)
         /\ \A i \in DOMAIN Below : Below[i] = stack[i]
<1>1. stack \in Seq(Frames)
  BY DEF Inv, TypeOK
<1>. HIDE DEF Frames
<1>. QED  BY <1>1, PopFacts DEF Top, Below

\* A list of callbacks, or a sink call, stays right as long as nothing is
\* registered again, run again or taken back.
LEMMA FramesKept ==
  ASSUME Inv,
         \A c \in Conns : hooks'[c] \subseteq hooks[c],
         ran' = ran,
         \A b \in Batches, c \in Conns :
           fate[b][c] = "committed" => fate'[b][c] = "committed",
         \A b \in Batches : sent[b] > 0 => sent'[b] > 0
  PROVE  \A f \in Frames : FrameOK(f) => FrameOK(f)'
BY DEF FrameOK, Frames

LEMMA AccountKept ==
  ASSUME Inv, NEW b \in Batches,
         UNCHANGED <<outcome, size, remaining, sent, failed, ran>>,
         \A a \in Batches, c \in Conns : fate'[a][c] = "none" <=> fate[a][c] = "none",
         \A c \in Conns : hooks'[c] \subseteq hooks[c],
         \A i \in DOMAIN stack :
           stack[i].batch # None => \E j \in DOMAIN stack' : stack'[j].batch = stack[i].batch
  PROVE  Account(b)' /\ Waits(b)' = Waits(b)
<1>1. Waits(b)' = Waits(b)
  BY DEF Waits
<1>2. b # None
  BY ConnAssumption, BarrierBounds DEF Batches
<1>. QED  BY <1>1, <1>2 DEF Inv, Account

\* Ending the fate of the open transactions of c for the batches of S.
LEMMA SettleFacts ==
  ASSUME TypeOK, NEW c \in Conns, NEW S, NEW end \in {"committed", "rolledback"},
         Settle(c, S, end)
  PROVE  /\ fate' \in [Batches -> [Conns -> Fates]]
         /\ \A b \in Batches, d \in Conns :
              fate'[b][d] = IF d = c /\ b \in S /\ fate[b][d] = "open" THEN end
                            ELSE fate[b][d]
BY DEF TypeOK, Settle, Fates

LEMMA LeavingFacts ==
  ASSUME Inv, NEW c \in Conns, Leaving(c)
  PROVE  /\ stack # <<>> /\ Top.kind = "atomic" /\ Top.conn = c
         /\ depth[c] \in Nat \ {0} /\ mode[c] # "unopened"
         /\ depth' = [depth EXCEPT ![c] = @ - 1]
         /\ depth' \in [Conns -> Nat]
         /\ savepoints' \in [Conns -> SUBSET Nat]
         /\ \A d \in Conns : savepoints'[d] \subseteq 1..depth'[d]
         /\ \A d \in Conns : Cardinality(BlocksOf(Below, d)) = depth'[d]
<1>1. stack \in Seq(Frames) /\ stack # <<>> /\ Top.kind = "atomic" /\ Top.conn = c
  BY DEF Inv, TypeOK, Leaving, TopIs
<1>2. \A d \in Conns : Cardinality(BlocksOf(Below, d)) =
                         depth[d] - (IF d = c THEN 1 ELSE 0)
  <2>. HIDE DEF Frames
  <2>. QED  BY <1>1, BlocksPop DEF Inv, Connection, Below, Top
<1>3. depth[c] \in Nat \ {0}
  <2>1. Cardinality(BlocksOf(Below, c)) \in Nat
    <3>. HIDE DEF Frames
    <3>. QED  BY <1>1, BlocksFinite, StackFacts
  <2>. QED  BY <1>2, <2>1 DEF Inv, TypeOK
<1>4. /\ depth' = [depth EXCEPT ![c] = @ - 1]
      /\ savepoints' = [savepoints EXCEPT ![c] = @ \ {depth[c]}]
  BY DEF Leaving
<1>5. depth' \in [Conns -> Nat] /\ savepoints' \in [Conns -> SUBSET Nat]
  BY <1>3, <1>4 DEF Inv, TypeOK
<1>6. \A d \in Conns : savepoints'[d] \subseteq 1..depth'[d]
  BY <1>3, <1>4 DEF Inv, TypeOK, Connection
<1>. QED  BY <1>1, <1>2, <1>3, <1>4, <1>5, <1>6 DEF Inv, TypeOK, Connection

\* The blocks and savepoints noted with the batches, once c has left a block.
Surfaced(c) ==
  \A b \in Batches, d \in Conns :
    /\ level'[b][d] = IF d = c THEN Lower(level[b][d], depth[c] - 1) ELSE level[b][d]
    /\ within'[b][d] = IF d = c THEN within[b][d] \ {depth[c]} ELSE within[b][d]

LEMMA SurfaceFacts ==
  ASSUME Inv, NEW c \in Conns, Leaving(c), Surface(c)
  PROVE  /\ level' \in [Batches -> [Conns -> Nat]]
         /\ within' \in [Batches -> [Conns -> SUBSET Nat]]
         /\ Surfaced(c)
<1>1. depth[c] \in Nat \ {0}
  BY LeavingFacts
<1>2. level \in [Batches -> [Conns -> Nat]] /\ within \in [Batches -> [Conns -> SUBSET Nat]]
  BY DEF Inv, TypeOK
<1>3. ASSUME NEW b \in Batches
      PROVE  /\ level'[b] \in [Conns -> Nat] /\ within'[b] \in [Conns -> SUBSET Nat]
             /\ \A d \in Conns :
                  /\ level'[b][d] = IF d = c THEN Lower(level[b][d], depth[c] - 1)
                                    ELSE level[b][d]
                  /\ within'[b][d] = IF d = c THEN within[b][d] \ {depth[c]}
                                     ELSE within[b][d]
  <2>1. /\ level'[b] = [level[b] EXCEPT ![c] = Lower(@, depth[c] - 1)]
        /\ within'[b] = [within[b] EXCEPT ![c] = @ \ {depth[c]}]
    BY DEF Surface
  <2>2. level[b] \in [Conns -> Nat] /\ within[b] \in [Conns -> SUBSET Nat]
    BY <1>2
  <2>3. Lower(level[b][c], depth[c] - 1) \in Nat
    BY <1>1, <2>2 DEF Lower
  <2>. QED  BY <2>1, <2>2, <2>3
<1>4. /\ level' = [b \in Batches |-> level'[b]]
      /\ within' = [b \in Batches |-> within'[b]]
  BY DEF Surface
<1>5. level' \in [Batches -> [Conns -> Nat]] /\ within' \in [Batches -> [Conns -> SUBSET Nat]]
  BY <1>3, <1>4
<1>6. Surfaced(c)
  BY <1>3 DEF Surfaced
<1>. QED  BY <1>5, <1>6

LEMMA NotedOnLeaving ==
  ASSUME Inv, NEW c \in Conns, Leaving(c), Surface(c),
         NEW b \in Batches, NEW d \in Conns, Noted(b, d)
  PROVE  Noted(b, d)'
<1>1. CASE d = c
  <2>1. /\ depth[c] \in Nat \ {0} /\ depth'[c] = depth[c] - 1
        /\ level[b][c] \in Nat /\ within[b][c] \subseteq Nat
        /\ savepoints'[c] = savepoints[c] \ {depth[c]}
    <3>1. level[b][c] \in Nat /\ within[b][c] \subseteq Nat
      BY DEF Inv, TypeOK
    <3>2. savepoints'[c] = savepoints[c] \ {depth[c]}
      BY DEF Inv, TypeOK, Leaving
    <3>3. depth[c] \in Nat \ {0} /\ depth' = [depth EXCEPT ![c] = @ - 1] /\ c \in DOMAIN depth
      BY LeavingFacts DEF Inv, TypeOK
    <3>. QED  BY <3>1, <3>2, <3>3
  <2>2. /\ level'[b][c] = Lower(level[b][c], depth[c] - 1)
        /\ within'[b][c] = within[b][c] \ {depth[c]}
    <3>1. Surfaced(c)
      BY SurfaceFacts
    <3>. QED  BY <3>1 DEF Surfaced
  <2>. QED  BY <1>1, <2>1, <2>2 DEF Noted, Lower
<1>2. CASE d # c
  <2>1. /\ depth'[d] = depth[d] /\ savepoints'[d] = savepoints[d]
    BY <1>2 DEF Inv, TypeOK, Leaving
  <2>2. level'[b][d] = level[b][d] /\ within'[b][d] = within[b][d]
    <3>1. Surfaced(c)
      BY SurfaceFacts
    <3>. QED  BY <1>2, <3>1 DEF Surfaced
  <2>. QED  BY <2>1, <2>2 DEF Noted
<1>. QED  BY <1>1, <1>2

-----------------------------------------------------------------------------
(* Steps of host code *)

LEMMA EnterStep ==
  ASSUME Inv, NEW c \in Conns, NEW savepoint \in BOOLEAN, EnterAtomic(c, savepoint)
  PROVE  Inv'
<1>. DEFINE f == Frame("atomic", c, {}, None)
<1>1. /\ mode' = [mode EXCEPT ![c] = IF @ = "unopened" THEN "autocommit" ELSE @]
      /\ depth' = [depth EXCEPT ![c] = @ + 1]
      /\ dirty' = [dirty EXCEPT ![c] = mode[c] = "manual"]
      /\ needs' \in [Conns -> BOOLEAN]
      /\ savepoints'[c] \in {savepoints[c], savepoints[c] \cup {depth[c] + 1}}
      /\ \A d \in Conns \ {c} : savepoints'[d] = savepoints[d]
      /\ savepoints' \in [Conns -> SUBSET Nat]
      /\ entered' \in 0..MaxBlocks
      /\ UNCHANGED <<hooks, within, outcome, size, remaining, sent, failed, log, ran,
                     level, fate, lost>>
  <2>1. needs' \in [Conns -> BOOLEAN]
    BY Zenon DEF Inv, TypeOK, EnterAtomic
  <2>. QED  BY <2>1, BarrierBounds DEF Inv, TypeOK, EnterAtomic, batchVars
<1>2. /\ f \in Frames /\ f.kind = "atomic" /\ f.conn = c /\ f.batch = None
      /\ stack \in Seq(Frames) /\ stack' = Append(stack, f)
  BY DEF Inv, TypeOK, EnterAtomic, Frame, Frames
<1>3. /\ stack' \in Seq(Frames)
      /\ Len(stack) \in Nat /\ DOMAIN stack = 1..Len(stack)
      /\ DOMAIN stack' = 1..(Len(stack) + 1)
      /\ \A i \in DOMAIN stack : stack'[i] = stack[i]
      /\ stack'[Len(stack) + 1] = f
  <2>. HIDE DEF f, Frames
  <2>. QED  BY <1>2, PushFacts
<1>4. TypeOK'
  <2>1. dirty' \in [Conns -> BOOLEAN]
    BY <1>1, Zenon DEF Inv, TypeOK
  <2>2. mode' \in [Conns -> Modes] /\ depth' \in [Conns -> Nat]
    BY <1>1 DEF Inv, TypeOK, Modes
  <2>. QED  BY <1>1, <1>3, <2>1, <2>2 DEF Inv, TypeOK
<1>5. ASSUME NEW d \in Conns  PROVE Connection(d)'
  <2>1. Cardinality(BlocksOf(stack', d)) =
          Cardinality(BlocksOf(stack, d)) + (IF d = c THEN 1 ELSE 0)
    <3>. HIDE DEF f, Frames
    <3>. QED  BY <1>2, BlocksPush
  <2>2. depth'[d] = Cardinality(BlocksOf(stack', d)) /\ depth[d] \in Nat
    BY <1>1, <2>1 DEF Inv, TypeOK, Connection
  <2>3. savepoints'[d] \subseteq 1..depth'[d]
    BY <1>1 DEF Inv, TypeOK, Connection
  <2>4. mode'[d] = "manual" /\ depth'[d] > 0 => dirty'[d]
    BY <1>1 DEF Inv, TypeOK, Connection
  <2>. QED  BY <1>1, <2>2, <2>3, <2>4 DEF Inv, TypeOK, Connection
<1>6. ASSUME NEW b \in Batches, NEW d \in Conns  PROVE Fate(b, d)' /\ Registered(b, d)'
  <2>1. Fate(b, d)'
    BY <1>1 DEF Inv, TypeOK, Fate, Connection
  <2>2. Noted(b, d) => Noted(b, d)'
    <3>1. depth[d] \in Nat /\ level[b][d] \in Nat /\ within'[b][d] = within[b][d]
          /\ level'[b][d] = level[b][d]
      BY <1>1 DEF Inv, TypeOK
    <3>2. /\ depth'[d] \in {depth[d], depth[d] + 1}
          /\ savepoints'[d] \in {savepoints[d], savepoints[d] \cup {depth[d] + 1}}
      BY <1>1 DEF Inv, TypeOK
    <3>. QED  BY <3>1, <3>2 DEF Noted
  <2>3. Registered(b, d)'
    BY <1>1, <2>2 DEF Inv, TypeOK, Registered
  <2>. QED  BY <2>1, <2>3
<1>7. ASSUME NEW b \in Batches  PROVE Account(b)' /\ Remembered(b)'
  <2>1. Account(b)' /\ Waits(b)' = Waits(b)
    <3>1. \A i \in DOMAIN stack :
            stack[i].batch # None => \E k \in DOMAIN stack' : stack'[k].batch = stack[i].batch
      BY <1>3
    <3>2. UNCHANGED <<outcome, size, remaining, sent, failed, ran, fate, hooks>>
      BY <1>1
    <3>. QED  BY <3>1, <3>2, AccountKept
  <2>2. \A d \in Conns : Running(b, d) => Running(b, d)'
    BY <1>3 DEF Running
  <2>3. Waits(b) \subseteq Conns
    BY DEF Waits
  <2>. QED  BY <1>1, <2>1, <2>2, <2>3 DEF Inv, Remembered
<1>8. Stacked'
  <2>1. \A g \in Frames : FrameOK(g) => FrameOK(g)'
    BY <1>1, FramesKept
  <2>2. FrameOK(f)'
    BY <1>2 DEF FrameOK
  <2>3. \A i \in DOMAIN stack : stack[i] \in Frames
    BY <1>2, ElementOfSeq, <1>3
  <2>. HIDE DEF f, Frames
  <2>. QED  BY <1>2, <1>3, <2>1, <2>2, <2>3 DEF Inv, Stacked, Apart
<1>. QED  BY <1>4, <1>5, <1>6, <1>7, <1>8 DEF Inv

\* Steps that touch neither the stack, nor callbacks, nor what happened to batches.
LEMMA QuietStep ==
  ASSUME Inv, NEW c \in Conns, mode' \in [Conns -> Modes],
         needs' \in [Conns -> BOOLEAN],
         mode' = mode \/ (/\ depth[c] = 0 /\ mode[c] # "manual"
                          /\ mode' = [mode EXCEPT ![c] = "manual"]),
         UNCHANGED <<depth, savepoints, dirty, hooks, within, stack, entered, batchVars,
                     level, fate, lost>>
  PROVE  Inv'
<1>1. TypeOK'
  BY DEF Inv, TypeOK, batchVars
<1>2. ASSUME NEW d \in Conns  PROVE Connection(d)'
  BY DEF Inv, TypeOK, Connection
<1>3. ASSUME NEW b \in Batches, NEW d \in Conns  PROVE Fate(b, d)' /\ Registered(b, d)'
  <2>1. mode'[d] = mode[d] \/ (depth[d] = 0 /\ mode[d] # "manual" /\ hooks[d] = {})
    BY DEF Inv, TypeOK, Connection
  <2>. QED  BY <2>1 DEF Inv, TypeOK, Connection, Fate, Registered, Noted, batchVars
<1>4. ASSUME NEW b \in Batches  PROVE Account(b)' /\ Remembered(b)'
  <2>1. Account(b)' /\ Waits(b)' = Waits(b)
    BY AccountKept DEF batchVars
  <2>2. \A d \in Conns : Running(b, d)' = Running(b, d)
    BY DEF Running
  <2>3. Waits(b) \subseteq Conns
    BY DEF Waits
  <2>. QED  BY <2>1, <2>2, <2>3 DEF Inv, Remembered, batchVars
<1>5. Stacked'
  BY DEF Inv, Stacked, FrameOK, Apart, batchVars
<1>. QED  BY <1>1, <1>2, <1>3, <1>4, <1>5 DEF Inv

LEMMA ManualCommitStep ==
  ASSUME Inv, NEW c \in Conns, ManualCommit(c)
  PROVE  Inv'
<1>1. /\ mode[c] = "manual" /\ depth[c] = 0
      /\ dirty' = [dirty EXCEPT ![c] = FALSE]
      /\ UNCHANGED <<mode, needs, hooks, stack, lost, depth, savepoints, entered, within,
                     outcome, size, remaining, sent, failed, log, ran, level>>
  BY DEF Inv, TypeOK, ManualCommit, ManualUnchanged, batchVars, InAtomicBlock
<1>2. /\ fate' \in [Batches -> [Conns -> Fates]]
      /\ \A b \in Batches, d \in Conns :
           fate'[b][d] = IF d = c /\ fate[b][d] = "open" THEN "committed" ELSE fate[b][d]
  BY SettleFacts DEF Inv, ManualCommit
<1>3. TypeOK'
  <2>1. dirty' \in [Conns -> BOOLEAN]
    BY <1>1, Zenon DEF Inv, TypeOK
  <2>. QED  BY <1>1, <1>2, <2>1 DEF Inv, TypeOK
<1>4. ASSUME NEW d \in Conns  PROVE Connection(d)'
  BY <1>1 DEF Inv, TypeOK, Connection
<1>5. ASSUME NEW b \in Batches, NEW d \in Conns  PROVE Fate(b, d)' /\ Registered(b, d)'
  <2>1. Noted(b, d) => Noted(b, d)'
    BY <1>1 DEF Noted
  <2>2. d = c /\ Noted(b, d) => level[b][d] = 0
    BY <1>1 DEF Inv, TypeOK, Noted
  <2>. QED  BY <1>1, <1>2, <2>1, <2>2 DEF Inv, TypeOK, Fate, Registered
<1>6. ASSUME NEW b \in Batches  PROVE Account(b)' /\ Remembered(b)'
  <2>1. Account(b)' /\ Waits(b)' = Waits(b)
    BY <1>1, <1>2, AccountKept
  <2>2. \A d \in Conns : Running(b, d)' = Running(b, d)
    BY <1>1 DEF Running
  <2>3. Waits(b) \subseteq Conns
    BY DEF Waits
  <2>. QED  BY <1>1, <1>2, <2>1, <2>2, <2>3 DEF Inv, Remembered
<1>7. Stacked'
  <2>1. \A g \in Frames : FrameOK(g) => FrameOK(g)'
    BY <1>1, <1>2, FramesKept
  <2>2. \A i \in DOMAIN stack : stack[i] \in Frames
    BY LenProperties, ElementOfSeq DEF Inv, TypeOK
  <2>. QED  BY <1>1, <2>1, <2>2 DEF Inv, Stacked, Apart
<1>. QED  BY <1>3, <1>4, <1>5, <1>6, <1>7 DEF Inv

LEMMA ManualRollbackStep ==
  ASSUME Inv, NEW c \in Conns, ManualRollback(c)
  PROVE  Inv'
<1>1. /\ mode[c] = "manual" /\ depth[c] = 0
      /\ dirty' = [dirty EXCEPT ![c] = FALSE]
      /\ needs' = [needs EXCEPT ![c] = FALSE]
      /\ hooks' = [hooks EXCEPT ![c] = {}]
      /\ lost' = [b \in Batches |-> IF b \in hooks[c] /\ fate[b][c] = "committed"
                                    THEN lost[b] \cup {c} ELSE lost[b]]
      /\ UNCHANGED <<mode, stack, depth, savepoints, entered, within,
                     outcome, size, remaining, sent, failed, log, ran, level>>
  BY DEF Inv, TypeOK, ManualRollback, ManualUnchanged, batchVars, InAtomicBlock
<1>2. /\ fate' \in [Batches -> [Conns -> Fates]]
      /\ \A b \in Batches, d \in Conns :
           fate'[b][d] = IF d = c /\ fate[b][d] = "open" THEN "rolledback" ELSE fate[b][d]
  BY SettleFacts DEF Inv, ManualRollback
<1>0. \A d \in Conns : hooks'[d] = IF d = c THEN {} ELSE hooks[d]
  BY <1>1 DEF Inv, TypeOK
<1>3. TypeOK'
  <2>1. dirty' \in [Conns -> BOOLEAN] /\ needs' \in [Conns -> BOOLEAN]
    BY <1>1, Zenon DEF Inv, TypeOK
  <2>2. lost' \in [Batches -> SUBSET Conns] /\ hooks' \in [Conns -> SUBSET Batches]
    BY <1>1 DEF Inv, TypeOK
  <2>. QED  BY <1>1, <1>2, <2>1, <2>2 DEF Inv, TypeOK
<1>4. ASSUME NEW d \in Conns  PROVE Connection(d)'
  BY <1>0, <1>1 DEF Inv, TypeOK, Connection
<1>5. ASSUME NEW b \in Batches, NEW d \in Conns  PROVE Fate(b, d)' /\ Registered(b, d)'
  <2>1. Noted(b, d) => Noted(b, d)'
    BY <1>1 DEF Noted
  <2>. QED  BY <1>0, <1>1, <1>2, <2>1 DEF Inv, TypeOK, Fate, Registered
<1>6. ASSUME NEW b \in Batches  PROVE Account(b)' /\ Remembered(b)'
  <2>1. Account(b)' /\ Waits(b)' = Waits(b)
    <3>1. /\ \A d \in Conns : hooks'[d] \subseteq hooks[d]
          /\ \A a \in Batches, d \in Conns : fate'[a][d] = "none" <=> fate[a][d] = "none"
      BY <1>0, <1>2
    <3>2. stack' = stack /\ UNCHANGED <<outcome, size, remaining, sent, failed, ran>>
      BY <1>1
    <3>. QED  BY <3>1, <3>2, AccountKept
  <2>2. \A d \in Conns : Running(b, d)' = Running(b, d)
    BY <1>1 DEF Running
  <2>3. Waits(b) \subseteq Conns
    BY DEF Waits
  <2>4. ASSUME NEW d \in Conns, b \in hooks[d]
        PROVE  b \in hooks'[d] \/ fate'[b][d] = "rolledback" \/ d \in lost'[b]
    <3>1. fate[b][d] \in {"open", "committed"}
      BY <2>4 DEF Inv, Registered
    <3>. QED  BY <1>0, <1>1, <1>2, <2>4, <3>1
  <2>5. lost[b] \subseteq lost'[b]
    BY <1>1
  <2>. QED  BY <1>1, <1>2, <2>1, <2>2, <2>3, <2>4, <2>5 DEF Inv, Remembered
<1>7. Stacked'
  <2>1. \A g \in Frames : FrameOK(g) => FrameOK(g)'
    BY <1>0, <1>1, <1>2, FramesKept
  <2>2. \A i \in DOMAIN stack : stack[i] \in Frames
    BY LenProperties, ElementOfSeq DEF Inv, TypeOK
  <2>. QED  BY <1>1, <2>1, <2>2 DEF Inv, Stacked, Apart
<1>. QED  BY <1>3, <1>4, <1>5, <1>6, <1>7 DEF Inv

\* set_autocommit(True): the callbacks of c move to a list that is being run.
LEMMA EndManualStep ==
  ASSUME Inv, NEW c \in Conns, EndManual(c)
  PROVE  Inv'
<1>1. /\ mode[c] = "manual" /\ depth[c] = 0 /\ ~dirty[c]
      /\ mode' = [mode EXCEPT ![c] = "autocommit"]
      /\ hooks' = [hooks EXCEPT ![c] = {}]
      /\ UNCHANGED <<needs, dirty, fate, lost, depth, savepoints, entered, within,
                     outcome, size, remaining, sent, failed, log, ran, level>>
  BY DEF Inv, TypeOK, EndManual, ManualUnchanged, batchVars, InAtomicBlock
<1>2. PICK f \in Frames :
        /\ f.kind = "hooks" /\ f.conn = c /\ f.batch = None /\ f.todo = hooks[c]
        /\ stack \in Seq(Frames) /\ stack' = Append(stack, f)
  BY DEF Inv, TypeOK, EndManual, Frame, Frames
<1>3. /\ stack' \in Seq(Frames)
      /\ Len(stack) \in Nat /\ DOMAIN stack = 1..Len(stack)
      /\ DOMAIN stack' = 1..(Len(stack) + 1)
      /\ \A i \in DOMAIN stack : stack[i] \in Frames /\ stack'[i] = stack[i]
      /\ stack'[Len(stack) + 1] = f
  <2>. HIDE DEF Frames
  <2>. QED  BY <1>2, PushFacts
<1>4. \A d \in Conns : hooks'[d] = IF d = c THEN {} ELSE hooks[d]
  BY <1>1 DEF Inv, TypeOK
<1>5. TypeOK'
  <2>1. mode' \in [Conns -> Modes] /\ hooks' \in [Conns -> SUBSET Batches]
    BY <1>1 DEF Inv, TypeOK, Modes
  <2>. QED  BY <1>1, <1>3, <2>1 DEF Inv, TypeOK
<1>6. ASSUME NEW d \in Conns  PROVE Connection(d)'
  <2>1. Cardinality(BlocksOf(stack', d)) = Cardinality(BlocksOf(stack, d))
    <3>1. Cardinality(BlocksOf(stack, d)) \in Nat
      BY <1>2, BlocksFinite
    <3>2. f.kind # "atomic"
      BY <1>2
    <3>. HIDE DEF Frames
    <3>. QED  BY <1>2, <3>1, <3>2, BlocksPush
  <2>. QED  BY <1>1, <1>4, <2>1 DEF Inv, TypeOK, Connection
<1>7. ASSUME NEW b \in Batches, NEW d \in Conns  PROVE Fate(b, d)' /\ Registered(b, d)'
  <2>1. Noted(b, d) => Noted(b, d)'
    BY <1>1 DEF Noted
  <2>. QED  BY <1>1, <1>4, <2>1 DEF Inv, TypeOK, Fate, Registered
<1>8. ASSUME NEW b \in Batches  PROVE Account(b)' /\ Remembered(b)'
  <2>1. Account(b)' /\ Waits(b)' = Waits(b)
    BY <1>1, <1>3, <1>4, AccountKept
  <2>2. \A d \in Conns : Running(b, d) \/ (d = c /\ b \in hooks[c]) => Running(b, d)'
    BY <1>2, <1>3 DEF Running
  <2>3. Waits(b) \subseteq Conns
    BY DEF Waits
  <2>. QED  BY <1>1, <1>4, <2>1, <2>2, <2>3 DEF Inv, Remembered
<1>9. Stacked'
  <2>1. \A g \in Frames : FrameOK(g) => FrameOK(g)'
    BY <1>1, <1>4, FramesKept
  <2>2. FrameOK(f)'
    <3>1. \A b \in hooks[c] : c \notin ran[b] /\ fate[b][c] = "committed"
      BY <1>1 DEF Inv, TypeOK, Registered, Fate
    <3>. QED  BY <1>1, <1>2, <1>4, <3>1 DEF FrameOK
  <2>3. \A i \in DOMAIN stack : Apart(stack[i], f) /\ Apart(f, stack[i])
    BY <1>2 DEF Inv, Stacked, FrameOK, Apart
  <2>. HIDE DEF Frames
  <2>. QED  BY <1>3, <2>1, <2>2, <2>3 DEF Inv, Stacked
<1>. QED  BY <1>5, <1>6, <1>7, <1>8, <1>9 DEF Inv

-----------------------------------------------------------------------------
(* Leaving a block *)

\* The callbacks being run are still being run once a block has been left.
LEMMA RunningOnLeaving ==
  ASSUME Inv, NEW c \in Conns, Leaving(c),
         DOMAIN Below \subseteq DOMAIN stack',
         \A i \in DOMAIN Below : stack'[i] = Below[i]
  PROVE  /\ \A b \in Batches, d \in Conns : Running(b, d) => Running(b, d)'
         /\ \A i \in DOMAIN stack :
              stack[i].batch # None =>
                \E j \in DOMAIN stack' : stack'[j].batch = stack[i].batch
<1>1. /\ stack # <<>> /\ Top.kind = "atomic"
      /\ DOMAIN stack = 1..Len(stack) /\ Len(stack) \in Nat \ {0}
      /\ DOMAIN Below = 1..(Len(stack) - 1)
      /\ \A i \in DOMAIN Below : Below[i] = stack[i]
  BY LeavingFacts, StackFacts
<1>2. stack[Len(stack)].kind = "atomic" /\ stack[Len(stack)].batch = None
  BY <1>1 DEF Top, Inv, Stacked, FrameOK
<1>. QED  BY <1>1, <1>2 DEF Running

\* Leaving a block of c ends the transactions of the batches of S and discards
\* their callbacks.
Discards(c, S) ==
  /\ S \in SUBSET Batches
  /\ fate' \in [Batches -> [Conns -> Fates]]
  /\ \A b \in Batches, d \in Conns :
       fate'[b][d] = IF d = c /\ b \in S /\ fate[b][d] = "open" THEN "rolledback"
                     ELSE fate[b][d]
  /\ hooks' \in [Conns -> SUBSET Batches]
  /\ \A d \in Conns \ {c} : hooks'[d] = hooks[d]
  /\ hooks'[c] = hooks[c] \ S
  /\ OwnsTransaction(c) => S = Batches
  /\ \A b \in hooks[c] \cap S : fate[b][c] = "open"

\* What the four ways to leave a block without committing have in common.
LEMMA LeaveStep ==
  ASSUME Inv, NEW c \in Conns, Leaving(c), Surface(c), stack' = Below,
         needs' \in [Conns -> BOOLEAN], UNCHANGED lost,
         NEW S, Discards(c, S)
  PROVE  Inv'
<1>1. /\ UNCHANGED <<mode, dirty, entered, outcome, size, remaining, sent, failed, log, ran>>
      /\ \A d \in Conns \ {c} : depth'[d] = depth[d]
      /\ depth'[c] = depth[c] - 1
  BY LeavingFacts DEF Leaving, batchVars, Inv, TypeOK
<1>2. /\ stack # <<>> /\ Top.kind = "atomic"
      /\ Below \in Seq(Frames)
      /\ DOMAIN stack = 1..Len(stack) /\ Len(stack) \in Nat \ {0}
      /\ DOMAIN Below = 1..(Len(stack) - 1)
      /\ \A i \in DOMAIN Below : Below[i] = stack[i]
  <2>. HIDE DEF Frames
  <2>. QED  BY LeavingFacts, StackFacts
<1>3. TypeOK'
  <2>1. /\ depth' \in [Conns -> Nat] /\ savepoints' \in [Conns -> SUBSET Nat]
        /\ level' \in [Batches -> [Conns -> Nat]]
        /\ within' \in [Batches -> [Conns -> SUBSET Nat]]
    BY LeavingFacts, SurfaceFacts
  <2>. HIDE DEF Frames
  <2>. QED  BY <1>1, <1>2, <2>1 DEF Inv, TypeOK, Discards
<1>4. ASSUME NEW d \in Conns  PROVE Connection(d)'
  <2>1. /\ depth'[d] = Cardinality(BlocksOf(stack', d))
        /\ savepoints'[d] \subseteq 1..depth'[d]
        /\ depth'[d] \in Nat
    BY LeavingFacts
  <2>2. mode'[d] # "manual" /\ depth'[d] = 0 => hooks'[d] = {}
    <3>1. CASE d = c
      <4>1. mode[c] # "unopened" /\ depth[c] \in Nat \ {0} /\ mode[c] \in Modes
        BY LeavingFacts DEF Inv, TypeOK
      <4>2. mode[c] # "manual" /\ depth[c] = 1 => OwnsTransaction(c)
        BY <4>1 DEF OwnsTransaction, Modes
      <4>3. hooks[c] \subseteq Batches
        BY DEF Inv, TypeOK
      <4>. QED  BY <1>1, <3>1, <4>1, <4>2, <4>3 DEF Discards
    <3>2. CASE d # c
      BY <1>1, <3>2 DEF Inv, Connection, Discards
    <3>. QED  BY <3>1, <3>2
  <2>3. depth'[d] > 0 => depth[d] > 0
    <3>1. depth[c] \in Nat \ {0} /\ (d # c => depth'[d] = depth[d])
      BY <1>1, LeavingFacts
    <3>. QED  BY <3>1
  <2>4. mode'[d] = "unopened" => depth'[d] = 0
    <3>1. mode[c] # "unopened"
      BY LeavingFacts
    <3>. QED  BY <1>1, <3>1 DEF Inv, Connection
  <2>. QED  BY <1>1, <2>1, <2>2, <2>3, <2>4 DEF Inv, Connection
<1>5. ASSUME NEW b \in Batches, NEW d \in Conns  PROVE Fate(b, d)' /\ Registered(b, d)'
  <2>1. Noted(b, d) => Noted(b, d)'
    BY NotedOnLeaving
  <2>2. Fate(b, d)'
    <3>1. CASE d = c /\ fate'[b][d] = "open"
      <4>1. fate[b][d] = "open" /\ ~OwnsTransaction(c)
        BY <3>1 DEF Discards
      <4>2. depth[c] \in Nat \ {0} /\ c \notin ran[b]
        BY <3>1, <4>1, LeavingFacts DEF Inv, Fate
      <4>3. (mode[c] = "manual" /\ dirty[c]) \/ (mode[c] = "autocommit" /\ depth[c] # 1)
        BY <3>1, <4>1, <4>2 DEF Inv, Fate, OwnsTransaction
      <4>4. mode' = mode /\ dirty' = dirty /\ ran' = ran /\ depth'[c] = depth[c] - 1
        BY <1>1
      <4>5. depth[c] # 1 => depth'[c] > 0
        BY <4>2, <4>4
      <4>6. (mode'[c] = "manual" /\ dirty'[c]) \/ (mode'[c] = "autocommit" /\ depth'[c] > 0)
        BY <4>3, <4>4, <4>5, Zenon
      <4>7. c \notin ran'[b]
        BY <4>2, <4>4
      <4>. QED  BY <3>1, <4>6, <4>7, Zenon DEF Fate
    <3>2. CASE d # c \/ fate'[b][d] # "open"
      BY <1>1, <3>2 DEF Inv, Fate, Discards
    <3>. QED  BY <3>1, <3>2
  <2>3. Registered(b, d)'
    <3>1. SUFFICES ASSUME b \in hooks'[d] PROVE Registered(b, d)'
      BY DEF Registered
    <3>2. b \in hooks[d] /\ fate'[b][d] = fate[b][d]
      BY <3>1 DEF Discards
    <3>3. fate[b][d] = "committed" => level'[b][d] = 0
      <4>1. /\ level'[b][d] = IF d = c THEN Lower(level[b][d], depth[c] - 1) ELSE level[b][d]
            /\ depth[c] \in Nat \ {0}
        <5>1. depth[c] \in Nat \ {0}
          BY LeavingFacts
        <5>2. level'[b][d] = IF d = c THEN Lower(level[b][d], depth[c] - 1) ELSE level[b][d]
          <6>1. Surfaced(c)
            BY SurfaceFacts
          <6>. QED  BY <6>1 DEF Surfaced
        <5>. QED  BY <5>1, <5>2
      <4>. QED  BY <3>2, <4>1 DEF Inv, Registered, Lower
    <3>. QED  BY <1>1, <2>1, <3>2, <3>3 DEF Inv, Registered
  <2>. QED  BY <2>2, <2>3
<1>6. ASSUME NEW b \in Batches  PROVE Account(b)' /\ Remembered(b)'
  <2>1. /\ \A a \in Batches, d \in Conns : Running(a, d) => Running(a, d)'
        /\ \A i \in DOMAIN stack :
             stack[i].batch # None =>
               \E j \in DOMAIN stack' : stack'[j].batch = stack[i].batch
    <3>. HIDE DEF Frames
    <3>. QED  BY <1>2, RunningOnLeaving
  <2>2. /\ \A d \in Conns : hooks'[d] \subseteq hooks[d]
        /\ \A a \in Batches, d \in Conns : fate'[a][d] = "none" <=> fate[a][d] = "none"
    <3>1. \A d \in Conns : hooks'[d] \subseteq hooks[d]
      BY DEF Discards
    <3>. QED  BY <3>1 DEF Discards
  <2>3. Account(b)' /\ Waits(b)' = Waits(b)
    BY <1>1, <2>1, <2>2, AccountKept
  <2>4. ASSUME NEW d \in Conns, b \in hooks[d]
        PROVE  b \in hooks'[d] \/ fate'[b][d] = "rolledback"
    BY <2>4 DEF Discards
  <2>5. \A d \in Conns : fate[b][d] = "rolledback" => fate'[b][d] = "rolledback"
    BY DEF Discards
  <2>6. Waits(b) \subseteq Conns
    BY DEF Waits
  <2>. QED  BY <1>1, <2>1, <2>3, <2>4, <2>5, <2>6 DEF Inv, Remembered
<1>7. Stacked'
  <2>1. \A g \in Frames : FrameOK(g) => FrameOK(g)'
    <3>1. /\ \A d \in Conns : hooks'[d] \subseteq hooks[d]
          /\ \A b \in Batches, d \in Conns :
               fate[b][d] = "committed" => fate'[b][d] = "committed"
      BY DEF Discards
    <3>. QED  BY <1>1, <3>1, FramesKept
  <2>2. \A i \in DOMAIN stack : stack[i] \in Frames
    BY LenProperties, ElementOfSeq DEF Inv, TypeOK
  <2>. HIDE DEF Frames
  <2>. QED  BY <1>2, <2>1, <2>2 DEF Inv, Stacked
<1>. QED  BY <1>3, <1>4, <1>5, <1>6, <1>7 DEF Inv

LEMMA RollbackTransactionStep ==
  ASSUME Inv, NEW c \in Conns, RollbackTransaction(c)
  PROVE  Inv'
<1>1. /\ Leaving(c) /\ Surface(c) /\ stack' = Below /\ UNCHANGED lost
      /\ OwnsTransaction(c)
      /\ hooks' = [hooks EXCEPT ![c] = {}]
      /\ Settle(c, Batches, "rolledback")
  BY DEF RollbackTransaction
<1>2. needs' \in [Conns -> BOOLEAN]
  BY Zenon DEF RollbackTransaction, Inv, TypeOK
<1>. DEFINE S == Batches
<1>3. /\ fate' \in [Batches -> [Conns -> Fates]]
      /\ \A b \in Batches, d \in Conns :
           fate'[b][d] = IF d = c /\ b \in S /\ fate[b][d] = "open" THEN "rolledback"
                         ELSE fate[b][d]
  BY <1>1, SettleFacts DEF Inv
<1>4. /\ hooks' \in [Conns -> SUBSET Batches]
      /\ \A d \in Conns \ {c} : hooks'[d] = hooks[d]
      /\ hooks'[c] = hooks[c] \ S
  BY <1>1 DEF Inv, TypeOK
<1>5. \A b \in hooks[c] \cap S : fate[b][c] = "open"
  BY <1>1 DEF Inv, Registered, OwnsTransaction
<1>6. Discards(c, S)
  BY <1>3, <1>4, <1>5 DEF Discards
<1>. HIDE DEF S
<1>. QED  BY <1>1, <1>2, <1>6, LeaveStep

\* The batches a savepoint takes with it are those registered under it.
LEMMA RollbackSavepointStep ==
  ASSUME Inv, NEW c \in Conns, RollbackSavepoint(c)
  PROVE  Inv'
<1>. DEFINE S == {b \in Batches : level[b][c] >= depth[c]}
<1>1. /\ Leaving(c) /\ Surface(c) /\ stack' = Below /\ UNCHANGED lost
      /\ ~OwnsTransaction(c) /\ depth[c] \in savepoints[c]
      /\ hooks' = [hooks EXCEPT ![c] = {b \in @ : depth[c] \notin within[b][c]}]
      /\ Settle(c, S, "rolledback")
  BY DEF RollbackSavepoint
<1>2. needs' \in [Conns -> BOOLEAN]
  BY Zenon DEF RollbackSavepoint, Inv, TypeOK
<1>3. /\ fate' \in [Batches -> [Conns -> Fates]]
      /\ \A b \in Batches, d \in Conns :
           fate'[b][d] = IF d = c /\ b \in S /\ fate[b][d] = "open" THEN "rolledback"
                         ELSE fate[b][d]
  BY <1>1, SettleFacts DEF Inv
<1>4. ASSUME NEW b \in hooks[c]
      PROVE  /\ depth[c] \in within[b][c] <=> b \in S
             /\ b \in S => fate[b][c] = "open"
  <2>1. b \in Batches /\ Registered(b, c)
    BY DEF Inv, TypeOK
  <2>2. level[b][c] \in Nat /\ depth[c] \in Nat \ {0}
    BY <1>1, <2>1, LeavingFacts DEF Inv, TypeOK
  <2>3. /\ fate[b][c] \in {"open", "committed"}
        /\ fate[b][c] = "committed" => level[b][c] = 0
        /\ level[b][c] <= depth[c]
        /\ \A l \in 1..level[b][c] : l \in savepoints[c] => l \in within[b][c]
        /\ \A l \in within[b][c] : l \in 1..level[b][c]
    BY <2>1 DEF Registered, Noted
  <2>. QED  BY <1>1, <2>1, <2>2, <2>3
<1>5. /\ hooks' \in [Conns -> SUBSET Batches]
      /\ \A d \in Conns \ {c} : hooks'[d] = hooks[d]
      /\ hooks'[c] = hooks[c] \ S
  <2>1. hooks[c] \in SUBSET Batches /\ hooks \in [Conns -> SUBSET Batches]
    BY DEF Inv, TypeOK
  <2>2. hooks'[c] = {b \in hooks[c] : depth[c] \notin within[b][c]}
    BY <1>1, <2>1
  <2>3. hooks'[c] = hooks[c] \ S
    <3>. HIDE DEF S
    <3>. QED  BY <1>4, <2>2
  <2>4. hooks'[c] \in SUBSET Batches
    BY <2>1, <2>2
  <2>5. hooks' = [hooks EXCEPT ![c] = hooks'[c]]
    BY <1>1, <2>1, <2>2
  <2>. QED  BY <2>1, <2>3, <2>4, <2>5
<1>6. S \in SUBSET Batches
  OBVIOUS
<1>7. \A b \in hooks[c] \cap S : fate[b][c] = "open"
  <2>. HIDE DEF S
  <2>. QED  BY <1>4
<1>. HIDE DEF S
<1>8. Discards(c, S)
  BY <1>1, <1>3, <1>5, <1>6, <1>7 DEF Discards
<1>. QED  BY <1>1, <1>2, <1>8, LeaveStep

\* Leaving an inner block without a savepoint to return to.
LEMMA InnerExitStep ==
  ASSUME Inv, NEW c \in Conns, ReleaseSavepoint(c) \/ FailWithoutSavepoint(c)
  PROVE  Inv'
<1>1. /\ Leaving(c) /\ Surface(c) /\ stack' = Below /\ ~OwnsTransaction(c)
      /\ UNCHANGED <<hooks, fate, lost>>
  BY DEF ReleaseSavepoint, FailWithoutSavepoint
<1>2. needs' \in [Conns -> BOOLEAN]
  BY Zenon DEF ReleaseSavepoint, FailWithoutSavepoint, Inv, TypeOK
<1>. DEFINE S == {}
<1>3. /\ S \in SUBSET Batches
      /\ \A b \in Batches, d \in Conns :
           fate'[b][d] = IF d = c /\ b \in S /\ fate[b][d] = "open" THEN "rolledback"
                         ELSE fate[b][d]
      /\ \A d \in Conns \ {c} : hooks'[d] = hooks[d]
      /\ hooks'[c] = hooks[c] \ S
      /\ \A b \in hooks[c] \cap S : fate[b][c] = "open"
  BY <1>1
<1>4. hooks' \in [Conns -> SUBSET Batches] /\ fate' \in [Batches -> [Conns -> Fates]]
  BY <1>1 DEF Inv, TypeOK
<1>5. Discards(c, S)
  BY <1>1, <1>3, <1>4 DEF Discards
<1>. HIDE DEF S
<1>. QED  BY <1>1, <1>2, <1>5, LeaveStep

LEMMA CommitTransactionStep ==
  ASSUME Inv, NEW c \in Conns, CommitTransaction(c)
  PROVE  Inv'
<1>1. /\ Leaving(c) /\ Surface(c) /\ OwnsTransaction(c)
      /\ hooks' = [hooks EXCEPT ![c] = {}]
      /\ UNCHANGED <<needs, lost, mode, dirty, entered, outcome, size, remaining, sent,
                     failed, log, ran>>
      /\ depth[c] = 1 /\ mode[c] = "autocommit"
      /\ Settle(c, Batches, "committed")
  BY DEF CommitTransaction, Leaving, OwnsTransaction, batchVars
<1>2. PICK f \in Frames :
        /\ f.kind = "hooks" /\ f.conn = c /\ f.batch = None /\ f.todo = hooks[c]
        /\ stack' = Append(Below, f)
  BY DEF Inv, TypeOK, CommitTransaction, Frame, Frames
<1>3. /\ stack # <<>> /\ Top.kind = "atomic" /\ Below \in Seq(Frames)
      /\ DOMAIN stack = 1..Len(stack) /\ Len(stack) \in Nat \ {0}
      /\ Len(Below) = Len(stack) - 1
      /\ DOMAIN Below = 1..(Len(stack) - 1)
      /\ \A i \in DOMAIN Below : Below[i] = stack[i]
  <2>. HIDE DEF Frames
  <2>1. stack # <<>> /\ stack \in Seq(Frames) /\ Top.kind = "atomic"
    BY <1>1, LeavingFacts DEF Inv, TypeOK
  <2>. QED  BY <2>1, StackFacts, PopFacts DEF Below
<1>4. /\ stack' \in Seq(Frames)
      /\ DOMAIN stack' = 1..Len(stack)
      /\ \A i \in DOMAIN Below : stack'[i] = stack[i]
      /\ stack'[Len(stack)] = f
  <2>. HIDE DEF Frames
  <2>1. Len(Below) + 1 = Len(stack)
    BY <1>3
  <2>2. /\ Append(Below, f) \in Seq(Frames)
        /\ DOMAIN Append(Below, f) = 1..(Len(Below) + 1)
        /\ \A i \in DOMAIN Below : Append(Below, f)[i] = Below[i]
        /\ Append(Below, f)[Len(Below) + 1] = f
    BY <1>3, PushFacts
  <2>. QED  BY <1>2, <1>3, <2>1, <2>2
<1>5. /\ fate' \in [Batches -> [Conns -> Fates]]
      /\ \A b \in Batches, d \in Conns :
           fate'[b][d] = IF d = c /\ fate[b][d] = "open" THEN "committed" ELSE fate[b][d]
  BY <1>1, SettleFacts DEF Inv
<1>6. /\ hooks' \in [Conns -> SUBSET Batches]
      /\ \A d \in Conns : hooks'[d] = IF d = c THEN {} ELSE hooks[d]
  BY <1>1 DEF Inv, TypeOK
<1>7. /\ depth' \in [Conns -> Nat] /\ savepoints' \in [Conns -> SUBSET Nat]
      /\ level' \in [Batches -> [Conns -> Nat]]
      /\ within' \in [Batches -> [Conns -> SUBSET Nat]]
      /\ \A d \in Conns : depth'[d] = IF d = c THEN 0 ELSE depth[d]
      /\ \A d \in Conns : savepoints'[d] \subseteq 1..depth'[d]
  <2>1. depth' = [depth EXCEPT ![c] = @ - 1] /\ depth \in [Conns -> Nat]
    BY <1>1 DEF Leaving, Inv, TypeOK
  <2>2. \A d \in Conns : depth'[d] = IF d = c THEN 0 ELSE depth[d]
    BY <1>1, <2>1
  <2>. QED  BY <1>1, <2>2, LeavingFacts, SurfaceFacts
<1>8. TypeOK'
  <2>. HIDE DEF Frames
  <2>. QED  BY <1>1, <1>4, <1>5, <1>6, <1>7 DEF Inv, TypeOK
<1>9. ASSUME NEW d \in Conns  PROVE Connection(d)'
  <2>1. Cardinality(BlocksOf(stack', d)) = Cardinality(BlocksOf(Below, d))
    <3>1. Cardinality(BlocksOf(Below, d)) \in Nat
      BY <1>3, BlocksFinite
    <3>. HIDE DEF Frames
    <3>. QED  BY <1>2, <1>3, <3>1, BlocksPush
  <2>2. depth'[d] = Cardinality(BlocksOf(stack', d))
    BY <1>1, <2>1, LeavingFacts
  <2>. QED  BY <1>1, <1>6, <1>7, <2>2 DEF Inv, TypeOK, Connection
<1>10. ASSUME NEW b \in Batches, NEW d \in Conns  PROVE Fate(b, d)' /\ Registered(b, d)'
  <2>1. Noted(b, d) => Noted(b, d)'
    <3>1. Leaving(c) /\ Surface(c)
      BY <1>1
    <3>. QED  BY <3>1, NotedOnLeaving
  <2>2. d # c => level'[b][d] = level[b][d]
    <3>1. Leaving(c) /\ Surface(c)
      BY <1>1
    <3>2. Surfaced(c)
      BY <3>1, SurfaceFacts
    <3>. QED  BY <3>2 DEF Surfaced
  <2>3. Fate(b, d)'
    <3>1. Fate(b, d)
      BY DEF Inv
    <3>2. /\ fate'[b][d] = IF d = c /\ fate[b][d] = "open" THEN "committed" ELSE fate[b][d]
          /\ d # c => depth'[d] = depth[d]
          /\ UNCHANGED <<mode, dirty, ran>>
      BY <1>1, <1>5, <1>7
    <3>. QED  BY <3>1, <3>2 DEF Fate
  <2>4. Registered(b, d)'
    BY <1>1, <1>5, <1>6, <2>1, <2>2 DEF Inv, Registered
  <2>. QED  BY <2>3, <2>4
<1>11. ASSUME NEW b \in Batches  PROVE Account(b)' /\ Remembered(b)'
  <2>1. /\ \A a \in Batches, d \in Conns : Running(a, d) => Running(a, d)'
        /\ \A i \in DOMAIN stack :
             stack[i].batch # None =>
               \E j \in DOMAIN stack' : stack'[j].batch = stack[i].batch
    <3>. HIDE DEF Frames
    <3>1. DOMAIN Below \subseteq DOMAIN stack' /\ \A i \in DOMAIN Below : stack'[i] = Below[i]
      BY <1>3, <1>4
    <3>. QED  BY <1>1, <3>1, RunningOnLeaving
  <2>2. /\ \A d \in Conns : hooks'[d] \subseteq hooks[d]
        /\ \A a \in Batches, d \in Conns : fate'[a][d] = "none" <=> fate[a][d] = "none"
    BY <1>5, <1>6
  <2>3. Account(b)' /\ Waits(b)' = Waits(b)
    BY <1>1, <2>1, <2>2, AccountKept
  <2>4. b \in hooks[c] => Running(b, c)'
    <3>1. Len(stack) \in DOMAIN stack'
      BY <1>3, <1>4
    <3>. QED  BY <1>2, <1>4, <3>1 DEF Running
  <2>5. Waits(b) \subseteq Conns
    BY DEF Waits
  <2>. QED  BY <1>1, <1>5, <1>6, <2>1, <2>3, <2>4, <2>5 DEF Inv, Remembered
<1>12. Stacked'
  <2>1. \A g \in Frames : FrameOK(g) => FrameOK(g)'
    BY <1>1, <1>5, <1>6, FramesKept
  <2>2. FrameOK(f)'
    <3>1. \A b \in hooks[c] : c \notin ran[b] /\ fate'[b][c] = "committed"
      BY <1>5 DEF Inv, TypeOK, Registered
    <3>. QED  BY <1>1, <1>2, <1>6, <3>1 DEF FrameOK
  <2>3. \A i \in DOMAIN stack : Apart(stack[i], f) /\ Apart(f, stack[i])
    BY <1>2 DEF Inv, Stacked, FrameOK, Apart
  <2>4. \A i \in DOMAIN stack : stack[i] \in Frames
    BY LenProperties, ElementOfSeq DEF Inv, TypeOK
  <2>. HIDE DEF Frames
  <2>. QED  BY <1>3, <1>4, <2>1, <2>2, <2>3, <2>4 DEF Inv, Stacked
<1>. QED  BY <1>8, <1>9, <1>10, <1>11, <1>12 DEF Inv

-----------------------------------------------------------------------------
(* Emission *)

\* Pushing or popping anything but a block leaves the count of blocks alone.
LEMMA PushOther ==
  ASSUME NEW s \in Seq(Frames), NEW f \in Frames, f.kind # "atomic"
  PROVE  \A d \in Conns : Cardinality(BlocksOf(Append(s, f), d)) = Cardinality(BlocksOf(s, d))
<1>. SUFFICES ASSUME NEW d \in Conns
              PROVE  Cardinality(BlocksOf(Append(s, f), d)) = Cardinality(BlocksOf(s, d))
  OBVIOUS
<1>1. Cardinality(BlocksOf(s, d)) \in Nat
  BY BlocksFinite
<1>. HIDE DEF Frames
<1>. QED  BY <1>1, BlocksPush

LEMMA PopOther ==
  ASSUME Inv, stack # <<>>, Top.kind # "atomic"
  PROVE  \A d \in Conns : Cardinality(BlocksOf(Below, d)) = Cardinality(BlocksOf(stack, d))
<1>. SUFFICES ASSUME NEW d \in Conns
              PROVE  Cardinality(BlocksOf(Below, d)) = Cardinality(BlocksOf(stack, d))
  OBVIOUS
<1>1. stack \in Seq(Frames)
  BY DEF Inv, TypeOK
<1>2. Cardinality(BlocksOf(stack, d)) \in Nat
  BY <1>1, BlocksFinite
<1>. HIDE DEF Frames
<1>. QED  BY <1>1, <1>2, BlocksPop DEF Below, Top

LEMMA ConnectionKept ==
  ASSUME Inv, UNCHANGED <<mode, depth, savepoints, dirty, hooks>>,
         \A d \in Conns : Cardinality(BlocksOf(stack', d)) = Cardinality(BlocksOf(stack, d))
  PROVE  \A d \in Conns : Connection(d)'
BY DEF Inv, Connection

\* Nothing has happened to a batch before its emission.
LEMMA FreshBatch ==
  ASSUME Inv, NEW b \in Batches, outcome[b] = "none"
  PROVE  /\ sent[b] = 0 /\ ran[b] = {}
         /\ \A c \in Conns : fate[b][c] = "none" /\ b \notin hooks[c]
         /\ \A i \in DOMAIN stack :
              (stack[i].kind = "sink" => stack[i].batch # b)
              /\ (stack[i].kind = "hooks" => b \notin stack[i].todo)
<1>1. sent[b] = 0
  <2>1. sent[b] \in 0..2
    BY DEF Inv, TypeOK
  <2>2. ~(sent[b] > 0)
    BY DEF Inv, Account
  <2>. QED  BY <2>1, <2>2
<1>2. \A c \in Conns : fate[b][c] = "none" /\ b \notin hooks[c]
  BY DEF Inv, Account
<1>3. ran[b] = {}
  <2>1. ran[b] \subseteq Conns
    BY DEF Inv, TypeOK
  <2>2. \A c \in ran[b] : fate[b][c] = "committed"
    BY <2>1 DEF Inv, Fate
  <2>. QED  BY <1>2, <2>1, <2>2
<1>4. ASSUME NEW i \in DOMAIN stack
      PROVE  /\ stack[i].kind = "sink" => stack[i].batch # b
             /\ stack[i].kind = "hooks" => b \notin stack[i].todo
  <2>1. FrameOK(stack[i])
    BY DEF Inv, Stacked
  <2>. QED  BY <1>1, <1>2, <2>1 DEF FrameOK
<1>. QED  BY <1>1, <1>2, <1>3, <1>4

\* What every emission leaves alone.
LEMMA EmitFacts ==
  ASSUME Inv, NEW b \in Batches, NEW n \in 1..2, Emit(b, n)
  PROVE  /\ outcome[b] = "none"
         /\ size' = [size EXCEPT ![b] = n]
         /\ size' \in [Batches -> 0..2]
         /\ \A a \in Batches \ {b} : size'[a] = size[a]
         /\ size'[b] = n /\ n \in {1, 2}
         /\ UNCHANGED <<mode, depth, savepoints, needs, dirty, entered, failed, ran, lost>>
<1>1. size \in [Batches -> 0..2] /\ size' = [size EXCEPT ![b] = n]
  BY DEF Inv, TypeOK, Emit
<1>. QED  BY <1>1 DEF Emit, IsNext

LEMMA DropStep ==
  ASSUME Inv, NEW b \in Batches, NEW n \in 1..2, Emit(b, n), Drop(b)
  PROVE  Inv'
<1>1. /\ outcome' \in [Batches -> Outcomes]
      /\ \A a \in Batches \ {b} : outcome'[a] = outcome[a]
      /\ outcome'[b] = "dropped"
      /\ UNCHANGED <<hooks, within, remaining, level, fate, stack, sent, log>>
  BY DEF Drop, Unregistered, Inv, TypeOK, Outcomes
<1>2. /\ outcome[b] = "none"
      /\ size' \in [Batches -> 0..2]
      /\ \A a \in Batches \ {b} : size'[a] = size[a]
      /\ size'[b] = n /\ n \in {1, 2}
      /\ UNCHANGED <<mode, depth, savepoints, needs, dirty, entered, failed, ran, lost>>
  BY EmitFacts
<1>3. TypeOK'
  BY <1>1, <1>2 DEF Inv, TypeOK
<1>4. \A d \in Conns : Connection(d)'
  BY <1>1, <1>2, ConnectionKept
<1>5. ASSUME NEW a \in Batches, NEW d \in Conns  PROVE Fate(a, d)' /\ Registered(a, d)'
  BY <1>1, <1>2 DEF Inv, Fate, Registered, Noted
<1>6. ASSUME NEW a \in Batches  PROVE Account(a)' /\ Remembered(a)'
  <2>1. Waits(a)' = Waits(a) /\ \A d \in Conns : Running(a, d)' = Running(a, d)
    BY <1>1, <1>2 DEF Waits, Running
  <2>2. CASE a = b
    <3>1. sent[b] = 0 /\ \A c \in Conns : fate[b][c] = "none" /\ b \notin hooks[c]
      BY <1>2, FreshBatch
    <3>2. Account(a)'
      BY <1>1, <1>2, <2>1, <2>2, <3>1 DEF Inv, Account
    <3>3. Remembered(a)'
      BY <1>1, <2>2 DEF Remembered
    <3>. QED  BY <3>2, <3>3
  <2>3. CASE a # b
    <3>1. outcome'[a] = outcome[a] /\ size'[a] = size[a]
      BY <1>1, <1>2, <2>3
    <3>2. Account(a)'
      BY <1>1, <1>2, <2>1, <3>1 DEF Inv, Account
    <3>3. Waits(a) \subseteq Conns
      BY DEF Waits
    <3>4. Remembered(a)'
      BY <1>1, <1>2, <2>1, <3>1, <3>3 DEF Inv, Remembered
    <3>. QED  BY <3>2, <3>4
  <2>. QED  BY <2>2, <2>3
<1>7. Stacked'
  BY <1>1, <1>2 DEF Inv, Stacked, FrameOK, Apart
<1>. QED  BY <1>3, <1>4, <1>5, <1>6, <1>7 DEF Inv

LEMMA DirectStep ==
  ASSUME Inv, NEW b \in Batches, NEW n \in 1..2, Emit(b, n),
         outcome' = [outcome EXCEPT ![b] = "direct"],
         Deliver(b, stack, 1), Unregistered
  PROVE  Inv'
<1>1. /\ outcome' \in [Batches -> Outcomes]
      /\ \A a \in Batches \ {b} : outcome'[a] = outcome[a]
      /\ outcome'[b] = "direct"
      /\ UNCHANGED <<hooks, within, remaining, level, fate>>
  BY DEF Unregistered, Inv, TypeOK, Outcomes
<1>2. /\ outcome[b] = "none"
      /\ size' \in [Batches -> 0..2]
      /\ \A a \in Batches \ {b} : size'[a] = size[a]
      /\ size'[b] = n /\ n \in {1, 2}
      /\ UNCHANGED <<mode, depth, savepoints, needs, dirty, entered, failed, ran, lost>>
  BY EmitFacts
<1>3. /\ sent' \in [Batches -> 0..2] /\ sent'[b] = 1
      /\ \A a \in Batches \ {b} : sent'[a] = sent[a]
      /\ log' \in Seq(Batches \X (1..2))
  <2>1. sent' = [sent EXCEPT ![b] = 1] /\ log' = Append(log, <<b, 1>>)
    BY DEF Deliver
  <2>2. sent \in [Batches -> 0..2] /\ log \in Seq(Batches \X (1..2))
    BY DEF Inv, TypeOK
  <2>. QED  BY <2>1, <2>2
<1>4. PICK f \in Frames :
        /\ f.kind = "sink" /\ f.batch = b
        /\ stack \in Seq(Frames) /\ stack' = Append(stack, f)
  BY DEF Inv, TypeOK, Deliver, Frame, Frames
<1>5. /\ stack' \in Seq(Frames)
      /\ Len(stack) \in Nat /\ DOMAIN stack = 1..Len(stack)
      /\ DOMAIN stack' = 1..(Len(stack) + 1)
      /\ \A i \in DOMAIN stack : stack[i] \in Frames /\ stack'[i] = stack[i]
      /\ stack'[Len(stack) + 1] = f
  <2>. HIDE DEF Frames
  <2>. QED  BY <1>4, PushFacts
<1>6. TypeOK'
  <2>. HIDE DEF Frames
  <2>. QED  BY <1>1, <1>2, <1>3, <1>5 DEF Inv, TypeOK
<1>7. \A d \in Conns : Connection(d)'
  <2>1. \A d \in Conns : Cardinality(BlocksOf(stack', d)) = Cardinality(BlocksOf(stack, d))
    <3>1. f.kind # "atomic"
      BY <1>4
    <3>. HIDE DEF Frames
    <3>. QED  BY <1>4, <3>1, PushOther
  <2>. QED  BY <1>1, <1>2, <2>1, ConnectionKept
<1>8. ASSUME NEW a \in Batches, NEW d \in Conns  PROVE Fate(a, d)' /\ Registered(a, d)'
  BY <1>1, <1>2 DEF Inv, Fate, Registered, Noted
<1>9. ASSUME NEW a \in Batches  PROVE Account(a)' /\ Remembered(a)'
  <2>1. Waits(a)' = Waits(a) /\ Waits(a) \subseteq Conns
    BY <1>1, <1>2 DEF Waits
  <2>2. \A d \in Conns : Running(a, d) => Running(a, d)'
    BY <1>5 DEF Running
  <2>3. CASE a = b
    <3>1. /\ sent[b] = 0 /\ ran[b] = {}
          /\ \A c \in Conns : fate[b][c] = "none" /\ b \notin hooks[c]
      BY <1>2, FreshBatch
    <3>2. Waits(b) = {}
      BY <3>1 DEF Waits
    <3>3. remaining[b] = 0
      <4>1. remaining[b] = Cardinality(Waits(b))
        BY DEF Inv, Account
      <4>. QED  BY <3>2, <4>1, FS_EmptySet
    <3>4. \E i \in DOMAIN stack' : stack'[i].batch = b
      <4>1. Len(stack) + 1 \in DOMAIN stack'
        BY <1>5
      <4>. QED  BY <1>4, <1>5, <4>1
    <3>5. remaining'[a] = Cardinality(Waits(a)')
      BY <1>1, <2>1, <2>3 DEF Inv, Account
    <3>6. Account(a)'
      BY <1>1, <1>2, <1>3, <2>3, <3>1, <3>3, <3>4, <3>5 DEF Account
    <3>7. Remembered(a)'
      BY <1>1, <1>3, <2>1, <2>3, <3>2 DEF Remembered
    <3>. QED  BY <3>6, <3>7
  <2>4. CASE a # b
    <3>1. outcome'[a] = outcome[a] /\ size'[a] = size[a] /\ sent'[a] = sent[a]
      BY <1>1, <1>2, <1>3, <2>4
    <3>2. \A i \in DOMAIN stack : i \in DOMAIN stack' /\ stack'[i] = stack[i]
      BY <1>5
    <3>3. Account(a)'
      BY <1>1, <1>2, <2>1, <3>1, <3>2 DEF Inv, Account
    <3>4. Remembered(a)'
      BY <1>1, <1>2, <2>1, <2>2, <3>1 DEF Inv, Remembered
    <3>. QED  BY <3>3, <3>4
  <2>. QED  BY <2>3, <2>4
<1>10. Stacked'
  <2>0. \A a \in Batches : sent[a] > 0 => sent'[a] > 0
    BY <1>3
  <2>1. \A g \in Frames : FrameOK(g) => FrameOK(g)'
    <3>. HIDE DEF Frames
    <3>. QED  BY <1>1, <1>2, <2>0, FramesKept
  <2>2. FrameOK(f)'
    BY <1>3, <1>4 DEF FrameOK
  <2>3. \A i \in DOMAIN stack : Apart(stack[i], f) /\ Apart(f, stack[i])
    BY <1>4 DEF Apart
  <2>. HIDE DEF Frames
  <2>. QED  BY <1>5, <2>1, <2>2, <2>3 DEF Inv, Stacked
<1>. QED  BY <1>6, <1>7, <1>8, <1>9, <1>10 DEF Inv

\* Registered with all the connections that are inside a block, or, when a
\* registration failed and the batch is cancelled, with some of them.
LEMMA RegisterStep ==
  ASSUME Inv, NEW b \in Batches, NEW n \in 1..2, Emit(b, n),
         NEW S \in SUBSET ActiveConnections, ActiveConnections # {}, Register(b, S),
         NEW o \in {"deferred", "cancelled"}, outcome' = [outcome EXCEPT ![b] = o],
         o = "deferred" => S = ActiveConnections,
         UNCHANGED <<stack, sent, log>>
  PROVE  Inv'
<1>. DEFINE A == ActiveConnections
<1>0. /\ A \subseteq Conns /\ S \subseteq A /\ A # {}
      /\ \A c \in A : depth[c] > 0
      /\ \A c \in Conns \ A : ~(depth[c] > 0)
  BY DEF ActiveConnections, InAtomicBlock
<1>1. /\ outcome' \in [Batches -> Outcomes]
      /\ \A a \in Batches \ {b} : outcome'[a] = outcome[a]
      /\ outcome'[b] = o
  BY DEF Inv, TypeOK, Outcomes
<1>2. /\ outcome[b] = "none"
      /\ size' \in [Batches -> 0..2]
      /\ \A a \in Batches \ {b} : size'[a] = size[a]
      /\ size'[b] = n /\ n \in {1, 2}
      /\ UNCHANGED <<mode, depth, savepoints, needs, dirty, entered, failed, ran, lost>>
  BY EmitFacts
<1>3. /\ sent[b] = 0 /\ ran[b] = {}
      /\ \A c \in Conns : fate[b][c] = "none" /\ b \notin hooks[c]
      /\ \A i \in DOMAIN stack :
           (stack[i].kind = "sink" => stack[i].batch # b)
           /\ (stack[i].kind = "hooks" => b \notin stack[i].todo)
  BY <1>2, FreshBatch
<1>4. /\ hooks' \in [Conns -> SUBSET Batches]
      /\ \A c \in Conns : hooks'[c] = IF c \in S THEN hooks[c] \cup {b} ELSE hooks[c]
  BY DEF Register, Inv, TypeOK
<1>5. /\ within' \in [Batches -> [Conns -> SUBSET Nat]]
      /\ \A a \in Batches \ {b} : within'[a] = within[a]
      /\ \A c \in S : within'[b][c] = savepoints[c]
  <2>1. /\ within \in [Batches -> [Conns -> SUBSET Nat]]
        /\ savepoints \in [Conns -> SUBSET Nat]
    BY DEF Inv, TypeOK
  <2>. DEFINE w == [c \in Conns |-> IF c \in S THEN savepoints[c] ELSE {}]
  <2>2. w \in [Conns -> SUBSET Nat] /\ \A c \in S : w[c] = savepoints[c]
    BY <1>0, <2>1
  <2>3. within' = [within EXCEPT ![b] = w]
    BY DEF Register
  <2>. HIDE DEF w
  <2>. QED  BY <2>1, <2>2, <2>3
<1>6. /\ remaining' \in [Batches -> Nat]
      /\ \A a \in Batches \ {b} : remaining'[a] = remaining[a]
      /\ remaining'[b] = Cardinality(A) /\ Cardinality(A) \in Nat \ {0}
  <2>1. IsFiniteSet(A)
    BY <1>0, ConnAssumption, FS_Subset
  <2>2. Cardinality(A) \in Nat /\ Cardinality(A) # 0
    BY <1>0, <2>1, FS_CardinalityType, FS_EmptySet
  <2>3. remaining \in [Batches -> Nat] /\ remaining' = [remaining EXCEPT ![b] = Cardinality(A)]
    BY DEF Register, Inv, TypeOK
  <2>. HIDE DEF A
  <2>. QED  BY <2>2, <2>3
<1>7. /\ level' \in [Batches -> [Conns -> Nat]]
      /\ \A a \in Batches \ {b} : level'[a] = level[a]
      /\ \A c \in Conns : level'[b][c] = depth[c]
  BY DEF Register, Inv, TypeOK
<1>8. /\ fate' \in [Batches -> [Conns -> Fates]]
      /\ \A a \in Batches \ {b} : fate'[a] = fate[a]
      /\ \A c \in Conns : fate'[b][c] = IF c \in A THEN "open" ELSE "none"
  <2>. DEFINE w == [c \in Conns |-> IF c \in A THEN "open" ELSE "none"]
  <2>1. fate \in [Batches -> [Conns -> Fates]] /\ fate' = [fate EXCEPT ![b] = w]
    BY DEF Register, Inv, TypeOK
  <2>2. w \in [Conns -> Fates] /\ \A c \in Conns : w[c] = IF c \in A THEN "open" ELSE "none"
    BY DEF Fates
  <2>. HIDE DEF w, A
  <2>. QED  BY <2>1, <2>2
<1>. HIDE DEF A
<1>9. TypeOK'
  BY <1>1, <1>2, <1>4, <1>5, <1>6, <1>7, <1>8 DEF Inv, TypeOK
<1>10. ASSUME NEW d \in Conns  PROVE Connection(d)'
  BY <1>0, <1>2, <1>4 DEF Inv, Connection
<1>11. ASSUME NEW a \in Batches, NEW d \in Conns  PROVE Fate(a, d)' /\ Registered(a, d)'
  <2>1. CASE a # b
    <3>1. a \in hooks'[d] <=> a \in hooks[d]
      BY <1>4, <2>1
    <3>2. /\ level'[a][d] = level[a][d] /\ within'[a][d] = within[a][d]
          /\ fate'[a][d] = fate[a][d]
      BY <1>5, <1>7, <1>8, <2>1
    <3>3. Fate(a, d)'
      BY <1>2, <3>2 DEF Inv, Fate
    <3>4. Noted(a, d) => Noted(a, d)'
      BY <1>2, <3>2 DEF Noted
    <3>. QED  BY <1>2, <3>1, <3>2, <3>3, <3>4 DEF Inv, Registered
  <2>2. CASE a = b
    <3>1. fate'[b][d] = "open" => depth[d] > 0
      BY <1>0, <1>8
    <3>2. Fate(a, d)'
      <4>1. /\ mode[d] \in Modes
            /\ mode[d] = "unopened" => depth[d] = 0
            /\ mode[d] = "manual" /\ depth[d] > 0 => dirty[d]
        BY DEF Inv, TypeOK, Connection
      <4>2. fate'[b][d] \in {"open", "none"}
        BY <1>8
      <4>. QED  BY <1>2, <1>3, <2>2, <3>1, <4>1, <4>2 DEF Fate, Modes
    <3>3. ASSUME b \in hooks'[d]  PROVE Registered(b, d)'
      <4>1. d \in S
        BY <1>3, <1>4, <3>3
      <4>2. fate'[b][d] = "open" /\ level'[b][d] = depth[d] /\ within'[b][d] = savepoints[d]
        BY <1>0, <1>5, <1>7, <1>8, <4>1
      <4>3. savepoints[d] \subseteq 1..depth[d] /\ depth[d] \in Nat
        BY DEF Inv, TypeOK, Connection
      <4>4. Noted(b, d)'
        BY <1>2, <4>2, <4>3 DEF Noted
      <4>. QED  BY <1>2, <1>3, <4>2, <4>4 DEF Registered
    <3>. QED  BY <2>2, <3>2, <3>3 DEF Registered
  <2>. QED  BY <2>1, <2>2
<1>12. ASSUME NEW a \in Batches  PROVE Account(a)' /\ Remembered(a)'
  <2>1. \A d \in Conns : Running(a, d)' = Running(a, d)
    BY DEF Running
  <2>2. CASE a = b
    <3>1. Waits(b)' = A
      BY <1>0, <1>2, <1>3, <1>8 DEF Waits
    <3>2. Account(a)'
      BY <1>1, <1>2, <1>3, <1>6, <2>2, <3>1 DEF Account
    <3>3. Remembered(a)'
      <4>1. \A c \in A : o = "deferred" => b \in hooks'[c]
        BY <1>0, <1>4 DEF A
      <4>. QED  BY <1>1, <1>6, <2>2, <3>1, <4>1 DEF Remembered
    <3>. QED  BY <3>2, <3>3
  <2>3. CASE a # b
    <3>1. /\ outcome'[a] = outcome[a] /\ size'[a] = size[a]
          /\ fate'[a] = fate[a] /\ remaining'[a] = remaining[a]
          /\ \A d \in Conns : a \in hooks'[d] <=> a \in hooks[d]
      BY <1>1, <1>2, <1>4, <1>6, <1>8, <2>3
    <3>2. Waits(a)' = Waits(a) /\ Waits(a) \subseteq Conns
      BY <1>2, <3>1 DEF Waits
    <3>3. Account(a)'
      BY <1>2, <3>1, <3>2 DEF Inv, Account
    <3>4. Remembered(a)'
      BY <1>2, <2>1, <3>1, <3>2 DEF Inv, Remembered
    <3>. QED  BY <3>3, <3>4
  <2>. QED  BY <2>2, <2>3
<1>13. Stacked'
  <2>1. ASSUME NEW i \in DOMAIN stack  PROVE FrameOK(stack[i])'
    <3>1. FrameOK(stack[i]) /\ stack[i] \in Frames
      BY LenProperties, ElementOfSeq DEF Inv, TypeOK, Stacked
    <3>2. stack[i].kind = "hooks" =>
            \A a \in stack[i].todo :
              a \in Batches /\ a # b
      BY <1>3, <3>1 DEF Frames
    <3>3. \A a \in Batches \ {b}, d \in Conns :
            /\ a \in hooks'[d] <=> a \in hooks[d]
            /\ fate'[a][d] = fate[a][d]
      BY <1>4, <1>8
    <3>. QED  BY <1>2, <3>1, <3>2, <3>3 DEF FrameOK
  <2>. QED  BY <2>1 DEF Inv, Stacked, Apart
<1>. QED  BY <1>9, <1>10, <1>11, <1>12, <1>13 DEF Inv

LEMMA EmitStep ==
  ASSUME Inv, NEW b \in Batches, NEW n \in 1..2, Emit(b, n)
  PROVE  Inv'
<1>1. CASE Drop(b)
  BY <1>1, DropStep
<1>2. CASE /\ outcome' = [outcome EXCEPT ![b] = "direct"]
           /\ Deliver(b, stack, 1) /\ Unregistered
  BY <1>2, DirectStep
<1>3. ASSUME NEW o \in {"deferred", "cancelled"}, NEW S \in SUBSET ActiveConnections,
             ActiveConnections # {}, outcome' = [outcome EXCEPT ![b] = o],
             Register(b, S), o = "deferred" => S = ActiveConnections,
             UNCHANGED <<stack, sent, log>>
      PROVE  Inv'
  BY <1>3, RegisterStep
<1>. QED  BY <1>1, <1>2, <1>3 DEF Emit

-----------------------------------------------------------------------------
(* Callbacks and the sink *)

\* The frames below the one that ends are as they were.
LEMMA BelowKept ==
  ASSUME Inv, stack # <<>>
  PROVE  /\ \A i \in DOMAIN Below : i \in DOMAIN stack /\ Below[i] = stack[i]
         /\ \A i \in DOMAIN stack : i \in DOMAIN Below \/ i = Len(stack)
         /\ stack[Len(stack)] = Top /\ Len(stack) \in DOMAIN stack
         /\ \A i \in DOMAIN Below : i # Len(stack)
         /\ FrameOK(Top) /\ Top \in Frames
         /\ \A i \in DOMAIN stack : stack[i] \in Frames /\ FrameOK(stack[i])
         /\ \A i \in DOMAIN Below : Apart(stack[i], Top)
<1>1. /\ Len(stack) \in Nat \ {0} /\ DOMAIN stack = 1..Len(stack)
      /\ DOMAIN Below = 1..(Len(stack) - 1)
      /\ \A i \in DOMAIN Below : Below[i] = stack[i]
      /\ Top \in Frames
  BY StackFacts
<1>2. \A i \in DOMAIN stack : stack[i] \in Frames
  <2>. HIDE DEF Frames
  <2>. QED  BY LenProperties, ElementOfSeq DEF Inv, TypeOK
<1>3. stack[Len(stack)] = Top /\ Len(stack) \in DOMAIN stack
  BY <1>1 DEF Top
<1>. HIDE DEF Frames
<1>. QED  BY <1>1, <1>2, <1>3 DEF Inv, Stacked

\* A call on top of the stack ends: a list of callbacks that is finished or given
\* up, or a sink.
LEMMA PopStep ==
  ASSUME Inv, stack # <<>>, Top.kind # "atomic", stack' = Below,
         UNCHANGED <<django, hooks, outcome, size, remaining, sent, log, ran, level, fate>>,
         failed' \in [Batches -> BOOLEAN],
         \A b \in Batches : failed[b] => failed'[b],
         Top.kind = "sink" => failed'[Top.batch] \/ ~(sent[Top.batch] < size[Top.batch]),
         lost' \in [Batches -> SUBSET Conns],
         \A b \in Batches : lost[b] \subseteq lost'[b],
         Top.kind = "hooks" => \A b \in Top.todo : Top.conn \in lost'[b]
  PROVE  Inv'
<1>1. /\ UNCHANGED <<mode, depth, savepoints, needs, dirty, entered, within>>
      /\ Below \in Seq(Frames)
  BY StackFacts DEF django
<1>2. /\ \A i \in DOMAIN Below : i \in DOMAIN stack /\ Below[i] = stack[i]
      /\ \A i \in DOMAIN stack : i \in DOMAIN Below \/ i = Len(stack)
      /\ stack[Len(stack)] = Top
      /\ FrameOK(Top)
      /\ \A i \in DOMAIN stack : stack[i] \in Frames
  BY BelowKept
<1>3. TypeOK'
  BY <1>1 DEF Inv, TypeOK
<1>4. \A d \in Conns : Connection(d)'
  BY <1>1, PopOther, ConnectionKept
<1>5. ASSUME NEW a \in Batches, NEW d \in Conns  PROVE Fate(a, d)' /\ Registered(a, d)'
  BY <1>1 DEF Inv, Fate, Registered, Noted
<1>6. ASSUME NEW a \in Batches  PROVE Account(a)' /\ Remembered(a)'
  <2>1. Waits(a)' = Waits(a) /\ Waits(a) \subseteq Conns
    BY DEF Waits
  <2>2. \A d \in Conns : Running(a, d) => Running(a, d)' \/ d \in lost'[a]
    BY <1>2 DEF Running
  <2>3. sent[a] \in 1..(size[a] - 1) => failed'[a] \/ \E i \in DOMAIN stack' : stack'[i].batch = a
    <3>1. SUFFICES ASSUME sent[a] \in 1..(size[a] - 1), ~failed'[a]
                   PROVE  \E i \in DOMAIN stack' : stack'[i].batch = a
      OBVIOUS
    <3>2. PICK i \in DOMAIN stack : stack[i].batch = a
      BY <3>1 DEF Inv, Account
    <3>3. sent[a] < size[a] /\ a # None
      <4>1. sent[a] \in 0..2 /\ size[a] \in 0..2
        BY DEF Inv, TypeOK
      <4>2. a \in Nat
        BY BarrierBounds DEF Batches
      <4>. QED  BY <3>1, <4>1, <4>2, ConnAssumption
    <3>4. i # Len(stack)
      BY <1>2, <3>1, <3>2, <3>3 DEF FrameOK
    <3>. QED  BY <1>2, <3>2, <3>4
  <2>4. Account(a)'
    BY <2>1, <2>3 DEF Inv, Account
  <2>5. Remembered(a)'
    BY <2>1, <2>2 DEF Inv, Remembered
  <2>. QED  BY <2>4, <2>5
<1>7. Stacked'
  <2>1. \A g \in Frames : FrameOK(g) => FrameOK(g)'
    <3>. HIDE DEF Frames
    <3>. QED  BY <1>1, FramesKept
  <2>. HIDE DEF Frames
  <2>. QED  BY <1>2, <2>1 DEF Inv, Stacked
<1>. QED  BY <1>3, <1>4, <1>5, <1>6, <1>7 DEF Inv

LEMMA FinishCallbacksStep ==
  ASSUME Inv, FinishCallbacks
  PROVE  Inv'
<1>1. /\ stack # <<>> /\ Top.kind = "hooks" /\ Top.todo = {} /\ stack' = Below
      /\ UNCHANGED <<django, hooks, outcome, size, remaining, sent, failed, log, ran,
                     level, fate, lost>>
  BY DEF FinishCallbacks, TopIs, batchVars
<1>2. failed \in [Batches -> BOOLEAN] /\ lost \in [Batches -> SUBSET Conns]
  BY DEF Inv, TypeOK
<1>. QED  BY <1>1, <1>2, PopStep

LEMMA HostCallbackRaisesStep ==
  ASSUME Inv, HostCallbackRaises
  PROVE  Inv'
<1>1. /\ stack # <<>> /\ Top.kind = "hooks" /\ stack' = Below
      /\ UNCHANGED <<django, hooks, outcome, size, remaining, sent, failed, log, ran,
                     level, fate>>
      /\ lost' = [b \in Batches |-> IF b \in Top.todo THEN lost[b] \cup {Top.conn}
                                    ELSE lost[b]]
  BY DEF HostCallbackRaises, TopIs, batchVars
<1>2. failed \in [Batches -> BOOLEAN] /\ lost \in [Batches -> SUBSET Conns]
  BY DEF Inv, TypeOK
<1>3. Top.conn \in Conns /\ Top.todo \subseteq Batches
  BY <1>1, BelowKept DEF FrameOK, Frames
<1>4. /\ lost' \in [Batches -> SUBSET Conns]
      /\ \A b \in Batches : lost[b] \subseteq lost'[b]
      /\ \A b \in Top.todo : Top.conn \in lost'[b]
  BY <1>1, <1>2, <1>3
<1>. QED  BY <1>1, <1>2, <1>4, PopStep

LEMMA SinkEndsStep ==
  ASSUME Inv, SinkRaises \/ (SinkReturns /\ ~(sent[Top.batch] < size[Top.batch]))
  PROVE  Inv'
<1>1. /\ stack # <<>> /\ Top.kind = "sink" /\ stack' = Below
      /\ UNCHANGED <<django, hooks, outcome, size, remaining, sent, log, ran, level, fate,
                     lost>>
  BY DEF SinkRaises, SinkReturns, TopIs
<1>2. failed' = [failed EXCEPT ![Top.batch] = TRUE]
      \/ (failed' = failed /\ ~(sent[Top.batch] < size[Top.batch]))
  BY DEF SinkRaises, SinkReturns
<1>3. failed \in [Batches -> BOOLEAN] /\ lost \in [Batches -> SUBSET Conns]
  BY DEF Inv, TypeOK
<1>4. Top.batch \in Batches
  BY <1>1, BelowKept DEF FrameOK
<1>5. /\ failed' \in [Batches -> BOOLEAN]
      /\ \A b \in Batches : failed[b] => failed'[b]
      /\ failed'[Top.batch] \/ ~(sent[Top.batch] < size[Top.batch])
  BY <1>2, <1>3, <1>4, Zenon
<1>. QED  BY <1>1, <1>3, <1>5, PopStep

\* The sink returns and is called with the next event of the batch.
LEMMA NextEventStep ==
  ASSUME Inv, SinkReturns, sent[Top.batch] < size[Top.batch]
  PROVE  Inv'
<1>. DEFINE b == Top.batch
<1>1. /\ stack # <<>> /\ Top.kind = "sink"
      /\ UNCHANGED <<mode, depth, savepoints, needs, dirty, entered, within, hooks, outcome,
                     size, remaining, failed, level, fate, ran, lost>>
      /\ Deliver(b, Below, sent[b] + 1)
  BY DEF SinkReturns, TopIs, django
<1>2. /\ \A i \in DOMAIN Below : i \in DOMAIN stack /\ Below[i] = stack[i]
      /\ \A i \in DOMAIN stack : i \in DOMAIN Below \/ i = Len(stack)
      /\ stack[Len(stack)] = Top
      /\ FrameOK(Top)
      /\ \A i \in DOMAIN stack : stack[i] \in Frames
  BY <1>1, BelowKept
<1>3. b \in Batches /\ sent[b] > 0
  BY <1>1, <1>2 DEF FrameOK
<1>4. /\ sent[b] \in 0..2 /\ size[b] \in 0..2 /\ sent[b] + 1 <= size[b]
      /\ sent[b] + 1 \in {1, 2}
  BY <1>3 DEF Inv, TypeOK
<1>5. /\ sent' \in [Batches -> 0..2] /\ sent'[b] = sent[b] + 1
      /\ \A a \in Batches \ {b} : sent'[a] = sent[a]
      /\ log' \in Seq(Batches \X (1..2))
  <2>1. sent' = [sent EXCEPT ![b] = sent[b] + 1] /\ log' = Append(log, <<b, sent[b] + 1>>)
    BY <1>1 DEF Deliver
  <2>2. sent \in [Batches -> 0..2] /\ log \in Seq(Batches \X (1..2))
    BY DEF Inv, TypeOK
  <2>. HIDE DEF b
  <2>. QED  BY <1>3, <1>4, <2>1, <2>2
<1>6. PICK f \in Frames :
        /\ f.kind = "sink" /\ f.batch = b
        /\ Below \in Seq(Frames) /\ stack' = Append(Below, f)
  BY <1>1, <1>3, StackFacts DEF Deliver, Frame, Frames
<1>7. /\ stack' \in Seq(Frames)
      /\ Len(Below) \in Nat /\ DOMAIN Below = 1..Len(Below)
      /\ DOMAIN stack' = 1..(Len(Below) + 1)
      /\ \A i \in DOMAIN Below : stack'[i] = Below[i]
      /\ stack'[Len(Below) + 1] = f
  <2>. HIDE DEF Frames, b
  <2>. QED  BY <1>6, PushFacts
<1>. HIDE DEF b
<1>8. TypeOK'
  <2>. HIDE DEF Frames
  <2>. QED  BY <1>1, <1>5, <1>7 DEF Inv, TypeOK
<1>9. \A d \in Conns : Connection(d)'
  <2>1. \A d \in Conns : Cardinality(BlocksOf(stack', d)) = Cardinality(BlocksOf(stack, d))
    <3>1. f.kind # "atomic" /\ Top.kind # "atomic"
      BY <1>1, <1>6
    <3>. HIDE DEF Frames
    <3>. QED  BY <1>1, <1>6, <3>1, PushOther, PopOther
  <2>. QED  BY <1>1, <2>1, ConnectionKept
<1>10. ASSUME NEW a \in Batches, NEW d \in Conns  PROVE Fate(a, d)' /\ Registered(a, d)'
  BY <1>1 DEF Inv, Fate, Registered, Noted
<1>11. ASSUME NEW a \in Batches  PROVE Account(a)' /\ Remembered(a)'
  <2>1. Waits(a)' = Waits(a) /\ Waits(a) \subseteq Conns
    BY <1>1 DEF Waits
  <2>2. \A d \in Conns : Running(a, d) => Running(a, d)'
    BY <1>1, <1>2, <1>7 DEF Running
  <2>3. \E i \in DOMAIN stack' : stack'[i].batch = b
    <3>1. Len(Below) + 1 \in DOMAIN stack'
      BY <1>7
    <3>. QED  BY <1>6, <1>7, <3>1
  <2>4. sent[a] > 0 <=> sent'[a] > 0
    BY <1>3, <1>4, <1>5
  <2>5. sent'[a] <= size[a]
    BY <1>4, <1>5 DEF Inv, Account
  <2>6. sent'[a] \in 1..(size[a] - 1) =>
          failed[a] \/ \E i \in DOMAIN stack' : stack'[i].batch = a
    <3>1. CASE a = b
      BY <2>3, <3>1
    <3>2. CASE a # b
      <4>1. sent[a] \in 1..(size[a] - 1) =>
              failed[a] \/ \E i \in DOMAIN stack : stack[i].batch = a
        BY DEF Inv, Account
      <4>2. \A i \in DOMAIN stack : stack[i].batch = a => i \in DOMAIN Below
        BY <1>2, <3>2 DEF b
      <4>3. \A i \in DOMAIN Below : i \in DOMAIN stack' /\ stack'[i] = stack[i]
        BY <1>2, <1>7
      <4>. QED  BY <1>5, <3>2, <4>1, <4>2, <4>3
    <3>. QED  BY <3>1, <3>2
  <2>7. Account(a)'
    BY <1>1, <2>1, <2>4, <2>5, <2>6 DEF Inv, Account
  <2>8. Remembered(a)'
    BY <1>1, <2>1, <2>2, <2>4 DEF Inv, Remembered
  <2>. QED  BY <2>7, <2>8
<1>12. Stacked'
  <2>0. \A a \in Batches : sent[a] > 0 => sent'[a] > 0
    BY <1>3, <1>4, <1>5
  <2>1. \A g \in Frames : FrameOK(g) => FrameOK(g)'
    <3>. HIDE DEF Frames
    <3>. QED  BY <1>1, <2>0, FramesKept
  <2>2. FrameOK(f)'
    BY <1>3, <1>4, <1>5, <1>6 DEF FrameOK
  <2>3. \A i \in DOMAIN stack : Apart(stack[i], f) /\ Apart(f, stack[i])
    BY <1>6 DEF Apart
  <2>. HIDE DEF Frames
  <2>. QED  BY <1>2, <1>7, <2>1, <2>2, <2>3 DEF Inv, Stacked
<1>. QED  BY <1>8, <1>9, <1>10, <1>11, <1>12 DEF Inv

\* connection_committed(): the callback of the batch b for the connection on top
\* runs.  What it changes, whether or not it is the last one.
LEMMA CallbackFacts ==
  ASSUME Inv, RunCallback
  PROVE  LET c == Top.conn
             b == Least(Top.todo)
         IN  /\ stack # <<>> /\ Top.kind = "hooks" /\ Top \in Frames
             /\ c \in Conns /\ b \in Batches /\ b \in Top.todo
             /\ c \notin ran[b] /\ b \notin hooks[c] /\ fate[b][c] = "committed"
             /\ outcome[b] \in {"deferred", "cancelled"} /\ size[b] > 0 /\ sent[b] = 0
             /\ remaining[b] \in Nat \ {0}
             /\ Cardinality(Waits(b) \ {c}) = remaining[b] - 1
             /\ remaining' = [remaining EXCEPT ![b] = @ - 1]
             /\ ran' = [ran EXCEPT ![b] = @ \cup {c}]
             /\ UNCHANGED <<mode, depth, savepoints, needs, dirty, within, entered, hooks,
                            outcome, size, failed, level, fate, lost>>
<1>. DEFINE c == Top.conn
            b == Least(Top.todo)
<1>1. /\ stack # <<>> /\ Top.kind = "hooks" /\ Top.todo # {}
      /\ remaining' = [remaining EXCEPT ![b] = @ - 1]
      /\ ran' = [ran EXCEPT ![b] = @ \cup {c}]
      /\ UNCHANGED <<mode, depth, savepoints, needs, dirty, within, entered, hooks,
                     outcome, size, failed, level, fate, lost>>
  BY DEF RunCallback, TopIs, django
<1>2. Top \in Frames /\ FrameOK(Top)
  BY <1>1, BelowKept
<1>3. b \in Top.todo /\ b \in Batches
  <2>1. Top.todo \in SUBSET Batches
    BY <1>2 DEF Frames
  <2>. QED  BY <1>1, <2>1, LeastIsMember
<1>. HIDE DEF b
<1>4. c \in Conns /\ c \notin ran[b] /\ b \notin hooks[c] /\ fate[b][c] = "committed"
  BY <1>1, <1>2, <1>3 DEF FrameOK
<1>. HIDE DEF c
<1>5. outcome[b] \in {"deferred", "cancelled"} /\ size[b] > 0
  BY <1>3, <1>4 DEF Inv, TypeOK, Account, Outcomes
<1>6. /\ remaining[b] \in Nat \ {0}
      /\ Cardinality(Waits(b) \ {c}) = remaining[b] - 1
  <2>1. c \in Waits(b)
    BY <1>4 DEF Waits
  <2>2. IsFiniteSet(Waits(b)) /\ Cardinality(Waits(b)) \in Nat
    BY <1>3, WaitsFinite
  <2>3. Cardinality(Waits(b)) # 0
    BY <2>1, <2>2, FS_EmptySet
  <2>4. Cardinality(Waits(b) \ {c}) = Cardinality(Waits(b)) - 1
    BY <2>1, <2>2, FS_RemoveElement
  <2>5. remaining[b] = Cardinality(Waits(b))
    BY <1>3 DEF Inv, Account
  <2>. QED  BY <2>2, <2>3, <2>4, <2>5
<1>7. sent[b] = 0
  <2>1. sent[b] \in 0..2
    BY <1>3 DEF Inv, TypeOK
  <2>2. ~(sent[b] > 0)
    BY <1>3, <1>6 DEF Inv, Account
  <2>. QED  BY <2>1, <2>2
<1>. QED  BY <1>1, <1>2, <1>3, <1>4, <1>5, <1>6, <1>7 DEF b, c

\* What the callback does to the stack and to the sink's calls.
LEMMA CallbackStack ==
  ASSUME Inv, RunCallback
  PROVE  LET b == Least(Top.todo)
             n == Len(stack)
         IN  /\ stack' \in Seq(Frames) /\ n \in Nat \ {0}
             /\ DOMAIN stack = 1..n /\ 1..n \subseteq DOMAIN stack'
             /\ \A i \in 1..(n - 1) : stack'[i] = stack[i]
             /\ \E g \in Frames :
                  /\ g.kind = "hooks" /\ g.conn = Top.conn /\ g.batch = Top.batch
                  /\ g.todo = Top.todo \ {b}
                  /\ stack'[n] = g
             /\ \A d \in Conns :
                  Cardinality(BlocksOf(stack', d)) = Cardinality(BlocksOf(stack, d))
             /\ sent' \in [Batches -> 0..2] /\ log' \in Seq(Batches \X (1..2))
             /\ \A a \in Batches \ {b} : sent'[a] = sent[a]
             /\ IF Ready(b)
                THEN /\ sent'[b] = 1
                     /\ DOMAIN stack' = 1..(n + 1)
                     /\ \E f \in Frames : f.kind = "sink" /\ f.batch = b /\ stack'[n + 1] = f
                ELSE sent' = sent /\ DOMAIN stack' = 1..n
<1>. DEFINE b == Least(Top.todo)
            n == Len(stack)
<1>1. /\ stack # <<>> /\ Top.kind = "hooks" /\ Top \in Frames /\ b \in Batches
  BY CallbackFacts
<1>2. /\ Below \in Seq(Frames) /\ n \in Nat \ {0}
      /\ DOMAIN stack = 1..n /\ Len(Below) = n - 1
      /\ DOMAIN Below = 1..(n - 1)
      /\ \A i \in DOMAIN Below : Below[i] = stack[i]
  <2>. HIDE DEF Frames
  <2>1. stack \in Seq(Frames)
    BY DEF Inv, TypeOK
  <2>. QED  BY <1>1, <2>1, PopFacts DEF Below
<1>. HIDE DEF b, n
<1>3. PICK g \in Frames :
        /\ g = [Top EXCEPT !.todo = @ \ {b}]
        /\ g.kind = "hooks" /\ g.conn = Top.conn /\ g.batch = Top.batch
        /\ g.todo = Top.todo \ {b}
  <2>. HIDE DEF Top
  <2>1. [Top EXCEPT !.todo = @ \ {b}] \in Frames
    BY <1>1 DEF Frames
  <2>. QED  BY <1>1, <2>1 DEF Frames
<1>. DEFINE s == Append(Below, g)
<1>4. /\ s \in Seq(Frames) /\ Len(s) = n /\ DOMAIN s = 1..n
      /\ \A i \in 1..(n - 1) : s[i] = stack[i]
      /\ s[n] = g
  <2>. HIDE DEF Frames
  <2>1. /\ s \in Seq(Frames)
        /\ DOMAIN s = 1..(Len(Below) + 1)
        /\ \A i \in DOMAIN Below : s[i] = Below[i]
        /\ s[Len(Below) + 1] = g
    BY <1>2, <1>3, PushFacts
  <2>2. Len(s) = Len(Below) + 1
    BY <1>2, <1>3, AppendProperties
  <2>3. Len(Below) + 1 = n
    BY <1>2
  <2>. HIDE DEF s
  <2>. QED  BY <1>2, <2>1, <2>2, <2>3
<1>5. \A d \in Conns : Cardinality(BlocksOf(s, d)) = Cardinality(BlocksOf(stack, d))
  <2>1. g.kind # "atomic" /\ Top.kind # "atomic"
    BY <1>1, <1>3
  <2>. HIDE DEF Frames
  <2>. QED  BY <1>1, <1>2, <2>1, PushOther, PopOther
<1>6. sent \in [Batches -> 0..2] /\ log \in Seq(Batches \X (1..2))
  BY DEF Inv, TypeOK
<1>. HIDE DEF s
<1>7. CASE Ready(b)
  <2>1. Deliver(b, s, 1)
    BY <1>3, <1>7, Zenon DEF RunCallback, b, s
  <2>2. PICK f \in Frames : f.kind = "sink" /\ f.batch = b /\ stack' = Append(s, f)
    BY <1>1, <2>1 DEF Deliver, Frame, Frames
  <2>3. /\ stack' \in Seq(Frames)
        /\ DOMAIN stack' = 1..(n + 1)
        /\ \A i \in DOMAIN s : stack'[i] = s[i]
        /\ stack'[n + 1] = f
    <3>. HIDE DEF Frames
    <3>. QED  BY <1>4, <2>2, PushFacts
  <2>4. \A d \in Conns : Cardinality(BlocksOf(stack', d)) = Cardinality(BlocksOf(s, d))
    <3>1. f.kind # "atomic"
      BY <2>2
    <3>. HIDE DEF Frames
    <3>. QED  BY <1>4, <2>2, <3>1, PushOther
  <2>5. /\ sent' \in [Batches -> 0..2] /\ sent'[b] = 1 /\ log' \in Seq(Batches \X (1..2))
        /\ \A a \in Batches \ {b} : sent'[a] = sent[a]
    <3>1. sent' = [sent EXCEPT ![b] = 1] /\ log' = Append(log, <<b, 1>>)
      BY <2>1 DEF Deliver
    <3>. QED  BY <1>1, <1>6, <3>1
  <2>6. n \in DOMAIN s /\ \A i \in 1..(n - 1) : i \in DOMAIN s
    BY <1>2, <1>4
  <2>7. 1..n \subseteq DOMAIN stack'
    BY <1>2, <2>3
  <2>. HIDE DEF Frames
  <2>. QED  BY <1>2, <1>3, <1>4, <1>5, <1>7, <2>2, <2>3, <2>4, <2>5, <2>6, <2>7 DEF b, n
<1>8. CASE ~Ready(b)
  <2>1. stack' = s /\ sent' = sent /\ log' = log
    BY <1>3, <1>8, Zenon DEF RunCallback, b, s
  <2>. HIDE DEF Frames
  <2>. QED  BY <1>2, <1>3, <1>4, <1>5, <1>6, <1>8, <2>1 DEF b, n
<1>. QED  BY <1>7, <1>8

LEMMA RunCallbackStep ==
  ASSUME Inv, RunCallback
  PROVE  Inv'
<1>0. PICK b \in Batches, c \in Conns, n \in Nat \ {0} :
        b = Least(Top.todo) /\ c = Top.conn /\ n = Len(stack)
  <2>. HIDE DEF Frames
  <2>. QED  BY CallbackFacts, CallbackStack
<1>1. /\ stack # <<>> /\ Top.kind = "hooks" /\ Top \in Frames
      /\ b \in Top.todo
      /\ c \notin ran[b] /\ b \notin hooks[c] /\ fate[b][c] = "committed"
      /\ outcome[b] \in {"deferred", "cancelled"} /\ size[b] > 0 /\ sent[b] = 0
      /\ remaining[b] \in Nat \ {0}
      /\ Cardinality(Waits(b) \ {c}) = remaining[b] - 1
      /\ remaining' = [remaining EXCEPT ![b] = @ - 1]
      /\ ran' = [ran EXCEPT ![b] = @ \cup {c}]
      /\ UNCHANGED <<mode, depth, savepoints, needs, dirty, within, entered, hooks,
                     outcome, size, failed, level, fate, lost>>
  BY <1>0, CallbackFacts
<1>2. /\ stack' \in Seq(Frames)
      /\ DOMAIN stack = 1..n /\ 1..n \subseteq DOMAIN stack'
      /\ \A i \in 1..(n - 1) : stack'[i] = stack[i]
      /\ \A d \in Conns : Cardinality(BlocksOf(stack', d)) = Cardinality(BlocksOf(stack, d))
      /\ sent' \in [Batches -> 0..2] /\ log' \in Seq(Batches \X (1..2))
      /\ \A a \in Batches \ {b} : sent'[a] = sent[a]
  <2>. HIDE DEF Frames
  <2>. QED  BY <1>0, CallbackStack
<1>3. PICK g \in Frames :
        /\ g.kind = "hooks" /\ g.conn = c /\ g.batch = Top.batch
        /\ g.todo = Top.todo \ {b}
        /\ stack'[n] = g
  <2>. HIDE DEF Frames
  <2>. QED  BY <1>0, CallbackStack
<1>4. IF Ready(b)
      THEN /\ sent'[b] = 1
           /\ DOMAIN stack' = 1..(n + 1)
           /\ \E f \in Frames : f.kind = "sink" /\ f.batch = b /\ stack'[n + 1] = f
      ELSE sent' = sent /\ DOMAIN stack' = 1..n
  <2>. HIDE DEF Frames
  <2>. QED  BY <1>0, CallbackStack
<1>5. /\ stack[n] = Top /\ FrameOK(Top) /\ Top.batch = None
      /\ \A i \in DOMAIN stack : stack[i] \in Frames /\ FrameOK(stack[i])
      /\ \A i \in 1..(n - 1) : i \in DOMAIN stack /\ Apart(stack[i], Top)
  <2>1. n \in DOMAIN stack /\ \A i \in 1..(n - 1) : i \in DOMAIN stack /\ i # n
    BY <1>2
  <2>2. stack[n] = Top
    BY <1>0 DEF Top
  <2>3. FrameOK(Top) /\ \A i \in DOMAIN stack : stack[i] \in Frames /\ FrameOK(stack[i])
    BY <1>1, BelowKept
  <2>4. \A i \in 1..(n - 1) : Apart(stack[i], Top)
    BY <2>1, <2>2 DEF Inv, Stacked
  <2>5. Top.batch = None
    BY <1>1, <2>3 DEF FrameOK
  <2>. QED  BY <2>1, <2>2, <2>3, <2>4, <2>5
<1>6. /\ remaining' \in [Batches -> Nat] /\ remaining'[b] = remaining[b] - 1
      /\ \A a \in Batches \ {b} : remaining'[a] = remaining[a]
      /\ ran' \in [Batches -> SUBSET Conns] /\ ran'[b] = ran[b] \cup {c}
      /\ \A a \in Batches \ {b} : ran'[a] = ran[a]
  BY <1>1 DEF Inv, TypeOK
<1>7. TypeOK'
  <2>. HIDE DEF Frames
  <2>. QED  BY <1>1, <1>2, <1>6 DEF Inv, TypeOK
<1>8. \A d \in Conns : Connection(d)'
  BY <1>1, <1>2, ConnectionKept
<1>9. ASSUME NEW a \in Batches, NEW d \in Conns  PROVE Fate(a, d)' /\ Registered(a, d)'
  <2>1. d \in ran'[a] <=> d \in ran[a] \/ (a = b /\ d = c)
    BY <1>6
  <2>2. Noted(a, d) => Noted(a, d)'
    BY <1>1 DEF Noted
  <2>. QED  BY <1>1, <2>1, <2>2 DEF Inv, Fate, Registered
<1>10. ASSUME NEW a \in Batches  PROVE Account(a)' /\ Remembered(a)'
  <2>1. \A d \in Conns : Running(a, d) /\ (a # b \/ d # c) => Running(a, d)'
    <3>1. SUFFICES ASSUME NEW d \in Conns, Running(a, d), a # b \/ d # c
                   PROVE  Running(a, d)'
      OBVIOUS
    <3>2. PICK i \in DOMAIN stack :
            stack[i].kind = "hooks" /\ stack[i].conn = d /\ a \in stack[i].todo
      BY <3>1 DEF Running
    <3>3. i \in DOMAIN stack' /\ i \in 1..n
      BY <1>2
    <3>4. CASE i = n
      BY <1>0, <1>3, <1>5, <3>1, <3>2, <3>3, <3>4 DEF Running
    <3>5. CASE i # n
      <4>1. stack'[i] = stack[i]
        BY <1>2, <3>3, <3>5
      <4>. QED  BY <3>2, <3>3, <4>1 DEF Running
    <3>. QED  BY <3>4, <3>5
  <2>2. Waits(a) \subseteq Conns
    BY DEF Waits
  <2>3. CASE a = b
    <3>1. Waits(b)' = Waits(b) \ {c}
      BY <1>1, <1>6 DEF Waits
    <3>2. remaining'[b] = Cardinality(Waits(b)')
      BY <1>1, <1>6, <3>1
    <3>3. Ready(b) <=> remaining'[b] = 0 /\ outcome[b] = "deferred"
      BY <1>1, <1>6 DEF Ready
    <3>4. sent'[b] = IF Ready(b) THEN 1 ELSE 0
      BY <1>1, <1>4
    <3>5. Ready(b) => \E i \in DOMAIN stack' : stack'[i].batch = b
      <4>1. ASSUME Ready(b)  PROVE n + 1 \in DOMAIN stack' /\ stack'[n + 1].batch = b
        BY <1>2, <1>4, <4>1
      <4>. QED  BY <4>1
    <3>6. size[b] \in 0..2
      BY <1>1 DEF Inv, TypeOK
    <3>7. Account(a)'
      BY <1>1, <2>3, <3>2, <3>3, <3>4, <3>5, <3>6 DEF Account
    <3>8. ASSUME NEW d \in Waits(b)', outcome[b] = "deferred"
          PROVE  d \in lost[b] \/ fate[b][d] = "rolledback" \/ b \in hooks[d] \/ Running(b, d)'
      <4>1. d \in Waits(b) /\ d \in Conns /\ d # c
        BY <2>2, <2>3, <3>1, <3>8
      <4>. QED  BY <1>1, <2>1, <2>3, <3>8, <4>1 DEF Inv, Remembered
    <3>9. Remembered(a)'
      BY <1>1, <2>3, <3>3, <3>4, <3>8 DEF Remembered
    <3>. QED  BY <3>7, <3>9
  <2>4. CASE a # b
    <3>1. sent'[a] = sent[a] /\ remaining'[a] = remaining[a] /\ ran'[a] = ran[a]
      BY <1>2, <1>6, <2>4
    <3>2. Waits(a)' = Waits(a)
      BY <1>1, <3>1 DEF Waits
    <3>3. ASSUME NEW i \in DOMAIN stack, stack[i].batch = a
          PROVE  i \in DOMAIN stack' /\ stack'[i].batch = a
      <4>1. a # None
        BY ConnAssumption, BarrierBounds DEF Batches
      <4>2. i # n
        BY <1>5, <3>3, <4>1
      <4>3. i \in 1..(n - 1) /\ i \in DOMAIN stack'
        BY <1>2, <4>2
      <4>. QED  BY <1>2, <3>3, <4>3
    <3>4. Account(a)'
      BY <1>1, <3>1, <3>2, <3>3 DEF Inv, Account
    <3>5. Remembered(a)'
      BY <1>1, <2>1, <2>2, <2>4, <3>1, <3>2 DEF Inv, Remembered
    <3>. QED  BY <3>4, <3>5
  <2>. QED  BY <2>3, <2>4
<1>11. Stacked'
  <2>1. \A a \in Batches : sent[a] > 0 => sent'[a] > 0
    BY <1>1, <1>2
  <2>2. ASSUME NEW i \in 1..(n - 1), NEW h \in Frames, h = stack[i]  PROVE FrameOK(h)'
    <3>1. FrameOK(h) /\ Apart(h, Top)
      BY <1>5, <2>2
    <3>2. h.kind = "hooks" =>
            /\ h.todo \subseteq Batches
            /\ h.conn = c => b \notin h.todo
      BY <1>0, <1>1, <3>1 DEF Apart, Frames
    <3>3. \A a \in Batches, d \in Conns : d \in ran'[a] <=> d \in ran[a] \/ (a = b /\ d = c)
      BY <1>6
    <3>. QED  BY <1>1, <2>1, <3>1, <3>2, <3>3 DEF FrameOK
  <2>3. FrameOK(g)'
    <3>1. \A a \in g.todo : a \in Top.todo /\ a # b /\ a \in Batches
      BY <1>1, <1>3 DEF Frames
    <3>2. \A a \in Batches \ {b} : ran'[a] = ran[a]
      BY <1>6
    <3>. QED  BY <1>0, <1>1, <1>3, <1>5, <3>1, <3>2 DEF FrameOK
  <2>4. \A i \in 1..(n - 1) : Apart(stack[i], g) /\ Apart(g, stack[i])
    <3>1. SUFFICES ASSUME NEW i \in 1..(n - 1)
                   PROVE  Apart(stack[i], g) /\ Apart(g, stack[i])
      OBVIOUS
    <3>2. Apart(stack[i], Top)
      BY <1>5
    <3>3. Top.kind = "hooks" /\ g.conn = Top.conn /\ g.todo \subseteq Top.todo
      BY <1>0, <1>1, <1>3
    <3>. QED  BY <3>2, <3>3 DEF Apart
  <2>5. \A i \in 1..n : i = n \/ i \in 1..(n - 1)
    OBVIOUS
  <2>6. \A i, j \in 1..(n - 1) : i # j => Apart(stack[i], stack[j])
    BY <1>5 DEF Inv, Stacked
  <2>7. \A i \in 1..n : FrameOK(stack[i])' /\ stack'[i] = IF i = n THEN g ELSE stack[i]
    <3>1. SUFFICES ASSUME NEW i \in 1..n
                   PROVE  FrameOK(stack[i])' /\ stack'[i] = IF i = n THEN g ELSE stack[i]
      OBVIOUS
    <3>2. PICK h \in Frames : h = stack'[i] /\ FrameOK(h)'
      BY <1>2, <1>3, <1>5, <2>2, <2>3, <2>5
    <3>. QED  BY <1>2, <1>3, <2>5, <3>2 DEF FrameOK
  <2>8. \A i, j \in 1..n : i # j => Apart(stack'[i], stack'[j])
    <3>1. SUFFICES ASSUME NEW i \in 1..n, NEW j \in 1..n, i # j
                   PROVE  Apart(stack'[i], stack'[j])
      OBVIOUS
    <3>2. CASE i = n
      <4>1. j \in 1..(n - 1) /\ stack'[i] = g /\ stack'[j] = stack[j]
        BY <2>5, <2>7, <3>1, <3>2
      <4>. QED  BY <2>4, <4>1
    <3>3. CASE j = n
      <4>1. i \in 1..(n - 1) /\ stack'[j] = g /\ stack'[i] = stack[i]
        BY <2>5, <2>7, <3>1, <3>3
      <4>. QED  BY <2>4, <4>1
    <3>4. CASE i # n /\ j # n
      <4>1. /\ i \in 1..(n - 1) /\ stack'[i] = stack[i]
            /\ j \in 1..(n - 1) /\ stack'[j] = stack[j]
        BY <2>5, <2>7, <3>4
      <4>. QED  BY <2>6, <3>1, <4>1
    <3>. QED  BY <3>2, <3>3, <3>4
  <2>9. CASE ~Ready(b)
    <3>1. DOMAIN stack' = 1..n
      BY <1>4, <2>9
    <3>. QED  BY <2>7, <2>8, <3>1 DEF Stacked, Apart
  <2>10. CASE Ready(b)
    <3>1. DOMAIN stack' = 1..(n + 1) /\ sent'[b] = 1
      BY <1>4, <2>10
    <3>2. PICK f \in Frames : f.kind = "sink" /\ f.batch = b /\ stack'[n + 1] = f
      BY <1>4, <2>10
    <3>3. FrameOK(f)' /\ \A h : Apart(f, h) /\ Apart(h, f)
      BY <1>1, <3>1, <3>2 DEF FrameOK, Apart
    <3>4. \A i \in 1..(n + 1) : i = n + 1 \/ i \in 1..n
      OBVIOUS
    <3>5. \A i \in DOMAIN stack' : FrameOK(stack[i])'
      BY <2>7, <3>1, <3>2, <3>3, <3>4 DEF FrameOK
    <3>6. \A i, j \in DOMAIN stack' : i # j => Apart(stack'[i], stack'[j])
      BY <2>8, <3>1, <3>2, <3>3, <3>4
    <3>. QED  BY <3>5, <3>6 DEF Stacked, Apart
  <2>. QED  BY <2>9, <2>10
<1>. QED  BY <1>7, <1>8, <1>9, <1>10, <1>11 DEF Inv

-----------------------------------------------------------------------------
(* The invariant *)

LEMMA InvNext == Inv /\ [Next]_vars => Inv'
<1>. SUFFICES ASSUME Inv, [Next]_vars PROVE Inv'
  OBVIOUS
<1>1. CASE UNCHANGED vars
  <2>1. UNCHANGED <<mode, depth, savepoints, needs, dirty, hooks, within, stack, entered,
                    outcome, size, remaining, sent, failed, log, level, fate, ran, lost>>
    BY <1>1 DEF vars
  <2>2. TypeOK'
    BY <2>1 DEF Inv, TypeOK
  <2>3. \A c \in Conns : Connection(c)'
    BY <2>1, ConnectionKept
  <2>4. \A b \in Batches, c \in Conns : Fate(b, c)' /\ Registered(b, c)'
    BY <2>1 DEF Inv, Fate, Registered, Noted
  <2>5. ASSUME NEW b \in Batches  PROVE Account(b)' /\ Remembered(b)'
    <3>1. Waits(b)' = Waits(b) /\ \A c \in Conns : Running(b, c)' = Running(b, c)
      BY <2>1 DEF Waits, Running
    <3>2. Waits(b) \subseteq Conns
      BY DEF Waits
    <3>3. Account(b)'
      BY <2>1, <3>1 DEF Inv, Account
    <3>4. Remembered(b)'
      BY <2>1, <3>1, <3>2 DEF Inv, Remembered
    <3>. QED  BY <3>3, <3>4
  <2>6. Stacked'
    BY <2>1 DEF Inv, Stacked, FrameOK, Apart
  <2>. QED  BY <2>2, <2>3, <2>4, <2>5, <2>6 DEF Inv
<1>2. CASE RunCallback
  BY <1>2, RunCallbackStep
<1>3. CASE FinishCallbacks
  BY <1>3, FinishCallbacksStep
<1>4. CASE HostCallbackRaises
  BY <1>4, HostCallbackRaisesStep
<1>5. CASE SinkReturns
  BY <1>5, SinkEndsStep, NextEventStep
<1>6. CASE SinkRaises
  BY <1>6, SinkEndsStep
<1>7. ASSUME NEW c \in Conns, ExitAtomic(c)  PROVE Inv'
  BY <1>7, CommitTransactionStep, RollbackTransactionStep, RollbackSavepointStep,
     InnerExitStep DEF ExitAtomic
<1>8. ASSUME NEW c \in Conns, NEW savepoint \in BOOLEAN, EnterAtomic(c, savepoint)
      PROVE  Inv'
  BY <1>8, EnterStep
<1>9. ASSUME NEW c \in Conns, MarkForRollback(c)  PROVE Inv'
  <2>1. needs' \in [Conns -> BOOLEAN]
    BY <1>9, Zenon DEF MarkForRollback, Inv, TypeOK
  <2>2. mode' \in [Conns -> Modes]
    BY <1>9 DEF MarkForRollback, Inv, TypeOK
  <2>. QED  BY <1>9, <2>1, <2>2, QuietStep DEF MarkForRollback
<1>10. ASSUME NEW c \in Conns, BeginManual(c)  PROVE Inv'
  <2>1. /\ depth[c] = 0 /\ mode[c] # "manual" /\ mode' = [mode EXCEPT ![c] = "manual"]
        /\ mode' \in [Conns -> Modes] /\ needs' \in [Conns -> BOOLEAN]
    BY <1>10 DEF BeginManual, InAtomicBlock, Inv, TypeOK, Modes
  <2>. QED  BY <1>10, <2>1, QuietStep DEF BeginManual, ManualUnchanged
<1>11. ASSUME NEW c \in Conns, ManualCommit(c) \/ ManualRollback(c) \/ EndManual(c)
       PROVE  Inv'
  BY <1>11, ManualCommitStep, ManualRollbackStep, EndManualStep
<1>12. ASSUME NEW b \in Batches, NEW n \in 1..2, Emit(b, n)  PROVE Inv'
  BY <1>12, EmitStep
<1>. QED  BY <1>1, <1>2, <1>3, <1>4, <1>5, <1>6, <1>7, <1>8, <1>9, <1>10, <1>11, <1>12
     DEF Next, Unwind

LEMMA InvAlways == Spec => []Inv
BY InvInit, InvNext, PTL DEF Spec

\* Every variable keeps its type: no counter of _after_open_transactions goes below
\* zero, whatever is registered, discarded or run.
THEOREM TypeCorrect == Spec => []TypeOK
<1>1. Inv => TypeOK
  BY DEF Inv
<1>. QED  BY <1>1, InvAlways, PTL

\* A batch the sink has seen waits for nothing, and so all its transactions have
\* committed.
LEMMA ToldHasCommitted ==
  ASSUME Inv, NEW b \in Batches, remaining[b] = 0
  PROVE  \A c \in Conns : fate[b][c] \in {"none", "committed"}
<1>1. Cardinality(Waits(b)) = 0 /\ IsFiniteSet(Waits(b))
  BY WaitsFinite DEF Inv, Account
<1>2. Waits(b) = {}
  BY <1>1, FS_EmptySet
<1>. SUFFICES ASSUME NEW c \in Conns PROVE fate[b][c] \in {"none", "committed"}
  OBVIOUS
<1>3. c \in ran[b] => fate[b][c] = "committed"
  BY DEF Inv, Fate
<1>. QED  BY <1>2, <1>3 DEF Waits

\* emit_observability_events promises a batch only "after every current Django atomic
\* block commits successfully": with any number of connections and any nesting.
THEOREM DeliveryFollowsCommits == Spec => []CommittedBeforeDelivery
<1>1. Inv => CommittedBeforeDelivery
  <2>. SUFFICES ASSUME Inv, NEW b \in Batches, sent[b] > 0
                PROVE  \A c \in Conns : fate[b][c] \in {"none", "committed"}
    BY DEF CommittedBeforeDelivery
  <2>1. remaining[b] = 0
    BY DEF Inv, Account
  <2>. QED  BY <2>1, ToldHasCommitted
<1>. QED  BY <1>1, InvAlways, PTL

\* deliver() hands over all the events of a batch unless the sink raises, and none of
\* a batch that was dropped or cancelled.
THEOREM BatchesAreWhole == Spec => []WholeBatches
<1>1. Inv => WholeBatches
  <2>. SUFFICES ASSUME Inv, NEW b \in Batches
                PROVE  /\ sent[b] > 0 => outcome[b] \in {"direct", "deferred"}
                       /\ sent[b] \in 1..(size[b] - 1) =>
                            failed[b] \/ \E i \in DOMAIN stack : stack[i].batch = b
    BY DEF WholeBatches
  <2>1. Account(b)
    BY DEF Inv
  <2>. QED  BY <2>1 DEF Account
<1>. QED  BY <1>1, InvAlways, PTL

\* The barrier forgets no batch: one that is still undelivered when the thread is idle
\* was rolled back or lost its callback to Django.
THEOREM NoBatchIsForgotten == Spec => []NothingForgotten
<1>1. Inv => NothingForgotten
  <2>. SUFFICES ASSUME Inv, stack = <<>>, \A c \in Conns : mode[c] # "manual",
                       NEW b \in Batches, outcome[b] \in {"direct", "deferred"},
                       sent[b] = 0,
                       \A c \in Conns : fate[b][c] # "rolledback"
                PROVE  lost[b] # {}
    BY DEF NothingForgotten
  <2>1. remaining[b] # 0
    BY DEF Inv, Remembered
  <2>2. Waits(b) # {}
    BY <2>1, FS_EmptySet DEF Inv, Account
  <2>3. PICK c \in Conns : c \in Waits(b)
    BY <2>2 DEF Waits
  <2>4. outcome[b] = "deferred"
    BY <2>3 DEF Inv, Account, Waits
  <2>5. b \notin hooks[c]
    <3>1. BlocksOf(stack, c) = {}
      BY DEF BlocksOf
    <3>2. depth[c] = 0
      BY <3>1, FS_EmptySet DEF Inv, Connection
    <3>. QED  BY <3>2 DEF Inv, Connection
  <2>6. ~Running(b, c)
    BY DEF Running
  <2>. QED  BY <2>3, <2>4, <2>5, <2>6 DEF Inv, Remembered
<1>. QED  BY <1>1, InvAlways, PTL

-----------------------------------------------------------------------------
(* Refinement of BatchPromise *)

Known == {b \in Batches : outcome[b] # "none"}
Open == [b \in Batches |-> {c \in Conns : fate[b][c] = "open"}]
Void == {b \in Batches : \/ outcome[b] \in {"dropped", "cancelled"}
                         \/ \E c \in Conns : fate[b][c] = "rolledback"}

LEMMA PromiseQuiet ==
  ASSUME UNCHANGED <<outcome, fate, sent>>
  PROVE  UNCHANGED Promise!promise
BY DEF Promise!promise

\* A commit or a rollback of c, for the batches of S.
LEMMA PromiseSettles ==
  ASSUME Inv, NEW c \in Conns, NEW S \in SUBSET Batches,
         NEW end \in {"committed", "rolledback"}, Settle(c, S, end),
         end = "committed" => S = Batches,
         UNCHANGED <<outcome, sent>>
  PROVE  Promise!PromiseNext
<1>1. \A b \in Batches, d \in Conns :
        fate'[b][d] = IF d = c /\ b \in S /\ fate[b][d] = "open" THEN end ELSE fate[b][d]
  BY SettleFacts DEF Inv
<1>2. CASE end = "committed"
  <2>1. Open' = [b \in Batches |-> Open[b] \ {c}]
    BY <1>1, <1>2 DEF Open
  <2>2. Known' = Known /\ Void' = Void
    BY <1>1, <1>2 DEF Known, Void
  <2>3. Promise!Commit(c)
    BY <2>1, <2>2 DEF Promise!Commit, Known, Open, Void
  <2>. QED  BY <2>3 DEF Promise!PromiseNext
<1>3. CASE end = "rolledback"
  <2>0. PICK B \in SUBSET Batches : B = {b \in S : fate[b][c] = "open"}
    OBVIOUS
  <2>1. /\ \A b \in B : c \in Open[b]
        /\ Open' = [b \in Batches |-> IF b \in B THEN Open[b] \ {c} ELSE Open[b]]
    BY <1>1, <1>3, <2>0 DEF Open
  <2>2. Known' = Known /\ Void' = Void \cup B
    BY <1>1, <1>3, <2>0 DEF Known, Void
  <2>3. Promise!Rollback(c, B)
    BY <2>1, <2>2 DEF Promise!Rollback, Known, Open, Void
  <2>. QED  BY <2>3 DEF Promise!PromiseNext
<1>. QED  BY <1>2, <1>3

LEMMA PromiseEmits ==
  ASSUME Inv, NEW b \in Batches, NEW n \in 1..2, Emit(b, n)
  PROVE  Promise!PromiseNext
<1>1. /\ outcome[b] = "none" /\ sent[b] = 0
      /\ \A c \in Conns : fate[b][c] = "none"
      /\ b \notin Known /\ b \notin Void
  BY EmitFacts, FreshBatch DEF Known, Void
<1>2. /\ outcome \in [Batches -> Outcomes]
      /\ sent \in [Batches -> 0..2]
      /\ fate \in [Batches -> [Conns -> Fates]]
  BY DEF Inv, TypeOK
<1>3. ASSUME NEW o \in Outcomes \ {"none"}, outcome' = [outcome EXCEPT ![b] = o]
      PROVE  /\ Known' = Known \cup {b}
             /\ \A a \in Batches \ {b} : outcome'[a] = outcome[a]
             /\ outcome'[b] = o
  <2>1. outcome'[b] = o /\ \A a \in Batches \ {b} : outcome'[a] = outcome[a]
    BY <1>2, <1>3
  <2>. QED  BY <2>1 DEF Known
<1>4. CASE Drop(b)
  <2>1. outcome' = [outcome EXCEPT ![b] = "dropped"] /\ fate' = fate /\ sent' = sent
    BY <1>4 DEF Drop, Unregistered
  <2>2. /\ Known' = Known \cup {b}
        /\ \A a \in Batches \ {b} : outcome'[a] = outcome[a]
        /\ outcome'[b] = "dropped"
    BY <1>3, <2>1 DEF Outcomes
  <2>3. Void' = Void \cup {b}
    BY <2>1, <2>2 DEF Void
  <2>4. Open' = [Open EXCEPT ![b] = {}]
    BY <1>1, <2>1 DEF Open
  <2>5. Promise!Refuse(b, {})
    BY <1>1, <2>1, <2>2, <2>3, <2>4 DEF Promise!Refuse, Known, Open, Void
  <2>. QED  BY <2>5 DEF Promise!PromiseNext
<1>5. CASE /\ outcome' = [outcome EXCEPT ![b] = "direct"]
           /\ Deliver(b, stack, 1) /\ Unregistered
  <2>1. fate' = fate /\ sent' = [sent EXCEPT ![b] = 1]
    BY <1>5 DEF Deliver, Unregistered
  <2>2. /\ Known' = Known \cup {b}
        /\ \A a \in Batches \ {b} : outcome'[a] = outcome[a]
        /\ outcome'[b] = "direct"
    BY <1>3, <1>5 DEF Outcomes
  <2>3. Void' = Void
    BY <1>1, <2>1, <2>2 DEF Void
  <2>4. Open' = Open
    BY <2>1 DEF Open
  <2>5. Promise!Announce(b)
    BY <1>1, <2>1, <2>2, <2>3, <2>4 DEF Promise!Announce, Known, Open, Void
  <2>. QED  BY <2>5 DEF Promise!PromiseNext
<1>6. ASSUME NEW o \in {"deferred", "cancelled"}, NEW S, outcome' = [outcome EXCEPT ![b] = o],
             Register(b, S), sent' = sent
      PROVE  Promise!PromiseNext
  <2>1. PICK A \in SUBSET Conns : A = ActiveConnections
    BY DEF ActiveConnections
  <2>2. /\ Known' = Known \cup {b}
        /\ \A a \in Batches \ {b} : outcome'[a] = outcome[a]
        /\ outcome'[b] = o
    BY <1>3, <1>6 DEF Outcomes
  <2>3. /\ \A a \in Batches \ {b} : fate'[a] = fate[a]
        /\ \A c \in Conns : fate'[b][c] = IF c \in A THEN "open" ELSE "none"
    BY <1>2, <1>6, <2>1 DEF Register
  <2>4. Open' = [Open EXCEPT ![b] = A]
    BY <2>3 DEF Open
  <2>5. Void' = IF o = "cancelled" THEN Void \cup {b} ELSE Void
    BY <1>1, <2>2, <2>3 DEF Void
  <2>6. CASE o = "deferred"
    <3>1. Promise!Accept(b, A)
      BY <1>1, <1>6, <2>2, <2>4, <2>5, <2>6 DEF Promise!Accept, Known, Open, Void
    <3>. QED  BY <3>1 DEF Promise!PromiseNext
  <2>7. CASE o = "cancelled"
    <3>1. Promise!Refuse(b, A)
      BY <1>1, <1>6, <2>2, <2>4, <2>5, <2>7 DEF Promise!Refuse, Known, Open, Void
    <3>. QED  BY <3>1 DEF Promise!PromiseNext
  <2>. QED  BY <2>6, <2>7
<1>. QED  BY <1>4, <1>5, <1>6 DEF Emit

\* Another event of a batch that waits for nothing and was not given up.
LEMMA PromiseTells ==
  ASSUME Inv, NEW b \in Batches, outcome[b] \in {"direct", "deferred"},
         \A c \in Conns : fate[b][c] \in {"none", "committed"},
         sent[b] < 2, sent' = [sent EXCEPT ![b] = sent[b] + 1],
         UNCHANGED <<outcome, fate>>
  PROVE  Promise!PromiseNext
<1>1. b \in Known \ Void /\ Open[b] = {}
  BY DEF Known, Void, Open
<1>2. Known' = Known /\ Void' = Void /\ Open' = Open
  BY DEF Known, Void, Open
<1>3. Promise!Tell(b)
  BY <1>1, <1>2 DEF Promise!Tell, Known, Void, Open
<1>. QED  BY <1>3 DEF Promise!PromiseNext

LEMMA PromiseCallback ==
  ASSUME Inv, RunCallback
  PROVE  Promise!PromiseNext \/ UNCHANGED Promise!promise
<1>0. PICK b \in Batches, c \in Conns : b = Least(Top.todo) /\ c = Top.conn
  BY CallbackFacts
<1>1. /\ outcome[b] \in {"deferred", "cancelled"} /\ sent[b] = 0
      /\ fate[b][c] = "committed" /\ remaining[b] \in Nat \ {0}
      /\ Cardinality(Waits(b) \ {c}) = remaining[b] - 1
      /\ UNCHANGED <<outcome, fate>>
  BY <1>0, CallbackFacts
<1>2. CASE Ready(b)
  <2>1. remaining[b] = 1 /\ outcome[b] = "deferred"
    BY <1>1, <1>2 DEF Ready
  <2>2. Waits(b) \ {c} = {}
    <3>1. IsFiniteSet(Waits(b) \ {c})
      BY WaitsFinite, FS_Subset
    <3>. QED  BY <1>1, <2>1, <3>1, FS_EmptySet
  <2>3. \A d \in Conns : fate[b][d] \in {"none", "committed"}
    <3>1. SUFFICES ASSUME NEW d \in Conns PROVE fate[b][d] \in {"none", "committed"}
      OBVIOUS
    <3>2. d \in ran[b] => fate[b][d] = "committed"
      BY DEF Inv, Fate
    <3>. QED  BY <1>1, <2>2, <3>2 DEF Waits
  <2>4. sent' = [sent EXCEPT ![b] = sent[b] + 1]
    <3>1. sent' = [sent EXCEPT ![b] = 1]
      BY <1>0, <1>2 DEF RunCallback, Deliver
    <3>. QED  BY <1>1, <3>1
  <2>5. sent[b] < 2 /\ outcome[b] \in {"direct", "deferred"}
    BY <1>1, <2>1
  <2>6. UNCHANGED <<outcome, fate>>
    BY <1>1
  <2>7. Promise!PromiseNext
    BY <2>3, <2>4, <2>5, <2>6, PromiseTells
  <2>. QED  BY <2>7
<1>3. CASE ~Ready(b)
  <2>1. sent' = sent
    BY <1>0, <1>3 DEF RunCallback
  <2>. QED  BY <1>1, <2>1, PromiseQuiet
<1>. QED  BY <1>2, <1>3

LEMMA PromiseSink ==
  ASSUME Inv, SinkReturns
  PROVE  Promise!PromiseNext \/ UNCHANGED Promise!promise
<1>1. stack # <<>> /\ Top.kind = "sink" /\ UNCHANGED <<outcome, fate>>
  BY DEF SinkReturns, TopIs
<1>2. PICK b \in Batches : b = Top.batch /\ sent[b] > 0
  BY <1>1, BelowKept DEF FrameOK
<1>3. CASE sent[b] < size[b]
  <2>1. sent' = [sent EXCEPT ![b] = sent[b] + 1]
    BY <1>2, <1>3 DEF SinkReturns, Deliver
  <2>2. remaining[b] = 0 /\ outcome[b] \in {"direct", "deferred"}
    BY <1>2 DEF Inv, Account
  <2>3. sent[b] < 2
    <3>1. sent[b] \in 0..2 /\ size[b] \in 0..2
      BY DEF Inv, TypeOK
    <3>. QED  BY <1>3, <3>1
  <2>. QED  BY <1>1, <2>1, <2>2, <2>3, ToldHasCommitted, PromiseTells
<1>4. CASE ~(sent[b] < size[b])
  <2>1. sent' = sent
    BY <1>2, <1>4 DEF SinkReturns
  <2>. QED  BY <1>1, <2>1, PromiseQuiet
<1>. QED  BY <1>3, <1>4

\* The counters and callbacks of _after_open_transactions implement BatchPromise: the
\* first event waits for every commit, and a rollback, even to a savepoint, voids it.
THEOREM BarrierKeepsPromise == Spec => KeepsPromise
<1>1. Init => Promise!PromiseInit
  BY DEF Init, Promise!PromiseInit
<1>2. Inv /\ [Next]_vars => [Promise!PromiseNext]_Promise!promise
  <2>. SUFFICES ASSUME Inv, [Next]_vars
                PROVE  Promise!PromiseNext \/ UNCHANGED Promise!promise
    BY DEF Promise!promise
  <2>1. CASE UNCHANGED vars
    BY <2>1, PromiseQuiet DEF vars
  <2>2. CASE RunCallback
    BY <2>2, PromiseCallback
  <2>3. CASE FinishCallbacks \/ HostCallbackRaises \/ SinkRaises
    BY <2>3, PromiseQuiet DEF FinishCallbacks, HostCallbackRaises, SinkRaises, batchVars
  <2>4. CASE SinkReturns
    BY <2>4, PromiseSink
  <2>5. ASSUME NEW c \in Conns, ExitAtomic(c)
        PROVE  Promise!PromiseNext \/ UNCHANGED Promise!promise
    <3>1. UNCHANGED <<outcome, sent>>
      BY <2>5 DEF ExitAtomic, CommitTransaction, RollbackTransaction, ReleaseSavepoint,
                  RollbackSavepoint, FailWithoutSavepoint, Leaving, batchVars
    <3>2. CASE CommitTransaction(c) \/ RollbackTransaction(c) \/ RollbackSavepoint(c)
      <4>1. PICK S \in SUBSET Batches, end \in {"committed", "rolledback"} :
              Settle(c, S, end) /\ (end = "committed" => S = Batches)
        BY <3>2 DEF CommitTransaction, RollbackTransaction, RollbackSavepoint
      <4>. QED  BY <3>1, <4>1, PromiseSettles
    <3>3. CASE ReleaseSavepoint(c) \/ FailWithoutSavepoint(c)
      BY <3>1, <3>3, PromiseQuiet DEF ReleaseSavepoint, FailWithoutSavepoint
    <3>. QED  BY <2>5, <3>2, <3>3 DEF ExitAtomic
  <2>6. ASSUME NEW c \in Conns, NEW savepoint \in BOOLEAN, EnterAtomic(c, savepoint)
        PROVE  UNCHANGED Promise!promise
    BY <2>6, PromiseQuiet DEF EnterAtomic, batchVars
  <2>7. ASSUME NEW c \in Conns, MarkForRollback(c) \/ BeginManual(c) \/ EndManual(c)
        PROVE  UNCHANGED Promise!promise
    BY <2>7, PromiseQuiet DEF MarkForRollback, BeginManual, EndManual, ManualUnchanged,
                              batchVars
  <2>8. ASSUME NEW c \in Conns, ManualCommit(c) \/ ManualRollback(c)
        PROVE  Promise!PromiseNext
    <3>1. UNCHANGED <<outcome, sent>>
      BY <2>8 DEF ManualCommit, ManualRollback, ManualUnchanged, batchVars
    <3>2. PICK end \in {"committed", "rolledback"} : Settle(c, Batches, end)
      BY <2>8 DEF ManualCommit, ManualRollback
    <3>. QED  BY <3>1, <3>2, PromiseSettles
  <2>9. ASSUME NEW b \in Batches, NEW n \in 1..2, Emit(b, n)
        PROVE  Promise!PromiseNext
    BY <2>9, PromiseEmits
  <2>. QED  BY <2>1, <2>2, <2>3, <2>4, <2>5, <2>6, <2>7, <2>8, <2>9 DEF Next, Unwind
<1>. QED  BY <1>1, <1>2, InvAlways, PTL DEF Spec, KeepsPromise, Promise!PromiseSpec

=============================================================================
