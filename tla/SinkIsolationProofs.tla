-------------------------- MODULE SinkIsolationProofs --------------------------
(***************************************************************************)
(* Where every transaction is managed by atomic(): the sink is never       *)
(* called inside a block, and never inside itself, so batches reach it     *)
(* one after the other.                                                    *)
(*                                                                         *)
(* Both rest on the order in which blocks are left.  A block that lies     *)
(* under the outermost block of a connection is still open when that       *)
(* connection commits; it was open when a batch was registered there, so   *)
(* the batch waits for it and its last callback is not run before it ends. *)
(***************************************************************************)
EXTENDS CommitBarrierProofs

\* Block i lies under every block of c.
Beneath(i, c) == \A q \in 1..i : ~(stack[q].kind = "atomic" /\ stack[q].conn = c)

\* d was open when b was emitted and has not committed since.
Unsettled(b, d) == fate[b][d] \in {"open", "rolledback"}

AtomicOnly == ManualConns = {} /\ \A c \in Conns : mode[c] # "manual"

Blocks == \A i \in DOMAIN stack : stack[i].kind = "atomic" => stack[i].conn \in Conns

\* A batch registered with c waits for every block under those of c.
Registrations ==
  \A c \in Conns : \A b \in hooks[c] : \A i \in DOMAIN stack :
    stack[i].kind = "atomic" /\ Beneath(i, c) => Unsettled(b, stack[i].conn)

\* So does a batch whose callback is in a list that Django is running.
Lists ==
  \A p \in DOMAIN stack : stack[p].kind = "hooks" =>
    \A i \in 1..(p - 1) : stack[i].kind = "atomic" =>
      /\ stack[i].conn # stack[p].conn
      /\ \A b \in stack[p].todo : Unsettled(b, stack[i].conn)

\* While the sink runs nothing is registered, no block surrounds it, and no
\* callback above it has anything to do.
Alone ==
  \A j \in DOMAIN stack : stack[j].kind = "sink" =>
    /\ \A c \in Conns : hooks[c] = {}
    /\ \A i \in 1..(j - 1) : stack[i].kind # "atomic"
    /\ \A i \in DOMAIN stack : i > j =>
         stack[i].kind # "sink" /\ (stack[i].kind = "hooks" => stack[i].todo = {})

\* The log ends with the call the sink is in.
Logged ==
  /\ \A i \in DOMAIN log : log[i][2] <= sent[log[i][1]]
  /\ \A j \in DOMAIN stack : stack[j].kind = "sink" =>
       log # <<>> /\ log[Len(log)] = <<stack[j].batch, sent[stack[j].batch]>>
  /\ ContiguousDelivery

Iso == AtomicOnly /\ Blocks /\ Registrations /\ Lists /\ Alone /\ Logged

-----------------------------------------------------------------------------
(* Blocks, depths and registrations *)

LEMMA BlockIsOpen ==
  ASSUME Inv, NEW c \in Conns, NEW i \in DOMAIN stack,
         stack[i].kind = "atomic", stack[i].conn = c
  PROVE  depth[c] > 0
<1>1. stack \in Seq(Frames) /\ depth[c] \in Nat
  BY DEF Inv, TypeOK
<1>2. IsFiniteSet(BlocksOf(stack, c)) /\ Cardinality(BlocksOf(stack, c)) \in Nat
  <2>. HIDE DEF Frames
  <2>. QED  BY <1>1, BlocksFinite
<1>3. i \in BlocksOf(stack, c)
  BY DEF BlocksOf
<1>4. Cardinality(BlocksOf(stack, c)) # 0
  BY <1>2, <1>3, FS_EmptySet
<1>. QED  BY <1>1, <1>2, <1>4 DEF Inv, Connection

\* Without a block of c nothing is registered with it.
LEMMA NothingRegistered ==
  ASSUME Inv, AtomicOnly, NEW c \in Conns,
         \A i \in DOMAIN stack : ~(stack[i].kind = "atomic" /\ stack[i].conn = c)
  PROVE  hooks[c] = {}
<1>1. BlocksOf(stack, c) = {}
  BY DEF BlocksOf
<1>2. depth[c] = 0
  BY <1>1, FS_EmptySet DEF Inv, Connection
<1>. QED  BY <1>2 DEF Inv, Connection, AtomicOnly

LEMMA StackIndices ==
  ASSUME Inv
  PROVE  /\ Len(stack) \in Nat /\ DOMAIN stack = 1..Len(stack)
         /\ \A i \in DOMAIN stack : stack[i] \in Frames /\ FrameOK(stack[i])
<1>. HIDE DEF Frames
<1>. QED  BY LenProperties, ElementOfSeq DEF Inv, TypeOK, Stacked

LEMMA LogFacts ==
  ASSUME Inv
  PROVE  /\ Len(log) \in Nat /\ DOMAIN log = 1..Len(log)
         /\ \A i \in DOMAIN log : /\ log[i] = <<log[i][1], log[i][2]>>
                                  /\ log[i][1] \in Batches /\ log[i][2] \in 1..2
         /\ log = <<>> <=> Len(log) = 0
<1>1. log \in Seq(Batches \X (1..2))
  BY DEF Inv, TypeOK
<1>2. /\ Len(log) \in Nat /\ DOMAIN log = 1..Len(log)
      /\ \A i \in DOMAIN log : log[i] \in Batches \X (1..2)
  BY <1>1, LenProperties, ElementOfSeq
<1>3. log = <<>> <=> Len(log) = 0
  BY <1>1, EmptySeq
<1>. QED  BY <1>2, <1>3

-----------------------------------------------------------------------------
(* Steps *)

\* A block is entered.
LEMMA EnterIsolated ==
  ASSUME Inv, Iso, NEW c \in Conns, NEW savepoint \in BOOLEAN, EnterAtomic(c, savepoint)
  PROVE  Iso'
<1>. DEFINE f == Frame("atomic", c, {}, None)
            n == Len(stack)
<1>1. /\ stack' = Append(stack, f) /\ f \in Frames /\ f.kind = "atomic" /\ f.conn = c
      /\ UNCHANGED <<hooks, fate, sent, log>>
      /\ mode' = [mode EXCEPT ![c] = IF @ = "unopened" THEN "autocommit" ELSE @]
  BY DEF EnterAtomic, Frame, Frames, batchVars
<1>2. /\ n \in Nat /\ DOMAIN stack = 1..n /\ DOMAIN stack' = 1..(n + 1)
      /\ \A i \in 1..n : stack'[i] = stack[i]
      /\ stack'[n + 1].kind = "atomic" /\ stack'[n + 1].conn = c
  <2>1. stack \in Seq(Frames)
    BY DEF Inv, TypeOK
  <2>. HIDE DEF Frames, f
  <2>. QED  BY <1>1, <2>1, PushFacts
<1>. HIDE DEF f, n
<1>3. AtomicOnly'
  BY <1>1 DEF AtomicOnly, Iso, Inv, TypeOK
<1>4. Blocks'
  BY <1>2 DEF Blocks, Iso
<1>5. Registrations'
  <2>. SUFFICES ASSUME NEW d \in Conns, NEW b \in hooks[d], NEW i \in 1..(n + 1),
                       stack'[i].kind = "atomic", Beneath(i, d)'
                PROVE  Unsettled(b, stack'[i].conn)
    BY <1>1, <1>2 DEF Registrations, Unsettled
  <2>1. CASE i = n + 1
    <3>1. \A q \in DOMAIN stack : ~(stack[q].kind = "atomic" /\ stack[q].conn = d)
      BY <1>2, <2>1 DEF Beneath
    <3>. QED  BY <3>1, NothingRegistered DEF Iso
  <2>2. CASE i # n + 1
    <3>1. i \in 1..n /\ Beneath(i, d)
      BY <1>2, <2>2 DEF Beneath
    <3>. QED  BY <1>2, <3>1 DEF Iso, Registrations
  <2>. QED  BY <2>1, <2>2
<1>6. Lists'
  BY <1>1, <1>2 DEF Lists, Iso, Unsettled
<1>7. Alone'
  BY <1>1, <1>2 DEF Alone, Iso
<1>8. Logged'
  BY <1>1, <1>2 DEF Logged, Iso, ContiguousDelivery
<1>. QED  BY <1>3, <1>4, <1>5, <1>6, <1>7, <1>8 DEF Iso

\* The call on top ends, and no transaction commits.
LEMMA PopIsolated ==
  ASSUME Inv, Iso, stack # <<>>, stack' = Below,
         \A c \in Conns : hooks'[c] \subseteq hooks[c],
         \A b \in Batches, c \in Conns : Unsettled(b, c) => Unsettled(b, c)',
         UNCHANGED <<mode, sent, log>>
  PROVE  Iso'
<1>. DEFINE n == Len(stack)
<1>1. /\ n \in Nat \ {0} /\ DOMAIN stack = 1..n /\ DOMAIN stack' = 1..(n - 1)
      /\ \A i \in 1..(n - 1) : stack'[i] = stack[i]
  BY StackFacts
<1>2. /\ \A c \in Conns : hooks[c] \subseteq Batches
      /\ \A i \in DOMAIN stack : stack[i].todo \subseteq Batches
  BY StackIndices DEF Inv, TypeOK, Frames
<1>. HIDE DEF n
<1>3. AtomicOnly' /\ Blocks'
  BY <1>1 DEF AtomicOnly, Blocks, Iso
<1>4. Registrations'
  <2>. SUFFICES ASSUME NEW d \in Conns, NEW b \in hooks'[d], NEW i \in 1..(n - 1),
                       stack'[i].kind = "atomic", Beneath(i, d)'
                PROVE  fate'[b][stack'[i].conn] \in {"open", "rolledback"}
    BY <1>1 DEF Registrations, Unsettled
  <2>1. b \in hooks[d] /\ i \in DOMAIN stack /\ stack[i].kind = "atomic" /\ Beneath(i, d)
    BY <1>1 DEF Beneath
  <2>2. b \in Batches /\ stack[i].conn \in Conns
    BY <1>2, <2>1 DEF Iso, Blocks
  <2>3. Unsettled(b, stack[i].conn)
    BY <2>1 DEF Iso, Registrations
  <2>. QED  BY <1>1, <2>2, <2>3 DEF Unsettled
<1>5. Lists'
  <2>. SUFFICES ASSUME NEW p \in 1..(n - 1), stack'[p].kind = "hooks",
                       NEW i \in 1..(p - 1), stack'[i].kind = "atomic"
                PROVE  /\ stack'[i].conn # stack'[p].conn
                       /\ \A b \in stack'[p].todo : fate'[b][stack'[i].conn] \in {"open", "rolledback"}
    BY <1>1 DEF Lists, Unsettled
  <2>1. /\ i \in 1..(n - 1) /\ p \in DOMAIN stack /\ i \in DOMAIN stack
        /\ stack'[p] = stack[p] /\ stack'[i] = stack[i]
    BY <1>1
  <2>2. /\ stack[i].conn # stack[p].conn
        /\ \A b \in stack[p].todo : Unsettled(b, stack[i].conn)
    BY <2>1 DEF Iso, Lists
  <2>3. stack[i].conn \in Conns /\ stack[p].todo \subseteq Batches
    BY <1>2, <2>1 DEF Iso, Blocks
  <2>. QED  BY <2>1, <2>2, <2>3 DEF Unsettled
<1>6. Alone'
  BY <1>1 DEF Alone, Iso
<1>7. Logged'
  BY <1>1 DEF Logged, Iso, ContiguousDelivery
<1>. QED  BY <1>3, <1>4, <1>5, <1>6, <1>7 DEF Iso

\* A block is left without a commit: only open transactions are rolled back.
LEMMA LeaveIsolated ==
  ASSUME Inv, Iso, NEW c \in Conns,
         RollbackTransaction(c) \/ ReleaseSavepoint(c) \/ RollbackSavepoint(c)
           \/ FailWithoutSavepoint(c)
  PROVE  Iso'
<1>1. /\ Leaving(c) /\ stack' = Below /\ UNCHANGED <<mode, sent, log>> /\ stack # <<>>
  <2>1. Leaving(c) /\ stack' = Below
    BY DEF RollbackTransaction, ReleaseSavepoint, RollbackSavepoint, FailWithoutSavepoint
  <2>. QED  BY <2>1 DEF Leaving, TopIs, batchVars
<1>2. \A d \in Conns : hooks'[d] \subseteq hooks[d]
  <2>1. hooks \in [Conns -> SUBSET Batches]
    BY DEF Inv, TypeOK
  <2>. QED  BY <2>1 DEF RollbackTransaction, ReleaseSavepoint, RollbackSavepoint,
                        FailWithoutSavepoint
<1>3. \A b \in Batches, d \in Conns : Unsettled(b, d) => Unsettled(b, d)'
  <2>1. CASE UNCHANGED fate
    BY <2>1 DEF Unsettled
  <2>2. CASE \E S \in SUBSET Batches : Settle(c, S, "rolledback")
    <3>1. PICK S \in SUBSET Batches : Settle(c, S, "rolledback")
      BY <2>2
    <3>2. \A b \in Batches, d \in Conns :
            fate'[b][d] = IF d = c /\ b \in S /\ fate[b][d] = "open" THEN "rolledback"
                          ELSE fate[b][d]
      BY <3>1, SettleFacts DEF Inv
    <3>. QED  BY <3>2 DEF Unsettled
  <2>. QED  BY <2>1, <2>2
       DEF RollbackTransaction, ReleaseSavepoint, RollbackSavepoint, FailWithoutSavepoint
<1>. QED  BY <1>1, <1>2, <1>3, PopIsolated

\* The outermost block of c commits and its callbacks are run: the blocks beneath
\* are those of other connections.
LEMMA CommitIsolated ==
  ASSUME Inv, Iso, NEW c \in Conns, CommitTransaction(c)
  PROVE  Iso'
<1>. DEFINE f == Frame("hooks", c, hooks[c], None)
            n == Len(stack)
<1>1. /\ Leaving(c) /\ stack # <<>> /\ depth[c] = 1
      /\ stack' = Append(Below, f)
      /\ hooks' = [hooks EXCEPT ![c] = {}]
      /\ UNCHANGED <<mode, sent, log>>
  BY DEF CommitTransaction, Leaving, TopIs, OwnsTransaction, batchVars
<1>2. /\ f \in Frames /\ f.kind = "hooks" /\ f.conn = c /\ f.todo = hooks[c]
  BY DEF Frame, Frames, Inv, TypeOK
<1>3. /\ n \in Nat \ {0} /\ DOMAIN stack = 1..n /\ DOMAIN stack' = 1..n
      /\ DOMAIN Below = 1..(n - 1)
      /\ \A i \in 1..(n - 1) : stack'[i] = stack[i] /\ Below[i] = stack[i]
      /\ stack'[n] = f
  <2>1. /\ stack \in Seq(Frames) /\ Below \in Seq(Frames)
        /\ n \in Nat \ {0} /\ DOMAIN stack = 1..n /\ DOMAIN Below = 1..(n - 1)
        /\ \A i \in DOMAIN Below : Below[i] = stack[i]
    BY <1>1, StackFacts DEF Inv, TypeOK
  <2>2. Len(Below) = n - 1
    <3>. HIDE DEF Frames
    <3>1. Len(Below) \in Nat /\ DOMAIN Below = 1..Len(Below)
      BY <2>1, LenProperties
    <3>. QED  BY <1>1, <2>1, PopFacts DEF Below
  <2>3. /\ DOMAIN stack' = 1..(Len(Below) + 1)
        /\ \A i \in DOMAIN Below : stack'[i] = Below[i]
        /\ stack'[Len(Below) + 1] = f
    <3>. HIDE DEF Frames, f
    <3>. QED  BY <1>1, <1>2, <2>1, PushFacts
  <2>. HIDE DEF f, Frames
  <2>. QED  BY <2>1, <2>2, <2>3
<1>. HIDE DEF f, n
<1>4. \A i \in 1..(n - 1) : ~(stack[i].kind = "atomic" /\ stack[i].conn = c)
  <2>1. Cardinality(BlocksOf(Below, c)) = 0
    BY <1>1, LeavingFacts DEF Inv, TypeOK
  <2>2. IsFiniteSet(BlocksOf(Below, c))
    <3>1. Below \in Seq(Frames)
      BY <1>1, StackFacts
    <3>. HIDE DEF Frames
    <3>. QED  BY <3>1, BlocksFinite
  <2>3. BlocksOf(Below, c) = {}
    BY <2>1, <2>2, FS_EmptySet
  <2>. QED  BY <1>3, <2>3 DEF BlocksOf
<1>5. \A b \in Batches, d \in Conns : d # c => fate'[b][d] = fate[b][d]
  <2>1. Settle(c, Batches, "committed")
    BY DEF CommitTransaction
  <2>. QED  BY <2>1, SettleFacts DEF Inv
<1>6. /\ \A d \in Conns : hooks[d] \subseteq Batches
      /\ \A i \in DOMAIN stack : stack[i].todo \subseteq Batches
  BY StackIndices DEF Inv, TypeOK, Frames
<1>7. \A d \in Conns : hooks'[d] = IF d = c THEN {} ELSE hooks[d]
  BY <1>1 DEF Inv, TypeOK
<1>8. AtomicOnly' /\ Blocks'
  BY <1>1, <1>2, <1>3 DEF AtomicOnly, Blocks, Iso
<1>9. Registrations'
  <2>. SUFFICES ASSUME NEW d \in Conns, NEW b \in hooks'[d], NEW i \in 1..n,
                       stack'[i].kind = "atomic", Beneath(i, d)'
                PROVE  fate'[b][stack'[i].conn] \in {"open", "rolledback"}
    BY <1>3 DEF Registrations, Unsettled
  <2>1. i \in 1..(n - 1) /\ b \in hooks[d]
    BY <1>2, <1>3, <1>7
  <2>2. i \in DOMAIN stack /\ stack'[i] = stack[i] /\ Beneath(i, d)
    BY <1>3, <2>1 DEF Beneath
  <2>3. Unsettled(b, stack[i].conn) /\ stack[i].conn \in Conns /\ b \in Batches
    BY <1>6, <2>1, <2>2 DEF Iso, Registrations, Blocks
  <2>4. stack[i].conn # c
    BY <1>4, <2>1, <2>2
  <2>. QED  BY <1>5, <2>2, <2>3, <2>4 DEF Unsettled
<1>10. Lists'
  <2>. SUFFICES ASSUME NEW p \in 1..n, stack'[p].kind = "hooks",
                       NEW i \in 1..(p - 1), stack'[i].kind = "atomic"
                PROVE  /\ stack'[i].conn # stack'[p].conn
                       /\ \A b \in stack'[p].todo : fate'[b][stack'[i].conn] \in {"open", "rolledback"}
    BY <1>3 DEF Lists, Unsettled
  <2>1. i \in 1..(n - 1) /\ i \in DOMAIN stack /\ stack'[i] = stack[i]
    BY <1>3
  <2>2. stack[i].conn \in Conns /\ stack[i].conn # c
    BY <1>4, <2>1 DEF Iso, Blocks
  <2>3. CASE p = n
    <3>1. Beneath(i, c)
      BY <1>3, <1>4, <2>1 DEF Beneath
    <3>2. \A b \in hooks[c] : b \in Batches /\ Unsettled(b, stack[i].conn)
      BY <1>6, <2>1, <3>1 DEF Iso, Registrations
    <3>. QED  BY <1>2, <1>3, <1>5, <2>1, <2>2, <2>3, <3>2 DEF Unsettled
  <2>4. CASE p # n
    <3>1. p \in DOMAIN stack /\ stack'[p] = stack[p]
      BY <1>3, <2>4
    <3>2. /\ stack[i].conn # stack[p].conn
          /\ \A b \in stack[p].todo : b \in Batches /\ Unsettled(b, stack[i].conn)
      BY <1>6, <2>1, <3>1 DEF Iso, Lists
    <3>. QED  BY <1>5, <2>1, <2>2, <3>1, <3>2 DEF Unsettled
  <2>. QED  BY <2>3, <2>4
<1>11. Alone'
  BY <1>2, <1>3, <1>7 DEF Alone, Iso
<1>12. Logged'
  BY <1>1, <1>2, <1>3 DEF Logged, Iso, ContiguousDelivery
<1>. QED  BY <1>8, <1>9, <1>10, <1>11, <1>12 DEF Iso

\* A step that leaves the stack, the registrations and the log alone.
LEMMA QuietIsolated ==
  ASSUME Iso, UNCHANGED <<mode, stack, hooks, fate, sent, log>>
  PROVE  Iso'
<1>1. AtomicOnly' /\ Blocks' /\ Registrations' /\ Lists' /\ Alone'
  BY DEF Iso, AtomicOnly, Blocks, Registrations, Lists, Alone, Beneath, Unsettled
<1>2. Logged'
  BY DEF Iso, Logged, ContiguousDelivery
<1>. QED  BY <1>1, <1>2 DEF Iso

\* The sink is called for the next event of b, nothing being registered, no block
\* being open and no other call of the sink under way.
LEMMA DeliverIsolated ==
  ASSUME Inv, Iso, NEW b \in Batches, NEW k \in 1..2, NEW m \in Nat \ {0},
         UNCHANGED <<mode, hooks>>,
         \A c \in Conns : hooks[c] = {},
         DOMAIN stack' = 1..m,
         stack'[m].kind = "sink", stack'[m].batch = b,
         \A i \in 1..(m - 1) : stack'[i].kind = "hooks",
         k = sent[b] + 1,
         k > 1 => log # <<>> /\ log[Len(log)] = <<b, k - 1>>,
         sent' = [sent EXCEPT ![b] = k],
         log' = Append(log, <<b, k>>)
  PROVE  Iso'
<1>. DEFINE l == Len(log)
<1>1. /\ l \in Nat /\ DOMAIN log = 1..l
      /\ DOMAIN log' = 1..(l + 1) /\ Len(log') = l + 1
      /\ \A i \in 1..l : log'[i] = log[i]
      /\ log'[l + 1] = <<b, k>> /\ log' # <<>>
      /\ \A i \in 1..l : /\ log[i] = <<log[i][1], log[i][2]>>
                         /\ log[i][1] \in Batches /\ log[i][2] \in 1..2
      /\ log = <<>> <=> l = 0
  <2>1. log \in Seq(Batches \X (1..2)) /\ <<b, k>> \in Batches \X (1..2)
    BY DEF Inv, TypeOK
  <2>2. /\ log' \in Seq(Batches \X (1..2)) /\ Len(log') = l + 1
        /\ \A i \in 1..l : log'[i] = log[i]
        /\ log'[l + 1] = <<b, k>>
    BY <2>1, AppendProperties
  <2>3. DOMAIN log' = 1..(l + 1) /\ log' # <<>>
    BY <2>1, <2>2, LenProperties, EmptySeq
  <2>. QED  BY <2>2, <2>3, LogFacts
<1>2. /\ \A a \in Batches : sent'[a] = (IF a = b THEN k ELSE sent[a]) /\ sent[a] \in 0..2
  BY DEF Inv, TypeOK
<1>. HIDE DEF l
<1>3. AtomicOnly' /\ Blocks'
  BY DEF AtomicOnly, Blocks, Iso
<1>4. Registrations' /\ Lists' /\ Alone'
  BY DEF Registrations, Lists, Alone
<1>5. \A i \in DOMAIN log' : log'[i][2] <= sent'[log'[i][1]]
  <2>. SUFFICES ASSUME NEW i \in 1..(l + 1) PROVE log'[i][2] <= sent'[log'[i][1]]
    BY <1>1
  <2>1. CASE i = l + 1
    BY <1>1, <1>2, <2>1
  <2>2. CASE i # l + 1
    <3>1. i \in 1..l
      BY <1>1, <2>2
    <3>2. /\ log[i][2] <= sent[log[i][1]] /\ log'[i] = log[i]
          /\ log[i][1] \in Batches /\ log[i][2] \in 1..2
      BY <1>1, <3>1 DEF Iso, Logged
    <3>3. PICK a \in Batches, v \in 1..2 :
            log'[i][1] = a /\ log'[i][2] = v /\ v <= sent[a]
      BY <3>2
    <3>4. v <= sent'[a]
      BY <1>2, <3>3
    <3>. QED  BY <3>3, <3>4
  <2>. QED  BY <2>1, <2>2
<1>6. ASSUME NEW j \in DOMAIN stack', stack'[j].kind = "sink"
      PROVE  log' # <<>> /\ log'[Len(log')] = <<stack'[j].batch, sent'[stack'[j].batch]>>
  <2>1. j = m
    BY <1>6
  <2>. QED  BY <1>1, <1>2, <2>1
<1>7. ContiguousDelivery'
  <2>. SUFFICES ASSUME NEW i \in 1..(l + 1)
                PROVE  IF log'[i][2] > 1
                       THEN i > 1 /\ log'[i - 1] = <<log'[i][1], log'[i][2] - 1>>
                       ELSE \A j \in 1..(i - 1) : log'[j] # log'[i]
    BY <1>1 DEF ContiguousDelivery
  <2>1. CASE i # l + 1
    <3>1. i \in 1..l /\ log'[i] = log[i] /\ i \in DOMAIN log
      BY <1>1, <2>1
    <3>2. \A j \in 1..(i - 1) : j \in 1..l /\ log'[j] = log[j]
      BY <1>1, <3>1
    <3>3. IF log[i][2] > 1 THEN i > 1 /\ log[i - 1] = <<log[i][1], log[i][2] - 1>>
          ELSE \A j \in 1..(i - 1) : log[j] # log[i]
      BY <3>1 DEF Iso, Logged, ContiguousDelivery
    <3>4. i > 1 => i - 1 \in 1..(i - 1)
      BY <3>1
    <3>. QED  BY <3>1, <3>2, <3>3, <3>4
  <2>2. CASE i = l + 1 /\ k > 1
    <3>1. l \in 1..l /\ log[l] = <<b, k - 1>>
      BY <1>1, <2>2 DEF l
    <3>. QED  BY <1>1, <2>2, <3>1
  <2>3. CASE i = l + 1 /\ ~(k > 1)
    <3>1. k = 1 /\ sent[b] = 0
      BY <1>2, <2>3
    <3>2. ASSUME NEW j \in 1..l, log[j] = <<b, 1>>  PROVE FALSE
      <4>1. log[j][2] <= sent[log[j][1]]
        BY <1>1 DEF Iso, Logged
      <4>. QED  BY <3>1, <3>2, <4>1
    <3>. QED  BY <1>1, <2>3, <3>1, <3>2
  <2>. QED  BY <2>1, <2>2, <2>3
<1>8. Logged'
  BY <1>5, <1>6, <1>7 DEF Logged
<1>. QED  BY <1>3, <1>4, <1>8 DEF Iso

\* Without a block there is nothing registered.
LEMMA Idle ==
  ASSUME Inv, Iso, \A i \in DOMAIN stack : stack[i].kind # "atomic"
  PROVE  \A c \in Conns : hooks[c] = {}
BY NothingRegistered DEF Iso

\* A batch is emitted: dropped, told at once outside any block, or registered with
\* every block there is.
LEMMA EmitIsolated ==
  ASSUME Inv, Iso, NEW b \in Batches, NEW n \in 1..2, Emit(b, n)
  PROVE  Iso'
<1>0. outcome[b] = "none" /\ UNCHANGED <<mode, depth>>
  BY EmitFacts
<1>1. /\ sent[b] = 0
      /\ \A c \in Conns : b \notin hooks[c]
      /\ \A i \in DOMAIN stack : stack[i].kind = "hooks" => b \notin stack[i].todo
  BY <1>0, FreshBatch
<1>2. CASE Drop(b)
  BY <1>0, <1>2, QuietIsolated DEF Drop, Unregistered
<1>3. CASE ~Emitting /\ ActiveConnections = {} /\ Deliver(b, stack, 1) /\ Unregistered
  <2>. DEFINE f == Frame("sink", None, {}, b)
  <2>1. /\ stack' = Append(stack, f) /\ f \in Frames /\ f.kind = "sink" /\ f.batch = b
        /\ sent' = [sent EXCEPT ![b] = 1] /\ log' = Append(log, <<b, 1>>)
        /\ UNCHANGED hooks
    BY <1>3 DEF Deliver, Unregistered, Frame, Frames
  <2>2. /\ Len(stack) \in Nat /\ DOMAIN stack = 1..Len(stack)
        /\ DOMAIN stack' = 1..(Len(stack) + 1)
        /\ \A i \in DOMAIN stack : stack'[i] = stack[i] /\ stack[i] \in Frames
        /\ stack'[Len(stack) + 1] = f
    <3>1. stack \in Seq(Frames)
      BY DEF Inv, TypeOK
    <3>. HIDE DEF Frames, f
    <3>. QED  BY <2>1, <3>1, PushFacts
  <2>. HIDE DEF f
  <2>3. \A c \in Conns : ~(depth[c] > 0)
    BY <1>3 DEF ActiveConnections, InAtomicBlock
  <2>4. \A i \in DOMAIN stack : stack[i].kind # "atomic"
    BY <2>3, BlockIsOpen DEF Iso, Blocks
  <2>5. \A i \in DOMAIN stack : stack[i].kind = "hooks"
    BY <1>3, <2>2, <2>4 DEF Emitting, Frames
  <2>6. PICK m \in Nat \ {0} : m = Len(stack) + 1 /\ m - 1 = Len(stack)
    BY <2>2
  <2>7. /\ DOMAIN stack' = 1..m /\ stack'[m].kind = "sink" /\ stack'[m].batch = b
        /\ \A i \in 1..(m - 1) : stack'[i].kind = "hooks"
    BY <2>1, <2>2, <2>5, <2>6
  <2>8. \A c \in Conns : hooks[c] = {}
    BY <2>4, Idle
  <2>9. 1 \in 1..2 /\ 1 = sent[b] + 1 /\ ~(1 > 1)
    BY <1>1
  <2>. QED  BY <1>0, <2>1, <2>7, <2>8, <2>9, DeliverIsolated
<1>4. ASSUME NEW S \in SUBSET ActiveConnections, ~Emitting, Register(b, S),
             UNCHANGED <<stack, sent, log>>
      PROVE  Iso'
  <2>1. \A c \in Conns : \A a \in hooks'[c] : a \in hooks[c] \/ a = b
    BY <1>4 DEF Register
  <2>2. \A c \in Conns, a \in Batches : a # b => fate'[a][c] = fate[a][c]
    BY <1>4 DEF Register, Inv, TypeOK
  <2>3. \A i \in DOMAIN stack : stack[i].kind = "atomic" => fate'[b][stack[i].conn] = "open"
    <3>1. \A c \in ActiveConnections : fate'[b][c] = "open"
      BY <1>4 DEF Register, Inv, TypeOK, ActiveConnections
    <3>2. \A i \in DOMAIN stack :
            stack[i].kind = "atomic" => stack[i].conn \in ActiveConnections
      BY BlockIsOpen DEF Iso, Blocks, ActiveConnections, InAtomicBlock
    <3>. QED  BY <3>1, <3>2
  <2>4. /\ \A c \in Conns : hooks[c] \subseteq Batches
        /\ \A i \in DOMAIN stack : stack[i].todo \subseteq Batches
        /\ \A i \in DOMAIN stack : stack[i].kind # "sink"
    BY <1>4, StackIndices DEF Inv, TypeOK, Frames, Emitting
  <2>5. AtomicOnly' /\ Blocks'
    BY <1>0, <1>4 DEF AtomicOnly, Blocks, Iso
  <2>6. Registrations'
    <3>. SUFFICES ASSUME NEW d \in Conns, NEW a \in hooks'[d], NEW i \in DOMAIN stack,
                         stack[i].kind = "atomic", Beneath(i, d)
                  PROVE  fate'[a][stack[i].conn] \in {"open", "rolledback"}
      BY <1>4 DEF Registrations, Unsettled, Beneath
    <3>1. CASE a = b
      BY <2>3, <3>1
    <3>2. CASE a # b
      BY <2>1, <2>2, <2>4, <3>2 DEF Iso, Registrations, Blocks, Unsettled
    <3>. QED  BY <3>1, <3>2
  <2>7. Lists'
    <3>. SUFFICES ASSUME NEW p \in DOMAIN stack, stack[p].kind = "hooks",
                         NEW i \in 1..(p - 1), stack[i].kind = "atomic"
                  PROVE  /\ stack[i].conn # stack[p].conn
                         /\ \A a \in stack[p].todo :
                              fate'[a][stack[i].conn] \in {"open", "rolledback"}
      BY <1>4 DEF Lists, Unsettled
    <3>1. i \in DOMAIN stack
      BY StackIndices
    <3>2. b \notin stack[p].todo /\ stack[p].todo \subseteq Batches /\ stack[i].conn \in Conns
      BY <1>1, <2>4, <3>1 DEF Iso, Blocks
    <3>. QED  BY <2>2, <3>2 DEF Iso, Lists, Unsettled
  <2>8. Alone'
    BY <1>4, <2>4 DEF Alone
  <2>9. Logged'
    BY <1>4 DEF Logged, Iso, ContiguousDelivery
  <2>. QED  BY <2>5, <2>6, <2>7, <2>8, <2>9 DEF Iso
<1>. QED  BY <1>2, <1>3, <1>4 DEF Emit

\* A callback of c runs; if it is the last one of its batch, the sink is called.
LEMMA CallbackIsolated ==
  ASSUME Inv, Iso, RunCallback
  PROVE  Iso'
<1>1. PICK b \in Batches, c \in Conns, n \in Nat \ {0} :
        b = Least(Top.todo) /\ c = Top.conn /\ n = Len(stack)
  <2>. HIDE DEF Frames
  <2>. QED  BY CallbackFacts, CallbackStack
<1>2. /\ stack # <<>> /\ Top.kind = "hooks" /\ b \in Top.todo
      /\ sent[b] = 0 /\ remaining[b] \in Nat \ {0}
      /\ Cardinality(Waits(b) \ {c}) = remaining[b] - 1
      /\ UNCHANGED <<mode, hooks, fate>>
  BY <1>1, CallbackFacts
<1>3. /\ DOMAIN stack = 1..n /\ 1..n \subseteq DOMAIN stack'
      /\ \A i \in 1..(n - 1) : stack'[i] = stack[i]
      /\ stack'[n].kind = "hooks" /\ stack'[n].conn = c /\ stack'[n].todo \subseteq Top.todo
      /\ IF Ready(b)
         THEN /\ DOMAIN stack' = 1..(n + 1)
              /\ stack'[n + 1].kind = "sink" /\ stack'[n + 1].batch = b
         ELSE DOMAIN stack' = 1..n
  <2>. HIDE DEF Frames
  <2>. QED  BY <1>1, CallbackStack
<1>4. stack[n] = Top /\ n \in DOMAIN stack
  BY <1>1, <1>3 DEF Top
<1>5. \A i \in 1..(n - 1) : stack[i].kind # "sink"
  <2>. SUFFICES ASSUME NEW i \in 1..(n - 1), stack[i].kind = "sink" PROVE FALSE
    OBVIOUS
  <2>1. i \in DOMAIN stack /\ n > i
    BY <1>3
  <2>2. stack[n].kind = "hooks" => stack[n].todo = {}
    BY <1>4, <2>1 DEF Iso, Alone
  <2>. QED  BY <1>2, <1>4, <2>2
<1>6. \A i \in 1..(n - 1) : stack[i].kind = "atomic" =>
        stack[i].conn # c /\ stack[i].conn \in Conns /\ Unsettled(b, stack[i].conn)
  BY <1>1, <1>2, <1>3, <1>4 DEF Iso, Lists, Blocks
<1>7. CASE Ready(b)
  <2>1. sent' = [sent EXCEPT ![b] = 1] /\ log' = Append(log, <<b, 1>>)
    BY <1>1, <1>7 DEF RunCallback, Deliver
  <2>2. \A i \in 1..(n - 1) : stack[i].kind # "atomic"
    <3>1. Waits(b) \ {c} = {}
      <4>1. IsFiniteSet(Waits(b) \ {c})
        BY WaitsFinite, FS_Subset
      <4>2. Cardinality(Waits(b) \ {c}) = 0
        BY <1>2, <1>7 DEF Ready
      <4>. QED  BY <4>1, <4>2, FS_EmptySet
    <3>2. \A d \in Conns : Unsettled(b, d) => d \in Waits(b)
      BY DEF Unsettled, Waits, Inv, Fate
    <3>. QED  BY <1>6, <3>1, <3>2
  <2>3. \A i \in 1..(n - 1) : stack[i].kind = "hooks"
    BY <1>3, <1>5, <2>2, StackIndices DEF Frames
  <2>4. \A d \in Conns : hooks[d] = {}
    BY <1>2, <1>3, <1>4, <2>3, Idle
  <2>5. \A i \in 1..n : stack'[i].kind = "hooks"
    BY <1>3, <2>3
  <2>6. PICK m \in Nat \ {0} : m = n + 1 /\ m - 1 = n
    OBVIOUS
  <2>7. /\ DOMAIN stack' = 1..m /\ stack'[m].kind = "sink" /\ stack'[m].batch = b
        /\ \A i \in 1..(m - 1) : stack'[i].kind = "hooks"
    BY <1>3, <1>7, <2>5, <2>6
  <2>8. 1 \in 1..2 /\ 1 = sent[b] + 1 /\ ~(1 > 1)
    BY <1>2
  <2>. QED  BY <1>2, <2>1, <2>4, <2>7, <2>8, DeliverIsolated
<1>8. CASE ~Ready(b)
  <2>1. UNCHANGED <<sent, log>>
    BY <1>1, <1>8 DEF RunCallback
  <2>2. AtomicOnly' /\ Blocks'
    BY <1>2, <1>3, <1>8 DEF AtomicOnly, Blocks, Iso
  <2>3. Registrations'
    BY <1>2, <1>3, <1>8 DEF Registrations, Iso, Beneath, Unsettled
  <2>4. Lists'
    <3>. SUFFICES ASSUME NEW p \in 1..n, stack'[p].kind = "hooks",
                         NEW i \in 1..(p - 1), stack'[i].kind = "atomic"
                  PROVE  /\ stack'[i].conn # stack'[p].conn
                         /\ \A a \in stack'[p].todo :
                              fate[a][stack'[i].conn] \in {"open", "rolledback"}
      BY <1>2, <1>3, <1>8 DEF Lists, Unsettled
    <3>1. i \in 1..(n - 1) /\ stack'[i] = stack[i]
      BY <1>3
    <3>2. /\ stack'[p].conn = stack[p].conn /\ stack'[p].todo \subseteq stack[p].todo
          /\ stack[p].kind = "hooks" /\ p \in DOMAIN stack
      <4>1. CASE p = n
        BY <1>1, <1>2, <1>3, <1>4, <4>1
      <4>2. CASE p # n
        <5>1. p \in 1..(n - 1)
          BY <4>2
        <5>2. stack'[p] = stack[p] /\ p \in DOMAIN stack
          BY <1>3, <5>1
        <5>. QED  BY <5>2
      <4>. QED  BY <4>1, <4>2
    <3>. QED  BY <3>1, <3>2 DEF Iso, Lists, Unsettled
  <2>5. \A j \in 1..n : stack'[j].kind # "sink"
    BY <1>3, <1>5
  <2>6. Alone'
    BY <1>3, <1>8, <2>5 DEF Alone
  <2>7. Logged'
    BY <1>3, <1>8, <2>1, <2>5 DEF Logged, Iso, ContiguousDelivery
  <2>. QED  BY <2>2, <2>3, <2>4, <2>6, <2>7 DEF Iso
<1>. QED  BY <1>7, <1>8

\* The sink returns, and is called for the next event or has seen the last.
LEMMA SinkReturnsIsolated ==
  ASSUME Inv, Iso, SinkReturns
  PROVE  Iso'
<1>. DEFINE b == Top.batch
            n == Len(stack)
<1>1. /\ stack # <<>> /\ Top.kind = "sink"
      /\ UNCHANGED <<mode, hooks, fate>>
  BY DEF SinkReturns, TopIs, django
<1>2. /\ n \in Nat \ {0} /\ DOMAIN stack = 1..n /\ stack[n] = Top
      /\ Below \in Seq(Frames) /\ DOMAIN Below = 1..(n - 1)
      /\ \A i \in 1..(n - 1) : Below[i] = stack[i]
  BY <1>1, StackFacts DEF Top
<1>3. b \in Batches /\ sent[b] > 0 /\ sent[b] \in 0..2 /\ size[b] \in 0..2
  BY <1>1, BelowKept DEF FrameOK, Inv, TypeOK
<1>4. CASE ~(sent[b] < size[b])
  <2>1. stack' = Below /\ UNCHANGED <<sent, log>>
    BY <1>4 DEF SinkReturns
  <2>. QED  BY <1>1, <2>1, PopIsolated DEF Unsettled
<1>5. CASE sent[b] < size[b]
  <2>. DEFINE f == Frame("sink", None, {}, b)
              k == sent[b] + 1
  <2>1. /\ stack' = Append(Below, f) /\ f \in Frames /\ f.kind = "sink" /\ f.batch = b
        /\ sent' = [sent EXCEPT ![b] = k] /\ log' = Append(log, <<b, k>>)
        /\ k \in 1..2 /\ k > 1 /\ k - 1 = sent[b]
    BY <1>3, <1>5 DEF SinkReturns, Deliver, Frame, Frames
  <2>. HIDE DEF f, k, b, n
  <2>2. /\ DOMAIN stack' = 1..n
        /\ \A i \in 1..(n - 1) : stack'[i] = stack[i]
        /\ stack'[n] = f
    <3>1. /\ Len(Below) = n - 1
      BY <1>2, LenProperties
    <3>2. /\ DOMAIN stack' = 1..(Len(Below) + 1)
          /\ \A i \in DOMAIN Below : stack'[i] = Below[i]
          /\ stack'[Len(Below) + 1] = f
      <4>. HIDE DEF Frames
      <4>. QED  BY <1>2, <2>1, PushFacts
    <3>. HIDE DEF Frames
    <3>. QED  BY <1>2, <3>1, <3>2
  <2>3. /\ \A c \in Conns : hooks[c] = {}
        /\ \A i \in 1..(n - 1) : stack[i].kind # "atomic" /\ stack[i].kind # "sink"
        /\ log # <<>> /\ log[Len(log)] = <<b, sent[b]>>
    BY <1>1, <1>2 DEF Iso, Alone, Logged, b
  <2>4. \A i \in 1..(n - 1) : stack'[i].kind = "hooks"
    <3>. SUFFICES ASSUME NEW i \in 1..(n - 1) PROVE stack'[i].kind = "hooks"
      OBVIOUS
    <3>1. i \in DOMAIN stack /\ stack'[i] = stack[i]
      BY <1>2, <2>2
    <3>2. stack[i] \in Frames
      BY <1>1, <3>1, BelowKept
    <3>. QED  BY <2>3, <3>1, <3>2 DEF Frames
  <2>. QED  BY <1>1, <1>2, <1>3, <2>1, <2>2, <2>3, <2>4, DeliverIsolated DEF k
<1>. QED  BY <1>4, <1>5

-----------------------------------------------------------------------------
(* The invariant *)

LEMMA IsoInit == ManualConns = {} /\ Init => Iso
<1>. SUFFICES ASSUME ManualConns = {}, Init PROVE Iso
  OBVIOUS
<1>1. AtomicOnly /\ Blocks /\ Registrations /\ Lists /\ Alone
  BY DEF Init, AtomicOnly, Blocks, Registrations, Lists, Alone
<1>2. Logged
  BY DEF Init, Logged, ContiguousDelivery
<1>. QED  BY <1>1, <1>2 DEF Iso

LEMMA IsoNext == Inv /\ Iso /\ [Next]_vars => Iso'
<1>. SUFFICES ASSUME Inv, Iso, [Next]_vars PROVE Iso'
  OBVIOUS
<1>1. CASE UNCHANGED vars
  BY <1>1, QuietIsolated DEF vars
<1>2. CASE RunCallback
  BY <1>2, CallbackIsolated
<1>3. CASE FinishCallbacks \/ HostCallbackRaises \/ SinkRaises
  <2>1. stack # <<>> /\ stack' = Below /\ UNCHANGED <<mode, hooks, fate, sent, log>>
    BY <1>3 DEF FinishCallbacks, HostCallbackRaises, SinkRaises, TopIs, django, batchVars
  <2>. QED  BY <2>1, PopIsolated DEF Unsettled
<1>4. CASE SinkReturns
  BY <1>4, SinkReturnsIsolated
<1>5. ASSUME NEW c \in Conns, ExitAtomic(c)  PROVE Iso'
  BY <1>5, CommitIsolated, LeaveIsolated DEF ExitAtomic
<1>6. ASSUME NEW c \in Conns, NEW savepoint \in BOOLEAN, EnterAtomic(c, savepoint)
      PROVE  Iso'
  BY <1>6, EnterIsolated
<1>7. ASSUME NEW c \in Conns, MarkForRollback(c)  PROVE Iso'
  BY <1>7, QuietIsolated DEF MarkForRollback, batchVars
<1>8. ASSUME NEW c \in Conns,
             BeginManual(c) \/ ManualCommit(c) \/ ManualRollback(c) \/ EndManual(c)
      PROVE  FALSE
  BY <1>8 DEF BeginManual, ManualCommit, ManualRollback, EndManual, Iso, AtomicOnly
<1>9. ASSUME NEW b \in Batches, NEW n \in 1..2, Emit(b, n)  PROVE Iso'
  BY <1>9, EmitIsolated
<1>. QED  BY <1>1, <1>2, <1>3, <1>4, <1>5, <1>6, <1>7, <1>8, <1>9 DEF Next, Unwind

LEMMA IsoAlways == ManualConns = {} /\ Spec => []Iso
BY IsoInit, IsoNext, InvAlways, PTL DEF Spec

\* deliver() is never entered inside an atomic() block, not even one opened since the
\* emission: a database error of the sink cannot mark a caller's transaction for
\* rollback, as long as no connection is managed by hand.
THEOREM SinkStaysOutside == ManualConns = {} /\ Spec => []SinkOutsideBlocks
<1>1. Inv /\ Iso => SinkOutsideBlocks
  <2>. SUFFICES ASSUME Inv, Iso, NEW i \in DOMAIN stack, NEW j \in DOMAIN stack, i < j,
                       stack[i].kind = "atomic", stack[j].kind = "sink"
                PROVE  FALSE
    BY DEF SinkOutsideBlocks
  <2>1. i \in 1..(j - 1)
    BY StackIndices
  <2>. QED  BY <2>1 DEF Iso, Alone
<1>. QED  BY <1>1, IsoAlways, InvAlways, PTL

\* deliver() is never entered while the sink runs: the sink sees the events of one
\* batch in order, and no other batch in between, whatever it does itself.
THEOREM DeliveryIsContiguous == ManualConns = {} /\ Spec => []ContiguousDelivery
<1>1. Iso => ContiguousDelivery
  BY DEF Iso, Logged
<1>. QED  BY <1>1, IsoAlways, PTL
=============================================================================
