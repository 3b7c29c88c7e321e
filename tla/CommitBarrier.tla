---------------------------- MODULE CommitBarrier ----------------------------
(***************************************************************************)
(* Delivery of observation batches (observability.py): a batch emitted     *)
(* while database connections are inside atomic() blocks waits for every   *)
(* one of those transactions to commit.                                    *)
(*                                                                         *)
(* One thread runs host code, the facade and Django's on_commit callbacks. *)
(* stack is its call stack of what matters here: open atomic() blocks,     *)
(* Django running the commit callbacks of a connection, a sink being       *)
(* called.  atomic(), savepoints, needs_rollback, manual transactions and  *)
(* run_on_commit are Django's, modelled as the emission code uses them.    *)
(***************************************************************************)
EXTENDS Naturals, Sequences, FiniteSets

CONSTANTS
  Conns,       \* database aliases whose connection this thread has
  ManualConns, \* those the host may switch to manual transaction management
  None,
  MaxBatches,  \* bound: emissions
  MaxBlocks,   \* bound: atomic() blocks entered
  MaxDepth     \* bound: nesting of blocks and callbacks

Batches == 1..MaxBatches
Modes == {"unopened", "autocommit", "manual"}
Fates == {"none", "open", "committed", "rolledback"}
Outcomes == {"none", "dropped", "direct", "deferred", "cancelled"}
Frames == [kind : {"atomic", "hooks", "sink"}, conn : Conns \cup {None},
           todo : SUBSET Batches, batch : Batches \cup {None}]

ASSUME ConnAssumption == IsFiniteSet(Conns) /\ ManualConns \subseteq Conns
                         /\ None \notin Conns /\ None \notin Nat
ASSUME BarrierBounds == MaxBatches \in Nat /\ MaxBlocks \in Nat /\ MaxDepth \in Nat

VARIABLES
  mode,       \* Django: how each connection manages transactions
  depth,      \* Django: open atomic() blocks of each connection
  savepoints, \* Django: the levels of those blocks that hold a savepoint
  needs,      \* Django: needs_rollback
  dirty,      \* Django: a manual transaction has uncommitted work
  hooks,      \* Django: run_on_commit, the batches registered in order
  within,     \* Django: the savepoint levels noted with each registration
  stack,      \* the thread's call stack
  entered,    \* atomic() blocks entered so far (bounded by MaxBlocks)
  outcome,    \* what _after_open_transactions made of each batch
  size,       \* number of events of each batch
  remaining,  \* state["remaining"]
  sent,       \* sink calls made for each batch
  failed,     \* the sink raised
  log,        \* history: the sink calls in order
  level,      \* history: how many blocks of each connection surround a batch
  fate,       \* history: what became of the transactions open at emission
  ran,        \* history: the connections whose callback of a batch has run
  lost        \* history: those whose callback was discarded after the commit

django == <<mode, depth, savepoints, needs, dirty, within, entered>>
batchVars == <<outcome, size, remaining, sent, failed, log, ran>>
vars == <<mode, depth, savepoints, needs, dirty, hooks, within, stack, entered,
          outcome, size, remaining, sent, failed, log, level, fate, ran, lost>>

-----------------------------------------------------------------------------
(* Vocabulary *)

Frame(kind, conn, todo, batch) ==
  [kind |-> kind, conn |-> conn, todo |-> todo, batch |-> batch]

Top == stack[Len(stack)]
TopIs(kind) == stack # <<>> /\ Top.kind = kind
Below == SubSeq(stack, 1, Len(stack) - 1)

\* Mutant of Emitting: recursion is not suppressed.
EmittingNever == FALSE

\* _emitting: the ContextVar is set exactly while a sink call is on the stack.
Emitting == \E i \in DOMAIN stack : stack[i].kind = "sink"

InAtomicBlock(c) == depth[c] > 0
GetAutocommit(c) == mode[c] = "autocommit" /\ ~InAtomicBlock(c)

\* The outermost block of a connection in autocommit mode owns the transaction;
\* every other block is a savepoint or nothing.
OwnsTransaction(c) == depth[c] = 1 /\ mode[c] = "autocommit"

Least(S) == CHOOSE b \in S : \A a \in S : b <= a
Lower(m, n) == IF m < n THEN m ELSE n

Init ==
  /\ mode = [c \in Conns |-> "unopened"]
  /\ depth = [c \in Conns |-> 0]
  /\ savepoints = [c \in Conns |-> {}]
  /\ needs = [c \in Conns |-> FALSE]
  /\ dirty = [c \in Conns |-> FALSE]
  /\ hooks = [c \in Conns |-> {}]
  /\ within = [b \in Batches |-> [c \in Conns |-> {}]]
  /\ stack = <<>>
  /\ entered = 0
  /\ outcome = [b \in Batches |-> "none"]
  /\ size = [b \in Batches |-> 0]
  /\ remaining = [b \in Batches |-> 0]
  /\ sent = [b \in Batches |-> 0]
  /\ failed = [b \in Batches |-> FALSE]
  /\ log = <<>>
  /\ level = [b \in Batches |-> [c \in Conns |-> 0]]
  /\ fate = [b \in Batches |-> [c \in Conns |-> "none"]]
  /\ ran = [b \in Batches |-> {}]
  /\ lost = [b \in Batches |-> {}]

-----------------------------------------------------------------------------
(* Host code and Django's transactions *)

\* Atomic.__enter__
EnterAtomic(c, savepoint) ==
  LET outermost == depth[c] = 0
      blocked == ~outermost /\ needs[c]
      real == savepoint /\ ~blocked /\ (~outermost \/ mode[c] = "manual")
  IN
  /\ entered < MaxBlocks /\ Len(stack) < MaxDepth
  /\ mode' = [mode EXCEPT ![c] = IF @ = "unopened" THEN "autocommit" ELSE @]
  /\ depth' = [depth EXCEPT ![c] = @ + 1]
  /\ savepoints' = [savepoints EXCEPT ![c] =
                      IF real THEN @ \cup {depth[c] + 1} ELSE @]
  /\ needs' = [needs EXCEPT ![c] = @ /\ ~outermost]
  /\ dirty' = [dirty EXCEPT ![c] = mode[c] = "manual"]
  /\ stack' = Append(stack, Frame("atomic", c, {}, None))
  /\ entered' = entered + 1
  /\ UNCHANGED <<hooks, within, batchVars, level, fate, lost>>

\* A failed statement or a swallowed inner failure: set_rollback(True).
MarkForRollback(c) ==
  /\ InAtomicBlock(c) /\ ~needs[c]
  /\ needs' = [needs EXCEPT ![c] = TRUE]
  /\ UNCHANGED <<mode, depth, savepoints, dirty, hooks, within, stack, entered,
                 batchVars, level, fate, lost>>

Leaving(c) ==
  /\ TopIs("atomic") /\ Top.conn = c
  /\ depth' = [depth EXCEPT ![c] = @ - 1]
  /\ savepoints' = [savepoints EXCEPT ![c] = @ \ {depth[c]}]
  /\ UNCHANGED <<mode, dirty, entered, batchVars>>

\* The blocks of c that surrounded a batch, now that the innermost has ended.
Surface(c) ==
  /\ level' = [b \in Batches |-> [level[b] EXCEPT ![c] = Lower(@, depth[c] - 1)]]
  /\ within' = [b \in Batches |-> [within[b] EXCEPT ![c] = @ \ {depth[c]}]]

Settle(c, S, end) ==
  fate' = [b \in Batches |->
             IF b \in S /\ fate[b][c] = "open" THEN [fate[b] EXCEPT ![c] = end]
             ELSE fate[b]]

\* Atomic.__exit__, the outermost block: commit, then the callbacks run.
CommitTransaction(c) ==
  /\ Leaving(c) /\ OwnsTransaction(c) /\ ~needs[c]
  /\ Settle(c, Batches, "committed")
  /\ stack' = Append(Below, Frame("hooks", c, hooks[c], None))
  /\ hooks' = [hooks EXCEPT ![c] = {}]
  /\ Surface(c)
  /\ UNCHANGED <<needs, lost>>

\* Atomic.__exit__, the outermost block: an exception, needs_rollback or a
\* failing commit rolls the transaction back and discards its callbacks.
RollbackTransaction(c) ==
  /\ Leaving(c) /\ OwnsTransaction(c)
  /\ Settle(c, Batches, "rolledback")
  /\ stack' = Below
  /\ hooks' = [hooks EXCEPT ![c] = {}]
  /\ needs' = [needs EXCEPT ![c] = FALSE]
  /\ Surface(c)
  /\ UNCHANGED lost

\* Atomic.__exit__, an inner block without failure: the savepoint is released.
ReleaseSavepoint(c) ==
  /\ Leaving(c) /\ ~OwnsTransaction(c) /\ ~needs[c]
  /\ stack' = Below
  /\ Surface(c)
  /\ UNCHANGED <<needs, hooks, fate, lost>>

\* Atomic.__exit__, an inner block that fails: back to its savepoint, and the
\* callbacks registered under it are discarded.
RollbackSavepoint(c) ==
  /\ Leaving(c) /\ ~OwnsTransaction(c) /\ depth[c] \in savepoints[c]
  /\ Settle(c, {b \in Batches : level[b][c] >= depth[c]}, "rolledback")
  /\ stack' = Below
  /\ hooks' = [hooks EXCEPT ![c] = {b \in @ : depth[c] \notin within[b][c]}]
  /\ needs' = [needs EXCEPT ![c] = FALSE]
  /\ Surface(c)
  /\ UNCHANGED lost

\* Atomic.__exit__, an inner block without savepoint that fails.
FailWithoutSavepoint(c) ==
  /\ Leaving(c) /\ ~OwnsTransaction(c) /\ depth[c] \notin savepoints[c]
  /\ stack' = Below
  /\ needs' = [needs EXCEPT ![c] = TRUE]
  /\ Surface(c)
  /\ UNCHANGED <<hooks, fate, lost>>

ExitAtomic(c) ==
  \/ CommitTransaction(c) \/ RollbackTransaction(c) \/ ReleaseSavepoint(c)
  \/ RollbackSavepoint(c) \/ FailWithoutSavepoint(c)

ManualUnchanged == <<depth, savepoints, entered, within, batchVars, level>>

\* set_autocommit(False)
BeginManual(c) ==
  /\ c \in ManualConns /\ mode[c] # "manual" /\ ~InAtomicBlock(c)
  /\ mode' = [mode EXCEPT ![c] = "manual"]
  /\ UNCHANGED <<needs, dirty, hooks, stack, fate, lost, ManualUnchanged>>

ManualCommit(c) ==
  /\ mode[c] = "manual" /\ ~InAtomicBlock(c)
  /\ Settle(c, Batches, "committed")
  /\ dirty' = [dirty EXCEPT ![c] = FALSE]
  /\ UNCHANGED <<mode, needs, hooks, stack, lost, ManualUnchanged>>

\* rollback() empties run_on_commit, callbacks of committed work included.
ManualRollback(c) ==
  /\ mode[c] = "manual" /\ ~InAtomicBlock(c)
  /\ Settle(c, Batches, "rolledback")
  /\ lost' = [b \in Batches |->
                IF b \in hooks[c] /\ fate[b][c] = "committed"
                THEN lost[b] \cup {c} ELSE lost[b]]
  /\ hooks' = [hooks EXCEPT ![c] = {}]
  /\ needs' = [needs EXCEPT ![c] = FALSE]
  /\ dirty' = [dirty EXCEPT ![c] = FALSE]
  /\ UNCHANGED <<mode, stack, ManualUnchanged>>

\* set_autocommit(True), after commit() or rollback(): the callbacks run.
EndManual(c) ==
  /\ mode[c] = "manual" /\ ~InAtomicBlock(c) /\ ~dirty[c]
  /\ Len(stack) < MaxDepth
  /\ mode' = [mode EXCEPT ![c] = "autocommit"]
  /\ stack' = Append(stack, Frame("hooks", c, hooks[c], None))
  /\ hooks' = [hooks EXCEPT ![c] = {}]
  /\ UNCHANGED <<needs, dirty, fate, lost, ManualUnchanged>>

-----------------------------------------------------------------------------
(* _emit_observability_events and _after_open_transactions *)

\* Batches are numbered in the order of their emission.
IsNext(b) == outcome[b] = "none" /\ \A a \in 1..(b - 1) : outcome[a] # "none"

\* Mutant of ActiveConnections: only blocks that own their transaction count.
ActiveOutermost == {c \in Conns : OwnsTransaction(c)}

\* The connections the barrier waits for; a connection under manual management
\* outside any block makes it give up.
ActiveConnections == {c \in Conns : InAtomicBlock(c)}
Unreachable == \E c \in Conns : mode[c] = "manual" /\ ~InAtomicBlock(c)

\* Mutant of Register: one commit is taken for all.
RegisterOne(b, S) ==
  /\ hooks' = [c \in Conns |-> IF c \in S THEN hooks[c] \cup {b} ELSE hooks[c]]
  /\ within' = [within EXCEPT ![b] =
                  [c \in Conns |-> IF c \in S THEN savepoints[c] ELSE {}]]
  /\ remaining' = [remaining EXCEPT ![b] = 1]
  /\ level' = [level EXCEPT ![b] = depth]
  /\ fate' = [fate EXCEPT ![b] = [c \in Conns |->
                IF c \in ActiveConnections THEN "open" ELSE "none"]]

\* on_commit(connection_committed, using=c) for every c of S.
Register(b, S) ==
  /\ hooks' = [c \in Conns |-> IF c \in S THEN hooks[c] \cup {b} ELSE hooks[c]]
  /\ within' = [within EXCEPT ![b] =
                  [c \in Conns |-> IF c \in S THEN savepoints[c] ELSE {}]]
  /\ remaining' = [remaining EXCEPT ![b] = Cardinality(ActiveConnections)]
  /\ level' = [level EXCEPT ![b] = depth]
  /\ fate' = [fate EXCEPT ![b] = [c \in Conns |->
                IF c \in ActiveConnections THEN "open" ELSE "none"]]

Unregistered == UNCHANGED <<hooks, within, remaining, level, fate>>

\* deliver(): the first event, and the call of the sink.
Deliver(b, frames, n) ==
  /\ stack' = Append(frames, Frame("sink", None, {}, b))
  /\ sent' = [sent EXCEPT ![b] = n]
  /\ log' = Append(log, <<b, n>>)

\* Suppressed while the sink runs, given up, or an inspection that raised.
Drop(b) ==
  /\ outcome' = [outcome EXCEPT ![b] = "dropped"]
  /\ Unregistered
  /\ UNCHANGED <<stack, sent, log>>

Emit(b, n) ==
  /\ IsNext(b) /\ Len(stack) < MaxDepth
  /\ size' = [size EXCEPT ![b] = n]
  /\ \/ Drop(b)
     \/ /\ ~Emitting /\ ~Unreachable /\ ActiveConnections = {}
        /\ outcome' = [outcome EXCEPT ![b] = "direct"]
        /\ Deliver(b, stack, 1)
        /\ Unregistered
     \/ /\ ~Emitting /\ ~Unreachable /\ ActiveConnections # {}
        /\ outcome' = [outcome EXCEPT ![b] = "deferred"]
        /\ Register(b, ActiveConnections)
        /\ UNCHANGED <<stack, sent, log>>
     \/ /\ ~Emitting /\ ~Unreachable /\ ActiveConnections # {}
        /\ outcome' = [outcome EXCEPT ![b] = "cancelled"]
        /\ \E S \in SUBSET ActiveConnections : Register(b, S)
        /\ UNCHANGED <<stack, sent, log>>
  /\ UNCHANGED <<mode, depth, savepoints, needs, dirty, entered, failed, ran,
                 lost>>

-----------------------------------------------------------------------------
(* Django running the callbacks, and the sink *)

\* Mutants of Ready: a failed registration is forgotten; off by one.
ReadyWhenCancelled(b) == remaining[b] = 1
ReadyTooLate(b) == remaining[b] = 0 /\ outcome[b] # "cancelled"

\* The last callback of a batch that was not cancelled.
Ready(b) == remaining[b] = 1 /\ outcome[b] # "cancelled"

\* connection_committed(), next in run_and_clear_commit_hooks.
RunCallback ==
  /\ TopIs("hooks") /\ Top.todo # {}
  /\ LET b == Least(Top.todo)
         frames == Append(Below, [Top EXCEPT !.todo = @ \ {b}])
     IN
     /\ remaining' = [remaining EXCEPT ![b] = @ - 1]
     /\ ran' = [ran EXCEPT ![b] = @ \cup {Top.conn}]
     /\ IF Ready(b) THEN Deliver(b, frames, 1)
        ELSE stack' = frames /\ UNCHANGED <<sent, log>>
  /\ UNCHANGED <<django, hooks, outcome, size, failed, level, fate, lost>>

FinishCallbacks ==
  /\ TopIs("hooks") /\ Top.todo = {}
  /\ stack' = Below
  /\ UNCHANGED <<django, hooks, batchVars, level, fate, lost>>

\* A callback of the host among them raises: the rest of the list is gone.
HostCallbackRaises ==
  /\ TopIs("hooks") /\ Top.todo # {}
  /\ lost' = [b \in Batches |-> IF b \in Top.todo THEN lost[b] \cup {Top.conn}
                                ELSE lost[b]]
  /\ stack' = Below
  /\ UNCHANGED <<django, hooks, batchVars, level, fate>>

SinkReturns ==
  /\ TopIs("sink")
  /\ LET b == Top.batch IN
     IF sent[b] < size[b] THEN Deliver(b, Below, sent[b] + 1)
     ELSE stack' = Below /\ UNCHANGED <<sent, log>>
  /\ UNCHANGED <<django, hooks, outcome, size, remaining, failed, level, fate,
                 ran, lost>>

\* except Exception: return -- the events after it are never sent.
SinkRaises ==
  /\ TopIs("sink")
  /\ failed' = [failed EXCEPT ![Top.batch] = TRUE]
  /\ stack' = Below
  /\ UNCHANGED <<django, hooks, outcome, size, remaining, sent, log, level,
                 fate, ran, lost>>

Unwind ==
  \/ RunCallback \/ FinishCallbacks \/ HostCallbackRaises
  \/ SinkReturns \/ SinkRaises
  \/ \E c \in Conns : ExitAtomic(c)

Next ==
  \/ Unwind
  \/ \E c \in Conns, savepoint \in BOOLEAN : EnterAtomic(c, savepoint)
  \/ \E c \in Conns : \/ MarkForRollback(c) \/ BeginManual(c)
                       \/ ManualCommit(c) \/ ManualRollback(c) \/ EndManual(c)
  \/ \E b \in Batches, n \in 1..2 : Emit(b, n)

Spec == Init /\ [][Next]_vars

\* Blocks are left in the order they were entered, callbacks and sinks return;
\* the bounds keep host code from entering blocks for ever.
FairSpec == Spec /\ WF_vars(Unwind)

-----------------------------------------------------------------------------
(* Properties *)

TypeOK ==
  /\ mode \in [Conns -> Modes]
  /\ depth \in [Conns -> Nat]
  /\ savepoints \in [Conns -> SUBSET Nat]
  /\ needs \in [Conns -> BOOLEAN]
  /\ dirty \in [Conns -> BOOLEAN]
  /\ hooks \in [Conns -> SUBSET Batches]
  /\ within \in [Batches -> [Conns -> SUBSET Nat]]
  /\ stack \in Seq(Frames)
  /\ entered \in 0..MaxBlocks
  /\ outcome \in [Batches -> Outcomes]
  /\ size \in [Batches -> 0..2]
  /\ remaining \in [Batches -> Nat]
  /\ sent \in [Batches -> 0..2]
  /\ failed \in [Batches -> BOOLEAN]
  /\ log \in Seq(Batches \X (1..2))
  /\ level \in [Batches -> [Conns -> Nat]]
  /\ fate \in [Batches -> [Conns -> Fates]]
  /\ ran \in [Batches -> SUBSET Conns]
  /\ lost \in [Batches -> SUBSET Conns]

\* "run only after every current Django atomic block commits successfully": if
\* the sink has seen any event of a batch, every transaction that was open when
\* the batch was emitted has committed, savepoints around the emission included.
CommittedBeforeDelivery ==
  \A b \in Batches : sent[b] > 0 => \A c \in Conns : fate[b][c] \in {"none", "committed"}

\* Where connections are managed by atomic() alone, the sink never runs inside any
\* open block, not even one opened since the emission: a database error of the
\* sink cannot mark a caller's transaction for rollback.
SinkOutsideBlocks ==
  \A i, j \in DOMAIN stack :
    i < j => ~(stack[i].kind = "atomic" /\ stack[j].kind = "sink")

\* A batch is delivered whole or not at all: only a raising sink ends it early,
\* and a dropped or cancelled batch never reaches the sink.
WholeBatches ==
  \A b \in Batches :
    /\ sent[b] > 0 => outcome[b] \in {"direct", "deferred"}
    /\ sent[b] \in 1..(size[b] - 1) =>
         failed[b] \/ \E i \in DOMAIN stack : stack[i].batch = b

\* The sink sees each batch once, in order, and no other batch in between: it is
\* never re-entered, whatever it does.
ContiguousDelivery ==
  \A i \in DOMAIN log :
    IF log[i][2] > 1 THEN i > 1 /\ log[i - 1] = <<log[i][1], log[i][2] - 1>>
    ELSE \A j \in 1..(i - 1) : log[j] # log[i]

\* Once the thread is idle and no connection is under manual management, a batch
\* still undelivered was dropped when emitted, or one of its transactions rolled
\* back, or Django discarded its callback: the barrier itself forgets none.
NothingForgotten ==
  stack = <<>> /\ (\A c \in Conns : mode[c] # "manual") =>
    \A b \in Batches :
      outcome[b] \in {"direct", "deferred"} /\ sent[b] = 0 =>
        lost[b] # {} \/ \E c \in Conns : fate[b][c] = "rolledback"

\* The barrier implements the promise: the transactions a batch waits for are
\* those still open around its emission, and it is void once it was given up or
\* one of them rolled back, even back to a savepoint.
Promise ==
  INSTANCE BatchPromise WITH
    Events <- 2,
    known <- {b \in Batches : outcome[b] # "none"},
    open <- [b \in Batches |-> {c \in Conns : fate[b][c] = "open"}],
    void <- {b \in Batches : \/ outcome[b] \in {"dropped", "cancelled"}
                             \/ \E c \in Conns : fate[b][c] = "rolledback"},
    told <- sent

KeepsPromise == Promise!PromiseSpec

\* Every batch comes to an end: delivered, given up, rolled back, or lost with
\* the callbacks of a host that raised among them.
EveryBatchSettles ==
  \A b \in Batches :
    outcome[b] \in {"direct", "deferred"} ~>
      \/ sent[b] = size[b] \/ failed[b] \/ lost[b] # {}
      \/ \E c \in Conns : fate[b][c] = "rolledback"

=============================================================================
