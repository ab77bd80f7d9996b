----------------------------- MODULE AppendPath -----------------------------
(***************************************************************************)
(* The append path of PostgresDurability in one broker process             *)
(* (dclient/postgres_durability.py: append, _drain_appends, close) and the *)
(* Postgres server it commits to.                                          *)
(*                                                                         *)
(* The broker is one asyncio event loop, so whatever happens between two   *)
(* awaits is one action here.  A committer task is "spawned" when it has   *)
(* been created and has not run yet, and "finished" when its coroutine has *)
(* returned but the done-callback that discards it from self._writers is   *)
(* still waiting in the loop's ready queue.  Other callbacks, append()     *)
(* among them, may run in either gap.                                      *)
(*                                                                         *)
(* A transaction lives on the server: when the client loses the connection *)
(* or dies, it may still commit or abort later (orphans).                  *)
(***************************************************************************)
EXTENDS Naturals, FiniteSets

CONSTANTS
    Msgs,          \* the messages the broker appends, each with its own id
    Tasks,         \* identities for committer tasks, reused once discarded
    MaxWriters,    \* _MAX_WRITERS
    SyncCommit     \* TRUE iff PG_SYNCHRONOUS_COMMIT = "on"

ASSUME MaxWritersAssumption == MaxWriters \in Nat \ {0}
ASSUME TasksAssumption == IsFiniteSet(Tasks) /\ MaxWriters <= Cardinality(Tasks)
ASSUME SyncCommitAssumption == SyncCommit \in BOOLEAN

VARIABLES
    queue,      \* self._append_queue, as a set: a message is appended once
    fut,        \* the future append() awaits, per message
    task,       \* how far each committer task is; "absent": not in _writers
    batch,      \* the batch a committer has claimed
    closer,     \* how far close() is; self._closed iff it is not "open"
    awaited,    \* list(self._writers) as close() read it
    table,      \* rows of the messages table per message
    disk,       \* the rows a crash of Postgres is sure to leave
    orphans     \* batches in transactions whose client is gone

memVars == <<queue, fut, task, batch, closer, awaited>>
pgVars == <<table, disk, orphans>>
vars == <<queue, fut, task, batch, closer, awaited, table, disk, orphans>>

FutState == {"none", "pending", "ok", "failed", "cancelled", "lost"}
TaskState == {"absent", "spawned", "acquiring", "inserting", "committed",
              "aborted", "finished"}
CloserState == {"open", "waiting", "poolClosing", "closed"}

writers == {w \in Tasks : task[w] # "absent"}          \* self._writers
Running(w) == task[w] \notin {"absent", "finished"}
Claimed(w) == task[w] \in {"acquiring", "inserting", "committed", "aborted"}

Init ==
    /\ queue = {}
    /\ fut = [m \in Msgs |-> "none"]
    /\ task = [w \in Tasks |-> "absent"]
    /\ batch = [w \in Tasks |-> {}]
    /\ closer = "open"
    /\ awaited = {}
    /\ table = [m \in Msgs |-> 0]
    /\ disk = [m \in Msgs |-> 0]
    /\ orphans = {}

-----------------------------------------------------------------------------
(* append() *)

\* The futures of S after each one that is not done yet gets the outcome.
Settle(S, outcome) ==
    [m \in Msgs |-> IF m \in S /\ fut[m] = "pending" THEN outcome ELSE fut[m]]

\* Mutant: the cap compared with <= instead of <.
MaySpawnOverCap == closer = "open" /\ Cardinality(writers) <= MaxWriters

MaySpawn == closer = "open" /\ Cardinality(writers) < MaxWriters

\* append() up to its await: queue the row, create a committer under the cap.
AppendCall(m) ==
    /\ fut[m] = "none"
    /\ fut' = [fut EXCEPT ![m] = "pending"]
    /\ queue' = queue \cup {m}
    /\ \/ /\ MaySpawn
          /\ \E w \in Tasks \ writers : task' = [task EXCEPT ![w] = "spawned"]
       \/ ~MaySpawn /\ UNCHANGED task
    /\ UNCHANGED <<batch, closer, awaited, pgVars>>

\* The task that awaits append() is cancelled; its row stays where it is.
CancelWaiter(m) ==
    /\ fut[m] = "pending"
    /\ fut' = [fut EXCEPT ![m] = "cancelled"]
    /\ UNCHANGED <<queue, task, batch, closer, awaited, pgVars>>

-----------------------------------------------------------------------------
(* _drain_appends() *)

\* Mutant: the queue is read, and reset by nobody.
LoopHeadNoReset(w) ==
    \/ /\ queue # {}
       /\ batch' = [batch EXCEPT ![w] = queue]
       /\ task' = [task EXCEPT ![w] = "acquiring"]
       /\ UNCHANGED queue
    \/ /\ queue = {}
       /\ batch' = [batch EXCEPT ![w] = {}]
       /\ task' = [task EXCEPT ![w] = "finished"]
       /\ UNCHANGED queue

\* Mutant: a committer that never exits, as if the loop were "while True".
LoopHeadForever(w) ==
    /\ batch' = [batch EXCEPT ![w] = queue]
    /\ queue' = {}
    /\ task' = [task EXCEPT ![w] = "acquiring"]

\* The head of the while loop: swap the queue out, or leave.
LoopHead(w) ==
    \/ /\ queue # {}
       /\ batch' = [batch EXCEPT ![w] = queue]
       /\ queue' = {}
       /\ task' = [task EXCEPT ![w] = "acquiring"]
    \/ /\ queue = {}
       /\ batch' = [batch EXCEPT ![w] = {}]
       /\ task' = [task EXCEPT ![w] = "finished"]
       /\ UNCHANGED queue

RunWorker(w) ==
    /\ task[w] = "spawned"
    /\ LoopHead(w)
    /\ UNCHANGED <<fut, closer, awaited, pgVars>>

\* The pool hands out a connection and the transaction begins.
Acquire(w) ==
    /\ task[w] = "acquiring"
    /\ task' = [task EXCEPT ![w] = "inserting"]
    /\ UNCHANGED <<queue, fut, batch, closer, awaited, pgVars>>

\* The rows of S are inserted and committed, and flushed if commits wait.
CommitRows(S) ==
    /\ table' = [m \in Msgs |-> IF m \in S THEN table[m] + 1 ELSE table[m]]
    /\ disk' = IF SyncCommit THEN table' ELSE disk

\* Postgres executes the batch's COMMIT; the reply is on its way.
ServerCommit(w) ==
    /\ task[w] = "inserting"
    /\ CommitRows(batch[w])
    /\ task' = [task EXCEPT ![w] = "committed"]
    /\ UNCHANGED <<queue, fut, batch, closer, awaited, orphans>>

\* Mutant: the waiters are resolved inside the transaction, before COMMIT.
RelaySuccessEarly(w) ==
    /\ task[w] \in {"inserting", "committed"}
    /\ fut' = Settle(batch[w], "ok")
    /\ LoopHead(w)
    /\ UNCHANGED <<closer, awaited, pgVars>>

\* Mutant: no "if not fut.done()": a cancelled waiter kills the committer.
RelaySuccessUnguarded(w) ==
    /\ task[w] = "committed"
    /\ \/ /\ \A m \in batch[w] : fut[m] = "pending"
          /\ fut' = Settle(batch[w], "ok")
          /\ LoopHead(w)
       \/ /\ \E m \in batch[w] : fut[m] # "pending"
          /\ task' = [task EXCEPT ![w] = "finished"]
          /\ batch' = [batch EXCEPT ![w] = {}]
          /\ UNCHANGED <<fut, queue>>
    /\ UNCHANGED <<closer, awaited, pgVars>>

\* Mutant: what was queued during the commit is resolved with the batch.
RelaySuccessToQueue(w) ==
    /\ task[w] = "committed"
    /\ fut' = Settle(batch[w] \cup queue, "ok")
    /\ LoopHead(w)
    /\ UNCHANGED <<closer, awaited, pgVars>>

\* The reply arrives: resolve every waiter, then go round the loop.
RelaySuccess(w) ==
    /\ task[w] = "committed"
    /\ fut' = Settle(batch[w], "ok")
    /\ LoopHead(w)
    /\ UNCHANGED <<closer, awaited, pgVars>>

\* Mutant: the exception is logged and the batch forgotten.
RelayFailureSilent(w) ==
    /\ Claimed(w)
    /\ LoopHead(w)
    /\ \/ UNCHANGED orphans
       \/ task[w] = "inserting" /\ orphans' = orphans \cup {batch[w]}
    /\ UNCHANGED <<fut, closer, awaited, table, disk>>

\* An exception instead, at any await, cancellation included: relay it to
\* every waiter and go round the loop.  The rows may be committed already,
\* and a transaction whose connection broke may outlive its client.
RelayFailure(w) ==
    /\ Claimed(w)
    /\ fut' = Settle(batch[w], "failed")
    /\ LoopHead(w)
    /\ \/ UNCHANGED orphans
       \/ task[w] = "inserting" /\ orphans' = orphans \cup {batch[w]}
    /\ UNCHANGED <<closer, awaited, table, disk>>

\* The done-callback self._writers.discard runs.
Discard(w) ==
    /\ task[w] = "finished"
    /\ task' = [task EXCEPT ![w] = "absent"]
    /\ UNCHANGED <<queue, fut, batch, closer, awaited, pgVars>>

-----------------------------------------------------------------------------
(* close() *)

\* Fail whatever is queued, then start closing the pool.
FailQueued ==
    /\ fut' = Settle(queue, "failed")
    /\ queue' = {}
    /\ closer' = "poolClosing"

\* close() is called.  Awaiting a task that is done does not suspend, so
\* with no committer running it fails the queue in the same step.
CloseCall ==
    /\ closer = "open"
    /\ awaited' = writers
    /\ \/ /\ \E w \in Tasks : Running(w)
          /\ closer' = "waiting"
          /\ UNCHANGED <<queue, fut>>
       \/ /\ \A w \in Tasks : ~Running(w)
          /\ FailQueued
    /\ UNCHANGED <<task, batch, pgVars>>

\* The last of the awaited committers is done.
CloseResume ==
    /\ closer = "waiting"
    /\ \A w \in awaited : ~Running(w)
    /\ FailQueued
    /\ UNCHANGED <<task, batch, awaited, pgVars>>

\* The task running close() is cancelled while it awaits w, which forwards
\* the cancellation to w.  One that has not started never runs its body; one
\* that has relays the exception and carries on, which is RelayFailure.
CancelSpawned(w) ==
    /\ closer = "waiting"
    /\ w \in awaited
    /\ task[w] = "spawned"
    /\ task' = [task EXCEPT ![w] = "finished"]
    /\ UNCHANGED <<queue, fut, batch, closer, awaited, pgVars>>

PoolClosed ==
    /\ closer = "poolClosing"
    /\ closer' = "closed"
    /\ UNCHANGED <<queue, fut, task, batch, awaited, pgVars>>

-----------------------------------------------------------------------------
(* Crashes, and the server's side of a transaction *)

\* The broker process dies or exits and its container is restarted: memory is
\* gone, every publisher still waiting loses its connection.
BrokerRestart ==
    /\ queue' = {}
    /\ fut' = Settle(Msgs, "lost")
    /\ task' = [w \in Tasks |-> "absent"]
    /\ batch' = [w \in Tasks |-> {}]
    /\ closer' = "open"
    /\ awaited' = {}
    /\ orphans' = orphans \cup {batch[w] : w \in {v \in Tasks : task[v] = "inserting"}}
    /\ UNCHANGED <<table, disk>>

OrphanCommit(S) ==
    /\ S \in orphans
    /\ CommitRows(S)
    /\ orphans' = orphans \ {S}
    /\ UNCHANGED memVars

OrphanAbort(S) ==
    /\ S \in orphans
    /\ orphans' = orphans \ {S}
    /\ UNCHANGED <<memVars, table, disk>>

\* Postgres crashes and recovers: open transactions go, and so may commits that
\* were not waited for until they were on disk (how far the WAL writer was behind
\* shows only now).
PgRestart ==
    /\ \E lost \in SUBSET {m \in Msgs : disk[m] < table[m]} :
          table' = [m \in Msgs |-> IF m \in lost THEN disk[m] ELSE table[m]]
    /\ disk' = table'
    /\ orphans' = {}
    /\ task' = [w \in Tasks |->
                  IF task[w] = "inserting" THEN "aborted" ELSE task[w]]
    /\ UNCHANGED <<queue, fut, batch, closer, awaited>>

-----------------------------------------------------------------------------

WorkerStep(w) ==
    \/ RunWorker(w)
    \/ Acquire(w)
    \/ ServerCommit(w)
    \/ RelaySuccess(w)
    \/ RelayFailure(w)

Next ==
    \/ \E m \in Msgs : AppendCall(m) \/ CancelWaiter(m)
    \/ \E w \in Tasks : WorkerStep(w) \/ Discard(w) \/ CancelSpawned(w)
    \/ CloseCall
    \/ CloseResume
    \/ PoolClosed
    \/ BrokerRestart
    \/ \E S \in orphans : OrphanCommit(S) \/ OrphanAbort(S)
    \/ PgRestart

Spec == Init /\ [][Next]_vars

\* The event loop runs what is ready, and a database call ends, with a result
\* or an error.  Nobody has to append, cancel, close or crash.
FairSpec ==
    /\ Spec
    /\ \A w \in Tasks : WF_vars(WorkerStep(w)) /\ WF_vars(Discard(w))
    /\ WF_vars(CloseResume)
    /\ WF_vars(PoolClosed)

-----------------------------------------------------------------------------
(* Properties *)

TypeOK ==
    /\ queue \in SUBSET Msgs
    /\ fut \in [Msgs -> FutState]
    /\ task \in [Tasks -> TaskState]
    /\ batch \in [Tasks -> SUBSET Msgs]
    /\ closer \in CloserState
    /\ awaited \in SUBSET Tasks
    /\ table \in [Msgs -> Nat]
    /\ disk \in [Msgs -> Nat]
    /\ orphans \in SUBSET SUBSET Msgs

\* The parts of the inductive invariant.  A new message is nowhere.
NewIsNowhere ==
    \A m \in Msgs : fut[m] = "none" =>
        /\ m \notin queue
        /\ \A w \in Tasks : m \notin batch[w]
        /\ \A S \in orphans : m \notin S
        /\ table[m] = 0

\* A row is in one place: the queue, one batch or one orphaned transaction.
OnePlace ==
    /\ \A w \in Tasks : batch[w] # {} => Claimed(w)
    /\ \A w \in Tasks : batch[w] \cap queue = {}
    /\ \A v, w \in Tasks : v # w => batch[v] \cap batch[w] = {}
    /\ \A S \in orphans : S \cap queue = {} /\ \A w \in Tasks : S \cap batch[w] = {}
    /\ \A S, T \in orphans : S # T => S \cap T = {}

\* Rows that may still be inserted have not been.
UnstoredYet ==
    /\ \A m \in queue : table[m] = 0
    /\ \A w \in Tasks : task[w] # "committed" => \A m \in batch[w] : table[m] = 0
    /\ \A S \in orphans : \A m \in S : table[m] = 0

\* What a crash is sure to leave is part of the table, all of it if commits wait.
DiskUnderTable ==
    \A m \in Msgs : /\ disk[m] <= table[m]
                    /\ SyncCommit => disk[m] = table[m]

\* The batch of a committed transaction is stored, if commits wait.
CommittedIsStored ==
    SyncCommit => \A w \in Tasks : task[w] = "committed" =>
                      \A m \in batch[w] : table[m] >= 1

\* Once close() has begun, it knows every committer there is.
CloserKnowsWriters == closer = "waiting" => writers \subseteq awaited

\* Publish-after-durable: with synchronous commit, a message whose append()
\* returned is on disk, whatever crashed, failed or was cancelled since
\* (_drain_appends resolves a waiter only after its batch committed).
PublishAfterDurable ==
    SyncCommit => \A m \in Msgs : fut[m] = "ok" => disk[m] >= 1

\* The table has no unique key on message_id, so nothing but the code keeps a
\* message to one row: a batch is claimed by one committer, never put back
\* after an ambiguous failure, never claimed twice across concurrent workers.
SingleInsert == \A m \in Msgs : table[m] <= 1

\* Every publisher still waiting is accounted for: its row is queued or in the
\* batch of a committer that will resolve it.  A committer that dies on one
\* waiter (a cancelled future, say) would leave the others of its batch hanging.
WaiterAccounted ==
    \A m \in Msgs : fut[m] = "pending" =>
        m \in queue \/ \E w \in Tasks : Claimed(w) /\ m \in batch[w]

\* _MAX_WRITERS bounds the committers alive at once, those not yet discarded
\* included, however appends, exits and callbacks interleave.
WriterCap == Cardinality(writers) <= MaxWriters

\* What append() and its committers keep true together; it implies the
\* invariants above and every step preserves it.
AppendInv ==
    /\ TypeOK
    /\ NewIsNowhere
    /\ OnePlace
    /\ UnstoredYet
    /\ DiskUnderTable
    /\ CommittedIsStored
    /\ SingleInsert
    /\ PublishAfterDurable
    /\ WaiterAccounted
    /\ CloserKnowsWriters

\* When close() goes on to close the pool it leaves no publisher waiting and
\* no committer that would still need a connection.
CloseLeavesNothing ==
    [][closer' = "poolClosing" /\ closer # "poolClosing" =>
          /\ \A m \in Msgs : fut'[m] # "pending"
          /\ \A w \in Tasks : task'[w] \in {"absent", "finished"}]_vars

\* Once claimed, an append is resolved, with a result or an exception.
ClaimedResolves ==
    \A m \in Msgs :
        (\E w \in Tasks : Claimed(w) /\ m \in batch[w]) ~> fut[m] # "pending"

\* close() ends, although committers keep claiming what arrives meanwhile.
CloseCompletes == closer # "open" ~> closer \in {"closed", "open"}

\* The comment in append() (lines 223-225): while work is queued and the pool
\* is under its cap there is a committer for it; so an append made on an open
\* backend is resolved, unless the backend is closed or restarted first.
QueuedWorkIsCommitted ==
    \A m \in Msgs :
        fut[m] = "pending" /\ closer = "open"
            ~> fut[m] # "pending" \/ closer # "open"

\* The refinement mapping: what the futures tell publishers, what is stored.
Publisher ==
    [m \in Msgs |-> IF fut[m] \in {"failed", "cancelled", "lost"} THEN "error"
                                                                  ELSE fut[m]]
Stored == {m \in Msgs : table[m] # 0}

Log == INSTANCE DurableLog WITH status <- Publisher, stored <- Stored

\* The backend implements what DurableLog promises to publishers: append()
\* returns only for stored messages, and nothing stored is ever forgotten.
ImplementsDurableLog == Log!LogSpec

=============================================================================
