-------------------------- MODULE AppendPathProofs --------------------------
(***************************************************************************)
(* Proofs about AppendPath, for every set of messages, every set of        *)
(* committer tasks, every cap and both settings of synchronous_commit.     *)
(*                                                                         *)
(* AppendInv is inductive.  Its core is that a row is in one place at a    *)
(* time (OnePlace) and not yet stored while it still may be inserted       *)
(* (UnstoredYet): the swap in _drain_appends keeps the first, the fact     *)
(* that nothing is ever put back after a failure keeps the second.         *)
(***************************************************************************)
EXTENDS AppendPath, FiniteSetTheorems, TLAPS

\* The initial states satisfy the inductive invariant.
LEMMA InitInv == Init => AppendInv
  BY DEF Init, AppendInv, TypeOK, FutState, TaskState, CloserState, NewIsNowhere,
     OnePlace, UnstoredYet, DiskUnderTable, CommittedIsStored, SingleInsert,
     PublishAfterDurable, WaiterAccounted, CloserKnowsWriters, Claimed

-----------------------------------------------------------------------------
(* One lemma per action *)

\* Appending preserves the inductive invariant.
LEMMA AppendCallPreserves ==
    ASSUME AppendInv, NEW m \in Msgs, AppendCall(m)
    PROVE  AppendInv'
<1> USE DEF AppendInv
<1>1. TypeOK'
  BY DEF TypeOK, FutState, TaskState, CloserState, AppendCall, MaySpawn,
     writers, memVars, pgVars
<1>2. NewIsNowhere'
  BY DEF TypeOK, NewIsNowhere, AppendCall, MaySpawn, writers, memVars, pgVars
<1>3. OnePlace'
  BY DEF TypeOK, OnePlace, Claimed, NewIsNowhere, AppendCall, MaySpawn,
     writers, memVars, pgVars
<1>4. UnstoredYet'
  BY DEF TypeOK, UnstoredYet, NewIsNowhere, AppendCall, MaySpawn, writers,
     memVars, pgVars
<1>5. CommittedIsStored'
  BY DEF TypeOK, CommittedIsStored, AppendCall, MaySpawn, writers, memVars,
     pgVars
<1>6. PublishAfterDurable'
  BY DEF TypeOK, PublishAfterDurable, AppendCall, MaySpawn, writers, memVars,
     pgVars
<1>7. WaiterAccounted'
  BY DEF TypeOK, WaiterAccounted, Claimed, AppendCall, MaySpawn, writers,
     memVars, pgVars
<1>8. CloserKnowsWriters'
  BY DEF TypeOK, CloserKnowsWriters, writers, AppendCall, MaySpawn, memVars,
     pgVars
<1>9. (DiskUnderTable /\ SingleInsert)'
  BY DEF DiskUnderTable, SingleInsert, AppendCall, memVars, pgVars
<1> QED BY <1>1, <1>2, <1>3, <1>4, <1>5, <1>6, <1>7, <1>8, <1>9

\* Cancelling a waiter preserves the inductive invariant.
LEMMA CancelWaiterPreserves ==
    ASSUME AppendInv, NEW m \in Msgs, CancelWaiter(m)
    PROVE  AppendInv'
<1> USE DEF AppendInv
<1>1. TypeOK'
  BY DEF TypeOK, FutState, TaskState, CloserState, CancelWaiter, memVars,
     pgVars
<1>2. NewIsNowhere'
  BY DEF TypeOK, NewIsNowhere, CancelWaiter, memVars, pgVars
<1>3. PublishAfterDurable'
  BY DEF TypeOK, PublishAfterDurable, CancelWaiter, memVars, pgVars
<1>4. WaiterAccounted'
  BY DEF TypeOK, WaiterAccounted, Claimed, CancelWaiter, memVars, pgVars
<1>5. (OnePlace /\ UnstoredYet /\ DiskUnderTable /\ CommittedIsStored /\
       SingleInsert /\ CloserKnowsWriters)'
  BY DEF OnePlace, UnstoredYet, DiskUnderTable, CommittedIsStored,
     SingleInsert, CloserKnowsWriters, Claimed, writers, CancelWaiter,
     memVars, pgVars
<1> QED BY <1>1, <1>2, <1>3, <1>4, <1>5

\* A committer's first step preserves the inductive invariant.
LEMMA RunWorkerPreserves ==
    ASSUME AppendInv, NEW w \in Tasks, RunWorker(w)
    PROVE  AppendInv'
<1> USE DEF AppendInv
<1>1. TypeOK'
  BY DEF TypeOK, FutState, TaskState, CloserState, RunWorker, LoopHead,
     memVars, pgVars
<1>2. NewIsNowhere'
  BY DEF TypeOK, NewIsNowhere, RunWorker, LoopHead, memVars, pgVars
<1>3. OnePlace'
  BY DEF TypeOK, OnePlace, Claimed, RunWorker, LoopHead, memVars, pgVars
<1>4. UnstoredYet'
  BY DEF TypeOK, UnstoredYet, RunWorker, LoopHead, memVars, pgVars
<1>5. CommittedIsStored'
  BY DEF TypeOK, CommittedIsStored, RunWorker, LoopHead, memVars, pgVars
<1>6. WaiterAccounted'
  BY DEF TypeOK, WaiterAccounted, Claimed, RunWorker, LoopHead, memVars,
     pgVars
<1>7. CloserKnowsWriters'
  BY DEF TypeOK, CloserKnowsWriters, writers, RunWorker, LoopHead, memVars,
     pgVars
<1>8. (DiskUnderTable /\ SingleInsert /\ PublishAfterDurable)'
  BY DEF DiskUnderTable, SingleInsert, PublishAfterDurable, RunWorker,
     memVars, pgVars
<1> QED BY <1>1, <1>2, <1>3, <1>4, <1>5, <1>6, <1>7, <1>8

\* Taking a connection preserves the inductive invariant.
LEMMA AcquirePreserves ==
    ASSUME AppendInv, NEW w \in Tasks, Acquire(w)
    PROVE  AppendInv'
<1> USE DEF AppendInv
<1>1. TypeOK'
  BY DEF TypeOK, FutState, TaskState, CloserState, Acquire, memVars, pgVars
<1>2. OnePlace'
  BY DEF TypeOK, OnePlace, Claimed, Acquire, memVars, pgVars
<1>3. UnstoredYet'
  BY DEF TypeOK, UnstoredYet, Acquire, memVars, pgVars
<1>4. CommittedIsStored'
  BY DEF TypeOK, CommittedIsStored, Acquire, memVars, pgVars
<1>5. WaiterAccounted'
  BY DEF TypeOK, WaiterAccounted, Claimed, Acquire, memVars, pgVars
<1>6. CloserKnowsWriters'
  BY DEF TypeOK, CloserKnowsWriters, writers, Acquire, memVars, pgVars
<1>7. (NewIsNowhere /\ DiskUnderTable /\ SingleInsert /\
       PublishAfterDurable)'
  BY DEF NewIsNowhere, DiskUnderTable, SingleInsert, PublishAfterDurable,
     Acquire, memVars, pgVars
<1> QED BY <1>1, <1>2, <1>3, <1>4, <1>5, <1>6, <1>7

\* A server-side commit preserves the inductive invariant.
LEMMA ServerCommitPreserves ==
    ASSUME AppendInv, NEW w \in Tasks, ServerCommit(w)
    PROVE  AppendInv'
<1> USE DEF AppendInv
<1>1. TypeOK'
  BY SyncCommitAssumption DEF TypeOK, FutState, TaskState, CloserState,
     ServerCommit, CommitRows, memVars, pgVars
<1>2. NewIsNowhere'
  BY DEF TypeOK, NewIsNowhere, ServerCommit, CommitRows, memVars, pgVars
<1>3. OnePlace'
  BY DEF TypeOK, OnePlace, Claimed, ServerCommit, CommitRows, memVars, pgVars
<1>4. UnstoredYet'
  BY DEF TypeOK, UnstoredYet, OnePlace, ServerCommit, CommitRows, memVars,
     pgVars
<1>5. DiskUnderTable'
  BY DEF TypeOK, DiskUnderTable, ServerCommit, CommitRows, memVars, pgVars
<1>6. CommittedIsStored'
  BY DEF TypeOK, CommittedIsStored, ServerCommit, CommitRows, memVars, pgVars
<1>7. SingleInsert'
  BY DEF TypeOK, SingleInsert, UnstoredYet, ServerCommit, CommitRows,
     memVars, pgVars
<1>8. PublishAfterDurable'
  BY DEF TypeOK, PublishAfterDurable, DiskUnderTable, ServerCommit,
     CommitRows, memVars, pgVars
<1>9. WaiterAccounted'
  BY DEF TypeOK, WaiterAccounted, Claimed, ServerCommit, CommitRows, memVars,
     pgVars
<1>10. CloserKnowsWriters'
  BY DEF TypeOK, CloserKnowsWriters, writers, ServerCommit, CommitRows,
     memVars, pgVars
<1> QED BY <1>1, <1>2, <1>3, <1>4, <1>5, <1>6, <1>7, <1>8, <1>9, <1>10

\* Resolving a committed batch preserves the inductive invariant.
LEMMA RelaySuccessPreserves ==
    ASSUME AppendInv, NEW w \in Tasks, RelaySuccess(w)
    PROVE  AppendInv'
<1> USE DEF AppendInv
<1>1. TypeOK'
  BY DEF TypeOK, FutState, TaskState, CloserState, RelaySuccess, LoopHead,
     Settle, memVars, pgVars
<1>2. NewIsNowhere'
  BY DEF TypeOK, NewIsNowhere, RelaySuccess, LoopHead, Settle, memVars,
     pgVars
<1>3. OnePlace'
  BY DEF TypeOK, OnePlace, Claimed, RelaySuccess, LoopHead, Settle, memVars,
     pgVars
<1>4. UnstoredYet'
  BY DEF TypeOK, UnstoredYet, RelaySuccess, LoopHead, Settle, memVars, pgVars
<1>5. CommittedIsStored'
  BY DEF TypeOK, CommittedIsStored, RelaySuccess, LoopHead, Settle, memVars,
     pgVars
<1>6. PublishAfterDurable'
  BY DEF TypeOK, PublishAfterDurable, CommittedIsStored, DiskUnderTable,
     RelaySuccess, LoopHead, Settle, memVars, pgVars
<1>7. WaiterAccounted'
  BY DEF TypeOK, WaiterAccounted, Claimed, RelaySuccess, LoopHead, Settle,
     memVars, pgVars
<1>8. CloserKnowsWriters'
  BY DEF TypeOK, CloserKnowsWriters, writers, RelaySuccess, LoopHead, Settle,
     memVars, pgVars
<1>9. (DiskUnderTable /\ SingleInsert)'
  BY DEF DiskUnderTable, SingleInsert, RelaySuccess, memVars, pgVars
<1> QED BY <1>1, <1>2, <1>3, <1>4, <1>5, <1>6, <1>7, <1>8, <1>9

\* Relaying a failure preserves the inductive invariant.
LEMMA RelayFailurePreserves ==
    ASSUME AppendInv, NEW w \in Tasks, RelayFailure(w)
    PROVE  AppendInv'
<1> USE DEF AppendInv
<1>1. TypeOK'
  BY DEF TypeOK, FutState, TaskState, CloserState, RelayFailure, LoopHead,
     Settle, Claimed, memVars, pgVars
<1>2. NewIsNowhere'
  BY DEF TypeOK, NewIsNowhere, RelayFailure, LoopHead, Settle, Claimed,
     memVars, pgVars
<1>3. OnePlace'
  BY DEF TypeOK, OnePlace, Claimed, RelayFailure, LoopHead, Settle, memVars,
     pgVars
<1>4. UnstoredYet'
  BY DEF TypeOK, UnstoredYet, RelayFailure, LoopHead, Settle, Claimed,
     memVars, pgVars
<1>5. CommittedIsStored'
  BY DEF TypeOK, CommittedIsStored, RelayFailure, LoopHead, Settle, Claimed,
     memVars, pgVars
<1>6. PublishAfterDurable'
  BY DEF TypeOK, PublishAfterDurable, RelayFailure, LoopHead, Settle,
     Claimed, memVars, pgVars
<1>7. WaiterAccounted'
  BY DEF TypeOK, WaiterAccounted, Claimed, RelayFailure, LoopHead, Settle,
     memVars, pgVars
<1>8. CloserKnowsWriters'
  BY DEF TypeOK, CloserKnowsWriters, writers, RelayFailure, LoopHead, Settle,
     Claimed, memVars, pgVars
<1>9. (DiskUnderTable /\ SingleInsert)'
  BY DEF DiskUnderTable, SingleInsert, RelayFailure, memVars, pgVars
<1> QED BY <1>1, <1>2, <1>3, <1>4, <1>5, <1>6, <1>7, <1>8, <1>9

\* The discard callback preserves the inductive invariant.
LEMMA DiscardPreserves ==
    ASSUME AppendInv, NEW w \in Tasks, Discard(w)
    PROVE  AppendInv'
<1> USE DEF AppendInv
<1>1. TypeOK'
  BY DEF TypeOK, FutState, TaskState, CloserState, Discard, memVars, pgVars
<1>2. OnePlace'
  BY DEF TypeOK, OnePlace, Claimed, Discard, memVars, pgVars
<1>3. UnstoredYet'
  BY DEF TypeOK, UnstoredYet, Discard, memVars, pgVars
<1>4. CommittedIsStored'
  BY DEF TypeOK, CommittedIsStored, Discard, memVars, pgVars
<1>5. WaiterAccounted'
  BY DEF TypeOK, WaiterAccounted, Claimed, Discard, memVars, pgVars
<1>6. CloserKnowsWriters'
  BY DEF TypeOK, CloserKnowsWriters, writers, Discard, memVars, pgVars
<1>7. (NewIsNowhere /\ DiskUnderTable /\ SingleInsert /\
       PublishAfterDurable)'
  BY DEF NewIsNowhere, DiskUnderTable, SingleInsert, PublishAfterDurable,
     Discard, memVars, pgVars
<1> QED BY <1>1, <1>2, <1>3, <1>4, <1>5, <1>6, <1>7

\* Cancelling a committer that has not started preserves the inductive invariant.
LEMMA CancelSpawnedPreserves ==
    ASSUME AppendInv, NEW w \in Tasks, CancelSpawned(w)
    PROVE  AppendInv'
<1> USE DEF AppendInv
<1>1. TypeOK'
  BY DEF TypeOK, FutState, TaskState, CloserState, CancelSpawned, memVars,
     pgVars
<1>2. OnePlace'
  BY DEF TypeOK, OnePlace, Claimed, CancelSpawned, memVars, pgVars
<1>3. UnstoredYet'
  BY DEF TypeOK, UnstoredYet, CancelSpawned, memVars, pgVars
<1>4. CommittedIsStored'
  BY DEF TypeOK, CommittedIsStored, CancelSpawned, memVars, pgVars
<1>5. WaiterAccounted'
  BY DEF TypeOK, WaiterAccounted, Claimed, CancelSpawned, memVars, pgVars
<1>6. CloserKnowsWriters'
  BY DEF TypeOK, CloserKnowsWriters, writers, CancelSpawned, memVars, pgVars
<1>7. (NewIsNowhere /\ DiskUnderTable /\ SingleInsert /\
       PublishAfterDurable)'
  BY DEF NewIsNowhere, DiskUnderTable, SingleInsert, PublishAfterDurable,
     CancelSpawned, memVars, pgVars
<1> QED BY <1>1, <1>2, <1>3, <1>4, <1>5, <1>6, <1>7

\* A call of close() preserves the inductive invariant.
LEMMA CloseCallPreserves ==
    ASSUME AppendInv, CloseCall
    PROVE  AppendInv'
<1> USE DEF AppendInv
<1>1. TypeOK'
  BY DEF TypeOK, FutState, TaskState, CloserState, CloseCall, FailQueued,
     Settle, writers, memVars, pgVars
<1>2. NewIsNowhere'
  BY DEF TypeOK, NewIsNowhere, CloseCall, FailQueued, Settle, writers,
     memVars, pgVars
<1>3. OnePlace'
  BY DEF TypeOK, OnePlace, Claimed, CloseCall, FailQueued, Settle, writers,
     memVars, pgVars
<1>4. UnstoredYet'
  BY DEF TypeOK, UnstoredYet, CloseCall, FailQueued, Settle, writers,
     memVars, pgVars
<1>5. PublishAfterDurable'
  BY DEF TypeOK, PublishAfterDurable, CloseCall, FailQueued, Settle, writers,
     memVars, pgVars
<1>6. WaiterAccounted'
  BY DEF TypeOK, WaiterAccounted, Claimed, CloseCall, FailQueued, Settle,
     writers, memVars, pgVars
<1>7. CloserKnowsWriters'
  BY DEF TypeOK, CloserKnowsWriters, writers, CloseCall, FailQueued, Settle,
     memVars, pgVars
<1>8. (DiskUnderTable /\ CommittedIsStored /\ SingleInsert)'
  BY DEF DiskUnderTable, CommittedIsStored, SingleInsert, CloseCall, memVars,
     pgVars
<1> QED BY <1>1, <1>2, <1>3, <1>4, <1>5, <1>6, <1>7, <1>8

\* The end of close()'s wait preserves the inductive invariant.
LEMMA CloseResumePreserves ==
    ASSUME AppendInv, CloseResume
    PROVE  AppendInv'
<1> USE DEF AppendInv
<1>1. TypeOK'
  BY DEF TypeOK, FutState, TaskState, CloserState, CloseResume, FailQueued,
     Settle, memVars, pgVars
<1>2. NewIsNowhere'
  BY DEF TypeOK, NewIsNowhere, CloseResume, FailQueued, Settle, memVars,
     pgVars
<1>3. OnePlace'
  BY DEF TypeOK, OnePlace, Claimed, CloseResume, FailQueued, Settle, memVars,
     pgVars
<1>4. UnstoredYet'
  BY DEF TypeOK, UnstoredYet, CloseResume, FailQueued, Settle, memVars,
     pgVars
<1>5. PublishAfterDurable'
  BY DEF TypeOK, PublishAfterDurable, CloseResume, FailQueued, Settle,
     memVars, pgVars
<1>6. WaiterAccounted'
  BY DEF TypeOK, WaiterAccounted, Claimed, CloseResume, FailQueued, Settle,
     memVars, pgVars
<1>7. CloserKnowsWriters'
  BY DEF TypeOK, CloserKnowsWriters, writers, CloseResume, FailQueued,
     Settle, memVars, pgVars
<1>8. (DiskUnderTable /\ CommittedIsStored /\ SingleInsert)'
  BY DEF DiskUnderTable, CommittedIsStored, SingleInsert, CloseResume,
     memVars, pgVars
<1> QED BY <1>1, <1>2, <1>3, <1>4, <1>5, <1>6, <1>7, <1>8

\* The end of close() preserves the inductive invariant.
LEMMA PoolClosedPreserves ==
    ASSUME AppendInv, PoolClosed
    PROVE  AppendInv'
<1> USE DEF AppendInv
<1>1. TypeOK'
  BY DEF TypeOK, FutState, TaskState, CloserState, PoolClosed, memVars,
     pgVars
<1>2. CloserKnowsWriters'
  BY DEF TypeOK, CloserKnowsWriters, writers, PoolClosed, memVars, pgVars
<1>3. (NewIsNowhere /\ OnePlace /\ UnstoredYet /\ DiskUnderTable /\
       CommittedIsStored /\ SingleInsert /\ PublishAfterDurable /\
       WaiterAccounted)'
  BY DEF NewIsNowhere, OnePlace, UnstoredYet, DiskUnderTable,
     CommittedIsStored, SingleInsert, PublishAfterDurable, WaiterAccounted,
     Claimed, PoolClosed, memVars, pgVars
<1> QED BY <1>1, <1>2, <1>3

\* A crash of the broker preserves the inductive invariant.
LEMMA BrokerRestartPreserves ==
    ASSUME AppendInv, BrokerRestart
    PROVE  AppendInv'
<1> USE DEF AppendInv
<1>1. TypeOK'
  BY DEF TypeOK, FutState, TaskState, CloserState, BrokerRestart, Settle,
     memVars, pgVars
<1>2. NewIsNowhere'
  BY DEF TypeOK, NewIsNowhere, BrokerRestart, Settle, memVars, pgVars
<1>3. OnePlace'
  BY DEF TypeOK, OnePlace, Claimed, BrokerRestart, Settle, memVars, pgVars
<1>4. UnstoredYet'
  BY DEF TypeOK, UnstoredYet, BrokerRestart, Settle, memVars, pgVars
<1>5. CommittedIsStored'
  BY DEF TypeOK, CommittedIsStored, BrokerRestart, Settle, memVars, pgVars
<1>6. PublishAfterDurable'
  BY DEF TypeOK, PublishAfterDurable, BrokerRestart, Settle, memVars, pgVars
<1>7. WaiterAccounted'
  BY DEF TypeOK, WaiterAccounted, Claimed, BrokerRestart, Settle, memVars,
     pgVars
<1>8. CloserKnowsWriters'
  BY DEF TypeOK, CloserKnowsWriters, writers, BrokerRestart, Settle, memVars,
     pgVars
<1>9. (DiskUnderTable /\ SingleInsert)'
  BY DEF DiskUnderTable, SingleInsert, BrokerRestart, memVars, pgVars
<1> QED BY <1>1, <1>2, <1>3, <1>4, <1>5, <1>6, <1>7, <1>8, <1>9

\* A late commit preserves the inductive invariant.
LEMMA OrphanCommitPreserves ==
    ASSUME AppendInv, NEW S \in orphans, OrphanCommit(S)
    PROVE  AppendInv'
<1> USE DEF AppendInv
<1>1. TypeOK'
  BY SyncCommitAssumption DEF TypeOK, FutState, TaskState, CloserState,
     OrphanCommit, CommitRows, memVars, pgVars
<1>2. NewIsNowhere'
  BY DEF TypeOK, NewIsNowhere, OrphanCommit, CommitRows, memVars, pgVars
<1>3. OnePlace'
  BY DEF TypeOK, OnePlace, Claimed, OrphanCommit, CommitRows, memVars, pgVars
<1>4. UnstoredYet'
  BY DEF TypeOK, UnstoredYet, OnePlace, OrphanCommit, CommitRows, memVars,
     pgVars
<1>5. DiskUnderTable'
  BY DEF TypeOK, DiskUnderTable, OrphanCommit, CommitRows, memVars, pgVars
<1>6. CommittedIsStored'
  BY DEF TypeOK, CommittedIsStored, OrphanCommit, CommitRows, memVars, pgVars
<1>7. SingleInsert'
  BY DEF TypeOK, SingleInsert, UnstoredYet, OrphanCommit, CommitRows,
     memVars, pgVars
<1>8. PublishAfterDurable'
  BY DEF TypeOK, PublishAfterDurable, DiskUnderTable, OrphanCommit,
     CommitRows, memVars, pgVars
<1>9. (WaiterAccounted /\ CloserKnowsWriters)'
  BY DEF WaiterAccounted, CloserKnowsWriters, Claimed, writers, OrphanCommit,
     memVars, pgVars
<1> QED BY <1>1, <1>2, <1>3, <1>4, <1>5, <1>6, <1>7, <1>8, <1>9

\* A late abort preserves the inductive invariant.
LEMMA OrphanAbortPreserves ==
    ASSUME AppendInv, NEW S \in orphans, OrphanAbort(S)
    PROVE  AppendInv'
<1> USE DEF AppendInv
<1>1. TypeOK'
  BY DEF TypeOK, FutState, TaskState, CloserState, OrphanAbort, memVars,
     pgVars
<1>2. NewIsNowhere'
  BY DEF TypeOK, NewIsNowhere, OrphanAbort, memVars, pgVars
<1>3. OnePlace'
  BY DEF TypeOK, OnePlace, Claimed, OrphanAbort, memVars, pgVars
<1>4. UnstoredYet'
  BY DEF TypeOK, UnstoredYet, OrphanAbort, memVars, pgVars
<1>5. (DiskUnderTable /\ CommittedIsStored /\ SingleInsert /\
       PublishAfterDurable /\ WaiterAccounted /\ CloserKnowsWriters)'
  BY DEF DiskUnderTable, CommittedIsStored, SingleInsert,
     PublishAfterDurable, WaiterAccounted, CloserKnowsWriters, Claimed,
     writers, OrphanAbort, memVars, pgVars
<1> QED BY <1>1, <1>2, <1>3, <1>4, <1>5

\* A crash of Postgres preserves the inductive invariant: rows are lost, none is
\* added, and none is lost if commits wait.
LEMMA PgRestartPreserves ==
    ASSUME AppendInv, PgRestart
    PROVE  AppendInv'
<1> USE DEF AppendInv
<1>0. /\ table' \in [Msgs -> Nat] /\ disk' = table'
      /\ \A m \in Msgs : disk[m] <= table'[m] /\ table'[m] <= table[m]
      /\ SyncCommit => table' = table
  BY DEF TypeOK, DiskUnderTable, PgRestart
<1> HIDE DEF PgRestart
<1>00. /\ UNCHANGED <<queue, fut, batch, closer, awaited>>
       /\ orphans' = {}
       /\ task' = [w \in Tasks |->
                    IF task[w] = "inserting" THEN "aborted" ELSE task[w]]
  BY DEF PgRestart
<1>1. TypeOK'
  BY <1>0, <1>00 DEF TypeOK, FutState, TaskState, CloserState
<1>2. NewIsNowhere'
  BY <1>0, <1>00 DEF TypeOK, NewIsNowhere
<1>3. OnePlace'
  BY <1>00 DEF TypeOK, OnePlace, Claimed
<1>4. UnstoredYet'
  BY <1>0, <1>00 DEF TypeOK, UnstoredYet
<1>5. DiskUnderTable'
  BY <1>0 DEF TypeOK, DiskUnderTable
<1>6. CommittedIsStored'
  BY <1>0, <1>00 DEF TypeOK, CommittedIsStored
<1>7. SingleInsert'
  BY <1>0 DEF TypeOK, SingleInsert
<1>8. WaiterAccounted'
  BY <1>00 DEF TypeOK, WaiterAccounted, Claimed
<1>9. CloserKnowsWriters'
  BY <1>00 DEF TypeOK, CloserKnowsWriters, writers
<1>10. PublishAfterDurable'
  BY <1>0, <1>00 DEF TypeOK, PublishAfterDurable, DiskUnderTable
<1> QED BY <1>1, <1>2, <1>3, <1>4, <1>5, <1>6, <1>7, <1>8, <1>9, <1>10

-----------------------------------------------------------------------------
\* Every step of the system preserves the inductive invariant.
LEMMA StepPreserves == AppendInv /\ [Next]_vars => AppendInv'
<1> SUFFICES ASSUME AppendInv, [Next]_vars PROVE AppendInv'
  OBVIOUS
<1>1. CASE UNCHANGED vars
  BY <1>1 DEF vars, AppendInv, TypeOK, NewIsNowhere, OnePlace, UnstoredYet,
     DiskUnderTable, CommittedIsStored, SingleInsert, PublishAfterDurable,
     WaiterAccounted, CloserKnowsWriters, Claimed, writers
<1>2. ASSUME NEW m \in Msgs, AppendCall(m) PROVE AppendInv'
  BY <1>2, AppendCallPreserves
<1>3. ASSUME NEW m \in Msgs, CancelWaiter(m) PROVE AppendInv'
  BY <1>3, CancelWaiterPreserves
<1>4. ASSUME NEW w \in Tasks, RunWorker(w) PROVE AppendInv'
  BY <1>4, RunWorkerPreserves
<1>5. ASSUME NEW w \in Tasks, Acquire(w) PROVE AppendInv'
  BY <1>5, AcquirePreserves
<1>6. ASSUME NEW w \in Tasks, ServerCommit(w) PROVE AppendInv'
  BY <1>6, ServerCommitPreserves
<1>7. ASSUME NEW w \in Tasks, RelaySuccess(w) PROVE AppendInv'
  BY <1>7, RelaySuccessPreserves
<1>8. ASSUME NEW w \in Tasks, RelayFailure(w) PROVE AppendInv'
  BY <1>8, RelayFailurePreserves
<1>9. ASSUME NEW w \in Tasks, Discard(w) PROVE AppendInv'
  BY <1>9, DiscardPreserves
<1>10. ASSUME NEW w \in Tasks, CancelSpawned(w) PROVE AppendInv'
  BY <1>10, CancelSpawnedPreserves
<1>11. CASE CloseCall
  BY <1>11, CloseCallPreserves
<1>12. CASE CloseResume
  BY <1>12, CloseResumePreserves
<1>13. CASE PoolClosed
  BY <1>13, PoolClosedPreserves
<1>14. CASE BrokerRestart
  BY <1>14, BrokerRestartPreserves
<1>15. ASSUME NEW S \in orphans, OrphanCommit(S) PROVE AppendInv'
  BY <1>15, OrphanCommitPreserves
<1>16. ASSUME NEW S \in orphans, OrphanAbort(S) PROVE AppendInv'
  BY <1>16, OrphanAbortPreserves
<1>17. CASE PgRestart
  BY <1>17, PgRestartPreserves
<1> QED BY <1>1, <1>2, <1>3, <1>4, <1>5, <1>6, <1>7, <1>8, <1>9, <1>10,
       <1>11, <1>12, <1>13, <1>14, <1>15, <1>16, <1>17 DEF Next,
       WorkerStep

\* AppendInv holds in every reachable state.
THEOREM AppendInvariant == Spec => []AppendInv
<1>1. QED BY InitInv, StepPreserves, PTL DEF Spec

\* Every variable keeps its type.
THEOREM TypeCorrect == Spec => []TypeOK
<1>1. AppendInv => TypeOK
  BY DEF AppendInv
<1>2. QED BY <1>1, AppendInvariant, PTL

\* No interleaving of committers, failures, cancellations, crashes and late
\* commits stores a message twice.
THEOREM NoDuplicateRow == Spec => []SingleInsert
<1>1. AppendInv => SingleInsert
  BY DEF AppendInv
<1>2. QED BY <1>1, AppendInvariant, PTL

\* With synchronous commit a message whose append() returned survives every
\* crash.
THEOREM Durability == Spec => []PublishAfterDurable
<1>1. AppendInv => PublishAfterDurable
  BY DEF AppendInv
<1>2. QED BY <1>1, AppendInvariant, PTL

\* A waiting publisher's row is queued or claimed: no committer loses it.
THEOREM NoWaiterLost == Spec => []WaiterAccounted
<1>1. AppendInv => WaiterAccounted
  BY DEF AppendInv
<1>2. QED BY <1>1, AppendInvariant, PTL

-----------------------------------------------------------------------------
(* The cap on committers *)

\* No action but append() adds to self._writers.
LEMMA WritersShrink ==
    ASSUME TypeOK, [Next]_vars, \A m \in Msgs : ~AppendCall(m)
    PROVE  writers' \subseteq writers
<1> SUFFICES ASSUME NEW v \in Tasks, task[v] = "absent"
             PROVE  task'[v] = "absent"
  BY DEF writers
<1> USE DEF TypeOK, memVars
<1>1. CASE UNCHANGED task
  BY <1>1
<1>2. ASSUME NEW w \in Tasks, WorkerStep(w) PROVE task'[v] = "absent"
  BY <1>2 DEF WorkerStep, RunWorker, LoopHead, Acquire, ServerCommit,
     RelaySuccess, RelayFailure, Claimed
<1>3. ASSUME NEW w \in Tasks, Discard(w) \/ CancelSpawned(w)
      PROVE  task'[v] = "absent"
  BY <1>3 DEF Discard, CancelSpawned
<1>4. CASE BrokerRestart \/ PgRestart
  BY <1>4 DEF BrokerRestart, PgRestart
<1>5. UNCHANGED task \/ BrokerRestart \/ PgRestart
      \/ \E w \in Tasks : WorkerStep(w) \/ Discard(w) \/ CancelSpawned(w)
  BY DEF vars, Next, CancelWaiter, CloseCall, CloseResume, PoolClosed,
     OrphanCommit, OrphanAbort
<1> QED BY <1>1, <1>2, <1>3, <1>4, <1>5

\* self._writers is finite, at first empty.
LEMMA WritersFinite == IsFiniteSet(writers)
  BY TasksAssumption, FS_Subset DEF writers

\* self._writers never grows beyond _MAX_WRITERS.
THEOREM CapRespected == Spec => []WriterCap
<1>1. Init => WriterCap
  <2>1. Init => writers = {}
    BY DEF Init, writers
  <2>2. QED BY <2>1, FS_EmptySet, MaxWritersAssumption DEF WriterCap
<1>2. TypeOK /\ WriterCap /\ [Next]_vars => WriterCap'
  <2> SUFFICES ASSUME TypeOK, WriterCap, [Next]_vars PROVE WriterCap'
    OBVIOUS
  <2>1. ASSUME NEW m \in Msgs, AppendCall(m), MaySpawn PROVE WriterCap'
    <3>1. PICK w \in Tasks \ writers : task' = [task EXCEPT ![w] = "spawned"]
      BY <2>1 DEF AppendCall
    <3>2. writers' = writers \cup {w}
      BY <3>1 DEF writers, TypeOK
    <3>3. Cardinality(writers') = Cardinality(writers) + 1
      BY <3>1, <3>2, WritersFinite, FS_AddElement
    <3>4. Cardinality(writers) \in Nat
      BY WritersFinite, FS_CardinalityType
    <3> QED BY <2>1, <3>3, <3>4, MaxWritersAssumption DEF MaySpawn, WriterCap
  <2>2. ASSUME NEW m \in Msgs, AppendCall(m), ~MaySpawn PROVE WriterCap'
    BY <2>2 DEF AppendCall, WriterCap, writers
  <2>3. CASE \A m \in Msgs : ~AppendCall(m)
    <3>1. writers' \subseteq writers
      BY <2>3, WritersShrink
    <3>2. /\ Cardinality(writers') <= Cardinality(writers)
          /\ Cardinality(writers') \in Nat
          /\ Cardinality(writers) \in Nat
      BY <3>1, WritersFinite, FS_Subset, FS_CardinalityType
    <3> QED BY <3>2, MaxWritersAssumption DEF WriterCap
  <2> QED BY <2>1, <2>2, <2>3
<1>3. QED BY <1>1, <1>2, TypeCorrect, PTL DEF Spec

-----------------------------------------------------------------------------
(* close() *)

\* When close() stops waiting for committers, none of them is running, so by
\* WaiterAccounted everything unresolved is in the queue it fails.
THEOREM CloseIsClean == Spec => CloseLeavesNothing
<1> DEFINE Closing == closer' = "poolClosing" /\ closer # "poolClosing"
<1> DEFINE Clean == /\ \A m \in Msgs : fut'[m] # "pending"
                    /\ \A w \in Tasks : task'[w] \in {"absent", "finished"}
<1>1. AppendInv /\ [Next]_vars => (Closing => Clean)
  <2> SUFFICES ASSUME AppendInv, Next, Closing PROVE Clean
    BY DEF vars
  <2>1. CloseCall \/ CloseResume
    BY DEF Next, WorkerStep, AppendCall, CancelWaiter, RunWorker, Acquire,
       ServerCommit, RelaySuccess, RelayFailure, Discard, CancelSpawned,
       PoolClosed, BrokerRestart, OrphanCommit, OrphanAbort,
       PgRestart, memVars
  <2>2. FailQueued /\ UNCHANGED <<task, batch>>
    BY <2>1 DEF CloseCall, CloseResume, pgVars
  <2>3. \A w \in Tasks : ~Running(w)
    BY <2>1 DEF CloseCall, CloseResume, AppendInv, CloserKnowsWriters,
       writers, Running
  <2>4. \A m \in Msgs : fut[m] = "pending" => m \in queue
    BY <2>3 DEF AppendInv, WaiterAccounted, Claimed, Running
  <2>5. \A m \in Msgs : fut'[m] # "pending"
    BY <2>2, <2>4 DEF FailQueued, Settle
  <2> QED BY <2>2, <2>3, <2>5 DEF Running
<1>2. QED BY <1>1, AppendInvariant, PTL DEF Spec, CloseLeavesNothing

-----------------------------------------------------------------------------
(* Refinement *)

\* The messages whose futures the step settles.
Settled(outcome) == {m \in Msgs : fut[m] = "pending" /\ fut'[m] = outcome}

\* Resolving waiters is Confirm of DurableLog if what is resolved is stored,
\* relaying errors to them is Reject.
LEMMA SettleMaps ==
    ASSUME TypeOK, NEW S \in SUBSET Msgs, NEW o \in FutState \ {"none", "pending"},
           fut' = Settle(S, o), UNCHANGED table,
           o = "ok" => S \subseteq Stored
    PROVE  Log!LogNext
<1> DEFINE D == Settled(o)
<1>1. D \in SUBSET Msgs /\ \A m \in D : Publisher[m] = "pending"
  BY DEF Settled, Publisher
<1>2. UNCHANGED Stored
  BY DEF Stored
<1>3. CASE o = "ok"
  <2>1. D \subseteq Stored
    BY <1>3 DEF Settled, Settle, TypeOK
  <2>2. Publisher' = [m \in Msgs |-> IF m \in D THEN "ok" ELSE Publisher[m]]
    BY <1>3 DEF Publisher, Settled, Settle, TypeOK, FutState
  <2> QED BY <1>1, <1>2, <2>1, <2>2 DEF Log!LogNext, Log!Confirm
<1>4. CASE o # "ok"
  <2>1. Publisher' = [m \in Msgs |-> IF m \in D THEN "error" ELSE Publisher[m]]
    BY <1>4 DEF Publisher, Settled, Settle, TypeOK, FutState
  <2> QED BY <1>1, <1>2, <2>1 DEF Log!LogNext, Log!Reject
<1> QED BY <1>3, <1>4

\* A commit of submitted messages is Persist of DurableLog.
LEMMA CommitMaps ==
    ASSUME TypeOK, NEW S \in SUBSET Msgs, CommitRows(S), UNCHANGED fut,
           \A m \in S : fut[m] # "none"
    PROVE  Log!LogNext
<1>1. Stored' = Stored \cup S /\ UNCHANGED Publisher
  BY DEF CommitRows, Stored, Publisher, TypeOK
<1>2. \A m \in S : Publisher[m] # "none"
  BY DEF Publisher
<1> QED BY <1>1, <1>2 DEF Log!LogNext, Log!Persist

\* Every step of the append path maps to a step of DurableLog or to none.
LEMMA LogStep ==
    ASSUME SyncCommit, AppendInv, [Next]_vars
    PROVE  [Log!LogNext]_(Log!logVars)
<1> USE DEF AppendInv
<1>1. CASE UNCHANGED <<fut, table>>
  BY <1>1 DEF Log!logVars, Publisher, Stored
<1>2. ASSUME NEW m \in Msgs, AppendCall(m) PROVE Log!LogNext
  <2>1. Publisher[m] = "none" /\ UNCHANGED Stored
    BY <1>2 DEF AppendCall, Publisher, Stored, pgVars
  <2>2. Publisher' = [Publisher EXCEPT ![m] = "pending"]
    BY <1>2 DEF AppendCall, Publisher, TypeOK
  <2> QED BY <2>1, <2>2 DEF Log!LogNext, Log!Submit
<1>3. ASSUME NEW m \in Msgs, CancelWaiter(m) PROVE Log!LogNext
  <2>1. fut' = Settle({m}, "cancelled") /\ UNCHANGED table
    BY <1>3 DEF CancelWaiter, Settle, TypeOK, pgVars
  <2> QED BY <2>1, SettleMaps DEF FutState
<1>4. ASSUME NEW w \in Tasks, ServerCommit(w) PROVE Log!LogNext
  <2>1. batch[w] \in SUBSET Msgs /\ \A m \in batch[w] : fut[m] # "none"
    BY DEF TypeOK, NewIsNowhere
  <2> QED BY <1>4, <2>1, CommitMaps DEF ServerCommit
<1>5. ASSUME NEW w \in Tasks, RelaySuccess(w) PROVE Log!LogNext
  <2>1. batch[w] \in SUBSET Msgs /\ batch[w] \subseteq Stored
    BY <1>5 DEF RelaySuccess, TypeOK, CommittedIsStored, Stored
  <2> QED BY <1>5, <2>1, SettleMaps DEF RelaySuccess, FutState, pgVars
<1>6. ASSUME NEW w \in Tasks, RelayFailure(w) PROVE Log!LogNext
  <2>1. batch[w] \in SUBSET Msgs
    BY DEF TypeOK
  <2> QED BY <1>6, <2>1, SettleMaps DEF RelayFailure, FutState
<1>7. CASE (CloseCall \/ CloseResume) /\ fut' # fut
  <2>1. fut' = Settle(queue, "failed") /\ UNCHANGED table
    BY <1>7 DEF CloseCall, CloseResume, FailQueued, pgVars
  <2> QED BY <2>1, SettleMaps DEF FutState, TypeOK
<1>8. CASE BrokerRestart
  <2>1. fut' = Settle(Msgs, "lost") /\ UNCHANGED table
    BY <1>8 DEF BrokerRestart
  <2> QED BY <2>1, SettleMaps DEF FutState
<1>9. ASSUME NEW S \in orphans, OrphanCommit(S) PROVE Log!LogNext
  <2>1. S \in SUBSET Msgs /\ \A m \in S : fut[m] # "none"
    BY DEF TypeOK, NewIsNowhere
  <2> QED BY <1>9, <2>1, CommitMaps DEF OrphanCommit, memVars
<1>10. CASE PgRestart
  <2>1. table' = table
    BY <1>10 DEF PgRestart, TypeOK, DiskUnderTable
  <2> QED BY <1>1, <1>10, <2>1 DEF PgRestart
<1>11. CASE \/ \E w \in Tasks : \/ RunWorker(w) \/ Acquire(w) \/ Discard(w)
                                \/ CancelSpawned(w)
            \/ \E S \in orphans : OrphanAbort(S)
            \/ PoolClosed
            \/ UNCHANGED vars
  BY <1>1, <1>11 DEF RunWorker, Acquire, Discard, CancelSpawned, OrphanAbort,
     PoolClosed, vars, memVars, pgVars
<1>12. (CloseCall \/ CloseResume) /\ fut' = fut => UNCHANGED <<fut, table>>
  BY DEF CloseCall, CloseResume, pgVars
<1> QED BY <1>1, <1>2, <1>3, <1>4, <1>5, <1>6, <1>7, <1>8, <1>9, <1>10,
           <1>11, <1>12 DEF Next, WorkerStep

\* With synchronous commit the backend implements DurableLog: what append()
\* tells its callers is true of a store that forgets nothing.
THEOREM Refinement == ASSUME SyncCommit PROVE Spec => ImplementsDurableLog
<1>1. Init => Log!LogInit
  BY DEF Init, Log!LogInit, Publisher, Stored
<1>2. AppendInv /\ [Next]_vars => [Log!LogNext]_(Log!logVars)
  BY LogStep
<1>3. QED BY <1>1, <1>2, AppendInvariant, PTL
      DEF Spec, ImplementsDurableLog, Log!LogSpec

=============================================================================
