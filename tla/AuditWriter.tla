---------------------------- MODULE AuditWriter -----------------------------
(***************************************************************************)
(* The audit writer of src/db/writer.rs: log tasks put records into a      *)
(* bounded queue, one writer task batches them into transactions, and a    *)
(* control channel flushes, seals (for rotation), resumes, resets and      *)
(* shuts it down.                                                          *)
(*                                                                         *)
(* Every await of the writer task is a step boundary: the receive of the   *)
(* select loop, each attempt to commit a batch, the WAL checkpoint and the *)
(* delete of a reset.  try_recv is a step per item, since senders push     *)
(* concurrently.  The callers of the control channel are the ones the      *)
(* program has: the rotation (one at a time, under db_rotation_lock), the  *)
(* test API, and main at shutdown.                                         *)
(***************************************************************************)
EXTENDS Integers, Sequences, FiniteSets

CONSTANTS MaxRecords,     \* bound: how many records are logged
          Stores,         \* database files the writer may be given
          FirstStore,     \* the one it starts with
          NoStore,        \* store = None: the writer is sealed
          BatchSize,      \* cfg.batch_size
          QueueCapacity,  \* cfg.queue_capacity
          MaxRetries      \* the 3 of flush_with_retry

ASSUME StoreAssumption == FirstStore \in Stores /\ NoStore \notin Stores
ASSUME SizeAssumption == /\ BatchSize \in Nat \ {0}
                         /\ QueueCapacity \in Nat \ {0}
                         /\ MaxRetries \in Nat
ASSUME MaxRecordsAssumption == MaxRecords \in Nat

(* Audit records, numbered in the order in which their tasks offer them. *)
Items == 1..MaxRecords

Callers == {"rotation", "testapi", "main"}
Ops     == {"flush", "seal", "resume", "reset", "shutdown"}
Command == [from : Callers, op : Ops, store : Stores \cup {NoStore}]

(* The writer serves its timer or a full batch: no caller waits. *)
NoJob == [from |-> "main", op |-> "none", store |-> NoStore]

VARIABLES
    waiting,   \* records whose task waits for room in the channel
    queue,     \* the data channel
    batch,     \* the writer's batch
    timer,     \* batch_start is set
    store,     \* the writer's current store
    nextId,    \* next_id_value
    disk,      \* committed rows of each store: id |-> item
    txOpen,    \* a store's write connection is still inside a transaction
    pc,        \* where the writer task waits
    job,       \* the command being served
    attempt,   \* retries of the current batch
    ctrl,      \* the control channel
    caller,    \* what each caller of the control channel is doing, and
               \* what was pending when it called
    opened,    \* the stores init_db opened, the last one app_state.db
    enqueued, flushed, dropped,  \* WriterStats
    discarded  \* history: records a reset or the exit threw away

stats == <<enqueued, flushed, dropped, discarded>>
work  == <<queue, batch, timer>>
data  == <<store, nextId, disk, txOpen>>
vars  == <<waiting, work, data, pc, job, attempt, ctrl, caller, opened, stats>>

Pending == batch \o queue
Elems(s) == {s[i] : i \in DOMAIN s}

At(place) == [at |-> place, owed |-> {}]

Init ==
    /\ waiting = {}
    /\ queue = <<>> /\ batch = <<>> /\ timer = FALSE
    /\ store = FirstStore /\ nextId = 1
    /\ disk = [s \in Stores |-> <<>>]
    /\ txOpen = [s \in Stores |-> FALSE]
    /\ pc = "select" /\ job = NoJob /\ attempt = 0
    /\ ctrl = <<>>
    /\ caller = [c \in Callers |-> At("idle")]
    /\ opened = <<FirstStore>>
    /\ enqueued = 0 /\ flushed = 0 /\ dropped = 0 /\ discarded = 0

-----------------------------------------------------------------------------
(* The log tasks: enqueue.                                                 *)

Running == pc # "exited"

(* try_send succeeds when a permit is left after those that tokio hands to *)
(* the senders already waiting.                                            *)
HasRoom == Len(queue) + Cardinality(waiting) < QueueCapacity

TrySend ==
    /\ enqueued < MaxRecords
    /\ Running
    /\ HasRoom
    /\ enqueued' = enqueued + 1
    /\ queue' = Append(queue, enqueued + 1)
    /\ UNCHANGED <<waiting, batch, timer, data, pc, job, attempt, ctrl, caller,
                   opened, flushed, dropped, discarded>>

TrySendFull ==
    /\ enqueued < MaxRecords
    /\ Running
    /\ ~HasRoom
    /\ enqueued' = enqueued + 1
    /\ waiting' = waiting \cup {enqueued + 1}
    /\ UNCHANGED <<work, data, pc, job, attempt, ctrl, caller, opened, flushed,
                   dropped, discarded>>

TrySendClosed ==
    /\ enqueued < MaxRecords
    /\ ~Running
    /\ enqueued' = enqueued + 1
    /\ dropped' = dropped + 1
    /\ UNCHANGED <<waiting, work, data, pc, job, attempt, ctrl, caller, opened,
                   flushed, discarded>>

SendWaiting(i) ==
    /\ i \in waiting
    /\ Running
    /\ Len(queue) < QueueCapacity
    /\ waiting' = waiting \ {i}
    /\ queue' = Append(queue, i)
    /\ UNCHANGED <<batch, timer, data, pc, job, attempt, ctrl, caller, opened,
                   stats>>

(* The enqueue timeout runs out, or the writer is gone. *)
SendFails(i) ==
    /\ i \in waiting
    /\ waiting' = waiting \ {i}
    /\ dropped' = dropped + 1
    /\ UNCHANGED <<work, data, pc, job, attempt, ctrl, caller, opened, enqueued,
                   flushed, discarded>>

-----------------------------------------------------------------------------
(* The callers of the control channel.                                     *)

(* A command is sent, unless the task has ended: then the call just fails. *)
Send(c, op, target) ==
    /\ Running
    /\ caller' = [caller EXCEPT ![c] =
                    [at |-> "waiting",
                     owed |-> IF op \in {"resume", "reset"} THEN {}
                                                           ELSE Elems(Pending)]]
    /\ ctrl' = Append(ctrl, [from |-> c, op |-> op, store |-> target])
    /\ UNCHANGED <<waiting, work, data, pc, job, attempt, stats>>

(* rotate_locked: seal, then resume the old store when the rename failed   *)
(* or a new one when init_db created it; when init_db fails it just stops. *)
Rotate ==
    /\ caller["rotation"].at = "idle"
    /\ Send("rotation", "seal", NoStore)
    /\ UNCHANGED opened

ResumeOld ==
    /\ caller["rotation"].at = "sealed"
    /\ Send("rotation", "resume", opened[Len(opened)])
    /\ UNCHANGED opened

ResumeNew(s) ==
    /\ caller["rotation"].at = "sealed"
    /\ s \notin Elems(opened)
    /\ opened' = Append(opened, s)
    /\ Send("rotation", "resume", s)

AbandonRotation ==
    /\ caller["rotation"].at = "sealed"
    /\ caller' = [caller EXCEPT !["rotation"] = At("idle")]
    /\ UNCHANGED <<waiting, work, data, pc, job, attempt, ctrl, opened,
                   stats>>

TestApi ==
    /\ caller["testapi"].at = "idle"
    /\ \E op \in {"flush", "reset"} : Send("testapi", op, NoStore)
    /\ UNCHANGED opened

Shutdown ==
    /\ caller["main"].at = "idle"
    /\ Send("main", "shutdown", NoStore)
    /\ UNCHANGED opened
-----------------------------------------------------------------------------
(* The writer task.                                                        *)

Selecting == pc = "select" /\ store # NoStore

(* A caller gets its answer; the rotation takes the writer to be sealed.   *)
Answered(cmd, result) ==
    IF cmd.op = "none" THEN caller
    ELSE [caller EXCEPT ![cmd.from] =
            At(IF cmd.op = "seal" /\ result = "ok" THEN "sealed" ELSE "idle")]

(* The command, timer or batch is dealt with; batch_start = None. *)
Finish(result) ==
    /\ pc' = "select"
    /\ caller' = Answered(job, result)
    /\ job' = NoJob
    /\ attempt' = 0
    /\ timer' = FALSE

Goto(place) ==
    /\ pc' = place
    /\ attempt' = 0
    /\ UNCHANGED <<caller, job, timer>>

(* data_rx.recv() *)
Receive ==
    /\ Selecting
    /\ queue # <<>>
    /\ batch' = Append(batch, Head(queue))
    /\ queue' = Tail(queue)
    /\ timer' = (timer \/ batch = <<>>)
    /\ pc' = IF Len(batch') >= BatchSize THEN "flush" ELSE "select"
    /\ UNCHANGED <<waiting, data, job, attempt, ctrl, caller, opened,
                   stats>>

(* A bug: the timer only flushes full batches. *)
TimerFiresWhenFull ==
    /\ Selecting
    /\ timer
    /\ Len(batch) >= BatchSize
    /\ pc' = "flush"
    /\ UNCHANGED <<waiting, work, data, job, attempt, ctrl, caller, opened,
                   stats>>

(* flush_interval after the first item of the batch *)
TimerFires ==
    /\ Selecting
    /\ timer
    /\ pc' = "flush"
    /\ UNCHANGED <<waiting, work, data, job, attempt, ctrl, caller, opened,
                   stats>>

(* ctrl_rx.recv(): Flush, Seal and Shutdown drain first, Reset discards *)
TakeCommand ==
    /\ Selecting
    /\ ctrl # <<>>
    /\ Head(ctrl).op # "resume"
    /\ job' = Head(ctrl)
    /\ ctrl' = Tail(ctrl)
    /\ pc' = IF Head(ctrl).op = "reset" THEN "discard" ELSE "drain"
    /\ UNCHANGED <<waiting, work, data, attempt, caller, opened, stats>>

(* Resume is served alike by a sealed and by an active writer; next_id     *)
(* reads the new store and may fail, which leaves the writer as it was.    *)
FirstFreeId(s) ==
    IF DOMAIN disk[s] = {} THEN 1
    ELSE 1 + CHOOSE id \in DOMAIN disk[s] : \A k \in DOMAIN disk[s] : k <= id

TakeResume ==
    /\ pc = "select"
    /\ ctrl # <<>>
    /\ Head(ctrl).op = "resume"
    /\ \/ /\ store' = Head(ctrl).store
          /\ nextId' = FirstFreeId(Head(ctrl).store)
       \/ UNCHANGED <<store, nextId>>
    /\ caller' = Answered(Head(ctrl), "ok")
    /\ ctrl' = Tail(ctrl)
    /\ UNCHANGED <<waiting, work, disk, txOpen, pc, job, attempt, opened,
                   stats>>

(* The other commands while the writer is sealed: Seal is acknowledged     *)
(* again, Flush and Reset are refused, Shutdown ends the task.             *)
TakeSealed ==
    /\ pc = "select"
    /\ store = NoStore
    /\ ctrl # <<>>
    /\ Head(ctrl).op # "resume"
    /\ IF Head(ctrl).op = "shutdown"
       THEN pc' = "leaving" /\ job' = Head(ctrl) /\ UNCHANGED caller
       ELSE caller' = Answered(Head(ctrl), "ok") /\ UNCHANGED <<pc, job>>
    /\ ctrl' = Tail(ctrl)
    /\ UNCHANGED <<waiting, work, data, attempt, opened, stats>>

-----------------------------------------------------------------------------
(* drain_and_flush: fill the batch, flush it, go on while it was full.     *)

Drained(result) ==
    CASE job.op = "seal" /\ result = "ok" -> Goto("checkpoint")
      [] job.op = "shutdown"              -> Goto("leaving")
      [] OTHER                            -> Finish(result)

(* A bug: the drain puts the whole queue into one batch. *)
DrainOneMore ==
    /\ pc = "drain"
    /\ queue # <<>>
    /\ batch' = Append(batch, Head(queue))
    /\ queue' = Tail(queue)
    /\ UNCHANGED <<waiting, timer, data, pc, job, attempt, ctrl, caller, opened,
                   stats>>

DrainOne ==
    /\ pc = "drain"
    /\ Len(batch) < BatchSize
    /\ queue # <<>>
    /\ batch' = Append(batch, Head(queue))
    /\ queue' = Tail(queue)
    /\ UNCHANGED <<waiting, timer, data, pc, job, attempt, ctrl, caller, opened,
                   stats>>

DrainEnds ==
    /\ pc = "drain"
    /\ Len(batch) >= BatchSize \/ queue = <<>>
    /\ IF batch = <<>> THEN Drained("ok") ELSE Goto("flush")
    /\ UNCHANGED <<waiting, queue, batch, data, ctrl, opened, stats>>

(* A bug: the drain stops after its first batch. *)
ContinueNoFurther(result) ==
    IF job.op = "none" THEN Finish(result) ELSE Drained(result)

(* What follows the flush of a batch. *)
Continue(result) ==
    CASE job.op = "none"                                -> Finish(result)
      [] job.op # "none" /\ result = "ok"
                         /\ Len(batch) >= BatchSize     -> Goto("drain")
      [] OTHER                                          -> Drained(result)

BatchIds == nextId..(nextId + Len(batch) - 1)

(* A bug: the batch is not cleared after its commit. *)
CommitKeepsBatch ==
    /\ pc = "flush"
    /\ ~txOpen[store]
    /\ BatchIds \cap DOMAIN disk[store] = {}
    /\ disk' = [disk EXCEPT ![store] =
                  [id \in DOMAIN @ \cup BatchIds |->
                     IF id \in BatchIds THEN batch[id - nextId + 1] ELSE @[id]]]
    /\ nextId' = nextId + Len(batch)
    /\ flushed' = flushed + Len(batch)
    /\ Continue("ok")
    /\ UNCHANGED <<waiting, queue, batch, store, txOpen, ctrl, opened, enqueued,
                   dropped, discarded>>

(* One attempt of flush_with_retry: the transaction commits.  A primary    *)
(* key that exists and a transaction that was never closed both fail it.   *)
Commit ==
    /\ pc = "flush"
    /\ ~txOpen[store]
    /\ BatchIds \cap DOMAIN disk[store] = {}
    /\ disk' = [disk EXCEPT ![store] =
                  [id \in DOMAIN @ \cup BatchIds |->
                     IF id \in BatchIds THEN batch[id - nextId + 1] ELSE @[id]]]
    /\ nextId' = nextId + Len(batch)
    /\ flushed' = flushed + Len(batch)
    /\ batch' = <<>>
    /\ Continue("ok")
    /\ UNCHANGED <<waiting, queue, store, txOpen, ctrl, opened, enqueued,
                   dropped, discarded>>

(* A failed statement is rolled back, but execute_batch does not roll back *)
(* a failed COMMIT and ignores a failed ROLLBACK.                          *)
TransactionFails ==
    txOpen' \in {txOpen, [txOpen EXCEPT ![store] = TRUE]}

(* A retryable error; BEGIN inside an open transaction is not one. *)
Retry ==
    /\ pc = "flush"
    /\ ~txOpen[store]
    /\ attempt < MaxRetries
    /\ TransactionFails
    /\ attempt' = attempt + 1
    /\ UNCHANGED <<waiting, work, store, nextId, disk, pc, job, ctrl, caller, opened,
                   stats>>

(* A bug: a lost batch is not counted. *)
DropBatchUncounted ==
    /\ pc = "flush"
    /\ TransactionFails
    /\ batch' = <<>>
    /\ Continue("err")
    /\ UNCHANGED <<waiting, queue, store, nextId, disk, ctrl, opened, stats>>

(* Any other error, or no attempt left: the batch is lost. *)
DropBatch ==
    /\ pc = "flush"
    /\ TransactionFails
    /\ dropped' = dropped + Len(batch)
    /\ batch' = <<>>
    /\ Continue("err")
    /\ UNCHANGED <<waiting, queue, store, nextId, disk, ctrl, opened,
                   enqueued, flushed, discarded>>

(* A bug: Seal is acknowledged whatever the checkpoint said. *)
CheckpointIgnored ==
    /\ pc = "checkpoint"
    /\ \/ ~txOpen[store] /\ store' = NoStore
       \/ store' = store
    /\ Finish("ok")
    /\ UNCHANGED <<waiting, queue, batch, nextId, disk, txOpen, ctrl, opened,
                   stats>>

(* Seal: wal_checkpoint(TRUNCATE), then store = None. *)
Checkpoint ==
    /\ pc = "checkpoint"
    /\ \/ ~txOpen[store] /\ store' = NoStore /\ Finish("ok")
       \/ store' = store /\ Finish("err")
    /\ UNCHANGED <<waiting, queue, batch, nextId, disk, txOpen, ctrl, opened,
                   stats>>

-----------------------------------------------------------------------------
(* Reset: throw away what is queued and batched, then delete all rows.     *)

DiscardOne ==
    /\ pc = "discard"
    /\ queue # <<>>
    /\ queue' = Tail(queue)
    /\ discarded' = discarded + 1
    /\ UNCHANGED <<waiting, batch, timer, data, pc, job, attempt, ctrl, caller,
                   opened, enqueued, flushed, dropped>>

DiscardEnds ==
    /\ pc = "discard"
    /\ queue = <<>>
    /\ discarded' = discarded + Len(batch)
    /\ batch' = <<>>
    /\ timer' = FALSE
    /\ pc' = "wipe"
    /\ UNCHANGED <<waiting, queue, data, job, attempt, ctrl, caller, opened,
                   enqueued, flushed, dropped>>

(* A bug: the ids do not restart after a reset. *)
WipeKeepsId ==
    /\ pc = "wipe"
    /\ \/ /\ ~txOpen[store]
          /\ disk' = [disk EXCEPT ![store] = <<>>]
          /\ Finish("ok")
          /\ UNCHANGED txOpen
       \/ /\ TransactionFails
          /\ Finish("err")
          /\ UNCHANGED disk
    /\ UNCHANGED <<waiting, queue, batch, store, nextId, ctrl, opened, stats>>

Wipe ==
    /\ pc = "wipe"
    /\ \/ /\ ~txOpen[store]
          /\ disk' = [disk EXCEPT ![store] = <<>>]
          /\ nextId' = 1
          /\ Finish("ok")
          /\ UNCHANGED txOpen
       \/ /\ TransactionFails
          /\ Finish("err")
          /\ UNCHANGED <<disk, nextId>>
    /\ UNCHANGED <<waiting, queue, batch, store, ctrl, opened, stats>>

(* The task returns: its receivers are dropped, with what they still hold. *)
Exit ==
    /\ pc = "leaving"
    /\ pc' = "exited"
    /\ discarded' = discarded + Len(queue)
    /\ queue' = <<>>
    /\ caller' = [c \in Callers |->
                    IF c = job.from THEN At("done")
                    ELSE IF caller[c].at = "waiting" THEN At("idle")
                    ELSE caller[c]]
    /\ ctrl' = <<>>
    /\ job' = NoJob
    /\ UNCHANGED <<waiting, batch, timer, data, attempt, opened, enqueued,
                   flushed, dropped>>

-----------------------------------------------------------------------------
LogTasks == \/ TrySend
            \/ TrySendFull
            \/ TrySendClosed
            \/ \E i \in Items : SendWaiting(i) \/ SendFails(i)

Control == \/ Rotate
           \/ ResumeOld
           \/ \E s \in Stores : ResumeNew(s)
           \/ AbandonRotation
           \/ TestApi
           \/ Shutdown

Writer == \/ Receive \/ TimerFires
          \/ TakeCommand \/ TakeResume \/ TakeSealed
          \/ DrainOne \/ DrainEnds
          \/ Commit \/ Retry \/ DropBatch
          \/ Checkpoint
          \/ DiscardOne \/ DiscardEnds \/ Wipe
          \/ Exit

Next == \/ LogTasks
        \/ Control
        \/ Writer

(* The runtime polls the writer task whenever it can move: its timer is    *)
(* armed, a transaction returns (busy_timeout bounds it) and the channels  *)
(* wake it.  Log tasks and callers act when they please.                   *)
Fairness == WF_vars(Writer)

Spec == Init /\ [][Next]_vars /\ Fairness

-----------------------------------------------------------------------------
(* Types of the queue, the batch, the stores and the counters.             *)
TypeOK ==
    /\ waiting \in SUBSET Items
    /\ queue \in Seq(Items) /\ Len(queue) <= QueueCapacity
    /\ batch \in Seq(Items) /\ Len(batch) <= BatchSize
    /\ timer \in BOOLEAN
    /\ store \in Stores \cup {NoStore}
    /\ nextId \in Nat \ {0}
    /\ DOMAIN disk = Stores
    /\ \A s \in Stores : disk[s] \in [DOMAIN disk[s] -> Items]
    /\ txOpen \in [Stores -> BOOLEAN]
    /\ pc \in {"select", "drain", "flush", "checkpoint", "discard", "wipe",
               "leaving", "exited"}
    /\ job \in Command \cup {NoJob}
    /\ attempt \in 0..MaxRetries
    /\ ctrl \in Seq(Command)
    /\ caller \in [Callers -> [at : {"idle", "waiting", "sealed", "done"},
                               owed : SUBSET Items]]
    /\ opened \in Seq(Stores)
    /\ enqueued \in 0..MaxRecords /\ flushed \in Nat
    /\ dropped \in Nat /\ discarded \in Nat

(* Every record the log tasks ever offered is accounted for: it waits for  *)
(* room, is queued or batched, or was flushed, dropped or discarded, once. *)
(* Only the last is not in the writer's statistics.                        *)
Conservation ==
    enqueued = Cardinality(waiting) + Len(queue) + Len(batch)
               + flushed + dropped + discarded

(* The rows of every store have the ids 1 to n, also across retries, lost  *)
(* batches, resets and rotations, and the writer's next id follows those   *)
(* of its store: no batch can fail on a primary key.                       *)
IdsContiguous ==
    /\ \A s \in Stores : \E n \in 0..flushed : DOMAIN disk[s] = 1..n
    /\ store # NoStore => DOMAIN disk[store] = 1..(nextId - 1)

(* While the rotation renames the file, nothing is written or in flight.   *)
SealHolds ==
    caller["rotation"].at = "sealed" => store = NoStore /\ batch = <<>>

(* A batch that waits in the select loop has its timer armed, so that it   *)
(* is flushed after flush_interval and not after the idle hour.            *)
BatchIsTimed == pc = "select" /\ batch # <<>> => timer

(* A Flush or Seal is a barrier: when its caller is answered by a drain    *)
(* that lost no batch, nothing that was pending at the call still is.      *)
FlushIsBarrier ==
    [][\A c \in Callers :
          /\ job.from = c /\ job.op \in {"flush", "seal"}
          /\ caller[c].at = "waiting" /\ caller'[c].at # "waiting"
          /\ dropped' = dropped
          => caller[c].owed \cap Elems(Pending') = {}]_vars

(* Records do not stay in memory for good, unless the writer stays sealed: *)
(* once the tasks stop logging, all are flushed, dropped or discarded.     *)
MemoryEmpties ==
    []<>(store # NoStore \/ pc = "exited") => []<>(Pending = <<>>)

-----------------------------------------------------------------------------
(* The log of records the writer implements.  A reset throws away all that *)
(* is pending, and what is still sent while it empties the channel, at     *)
(* once.                                                                   *)
Unsettled == IF pc = "discard" THEN <<>> ELSE Pending

Log == INSTANCE AuditLog
          WITH pending <- Unsettled, rows <- disk, current <- store,
               closed <- pc = "exited"

ImplementsLog == Log!Spec

-----------------------------------------------------------------------------
(* "SIGTERM / Ctrl-C first flush the write queue" (WRITE_BATCHING.md:11):  *)
(* when the task leaves, nothing that was pending at the shutdown call is  *)
(* still queued.  The code breaks this; a run refutes it.                  *)
ShutdownFlushes ==
    pc = "leaving" => caller["main"].owed \cap Elems(queue) = {}
=============================================================================
