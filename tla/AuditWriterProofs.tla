------------------------- MODULE AuditWriterProofs --------------------------
(***************************************************************************)
(* Proofs about AuditWriter, for every number of records and stores, every *)
(* batch size, queue capacity and number of retries.                       *)
(***************************************************************************)
EXTENDS AuditWriter, FiniteSetTheorems, SequenceTheorems, TLAPS

(* A command whose caller, among the states who, waits for its answer.     *)
Outstanding(cmd, who) ==
    /\ cmd \in Command
    /\ who[cmd.from].at = "waiting"
    /\ cmd.op = "resume" => cmd.store \in Stores
    /\ cmd.op \in {"seal", "resume"} <=> cmd.from = "rotation"

(* Every caller has at most one command on its way or being served, and    *)
(* only the rotation seals and resumes.                                    *)
OneCommandEach ==
    /\ \A k \in 1..Len(ctrl) : Outstanding(ctrl[k], caller)
    /\ \A j, k \in 1..Len(ctrl) : ctrl[j].from = ctrl[k].from => j = k
    /\ job # NoJob => /\ Outstanding(job, caller)
                      /\ job.op # "resume"
                      /\ \A k \in 1..Len(ctrl) : ctrl[k].from # job.from

(* Where the writer task waits says which command it serves ...            *)
JobFitsPc ==
    /\ pc \in {"select", "exited"} => job = NoJob
    /\ pc = "drain" => job # NoJob
    /\ pc \in {"discard", "wipe"} => job.op = "reset"
    /\ pc = "checkpoint" => job.op = "seal"
    /\ pc = "leaving" => job.op = "shutdown"

(* ... that it has a store, and what its batch holds.                      *)
BatchFitsPc ==
    /\ pc \in {"drain", "flush", "checkpoint", "discard", "wipe"} =>
          store \in Stores
    /\ store = NoStore => batch = <<>>
    /\ pc = "select" => Len(batch) < BatchSize
    /\ pc \in {"checkpoint", "wipe", "leaving", "exited"} => batch = <<>>

(* The rotation always has a store to resume with.                         *)
StoreOpened == opened # <<>>

(* Waiting records were offered.                                           *)
WaitingOffered == IsFiniteSet(waiting) /\ \A i \in waiting : i <= enqueued

RotationSealed == caller["rotation"].at = "sealed" => store = NoStore

IInv == /\ TypeOK
        /\ StoreOpened
        /\ OneCommandEach
        /\ JobFitsPc
        /\ BatchFitsPc
        /\ BatchIsTimed
        /\ RotationSealed
        /\ WaitingOffered
        /\ Conservation
        /\ IdsContiguous

-----------------------------------------------------------------------------
(* Type correctness.                                                       *)

LEMMA NoJobIsNoCommand == NoJob \notin Command
  BY DEF NoJob, Command, Ops

LEMMA PendingElems ==
    ASSUME queue \in Seq(Items), batch \in Seq(Items)
    PROVE  Elems(Pending) \subseteq Items
  BY DEF Elems, Pending

(* Finish and Goto keep the types of what they change. *)
LEMMA FinishType ==
    ASSUME TypeOK, NEW result, Finish(result)
    PROVE  /\ pc' = "select" /\ job' = NoJob
           /\ attempt' \in 0..MaxRetries /\ timer' \in BOOLEAN
           /\ caller' \in [Callers -> [at : {"idle", "waiting", "sealed", "done"},
                                       owed : SUBSET Items]]
  <1>1. At(IF job.op = "seal" /\ result = "ok" THEN "sealed" ELSE "idle")
           \in [at : {"idle", "waiting", "sealed", "done"}, owed : SUBSET Items]
    BY DEF At
  <1>2. 0 \in 0..MaxRetries
    BY SizeAssumption
  <1> QED BY <1>1, <1>2 DEF Finish, Answered, TypeOK

LEMMA GotoType ==
    ASSUME TypeOK, NEW place, Goto(place)
    PROVE  /\ pc' = place /\ job' = job /\ caller' = caller /\ timer' = timer
           /\ attempt' \in 0..MaxRetries
  BY SizeAssumption DEF Goto

Pcs == {"select", "drain", "flush", "checkpoint", "discard", "wipe",
        "leaving", "exited"}

CallerStates == [at : {"idle", "waiting", "sealed", "done"},
                 owed : SUBSET Items]

(* The types of the variables that only control the writer task. *)
ControlType ==
    /\ timer \in BOOLEAN
    /\ pc \in Pcs
    /\ job \in Command \cup {NoJob}
    /\ attempt \in 0..MaxRetries
    /\ caller \in [Callers -> CallerStates]

LEMMA DrainedType ==
    ASSUME TypeOK, NEW result, Drained(result)
    PROVE  ControlType'
  <1>1. CASE Finish(result)
    BY <1>1, FinishType DEF ControlType, Pcs, CallerStates
  <1>2. ASSUME NEW place \in {"checkpoint", "leaving"}, Goto(place)
        PROVE  ControlType'
    BY <1>2, GotoType DEF ControlType, Pcs, CallerStates, TypeOK
  <1> QED BY <1>1, <1>2 DEF Drained

LEMMA ContinueType ==
    ASSUME TypeOK, NEW result, Continue(result)
    PROVE  ControlType'
  <1>1. CASE Finish(result)
    BY <1>1, FinishType DEF ControlType, Pcs, CallerStates
  <1>2. CASE Goto("drain")
    BY <1>2, GotoType DEF ControlType, Pcs, CallerStates, TypeOK
  <1>3. CASE Drained(result)
    BY <1>3, DrainedType
  <1> QED BY <1>1, <1>2, <1>3 DEF Continue

(* What the store's rows and the counters hold. *)
DataType ==
    /\ waiting \in SUBSET Items
    /\ queue \in Seq(Items) /\ Len(queue) <= QueueCapacity
    /\ batch \in Seq(Items) /\ Len(batch) <= BatchSize
    /\ store \in Stores \cup {NoStore}
    /\ nextId \in Nat \ {0}
    /\ DOMAIN disk = Stores
    /\ \A s \in Stores : disk[s] \in [DOMAIN disk[s] -> Items]
    /\ txOpen \in [Stores -> BOOLEAN]
    /\ ctrl \in Seq(Command)
    /\ opened \in Seq(Stores)
    /\ enqueued \in 0..MaxRecords /\ flushed \in Nat
    /\ dropped \in Nat /\ discarded \in Nat

LEMMA TypeSplit == TypeOK <=> DataType /\ ControlType
  BY DEF TypeOK, DataType, ControlType, Pcs, CallerStates

LEMMA TypeSplitNext == TypeOK' <=> DataType' /\ ControlType'
  BY DEF TypeOK, DataType, ControlType, Pcs, CallerStates

LEMMA LogTasksType ==
    ASSUME TypeOK, LogTasks
    PROVE  TypeOK'
  <1> USE MaxRecordsAssumption, SizeAssumption
  <1>0. DataType /\ ControlType
    BY TypeSplit
  <1>1. ControlType'
    BY <1>0 DEF ControlType, LogTasks, TrySend, TrySendFull, TrySendClosed,
                SendWaiting, SendFails, work
  <1>2. CASE TrySend
    <2>1. enqueued + 1 \in Items
      BY <1>0, <1>2 DEF TrySend, DataType, Items
    <2>2. Len(queue) < QueueCapacity
      <3>1. Cardinality(waiting) \in Nat
        <4>1. IsFiniteSet(Items)
          BY FS_Interval DEF Items
        <4> QED BY <1>0, <4>1, FS_Subset, FS_CardinalityType DEF DataType
      <3> QED BY <1>0, <1>2, <3>1 DEF TrySend, HasRoom, DataType
    <2>3. queue' \in Seq(Items) /\ Len(queue') <= QueueCapacity
      BY <1>0, <1>2, <2>1, <2>2 DEF TrySend, DataType
    <2> QED BY <1>0, <1>1, <1>2, <2>3, TypeSplitNext DEF TrySend, DataType, data
  <1>3. CASE TrySendFull
    <2>1. enqueued + 1 \in Items
      BY <1>0, <1>3 DEF TrySendFull, DataType, Items
    <2> QED BY <1>0, <1>1, <1>3, <2>1, TypeSplitNext
            DEF TrySendFull, DataType, data, work
  <1>4. CASE TrySendClosed
    BY <1>0, <1>1, <1>4, TypeSplitNext DEF TrySendClosed, DataType, data, work
  <1>5. ASSUME NEW i \in Items, SendWaiting(i)
        PROVE  TypeOK'
    BY <1>0, <1>1, <1>5, TypeSplitNext DEF SendWaiting, DataType, data, stats
  <1>6. ASSUME NEW i \in Items, SendFails(i)
        PROVE  TypeOK'
    BY <1>0, <1>1, <1>6, TypeSplitNext DEF SendFails, DataType, data, work
  <1> QED BY <1>2, <1>3, <1>4, <1>5, <1>6 DEF LogTasks

LEMMA SendType ==
    ASSUME TypeOK, NEW c \in Callers, NEW op \in Ops,
           NEW target \in Stores \cup {NoStore}, Send(c, op, target)
    PROVE  /\ ControlType'
           /\ ctrl' \in Seq(Command)
  <1>1. Elems(Pending) \subseteq Items
    BY PendingElems DEF TypeOK
  <1>2. [at |-> "waiting",
         owed |-> IF op \in {"resume", "reset"} THEN {} ELSE Elems(Pending)]
           \in CallerStates
    BY <1>1 DEF CallerStates
  <1>3. [from |-> c, op |-> op, store |-> target] \in Command
    BY DEF Command
  <1>4. ControlType
    BY TypeSplit
  <1>5. ControlType'
    BY <1>2, <1>4 DEF ControlType, Send, work
  <1>6. ctrl' \in Seq(Command)
    BY <1>3 DEF Send, TypeOK
  <1> QED BY <1>5, <1>6

LEMMA ControlSteps ==
    ASSUME TypeOK, StoreOpened, Control
    PROVE  \/ AbandonRotation
           \/ \E c \in Callers, op \in Ops, target \in Stores \cup {NoStore} :
                 /\ Send(c, op, target)
                 /\ caller[c].at = IF op = "resume" THEN "sealed" ELSE "idle"
                 /\ op \in {"seal", "resume"} <=> c = "rotation"
                 /\ op = "resume" => target \in Stores
                 /\ opened' \in Seq(Stores) /\ opened' # <<>>
  <1>1. opened[Len(opened)] \in Stores
    BY DEF TypeOK, StoreOpened
  <1>2. CASE Rotate
    BY <1>2 DEF Rotate, Callers, Ops, TypeOK, StoreOpened
  <1>3. CASE ResumeOld
    BY <1>1, <1>3 DEF ResumeOld, Callers, Ops, TypeOK, StoreOpened
  <1>4. ASSUME NEW s \in Stores, ResumeNew(s)
        PROVE  /\ Send("rotation", "resume", s)
               /\ caller["rotation"].at = "sealed"
               /\ opened' \in Seq(Stores) /\ opened' # <<>>
    BY <1>4 DEF ResumeNew, TypeOK
  <1>5. CASE TestApi
    BY <1>5 DEF TestApi, Callers, Ops, TypeOK, StoreOpened
  <1>6. CASE Shutdown
    BY <1>6 DEF Shutdown, Callers, Ops, TypeOK, StoreOpened
  <1> QED BY <1>2, <1>3, <1>4, <1>5, <1>6 DEF Control, Callers, Ops

(* The id after the rows of a store.                                       *)
LEMMA FirstFree ==
    ASSUME NEW s, NEW n \in Nat, DOMAIN disk[s] = 1..n
    PROVE  FirstFreeId(s) = n + 1
  <1>1. CASE n = 0
    BY <1>1 DEF FirstFreeId
  <1>2. CASE n # 0
    <2> DEFINE ids == DOMAIN disk[s]
               last == CHOOSE id \in ids : \A k \in ids : k <= id
    <2>1. n \in ids /\ \A k \in ids : k <= n
      BY <1>2
    <2>2. last \in ids /\ \A k \in ids : k <= last
      BY <2>1
    <2>3. last = n
      BY <2>1, <2>2
    <2>4. FirstFreeId(s) = IF ids = {} THEN 1 ELSE 1 + last
      BY Zenon DEF FirstFreeId
    <2> QED BY <2>1, <2>3, <2>4
  <1> QED BY <1>1, <1>2

(* The rows a commit adds.                                                 *)
LEMMA CommitRows ==
    ASSUME IInv, Commit
    PROVE  /\ store \in Stores /\ disk' \in [Stores -> {disk'[s] : s \in Stores}]
           /\ \A s \in Stores \ {store} : disk'[s] = disk[s]
           /\ DOMAIN disk'[store] = 1..(nextId' - 1)
           /\ nextId' = nextId + Len(batch) /\ nextId' \in Nat \ {0}
           /\ \A id \in 1..(nextId' - 1) : disk'[store][id] \in Items
  <1> DEFINE rows == [id \in DOMAIN disk[store] \cup BatchIds |->
                        IF id \in BatchIds THEN batch[id - nextId + 1]
                                           ELSE disk[store][id]]
  <1>1. store \in Stores
    BY DEF Commit, IInv, BatchFitsPc
  <1>2. disk' = [disk EXCEPT ![store] = rows] /\ nextId' = nextId + Len(batch)
    BY DEF Commit
  <1>3. batch \in Seq(Items) /\ nextId \in Nat \ {0} /\ DOMAIN disk = Stores
        /\ disk[store] \in [DOMAIN disk[store] -> Items]
    BY <1>1 DEF IInv, TypeOK
  <1>4. DOMAIN disk[store] = 1..(nextId - 1)
    BY <1>1, StoreAssumption DEF IInv, IdsContiguous
  <1>5. DOMAIN disk[store] \cup BatchIds = 1..(nextId' - 1)
    BY <1>2, <1>3, <1>4 DEF BatchIds
  <1>6. DOMAIN disk' = Stores /\ disk'[store] = rows
        /\ \A s \in Stores \ {store} : disk'[s] = disk[s]
    <2>1. DOMAIN disk' = DOMAIN disk
      BY <1>2
    <2>2. disk'[store] = rows
      BY <1>1, <1>2, <1>3
    <2>3. \A s \in Stores \ {store} : disk'[s] = disk[s]
      BY <1>1, <1>2, <1>3
    <2> QED BY <1>3, <2>1, <2>2, <2>3
  <1>7. \A id \in BatchIds : id - nextId + 1 \in 1..Len(batch)
    BY <1>3 DEF BatchIds
  <1>8. \A id \in 1..(nextId' - 1) : rows[id] \in Items
    <2> TAKE id \in 1..(nextId' - 1)
    <2>1. CASE id \in BatchIds
      <3>1. rows[id] = batch[id - nextId + 1]
        BY <1>5, <2>1
      <3> QED BY <1>3, <1>7, <2>1, <3>1
    <2>2. CASE id \notin BatchIds
      <3>1. rows[id] = disk[store][id] /\ id \in DOMAIN disk[store]
        BY <1>5, <2>2
      <3> QED BY <1>3, <3>1
    <2> QED BY <2>1, <2>2
  <1>9. nextId' \in Nat \ {0}
    BY <1>2, <1>3
  <1>10. disk' \in [Stores -> {disk'[s] : s \in Stores}]
    <2>1. disk' = [s \in Stores |-> disk'[s]]
      BY <1>2, <1>3, <1>6
    <2> QED BY <2>1
  <1> QED BY <1>1, <1>2, <1>5, <1>6, <1>8, <1>9, <1>10

(* How a flush, drain, checkpoint or wipe is left.                         *)
Settles ==
    \/ \E result \in {"ok", "err"} :
          /\ Finish(result)
          /\ job.op = "seal" /\ result = "ok" => store' = NoStore
    \/ job.op # "none" /\ Goto("drain")
    \/ job.op = "seal" /\ Goto("checkpoint")
    \/ job.op = "shutdown" /\ Goto("leaving")

LEMMA ContinueSettles ==
    ASSUME NEW result \in {"ok", "err"}, Drained(result) \/ Continue(result)
    PROVE  Settles
  <1>1. CASE Drained(result)
    <2>1. CASE job.op = "seal" /\ result = "ok"
      BY <1>1, <2>1 DEF Drained, Settles
    <2>2. CASE ~(job.op = "seal" /\ result = "ok")
      BY <1>1, <2>2 DEF Drained, Settles
    <2> QED BY <2>1, <2>2
  <1>2. CASE Continue(result)
    BY <1>1, <1>2 DEF Continue, Settles
  <1> QED BY <1>1, <1>2

(* The steps that settle leave the batch empty and the channels alone.     *)
Settled ==
    /\ Settles
    /\ batch' = <<>>
    /\ UNCHANGED <<waiting, queue, ctrl, opened, enqueued, discarded>>

LEMMA SettlingSteps ==
    ASSUME IInv,
           Commit \/ DropBatch \/ Checkpoint \/ Wipe \/ (DrainEnds /\ batch = <<>>)
    PROVE  Settled
  <1> USE ContinueSettles DEF Settled
  <1>1. CASE Commit
    BY <1>1 DEF Commit
  <1>2. CASE DropBatch
    BY <1>2 DEF DropBatch, TransactionFails
  <1>3. CASE Checkpoint
    BY <1>3 DEF Checkpoint, stats, IInv, BatchFitsPc, Settles
  <1>4. CASE Wipe
    BY <1>4 DEF Wipe, stats, IInv, BatchFitsPc, JobFitsPc, Settles
  <1>5. CASE DrainEnds /\ batch = <<>>
    BY <1>5 DEF DrainEnds, stats
  <1> QED BY <1>1, <1>2, <1>3, <1>4, <1>5

LEMMA SettlesType ==
    ASSUME TypeOK, Settles
    PROVE  ControlType'
  <1>1. ASSUME NEW result, Finish(result)
        PROVE  ControlType'
    BY <1>1, FinishType DEF ControlType, Pcs, CallerStates
  <1>2. ASSUME NEW place \in {"drain", "checkpoint", "leaving"}, Goto(place)
        PROVE  ControlType'
    BY <1>2, GotoType DEF ControlType, Pcs, CallerStates, TypeOK
  <1> QED BY <1>1, <1>2 DEF Settles

LEMMA SettledType ==
    ASSUME IInv, Settled, UNCHANGED <<store, nextId, disk>> \/ Commit \/ Checkpoint \/ Wipe,
           txOpen' = txOpen \/ TransactionFails,
           flushed' \in Nat, dropped' \in Nat
    PROVE  TypeOK'
  <1>0. TypeOK /\ DataType /\ ControlType
    BY TypeSplit DEF IInv
  <1>1. ControlType'
    BY <1>0, SettlesType DEF Settled
  <1>2. batch' \in Seq(Items) /\ Len(batch') <= BatchSize
    BY SizeAssumption DEF Settled
  <1>3. txOpen' \in [Stores -> BOOLEAN]
    BY <1>0 DEF TransactionFails, DataType
  <1>4. /\ store' \in Stores \cup {NoStore}
        /\ nextId' \in Nat \ {0}
        /\ DOMAIN disk' = Stores
        /\ \A s \in Stores : disk'[s] \in [DOMAIN disk'[s] -> Items]
    <2>1. CASE UNCHANGED <<store, nextId, disk>>
      BY <1>0, <2>1 DEF DataType
    <2>2. CASE Commit
      <3>1. store' = store /\ DOMAIN disk' = Stores
        BY <1>0, <2>2 DEF Commit, DataType
      <3>2. nextId' \in Nat \ {0}
        BY <2>2, CommitRows
      <3>3. disk'[store] \in [DOMAIN disk'[store] -> Items]
        <4>1. store \in Stores /\ DOMAIN disk = Stores
          BY <1>0, <2>2, CommitRows DEF DataType
        <4>2. disk'[store] = [id \in DOMAIN disk[store] \cup BatchIds |->
                                IF id \in BatchIds THEN batch[id - nextId + 1]
                                                   ELSE disk[store][id]]
          BY <2>2, <4>1 DEF Commit
        <4>3. \A id \in DOMAIN disk'[store] : disk'[store][id] \in Items
          BY <2>2, CommitRows
        <4> QED BY <4>2, <4>3
      <3> QED BY <1>0, <2>2, <3>1, <3>2, <3>3, CommitRows DEF DataType
    <2>3. CASE Checkpoint
      BY <1>0, <2>3 DEF Checkpoint, DataType
    <2>4. CASE Wipe
      <3>1. <<>> \in [DOMAIN <<>> -> Items]
        OBVIOUS
      <3>2. store' = store /\ nextId' \in Nat \ {0}
            /\ (disk' = disk \/ disk' = [disk EXCEPT ![store] = <<>>])
        BY <1>0, <2>4 DEF Wipe, DataType
      <3>3. DOMAIN disk' = Stores
            /\ \A s \in Stores : disk'[s] = disk[s] \/ disk'[s] = <<>>
        BY <1>0, <3>2 DEF DataType
      <3>4. \A s \in Stores : disk'[s] \in [DOMAIN disk'[s] -> Items]
        <4> TAKE s \in Stores
        <4>1. CASE disk'[s] = disk[s]
          BY <1>0, <4>1 DEF DataType
        <4>2. CASE disk'[s] = <<>>
          BY <3>1, <4>2
        <4> QED BY <3>3, <4>1, <4>2
      <3> QED BY <1>0, <3>2, <3>3, <3>4 DEF DataType
    <2> QED BY <2>1, <2>2, <2>3, <2>4
  <1> QED BY <1>0, <1>1, <1>2, <1>3, <1>4, TypeSplitNext DEF DataType, Settled

LEMMA WriterType ==
    ASSUME IInv, Writer
    PROVE  TypeOK'
  <1>0. TypeOK /\ DataType /\ ControlType
    BY TypeSplit DEF IInv
  <1>1. CASE Receive
    <2>1. Head(queue) \in Items /\ Tail(queue) \in Seq(Items)
          /\ Len(Tail(queue)) <= QueueCapacity
      BY <1>0, <1>1, SizeAssumption DEF Receive, DataType
    <2>2. Len(batch) < BatchSize
      BY <1>1 DEF Receive, Selecting, IInv, BatchFitsPc
    <2>3. batch' \in Seq(Items) /\ Len(batch') <= BatchSize
      BY <1>0, <1>1, <2>1, <2>2, SizeAssumption DEF Receive, DataType
    <2> QED BY <1>0, <1>1, <2>1, <2>3, TypeSplitNext
            DEF Receive, DataType, ControlType, Pcs, data, stats
  <1>2. CASE TimerFires
    BY <1>0, <1>2, TypeSplitNext
       DEF TimerFires, DataType, ControlType, Pcs, data, work, stats
  <1>3. CASE TakeCommand
    <2>1. Head(ctrl) \in Command /\ Tail(ctrl) \in Seq(Command)
      BY <1>0, <1>3 DEF TakeCommand, DataType
    <2> QED BY <1>0, <1>3, <2>1, TypeSplitNext
            DEF TakeCommand, DataType, ControlType, Pcs, data, work, stats
  <1>4. CASE TakeResume \/ TakeSealed
    <2>1. Head(ctrl) \in Command /\ Tail(ctrl) \in Seq(Command)
          /\ Head(ctrl) = ctrl[1] /\ Len(ctrl) >= 1
      BY <1>0, <1>4 DEF TakeResume, TakeSealed, DataType
    <2>2. ControlType'
      <3>1. \A place \in {"idle", "sealed"} : At(place) \in CallerStates
        BY DEF At, CallerStates
      <3>2. CASE caller' = Answered(Head(ctrl), "ok")
        BY <1>0, <1>4, <2>1, <3>1, <3>2
           DEF TakeResume, TakeSealed, Answered, ControlType, Pcs, work
      <3>3. CASE TakeSealed /\ UNCHANGED caller
        BY <1>0, <2>1, <3>3 DEF TakeSealed, ControlType, Pcs, work
      <3> QED BY <1>4, <3>2, <3>3 DEF TakeResume, TakeSealed
    <2>3. store' \in Stores \cup {NoStore} /\ nextId' \in Nat \ {0}
      <3>1. CASE TakeSealed \/ UNCHANGED <<store, nextId>>
        BY <1>0, <3>1 DEF TakeSealed, DataType, data
      <3>2. CASE TakeResume /\ store' = Head(ctrl).store
                            /\ nextId' = FirstFreeId(Head(ctrl).store)
        <4>1. Head(ctrl).store \in Stores
          BY <2>1, <3>2 DEF TakeResume, IInv, OneCommandEach, Outstanding
        <4>2. PICK n \in 0..flushed : DOMAIN disk[Head(ctrl).store] = 1..n
          BY <4>1 DEF IInv, IdsContiguous
        <4>3. n \in Nat /\ flushed \in Nat
          BY <1>0, <4>2 DEF DataType
        <4>4. nextId' = n + 1
          BY <3>2, <4>2, <4>3, FirstFree
        <4> QED BY <3>2, <4>1, <4>3, <4>4
      <3> QED BY <1>4, <3>1, <3>2 DEF TakeResume
    <2> QED BY <1>0, <1>4, <2>1, <2>2, <2>3, TypeSplitNext
            DEF TakeResume, TakeSealed, DataType, data, work, stats
  <1>5. CASE DrainOne
    <2>1. Head(queue) \in Items /\ Tail(queue) \in Seq(Items)
          /\ Len(Tail(queue)) <= QueueCapacity
      BY <1>0, <1>5, SizeAssumption DEF DrainOne, DataType
    <2>2. batch' \in Seq(Items) /\ Len(batch') <= BatchSize
      BY <1>0, <1>5, <2>1, SizeAssumption DEF DrainOne, DataType
    <2> QED BY <1>0, <1>5, <2>1, <2>2, TypeSplitNext
            DEF DrainOne, DataType, ControlType, data, stats
  <1>6. CASE DrainEnds /\ batch # <<>>
    <2>1. ControlType'
      BY <1>0, <1>6, GotoType DEF DrainEnds, ControlType, Pcs
    <2> QED BY <1>0, <1>6, <2>1, TypeSplitNext
            DEF DrainEnds, DataType, data, stats
  <1>7. CASE (DrainEnds /\ batch = <<>>) \/ Commit \/ DropBatch \/ Checkpoint \/ Wipe
    <2>1. Settled
      BY <1>7, SettlingSteps
    <2>2. UNCHANGED <<store, nextId, disk>> \/ Commit \/ Checkpoint \/ Wipe
      BY <1>7 DEF DrainEnds, DropBatch, data
    <2>3. txOpen' = txOpen \/ TransactionFails
      BY <1>7 DEF DrainEnds, Commit, DropBatch, Checkpoint, Wipe, data
    <2>4. Len(batch) \in Nat
      BY <1>0 DEF DataType
    <2>5. flushed' \in Nat /\ dropped' \in Nat
      BY <1>0, <1>7, <2>4
         DEF DrainEnds, Commit, DropBatch, Checkpoint, Wipe, stats, DataType
    <2> QED BY <2>1, <2>2, <2>3, <2>5, SettledType
  <1>8. CASE Retry
    <2>1. txOpen' \in [Stores -> BOOLEAN]
      BY <1>0, <1>8 DEF Retry, TransactionFails, DataType
    <2>2. attempt' \in 0..MaxRetries
      BY <1>0, <1>8, SizeAssumption DEF Retry, ControlType
    <2> QED BY <1>0, <1>8, <2>1, <2>2, TypeSplitNext
            DEF Retry, DataType, ControlType, work, stats
  <1>9. CASE DiscardOne
    <2>1. Tail(queue) \in Seq(Items) /\ Len(Tail(queue)) <= QueueCapacity
      BY <1>0, <1>9, SizeAssumption DEF DiscardOne, DataType
    <2> QED BY <1>0, <1>9, <2>1, TypeSplitNext
            DEF DiscardOne, DataType, ControlType, data
  <1>10. CASE DiscardEnds
    <2>1. discarded' \in Nat /\ batch' = <<>> /\ Len(<<>>) <= BatchSize
      BY <1>0, <1>10, SizeAssumption DEF DiscardEnds, DataType
    <2> QED BY <1>0, <1>10, <2>1, TypeSplitNext
            DEF DiscardEnds, DataType, ControlType, Pcs, data
  <1>11. CASE Exit
    <2>1. discarded' \in Nat /\ queue' = <<>> /\ Len(<<>>) <= QueueCapacity
      BY <1>0, <1>11, SizeAssumption DEF Exit, DataType
    <2>2. ControlType'
      <3>1. At("done") \in CallerStates /\ At("idle") \in CallerStates
        BY DEF At, CallerStates
      <3> QED BY <1>0, <1>11, <3>1 DEF Exit, ControlType, Pcs
    <2> QED BY <1>0, <1>11, <2>1, <2>2, TypeSplitNext DEF Exit, DataType, data
  <1> QED BY <1>1, <1>2, <1>3, <1>4, <1>5, <1>6, <1>7, <1>8, <1>9, <1>10, <1>11
          DEF Writer

LEMMA NextType ==
    ASSUME IInv, [Next]_vars
    PROVE  TypeOK' /\ StoreOpened'
  <1>1. CASE LogTasks
    <2>1. TypeOK'
      BY <1>1, LogTasksType DEF IInv
    <2>2. opened' = opened
      BY <1>1 DEF LogTasks, TrySend, TrySendFull, TrySendClosed, SendWaiting,
                  SendFails
    <2> QED BY <2>1, <2>2 DEF IInv, StoreOpened
  <1>2. CASE AbandonRotation
    <2>1. TypeOK /\ DataType /\ ControlType
      BY TypeSplit DEF IInv
    <2>2. At("idle") \in CallerStates
      BY DEF At, CallerStates
    <2>3. ControlType'
      BY <1>2, <2>1, <2>2 DEF AbandonRotation, ControlType, work
    <2> QED BY <1>2, <2>1, <2>3, TypeSplitNext
            DEF AbandonRotation, DataType, data, work, stats, IInv, StoreOpened
  <1>3. ASSUME NEW c \in Callers, NEW op \in Ops,
               NEW target \in Stores \cup {NoStore}, Send(c, op, target),
               opened' \in Seq(Stores), opened' # <<>>
        PROVE  TypeOK' /\ StoreOpened'
    <2>1. TypeOK /\ DataType /\ ControlType
      BY TypeSplit DEF IInv
    <2>2. ControlType' /\ ctrl' \in Seq(Command)
      BY <1>3, <2>1, SendType
    <2>3. DataType'
      BY <1>3, <2>1, <2>2 DEF Send, DataType, data, work, stats
    <2> QED BY <1>3, <2>2, <2>3, TypeSplitNext DEF StoreOpened
  <1>4. CASE Writer
    <2>1. opened' = opened
      BY <1>4 DEF Writer, Receive, TimerFires, TakeCommand, TakeResume,
                  TakeSealed, DrainOne, DrainEnds, Commit, Retry, DropBatch,
                  Checkpoint, DiscardOne, DiscardEnds, Wipe, Exit
    <2> QED BY <1>4, <2>1, WriterType DEF IInv, StoreOpened
  <1>5. CASE UNCHANGED vars
    <2>1. DataType /\ ControlType
      BY TypeSplit DEF IInv
    <2> QED BY <1>5, <2>1, TypeSplitNext
            DEF vars, work, data, stats, DataType, ControlType, IInv, StoreOpened
  <1> QED BY <1>1, <1>2, <1>3, <1>4, <1>5, ControlSteps DEF Next, IInv

-----------------------------------------------------------------------------
(* The commands in flight.                                                 *)

(* What a step does to the control channel, the job and the callers.       *)
Sends ==
    \E c \in Callers, op \in Ops, target \in Stores \cup {NoStore} :
       /\ Send(c, op, target)
       /\ caller[c].at # "waiting"
       /\ op \in {"seal", "resume"} <=> c = "rotation"
       /\ op = "resume" => target \in Stores

Takes == /\ ctrl # <<>> /\ Head(ctrl).op # "resume"
         /\ job = NoJob /\ job' = Head(ctrl)
         /\ ctrl' = Tail(ctrl)
         /\ UNCHANGED caller

AnswersHead == /\ ctrl # <<>>
               /\ UNCHANGED job /\ job = NoJob
               /\ ctrl' = Tail(ctrl)
               /\ caller' = Answered(Head(ctrl), "ok")

Finishes == \E result \in {"ok", "err"} : Finish(result) /\ UNCHANGED ctrl

Flows == \/ UNCHANGED <<ctrl, job, caller>>
         \/ AbandonRotation
         \/ Sends
         \/ Takes
         \/ AnswersHead
         \/ Finishes
         \/ Exit

LEMMA NextFlows ==
    ASSUME IInv, [Next]_vars
    PROVE  Flows
  <1>1. CASE LogTasks
    BY <1>1 DEF LogTasks, TrySend, TrySendFull, TrySendClosed, SendWaiting,
                SendFails, Flows
  <1>2. CASE Control
    BY <1>2, ControlSteps DEF IInv, Flows, Sends
  <1>3. CASE Receive \/ TimerFires \/ DrainOne \/ Retry \/ DiscardOne \/ DiscardEnds
    BY <1>3 DEF Receive, TimerFires, DrainOne, Retry, DiscardOne, DiscardEnds,
                Flows
  <1>4. CASE TakeCommand \/ TakeResume \/ TakeSealed
    BY <1>4 DEF TakeCommand, TakeResume, TakeSealed, Selecting, IInv, JobFitsPc,
                Flows, Takes, AnswersHead
  <1>5. CASE DrainEnds /\ batch # <<>>
    BY <1>5 DEF DrainEnds, Goto, Flows
  <1>6. CASE (DrainEnds /\ batch = <<>>) \/ Commit \/ DropBatch \/ Checkpoint \/ Wipe
    BY <1>6, SettlingSteps DEF Settled, Settles, Goto, Flows, Finishes
  <1>7. CASE Exit
    BY <1>7 DEF Flows
  <1>8. CASE UNCHANGED vars
    BY <1>8 DEF vars, Flows
  <1> QED BY <1>1, <1>2, <1>3, <1>4, <1>5, <1>6, <1>7, <1>8 DEF Next, Writer

LEMMA OneCommandNext ==
    ASSUME IInv, [Next]_vars
    PROVE  OneCommandEach'
  <1>0. TypeOK /\ OneCommandEach /\ TypeOK'
    BY NextType DEF IInv
  <1>1. CASE UNCHANGED <<ctrl, job, caller>>
    BY <1>0, <1>1 DEF OneCommandEach, Outstanding
  <1>2. CASE AbandonRotation
    <2>1. ctrl' = ctrl /\ job' = job
      BY <1>2 DEF AbandonRotation
    <2>2. \A c \in Callers : caller[c].at = "waiting" => caller'[c] = caller[c]
      BY <1>0, <1>2 DEF AbandonRotation, TypeOK
    <2>3. \A cmd : Outstanding(cmd, caller) => Outstanding(cmd, caller')
      BY <2>2 DEF Outstanding, Command
    <2> QED BY <1>0, <2>1, <2>3 DEF OneCommandEach
  <1>3. ASSUME NEW c \in Callers, NEW op \in Ops,
               NEW target \in Stores \cup {NoStore}, Send(c, op, target),
               caller[c].at # "waiting",
               op \in {"seal", "resume"} <=> c = "rotation",
               op = "resume" => target \in Stores
        PROVE  OneCommandEach'
    <2> DEFINE cmd == [from |-> c, op |-> op, store |-> target]
    <2>1. ctrl' = Append(ctrl, cmd) /\ job' = job /\ ctrl \in Seq(Command)
      BY <1>0, <1>3 DEF Send, TypeOK
    <2>2. caller'[c].at = "waiting"
          /\ \A d \in Callers \ {c} : caller'[d] = caller[d]
      BY <1>0, <1>3 DEF Send, TypeOK
    <2>3. Outstanding(cmd, caller')
      BY <1>3, <2>2 DEF Outstanding, Command
    <2>4. \A x : Outstanding(x, caller) => x.from # c /\ Outstanding(x, caller')
      BY <1>3, <2>2 DEF Outstanding, Command
    <2>5. /\ Len(ctrl') = Len(ctrl) + 1 /\ ctrl'[Len(ctrl) + 1] = cmd
          /\ Len(ctrl) \in Nat
          /\ \A k \in 1..Len(ctrl) : ctrl'[k] = ctrl[k]
      BY <2>1 DEF Command
    <2>6. \A k \in 1..Len(ctrl') : Outstanding(ctrl'[k], caller')
      BY <1>0, <2>3, <2>4, <2>5 DEF OneCommandEach
    <2>7. \A j, k \in 1..Len(ctrl') : ctrl'[j].from = ctrl'[k].from => j = k
      BY <1>0, <2>4, <2>5 DEF OneCommandEach
    <2>8. job' # NoJob => /\ Outstanding(job', caller')
                          /\ job'.op # "resume"
                          /\ \A k \in 1..Len(ctrl') : ctrl'[k].from # job'.from
      BY <1>0, <2>1, <2>4, <2>5 DEF OneCommandEach
    <2> QED BY <2>6, <2>7, <2>8 DEF OneCommandEach
  <1>4. CASE ctrl # <<>> /\ ctrl' = Tail(ctrl) /\ (Takes \/ AnswersHead)
    <2>1. /\ Head(ctrl) = ctrl[1] /\ Len(ctrl') = Len(ctrl) - 1
          /\ Len(ctrl) \in Nat \ {0}
          /\ \A k \in 1..Len(ctrl') : ctrl'[k] = ctrl[k + 1]
      <3>1. ctrl \in Seq(Command) /\ ctrl # <<>>
        BY <1>0, <1>4 DEF TypeOK
      <3>2. Len(ctrl) \in Nat \ {0} /\ Head(ctrl) = ctrl[1]
        BY <3>1
      <3> QED BY <1>4, <3>1, <3>2, HeadTailProperties
    <2>2. Outstanding(ctrl[1], caller)
          /\ \A k \in 1..Len(ctrl') : /\ Outstanding(ctrl'[k], caller)
                                      /\ ctrl'[k].from # ctrl[1].from
      <3>1. 1 \in 1..Len(ctrl)
        BY <2>1
      <3> SUFFICES ASSUME NEW k \in 1..Len(ctrl')
                   PROVE  /\ Outstanding(ctrl'[k], caller)
                          /\ ctrl'[k].from # ctrl[1].from
        BY <1>0, <3>1 DEF OneCommandEach
      <3>2. k + 1 \in 1..Len(ctrl) /\ k + 1 # 1
        BY <2>1
      <3> QED BY <1>0, <2>1, <3>1, <3>2 DEF OneCommandEach
    <2>3. \A j, k \in 1..Len(ctrl') : ctrl'[j].from = ctrl'[k].from => j = k
      <3> TAKE j, k \in 1..Len(ctrl')
      <3>1. j + 1 \in 1..Len(ctrl) /\ k + 1 \in 1..Len(ctrl)
        BY <2>1
      <3>2. ctrl[j + 1].from = ctrl[k + 1].from => j + 1 = k + 1
        BY <1>0, <3>1 DEF OneCommandEach
      <3> QED BY <2>1, <3>2
    <2>4. CASE Takes
      <3>1. \A x : Outstanding(x, caller') <=> Outstanding(x, caller)
        BY <2>4 DEF Takes, Outstanding
      <3> QED BY <2>1, <2>2, <2>3, <2>4, <3>1 DEF Takes, OneCommandEach
    <2>5. CASE AnswersHead
      <3>1. \A d \in Callers \ {ctrl[1].from} : caller'[d] = caller[d]
        BY <1>0, <2>1, <2>5 DEF AnswersHead, Answered, TypeOK
      <3>2. \A k \in 1..Len(ctrl') : Outstanding(ctrl'[k], caller')
        BY <2>2, <3>1 DEF Outstanding, Command
      <3> QED BY <2>3, <2>5, <3>2 DEF AnswersHead, OneCommandEach
    <2> QED BY <1>4, <2>4, <2>5
  <1>5. CASE Finishes
    <2>1. ctrl' = ctrl /\ job' = NoJob
      BY <1>5 DEF Finishes, Finish
    <2>2. CASE job = NoJob
      <3>1. caller' = caller
        BY <1>5, <2>2 DEF Finishes, Finish, Answered, NoJob
      <3> QED BY <1>0, <2>1, <3>1 DEF OneCommandEach, Outstanding
    <2>3. CASE job # NoJob
      <3>1. \A d \in Callers \ {job.from} : caller'[d] = caller[d]
        BY <1>0, <1>5 DEF Finishes, Finish, Answered, TypeOK
      <3>2. \A k \in 1..Len(ctrl) : /\ Outstanding(ctrl[k], caller)
                                    /\ ctrl[k].from # job.from
        BY <1>0, <2>3 DEF OneCommandEach
      <3>3. \A k \in 1..Len(ctrl) : Outstanding(ctrl[k], caller')
        BY <2>1, <3>1, <3>2 DEF Outstanding, Command
      <3> QED BY <1>0, <2>1, <3>3 DEF OneCommandEach
    <2> QED BY <2>2, <2>3
  <1>6. CASE Exit
    BY <1>6 DEF Exit, OneCommandEach
  <1>7. (Takes \/ AnswersHead) => ctrl # <<>> /\ ctrl' = Tail(ctrl)
    BY DEF Takes, AnswersHead
  <1> QED BY <1>1, <1>2, <1>3, <1>4, <1>5, <1>6, <1>7, NextFlows DEF Flows, Sends

-----------------------------------------------------------------------------
(* Where the writer task waits, its job, its store and its batch.          *)

FitsPc == JobFitsPc /\ BatchFitsPc /\ BatchIsTimed

LEMMA FitsPcNext ==
    ASSUME IInv, [Next]_vars
    PROVE  FitsPc'
  <1>0. TypeOK /\ FitsPc /\ OneCommandEach
    BY DEF IInv, FitsPc
  <1> USE DEF FitsPc, JobFitsPc, BatchFitsPc, BatchIsTimed
  <1>1. CASE LogTasks \/ Control \/ UNCHANGED vars
    <2>1. UNCHANGED <<pc, job, store, batch, timer>>
      BY <1>1, ControlSteps
         DEF LogTasks, TrySend, TrySendFull, TrySendClosed, SendWaiting,
             SendFails, AbandonRotation, Send, vars, work, data, IInv
    <2> QED BY <1>0, <2>1
  <1>2. CASE Receive
    <2>1. /\ pc = "select" /\ store \in Stores
          /\ pc' = IF Len(batch') >= BatchSize THEN "flush" ELSE "select"
          /\ UNCHANGED <<job, store>> /\ timer'
      BY <1>0, <1>2 DEF Receive, Selecting, data, TypeOK
    <2>2. Len(batch') \in Nat /\ BatchSize \in Nat
      BY NextType, SizeAssumption DEF TypeOK
    <2>3. store # NoStore
      BY <2>1, StoreAssumption
    <2> QED BY <1>0, <2>1, <2>2, <2>3
  <1>3. CASE TimerFires
    BY <1>0, <1>3 DEF TimerFires, Selecting, data, work, TypeOK
  <1>4. CASE TakeCommand
    <2>1. Head(ctrl) \in Command
      BY <1>0, <1>4 DEF TakeCommand, TypeOK
    <2> QED BY <1>0, <1>4, <2>1, NoJobIsNoCommand
            DEF TakeCommand, Selecting, data, work, TypeOK
  <1>5. CASE TakeResume
    <2>1. Head(ctrl) = ctrl[1] /\ 1 \in 1..Len(ctrl)
      BY <1>0, <1>5 DEF TakeResume, TypeOK
    <2>2. Head(ctrl).store \in Stores
      BY <1>0, <1>5, <2>1 DEF TakeResume, OneCommandEach, Outstanding
    <2>3. store' = store \/ store' \in Stores
      BY <1>5, <2>2 DEF TakeResume
    <2>4. UNCHANGED <<pc, job, batch, timer>> /\ pc = "select"
      BY <1>5 DEF TakeResume, work
    <2> QED BY <1>0, <2>3, <2>4, StoreAssumption
  <1>6. CASE TakeSealed
    BY <1>0, <1>6 DEF TakeSealed, data, work
  <1>7. CASE DrainOne
    BY <1>0, <1>7, StoreAssumption DEF DrainOne, data
  <1>8. CASE DrainEnds /\ batch # <<>>
    BY <1>0, <1>8 DEF DrainEnds, Goto, data
  <1>9. CASE (DrainEnds /\ batch = <<>>) \/ Commit \/ DropBatch \/ Checkpoint \/ Wipe
    <2>1. Settles /\ batch' = <<>>
      BY <1>9, SettlingSteps DEF Settled
    <2>2. Len(batch') = 0 /\ BatchSize \in Nat \ {0}
      BY <2>1, SizeAssumption
    <2>3. CASE \E result : Finish(result)
      BY <2>1, <2>2, <2>3 DEF Finish
    <2>4. CASE Goto("leaving") /\ job.op = "shutdown"
      BY <2>1, <2>4 DEF Goto
    <2>5. CASE \E place \in {"drain", "checkpoint"} :
                  Goto(place) /\ IF place = "drain" THEN job.op # "none"
                                                    ELSE job.op = "seal"
      <3>1. CASE Checkpoint \/ Wipe
        BY <2>5, <3>1 DEF Checkpoint, Wipe, Goto, Finish
      <3>2. CASE DrainEnds \/ Commit \/ DropBatch
        <4>1. store' = store /\ store \in Stores
          BY <1>0, <3>2 DEF DrainEnds, Commit, DropBatch, data
        <4> QED BY <2>1, <2>5, <4>1 DEF Goto, NoJob
      <3> QED BY <1>9, <3>1, <3>2
    <2> QED BY <2>1, <2>3, <2>4, <2>5 DEF Settles
  <1>10. CASE Retry
    BY <1>0, <1>10 DEF Retry, work
  <1>11. CASE DiscardOne
    BY <1>0, <1>11 DEF DiscardOne, data
  <1>12. CASE DiscardEnds
    BY <1>0, <1>12 DEF DiscardEnds, data
  <1>13. CASE Exit
    BY <1>0, <1>13 DEF Exit, data
  <1> QED BY <1>1, <1>2, <1>3, <1>4, <1>5, <1>6, <1>7, <1>8, <1>9, <1>10,
             <1>11, <1>12, <1>13 DEF Next, Writer

(* Only an acknowledged Seal makes the rotation believe the writer sealed, *)
(* and only its own Resume unseals it.                                     *)
LEMMA RotationSealedNext ==
    ASSUME IInv, [Next]_vars
    PROVE  RotationSealed'
  <1>0. TypeOK /\ RotationSealed /\ OneCommandEach /\ JobFitsPc
    BY DEF IInv
  <1>1. CASE caller'["rotation"].at = "sealed" => caller["rotation"].at = "sealed"
    <2>1. CASE store' = store \/ store' = NoStore
      BY <1>0, <1>1, <2>1 DEF RotationSealed
    <2>2. CASE TakeResume
      <3>1. Head(ctrl) = ctrl[1] /\ 1 \in 1..Len(ctrl)
        BY <1>0, <2>2 DEF TakeResume, TypeOK
      <3>2. caller["rotation"].at = "waiting"
        BY <1>0, <2>2, <3>1 DEF TakeResume, OneCommandEach, Outstanding, Command
      <3> QED BY <1>1, <3>2 DEF RotationSealed
    <2>3. store' = store \/ store' = NoStore \/ TakeResume
      <3>1. CASE LogTasks \/ Control \/ UNCHANGED vars
        BY <3>1, ControlSteps
           DEF LogTasks, TrySend, TrySendFull, TrySendClosed, SendWaiting,
               SendFails, AbandonRotation, Send, vars, data, IInv
      <3>2. CASE Writer
        BY <3>2 DEF Writer, Receive, TimerFires, TakeCommand, TakeSealed,
                    DrainOne, DrainEnds, Commit, Retry, DropBatch, Checkpoint,
                    DiscardOne, DiscardEnds, Wipe, Exit, data
      <3> QED BY <3>1, <3>2 DEF Next
    <2> QED BY <2>1, <2>2, <2>3
  <1>2. CASE caller'["rotation"].at = "sealed" /\ caller["rotation"].at # "sealed"
    <2>1. CASE UNCHANGED caller
      BY <1>2, <2>1
    <2>2. CASE AbandonRotation \/ Sends \/ Exit
      <3>1. CASE AbandonRotation
        BY <1>2, <3>1 DEF AbandonRotation
      <3>2. CASE Sends
        <4>1. PICK c \in Callers, op \in Ops, target \in Stores \cup {NoStore} :
                      Send(c, op, target)
          BY <3>2 DEF Sends
        <4>2. /\ DOMAIN caller = Callers /\ "rotation" \in Callers
              /\ caller'["rotation"].at \in {"waiting", caller["rotation"].at}
          BY <1>0, <4>1 DEF Send, TypeOK, Callers
        <4> QED BY <1>2, <4>2
      <3>3. CASE Exit
        <4>1. caller'["rotation"] \in {At("done"), At("idle"), caller["rotation"]}
          BY <3>3 DEF Exit, Callers
        <4> QED BY <1>2, <4>1 DEF At
      <3> QED BY <2>2, <3>1, <3>2, <3>3
    <2>3. CASE TakeResume \/ TakeSealed
      <3>1. CASE TakeSealed
        BY <3>1 DEF TakeSealed, data, RotationSealed
      <3>2. CASE TakeResume
        BY <1>0, <1>2, <3>2 DEF TakeResume, Answered, At, Callers, TypeOK
      <3> QED BY <2>3, <3>1, <3>2
    <2>4. CASE Settles
      <3>1. ASSUME NEW result \in {"ok", "err"}, Finish(result)
            PROVE  job.op = "seal" /\ result = "ok"
        BY <1>0, <1>2, <3>1 DEF Finish, Answered, At, Callers, TypeOK
      <3> QED BY <1>2, <2>4, <3>1 DEF Settles, Goto, RotationSealed
    <2>5. UNCHANGED caller \/ AbandonRotation \/ Sends \/ Exit
          \/ TakeResume \/ TakeSealed \/ Settles
      <3>1. CASE LogTasks \/ UNCHANGED vars
        BY <3>1 DEF LogTasks, TrySend, TrySendFull, TrySendClosed, SendWaiting,
                    SendFails, vars
      <3>2. CASE Control
        BY <3>2, ControlSteps DEF Sends, IInv
      <3>3. CASE (DrainEnds /\ batch = <<>>) \/ Commit \/ DropBatch \/ Checkpoint \/ Wipe
        BY <3>3, SettlingSteps DEF Settled
      <3>4. CASE \/ Receive \/ TimerFires \/ TakeCommand \/ DrainOne \/ Retry
                 \/ DiscardOne \/ DiscardEnds \/ (DrainEnds /\ batch # <<>>)
        BY <3>4 DEF Receive, TimerFires, TakeCommand, DrainOne, DrainEnds, Goto,
                    Retry, DiscardOne, DiscardEnds
      <3> QED BY <3>1, <3>2, <3>3, <3>4 DEF Next, Writer
    <2> QED BY <2>1, <2>2, <2>3, <2>4, <2>5
  <1> QED BY <1>1, <1>2

-----------------------------------------------------------------------------
(* No record is lost track of.                                             *)

Accounted == WaitingOffered /\ Conservation

LEMMA AccountedNext ==
    ASSUME IInv, [Next]_vars
    PROVE  Accounted'
  <1>0. TypeOK /\ Accounted /\ WaitingOffered /\ Conservation
    BY DEF IInv, Accounted
  <1>1. /\ Cardinality(waiting) \in Nat /\ IsFiniteSet(waiting)
        /\ Len(queue) \in Nat /\ Len(batch) \in Nat
        /\ enqueued \in Nat /\ flushed \in Nat /\ dropped \in Nat
        /\ discarded \in Nat
    BY <1>0, FS_CardinalityType DEF WaitingOffered, TypeOK
  <1>b. enqueued = Cardinality(waiting) + Len(queue) + Len(batch)
                   + flushed + dropped + discarded
    BY <1>0 DEF Conservation
  <1>w. ASSUME IsFiniteSet(waiting'), enqueued' \in {enqueued, enqueued + 1},
               waiting' \subseteq waiting \cup {enqueued'}
        PROVE  WaitingOffered'
    <2> SUFFICES ASSUME NEW i \in waiting'
                 PROVE  i <= enqueued'
      BY <1>w DEF WaitingOffered
    <2>1. CASE i = enqueued'
      BY <1>1, <1>w, <2>1
    <2>2. CASE i \in waiting
      <3>1. i <= enqueued /\ i \in Int
        BY <1>0, <2>2 DEF WaitingOffered, TypeOK, Items
      <3> QED BY <1>1, <1>w, <3>1
    <2> QED BY <1>w, <2>1, <2>2
  <1>2. CASE TrySend
    <2>1. /\ Len(queue') = Len(queue) + 1 /\ enqueued' = enqueued + 1
          /\ UNCHANGED <<waiting, batch, flushed, dropped, discarded>>
      BY <1>0, <1>2 DEF TrySend, TypeOK, Items
    <2>2. WaitingOffered'
      BY <1>1, <1>w, <2>1
    <2>3. enqueued + 1 = Cardinality(waiting) + (Len(queue) + 1) + Len(batch)
                         + flushed + dropped + discarded
      BY <1>1, <1>b, SMTT(60)
    <2>4. Conservation'
      BY <2>1, <2>3 DEF Conservation
    <2> QED BY <2>2, <2>4 DEF Accounted
  <1>3. CASE TrySendFull
    <2>1. /\ waiting' = waiting \cup {enqueued + 1} /\ enqueued' = enqueued + 1
          /\ UNCHANGED <<queue, batch, flushed, dropped, discarded>>
      BY <1>3 DEF TrySendFull, work
    <2>2. enqueued + 1 \notin waiting
      BY <1>0, <1>1 DEF WaitingOffered
    <2>3. /\ Cardinality(waiting') = Cardinality(waiting) + 1
          /\ IsFiniteSet(waiting')
      BY <1>1, <2>1, <2>2, FS_AddElement
    <2>4. WaitingOffered'
      BY <1>w, <2>1, <2>3
    <2>5. enqueued + 1 = (Cardinality(waiting) + 1) + Len(queue) + Len(batch)
                         + flushed + dropped + discarded
      BY <1>1, <1>b, SMTT(60)
    <2>6. Conservation'
      BY <2>1, <2>3, <2>5 DEF Conservation
    <2> QED BY <2>4, <2>6 DEF Accounted
  <1>4. CASE TrySendClosed
    <2>1. /\ enqueued' = enqueued + 1 /\ dropped' = dropped + 1
          /\ UNCHANGED <<waiting, queue, batch, flushed, discarded>>
      BY <1>4 DEF TrySendClosed, work
    <2>2. WaitingOffered'
      BY <1>1, <1>w, <2>1
    <2>3. enqueued + 1 = Cardinality(waiting) + Len(queue) + Len(batch)
                         + flushed + (dropped + 1) + discarded
      BY <1>1, <1>b
    <2>4. Conservation'
      BY <2>1, <2>3 DEF Conservation
    <2> QED BY <2>2, <2>4 DEF Accounted
  <1>5. ASSUME NEW i \in Items, SendWaiting(i) \/ SendFails(i)
        PROVE  Accounted'
    <2>1. /\ Cardinality(waiting') = Cardinality(waiting) - 1
          /\ IsFiniteSet(waiting')
      BY <1>1, <1>5, FS_RemoveElement DEF SendWaiting, SendFails
    <2>2. /\ waiting' \subseteq waiting
          /\ UNCHANGED <<enqueued, batch, flushed, discarded>>
      BY <1>5 DEF SendWaiting, SendFails, work, stats
    <2>3. WaitingOffered'
      BY <1>w, <2>1, <2>2
    <2>4. CASE SendWaiting(i)
      <3>1. Len(queue') = Len(queue) + 1 /\ dropped' = dropped
        BY <1>0, <2>4 DEF SendWaiting, stats, TypeOK
      <3>2. enqueued = (Cardinality(waiting) - 1) + (Len(queue) + 1) + Len(batch)
                       + flushed + dropped + discarded
        BY <1>1, <1>b
      <3>3. Conservation'
        BY <2>1, <2>2, <3>1, <3>2 DEF Conservation
      <3> QED BY <2>3, <3>3 DEF Accounted
    <2>5. CASE SendFails(i)
      <3>1. queue' = queue /\ dropped' = dropped + 1
        BY <2>5 DEF SendFails, work
      <3>2. enqueued = (Cardinality(waiting) - 1) + Len(queue) + Len(batch)
                       + flushed + (dropped + 1) + discarded
        BY <1>1, <1>b, SMTT(60)
      <3>3. Conservation'
        BY <2>1, <2>2, <3>1, <3>2 DEF Conservation
      <3> QED BY <2>3, <3>3 DEF Accounted
    <2> QED BY <1>5, <2>4, <2>5
  <1>s. ASSUME UNCHANGED <<waiting, enqueued>>
        PROVE  WaitingOffered'
    BY <1>0, <1>s DEF WaitingOffered
  <1>6. CASE Control \/ UNCHANGED vars
    <2>1. UNCHANGED <<waiting, queue, batch, stats>>
      BY <1>6, ControlSteps DEF AbandonRotation, Send, work, vars, IInv
    <2> QED BY <1>0, <2>1 DEF stats, Accounted, WaitingOffered, Conservation
  <1>7. CASE Receive \/ DrainOne
    <2>1. Len(queue') = Len(queue) - 1 /\ Len(batch') = Len(batch) + 1
          /\ UNCHANGED <<waiting, enqueued, flushed, dropped, discarded>>
      BY <1>0, <1>7 DEF Receive, DrainOne, TypeOK, stats
    <2>2. enqueued = Cardinality(waiting) + (Len(queue) - 1) + (Len(batch) + 1)
                     + flushed + dropped + discarded
      BY <1>1, <1>b
    <2>3. Conservation'
      BY <2>1, <2>2 DEF Conservation
    <2> QED BY <1>s, <2>1, <2>3 DEF Accounted
  <1>8. CASE \/ TimerFires \/ TakeCommand \/ TakeResume \/ TakeSealed
             \/ (DrainEnds /\ batch # <<>>) \/ Retry
    <2>1. UNCHANGED <<waiting, queue, batch, stats>>
      BY <1>8 DEF TimerFires, TakeCommand, TakeResume, TakeSealed, DrainEnds,
                  Retry, work
    <2> QED BY <1>0, <2>1 DEF stats, Accounted, WaitingOffered, Conservation
  <1>9. CASE (DrainEnds /\ batch = <<>>) \/ Commit \/ DropBatch \/ Checkpoint \/ Wipe
    <2>1. batch' = <<>> /\ UNCHANGED <<waiting, queue, enqueued, discarded>>
      BY <1>9, SettlingSteps DEF Settled
    <2>2. Len(batch') = 0
      BY <2>1
    <2>3. WaitingOffered'
      BY <1>s, <2>1
    <2>4. CASE Commit
      <3>1. flushed' = flushed + Len(batch) /\ dropped' = dropped
        BY <2>4 DEF Commit
      <3>2. enqueued = Cardinality(waiting) + Len(queue) + 0
                       + (flushed + Len(batch)) + dropped + discarded
        BY <1>1, <1>b
      <3>3. Conservation'
        BY <2>1, <2>2, <3>1, <3>2 DEF Conservation
      <3> QED BY <2>3, <3>3 DEF Accounted
    <2>5. CASE DropBatch
      <3>1. flushed' = flushed /\ dropped' = dropped + Len(batch)
        BY <2>5 DEF DropBatch
      <3>2. enqueued = Cardinality(waiting) + Len(queue) + 0
                       + flushed + (dropped + Len(batch)) + discarded
        BY <1>1, <1>b
      <3>3. Conservation'
        BY <2>1, <2>2, <3>1, <3>2 DEF Conservation
      <3> QED BY <2>3, <3>3 DEF Accounted
    <2>6. CASE (DrainEnds /\ batch = <<>>) \/ Checkpoint \/ Wipe
      <3>1. flushed' = flushed /\ dropped' = dropped
        BY <2>6 DEF DrainEnds, Checkpoint, Wipe, stats
      <3>2. batch = <<>>
        BY <2>6 DEF Checkpoint, Wipe, IInv, BatchFitsPc
      <3>3. Conservation'
        BY <1>0, <2>1, <3>1, <3>2 DEF Conservation
      <3> QED BY <2>3, <3>3 DEF Accounted
    <2> QED BY <1>9, <2>4, <2>5, <2>6
  <1>10. CASE DiscardOne
    <2>1. Len(queue') = Len(queue) - 1 /\ discarded' = discarded + 1
          /\ UNCHANGED <<waiting, batch, enqueued, flushed, dropped>>
      BY <1>0, <1>10 DEF DiscardOne, TypeOK
    <2>2. enqueued = Cardinality(waiting) + (Len(queue) - 1) + Len(batch)
                     + flushed + dropped + (discarded + 1)
      BY <1>1, <1>b
    <2>3. Conservation'
      BY <2>1, <2>2 DEF Conservation
    <2> QED BY <1>s, <2>1, <2>3 DEF Accounted
  <1>11. CASE DiscardEnds
    <2>1. Len(batch') = 0 /\ discarded' = discarded + Len(batch)
          /\ UNCHANGED <<waiting, queue, enqueued, flushed, dropped>>
      BY <1>11 DEF DiscardEnds
    <2>2. enqueued = Cardinality(waiting) + Len(queue) + 0
                     + flushed + dropped + (discarded + Len(batch))
      BY <1>1, <1>b
    <2>3. Conservation'
      BY <2>1, <2>2 DEF Conservation
    <2> QED BY <1>s, <2>1, <2>3 DEF Accounted
  <1>12. CASE Exit
    <2>1. Len(queue') = 0 /\ discarded' = discarded + Len(queue)
          /\ UNCHANGED <<waiting, batch, enqueued, flushed, dropped>>
      BY <1>12 DEF Exit
    <2>2. enqueued = Cardinality(waiting) + 0 + Len(batch)
                     + flushed + dropped + (discarded + Len(queue))
      BY <1>1, <1>b
    <2>3. Conservation'
      BY <2>1, <2>2 DEF Conservation
    <2> QED BY <1>s, <2>1, <2>3 DEF Accounted
  <1> QED BY <1>2, <1>3, <1>4, <1>5, <1>6, <1>7, <1>8, <1>9, <1>10, <1>11,
             <1>12 DEF Next, LogTasks, Writer

-----------------------------------------------------------------------------
(* The ids of the rows.                                                    *)

LEMMA SameInterval ==
    ASSUME NEW m \in Nat, NEW n \in Nat, 1..m = 1..n
    PROVE  m = n
  <1>1. CASE m = 0
    BY <1>1
  <1>2. CASE m # 0
    <2>1. m \in 1..n
      BY <1>2
    <2>2. n \in 1..m
      BY <2>1
    <2> QED BY <2>1, <2>2
  <1> QED BY <1>1, <1>2

LEMMA IdsNext ==
    ASSUME IInv, [Next]_vars
    PROVE  IdsContiguous'
  <1>0. TypeOK /\ IdsContiguous /\ BatchFitsPc /\ OneCommandEach
    BY DEF IInv
  <1>n. /\ flushed \in Nat /\ flushed' \in Nat /\ Len(batch) \in Nat
        /\ nextId \in Nat \ {0} /\ nextId' \in Nat \ {0}
    BY NextType DEF TypeOK, IInv
  <1> USE DEF IdsContiguous
  <1>1. flushed' >= flushed
    <2>1. CASE UNCHANGED flushed
      BY <1>n, <2>1
    <2>2. CASE Commit
      BY <1>n, <2>2 DEF Commit
    <2>3. UNCHANGED flushed \/ Commit
      <3>1. CASE LogTasks \/ Control \/ UNCHANGED vars
        BY <3>1, ControlSteps
           DEF LogTasks, TrySend, TrySendFull, TrySendClosed, SendWaiting,
               SendFails, AbandonRotation, Send, vars, stats, IInv
      <3>2. CASE Writer
        BY <3>2 DEF Writer, Receive, TimerFires, TakeCommand, TakeResume,
                    TakeSealed, DrainOne, DrainEnds, Retry, DropBatch,
                    Checkpoint, DiscardOne, DiscardEnds, Wipe, Exit, stats
      <3> QED BY <3>1, <3>2 DEF Next
    <2> QED BY <2>1, <2>2, <2>3
  <1>2. ASSUME NEW s \in Stores, disk'[s] = disk[s]
        PROVE  \E n \in 0..flushed' : DOMAIN disk'[s] = 1..n
    <2>1. PICK n \in 0..flushed : DOMAIN disk[s] = 1..n
      BY <1>0
    <2>2. n \in 0..flushed'
      BY <1>n, <1>1, <2>1
    <2>3. DOMAIN disk'[s] = 1..n
      BY <1>2, <2>1
    <2> QED BY <2>2, <2>3
  <1>3. CASE UNCHANGED <<store, nextId, disk>>
    BY <1>0, <1>2, <1>3
  <1>4. CASE Commit
    <2>1. store' = store /\ store \in Stores
      BY <1>4, CommitRows DEF Commit
    <2>2. nextId - 1 <= flushed
      <3>1. PICK n \in 0..flushed : DOMAIN disk[store] = 1..n
        BY <1>0, <2>1
      <3>2. DOMAIN disk[store] = 1..(nextId - 1)
        BY <1>0, <2>1, StoreAssumption
      <3>3. n \in Nat /\ nextId - 1 \in Nat /\ 1..n = 1..(nextId - 1)
        BY <1>n, <3>1, <3>2
      <3>4. n = nextId - 1
        BY <3>3, SameInterval
      <3> QED BY <3>4
    <2>3. nextId' - 1 \in 0..flushed'
      <3>1. nextId' = nextId + Len(batch) /\ flushed' = flushed + Len(batch)
        BY <1>4 DEF Commit
      <3> QED BY <1>n, <2>2, <3>1
    <2> QED BY <1>2, <1>4, <2>1, <2>3, CommitRows
  <1>5. CASE Wipe /\ ~UNCHANGED <<store, nextId, disk>>
    <2>1. store' = store /\ nextId' = 1 /\ store \in Stores
          /\ disk' = [disk EXCEPT ![store] = <<>>]
      BY <1>0, <1>5 DEF Wipe, BatchFitsPc
    <2>2. DOMAIN disk'[store] = 1..0
      BY <1>0, <2>1 DEF TypeOK
    <2>3. \A s \in Stores \ {store} : disk'[s] = disk[s]
      BY <1>0, <2>1 DEF TypeOK
    <2>4. 0 \in 0..flushed'
      BY <1>n
    <2> QED BY <1>2, <2>1, <2>2, <2>3, <2>4
  <1>6. CASE TakeResume /\ ~UNCHANGED <<store, nextId, disk>>
    <2>1. Head(ctrl) = ctrl[1] /\ 1 \in 1..Len(ctrl)
      BY <1>0, <1>6 DEF TakeResume, TypeOK
    <2>2. Head(ctrl).store \in Stores
      BY <1>0, <1>6, <2>1 DEF TakeResume, OneCommandEach, Outstanding
    <2>3. PICK n \in 0..flushed : DOMAIN disk[Head(ctrl).store] = 1..n
      BY <1>0, <2>2
    <2>4. store' = Head(ctrl).store /\ nextId' = n + 1 /\ disk' = disk
      <3>1. n \in Nat
        BY <1>n, <2>3
      <3>2. FirstFreeId(Head(ctrl).store) = n + 1
        BY <2>3, <3>1, FirstFree
      <3> QED BY <1>6, <3>2 DEF TakeResume
    <2>5. DOMAIN disk'[store'] = 1..(nextId' - 1)
      BY <1>n, <2>3, <2>4
    <2> QED BY <1>2, <2>4, <2>5
  <1>7. CASE Checkpoint
    <2>1. disk' = disk /\ nextId' = nextId /\ (store' = NoStore \/ store' = store)
      BY <1>7 DEF Checkpoint
    <2> QED BY <1>0, <1>2, <2>1
  <1>8. UNCHANGED <<store, nextId, disk>> \/ Commit \/ Wipe \/ TakeResume \/ Checkpoint
    <2>1. CASE LogTasks \/ Control \/ UNCHANGED vars
      BY <2>1, ControlSteps
         DEF LogTasks, TrySend, TrySendFull, TrySendClosed, SendWaiting,
             SendFails, AbandonRotation, Send, vars, data, IInv
    <2>2. CASE Writer
      BY <2>2 DEF Writer, Receive, TimerFires, TakeCommand, TakeSealed,
                  DrainOne, DrainEnds, Retry, DropBatch, DiscardOne,
                  DiscardEnds, Exit, data
    <2> QED BY <2>1, <2>2 DEF Next
  <1> QED BY <1>3, <1>4, <1>5, <1>6, <1>7, <1>8

-----------------------------------------------------------------------------
(* The inductive invariant.                                                *)

LEMMA NoRows ==
    ASSUME NEW f, f = <<>>
    PROVE  f \in [DOMAIN f -> Items]
  <1>1. <<>> \in [DOMAIN <<>> -> Items]
    OBVIOUS
  <1> QED BY <1>1

LEMMA InitInv == Init => IInv
  <1> SUFFICES ASSUME Init PROVE IInv
    OBVIOUS
  <1>1. TypeOK
    <2>1. \A s \in Stores : disk[s] \in [DOMAIN disk[s] -> Items]
      <3>1. \A s \in Stores : disk[s] = <<>>
        BY DEF Init
      <3> QED BY <3>1, NoRows, Zenon
    <2>2. caller \in [Callers -> [at : {"idle", "waiting", "sealed", "done"},
                                  owed : SUBSET Items]]
      BY DEF Init, At
    <2>3. waiting \in SUBSET Items /\ queue \in Seq(Items) /\ batch \in Seq(Items)
          /\ Len(queue) <= QueueCapacity /\ Len(batch) <= BatchSize
      BY SizeAssumption DEF Init
    <2>4. store \in Stores \cup {NoStore} /\ nextId \in Nat \ {0}
          /\ DOMAIN disk = Stores /\ txOpen \in [Stores -> BOOLEAN]
      BY StoreAssumption DEF Init
    <2>5. ctrl \in Seq(Command) /\ opened \in Seq(Stores)
          /\ attempt \in 0..MaxRetries
      BY SizeAssumption, StoreAssumption DEF Init
    <2>6. timer \in BOOLEAN /\ pc = "select" /\ job \in Command \cup {NoJob}
      BY DEF Init
    <2>7. enqueued \in 0..MaxRecords /\ flushed \in Nat /\ dropped \in Nat
          /\ discarded \in Nat
      BY MaxRecordsAssumption DEF Init
    <2> QED BY <2>1, <2>2, <2>3, <2>4, <2>5, <2>6, <2>7 DEF TypeOK
  <1>2. OneCommandEach /\ JobFitsPc /\ BatchIsTimed /\ StoreOpened
    BY DEF Init, OneCommandEach, JobFitsPc, BatchIsTimed, StoreOpened
  <1>3. BatchFitsPc
    BY StoreAssumption, SizeAssumption DEF Init, BatchFitsPc
  <1>4. RotationSealed
    BY DEF Init, RotationSealed, At, Callers
  <1>5. WaitingOffered /\ Conservation
    BY FS_EmptySet DEF Init, WaitingOffered, Conservation
  <1>6. IdsContiguous
    <2>1. \A s \in Stores : DOMAIN disk[s] = 1..0
      BY DEF Init
    <2>2. store \in Stores /\ nextId = 1 /\ flushed = 0
      BY StoreAssumption DEF Init
    <2> QED BY <2>1, <2>2 DEF IdsContiguous
  <1> QED BY <1>1, <1>2, <1>3, <1>4, <1>5, <1>6 DEF IInv

LEMMA NextInv == IInv /\ [Next]_vars => IInv'
  BY NextType, OneCommandNext, FitsPcNext, RotationSealedNext, AccountedNext,
     IdsNext DEF IInv, FitsPc, Accounted

LEMMA Invariance == Spec => []IInv
  BY InitInv, NextInv, PTL DEF Spec

(* The counters, the channels and the writer's state keep their types; the *)
(* batch and the queue keep their bounds.                                  *)
THEOREM WriterTypeCorrect == Spec => []TypeOK
  <1>1. IInv => TypeOK
    BY DEF IInv
  <1> QED BY <1>1, Invariance, PTL

(* Every record the log tasks offered is waiting, queued, batched, flushed,*)
(* dropped or discarded, exactly once: whatever fails, the statistics and  *)
(* the history of discards account for it.                                 *)
THEOREM RecordsConserved == Spec => []Conservation
  <1>1. IInv => Conservation
    BY DEF IInv
  <1> QED BY <1>1, Invariance, PTL

(* The ids of every store are 1 to n and next_id_value follows them, so    *)
(* that the writer's INSERT never meets a primary key that exists.         *)
THEOREM IdsStayContiguous == Spec => []IdsContiguous
  <1>1. IInv => IdsContiguous
    BY DEF IInv
  <1> QED BY <1>1, Invariance, PTL

(* A rotation that was told the writer is sealed renames a file to which   *)
(* nothing is written and for which nothing is in the batch.               *)
THEOREM SealIsKept == Spec => []SealHolds
  <1>1. IInv => SealHolds
    BY DEF IInv, RotationSealed, BatchFitsPc, SealHolds
  <1> QED BY <1>1, Invariance, PTL

(* A batch in the select loop has its flush timer armed.                   *)
THEOREM BatchStaysTimed == Spec => []BatchIsTimed
  <1>1. IInv => BatchIsTimed
    BY DEF IInv
  <1> QED BY <1>1, Invariance, PTL

-----------------------------------------------------------------------------
(* The refinement of the log of records.                                   *)

LEMMA MoveHead ==
    ASSUME NEW S, NEW b \in Seq(S), NEW q \in Seq(S), q # <<>>
    PROVE  Append(b, Head(q)) \o Tail(q) = b \o q
  <1>1. Head(q) \in S /\ Tail(q) \in Seq(S) /\ Len(Tail(q)) = Len(q) - 1
        /\ Len(q) \in Nat /\ Len(q) >= 1 /\ Len(b) \in Nat
    BY HeadTailProperties, LenProperties
  <1>2. /\ Append(b, Head(q)) \in Seq(S) /\ Len(Append(b, Head(q))) = Len(b) + 1
        /\ \A i \in 1..Len(b) : Append(b, Head(q))[i] = b[i]
        /\ Append(b, Head(q))[Len(b) + 1] = q[1]
    BY <1>1, AppendProperties
  <1> DEFINE l == Append(b, Head(q)) \o Tail(q)
             r == b \o q
  <1>3. l \in Seq(S) /\ r \in Seq(S) /\ Len(l) = Len(r) /\ Len(r) = Len(b) + Len(q)
    BY <1>1, <1>2, ConcatProperties
  <1>4. ASSUME NEW i \in 1..Len(r)
        PROVE  l[i] = r[i]
    <2>1. CASE i <= Len(b)
      BY <1>1, <1>2, <1>3, <2>1, ConcatProperties
    <2>2. CASE i = Len(b) + 1
      <3>1. l[i] = Append(b, Head(q))[i]
        BY <1>1, <1>2, <2>2, ConcatProperties
      <3>2. r[i] = q[1]
        BY <1>1, <2>2, ConcatProperties
      <3> QED BY <1>2, <2>2, <3>1, <3>2
    <2>3. CASE i > Len(b) + 1
      <3>1. l[i] = Tail(q)[i - (Len(b) + 1)]
        BY <1>1, <1>2, <1>3, <2>3, ConcatProperties
      <3>2. r[i] = q[i - Len(b)]
        BY <1>1, <1>3, <2>3, ConcatProperties
      <3>3. Tail(q)[i - (Len(b) + 1)] = q[i - Len(b)]
        BY <1>1, <1>3, <2>3, HeadTailProperties
      <3> QED BY <3>1, <3>2, <3>3
    <2> QED BY <1>1, <1>3, <2>1, <2>2, <2>3
  <1> HIDE DEF l, r
  <1>5. l = r
    BY <1>3, <1>4, SeqEqual
  <1> QED BY <1>5 DEF l, r

LEMMA AppendToQueue ==
    ASSUME NEW S, NEW b \in Seq(S), NEW q \in Seq(S), NEW i \in S
    PROVE  b \o Append(q, i) = Append(b \o q, i)
  BY AppendIsConcat, ConcatProperties, ConcatAssociative

LEMMA FrontAndRest ==
    ASSUME NEW S, NEW b \in Seq(S), NEW q \in Seq(S)
    PROVE  /\ SubSeq(b \o q, 1, Len(b)) = b
           /\ SubSeq(b \o q, Len(b) + 1, Len(b \o q)) = q
  <1>1. Len(b) \in Nat /\ Len(q) \in Nat /\ Len(b \o q) = Len(b) + Len(q)
        /\ b \o q \in Seq(S)
    BY LenProperties, ConcatProperties
  <1>2. SubSeq(b \o q, 1, Len(b)) = b
    BY <1>1, SubSeqOfConcat1, SubSeqFull
  <1>3. SubSeq(b \o q, Len(b) + 1, Len(b \o q)) = q
    BY <1>1, SubSeqOfConcat2, SubSeqFull
  <1> QED BY <1>2, <1>3

LEMMA UnsettledType ==
    ASSUME TypeOK
    PROVE  /\ Pending \in Seq(Items) /\ Len(Pending) = Len(batch) + Len(queue)
           /\ Unsettled \in Seq(Items)
  <1>1. queue \in Seq(Items) /\ batch \in Seq(Items)
    BY DEF TypeOK
  <1>2. Pending \in Seq(Items) /\ Len(Pending) = Len(batch) + Len(queue)
    BY <1>1, ConcatProperties DEF Pending
  <1> QED BY <1>2 DEF Unsettled

(* Steps that the log does not see. *)
Unseen == /\ Unsettled' = Unsettled
          /\ UNCHANGED <<disk, store>>
          /\ pc # "exited" /\ pc' # "exited"

LEMMA UnseenStutters ==
    ASSUME Unseen
    PROVE  UNCHANGED Log!vars
  <1>1. (pc' = "exited") = (pc = "exited")
    BY DEF Unseen
  <1> QED BY <1>1 DEF Unseen, Log!vars

(* The log tasks: a record is accepted when it enters the channel. *)
LEMMA LogTasksImplement ==
    ASSUME IInv, LogTasks
    PROVE  [Log!Next]_(Log!vars)
  <1>0. /\ queue \in Seq(Items) /\ batch \in Seq(Items) /\ enqueued \in Nat
        /\ MaxRecords \in Nat
    BY MaxRecordsAssumption DEF IInv, TypeOK
  <1>1. ASSUME NEW i \in Items, queue' = Append(queue, i), pc # "exited",
               UNCHANGED <<batch, disk, store, pc>>
        PROVE  [Log!Next]_(Log!vars)
    <2>1. CASE pc = "discard"
      <3>1. Unseen
        BY <1>1, <2>1 DEF Unseen, Unsettled
      <3> QED BY <3>1, UnseenStutters
    <2>2. CASE pc # "discard"
      <3>1. Pending' = Append(Pending, i)
        BY <1>0, <1>1, AppendToQueue DEF Pending
      <3>2. Unsettled' = Append(Unsettled, i)
        BY <1>1, <2>2, <3>1 DEF Unsettled
      <3>3. (pc' = "exited") = (pc = "exited")
        BY <1>1
      <3>4. Log!Accept(i)
        BY <1>1, <3>2, <3>3 DEF Log!Accept
      <3> QED BY <3>4 DEF Log!Next
    <2> QED BY <2>1, <2>2
  <1>2. CASE TrySend
    <2>1. enqueued + 1 \in Items
      BY <1>0, <1>2 DEF TrySend, Items
    <2> QED BY <1>1, <1>2, <2>1 DEF TrySend, Running, data
  <1>3. ASSUME NEW i \in Items, SendWaiting(i)
        PROVE  [Log!Next]_(Log!vars)
    BY <1>1, <1>3 DEF SendWaiting, Running, data
  <1>4. CASE \/ TrySendFull \/ TrySendClosed
             \/ \E i \in Items : SendFails(i)
    <2>1. UNCHANGED <<queue, batch, disk, store, pc>>
      BY <1>4 DEF TrySendFull, TrySendClosed, SendFails, work, data
    <2>2. Unsettled' = Unsettled
      BY <2>1 DEF Unsettled, Pending
    <2>3. (pc' = "exited") = (pc = "exited")
      BY <2>1
    <2> QED BY <2>1, <2>2, <2>3 DEF Log!vars
  <1> QED BY <1>2, <1>3, <1>4 DEF LogTasks

(* The steps of the writer that move records to its batch, take commands   *)
(* or only move the task on.                                               *)
LEMMA UnseenSteps ==
    ASSUME IInv,
           \/ Receive \/ TimerFires \/ DrainOne
           \/ (TakeCommand /\ Head(ctrl).op # "reset")
           \/ TakeSealed \/ Retry \/ DiscardOne \/ DiscardEnds
           \/ (DrainEnds /\ batch # <<>>)
    PROVE  UNCHANGED Log!vars
  <1>0. /\ queue \in Seq(Items) /\ batch \in Seq(Items)
    BY DEF IInv, TypeOK
  <1>1. CASE Receive \/ DrainOne
    <2>1. Pending' = Pending
      BY <1>0, <1>1, MoveHead DEF Receive, DrainOne, Pending
    <2>2. pc # "discard" /\ pc' # "discard" /\ pc # "exited" /\ pc' # "exited"
      BY <1>1 DEF Receive, DrainOne, Selecting
    <2>3. Unseen
      BY <1>1, <2>1, <2>2 DEF Receive, DrainOne, Unseen, Unsettled, data
    <2> QED BY <2>3, UnseenStutters
  <1>2. CASE \/ TimerFires \/ (TakeCommand /\ Head(ctrl).op # "reset")
             \/ TakeSealed \/ Retry \/ (DrainEnds /\ batch # <<>>)
    <2>1. UNCHANGED <<queue, batch, disk, store>>
      BY <1>2 DEF TimerFires, TakeCommand, TakeSealed, Retry, DrainEnds, work, data
    <2>2. pc # "discard" /\ pc' # "discard" /\ pc # "exited" /\ pc' # "exited"
      BY <1>2 DEF TimerFires, TakeCommand, TakeSealed, Retry, DrainEnds, Goto,
                  Selecting
    <2>3. Unseen
      BY <2>1, <2>2 DEF Unseen, Unsettled, Pending
    <2> QED BY <2>3, UnseenStutters
  <1>3. CASE DiscardOne
    BY <1>3, UnseenStutters DEF DiscardOne, Unseen, Unsettled, data
  <1>4. CASE DiscardEnds
    <2>1. Pending' = <<>>
      BY <1>4 DEF DiscardEnds, Pending
    <2> QED BY <1>4, <2>1, UnseenStutters DEF DiscardEnds, Unseen, Unsettled, data
  <1> QED BY <1>1, <1>2, <1>3, <1>4

(* What a batch that was committed adds to the rows of its store.          *)
LEMMA CommitAppends ==
    ASSUME IInv, Commit
    PROVE  /\ store \in Stores /\ disk[store] \in Seq(Items)
           /\ disk' = [disk EXCEPT ![store] = @ \o batch]
  <1> DEFINE rows == [id \in DOMAIN disk[store] \cup BatchIds |->
                        IF id \in BatchIds THEN batch[id - nextId + 1]
                                           ELSE disk[store][id]]
             n == nextId - 1
  <1>1. store \in Stores
    BY DEF Commit, IInv, BatchFitsPc
  <1>2. disk' = [disk EXCEPT ![store] = rows]
    BY DEF Commit
  <1>3. /\ batch \in Seq(Items) /\ nextId \in Nat \ {0} /\ n \in Nat
        /\ Len(batch) \in Nat
        /\ disk[store] \in [DOMAIN disk[store] -> Items]
    BY <1>1 DEF IInv, TypeOK
  <1>4. DOMAIN disk[store] = 1..n
    BY <1>1, StoreAssumption DEF IInv, IdsContiguous
  <1>5. disk[store] \in Seq(Items) /\ Len(disk[store]) = n
    <2>1. disk[store] \in [1..n -> Items]
      BY <1>3, <1>4
    <2> QED BY <1>3, <2>1
  <1>6. /\ disk[store] \o batch \in Seq(Items)
        /\ Len(disk[store] \o batch) = n + Len(batch)
        /\ \A i \in 1..(n + Len(batch)) :
              (disk[store] \o batch)[i] = IF i <= n THEN disk[store][i]
                                                    ELSE batch[i - n]
    BY <1>3, <1>5, ConcatProperties
  <1>7. DOMAIN rows = 1..(n + Len(batch))
    BY <1>3, <1>4 DEF BatchIds
  <1>8. \A i \in 1..(n + Len(batch)) :
           rows[i] = IF i <= n THEN disk[store][i] ELSE batch[i - n]
    <2> TAKE i \in 1..(n + Len(batch))
    <2>1. rows[i] = IF i \in BatchIds THEN batch[i - nextId + 1] ELSE disk[store][i]
      BY <1>7
    <2>2. i \in BatchIds <=> ~(i <= n)
      BY <1>3 DEF BatchIds
    <2>3. i - nextId + 1 = i - n
      BY <1>3
    <2> QED BY <2>1, <2>2, <2>3
  <1>9. rows = disk[store] \o batch
    <2>1. disk[store] \o batch = [i \in 1..(n + Len(batch)) |-> (disk[store] \o batch)[i]]
      BY <1>3, <1>6
    <2>2. rows = [i \in 1..(n + Len(batch)) |-> rows[i]]
      BY <1>7
    <2>3. \A i \in 1..(n + Len(batch)) : rows[i] = (disk[store] \o batch)[i]
      BY <1>6, <1>8
    <2> HIDE DEF rows
    <2> QED BY <2>1, <2>2, <2>3
  <1> HIDE DEF rows
  <1> QED BY <1>1, <1>2, <1>5, <1>9

(* Where a settled step leaves the task: it holds no batch, nothing is     *)
(* being discarded and it goes on.                                         *)
LEMMA SettledGoesOn ==
    ASSUME IInv, Settled
    PROVE  /\ pc' # "discard" /\ pc' # "exited"
           /\ Unsettled' = queue
  <1>1. pc' # "discard" /\ pc' # "exited"
    BY DEF Settled, Settles, Finish, Goto
  <1>2. queue \in Seq(Items) /\ queue' = queue /\ batch' = <<>>
    BY DEF IInv, TypeOK, Settled
  <1>3. Pending' = queue
    BY <1>2, ConcatEmptySeq DEF Pending
  <1> QED BY <1>1, <1>3 DEF Unsettled

DiskIsMap == disk = [s \in Stores |-> disk[s]]

LEMMA DiskNext ==
    ASSUME IInv, DiskIsMap, [Next]_vars
    PROVE  DiskIsMap'
  <1>0. DOMAIN disk = Stores
    BY DEF IInv, TypeOK
  <1>1. CASE disk' = disk
    BY <1>1 DEF DiskIsMap
  <1>2. ASSUME NEW x, disk' = [disk EXCEPT ![store] = x]
        PROVE  DiskIsMap'
    <2>1. DOMAIN disk' = Stores
      BY <1>0, <1>2
    <2>2. disk' = [s \in Stores |-> disk'[s]]
      BY <1>2, <2>1
    <2> QED BY <2>2 DEF DiskIsMap
  <1>3. CASE Commit
    BY <1>2, <1>3, CommitAppends
  <1>4. CASE Wipe
    BY <1>1, <1>2, <1>4 DEF Wipe
  <1>5. disk' = disk \/ Commit \/ Wipe
    <2>1. CASE LogTasks \/ Control \/ UNCHANGED vars
      BY <2>1, ControlSteps
         DEF LogTasks, TrySend, TrySendFull, TrySendClosed, SendWaiting,
             SendFails, AbandonRotation, Send, vars, data, IInv
    <2>2. CASE Writer
      BY <2>2 DEF Writer, Receive, TimerFires, TakeCommand, TakeResume,
                  TakeSealed, DrainOne, DrainEnds, Retry, DropBatch, Checkpoint,
                  DiscardOne, DiscardEnds, Exit, data
    <2> QED BY <2>1, <2>2 DEF Next
  <1> QED BY <1>1, <1>3, <1>4, <1>5

(* The end of a batch: its records are the next rows, or are lost. *)
LEMMA BatchImplements ==
    ASSUME IInv, DiskIsMap, Commit \/ DropBatch
    PROVE  [Log!Next]_(Log!vars)
  <1> DEFINE n == Len(batch)
  <1>1. /\ queue \in Seq(Items) /\ batch \in Seq(Items)
        /\ n \in Nat /\ n <= BatchSize /\ BatchSize \in Nat
        /\ Len(Pending) = n + Len(queue) /\ Len(queue) \in Nat
    BY UnsettledType, SizeAssumption DEF IInv, TypeOK
  <1>2. pc = "flush" /\ store \in Stores /\ store # NoStore /\ store' = store
    BY StoreAssumption DEF Commit, DropBatch, IInv, BatchFitsPc
  <1>3. /\ pc' # "discard" /\ pc' # "exited" /\ Unsettled' = queue
    BY SettlingSteps, SettledGoesOn
  <1>4. Unsettled = batch \o queue
    BY <1>2 DEF Unsettled, Pending
  <1>5. (pc' = "exited") = (pc = "exited")
    BY <1>2, <1>3
  <1>6. CASE n = 0
    <2>1. batch = <<>>
      BY <1>1, <1>6
    <2>2. Unsettled = queue
      BY <1>1, <1>4, <2>1, ConcatEmptySeq
    <2>3. disk' = disk
      <3>1. CASE Commit
        <4>1. /\ disk' = [disk EXCEPT ![store] = @ \o batch]
              /\ disk[store] \in Seq(Items)
          BY <3>1, CommitAppends
        <4>2. disk[store] \o batch = disk[store]
          BY <2>1, <4>1, ConcatEmptySeq
        <4>3. disk' = [disk EXCEPT ![store] = disk[store]]
          BY <4>1, <4>2
        <4> QED BY <4>3 DEF DiskIsMap
      <3>2. CASE DropBatch
        BY <3>2 DEF DropBatch
      <3> QED BY <3>1, <3>2
    <2> QED BY <1>2, <1>3, <1>5, <2>2, <2>3 DEF Log!vars
  <1>7. CASE n # 0
    <2>1. n \in 1..BatchSize /\ n <= Len(Unsettled)
      BY <1>1, <1>4, <1>7 DEF Pending
    <2>2. Log!Front(n) = batch /\ Log!Rest(n) = queue
      BY <1>1, <1>4, FrontAndRest DEF Log!Front, Log!Rest
    <2>3. CASE Commit
      <3>1. disk' = [disk EXCEPT ![store] = @ \o Log!Front(n)]
        BY <2>2, <2>3, CommitAppends
      <3>2. Log!Persist(n)
        BY <1>2, <1>3, <1>5, <2>1, <2>2, <3>1 DEF Log!Persist
      <3> QED BY <2>1, <3>2 DEF Log!Next
    <2>4. CASE DropBatch
      <3>1. Log!Lose(n)
        BY <1>2, <1>3, <1>5, <2>1, <2>2, <2>4 DEF Log!Lose, DropBatch
      <3> QED BY <2>1, <3>1 DEF Log!Next
    <2> QED BY <2>3, <2>4
  <1> QED BY <1>6, <1>7

(* Reset, seal, resume and the end of the task. *)
LEMMA CommandImplements ==
    ASSUME IInv,
           \/ (TakeCommand /\ Head(ctrl).op = "reset") \/ TakeResume
           \/ Checkpoint \/ Wipe \/ Exit \/ (DrainEnds /\ batch = <<>>)
    PROVE  [Log!Next]_(Log!vars)
  <1>0. /\ queue \in Seq(Items) /\ batch \in Seq(Items) /\ BatchFitsPc
        /\ NoStore \notin Stores
    BY StoreAssumption DEF IInv, TypeOK
  <1>1. CASE TakeCommand /\ Head(ctrl).op = "reset"
    <2>1. /\ pc = "select" /\ pc' = "discard" /\ store # NoStore
          /\ UNCHANGED <<disk, store>>
      BY <1>1 DEF TakeCommand, Selecting, data
    <2>2. (pc' = "exited") = (pc = "exited") /\ Unsettled' = <<>>
      BY <2>1 DEF Unsettled
    <2>3. Log!Forget
      BY <2>1, <2>2 DEF Log!Forget
    <2> QED BY <2>3 DEF Log!Next
  <1>2. CASE TakeResume
    <2>1. /\ UNCHANGED <<queue, batch, disk, pc>>
          /\ store' \in {store, Head(ctrl).store}
      BY <1>2 DEF TakeResume, work
    <2>2. (pc' = "exited") = (pc = "exited") /\ Unsettled' = Unsettled
      BY <2>1 DEF Unsettled, Pending
    <2>3. Head(ctrl) = ctrl[1] /\ 1 \in 1..Len(ctrl)
      BY <1>2 DEF TakeResume, IInv, TypeOK
    <2>4. Head(ctrl).store \in Stores
      BY <1>2, <2>3 DEF TakeResume, IInv, OneCommandEach, Outstanding
    <2>5. CASE store' = store
      BY <2>1, <2>2, <2>5 DEF Log!vars
    <2>6. CASE store' = Head(ctrl).store
      <3>1. Log!Resume(Head(ctrl).store)
        BY <2>1, <2>2, <2>6 DEF Log!Resume
      <3> QED BY <2>4, <3>1 DEF Log!Next
    <2> QED BY <2>1, <2>5, <2>6
  <1>3. CASE Checkpoint \/ Wipe \/ (DrainEnds /\ batch = <<>>)
    <2>1. /\ pc \in {"checkpoint", "wipe", "drain"} /\ batch = <<>>
          /\ store \in Stores
      BY <1>0, <1>3 DEF Checkpoint, Wipe, DrainEnds, BatchFitsPc
    <2>2. Unsettled = queue
      BY <1>0, <2>1, ConcatEmptySeq DEF Unsettled, Pending
    <2>3. /\ pc' # "discard" /\ pc' # "exited" /\ Unsettled' = queue
      BY <1>3, SettlingSteps, SettledGoesOn
    <2>4. (pc' = "exited") = (pc = "exited") /\ Unsettled' = Unsettled
      BY <2>1, <2>2, <2>3
    <2>5. CASE UNCHANGED <<disk, store>>
      BY <2>4, <2>5 DEF Log!vars
    <2>6. CASE Checkpoint /\ store' # store
      <3>1. store' = NoStore /\ disk' = disk
        BY <2>6 DEF Checkpoint
      <3>2. Log!Seal
        BY <2>4, <3>1 DEF Log!Seal
      <3> QED BY <3>2 DEF Log!Next
    <2>7. CASE Wipe /\ disk' # disk
      <3>1. disk' = [disk EXCEPT ![store] = <<>>] /\ store' = store
        BY <2>7 DEF Wipe
      <3>2. store # NoStore
        BY <1>0, <2>1
      <3>3. Log!Wipe
        BY <2>4, <3>1, <3>2 DEF Log!Wipe
      <3> QED BY <3>3 DEF Log!Next
    <2>8. \/ UNCHANGED <<disk, store>>
          \/ (Checkpoint /\ store' # store) \/ (Wipe /\ disk' # disk)
      BY <1>3 DEF Checkpoint, Wipe, DrainEnds, data
    <2> QED BY <2>5, <2>6, <2>7, <2>8
  <1>4. CASE Exit
    <2>1. /\ batch' = <<>> /\ queue' = <<>> /\ pc' = "exited"
          /\ UNCHANGED <<disk, store>>
      BY <1>0, <1>4 DEF Exit, BatchFitsPc, data
    <2>2. Pending' = <<>>
      BY <2>1 DEF Pending
    <2>3. (pc' = "exited") = TRUE /\ Unsettled' = <<>>
      BY <2>1, <2>2 DEF Unsettled
    <2>4. Log!Close
      BY <2>1, <2>3 DEF Log!Close
    <2> QED BY <2>4 DEF Log!Next
  <1> QED BY <1>1, <1>2, <1>3, <1>4

LEMMA StepImplements ==
    ASSUME IInv, DiskIsMap, [Next]_vars
    PROVE  [Log!Next]_(Log!vars)
  <1>1. CASE LogTasks
    BY <1>1, LogTasksImplement
  <1>2. CASE Control \/ UNCHANGED vars
    <2>1. UNCHANGED <<queue, batch, disk, store, pc>>
      BY <1>2, ControlSteps
         DEF AbandonRotation, Send, vars, work, data, IInv
    <2>2. (pc' = "exited") = (pc = "exited") /\ Unsettled' = Unsettled
      BY <2>1 DEF Unsettled, Pending
    <2> QED BY <2>1, <2>2 DEF Log!vars
  <1>3. CASE Writer
    <2>1. CASE \/ Receive \/ TimerFires \/ DrainOne
               \/ (TakeCommand /\ Head(ctrl).op # "reset")
               \/ TakeSealed \/ Retry \/ DiscardOne \/ DiscardEnds
               \/ (DrainEnds /\ batch # <<>>)
      BY <2>1, UnseenSteps
    <2>2. CASE Commit \/ DropBatch
      BY <2>2, BatchImplements
    <2>3. CASE \/ (TakeCommand /\ Head(ctrl).op = "reset") \/ TakeResume
               \/ Checkpoint \/ Wipe \/ Exit \/ (DrainEnds /\ batch = <<>>)
      BY <2>3, CommandImplements
    <2> QED BY <1>3, <2>1, <2>2, <2>3 DEF Writer
  <1> QED BY <1>1, <1>2, <1>3 DEF Next

LEMMA InitImplements == Init => Log!Init
  <1> SUFFICES ASSUME Init PROVE Log!Init
    OBVIOUS
  <1>1. Unsettled = <<>> /\ (pc = "exited") = FALSE
    BY DEF Init, Unsettled, Pending
  <1> QED BY <1>1 DEF Init, Log!Init

(* The writer implements the log of AuditLog.tla: records are taken in     *)
(* order, and leave from the front, a group at a time, to become the next  *)
(* rows of the current store or to be lost as a whole; a reset forgets     *)
(* what is pending and then the rows, and nothing is written while no      *)
(* store is current.                                                       *)
THEOREM WriterImplementsLog == Spec => ImplementsLog
  <1>1. Init => DiskIsMap
    BY DEF Init, DiskIsMap
  <1>2. IInv /\ DiskIsMap /\ [Next]_vars => DiskIsMap'
    BY DiskNext
  <1>3. IInv /\ DiskIsMap /\ [Next]_vars => [Log!Next]_(Log!vars)
    BY StepImplements
  <1> QED BY <1>1, <1>2, <1>3, InitImplements, Invariance, PTL
          DEF Spec, ImplementsLog, Log!Spec

-----------------------------------------------------------------------------
(* The barrier of Flush and Seal.                                          *)

(* Records that entered the channel: they were offered and do not wait.    *)
Entered(S) == \A i \in S : i <= enqueued /\ i \notin waiting

(* What is pending, and what a caller found pending at its call, entered   *)
(* the channel before what is still to enter it.                           *)
OfferedOnce == /\ Entered(Elems(Pending))
               /\ \A c \in Callers : Entered(caller[c].owed)

(* Once the drain of a Flush or Seal met the end of the queue, nothing in  *)
(* the queue was there at the call.                                        *)
QueueMet == \/ /\ pc = "flush"
               /\ job.op \in {"flush", "seal"}
               /\ Len(batch) < BatchSize
            \/ pc = "checkpoint"

Barred == QueueMet => caller[job.from].owed \cap Elems(queue) = {}

LEMMA ElemsFacts ==
    ASSUME NEW S, NEW s \in Seq(S)
    PROVE  /\ Elems(<<>>) = {}
           /\ \A x \in S : Elems(Append(s, x)) = Elems(s) \cup {x}
           /\ s # <<>> => /\ Elems(Tail(s)) \subseteq Elems(s)
                          /\ Head(s) \in Elems(s)
           /\ \A t \in Seq(S) : Elems(s \o t) = Elems(s) \cup Elems(t)
  <1>0. \A t \in Seq(S) : /\ Elems(t) = {t[i] : i \in 1..Len(t)}
                          /\ Len(t) \in Nat
    BY LenProperties DEF Elems
  <1>1. Elems(<<>>) = {}
    BY DEF Elems
  <1>2. ASSUME NEW x \in S
        PROVE  Elems(Append(s, x)) = Elems(s) \cup {x}
    <2>1. /\ Append(s, x) \in Seq(S) /\ Len(Append(s, x)) = Len(s) + 1
          /\ \A i \in 1..Len(s) : Append(s, x)[i] = s[i]
          /\ Append(s, x)[Len(s) + 1] = x
      BY AppendProperties
    <2>2. \A i : i \in 1..(Len(s) + 1) <=> i \in 1..Len(s) \/ i = Len(s) + 1
      BY <1>0
    <2>3. /\ Elems(s) = {s[i] : i \in 1..Len(s)}
          /\ Elems(Append(s, x)) = {Append(s, x)[i] : i \in 1..(Len(s) + 1)}
      BY <1>0, <2>1
    <2>4. \A e \in Elems(Append(s, x)) : e \in Elems(s) \/ e = x
      BY <2>1, <2>2, <2>3
    <2>5. \A e \in Elems(s) : e \in Elems(Append(s, x))
      <3> TAKE e \in Elems(s)
      <3>1. PICK i \in 1..Len(s) : e = s[i]
        BY <2>3
      <3>2. i \in 1..(Len(s) + 1) /\ Append(s, x)[i] = e
        BY <2>1, <2>2, <3>1
      <3> QED BY <2>3, <3>2
    <2>6. x \in Elems(Append(s, x))
      <3>1. Len(s) + 1 \in 1..(Len(s) + 1)
        BY <2>2
      <3> QED BY <2>1, <2>3, <3>1
    <2> QED BY <2>4, <2>5, <2>6
  <1>3. ASSUME s # <<>>
        PROVE  Elems(Tail(s)) \subseteq Elems(s) /\ Head(s) \in Elems(s)
    <2>1. /\ Tail(s) \in Seq(S) /\ Len(Tail(s)) = Len(s) - 1
          /\ \A i \in 1..Len(Tail(s)) : Tail(s)[i] = s[i + 1]
      BY <1>3, HeadTailProperties
    <2>2. \A i \in 1..Len(Tail(s)) : i + 1 \in 1..Len(s)
      BY <1>0, <2>1
    <2>3. Elems(Tail(s)) \subseteq Elems(s)
      <3> SUFFICES ASSUME NEW e \in Elems(Tail(s))
                   PROVE  e \in Elems(s)
        OBVIOUS
      <3>1. PICK i \in 1..Len(Tail(s)) : e = Tail(s)[i]
        BY <1>0, <2>1
      <3>2. i + 1 \in 1..Len(s) /\ s[i + 1] = e
        BY <2>1, <2>2, <3>1
      <3> QED BY <1>0, <3>2
    <2>4. 1 \in 1..Len(s) /\ Head(s) = s[1]
      BY <1>0, <1>3
    <2> QED BY <1>0, <2>3, <2>4
  <1>4. ASSUME NEW t \in Seq(S)
        PROVE  Elems(s \o t) = Elems(s) \cup Elems(t)
    <2>1. /\ s \o t \in Seq(S) /\ Len(s \o t) = Len(s) + Len(t)
          /\ \A i \in 1..(Len(s) + Len(t)) :
                (s \o t)[i] = IF i <= Len(s) THEN s[i] ELSE t[i - Len(s)]
      BY ConcatProperties
    <2>2. ASSUME NEW i \in 1..(Len(s) + Len(t))
          PROVE  (s \o t)[i] \in Elems(s) \cup Elems(t)
      <3>1. CASE i <= Len(s)
        <4>1. i \in 1..Len(s)
          BY <1>0, <3>1
        <4> QED BY <1>0, <2>1, <3>1, <4>1
      <3>2. CASE ~(i <= Len(s))
        <4>1. i - Len(s) \in 1..Len(t)
          BY <1>0, <3>2
        <4> QED BY <1>0, <2>1, <3>2, <4>1
      <3> QED BY <3>1, <3>2
    <2>3. ASSUME NEW i \in 1..Len(s)
          PROVE  s[i] \in Elems(s \o t)
      <3>1. i \in 1..(Len(s) + Len(t)) /\ i <= Len(s)
        BY <1>0
      <3> QED BY <1>0, <2>1, <3>1
    <2>4. ASSUME NEW i \in 1..Len(t)
          PROVE  t[i] \in Elems(s \o t)
      <3>1. /\ i + Len(s) \in 1..(Len(s) + Len(t)) /\ ~(i + Len(s) <= Len(s))
            /\ (i + Len(s)) - Len(s) = i
        BY <1>0
      <3> QED BY <1>0, <2>1, <3>1
    <2>5. Elems(s \o t) = {(s \o t)[i] : i \in 1..(Len(s) + Len(t))}
      BY <1>0, <2>1
    <2>6. Elems(s \o t) \subseteq Elems(s) \cup Elems(t)
      BY <2>2, <2>5
    <2>7. Elems(s) \subseteq Elems(s \o t) /\ Elems(t) \subseteq Elems(s \o t)
      BY <1>0, <2>3, <2>4
    <2> QED BY <2>6, <2>7
  <1> QED BY <1>1, <1>2, <1>3, <1>4

(* What a caller found pending was pending, and its list does not grow.    *)
LEMMA OwedNext ==
    ASSUME IInv, [Next]_vars, NEW c \in Callers
    PROVE  caller'[c].owed \subseteq caller[c].owed \cup Elems(Pending)
  <1>0. DOMAIN caller = Callers /\ TypeOK
    BY DEF IInv, TypeOK
  <1>1. CASE UNCHANGED caller
    BY <1>1
  <1>2. CASE AbandonRotation
    <2>1. caller'[c] \in {caller[c], At("idle")}
      BY <1>0, <1>2 DEF AbandonRotation
    <2> QED BY <2>1 DEF At
  <1>3. CASE Sends
    <2>1. PICK d \in Callers, op \in Ops, target \in Stores \cup {NoStore} :
                  Send(d, op, target)
      BY <1>3 DEF Sends
    <2>2. caller'[c] = IF c = d THEN [at |-> "waiting",
                                      owed |-> IF op \in {"resume", "reset"}
                                               THEN {} ELSE Elems(Pending)]
                                ELSE caller[c]
      BY <1>0, <2>1 DEF Send
    <2> QED BY <2>2
  <1>4. CASE AnswersHead \/ Finishes
    <2>1. ASSUME NEW cmd, NEW result, caller' = Answered(cmd, result)
          PROVE  caller'[c] \in {caller[c], At("sealed"), At("idle")}
      BY <1>0, <2>1 DEF Answered
    <2>2. caller'[c] \in {caller[c], At("sealed"), At("idle")}
      BY <1>4, <2>1 DEF AnswersHead, Finishes, Finish
    <2> QED BY <2>2 DEF At
  <1>5. CASE Exit
    <2>1. caller'[c] \in {At("done"), At("idle"), caller[c]}
      BY <1>5 DEF Exit
    <2> QED BY <2>1 DEF At
  <1>6. CASE Takes
    BY <1>6 DEF Takes
  <1> QED BY <1>1, <1>2, <1>3, <1>4, <1>5, <1>6, NextFlows DEF Flows

(* Only a record that enters the channel is new among the pending ones.    *)
LEMMA PendingNext ==
    ASSUME IInv, [Next]_vars
    PROVE  /\ Elems(Pending) = Elems(batch) \cup Elems(queue)
           /\ \/ /\ Elems(Pending') \subseteq Elems(Pending)
                 /\ \/ UNCHANGED <<waiting, enqueued>>
                    \/ TrySendFull \/ TrySendClosed
                    \/ \E i \in Items : SendFails(i)
              \/ \E i \in Items : /\ \/ TrySend /\ i = enqueued + 1
                                     \/ SendWaiting(i)
                                  /\ Elems(Pending') = Elems(Pending) \cup {i}
  <1>0. /\ queue \in Seq(Items) /\ batch \in Seq(Items) /\ enqueued \in Nat
        /\ queue' \in Seq(Items) /\ batch' \in Seq(Items) /\ MaxRecords \in Nat
    BY NextType, MaxRecordsAssumption DEF IInv, TypeOK
  <1>1. Elems(Pending) = Elems(batch) \cup Elems(queue)
    BY <1>0, ElemsFacts DEF Pending
  <1>2. Elems(Pending') = Elems(batch') \cup Elems(queue')
    BY <1>0, ElemsFacts DEF Pending
  <1>3. ASSUME NEW i \in Items, queue' = Append(queue, i), batch' = batch
        PROVE  Elems(Pending') = Elems(Pending) \cup {i}
    BY <1>0, <1>1, <1>2, <1>3, ElemsFacts
  <1>4. CASE TrySend
    <2>1. enqueued + 1 \in Items
      BY <1>0, <1>4 DEF TrySend, Items
    <2> QED BY <1>1, <1>3, <1>4, <2>1 DEF TrySend
  <1>5. ASSUME NEW i \in Items, SendWaiting(i)
        PROVE  Elems(Pending') = Elems(Pending) \cup {i}
    BY <1>3, <1>5 DEF SendWaiting
  <1>6. CASE TrySendFull \/ TrySendClosed \/ \E i \in Items : SendFails(i)
    BY <1>1, <1>2, <1>6 DEF TrySendFull, TrySendClosed, SendFails, work
  <1>7. CASE Control \/ UNCHANGED vars
    BY <1>1, <1>2, <1>7, ControlSteps
       DEF AbandonRotation, Send, vars, work, stats, IInv
  <1>8. CASE Receive \/ DrainOne
    <2>1. /\ queue # <<>> /\ queue' = Tail(queue) /\ batch' = Append(batch, Head(queue))
          /\ UNCHANGED <<waiting, enqueued>>
      BY <1>8 DEF Receive, DrainOne, stats
    <2>2. Head(queue) \in Items
      BY <1>0, <2>1
    <2>3. /\ Elems(queue') \subseteq Elems(queue) /\ Head(queue) \in Elems(queue)
      BY <1>0, <2>1, ElemsFacts
    <2>4. Elems(batch') = Elems(batch) \cup {Head(queue)}
      BY <1>0, <2>1, <2>2, ElemsFacts
    <2> QED BY <1>1, <1>2, <2>1, <2>3, <2>4
  <1>9. CASE \/ TimerFires \/ TakeCommand \/ TakeResume \/ TakeSealed
             \/ (DrainEnds /\ batch # <<>>) \/ Retry
    BY <1>1, <1>2, <1>9
       DEF TimerFires, TakeCommand, TakeResume, TakeSealed, DrainEnds, Retry,
           work, stats
  <1>10. CASE \/ (DrainEnds /\ batch = <<>>) \/ Commit \/ DropBatch
              \/ Checkpoint \/ Wipe
    <2>1. batch' = <<>> /\ UNCHANGED <<waiting, queue, enqueued>>
      BY <1>10, SettlingSteps DEF Settled
    <2>2. Elems(batch') = {}
      BY <1>0, <2>1, ElemsFacts
    <2> QED BY <1>1, <1>2, <2>1, <2>2
  <1>11. CASE DiscardOne \/ DiscardEnds \/ Exit
    <2>1. /\ batch' \in {batch, <<>>} /\ UNCHANGED <<waiting, enqueued>>
          /\ queue' = queue \/ queue' = <<>> \/ (queue # <<>> /\ queue' = Tail(queue))
      BY <1>11 DEF DiscardOne, DiscardEnds, Exit
    <2>2. Elems(batch') \subseteq Elems(batch) /\ Elems(queue') \subseteq Elems(queue)
      BY <1>0, <2>1, ElemsFacts
    <2> QED BY <1>1, <1>2, <2>1, <2>2
  <1> QED BY <1>1, <1>4, <1>5, <1>6, <1>7, <1>8, <1>9, <1>10, <1>11
          DEF Next, LogTasks, Writer

LEMMA OfferedOnceNext ==
    ASSUME IInv, OfferedOnce, [Next]_vars
    PROVE  OfferedOnce'
  <1>0. /\ enqueued \in Nat /\ WaitingOffered /\ waiting \subseteq Items
        /\ Elems(Pending) \subseteq Items
        /\ \A c \in Callers : caller[c].owed \subseteq Items
    BY PendingElems DEF IInv, TypeOK
  <1>1. \A c \in Callers : caller'[c].owed \subseteq caller[c].owed \cup Elems(Pending)
    BY OwedNext
  <1>2. SUFFICES /\ \A i \in Elems(Pending') : i <= enqueued' /\ i \notin waiting'
                 /\ \A c \in Callers : \A i \in caller[c].owed \cup Elems(Pending) :
                       i <= enqueued' /\ i \notin waiting'
    BY <1>1 DEF OfferedOnce, Entered
  <1>3. /\ \A i \in Elems(Pending) : i \in Nat /\ i <= enqueued /\ i \notin waiting
        /\ \A c \in Callers : \A i \in caller[c].owed :
              i \in Nat /\ i <= enqueued /\ i \notin waiting
        /\ \A i \in waiting : i \in Nat /\ i <= enqueued
    BY <1>0 DEF OfferedOnce, Entered, WaitingOffered, Items
  <1>4. CASE UNCHANGED <<waiting, enqueued>> /\ Elems(Pending') \subseteq Elems(Pending)
    BY <1>3, <1>4
  <1>5. CASE /\ Elems(Pending') \subseteq Elems(Pending)
             /\ \/ TrySendFull \/ TrySendClosed
                \/ \E i \in Items : SendFails(i)
    <2>1. /\ enqueued' \in {enqueued, enqueued + 1}
          /\ \/ waiting' \subseteq waiting
             \/ waiting' = waiting \cup {enqueued + 1}
      BY <1>5 DEF TrySendFull, TrySendClosed, SendFails
    <2>2. ASSUME NEW i \in Nat, i <= enqueued, i \notin waiting
          PROVE  i <= enqueued' /\ i \notin waiting'
      BY <1>0, <2>1, <2>2
    <2> QED BY <1>3, <1>5, <2>2
  <1>6. ASSUME NEW j \in Items, \/ TrySend /\ j = enqueued + 1
                                \/ SendWaiting(j),
               Elems(Pending') = Elems(Pending) \cup {j}
        PROVE  /\ \A i \in Elems(Pending') : i <= enqueued' /\ i \notin waiting'
               /\ \A c \in Callers : \A i \in caller[c].owed \cup Elems(Pending) :
                     i <= enqueued' /\ i \notin waiting'
    <2>1. /\ enqueued' \in {enqueued, enqueued + 1} /\ waiting' \subseteq waiting
          /\ j <= enqueued' /\ j \notin waiting'
      <3>1. CASE TrySend /\ j = enqueued + 1
        <4>1. enqueued' = enqueued + 1 /\ waiting' = waiting
          BY <3>1 DEF TrySend
        <4>2. enqueued + 1 \notin waiting
          BY <1>0, <1>3
        <4> QED BY <1>0, <3>1, <4>1, <4>2
      <3>2. CASE SendWaiting(j)
        <4>1. enqueued' = enqueued /\ waiting' = waiting \ {j} /\ j \in waiting
          BY <3>2 DEF SendWaiting, stats
        <4> QED BY <1>3, <4>1
      <3> QED BY <1>6, <3>1, <3>2
    <2>2. ASSUME NEW i \in Nat, i <= enqueued, i \notin waiting
          PROVE  i <= enqueued' /\ i \notin waiting'
      BY <1>0, <2>1, <2>2
    <2> QED BY <1>3, <1>6, <2>1, <2>2
  <1> QED BY <1>4, <1>5, <1>6, PendingNext

(* A caller that waits keeps its list while other tasks act.               *)
LEMMA WaiterKeepsList ==
    ASSUME IInv, LogTasks \/ Control \/ UNCHANGED vars, NEW c \in Callers,
           caller[c].at = "waiting"
    PROVE  caller'[c] = caller[c]
  <1>0. DOMAIN caller = Callers
    BY DEF IInv, TypeOK
  <1>1. CASE LogTasks \/ UNCHANGED vars
    BY <1>1 DEF LogTasks, TrySend, TrySendFull, TrySendClosed, SendWaiting,
                SendFails, vars
  <1>2. CASE AbandonRotation
    BY <1>0, <1>2 DEF AbandonRotation
  <1>3. ASSUME NEW d \in Callers, NEW op \in Ops,
               NEW target \in Stores \cup {NoStore}, Send(d, op, target),
               caller[d].at = IF op = "resume" THEN "sealed" ELSE "idle"
        PROVE  caller'[c] = caller[c]
    <2>1. c # d
      BY <1>3
    <2> QED BY <1>0, <1>3, <2>1 DEF Send
  <1> QED BY <1>1, <1>2, <1>3, ControlSteps DEF IInv

LEMMA JobWaits ==
    ASSUME IInv, job.op \in {"flush", "seal"}
    PROVE  /\ job # NoJob /\ job.from \in Callers
           /\ caller[job.from].at = "waiting"
  BY DEF IInv, OneCommandEach, Outstanding, Command, NoJob

LEMMA BarredNext ==
    ASSUME IInv, OfferedOnce, Barred, [Next]_vars
    PROVE  Barred'
  <1>0. /\ queue \in Seq(Items) /\ batch \in Seq(Items)
        /\ Len(batch) \in Nat /\ BatchSize \in Nat \ {0}
        /\ JobFitsPc /\ BatchFitsPc
    BY SizeAssumption DEF IInv, TypeOK
  <1>1. QueueMet => job.op \in {"flush", "seal"}
    BY <1>0 DEF QueueMet, JobFitsPc
  <1> DEFINE owed == caller[job.from].owed
  <1>2. CASE LogTasks \/ Control \/ UNCHANGED vars
    <2>1. UNCHANGED <<pc, job, batch>>
      BY <1>2, ControlSteps
         DEF LogTasks, TrySend, TrySendFull, TrySendClosed, SendWaiting,
             SendFails, AbandonRotation, Send, vars, work, IInv
    <2>2. QueueMet' => QueueMet
      BY <2>1 DEF QueueMet
    <2>3. SUFFICES ASSUME QueueMet
                   PROVE  caller'[job.from].owed \cap Elems(queue') = {}
      BY <2>1, <2>2 DEF Barred
    <2>4. /\ job.from \in Callers /\ caller'[job.from].owed = owed
          /\ owed \cap Elems(queue) = {}
      BY <1>1, <1>2, <2>3, JobWaits, WaiterKeepsList DEF Barred
    <2>5. CASE UNCHANGED queue
      BY <2>4, <2>5
    <2>6. ASSUME NEW i \in Items, queue' = Append(queue, i), i \notin owed
          PROVE  caller'[job.from].owed \cap Elems(queue') = {}
      <3>1. Elems(queue') = Elems(queue) \cup {i}
        BY <1>0, <2>6, ElemsFacts
      <3> QED BY <2>4, <2>6, <3>1
    <2>7. \A i \in owed : i <= enqueued /\ i \notin waiting
      BY <2>4 DEF OfferedOnce, Entered
    <2>8. CASE TrySend
      <3>1. enqueued \in Nat /\ MaxRecords \in Nat
        BY MaxRecordsAssumption DEF IInv, TypeOK
      <3>2. enqueued + 1 \in Items /\ enqueued + 1 \notin owed
        BY <2>7, <2>8, <3>1 DEF TrySend, Items
      <3> QED BY <2>6, <2>8, <3>2 DEF TrySend
    <2>9. ASSUME NEW i \in Items, SendWaiting(i)
          PROVE  caller'[job.from].owed \cap Elems(queue') = {}
      BY <2>6, <2>7, <2>9 DEF SendWaiting
    <2>10. \/ UNCHANGED queue \/ TrySend
           \/ \E i \in Items : SendWaiting(i)
      BY <1>2, ControlSteps
         DEF LogTasks, TrySendFull, TrySendClosed, SendFails, AbandonRotation,
             Send, vars, work, IInv
    <2> QED BY <2>5, <2>8, <2>9, <2>10
  <1>3. CASE Receive \/ TimerFires
    <2>1. job' = NoJob /\ pc' \in {"flush", "select"}
      BY <1>0, <1>3 DEF Receive, TimerFires, Selecting, JobFitsPc
    <2> QED BY <2>1 DEF Barred, QueueMet, NoJob
  <1>4. CASE \/ TakeCommand \/ TakeResume \/ TakeSealed \/ DrainOne
             \/ Checkpoint \/ DiscardOne \/ DiscardEnds \/ Wipe \/ Exit
    <2>1. pc' \notin {"flush", "checkpoint"}
      BY <1>4 DEF TakeCommand, TakeResume, TakeSealed, DrainOne, Checkpoint,
                  Finish, DiscardOne, DiscardEnds, Wipe, Exit
    <2> QED BY <2>1 DEF Barred, QueueMet
  <1>5. CASE Retry
    <2>1. UNCHANGED <<pc, job, batch, queue, caller>>
      BY <1>5 DEF Retry, work
    <2> QED BY <2>1 DEF Barred, QueueMet
  <1>6. CASE DrainEnds
    <2>1. /\ UNCHANGED <<queue, batch>>
          /\ Len(batch) >= BatchSize \/ queue = <<>>
      BY <1>6 DEF DrainEnds
    <2>2. CASE queue = <<>>
      <3>1. Elems(queue') = {}
        BY <2>1, <2>2 DEF Elems
      <3> QED BY <3>1 DEF Barred
    <2>3. CASE Len(batch) >= BatchSize
      <3>1. batch # <<>>
        BY <1>0, <2>3
      <3>2. pc' = "flush"
        BY <1>6, <3>1 DEF DrainEnds, Goto
      <3>3. ~(Len(batch') < BatchSize)
        BY <1>0, <2>1, <2>3
      <3> QED BY <3>2, <3>3 DEF Barred, QueueMet
    <2> QED BY <2>1, <2>2, <2>3
  <1>7. CASE Commit \/ DropBatch
    <2>1. SUFFICES ASSUME QueueMet'
                   PROVE  Barred'
      BY DEF Barred
    <2>2. PICK result \in {"ok", "err"} :
                  pc = "flush" /\ UNCHANGED queue /\ Continue(result)
      BY <1>7 DEF Commit, DropBatch
    <2>3. /\ Drained(result) /\ job.op # "none"
          /\ ~(result = "ok" /\ Len(batch) >= BatchSize)
      <3>1. pc' # "select" /\ pc' # "drain"
        BY <2>1 DEF QueueMet
      <3> QED BY <2>2, <3>1 DEF Continue, Finish, Goto
    <2>4. /\ job.op = "seal" /\ result = "ok" /\ UNCHANGED <<job, caller>>
      BY <2>1, <2>3 DEF Drained, Finish, Goto, QueueMet
    <2>5. QueueMet
      BY <1>0, <2>2, <2>3, <2>4 DEF QueueMet
    <2> QED BY <2>2, <2>4, <2>5 DEF Barred
  <1> QED BY <1>2, <1>3, <1>4, <1>5, <1>6, <1>7 DEF Next, Writer

LEMMA AnswerIsBarrier ==
    ASSUME IInv, Barred, [Next]_vars, NEW c \in Callers,
           job.from = c, job.op \in {"flush", "seal"},
           caller[c].at = "waiting", caller'[c].at # "waiting",
           dropped' = dropped
    PROVE  caller[c].owed \cap Elems(Pending') = {}
  <1>0. /\ queue \in Seq(Items) /\ batch \in Seq(Items)
        /\ Len(batch) \in Nat /\ BatchSize \in Nat \ {0} /\ dropped \in Nat
        /\ JobFitsPc /\ BatchFitsPc /\ job # NoJob
    BY SizeAssumption, JobWaits DEF IInv, TypeOK
  <1>1. ~(LogTasks \/ Control \/ UNCHANGED vars)
    BY WaiterKeepsList
  <1>2. pc \in {"drain", "flush", "checkpoint"}
    BY <1>0 DEF JobFitsPc, IInv, TypeOK
  <1>3. ~ UNCHANGED caller
    OBVIOUS
  <1>4. /\ \/ (DrainEnds /\ batch = <<>>)
           \/ Commit \/ DropBatch \/ Checkpoint
        /\ batch' = <<>> /\ UNCHANGED queue
    <2>1. \/ (DrainEnds /\ batch = <<>>)
          \/ Commit \/ DropBatch \/ Checkpoint
      BY <1>1, <1>2, <1>3
         DEF Next, Writer, Receive, TimerFires, TakeCommand, TakeResume,
             TakeSealed, Selecting, DrainOne, DrainEnds, Goto, Retry,
             DiscardOne, DiscardEnds, Wipe, Exit
    <2> QED BY <2>1, SettlingSteps DEF Settled
  <1>5. Elems(Pending') = Elems(queue)
    <2>1. Pending' = queue
      BY <1>0, <1>4, ConcatEmptySeq DEF Pending
    <2> QED BY <2>1
  <1>6. CASE DrainEnds /\ batch = <<>>
    <2>1. queue = <<>>
      BY <1>0, <1>6 DEF DrainEnds
    <2>2. Elems(queue) = {}
      BY <2>1 DEF Elems
    <2> QED BY <1>5, <2>2
  <1>7. CASE Commit
    <2>1. Len(batch) < BatchSize
      <3>1. Continue("ok") /\ job.op # "none"
        BY <1>7 DEF Commit
      <3>2. Len(batch) >= BatchSize => Goto("drain")
        BY <3>1 DEF Continue
      <3> QED BY <1>0, <1>3, <3>2 DEF Goto
    <2>2. QueueMet
      BY <1>7, <2>1 DEF Commit, QueueMet
    <2> QED BY <1>5, <2>2 DEF Barred
  <1>8. CASE DropBatch
    <2>1. Len(batch) = 0
      BY <1>0, <1>8 DEF DropBatch
    <2>2. QueueMet
      BY <1>0, <1>8, <2>1 DEF DropBatch, QueueMet
    <2> QED BY <1>5, <2>2 DEF Barred
  <1>9. CASE Checkpoint
    <2>1. QueueMet
      BY <1>9 DEF Checkpoint, QueueMet
    <2> QED BY <1>5, <2>1 DEF Barred
  <1> QED BY <1>4, <1>6, <1>7, <1>8, <1>9

(* A Flush or Seal is a barrier: when its caller is answered by a drain    *)
(* that lost no batch, nothing that was pending at the call still is.      *)
THEOREM FlushesAreBarriers == Spec => FlushIsBarrier
  <1>1. Init => OfferedOnce /\ Barred
    <2> SUFFICES ASSUME Init PROVE OfferedOnce /\ Barred
      OBVIOUS
    <2>1. Elems(Pending) = {} /\ \A c \in Callers : caller[c].owed = {}
      BY DEF Init, Elems, Pending, At
    <2> QED BY <2>1 DEF Init, OfferedOnce, Entered, Barred, QueueMet
  <1>2. IInv /\ OfferedOnce /\ Barred /\ [Next]_vars => OfferedOnce' /\ Barred'
    BY OfferedOnceNext, BarredNext
  <1>3. IInv /\ Barred /\ [Next]_vars =>
           [\A c \in Callers :
               /\ job.from = c /\ job.op \in {"flush", "seal"}
               /\ caller[c].at = "waiting" /\ caller'[c].at # "waiting"
               /\ dropped' = dropped
               => caller[c].owed \cap Elems(Pending') = {}]_vars
    BY AnswerIsBarrier
  <1> QED BY <1>1, <1>2, <1>3, Invariance, PTL DEF Spec, FlushIsBarrier
=============================================================================
