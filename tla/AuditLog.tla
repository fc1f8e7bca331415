------------------------------ MODULE AuditLog ------------------------------
(***************************************************************************)
(* What the audit writer promises, without its task, channels, batches,    *)
(* retries and timers: records are taken in some order and leave it from   *)
(* the front; a group of at most BatchSize either becomes the next rows of *)
(* the current store or is lost as a whole; while no store is current      *)
(* nothing is written or lost, except when the log closes.                 *)
(***************************************************************************)
EXTENDS Integers, Sequences

CONSTANTS Items, Stores, FirstStore, NoStore, BatchSize

VARIABLES pending,  \* accepted records that are in memory only
          rows,     \* the rows of each store, in id order
          current,  \* the store rows are added to, or NoStore
          closed

vars == <<pending, rows, current, closed>>

Init == /\ pending = <<>>
        /\ rows = [s \in Stores |-> <<>>]
        /\ current = FirstStore
        /\ closed = FALSE

Accept(i) ==
    /\ ~closed
    /\ pending' = Append(pending, i)
    /\ UNCHANGED <<rows, current, closed>>

Front(n) == SubSeq(pending, 1, n)
Rest(n)  == SubSeq(pending, n + 1, Len(pending))

(* A group of n records becomes durable. *)
Persist(n) ==
    /\ n \in 1..BatchSize /\ n <= Len(pending)
    /\ current # NoStore
    /\ rows' = [rows EXCEPT ![current] = @ \o Front(n)]
    /\ pending' = Rest(n)
    /\ UNCHANGED <<current, closed>>

(* A group of n records is lost. *)
Lose(n) ==
    /\ n \in 1..BatchSize /\ n <= Len(pending)
    /\ current # NoStore
    /\ pending' = Rest(n)
    /\ UNCHANGED <<rows, current, closed>>

(* A reset: first what is pending is forgotten, then all rows go. *)
Forget ==
    /\ current # NoStore
    /\ pending' = <<>>
    /\ UNCHANGED <<rows, current, closed>>

Wipe ==
    /\ current # NoStore
    /\ rows' = [rows EXCEPT ![current] = <<>>]
    /\ UNCHANGED <<pending, current, closed>>

Seal ==
    /\ current' = NoStore
    /\ UNCHANGED <<pending, rows, closed>>

Resume(s) ==
    /\ current' = s
    /\ UNCHANGED <<pending, rows, closed>>

Close ==
    /\ closed' = TRUE
    /\ pending' = <<>>
    /\ UNCHANGED <<rows, current>>

Next == \/ \E i \in Items : Accept(i)
        \/ \E n \in 1..BatchSize : Persist(n) \/ Lose(n)
        \/ Forget
        \/ Wipe
        \/ Seal
        \/ \E s \in Stores : Resume(s)
        \/ Close

Spec == Init /\ [][Next]_vars
=============================================================================
