--------------------------- MODULE CircuitBreaker ---------------------------
(***************************************************************************)
(* The per-backend circuit breaker of src/services/circuit_breaker.rs: a   *)
(* registry of backend states behind one mutex, so that every operation    *)
(* of this module is one atomic step of the request that calls it.         *)
(*                                                                         *)
(* Time is abstracted: opened_at = Some(t) is "cooling" while t.elapsed()  *)
(* is below the cooldown and "cooled" afterwards.  A backend that has no   *)
(* entry in the map behaves exactly as one whose entry is New(url).        *)
(* The backoff level only scales the cooldown, which the code caps, so     *)
(* MaxBackoff saturates it.                                                *)
(***************************************************************************)
EXTENDS Integers

CONSTANTS Backends,     \* names of the configured clients
          Urls,         \* base_url values
          MaxBackoff    \* bound: the level at which the cooldown is capped

ASSUME MaxBackoffAssumption == MaxBackoff \in Nat \ {0}

VARIABLES health,       \* RegistryState.config
          breaker       \* RegistryState.backends

(* HealthCheckConfig; patience orders the cooldown curves. *)
HealthConfig == [enabled : BOOLEAN, threshold : Nat, patience : Nat]

BackendState == [url : Urls, failures : Nat,
                 opened : {"closed", "cooling", "cooled"},
                 backoff : 0..MaxBackoff, probe : BOOLEAN]

New(url) == [url |-> url, failures |-> 0, opened |-> "closed",
             backoff |-> 0, probe |-> FALSE]

IsOpen(s) == s.opened # "closed"

Normalized(h) ==
    [h EXCEPT !.threshold = IF h.threshold < 1 THEN 1 ELSE h.threshold]

(* The entry an operation works on: replaced by a fresh one when the       *)
(* client moved to another base_url.                                       *)
Entry(b, url) == IF breaker[b].url = url THEN breaker[b] ELSE New(url)

(* A bug: an open backend is never let through again. *)
VerdictNeverProbes(b, url) ==
    IF health.enabled /\ IsOpen(Entry(b, url)) THEN "blocked" ELSE "allowed"

(***************************************************************************)
(* allow: what the caller is told, and the entry it leaves behind.         *)
(***************************************************************************)
Verdict(b, url) ==
    LET s == Entry(b, url) IN
    CASE ~health.enabled \/ ~IsOpen(s)           -> "allowed"
      [] health.enabled /\ s.opened = "cooling"  -> "blocked"
      [] health.enabled /\ s.opened = "cooled"   ->
            IF s.probe THEN "blocked" ELSE "halfopen"

Allow(b, url) ==
    breaker' = IF ~health.enabled THEN breaker
               ELSE [breaker EXCEPT ![b] =
                       [Entry(b, url) EXCEPT
                          !.probe = @ \/ Verdict(b, url) = "halfopen"]]

(***************************************************************************)
(* record_success clears every counter, so that what it leaves is a fresh  *)
(* entry whether or not the base_url changed.                              *)
(***************************************************************************)
RecordSuccess(b, url) ==
    breaker' = IF ~health.enabled THEN breaker
               ELSE [breaker EXCEPT ![b] = New(url)]

(* A bug: record_failure forgets to clear probe_in_flight. *)
FailedKeepsProbe(s) ==
    LET counted == IF IsOpen(s) \/ s.probe
                   THEN [s EXCEPT !.backoff =
                           IF @ < MaxBackoff THEN @ + 1 ELSE @]
                   ELSE [s EXCEPT !.failures = @ + 1]
    IN  [counted EXCEPT
           !.opened = IF IsOpen(s) \/ counted.failures >= health.threshold
                      THEN "cooling" ELSE @]

(* A bug: the backoff level is not capped. *)
FailedPastTheCap(s) ==
    LET counted == IF IsOpen(s) \/ s.probe
                   THEN [s EXCEPT !.backoff = @ + 1]
                   ELSE [s EXCEPT !.failures = @ + 1]
    IN  [counted EXCEPT
           !.probe = FALSE,
           !.opened = IF IsOpen(s) \/ counted.failures >= health.threshold
                      THEN "cooling" ELSE @]

(***************************************************************************)
(* record_failure: a failure of an open backend raises its backoff, one of *)
(* a closed backend counts towards the threshold; either may (re)open it.  *)
(***************************************************************************)
Failed(s) ==
    LET counted == IF IsOpen(s) \/ s.probe
                   THEN [s EXCEPT !.backoff =
                           IF @ < MaxBackoff THEN @ + 1 ELSE @]
                   ELSE [s EXCEPT !.failures = @ + 1]
    IN  [counted EXCEPT
           !.probe = FALSE,
           !.opened = IF IsOpen(s) \/ counted.failures >= health.threshold
                      THEN "cooling" ELSE @]

RecordFailure(b, url) ==
    breaker' = IF ~health.enabled THEN breaker
               ELSE [breaker EXCEPT ![b] = Failed(Entry(b, url))]

(***************************************************************************)
(* configure replaces the configuration and leaves the entries.  The       *)
(* cooldown is computed when it is compared, so a longer curve makes an    *)
(* entry that had cooled wait again.                                       *)
(***************************************************************************)
Configure(h) ==
    /\ health' = Normalized(h)
    /\ \E waiting \in SUBSET {b \in Backends : breaker[b].opened = "cooled"} :
          /\ waiting # {} => h.patience > health.patience
          /\ breaker' = [b \in Backends |->
                IF b \in waiting THEN [breaker[b] EXCEPT !.opened = "cooling"]
                                 ELSE breaker[b]]

(* The cooldown of an open backend runs out. *)
CooldownElapses(b) ==
    /\ breaker[b].opened = "cooling"
    /\ breaker' = [breaker EXCEPT ![b].opened = "cooled"]
    /\ UNCHANGED health
=============================================================================
