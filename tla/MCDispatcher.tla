---------------------------- MODULE MCDispatcher ----------------------------
(* Small instances of Dispatcher for TLC. *)
EXTENDS Dispatcher, TLC

CONSTANTS b1, b2, u1, u2, r1, r2, m1, m2

On(threshold)   == [enabled |-> TRUE, threshold |-> threshold, patience |-> 1]
Default         == On(3)
Off             == [enabled |-> FALSE, threshold |-> 1, patience |-> 1]

(* Model m1 is served by both backends and falls back to m2, which only    *)
(* one of them serves; the breaker opens at the first failure.             *)
Failover ==
    [health   |-> On(0),
     url      |-> (b1 :> u1 @@ b2 :> u1),
     serves   |-> (m1 :> {b1, b2} @@ m2 :> {b2}),
     fallback |-> (b1 :> m2 @@ b2 :> NoModel)]

(* The same with a second fallback that leads back to m1. *)
Cycle == [Failover EXCEPT !.fallback = (b1 :> m2 @@ b2 :> m1)]

(* One backend and one model: the breaker's races. *)
Steady ==
    [health   |-> On(2),
     url      |-> (b1 :> u1),
     serves   |-> (m1 :> {b1}),
     fallback |-> (b1 :> NoModel)]

Moved    == [Steady EXCEPT !.url = (b1 :> u2), !.health.patience = 2]
Disabled == [Steady EXCEPT !.health = Off]
Removed  == [Steady EXCEPT !.serves = (m1 :> {}), !.health.threshold = 1]

FailoverConfigs == {Failover}
CycleConfigs    == {Cycle}
ReloadConfigs   == {Steady, Moved, Disabled, Removed}
=============================================================================
