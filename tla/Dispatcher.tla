----------------------------- MODULE Dispatcher -----------------------------
(***************************************************************************)
(* DispatcherService::execute (src/services/dispatcher.rs) for several     *)
(* requests at once: a request takes a snapshot of the configuration,      *)
(* resolves the clients of its model, calls them in the order the load     *)
(* balancer chose, skips the ones whose circuit breaker is open, and falls *)
(* back to another model when none of them gave a final answer.            *)
(*                                                                         *)
(* Every await of the handler is a step boundary.  The load balancer's     *)
(* order is nondeterministic and chosen as the request goes: any backend   *)
(* of rest may be next, which yields every permutation of the candidates   *)
(* (select_clients returns one in each strategy).                          *)
(***************************************************************************)
EXTENDS CircuitBreaker

CONSTANTS Requests,     \* request slots, reused for request after request
          Models,       \* model names
          Configs,      \* contents the configuration file can have
          FirstConfig,  \* its contents at start
          DefaultHealth, \* HealthCheckConfig::default()
          NoModel,      \* Option::None of a fallback
          NoBackend,    \* no call in flight
          MaxReloads    \* bound: how often the configuration file changes

Config == [health   : HealthConfig,
           url      : [Backends -> Urls],
           serves   : [Models -> SUBSET Backends],
           fallback : [Backends -> Models \cup {NoModel}]]

ASSUME ConfigAssumption == /\ Configs \subseteq Config
                           /\ FirstConfig \in Configs
ASSUME DefaultAssumption == DefaultHealth \in HealthConfig
ASSUME NoneAssumption == NoModel \notin Models /\ NoBackend \notin Backends
ASSUME ReloadAssumption == MaxReloads \in Nat

VARIABLES config,       \* ConfigManager's current configuration
          reloads,      \* how often it was reloaded
          req           \* the requests

vars == <<health, breaker, config, reloads, req>>

(* "limited" is 429, "denied" 401, 403 and 404, "rejected" every other     *)
(* 4xx, "fault" an upstream response that is neither 2xx nor 4xx, which    *)
(* the callback returns as Ok, and "failed" an Err of the callback.        *)
Outcomes == {"ok", "rejected", "denied", "limited", "fault", "failed"}

Returned(outcome)  == outcome \in {"ok", "rejected"}
HardFailure(outcome) == outcome \in {"limited", "failed"}

Replies == {"none", "upstream", "notfound", "cooling", "passthrough",
            "exhausted", "gone"}

Request == [pc        : {"idle", "configure", "resolve", "chain", "calling"},
            view      : Configs,
            model     : Models \cup {NoModel},
            rest      : SUBSET Backends,
            fallback  : Models \cup {NoModel},
            attempted : BOOLEAN,
            passing   : BOOLEAN,
            call      : Backends \cup {NoBackend},
            half      : BOOLEAN,
            tried     : SUBSET (Models \X Backends),
            reply     : Replies]

(* A slot between two requests: the reply the last one got. *)
Idle(reply) == [pc |-> "idle", view |-> FirstConfig, model |-> NoModel,
                rest |-> {}, fallback |-> NoModel, attempted |-> FALSE,
                passing |-> FALSE, call |-> NoBackend, half |-> FALSE,
                tried |-> {}, reply |-> reply]

(* The registry starts with the defaults, not with the file's settings. *)
Init == /\ health = Normalized(DefaultHealth)
        /\ breaker = [b \in Backends |-> New(FirstConfig.url[b])]
        /\ config = FirstConfig
        /\ reloads = 0
        /\ req = [r \in Requests |-> Idle("none")]

-----------------------------------------------------------------------------
(* The configuration file changes and ConfigManager picks it up. *)
Reload ==
    /\ reloads < MaxReloads
    /\ \E c \in Configs \ {config} : config' = c
    /\ reloads' = reloads + 1
    /\ UNCHANGED <<health, breaker, req>>

(* A request for model m takes its snapshot of the configuration. *)
Arrive(r) ==
    /\ req[r].pc = "idle"
    /\ \E m \in Models :
          req' = [req EXCEPT ![r] = [Idle("none") EXCEPT
                    !.pc = "configure", !.view = config, !.model = m]]
    /\ UNCHANGED <<health, breaker, config, reloads>>

(* A bug: the registry is not configured. *)
ApplyConfigSkipsRegistry(r) ==
    /\ req[r].pc = "configure"
    /\ req' = [req EXCEPT ![r].pc = "resolve"]
    /\ UNCHANGED <<health, breaker, config, reloads>>

(* The snapshot becomes the registry's configuration, however old it is. *)
ApplyConfig(r) ==
    /\ req[r].pc = "configure"
    /\ Configure(req[r].view.health)
    /\ req' = [req EXCEPT ![r].pc = "resolve"]
    /\ UNCHANGED <<config, reloads>>

(* The clients of the model, from the configuration of this moment. *)
Resolve(r) ==
    /\ req[r].pc = "resolve"
    /\ LET clients == config.serves[req[r].model] IN
       req' = [req EXCEPT ![r] =
                 IF clients = {} THEN Idle("notfound")
                 ELSE [@ EXCEPT !.pc = "chain", !.view = config,
                                !.rest = clients, !.fallback = NoModel,
                                !.attempted = FALSE, !.passing = FALSE]]
    /\ UNCHANGED <<health, breaker, config, reloads>>

(* A bug: the request comes back to candidates it had. *)
TurnedKeepsCandidate(q, b) ==
    [q EXCEPT !.fallback = IF @ = NoModel THEN q.view.fallback[b] ELSE @]

(* The request turns to candidate b; the first candidate that has a        *)
(* fallback model names the one of this round (select_fallback_model).     *)
Turned(q, b) ==
    [q EXCEPT !.rest = @ \ {b},
              !.fallback = IF @ = NoModel THEN q.view.fallback[b] ELSE @]

Skip(r, b) ==
    /\ req[r].pc = "chain"
    /\ b \in req[r].rest
    /\ Verdict(b, req[r].view.url[b]) = "blocked"
    /\ Allow(b, req[r].view.url[b])
    /\ req' = [req EXCEPT ![r] = Turned(@, b)]
    /\ UNCHANGED <<health, config, reloads>>

Called(q, b, half) ==
    [q EXCEPT !.pc = "calling", !.attempted = TRUE, !.call = b, !.half = half,
              !.tried = @ \cup {<<q.model, b>>}]

Attempt(r, b) ==
    /\ req[r].pc = "chain"
    /\ b \in req[r].rest
    /\ LET verdict == Verdict(b, req[r].view.url[b]) IN
       /\ verdict # "blocked"
       /\ Allow(b, req[r].view.url[b])
       /\ req' = [req EXCEPT ![r] =
                    Called(Turned(@, b), b, verdict = "halfopen")]
    /\ UNCHANGED <<health, config, reloads>>

(* The call gave no final answer, with or without a response to pass on. *)
Unanswered(q, response) ==
    [q EXCEPT !.pc = "chain", !.call = NoBackend, !.half = FALSE,
              !.passing = @ \/ response]

(* The callback returns.  2xx and request errors end the request; any      *)
(* other response is kept to be passed through and the next candidate is   *)
(* tried.  Only 429 and Err count against the backend: an upstream 5xx     *)
(* arrives as Ok and is recorded as a success.                             *)
Answer(r, outcome) ==
    /\ req[r].pc = "calling"
    /\ LET b == req[r].call
           url == req[r].view.url[b]
       IN IF HardFailure(outcome) THEN RecordFailure(b, url)
                                  ELSE RecordSuccess(b, url)
    /\ req' = [req EXCEPT ![r] =
                 IF Returned(outcome) THEN Idle("upstream")
                 ELSE Unanswered(@, outcome # "failed")]
    /\ UNCHANGED <<health, config, reloads>>

(* Every candidate was turned to. *)
RoundOver(r) == req[r].pc = "chain" /\ req[r].rest = {}

AllCooling(r) ==
    /\ RoundOver(r)
    /\ ~req[r].attempted
    /\ req' = [req EXCEPT ![r] = Idle("cooling")]
    /\ UNCHANGED <<health, breaker, config, reloads>>

(* A bug: current_model stays what it was. *)
SwitchModelKeepsModel(r) ==
    /\ RoundOver(r)
    /\ req[r].attempted
    /\ req[r].fallback # NoModel
    /\ req' = [req EXCEPT ![r].pc = "resolve"]
    /\ UNCHANGED <<health, breaker, config, reloads>>

(* Every call failed and a fallback model is configured. *)
SwitchModel(r) ==
    /\ RoundOver(r)
    /\ req[r].attempted
    /\ req[r].fallback # NoModel
    /\ req' = [req EXCEPT ![r].pc = "resolve",
                          ![r].model = req[r].fallback]
    /\ UNCHANGED <<health, breaker, config, reloads>>

GiveUp(r) ==
    /\ RoundOver(r)
    /\ req[r].attempted
    /\ req[r].fallback = NoModel
    /\ req' = [req EXCEPT ![r] =
                 Idle(IF req[r].passing THEN "passthrough" ELSE "exhausted")]
    /\ UNCHANGED <<health, breaker, config, reloads>>

(* The caller closes its connection while the handler waits: the handler's *)
(* future is dropped where it stands and nothing is recorded.              *)
Disconnect(r) ==
    /\ req[r].pc \in {"resolve", "calling"}
    /\ req' = [req EXCEPT ![r] = Idle("gone")]
    /\ UNCHANGED <<health, breaker, config, reloads>>

-----------------------------------------------------------------------------
Cooldown(b) == CooldownElapses(b) /\ UNCHANGED <<config, reloads, req>>

Consider(r) == \E b \in Backends : Skip(r, b) \/ Attempt(r, b)
Return(r)   == \E outcome \in Outcomes : Answer(r, outcome)

(* What the runtime does for a request once it has arrived. *)
Progress(r) == \/ ApplyConfig(r)
               \/ Resolve(r)
               \/ Consider(r)
               \/ Return(r)
               \/ AllCooling(r)
               \/ SwitchModel(r)
               \/ GiveUp(r)

Next == \/ Reload
        \/ \E b \in Backends : Cooldown(b)
        \/ \E r \in Requests : Arrive(r) \/ Progress(r) \/ Disconnect(r)

(* The runtime polls every task that can move, the HTTP client's timeouts  *)
(* end every call, and time passes.  Arrivals, reloads and disconnections  *)
(* are the environment's and have no fairness.                             *)
Fairness == /\ \A r \in Requests : WF_vars(Progress(r))
            /\ \A b \in Backends : WF_vars(Cooldown(b))

Spec == Init /\ [][Next]_vars /\ Fairness

-----------------------------------------------------------------------------
(* A request that is under way has a model, one that is calling a backend. *)
WellFormed(q) == /\ q.pc # "idle" => q.model \in Models
                 /\ q.pc = "calling" => q.call \in Backends

(* Types of the breaker registry, the configuration and the requests.      *)
TypeOK == /\ health \in HealthConfig
          /\ breaker \in [Backends -> BackendState]
          /\ config \in Configs
          /\ reloads \in 0..MaxReloads
          /\ req \in [Requests -> Request]
          /\ \A r \in Requests : WellFormed(req[r])

(* What a breaker entry can look like whatever the interleaving of allow,  *)
(* recorded results and configure: only an open backend has a half-open    *)
(* probe or a backoff, and none is open without a counted failure.         *)
Shaped(s) == /\ s.probe => IsOpen(s)
             /\ s.backoff > 0 => IsOpen(s)
             /\ IsOpen(s) => s.failures > 0

BreakerShape == \A b \in Backends : Shaped(breaker[b])

(* Request r is the half-open probe of backend b. *)
Probes(r, b) == req[r].pc = "calling" /\ req[r].call = b /\ req[r].half

(* The entry waits for a probe that nobody will report on. *)
Orphaned(b) == breaker[b].probe /\ \A r \in Requests : ~Probes(r, b)

(* probe_in_flight is only ever left behind when the probing request is    *)
(* dropped, so that its future never records a result, or when a result    *)
(* comes in while the breaker is disabled, where recording returns early.  *)
(* Failures and successes of overtaking requests, reloads and moves to     *)
(* another base_url never lose it.                                         *)
ProbeLostOnlyByDropOrDisable ==
    [][\A b \in Backends :
          ~Orphaned(b) /\ Orphaned(b)' =>
             \/ ~health.enabled
             \/ \E r \in Requests : Probes(r, b) /\ req'[r].reply = "gone"]_vars

(* A request calls a backend at most once per model: the failover loop of  *)
(* execute does not come back to a call it already made.  It holds when no *)
(* chain of fallbacks returns to a model it left.                          *)
NoCallRepeated ==
    [][\A r \in Requests : \A b \in Backends :
          req[r].call = NoBackend /\ req'[r].call = b =>
             <<req[r].model, b>> \notin req[r].tried]_vars

(* The failover loop of execute ends: every request that arrived is        *)
(* answered, or its caller leaves.                                         *)
EveryRequestAnswered ==
    \A r \in Requests : req[r].pc # "idle" ~> req[r].pc = "idle"

(* A backend that was opened is closed or called again, provided that      *)
(* requests keep considering it and that no probe of it is lost: the       *)
(* cooldown and the half-open state cannot lock a backend out themselves.  *)
KeepsBeingConsidered(b) ==
    []<>(\E r \in Requests : req[r].pc = "chain" /\ b \in req[r].rest)

Recovers(b) ==
    IsOpen(breaker[b]) ~>
       \/ ~IsOpen(breaker[b])
       \/ \E r \in Requests : req[r].call = b

RecoversUnlessProbeLost ==
    \A b \in Backends :
       KeepsBeingConsidered(b) /\ []~Orphaned(b) => Recovers(b)

(* A stale snapshot may overwrite a newer health configuration, but not    *)
(* for good: once the file stops changing, and if requests keep getting    *)
(* past configure, the registry settles on the file's last contents.       *)
TrafficContinues == []<>(\E r \in Requests : req[r].pc = "resolve")

ConfigTakesEffect ==
    TrafficContinues => <>[](health = Normalized(config.health))
=============================================================================
