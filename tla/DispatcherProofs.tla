-------------------------- MODULE DispatcherProofs --------------------------
(***************************************************************************)
(* Proofs about Dispatcher, for every set of backends, requests, models    *)
(* and configurations: type correctness, the shape of the breaker entries, *)
(* that a half-open probe is only lost with its request or while the       *)
(* breaker is disabled, and that acyclic fallbacks never repeat a call.    *)
(***************************************************************************)
EXTENDS Dispatcher, TLAPS

(* The registry part of TypeOK. *)
BreakerTypeOK == /\ health \in HealthConfig
                 /\ breaker \in [Backends -> BackendState]

-----------------------------------------------------------------------------
(* The operations of the registry.                                         *)

LEMMA NewType ==
    ASSUME NEW url \in Urls
    PROVE  New(url) \in BackendState /\ New(url).url = url
  BY MaxBackoffAssumption DEF New, BackendState

LEMMA EntryType ==
    ASSUME BreakerTypeOK, NEW b \in Backends, NEW url \in Urls
    PROVE  Entry(b, url) \in BackendState
  BY NewType DEF Entry, BreakerTypeOK

LEMMA NormalizedType ==
    ASSUME NEW h \in HealthConfig
    PROVE  /\ Normalized(h) \in HealthConfig
           /\ Normalized(h).threshold >= 1
  BY DEF Normalized, HealthConfig

(* Whatever is recorded or allowed, the entries keep their types. *)
LEMMA AllowType ==
    ASSUME BreakerTypeOK, NEW b \in Backends, NEW url \in Urls, Allow(b, url)
    PROVE  breaker' \in [Backends -> BackendState]
  <1> DEFINE probing == Entry(b, url).probe \/ Verdict(b, url) = "halfopen"
  <1>1. [Entry(b, url) EXCEPT !.probe = probing] \in BackendState
    <2>1. probing \in BOOLEAN
      OBVIOUS
    <2> HIDE DEF probing
    <2> QED BY <2>1, EntryType DEF BackendState
  <1> QED BY <1>1 DEF Allow, BreakerTypeOK

LEMMA RecordSuccessType ==
    ASSUME BreakerTypeOK, NEW b \in Backends, NEW url \in Urls,
           RecordSuccess(b, url)
    PROVE  breaker' \in [Backends -> BackendState]
  BY NewType DEF RecordSuccess, BreakerTypeOK

LEMMA FailedType ==
    ASSUME BreakerTypeOK, NEW s \in BackendState
    PROVE  Failed(s) \in BackendState
  <1> DEFINE counted == IF IsOpen(s) \/ s.probe
                        THEN [s EXCEPT !.backoff =
                                IF @ < MaxBackoff THEN @ + 1 ELSE @]
                        ELSE [s EXCEPT !.failures = @ + 1]
  <1>1. counted \in BackendState
    BY MaxBackoffAssumption DEF BackendState
  <1> QED BY <1>1 DEF Failed, BackendState

LEMMA RecordFailureType ==
    ASSUME BreakerTypeOK, NEW b \in Backends, NEW url \in Urls,
           RecordFailure(b, url)
    PROVE  breaker' \in [Backends -> BackendState]
  BY EntryType, FailedType DEF RecordFailure, BreakerTypeOK

LEMMA ConfigureType ==
    ASSUME BreakerTypeOK, NEW h \in HealthConfig, Configure(h)
    PROVE  BreakerTypeOK'
  <1>1. health' \in HealthConfig
    BY NormalizedType DEF Configure
  <1>2. breaker' \in [Backends -> BackendState]
    BY DEF Configure, BreakerTypeOK, BackendState
  <1> QED BY <1>1, <1>2 DEF BreakerTypeOK

-----------------------------------------------------------------------------
(* The requests.                                                           *)

LEMMA IdleType ==
    ASSUME NEW reply \in Replies
    PROVE  Idle(reply) \in Request
  BY ConfigAssumption DEF Idle, Request

LEMMA ConfigType ==
    ASSUME NEW c \in Configs
    PROVE  /\ c.health \in HealthConfig
           /\ \A b \in Backends : c.url[b] \in Urls
           /\ \A m \in Models : c.serves[m] \subseteq Backends
           /\ \A b \in Backends : c.fallback[b] \in Models \cup {NoModel}
  BY ConfigAssumption DEF Config

LEMMA TurnedType ==
    ASSUME NEW q \in Request, NEW b \in Backends
    PROVE  Turned(q, b) \in Request
  <1>1. q.view \in Configs
    BY DEF Request
  <1>2. q.view.fallback[b] \in Models \cup {NoModel}
    BY <1>1, ConfigType
  <1> QED BY <1>2 DEF Turned, Request

-----------------------------------------------------------------------------
(* Types of one request; TypeOK says it of all of them.                    *)
RequestOK(q) == q \in Request /\ WellFormed(q)

LEMMA IdleOK ==
    ASSUME NEW reply \in Replies
    PROVE  RequestOK(Idle(reply))
  BY IdleType DEF RequestOK, WellFormed, Idle

LEMMA TurnedOK ==
    ASSUME NEW q, RequestOK(q), NEW b \in Backends
    PROVE  RequestOK(Turned(q, b)) /\ Turned(q, b).model = q.model
  <1>1. Turned(q, b) \in Request
    BY TurnedType DEF RequestOK
  <1>2. /\ Turned(q, b).pc = q.pc
        /\ Turned(q, b).model = q.model
        /\ Turned(q, b).call = q.call
    BY DEF Turned, RequestOK, Request
  <1> QED BY <1>1, <1>2 DEF RequestOK, WellFormed

LEMMA CalledOK ==
    ASSUME NEW q, RequestOK(q), q.model \in Models, NEW b \in Backends,
           NEW half \in BOOLEAN
    PROVE  RequestOK(Called(q, b, half))
  <1>1. q.tried \cup {<<q.model, b>>} \in SUBSET (Models \X Backends)
    BY DEF RequestOK, Request
  <1> QED BY <1>1 DEF Called, RequestOK, Request, WellFormed

LEMMA UnansweredOK ==
    ASSUME NEW q, RequestOK(q), q.model \in Models,
           NEW response \in BOOLEAN
    PROVE  RequestOK(Unanswered(q, response))
  <1> DEFINE passing == q.passing \/ response
  <1>1. passing \in BOOLEAN
    BY DEF RequestOK, Request
  <1>2. Unanswered(q, response) =
          [q EXCEPT !.pc = "chain", !.call = NoBackend, !.half = FALSE,
                    !.passing = passing]
    BY DEF Unanswered
  <1> HIDE DEF passing
  <1> QED BY <1>1, <1>2 DEF RequestOK, Request, WellFormed

LEMMA RoutedOK ==
    ASSUME NEW q, RequestOK(q), q.model \in Models, NEW view \in Configs,
           NEW clients \in SUBSET Backends
    PROVE  RequestOK([q EXCEPT !.pc = "chain", !.view = view,
                               !.rest = clients, !.fallback = NoModel,
                               !.attempted = FALSE, !.passing = FALSE])
  BY DEF RequestOK, Request, WellFormed

(* A step that replaces one request by a well-typed one. *)
LEMMA OneRequestOK ==
    ASSUME TypeOK, NEW r \in Requests, NEW q, RequestOK(q),
           req' = [req EXCEPT ![r] = q]
    PROVE  /\ req' \in [Requests -> Request]
           /\ \A p \in Requests : WellFormed(req'[p])
  BY DEF TypeOK, RequestOK

LEMMA InitType == Init => TypeOK
  <1> SUFFICES ASSUME Init PROVE TypeOK
    OBVIOUS
  <1>1. FirstConfig \in Configs /\ DefaultHealth \in HealthConfig
    BY ConfigAssumption, DefaultAssumption
  <1>2. health \in HealthConfig
    BY <1>1, NormalizedType DEF Init
  <1>3. breaker \in [Backends -> BackendState]
    BY <1>1, ConfigType, NewType DEF Init
  <1>4. RequestOK(Idle("none"))
    BY IdleOK DEF Replies
  <1> QED BY <1>1, <1>2, <1>3, <1>4, ReloadAssumption
          DEF Init, TypeOK, RequestOK

LEMMA NextType == TypeOK /\ [Next]_vars => TypeOK'
  <1> SUFFICES ASSUME TypeOK, [Next]_vars
               PROVE  TypeOK'
    OBVIOUS
  <1>a. BreakerTypeOK
    BY DEF BreakerTypeOK, TypeOK
  <1>b. ASSUME NEW r \in Requests
        PROVE  /\ RequestOK(req[r])
               /\ req[r].view \in Configs
               /\ \A b \in Backends : req[r].view.url[b] \in Urls
    BY ConfigType DEF Request, TypeOK, RequestOK
  <1>c. ASSUME NEW r \in Requests, NEW q, RequestOK(q),
               req' = [req EXCEPT ![r] = q],
               BreakerTypeOK', config' \in Configs, reloads' \in 0..MaxReloads
        PROVE  TypeOK'
    BY <1>c, OneRequestOK DEF TypeOK, BreakerTypeOK
  <1>d. config \in Configs /\ reloads \in 0..MaxReloads
    BY DEF TypeOK
  <1>e. ASSUME UNCHANGED <<health, breaker>>
        PROVE  BreakerTypeOK'
    BY <1>e, <1>a DEF BreakerTypeOK
  <1>1. CASE Reload
    BY <1>1, ReloadAssumption DEF Reload, TypeOK
  <1>2. CASE \E b \in Backends : Cooldown(b)
    <2>1. PICK b \in Backends : Cooldown(b)
      BY <1>2
    <2>2. [breaker[b] EXCEPT !.opened = "cooled"] \in BackendState
      BY DEF BackendState, TypeOK
    <2> QED BY <2>1, <2>2 DEF Cooldown, CooldownElapses, TypeOK
  <1>3. ASSUME NEW r \in Requests, Arrive(r)
        PROVE  TypeOK'
    <2>1. PICK m \in Models :
             req' = [req EXCEPT ![r] = [Idle("none") EXCEPT
                       !.pc = "configure", !.view = config, !.model = m]]
      BY <1>3 DEF Arrive
    <2>2. RequestOK([Idle("none") EXCEPT !.pc = "configure", !.view = config,
                                         !.model = m])
      <3>1. Idle("none") \in Request
        BY IdleType DEF Replies
      <3> QED BY <3>1, <1>d DEF Request, RequestOK, WellFormed
    <2> QED BY <1>3, <2>1, <2>2, <1>c, <1>d, <1>e DEF Arrive
  <1>4. ASSUME NEW r \in Requests, ApplyConfig(r)
        PROVE  TypeOK'
    <2>1. BreakerTypeOK'
      BY <1>4, <1>a, <1>b, ConfigType, ConfigureType DEF ApplyConfig
    <2>2. RequestOK([req[r] EXCEPT !.pc = "resolve"])
      BY <1>4, <1>b DEF Request, RequestOK, WellFormed, ApplyConfig
    <2>3. req' = [req EXCEPT ![r] = [req[r] EXCEPT !.pc = "resolve"]]
      BY <1>4 DEF ApplyConfig
    <2> QED BY <1>4, <2>1, <2>2, <2>3, <1>c, <1>d DEF ApplyConfig
  <1>5. ASSUME NEW r \in Requests, Resolve(r)
        PROVE  TypeOK'
    <2> DEFINE clients == config.serves[req[r].model]
               routed  == [req[r] EXCEPT !.pc = "chain", !.view = config,
                             !.rest = clients, !.fallback = NoModel,
                             !.attempted = FALSE, !.passing = FALSE]
               q       == IF clients = {} THEN Idle("notfound") ELSE routed
    <2>1. req[r].model \in Models
      BY <1>5, <1>b DEF Resolve, RequestOK, WellFormed
    <2>2. clients \in SUBSET Backends
      BY <2>1, <1>d, ConfigType
    <2>3. RequestOK(Idle("notfound"))
      BY IdleOK DEF Replies
    <2>4. RequestOK(routed)
      <3> HIDE DEF clients
      <3> QED BY <1>b, <1>d, <2>1, <2>2, RoutedOK
    <2>5. req' = [req EXCEPT ![r] = q]
      BY <1>5 DEF Resolve
    <2>6. RequestOK(q)
      BY <2>3, <2>4
    <2> QED BY <1>5, <2>5, <2>6, <1>c, <1>d, <1>e DEF Resolve
  <1>6. ASSUME NEW r \in Requests, NEW b \in Backends, Skip(r, b)
        PROVE  TypeOK'
    <2>1. breaker' \in [Backends -> BackendState]
      BY <1>6, <1>a, <1>b, AllowType DEF Skip
    <2>2. BreakerTypeOK'
      BY <2>1, <1>6, <1>a DEF BreakerTypeOK, Skip
    <2>3. RequestOK(Turned(req[r], b))
      BY <1>b, TurnedOK
    <2> QED BY <1>6, <2>2, <2>3, <1>c, <1>d DEF Skip
  <1>7. ASSUME NEW r \in Requests, NEW b \in Backends, Attempt(r, b)
        PROVE  TypeOK'
    <2> DEFINE half == Verdict(b, req[r].view.url[b]) = "halfopen"
               q    == Called(Turned(req[r], b), b, half)
    <2>1. breaker' \in [Backends -> BackendState]
      BY <1>7, <1>a, <1>b, AllowType DEF Attempt
    <2>2. BreakerTypeOK'
      BY <2>1, <1>7, <1>a DEF BreakerTypeOK, Attempt
    <2>3. req' = [req EXCEPT ![r] = q]
      BY <1>7 DEF Attempt
    <2>4. req[r].model \in Models
      BY <1>b, <1>7 DEF RequestOK, WellFormed, Attempt
    <2>5. RequestOK(q)
      <3>1. half \in BOOLEAN
        OBVIOUS
      <3> HIDE DEF half
      <3> QED BY <1>b, <2>4, <3>1, TurnedOK, CalledOK
    <2> QED BY <1>7, <2>2, <2>3, <2>5, <1>c, <1>d DEF Attempt
  <1>8. ASSUME NEW r \in Requests, NEW outcome \in Outcomes,
               Answer(r, outcome)
        PROVE  TypeOK'
    <2> DEFINE kept == Unanswered(req[r], outcome # "failed")
               q    == IF Returned(outcome) THEN Idle("upstream") ELSE kept
    <2>1. req[r].call \in Backends /\ req[r].model \in Models
      BY <1>8, <1>b DEF Answer, RequestOK, WellFormed
    <2>2. breaker' \in [Backends -> BackendState]
      BY <1>8, <2>1, <1>a, <1>b, RecordFailureType, RecordSuccessType
         DEF Answer
    <2>3. BreakerTypeOK'
      BY <2>2, <1>8, <1>a DEF BreakerTypeOK, Answer
    <2>4. RequestOK(kept)
      <3>1. (outcome # "failed") \in BOOLEAN
        OBVIOUS
      <3> QED BY <1>b, <2>1, <3>1, UnansweredOK
    <2>5. RequestOK(q)
      BY <2>4, IdleOK DEF Replies
    <2>6. req' = [req EXCEPT ![r] = q]
      BY <1>8 DEF Answer
    <2> QED BY <1>8, <2>3, <2>5, <2>6, <1>c, <1>d DEF Answer
  <1>9. ASSUME NEW r \in Requests, AllCooling(r) \/ GiveUp(r) \/ Disconnect(r)
        PROVE  TypeOK'
    <2>1. \E reply \in Replies : req' = [req EXCEPT ![r] = Idle(reply)]
      BY <1>9 DEF AllCooling, GiveUp, Disconnect, Replies
    <2>2. UNCHANGED <<health, breaker, config, reloads>>
      BY <1>9 DEF AllCooling, GiveUp, Disconnect
    <2> QED BY <2>1, <2>2, IdleOK, <1>c, <1>d, <1>e
  <1>10. ASSUME NEW r \in Requests, SwitchModel(r)
         PROVE  TypeOK'
    <2>1. req[r].fallback \in Models
      BY <1>10, <1>b DEF SwitchModel, RequestOK, Request
    <2>2. RequestOK([req[r] EXCEPT !.pc = "resolve",
                                   !.model = req[r].fallback])
      BY <1>b, <2>1 DEF RequestOK, WellFormed, Request
    <2>3. req' = [req EXCEPT ![r] = [req[r] EXCEPT !.pc = "resolve",
                                                   !.model = req[r].fallback]]
      BY <1>10 DEF SwitchModel
    <2> QED BY <1>10, <2>2, <2>3, <1>c, <1>d, <1>e DEF SwitchModel
  <1>11. CASE UNCHANGED vars
    BY <1>11 DEF TypeOK, vars
  <1> QED BY <1>1, <1>2, <1>3, <1>4, <1>5, <1>6, <1>7, <1>8, <1>9, <1>10, <1>11
          DEF Next, Progress, Consider, Return

(* The breaker registry, the configuration and every request keep their    *)
(* types: execute, allow, the two record operations and configure.         *)
THEOREM TypeCorrect == Spec => []TypeOK
  BY InitType, NextType, PTL DEF Spec

-----------------------------------------------------------------------------
(* The shape of the breaker entries.                                       *)

LEMMA NewShaped ==
    ASSUME NEW url \in Urls
    PROVE  Shaped(New(url))
  BY DEF Shaped, New, IsOpen

LEMMA EntryShaped ==
    ASSUME BreakerShape, NEW b \in Backends, NEW url \in Urls
    PROVE  Shaped(Entry(b, url))
  BY NewShaped DEF Entry, BreakerShape

LEMMA FailedShaped ==
    ASSUME NEW s \in BackendState, Shaped(s)
    PROVE  Shaped(Failed(s))
  <1>1. CASE IsOpen(s)
    <2>1. /\ Failed(s).opened = "cooling"
          /\ Failed(s).probe = FALSE
          /\ Failed(s).failures = s.failures
      BY <1>1 DEF Failed, BackendState
    <2> QED BY <1>1, <2>1 DEF Shaped, IsOpen
  <1>2. CASE ~IsOpen(s)
    <2>1. ~s.probe /\ s.opened = "closed" /\ s.backoff = 0
      BY <1>2, MaxBackoffAssumption DEF Shaped, IsOpen, BackendState
    <2>2. /\ Failed(s).failures = s.failures + 1
          /\ Failed(s).backoff = 0
          /\ Failed(s).probe = FALSE
      BY <1>2, <2>1 DEF Failed, BackendState
    <2>3. s.failures \in Nat
      BY DEF BackendState
    <2> QED BY <2>2, <2>3 DEF Shaped
  <1> QED BY <1>1, <1>2

LEMMA AllowShaped ==
    ASSUME BreakerTypeOK, BreakerShape, NEW b \in Backends, NEW url \in Urls,
           Allow(b, url)
    PROVE  BreakerShape'
  <1> DEFINE s == Entry(b, url)
             probing == s.probe \/ Verdict(b, url) = "halfopen"
             t == [s EXCEPT !.probe = probing]
  <1>1. CASE ~health.enabled
    BY <1>1 DEF Allow, BreakerShape
  <1>2. CASE health.enabled
    <2>1. breaker' = [breaker EXCEPT ![b] = t]
      BY <1>2 DEF Allow
    <2>2. s \in BackendState /\ Shaped(s)
      BY EntryType, EntryShaped
    <2>3. Verdict(b, url) = "halfopen" => IsOpen(s)
      BY <1>2, <2>2 DEF Verdict, IsOpen, BackendState
    <2>4. probing => IsOpen(s)
      BY <2>2, <2>3 DEF Shaped
    <2>5. /\ t.probe = probing
          /\ t.opened = s.opened /\ t.backoff = s.backoff
          /\ t.failures = s.failures
      BY <2>2 DEF BackendState
    <2>6. Shaped(t)
      <3> HIDE DEF t, s, probing
      <3> QED BY <2>2, <2>4, <2>5 DEF Shaped, IsOpen
    <2> HIDE DEF t
    <2> QED BY <2>1, <2>6 DEF BreakerShape, BreakerTypeOK
  <1> QED BY <1>1, <1>2

LEMMA RecordShaped ==
    ASSUME BreakerTypeOK, BreakerShape, NEW b \in Backends, NEW url \in Urls,
           RecordSuccess(b, url) \/ RecordFailure(b, url)
    PROVE  BreakerShape'
  <1>1. Shaped(New(url)) /\ Shaped(Failed(Entry(b, url)))
    BY NewShaped, EntryType, EntryShaped, FailedShaped
  <1>2. \/ breaker' = breaker
        \/ breaker' = [breaker EXCEPT ![b] = New(url)]
        \/ breaker' = [breaker EXCEPT ![b] = Failed(Entry(b, url))]
    BY DEF RecordSuccess, RecordFailure
  <1> QED BY <1>1, <1>2 DEF BreakerShape, BreakerTypeOK

LEMMA ConfigureShaped ==
    ASSUME BreakerTypeOK, BreakerShape, NEW h \in HealthConfig, Configure(h)
    PROVE  BreakerShape'
  <1>1. PICK waiting \in SUBSET {b \in Backends : breaker[b].opened = "cooled"} :
           breaker' = [b \in Backends |->
              IF b \in waiting THEN [breaker[b] EXCEPT !.opened = "cooling"]
                               ELSE breaker[b]]
    BY DEF Configure
  <1> SUFFICES ASSUME NEW b \in Backends PROVE Shaped(breaker'[b])
    BY DEF BreakerShape
  <1>2. breaker[b] \in BackendState /\ Shaped(breaker[b])
    BY DEF BreakerTypeOK, BreakerShape
  <1>3. CASE b \in waiting
    BY <1>1, <1>2, <1>3 DEF Shaped, IsOpen, BackendState
  <1>4. CASE b \notin waiting
    BY <1>1, <1>2, <1>4
  <1> QED BY <1>3, <1>4

LEMMA NextShaped == TypeOK /\ BreakerShape /\ [Next]_vars => BreakerShape'
  <1> SUFFICES ASSUME TypeOK, BreakerShape, [Next]_vars
               PROVE  BreakerShape'
    OBVIOUS
  <1>a. BreakerTypeOK
    BY DEF BreakerTypeOK, TypeOK
  <1>b. ASSUME NEW r \in Requests
        PROVE  /\ req[r].view.health \in HealthConfig
               /\ \A b \in Backends : req[r].view.url[b] \in Urls
               /\ req[r].pc = "calling" => req[r].call \in Backends
    BY ConfigType DEF Request, TypeOK, WellFormed
  <1>1. ASSUME UNCHANGED breaker PROVE BreakerShape'
    BY <1>1 DEF BreakerShape
  <1>2. CASE \E b \in Backends : Cooldown(b)
    <2>1. PICK b \in Backends : CooldownElapses(b)
      BY <1>2 DEF Cooldown
    <2>2. Shaped([breaker[b] EXCEPT !.opened = "cooled"])
      BY <2>1 DEF TypeOK, BreakerShape, Shaped, IsOpen, BackendState,
                  CooldownElapses
    <2> QED BY <2>1, <2>2 DEF CooldownElapses, BreakerShape, TypeOK
  <1>3. ASSUME NEW r \in Requests, ApplyConfig(r) PROVE BreakerShape'
    BY <1>3, <1>a, <1>b, ConfigureShaped DEF ApplyConfig
  <1>4. ASSUME NEW r \in Requests, NEW b \in Backends,
               Skip(r, b) \/ Attempt(r, b)
        PROVE  BreakerShape'
    BY <1>4, <1>a, <1>b, AllowShaped DEF Skip, Attempt
  <1>5. ASSUME NEW r \in Requests, NEW outcome \in Outcomes,
               Answer(r, outcome)
        PROVE  BreakerShape'
    BY <1>5, <1>a, <1>b, RecordShaped DEF Answer
  <1> QED BY <1>1, <1>2, <1>3, <1>4, <1>5
          DEF Next, Progress, Consider, Return, Reload, Arrive, Resolve,
              AllCooling, SwitchModel, GiveUp, Disconnect, vars

(* In every interleaving of any number of requests, only an open backend   *)
(* has a probe in flight or a backoff, and none is open without a failure. *)
THEOREM BreakerShaped == Spec => []BreakerShape
  <1>1. Init => BreakerShape
    BY ConfigAssumption, ConfigType, NewShaped DEF Init, BreakerShape
  <1> QED BY <1>1, TypeCorrect, NextShaped, PTL DEF Spec

-----------------------------------------------------------------------------
(* Who sets and who clears probe_in_flight.                                *)

LEMMA AllowProbe ==
    ASSUME BreakerTypeOK, NEW c \in Backends, NEW url \in Urls, Allow(c, url),
           NEW b \in Backends, breaker'[b].probe, ~breaker[b].probe
    PROVE  b = c /\ Verdict(c, url) = "halfopen"
  <1> DEFINE s == Entry(c, url)
             probing == s.probe \/ Verdict(c, url) = "halfopen"
             t == [s EXCEPT !.probe = probing]
  <1>1. breaker' = [breaker EXCEPT ![c] = t]
    BY DEF Allow
  <1>2. b = c
    BY <1>1 DEF BreakerTypeOK
  <1>3. breaker'[c] = t
    BY <1>1 DEF BreakerTypeOK
  <1>4. t.probe = probing
    BY EntryType DEF BackendState
  <1>5. ~s.probe
    BY <1>2 DEF Entry, New
  <1> HIDE DEF t
  <1> QED BY <1>2, <1>3, <1>4, <1>5

LEMMA RecordProbe ==
    ASSUME BreakerTypeOK, NEW c \in Backends, NEW url \in Urls,
           RecordSuccess(c, url) \/ RecordFailure(c, url), health.enabled
    PROVE  /\ ~breaker'[c].probe
           /\ \A b \in Backends \ {c} : breaker'[b] = breaker[b]
  <1>1. ~New(url).probe
    BY DEF New
  <1>2. ~Failed(Entry(c, url)).probe
    BY EntryType DEF Failed, BackendState
  <1>3. \/ breaker' = [breaker EXCEPT ![c] = New(url)]
        \/ breaker' = [breaker EXCEPT ![c] = Failed(Entry(c, url))]
    BY DEF RecordSuccess, RecordFailure
  <1> QED BY <1>1, <1>2, <1>3 DEF BreakerTypeOK

(* A probe that is in flight ends with its answer or with its caller.      *)
LEMMA ProbeEnds ==
    ASSUME TypeOK, Next, NEW r \in Requests, NEW b \in Backends,
           Probes(r, b), ~Probes(r, b)'
    PROVE  \/ Disconnect(r)
           \/ \E outcome \in Outcomes : Answer(r, outcome)
  <1>1. ASSUME NEW p \in Requests, p # r, NEW q,
               req' = [req EXCEPT ![p] = q]
        PROVE  FALSE
    BY <1>1 DEF TypeOK, Probes
  <1>2. req' # req
    BY DEF Probes
  <1>3. PICK p \in Requests : Arrive(p) \/ Progress(p) \/ Disconnect(p)
    BY <1>2 DEF Next, Reload, Cooldown
  <1>4. p = r
    <2>1. \E q : req' = [req EXCEPT ![p] = q]
      BY <1>3 DEF Arrive, Progress, ApplyConfig, Resolve, Consider, Skip,
                  Attempt, Return, Answer, AllCooling, SwitchModel, GiveUp,
                  Disconnect
    <2> QED BY <2>1, <1>1
  <1> QED BY <1>3, <1>4
          DEF Probes, Arrive, Progress, ApplyConfig, Resolve, Consider, Skip,
              Attempt, Return, AllCooling, SwitchModel, GiveUp, RoundOver

LEMMA ProbeBegins ==
    ASSUME TypeOK, Next, NEW b \in Backends,
           breaker'[b].probe, ~breaker[b].probe
    PROVE  \E r \in Requests : Probes(r, b)'
  <1>a. BreakerTypeOK
    BY DEF BreakerTypeOK, TypeOK
  <1>b. ASSUME NEW r \in Requests
        PROVE  /\ req[r].view.health \in HealthConfig
               /\ \A c \in Backends : req[r].view.url[c] \in Urls
               /\ req[r].pc = "calling" => req[r].call \in Backends
    BY ConfigType DEF Request, TypeOK, WellFormed
  <1>1. PICK r \in Requests :
           \/ ApplyConfig(r)
           \/ \E c \in Backends : Skip(r, c) \/ Attempt(r, c)
           \/ \E outcome \in Outcomes : Answer(r, outcome)
    <2>1. ASSUME NEW c \in Backends, Cooldown(c) PROVE FALSE
      BY <2>1 DEF Cooldown, CooldownElapses, TypeOK, BackendState
    <2>2. breaker' # breaker
      OBVIOUS
    <2> QED BY <2>1, <2>2
            DEF Next, Progress, Consider, Return, Reload, Arrive, Resolve,
                AllCooling, SwitchModel, GiveUp, Disconnect
  <1>2. ~ApplyConfig(r)
    BY DEF ApplyConfig, Configure, TypeOK, BackendState
  <1>3. ASSUME NEW outcome \in Outcomes, Answer(r, outcome) PROVE FALSE
    <2>1. CASE health.enabled
      BY <1>3, <2>1, <1>a, <1>b, RecordProbe DEF Answer
    <2>2. CASE ~health.enabled
      BY <1>3, <2>2 DEF Answer, RecordSuccess, RecordFailure
    <2> QED BY <2>1, <2>2
  <1>4. PICK c \in Backends : Skip(r, c) \/ Attempt(r, c)
    BY <1>1, <1>2, <1>3
  <1>5. b = c /\ Attempt(r, b)
    BY <1>4, <1>a, <1>b, AllowProbe DEF Skip, Attempt
  <1>6. Verdict(b, req[r].view.url[b]) = "halfopen"
    BY <1>5, <1>a, <1>b, AllowProbe DEF Attempt
  <1>7. req'[r] = Called(Turned(req[r], b), b, TRUE)
    BY <1>5, <1>6 DEF Attempt, TypeOK
  <1>8. Turned(req[r], b) \in Request
    BY TurnedType DEF TypeOK
  <1>9. Probes(r, b)'
    BY <1>7, <1>8 DEF Called, Request, Probes
  <1> QED BY <1>9

(* A half-open probe is left without a request that will report on it only *)
(* when that request is dropped, or while the breaker is disabled.         *)
THEOREM ProbeKept == Spec => ProbeLostOnlyByDropOrDisable
  <1> DEFINE Lost(b) == ~Orphaned(b) /\ Orphaned(b)'
             Excused(b) == \/ ~health.enabled
                           \/ \E r \in Requests :
                                 Probes(r, b) /\ req'[r].reply = "gone"
  <1>1. TypeOK /\ [Next]_vars => [\A b \in Backends : Lost(b) => Excused(b)]_vars
    <2> SUFFICES ASSUME TypeOK, Next, NEW b \in Backends, Lost(b),
                        health.enabled
                 PROVE  \E r \in Requests : Probes(r, b) /\ req'[r].reply = "gone"
      OBVIOUS
    <2>1. breaker[b].probe
      BY ProbeBegins DEF Orphaned
    <2>2. PICK r \in Requests : Probes(r, b) /\ ~Probes(r, b)'
      BY <2>1 DEF Orphaned
    <2>3. ASSUME NEW outcome \in Outcomes, Answer(r, outcome) PROVE FALSE
      <3>1. req[r].view.url[b] \in Urls /\ BreakerTypeOK
        BY ConfigType DEF Request, TypeOK, BreakerTypeOK
      <3>2. ~breaker'[b].probe
        BY <2>2, <2>3, <3>1, RecordProbe DEF Answer, Probes
      <3> QED BY <3>2 DEF Orphaned
    <2>4. Disconnect(r)
      BY <2>2, <2>3, ProbeEnds
    <2>5. req'[r].reply = "gone"
      BY <2>4 DEF Disconnect, Idle, TypeOK
    <2> QED BY <2>2, <2>5
  <1> QED BY <1>1, TypeCorrect, PTL DEF Spec, ProbeLostOnlyByDropOrDisable

-----------------------------------------------------------------------------
(* The failover loop does not come back to a call.                         *)

(* No chain of fallbacks leads back to a model it left: a rank of the      *)
(* models falls with every fallback that a request can take, in whichever  *)
(* of the configurations it is.                                            *)
Descends(rank) ==
    \A c \in Configs, m \in Models : \A b \in c.serves[m] :
       c.fallback[b] # NoModel => rank[c.fallback[b]] < rank[m]

Acyclic == \E rank \in [Models -> Nat] : Descends(rank)

(* What a request has called so far belongs to models it left, or to       *)
(* candidates of this round that it has turned to.  The candidates and the *)
(* fallback are those of its model in the configuration it resolved with.  *)
Onward(q, rank) ==
    /\ q.pc \in {"configure", "resolve"} =>
          \A t \in q.tried : rank[t[1]] > rank[q.model]
    /\ q.pc \in {"chain", "calling"} =>
          /\ q.rest \subseteq q.view.serves[q.model]
          /\ q.fallback # NoModel => rank[q.fallback] < rank[q.model]
          /\ \A t \in q.tried : \/ rank[t[1]] > rank[q.model]
                                \/ t[1] = q.model /\ t[2] \notin q.rest

LEMMA IdleOnward ==
    ASSUME NEW rank, NEW reply
    PROVE  Onward(Idle(reply), rank)
  BY DEF Onward, Idle

LEMMA TurnedOnward ==
    ASSUME NEW rank \in [Models -> Nat], Descends(rank),
           NEW q, RequestOK(q), q.pc = "chain", Onward(q, rank),
           NEW b \in q.rest
    PROVE  /\ Onward(Turned(q, b), rank)
           /\ Turned(q, b).pc = "chain"
           /\ Turned(q, b).rest = q.rest \ {b}
  <1>0. /\ q.view \in Configs /\ q.model \in Models /\ q.rest \subseteq Backends
        /\ b \in Backends
    BY DEF RequestOK, WellFormed, Request
  <1> DEFINE p == Turned(q, b)
  <1>1. /\ p.pc = "chain" /\ p.view = q.view /\ p.model = q.model
        /\ p.rest = q.rest \ {b} /\ p.tried = q.tried
        /\ p.fallback = IF q.fallback = NoModel THEN q.view.fallback[b]
                                                ELSE q.fallback
    BY DEF Turned, RequestOK, Request
  <1>2. b \in q.view.serves[q.model]
    BY DEF Onward
  <1>3. p.fallback # NoModel => rank[p.fallback] < rank[p.model]
    BY <1>0, <1>1, <1>2 DEF Onward, Descends
  <1>4. \A t \in p.tried : \/ rank[t[1]] > rank[p.model]
                           \/ t[1] = p.model /\ t[2] \notin p.rest
    BY <1>1 DEF Onward
  <1>5. p.rest \subseteq p.view.serves[p.model]
    BY <1>1 DEF Onward
  <1> HIDE DEF p
  <1>6. Onward(p, rank)
    BY <1>1, <1>3, <1>4, <1>5 DEF Onward
  <1> QED BY <1>1, <1>6 DEF p

LEMMA OneRequestOnward ==
    ASSUME NEW rank, TypeOK, \A p \in Requests : Onward(req[p], rank),
           NEW r \in Requests, NEW q, Onward(q, rank),
           req' = [req EXCEPT ![r] = q]
    PROVE  \A p \in Requests : Onward(req'[p], rank)
  BY DEF TypeOK

LEMMA OnwardNext ==
    ASSUME NEW rank \in [Models -> Nat], Descends(rank),
           TypeOK, \A r \in Requests : Onward(req[r], rank), [Next]_vars
    PROVE  \A r \in Requests : Onward(req'[r], rank)
  <1>a. ASSUME NEW r \in Requests
        PROVE  RequestOK(req[r]) /\ Onward(req[r], rank)
    BY DEF TypeOK, RequestOK
  <1>1. CASE Reload \/ UNCHANGED vars \/ \E b \in Backends : Cooldown(b)
    BY <1>1 DEF Reload, Cooldown, vars
  <1>2. ASSUME NEW r \in Requests, Arrive(r)
        PROVE  \A p \in Requests : Onward(req'[p], rank)
    <2>1. PICK m \in Models :
             req' = [req EXCEPT ![r] = [Idle("none") EXCEPT
                       !.pc = "configure", !.view = config, !.model = m]]
      BY <1>2 DEF Arrive
    <2>2. Onward([Idle("none") EXCEPT !.pc = "configure", !.view = config,
                                      !.model = m], rank)
      BY DEF Onward, Idle
    <2> QED BY <2>1, <2>2, OneRequestOnward
  <1>3. ASSUME NEW r \in Requests, ApplyConfig(r)
        PROVE  \A p \in Requests : Onward(req'[p], rank)
    <2>1. req' = [req EXCEPT ![r] = [req[r] EXCEPT !.pc = "resolve"]]
      BY <1>3 DEF ApplyConfig
    <2>2. Onward([req[r] EXCEPT !.pc = "resolve"], rank)
      BY <1>3, <1>a DEF ApplyConfig, Onward, RequestOK, Request
    <2> QED BY <2>1, <2>2, OneRequestOnward
  <1>4. ASSUME NEW r \in Requests, Resolve(r)
        PROVE  \A p \in Requests : Onward(req'[p], rank)
    <2> DEFINE clients == config.serves[req[r].model]
               routed  == [req[r] EXCEPT !.pc = "chain", !.view = config,
                             !.rest = clients, !.fallback = NoModel,
                             !.attempted = FALSE, !.passing = FALSE]
    <2>1. req' = [req EXCEPT ![r] = IF clients = {} THEN Idle("notfound")
                                                    ELSE routed]
      BY <1>4 DEF Resolve
    <2>2. /\ routed.pc = "chain" /\ routed.view = config
          /\ routed.rest = clients /\ routed.fallback = NoModel
          /\ routed.model = req[r].model /\ routed.tried = req[r].tried
      BY <1>a DEF RequestOK, Request
    <2>3. \A t \in req[r].tried : rank[t[1]] > rank[req[r].model]
      BY <1>4, <1>a DEF Resolve, Onward
    <2> HIDE DEF routed
    <2>4. Onward(routed, rank)
      BY <2>2, <2>3 DEF Onward
    <2>5. Onward(IF clients = {} THEN Idle("notfound") ELSE routed, rank)
      BY <2>4, IdleOnward
    <2> QED BY <2>1, <2>5, OneRequestOnward
  <1>5. ASSUME NEW r \in Requests, NEW b \in Backends, Skip(r, b)
        PROVE  \A p \in Requests : Onward(req'[p], rank)
    <2>1. Onward(Turned(req[r], b), rank)
      BY <1>5, <1>a, TurnedOnward DEF Skip
    <2> QED BY <1>5, <2>1, OneRequestOnward DEF Skip
  <1>6. ASSUME NEW r \in Requests, NEW b \in Backends, Attempt(r, b)
        PROVE  \A p \in Requests : Onward(req'[p], rank)
    <2> DEFINE half == Verdict(b, req[r].view.url[b]) = "halfopen"
               q    == Turned(req[r], b)
               n    == Called(q, b, half)
    <2>1. /\ Onward(q, rank) /\ RequestOK(q)
          /\ q.rest = req[r].rest \ {b} /\ q.pc = "chain"
      BY <1>6, <1>a, TurnedOnward, TurnedOK DEF Attempt
    <2> HIDE DEF half, q
    <2>2. /\ n.pc = "calling" /\ n.rest = q.rest /\ n.view = q.view
          /\ n.model = q.model /\ n.fallback = q.fallback
          /\ n.tried = q.tried \cup {<<q.model, b>>}
      BY <2>1 DEF Called, RequestOK, Request
    <2> HIDE DEF n
    <2>3. Onward(n, rank)
      BY <2>1, <2>2 DEF Onward
    <2>4. req' = [req EXCEPT ![r] = n]
      BY <1>6 DEF Attempt, n, q, half
    <2> QED BY <2>3, <2>4, OneRequestOnward
  <1>7. ASSUME NEW r \in Requests, NEW outcome \in Outcomes, Answer(r, outcome)
        PROVE  \A p \in Requests : Onward(req'[p], rank)
    <2> DEFINE kept == Unanswered(req[r], outcome # "failed")
    <2>1. req' = [req EXCEPT ![r] = IF Returned(outcome) THEN Idle("upstream")
                                                         ELSE kept]
      BY <1>7 DEF Answer
    <2>2. /\ kept.pc = "chain" /\ kept.rest = req[r].rest
          /\ kept.view = req[r].view /\ kept.model = req[r].model
          /\ kept.fallback = req[r].fallback /\ kept.tried = req[r].tried
      BY <1>a DEF Unanswered, RequestOK, Request
    <2> HIDE DEF kept
    <2>3. Onward(kept, rank)
      BY <1>7, <1>a, <2>2 DEF Answer, Onward
    <2>4. Onward(IF Returned(outcome) THEN Idle("upstream") ELSE kept, rank)
      BY <2>3, IdleOnward
    <2> QED BY <2>1, <2>4, OneRequestOnward
  <1>8. ASSUME NEW r \in Requests, AllCooling(r) \/ GiveUp(r) \/ Disconnect(r)
        PROVE  \A p \in Requests : Onward(req'[p], rank)
    <2>1. \E reply \in Replies : req' = [req EXCEPT ![r] = Idle(reply)]
      BY <1>8 DEF AllCooling, GiveUp, Disconnect, Replies
    <2> QED BY <2>1, IdleOnward, OneRequestOnward
  <1>9. ASSUME NEW r \in Requests, SwitchModel(r)
        PROVE  \A p \in Requests : Onward(req'[p], rank)
    <2> DEFINE q == [req[r] EXCEPT !.pc = "resolve", !.model = req[r].fallback]
    <2>1. req' = [req EXCEPT ![r] = q]
      BY <1>9 DEF SwitchModel
    <2>2. /\ q.pc = "resolve" /\ q.model = req[r].fallback
          /\ q.tried = req[r].tried
      BY <1>a DEF RequestOK, Request
    <2>3. /\ req[r].pc = "chain" /\ req[r].fallback # NoModel
          /\ req[r].fallback \in Models /\ req[r].model \in Models
          /\ req[r].tried \subseteq Models \X Backends
      BY <1>9, <1>a DEF SwitchModel, RoundOver, RequestOK, Request, WellFormed
    <2>4. ASSUME NEW t \in req[r].tried
          PROVE  rank[t[1]] > rank[req[r].fallback]
      <3>1. t[1] \in Models
        BY <2>3
      <3>2. /\ rank[t[1]] \in Nat /\ rank[req[r].model] \in Nat
            /\ rank[req[r].fallback] \in Nat
        BY <2>3, <3>1
      <3>3. rank[t[1]] > rank[req[r].model] \/ t[1] = req[r].model
        BY <1>a, <2>3 DEF Onward
      <3>4. rank[req[r].fallback] < rank[req[r].model]
        BY <1>a, <2>3 DEF Onward
      <3> QED BY <3>2, <3>3, <3>4
    <2> HIDE DEF q
    <2>5. Onward(q, rank)
      BY <2>2, <2>4 DEF Onward
    <2> QED BY <2>1, <2>5, OneRequestOnward
  <1> QED BY <1>1, <1>2, <1>3, <1>4, <1>5, <1>6, <1>7, <1>8, <1>9
          DEF Next, Progress, Consider, Return

(* A call begins with a candidate of the round that was not called yet.    *)
LEMMA CallIsNew ==
    ASSUME NEW rank \in [Models -> Nat],
           TypeOK, \A r \in Requests : Onward(req[r], rank), [Next]_vars,
           NEW r \in Requests, NEW b \in Backends,
           req[r].call = NoBackend, req'[r].call = b
    PROVE  <<req[r].model, b>> \notin req[r].tried
  <1>0. RequestOK(req[r]) /\ Onward(req[r], rank) /\ DOMAIN req = Requests
    BY DEF TypeOK, RequestOK
  <1>1. b # NoBackend
    BY NoneAssumption
  <1>2. \A reply : Idle(reply).call = NoBackend
    BY DEF Idle
  <1>3. PICK p \in Requests : Arrive(p) \/ Progress(p) \/ Disconnect(p)
    BY <1>1 DEF Next, Reload, Cooldown, vars
  <1>4. p = r
    <2>1. \E q : req' = [req EXCEPT ![p] = q]
      BY <1>3 DEF Arrive, Progress, ApplyConfig, Resolve, Consider, Skip,
                  Attempt, Return, Answer, AllCooling, SwitchModel, GiveUp,
                  Disconnect
    <2> QED BY <1>0, <1>1, <2>1
  <1>5. PICK c \in Backends : Attempt(r, c)
    <2>1. CASE Arrive(r)
      BY <1>0, <1>1, <2>1 DEF Arrive, Idle
    <2>2. CASE \E reply : req' = [req EXCEPT ![r] = Idle(reply)]
      BY <1>0, <1>1, <1>2, <2>2
    <2>3. CASE \E q : /\ req' = [req EXCEPT ![r] = q]
                      /\ q.call \in {req[r].call, NoBackend}
      BY <1>0, <1>1, <2>3
    <2>4. CASE ApplyConfig(r) \/ SwitchModel(r)
      <3>1. req'[r].call = req[r].call
        BY <1>0, <2>4 DEF ApplyConfig, SwitchModel, RequestOK, Request
      <3> QED BY <1>1, <3>1
    <2>5. CASE Resolve(r)
      <3> DEFINE routed == [req[r] EXCEPT !.pc = "chain", !.view = config,
                              !.rest = config.serves[req[r].model],
                              !.fallback = NoModel,
                              !.attempted = FALSE, !.passing = FALSE]
      <3>1. routed.call = req[r].call
        BY <1>0 DEF RequestOK, Request
      <3>2. req' = [req EXCEPT ![r] = IF config.serves[req[r].model] = {}
                                      THEN Idle("notfound") ELSE routed]
        BY <2>5 DEF Resolve
      <3> HIDE DEF routed
      <3> QED BY <2>2, <2>3, <3>1, <3>2
    <2>6. ASSUME NEW d \in Backends, Skip(r, d)
          PROVE  FALSE
      <3>1. Turned(req[r], d).call = req[r].call
        BY <1>0 DEF Turned, RequestOK, Request
      <3> QED BY <2>3, <2>6, <3>1, <1>0, <1>1 DEF Skip
    <2>7. ASSUME NEW outcome \in Outcomes, Answer(r, outcome)
          PROVE  FALSE
      <3> DEFINE kept == Unanswered(req[r], outcome # "failed")
      <3>1. kept.call = NoBackend
        BY <1>0 DEF Unanswered, RequestOK, Request
      <3>2. req' = [req EXCEPT ![r] = IF Returned(outcome)
                                      THEN Idle("upstream") ELSE kept]
        BY <2>7 DEF Answer
      <3> HIDE DEF kept
      <3>3. req'[r] \in {Idle("upstream"), kept}
        BY <1>0, <3>2
      <3> QED BY <1>1, <1>2, <3>1, <3>3
    <2>8. CASE AllCooling(r) \/ GiveUp(r) \/ Disconnect(r)
      BY <2>2, <2>8 DEF AllCooling, GiveUp, Disconnect
    <2> QED BY <1>3, <1>4, <2>1, <2>4, <2>5, <2>6, <2>7, <2>8
            DEF Progress, Consider, Return
  <1>6. /\ c = b /\ c \in req[r].rest /\ req[r].pc = "chain"
    BY <1>0, <1>5 DEF Attempt, Called, Turned, RequestOK, Request
  <1>7. rank[req[r].model] \in Nat
    BY <1>0, <1>6 DEF RequestOK, WellFormed
  <1> QED BY <1>0, <1>6, <1>7 DEF Onward

(* If the fallbacks are acyclic, a request calls a backend at most once    *)
(* per model, whatever fails, is skipped or reloaded meanwhile: execute    *)
(* never repeats a call.                                                   *)
THEOREM NoCallIsRepeated == ASSUME Acyclic PROVE Spec => NoCallRepeated
  <1>1. PICK rank \in [Models -> Nat] : Descends(rank)
    BY DEF Acyclic
  <1> DEFINE AllOnward == \A r \in Requests : Onward(req[r], rank)
  <1>2. Init => AllOnward
    BY IdleOnward DEF Init
  <1>3. TypeOK /\ AllOnward /\ [Next]_vars => AllOnward'
    BY <1>1, OnwardNext
  <1>4. TypeOK /\ AllOnward /\ [Next]_vars =>
           [\A r \in Requests : \A b \in Backends :
               req[r].call = NoBackend /\ req'[r].call = b =>
                  <<req[r].model, b>> \notin req[r].tried]_vars
    BY CallIsNew
  <1> HIDE DEF AllOnward
  <1> QED BY <1>2, <1>3, <1>4, TypeCorrect, PTL DEF Spec, NoCallRepeated
=============================================================================
