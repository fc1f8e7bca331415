----------------------------- MODULE ModelsCache -----------------------------
(***************************************************************************)
(* The /v1/models cache: ModelsCache (src/services/models_cache.rs) and    *)
(* the list_models handler that uses it (src/handlers/model_handler.rs).   *)
(* Requests share one refresh per key (singleflight); the refresh runs in  *)
(* a task of its own, so that it outlives the request that started it.     *)
(*                                                                         *)
(* The handlers and the tasks run on several threads, so that every access *)
(* to one of the two concurrent maps, and to a refresh's done flag, is a   *)
(* step.  A model list is named by the refresh that fetched it.            *)
(***************************************************************************)
EXTENDS Integers, FiniteSets

CONSTANTS Requests,      \* request slots, reused for request after request
          Credentials,   \* fingerprints of the effective upstream keys
          Capacity,      \* CAPACITY
          MaxReloads,    \* bound: how often the configuration is reloaded
          MaxRefreshes   \* bound: how many refreshes are started

ASSUME CredentialAssumption == Credentials # {}
ASSUME CapacityAssumption == Capacity \in Nat \ {0}
ASSUME BoundAssumption == MaxReloads \in Nat /\ MaxRefreshes \in Nat

Generations == 1..(MaxReloads + 1)
CacheKey    == Generations \X Credentials
Refreshes   == 1..MaxRefreshes
None        == 0               \* no list, no refresh

VARIABLES config,     \* the generation, and whether ttl_seconds > 0
          entries,    \* the map of entries
          inflight,   \* the map of refreshes under way
          started,    \* how many refreshes were started
          refresh,    \* their tasks
          req         \* the requests

vars == <<config, entries, inflight, started, refresh, req>>

Absent == [list |-> None, fresh |-> FALSE]
Entry  == [list : Refreshes, fresh : BOOLEAN] \cup {Absent}
Stored == {k \in CacheKey : entries[k].list # None}

(* victim is the key a full cache evicts for this refresh. *)
Refresh == [key    : CacheKey,
            pc     : {"fetch", "insert", "evict", "store", "release",
                      "notify", "remove", "over"},
            list   : Refreshes \cup {None},
            victim : CacheKey]

(* floor is the list the cache held for the key when the request arrived.  *)
Request == [pc    : {"idle", "direct", "lookup", "begin", "joining", "wait",
                     "subscribe", "recheck", "parked", "again", "previous"},
            key   : CacheKey,
            ref   : Refreshes \cup {None},
            floor : Refreshes \cup {None},
            reply : {"none", "list", "direct", "badgateway", "gone"},
            list  : Refreshes \cup {None}]

(* A slot between two requests: the reply the last one got. *)
Idle(reply, list) == [pc |-> "idle", key |-> CHOOSE k \in CacheKey : TRUE,
                      ref |-> None, floor |-> None, reply |-> reply,
                      list |-> list]

Init == /\ config = [generation |-> 1, cached |-> TRUE]
        /\ entries = [k \in CacheKey |-> Absent]
        /\ inflight = [k \in CacheKey |-> None]
        /\ started = 0
        /\ refresh = [i \in {} |-> {}]
        /\ req = [r \in Requests |-> Idle("none", None)]

-----------------------------------------------------------------------------
(* The request handler: list_models.                                       *)

At(r, place) == req' = [req EXCEPT ![r].pc = place]

(* The request takes its snapshot of the configuration.  The bound leaves  *)
(* a refresh for every request under way.                                  *)
Arrive(r) ==
    /\ req[r].pc = "idle"
    /\ started + Cardinality({q \in Requests : req[q].pc # "idle"})
         < MaxRefreshes
    /\ \E c \in Credentials :
          LET k == <<config.generation, c>> IN
          req' = [req EXCEPT ![r] = [Idle("none", None) EXCEPT
                    !.key = k,
                    !.pc = IF config.cached THEN "lookup" ELSE "direct",
                    !.floor = entries[k].list]]
    /\ UNCHANGED <<config, entries, inflight, started, refresh>>

(* ttl_seconds = 0: the upstreams are asked and nothing is cached. *)
Direct(r) ==
    /\ req[r].pc = "direct"
    /\ \E reply \in {"direct", "badgateway"} :
          req' = [req EXCEPT ![r] = Idle(reply, None)]
    /\ UNCHANGED <<config, entries, inflight, started, refresh>>

(* lookup answers with a fresh entry only. *)
Lookup(r) ==
    /\ req[r].pc = "lookup"
    /\ LET e == entries[req[r].key] IN
       req' = [req EXCEPT ![r] = IF e.fresh THEN Idle("list", e.list)
                                 ELSE [@ EXCEPT !.pc = "begin"]]
    /\ UNCHANGED <<config, entries, inflight, started, refresh>>

(* A bug: begin_refresh does not look whether the key has a refresh. *)
LeadAlways(r) ==
    /\ req[r].pc = "begin"
    /\ started < MaxRefreshes
    /\ LET k == req[r].key IN
       /\ started' = started + 1
       /\ refresh' = [i \in 1..(started + 1) |->
                        IF i = started + 1
                        THEN [key |-> k, pc |-> "fetch", list |-> None,
                              victim |-> k]
                        ELSE refresh[i]]
       /\ inflight' = [inflight EXCEPT ![k] = started + 1]
    /\ req' = [req EXCEPT ![r].pc = "joining", ![r].ref = started + 1]
    /\ UNCHANGED <<config, entries>>

(* begin_refresh makes the request the leader; its refresh is spawned. *)
Lead(r) ==
    /\ req[r].pc = "begin"
    /\ started < MaxRefreshes
    /\ inflight[req[r].key] = None
    /\ LET k == req[r].key IN
       /\ started' = started + 1
       /\ refresh' = [i \in 1..(started + 1) |->
                        IF i = started + 1
                        THEN [key |-> k, pc |-> "fetch", list |-> None,
                              victim |-> k]
                        ELSE refresh[i]]
       /\ inflight' = [inflight EXCEPT ![k] = started + 1]
    /\ req' = [req EXCEPT ![r].pc = "joining", ![r].ref = started + 1]
    /\ UNCHANGED <<config, entries>>

Follow(r) ==
    /\ req[r].pc = "begin"
    /\ inflight[req[r].key] # None
    /\ req' = [req EXCEPT ![r].pc = "wait", ![r].ref = inflight[req[r].key]]
    /\ UNCHANGED <<config, entries, inflight, started, refresh>>

(* The task of a leader has ended; a panicked one has no list. *)
Join(r) ==
    /\ req[r].pc = "joining"
    /\ refresh[req[r].ref].pc = "over"
    /\ LET list == refresh[req[r].ref].list IN
       req' = [req EXCEPT ![r] = IF list = None THEN Idle("badgateway", None)
                                 ELSE Idle("list", list)]
    /\ UNCHANGED <<config, entries, inflight, started, refresh>>

(* wait_for_leader: look at done, subscribe, look again, sleep. *)
Done(i) == refresh[i].pc \in {"notify", "remove", "over"}

WaitFirst(r) ==
    /\ req[r].pc = "wait"
    /\ At(r, IF Done(req[r].ref) THEN "again" ELSE "subscribe")
    /\ UNCHANGED <<config, entries, inflight, started, refresh>>

(* A bug: the flag is not looked at again after subscribing. *)
SubscribeAndPark(r) ==
    /\ req[r].pc = "subscribe"
    /\ At(r, "parked")
    /\ UNCHANGED <<config, entries, inflight, started, refresh>>

Subscribe(r) ==
    /\ req[r].pc = "subscribe"
    /\ At(r, "recheck")
    /\ UNCHANGED <<config, entries, inflight, started, refresh>>

WaitAgain(r) ==
    /\ req[r].pc = "recheck"
    /\ At(r, IF Done(req[r].ref) THEN "again" ELSE "parked")
    /\ UNCHANGED <<config, entries, inflight, started, refresh>>

(* LEADER_WAIT_TIMEOUT runs out. *)
Timeout(r) ==
    /\ req[r].pc = "parked"
    /\ At(r, "again")
    /\ UNCHANGED <<config, entries, inflight, started, refresh>>

(* A follower looks at the cache: for a fresh entry, then for any. *)
LookAgain(r) ==
    /\ req[r].pc = "again"
    /\ LET e == entries[req[r].key] IN
       req' = [req EXCEPT ![r] = IF e.fresh THEN Idle("list", e.list)
                                 ELSE [@ EXCEPT !.pc = "previous"]]
    /\ UNCHANGED <<config, entries, inflight, started, refresh>>

TakePrevious(r) ==
    /\ req[r].pc = "previous"
    /\ LET e == entries[req[r].key] IN
       req' = [req EXCEPT ![r] = IF e.list = None THEN Idle("badgateway", None)
                                 ELSE Idle("list", e.list)]
    /\ UNCHANGED <<config, entries, inflight, started, refresh>>

(* The caller leaves while the handler awaits: only the handler is dropped. *)
Disconnect(r) ==
    /\ req[r].pc \in {"direct", "joining", "parked"}
    /\ req' = [req EXCEPT ![r] = Idle("gone", None)]
    /\ UNCHANGED <<config, entries, inflight, started, refresh>>

-----------------------------------------------------------------------------
(* The refresh task.                                                       *)

Running(i, place) == i \in 1..started /\ refresh[i].pc = place

(* any_success: the aggregated list is to be stored. *)
Fetched(i) ==
    /\ Running(i, "fetch")
    /\ refresh' = [refresh EXCEPT ![i].pc = "insert", ![i].list = i]
    /\ UNCHANGED <<config, entries, inflight, started, req>>

(* A bug: the empty aggregation of a failed refresh is cached. *)
FetchFailsEmpty(i) ==
    /\ Running(i, "fetch")
    /\ refresh' = [refresh EXCEPT ![i].pc = "insert",
                                  ![i].list = entries[refresh[i].key].list]
    /\ UNCHANGED <<config, entries, inflight, started, req>>

(* Every upstream failed: the previous list is stored again, if there is   *)
(* one; an empty one never is.                                             *)
FetchFails(i) ==
    /\ Running(i, "fetch")
    /\ LET list == entries[refresh[i].key].list IN
       refresh' = [refresh EXCEPT
                     ![i].pc = IF list = None THEN "release" ELSE "insert",
                     ![i].list = list]
    /\ UNCHANGED <<config, entries, inflight, started, req>>

Panics(i) ==
    /\ Running(i, "fetch")
    /\ refresh' = [refresh EXCEPT ![i].pc = "release"]
    /\ UNCHANGED <<config, entries, inflight, started, req>>

(* insert: the size is compared before the entry is added, and the entry   *)
(* that goes is whichever the map's iterator yields first.                 *)
Insert(i) ==
    /\ Running(i, "insert")
    /\ IF Cardinality(Stored) < Capacity \/ refresh[i].key \in Stored
       THEN refresh' = [refresh EXCEPT ![i].pc = "store"]
       ELSE \E k \in Stored :
               refresh' = [refresh EXCEPT ![i].pc = "evict", ![i].victim = k]
    /\ UNCHANGED <<config, entries, inflight, started, req>>

Evict(i) ==
    /\ Running(i, "evict")
    /\ entries' = [entries EXCEPT ![refresh[i].victim] = Absent]
    /\ refresh' = [refresh EXCEPT ![i].pc = "store"]
    /\ UNCHANGED <<config, inflight, started, req>>

(* A bug: the list is stored for the generation of this moment. *)
StoreForNow(i) ==
    /\ Running(i, "store")
    /\ entries' = [entries EXCEPT
                     ![<<config.generation, refresh[i].key[2]>>] =
                        [list |-> refresh[i].list, fresh |-> TRUE]]
    /\ refresh' = [refresh EXCEPT ![i].pc = "release"]
    /\ UNCHANGED <<config, inflight, started, req>>

Store(i) ==
    /\ Running(i, "store")
    /\ entries' = [entries EXCEPT ![refresh[i].key] =
                     [list |-> refresh[i].list, fresh |-> TRUE]]
    /\ refresh' = [refresh EXCEPT ![i].pc = "release"]
    /\ UNCHANGED <<config, inflight, started, req>>

(* The guard is dropped: complete_refresh sets done, wakes those who       *)
(* subscribed, and removes the key.                                        *)
SetDone(i) ==
    /\ Running(i, "release")
    /\ refresh' = [refresh EXCEPT ![i].pc = "notify"]
    /\ UNCHANGED <<config, entries, inflight, started, req>>

Notify(i) ==
    /\ Running(i, "notify")
    /\ refresh' = [refresh EXCEPT ![i].pc = "remove"]
    /\ req' = [r \in Requests |->
                 IF req[r].ref = i /\ req[r].pc \in {"recheck", "parked"}
                 THEN [req[r] EXCEPT !.pc = "again"] ELSE req[r]]
    /\ UNCHANGED <<config, entries, inflight, started>>

Remove(i) ==
    /\ Running(i, "remove")
    /\ inflight' = [inflight EXCEPT ![refresh[i].key] = None]
    /\ refresh' = [refresh EXCEPT ![i].pc = "over"]
    /\ UNCHANGED <<config, entries, started, req>>

-----------------------------------------------------------------------------
(* The time to live of an entry runs out. *)
Expire(k) ==
    /\ entries[k].fresh
    /\ entries' = [entries EXCEPT ![k].fresh = FALSE]
    /\ UNCHANGED <<config, inflight, started, refresh, req>>

(* A reload of the configuration: config_generation + 1, any ttl_seconds. *)
Reload ==
    /\ config.generation <= MaxReloads
    /\ \E cached \in BOOLEAN :
          config' = [generation |-> config.generation + 1, cached |-> cached]
    /\ UNCHANGED <<entries, inflight, started, refresh, req>>

Handler(r) == \/ Direct(r) \/ Lookup(r)
              \/ Lead(r) \/ Follow(r) \/ Join(r)
              \/ WaitFirst(r) \/ Subscribe(r) \/ WaitAgain(r)
              \/ LookAgain(r) \/ TakePrevious(r)

Task(i) == \/ Fetched(i) \/ FetchFails(i) \/ Panics(i)
           \/ Insert(i) \/ Evict(i) \/ Store(i)
           \/ SetDone(i) \/ Notify(i) \/ Remove(i)

Next == \/ Reload
        \/ \E k \in CacheKey : Expire(k)
        \/ \E r \in Requests :
              Arrive(r) \/ Handler(r) \/ Timeout(r) \/ Disconnect(r)
        \/ \E i \in Refreshes : Task(i)

(* The runtime polls every handler and task that can move, and a fetch     *)
(* ends within MODELS_FETCH_TIMEOUT.  A follower's timeout has no fairness:*)
(* it must be woken.                                                       *)
Fairness == /\ \A r \in Requests : WF_vars(Handler(r))
            /\ \A i \in Refreshes : WF_vars(Task(i))

Spec == Init /\ [][Next]_vars /\ Fairness

-----------------------------------------------------------------------------
(* Types of the maps, the refresh tasks and the requests; an entry holds a *)
(* list that was fetched.                                                  *)
TypeOK == /\ config \in [generation : Generations, cached : BOOLEAN]
          /\ entries \in [CacheKey -> Entry]
          /\ inflight \in [CacheKey -> Refreshes \cup {None}]
          /\ started \in 0..MaxRefreshes
          /\ refresh \in [1..started -> Refresh]
          /\ req \in [Requests -> Request]

(* Concurrent requests for one key share one refresh: as long as a refresh *)
(* has not set done, it is the one that is registered for its key, so that *)
(* no second one fetches, evicts or stores for it.                         *)
Singleflight ==
    \A i \in 1..started : ~Done(i) => inflight[refresh[i].key] = i

(* No request gets a list that is older than the one the cache held for    *)
(* its key when it arrived, whatever refreshes, failures that restore the  *)
(* previous list, expiries and evictions overtake it.                      *)
NoOlderList ==
    [][\A r \in Requests :
          req[r].pc # "idle" /\ req'[r].pc = "idle" /\ req'[r].reply = "list"
             => req'[r].list >= req[r].floor]_vars

(* A request gets a list that was fetched with the configuration it took   *)
(* its snapshot of and with its own upstream keys, also when a refresh of  *)
(* an older generation ends after a reload.                                *)
OwnList ==
    [][\A r \in Requests :
          req[r].pc # "idle" /\ req'[r].pc = "idle" /\ req'[r].reply = "list"
             => refresh[req'[r].list].key = req[r].key]_vars

(* Every request ends, without the help of a follower's timeout: no        *)
(* notification is missed between looking at done and subscribing.         *)
EveryRequestEnds ==
    \A r \in Requests : req[r].pc # "idle" ~> req[r].pc = "idle"
=============================================================================
