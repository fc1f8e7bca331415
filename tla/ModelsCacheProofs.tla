-------------------------- MODULE ModelsCacheProofs --------------------------
(***************************************************************************)
(* Proofs about ModelsCache, for any requests, credentials, capacity and   *)
(* bounds: one refresh at a time stores for a key, and what a request gets *)
(* was fetched for its key and is no older than what the cache held when   *)
(* the request arrived.                                                    *)
(***************************************************************************)
EXTENDS ModelsCache, TLAPS

(* A refresh that is not over holds the slot of its key, and is the latest *)
(* one of that key.                                                        *)
Slots ==
    \A i \in 1..started : refresh[i].pc # "over" =>
       inflight[refresh[i].key] = i

Latest ==
    \A i, j \in 1..started :
       refresh[i].pc # "over" /\ refresh[j].key = refresh[i].key => j <= i

(* Lists are fetched for the key they are stored under. *)
Of(list, k) == list # None => list \in 1..started /\ refresh[list].key = k

EntriesOwn == \A k \in CacheKey : Of(entries[k].list, k)
ListsOwn   == \A i \in 1..started : Of(refresh[i].list, refresh[i].key)

(* A refresh that is about to store has a list, no older than the entry.   *)
Storing(i) == refresh[i].pc \in {"insert", "evict", "store"}

Newer ==
    \A i \in 1..started : Storing(i) =>
       /\ refresh[i].list # None
       /\ entries[refresh[i].key].list <= refresh[i].list

CacheInv == Slots /\ Latest /\ EntriesOwn /\ ListsOwn /\ Newer

(* No list that request r can still get is older than its floor. *)
Owed(r) ==
    /\ Of(req[r].floor, req[r].key)
    /\ entries[req[r].key].list # None =>
          req[r].floor <= entries[req[r].key].list
    /\ \A i \in 1..started : Storing(i) /\ refresh[i].key = req[r].key =>
          req[r].floor <= refresh[i].list
    /\ req[r].pc = "joining" =>
          /\ req[r].ref \in 1..started
          /\ refresh[req[r].ref].key = req[r].key
          /\ refresh[req[r].ref].list # None =>
                req[r].floor <= refresh[req[r].ref].list

RequestInv == \A r \in Requests : req[r].pc # "idle" => Owed(r)

IInv == TypeOK /\ CacheInv /\ RequestInv

-----------------------------------------------------------------------------
LEMMA KeyType == ASSUME NEW g \in Generations, NEW c \in Credentials
                 PROVE  <<g, c>> \in CacheKey
  BY DEF CacheKey

LEMMA KeyExists == (CHOOSE k \in CacheKey : TRUE) \in CacheKey
  <1>1. PICK c \in Credentials : TRUE
    BY CredentialAssumption
  <1>2. 1 \in Generations
    BY BoundAssumption DEF Generations
  <1>3. <<1, c>> \in CacheKey
    BY <1>1, <1>2, KeyType
  <1> QED BY <1>3

LEMMA IdleType ==
    ASSUME NEW reply \in {"none", "list", "direct", "badgateway", "gone"},
           NEW list \in Refreshes \cup {None}
    PROVE  /\ Idle(reply, list) \in Request
           /\ Idle(reply, list).pc = "idle"
           /\ Idle(reply, list).reply = reply
           /\ Idle(reply, list).list = list
  BY KeyExists DEF Idle, Request

LEMMA InitInv == Init => IInv
  <1> SUFFICES ASSUME Init PROVE IInv
    OBVIOUS
  <1>1. Idle("none", None) \in Request /\ Idle("none", None).pc = "idle"
    BY IdleType
  <1>2. config \in [generation : Generations, cached : BOOLEAN]
    BY BoundAssumption DEF Init, Generations
  <1>3. entries \in [CacheKey -> Entry]
    BY DEF Init, Entry
  <1>4. refresh \in [1..started -> Refresh]
    BY DEF Init
  <1>5. TypeOK
    BY <1>1, <1>2, <1>3, <1>4, BoundAssumption DEF Init, TypeOK
  <1>6. CacheInv
    BY DEF Init, CacheInv, Slots, Latest, EntriesOwn, ListsOwn, Newer, Of,
           Absent
  <1>7. RequestInv
    BY <1>1 DEF Init, RequestInv
  <1> QED BY <1>5, <1>6, <1>7 DEF IInv

-----------------------------------------------------------------------------
(* Steps of a handler that leave the cache alone.                          *)

LEMMA CacheFrame ==
    ASSUME CacheInv, UNCHANGED <<entries, inflight, started, refresh>>
    PROVE  CacheInv'
  BY DEF CacheInv, Slots, Latest, EntriesOwn, ListsOwn, Newer, Of, Storing

(* What is owed to a request depends on these parts of the state only. *)
LEMMA OwedFrame ==
    ASSUME NEW r \in Requests, Owed(r),
           UNCHANGED <<entries, started, refresh>>,
           req'[r].key = req[r].key, req'[r].floor = req[r].floor,
           req'[r].pc = "joining" => req[r].pc = "joining",
           req'[r].ref = req[r].ref \/ req'[r].pc # "joining"
    PROVE  Owed(r)'
  BY DEF Owed, Of, Storing

(* One request moves on; it becomes no leader by that. *)
Onward(p, q) == /\ p.pc # "idle"
                /\ q.pc # "joining"
                /\ q.key = p.key
                /\ q.floor = p.floor

LEMMA OneRequest ==
    ASSUME IInv, NEW r \in Requests, NEW q \in Request,
           req' = [req EXCEPT ![r] = q],
           UNCHANGED <<config, entries, inflight, started, refresh>>,
           q.pc = "idle" \/ Onward(req[r], q)
    PROVE  IInv'
  <1>1. TypeOK'
    BY DEF IInv, TypeOK
  <1>2. CacheInv'
    BY CacheFrame DEF IInv
  <1>3. ASSUME NEW p \in Requests, req'[p].pc # "idle"
        PROVE  Owed(p)'
    <2>0. req \in [Requests -> Request]
      BY DEF IInv, TypeOK
    <2>1. CASE p = r
      <3>1. req'[r] = q /\ Onward(req[r], q)
        BY <1>3, <2>0, <2>1
      <3>2. Owed(r)
        BY <3>1 DEF IInv, RequestInv, Onward
      <3> QED BY <3>1, <3>2, <2>1, OwedFrame DEF Onward
    <2>2. CASE p # r
      <3>1. req'[p] = req[p]
        BY <2>0, <2>2
      <3>2. Owed(p)
        BY <1>3, <3>1 DEF IInv, RequestInv
      <3> QED BY <3>1, <3>2, OwedFrame
    <2> QED BY <2>1, <2>2
  <1> QED BY <1>1, <1>2, <1>3 DEF IInv, RequestInv

(* One request goes to another place in the code. *)
LEMMA PlaceInv ==
    ASSUME IInv, NEW r \in Requests, req[r].pc # "idle",
           NEW place \in {"begin", "subscribe", "recheck", "parked", "again",
                          "previous"},
           req' = [req EXCEPT ![r].pc = place],
           UNCHANGED <<config, entries, inflight, started, refresh>>
    PROVE  IInv'
  <1> DEFINE q == [req[r] EXCEPT !.pc = place]
  <1>0. req[r] \in Request
    BY DEF IInv, TypeOK
  <1>1. q \in Request /\ Onward(req[r], q)
    BY <1>0 DEF Request, Onward
  <1>2. req' = [req EXCEPT ![r] = q]
    OBVIOUS
  <1> HIDE DEF q
  <1> QED BY <1>1, <1>2, OneRequest

(* One request ends. *)
LEMMA EndInv ==
    ASSUME IInv, NEW r \in Requests,
           NEW reply \in {"none", "list", "direct", "badgateway", "gone"},
           NEW list \in Refreshes \cup {None},
           req' = [req EXCEPT ![r] = Idle(reply, list)],
           UNCHANGED <<config, entries, inflight, started, refresh>>
    PROVE  IInv'
  <1>1. Idle(reply, list) \in Request /\ Idle(reply, list).pc = "idle"
    BY IdleType
  <1> QED BY <1>1, OneRequest

LEMMA EntryType ==
    ASSUME TypeOK, NEW k \in CacheKey
    PROVE  /\ entries[k].list \in Refreshes \cup {None}
           /\ entries[k].fresh \in BOOLEAN
           /\ entries[k].fresh => entries[k].list \in Refreshes
  <1>1. entries[k] \in Entry
    BY DEF TypeOK
  <1>2. CASE entries[k] = Absent
    BY <1>2 DEF Absent
  <1>3. CASE entries[k] \in [list : Refreshes, fresh : BOOLEAN]
    BY <1>3
  <1> QED BY <1>1, <1>2, <1>3 DEF Entry

LEMMA RequestType ==
    ASSUME TypeOK, NEW r \in Requests
    PROVE  req[r] \in Request /\ req[r].key \in CacheKey
  BY DEF TypeOK, Request

LEMMA HandlerInv ==
    ASSUME IInv, NEW r \in Requests,
           \/ Direct(r) \/ Lookup(r) \/ Follow(r) \/ Join(r)
           \/ WaitFirst(r) \/ Subscribe(r) \/ WaitAgain(r)
           \/ LookAgain(r) \/ TakePrevious(r)
           \/ Timeout(r) \/ Disconnect(r)
    PROVE  IInv'
  <1>t. TypeOK
    BY DEF IInv
  <1>k. req[r] \in Request /\ req[r].key \in CacheKey
    BY <1>t, RequestType
  <1>e. /\ entries[req[r].key].list \in Refreshes \cup {None}
        /\ None \in Refreshes \cup {None}
    BY <1>t, <1>k, EntryType
  <1>1. CASE Direct(r)
    BY <1>1, <1>e, EndInv DEF Direct
  <1>2. CASE Lookup(r)
    <2>1. CASE entries[req[r].key].fresh
      BY <1>2, <2>1, <1>e, EndInv DEF Lookup
    <2>2. CASE ~entries[req[r].key].fresh
      <3>1. req' = [req EXCEPT ![r].pc = "begin"]
        BY <1>2, <2>2 DEF Lookup
      <3> QED BY <1>2, <3>1, PlaceInv DEF Lookup
    <2> QED BY <2>1, <2>2
  <1>3. CASE Follow(r)
    <2> DEFINE q == [req[r] EXCEPT !.pc = "wait",
                                   !.ref = inflight[req[r].key]]
    <2>1. inflight[req[r].key] \in Refreshes \cup {None}
      BY <1>t, <1>k DEF TypeOK
    <2>2. q \in Request /\ Onward(req[r], q)
      BY <1>3, <1>k, <2>1 DEF Request, Onward, Follow
    <2>3. req' = [req EXCEPT ![r] = q]
      BY <1>3 DEF Follow
    <2> HIDE DEF q
    <2> QED BY <1>3, <2>2, <2>3, OneRequest DEF Follow
  <1>4. CASE Join(r)
    <2>1. req[r].ref \in 1..started
      BY <1>4 DEF Join, IInv, RequestInv, Owed
    <2>2. refresh[req[r].ref].list \in Refreshes \cup {None}
      BY <2>1, <1>t DEF TypeOK, Refresh
    <2>3. CASE refresh[req[r].ref].list = None
      BY <1>4, <2>3, <1>e, EndInv DEF Join
    <2>4. CASE refresh[req[r].ref].list # None
      BY <1>4, <2>2, <2>4, EndInv DEF Join
    <2> QED BY <2>3, <2>4
  <1>5. CASE WaitFirst(r) \/ Subscribe(r) \/ WaitAgain(r) \/ Timeout(r)
    BY <1>5, PlaceInv DEF WaitFirst, Subscribe, WaitAgain, Timeout, At
  <1>6. CASE LookAgain(r)
    <2>1. CASE entries[req[r].key].fresh
      BY <1>6, <2>1, <1>e, EndInv DEF LookAgain
    <2>2. CASE ~entries[req[r].key].fresh
      <3>1. req' = [req EXCEPT ![r].pc = "previous"]
        BY <1>6, <2>2 DEF LookAgain
      <3> QED BY <1>6, <3>1, PlaceInv DEF LookAgain
    <2> QED BY <2>1, <2>2
  <1>7. CASE TakePrevious(r)
    <2>1. CASE entries[req[r].key].list = None
      BY <1>7, <2>1, <1>e, EndInv DEF TakePrevious
    <2>2. CASE entries[req[r].key].list # None
      BY <1>7, <2>2, <1>e, EndInv DEF TakePrevious
    <2> QED BY <2>1, <2>2
  <1>8. CASE Disconnect(r)
    BY <1>8, <1>e, EndInv DEF Disconnect
  <1> QED BY <1>1, <1>2, <1>3, <1>4, <1>5, <1>6, <1>7, <1>8

-----------------------------------------------------------------------------
(* A request arrives, and one becomes the leader of a refresh.             *)

LEMMA ListRange ==
    ASSUME NEW list \in Refreshes \cup {None}
    PROVE  list \in Nat /\ (list # None => list >= 1)
  BY BoundAssumption DEF Refreshes, None

LEMMA ArriveInv ==
    ASSUME IInv, NEW r \in Requests, Arrive(r)
    PROVE  IInv'
  <1>t. TypeOK
    BY DEF IInv
  <1>1. PICK c \in Credentials :
          req' = [req EXCEPT ![r] = [Idle("none", None) EXCEPT
                    !.key = <<config.generation, c>>,
                    !.pc = IF config.cached THEN "lookup" ELSE "direct",
                    !.floor = entries[<<config.generation, c>>].list]]
    BY DEF Arrive
  <1> DEFINE k == <<config.generation, c>>
             q == [Idle("none", None) EXCEPT
                    !.key = k,
                    !.pc = IF config.cached THEN "lookup" ELSE "direct",
                    !.floor = entries[k].list]
  <1>2. k \in CacheKey
    BY <1>t, KeyType DEF TypeOK
  <1>3. /\ entries[k].list \in Refreshes \cup {None}
        /\ entries[k].list \in Nat
    BY <1>t, <1>2, EntryType, ListRange
  <1>4. req' = [req EXCEPT ![r] = q]
    BY <1>1
  <1>5. /\ q \in Request
        /\ q.pc \in {"lookup", "direct"}
        /\ q.key = k
        /\ q.floor = entries[k].list
    <2> HIDE DEF k
    <2>1. Idle("none", None) \in Request
      BY IdleType
    <2> QED BY <2>1, <1>2, <1>3 DEF Request
  <1>6. UNCHANGED <<config, entries, inflight, started, refresh>>
    BY DEF Arrive
  <1> HIDE DEF q, k
  <1>7. TypeOK'
    BY <1>4, <1>5, <1>6, <1>t DEF TypeOK
  <1>8. CacheInv'
    BY <1>6, CacheFrame DEF IInv
  <1>9. ASSUME NEW p \in Requests, req'[p].pc # "idle"
        PROVE  Owed(p)'
    <2>0. req \in [Requests -> Request]
      BY <1>t DEF TypeOK
    <2>1. CASE p = r
      <3>1. req'[r] = q
        BY <2>0, <1>4
      <3>2. Of(entries[k].list, k)
        BY <1>2 DEF IInv, CacheInv, EntriesOwn
      <3>3. \A i \in 1..started : Storing(i) /\ refresh[i].key = k =>
               entries[k].list <= refresh[i].list
        BY DEF IInv, CacheInv, Newer
      <3> QED BY <3>1, <3>2, <3>3, <2>1, <1>3, <1>5, <1>6
              DEF Owed, Of, Storing
    <2>2. CASE p # r
      <3>1. req'[p] = req[p]
        BY <2>0, <2>2, <1>4
      <3>2. Owed(p)
        BY <1>9, <3>1 DEF IInv, RequestInv
      <3> QED BY <3>1, <3>2, <1>6, OwedFrame
    <2> QED BY <2>1, <2>2
  <1> QED BY <1>7, <1>8, <1>9 DEF IInv, RequestInv

LEMMA LeadInv ==
    ASSUME IInv, NEW r \in Requests, Lead(r)
    PROVE  IInv'
  <1>t. TypeOK
    BY DEF IInv
  <1> DEFINE k == req[r].key
             n == started + 1
             task == [key |-> k, pc |-> "fetch", list |-> None, victim |-> k]
             q == [req[r] EXCEPT !.pc = "joining", !.ref = n]
  <1>k. req[r] \in Request /\ k \in CacheKey
    BY <1>t, RequestType
  <1>n. n \in Refreshes /\ started \in Nat /\ n \in 0..MaxRefreshes
    BY <1>t, BoundAssumption DEF Lead, TypeOK, Refreshes
  <1>1. /\ started' = n
        /\ refresh' = [i \in 1..n |-> IF i = n THEN task ELSE refresh[i]]
        /\ inflight' = [inflight EXCEPT ![k] = n]
        /\ UNCHANGED <<config, entries>>
        /\ inflight[k] = None
        /\ req[r].pc = "begin"
    BY DEF Lead
  <1>2. req' = [req EXCEPT ![r] = q]
    BY DEF Lead
  <1>3. /\ task \in Refresh
        /\ task.key = k /\ task.pc = "fetch" /\ task.list = None
    BY <1>k DEF Refresh
  <1>4. q \in Request
    BY <1>k, <1>n DEF Request
  <1>5. /\ \A i \in 1..started : refresh'[i] = refresh[i]
        /\ refresh'[n] = task
        /\ 1..started' = (1..started) \cup {n}
        /\ n \notin 1..started
        /\ n \in 1..n
    BY <1>1, <1>n
  <1>p. /\ req'[r].pc = "joining" /\ req'[r].ref = n /\ req'[r].key = k
        /\ req'[r].floor = req[r].floor
        /\ \A p \in Requests \ {r} : req'[p] = req[p]
    BY <1>2, <1>k, <1>t DEF TypeOK, Request
  <1> HIDE DEF task, q
  <1>6. TypeOK'
    <2>1. refresh' \in [1..started' -> Refresh]
      BY <1>1, <1>3, <1>5, <1>t DEF TypeOK
    <2>2. inflight' \in [CacheKey -> Refreshes \cup {None}]
      BY <1>1, <1>k, <1>n, <1>t DEF TypeOK
    <2> HIDE DEF n, k
    <2> QED BY <2>1, <2>2, <1>1, <1>2, <1>4, <1>n, <1>t DEF TypeOK
  <1>7. CacheInv'
    <2> HIDE DEF k
    <2>0. \A i \in 1..started : refresh[i].key = k => refresh[i].pc = "over"
      BY <1>1, <1>n DEF IInv, CacheInv, Slots, None
    <2>1. Slots'
      BY <2>0, <1>1, <1>3, <1>5, <1>k, <1>t DEF IInv, CacheInv, Slots, TypeOK
    <2>2. Latest'
      BY <2>0, <1>1, <1>3, <1>5, <1>n DEF IInv, CacheInv, Latest
    <2>3. EntriesOwn'
      BY <1>1, <1>5 DEF IInv, CacheInv, EntriesOwn, Of
    <2>4. ListsOwn'
      BY <1>1, <1>3, <1>5 DEF IInv, CacheInv, ListsOwn, Of
    <2>5. Newer'
      BY <1>1, <1>3, <1>5 DEF IInv, CacheInv, Newer, Storing
    <2> QED BY <2>1, <2>2, <2>3, <2>4, <2>5 DEF CacheInv
  <1>8. ASSUME NEW p \in Requests, req'[p].pc # "idle"
        PROVE  Owed(p)'
    <2>1. /\ req[p].pc # "idle"
          /\ req'[p].key = req[p].key /\ req'[p].floor = req[p].floor
      BY <1>8, <1>p, <1>1
    <2>2. Owed(p)
      BY <2>1 DEF IInv, RequestInv
    <2>3. Of(req[p].floor, req[p].key)'
      BY <2>1, <2>2, <1>1, <1>5 DEF Owed, Of
    <2>4. \A i \in 1..started' :
             (Storing(i) /\ refresh[i].key = req[p].key)' =>
                req'[p].floor <= refresh'[i].list
      BY <2>1, <2>2, <1>3, <1>5 DEF Owed, Storing
    <2>5. CASE p = r
      BY <2>1, <2>2, <2>3, <2>4, <2>5, <1>p, <1>1, <1>3, <1>5 DEF Owed
    <2>6. CASE p # r
      BY <2>1, <2>2, <2>3, <2>4, <2>6, <1>p, <1>1, <1>5 DEF Owed
    <2> QED BY <2>5, <2>6
  <1> QED BY <1>6, <1>7, <1>8 DEF IInv, RequestInv

-----------------------------------------------------------------------------
(* Steps of a refresh task.                                                *)

(* What every step of refresh i leaves alone. *)
LEMMA TaskFrame ==
    ASSUME IInv, NEW i \in Refreshes, NEW t \in Refresh, i \in 1..started,
           refresh' = [refresh EXCEPT ![i] = t], t.key = refresh[i].key,
           started' = started
    PROVE  /\ refresh' \in [1..started' -> Refresh]
           /\ refresh'[i] = t
           /\ \A j \in 1..started : j # i => refresh'[j] = refresh[j]
           /\ \A j \in 1..started : refresh'[j].key = refresh[j].key
  BY DEF IInv, TypeOK

(* The slots, when a refresh that is not over moves on. *)
LEMMA SlotsKept ==
    ASSUME IInv, NEW i \in Refreshes, NEW t \in Refresh, i \in 1..started,
           refresh' = [refresh EXCEPT ![i] = t], t.key = refresh[i].key,
           refresh[i].pc # "over", UNCHANGED <<started, inflight>>
    PROVE  Slots' /\ Latest'
  <1>1. /\ refresh'[i] = t
        /\ \A j \in 1..started : j # i => refresh'[j] = refresh[j]
        /\ \A j \in 1..started : refresh'[j].key = refresh[j].key
    BY TaskFrame
  <1>2. Slots'
    BY <1>1 DEF IInv, CacheInv, Slots
  <1>3. Latest'
    BY <1>1 DEF IInv, CacheInv, Latest
  <1> QED BY <1>2, <1>3

(* Refresh i moves on, the entries stay and requests at most move onward.  *)
(* The refresh may obtain a list: one it fetched, or the previous one.     *)
LEMMA TaskInv ==
    ASSUME IInv, NEW i \in Refreshes, NEW t \in Refresh, i \in 1..started,
           refresh' = [refresh EXCEPT ![i] = t], t.key = refresh[i].key,
           refresh[i].pc # "over",
           UNCHANGED <<config, entries, inflight, started>>,
           req' \in [Requests -> Request],
           \A r \in Requests :
              req'[r] = req[r] \/ Onward(req[r], req'[r]),
           \/ t.list = refresh[i].list /\ (Storing(i) \/ t.pc \notin
                                            {"insert", "evict", "store"})
           \/ t.list = i
           \/ t.list = entries[t.key].list /\ (t.list = None => t.pc \notin
                                            {"insert", "evict", "store"})
    PROVE  IInv'
  <1>t. TypeOK
    BY DEF IInv
  <1>1. /\ refresh' \in [1..started' -> Refresh]
        /\ refresh'[i] = t
        /\ \A j \in 1..started : j # i => refresh'[j] = refresh[j]
        /\ \A j \in 1..started : refresh'[j].key = refresh[j].key
    BY TaskFrame
  <1>k. t.key \in CacheKey
    BY DEF Refresh
  <1>e. /\ entries[t.key].list \in Nat
        /\ Of(entries[t.key].list, t.key)
        /\ entries[t.key].list <= i
        /\ i \in Nat /\ i # None /\ i >= 1
    <2>1. entries[t.key].list \in Nat /\ i \in Nat /\ i # None /\ i >= 1
      BY <1>k, <1>t, EntryType, ListRange DEF Refreshes, None
    <2>2. Of(entries[t.key].list, t.key)
      BY <1>k DEF IInv, CacheInv, EntriesOwn
    <2>3. entries[t.key].list <= i
      BY <2>1, <2>2 DEF IInv, CacheInv, Latest, Of, None
    <2> QED BY <2>1, <2>2, <2>3
  <1>2. TypeOK'
    BY <1>1, <1>t DEF TypeOK
  <1>3. Slots' /\ Latest'
    BY SlotsKept
  <1>4. EntriesOwn'
    BY <1>1 DEF IInv, CacheInv, EntriesOwn, Of
  <1>5. ListsOwn'
    BY <1>1, <1>e DEF IInv, CacheInv, ListsOwn, Of
  <1>6. Newer'
    <2>1. ASSUME NEW j \in 1..started, Storing(j)'
          PROVE  /\ refresh'[j].list # None
                 /\ entries[refresh'[j].key].list <= refresh'[j].list
      <3>1. CASE j # i
        BY <2>1, <3>1, <1>1 DEF IInv, CacheInv, Newer, Storing
      <3>2. CASE j = i
        BY <2>1, <3>2, <1>1, <1>e DEF IInv, CacheInv, Newer, Storing
      <3> QED BY <3>1, <3>2
    <2> QED BY <2>1 DEF Newer
  <1>7. ASSUME NEW r \in Requests, req'[r].pc # "idle"
        PROVE  Owed(r)'
    <2>0. /\ req[r].pc # "idle"
          /\ req'[r].key = req[r].key
          /\ req'[r].floor = req[r].floor
          /\ req'[r].pc = "joining" =>
                req[r].pc = "joining" /\ req'[r].ref = req[r].ref
      BY <1>7 DEF Onward
    <2>1. Owed(r)
      BY <2>0 DEF IInv, RequestInv
    <2>2. req[r].floor \in Nat
      BY <1>t, RequestType, ListRange DEF Request
    <2>3. Of(req[r].floor, req[r].key)'
      BY <2>0, <2>1, <1>1 DEF Owed, Of
    <2>4. refresh[i].key = req[r].key => req[r].floor <= i
      BY <2>1, <2>2, <1>e DEF Owed, Of, IInv, CacheInv, Latest, None
    <2>5. ASSUME NEW j \in 1..started, Storing(j)',
                 refresh'[j].key = req[r].key
          PROVE  req[r].floor <= refresh'[j].list
      <3>1. CASE j # i
        BY <2>5, <3>1, <2>1, <1>1 DEF Owed, Storing
      <3>2. CASE j = i
        BY <2>5, <3>2, <2>1, <2>4, <1>1, <1>e DEF Owed, Storing
      <3> QED BY <3>1, <3>2
    <2>6. ASSUME req[r].pc = "joining"
          PROVE  /\ req[r].ref \in 1..started
                 /\ refresh'[req[r].ref].key = req[r].key
                 /\ refresh'[req[r].ref].list # None =>
                       req[r].floor <= refresh'[req[r].ref].list
      <3>1. /\ req[r].ref \in 1..started
            /\ refresh[req[r].ref].key = req[r].key
            /\ refresh[req[r].ref].list # None =>
                  req[r].floor <= refresh[req[r].ref].list
        BY <2>1, <2>6 DEF Owed
      <3>2. CASE req[r].ref # i
        BY <3>1, <3>2, <1>1
      <3>3. CASE req[r].ref = i
        BY <3>1, <3>3, <2>1, <2>4, <1>1, <1>e DEF Owed
      <3> QED BY <3>1, <3>2, <3>3
    <2> QED BY <2>0, <2>1, <2>3, <2>5, <2>6 DEF Owed
  <1> QED BY <1>2, <1>3, <1>4, <1>5, <1>6, <1>7
          DEF IInv, CacheInv, RequestInv

(* Refresh i evicts an entry, or stores its list. *)
LEMMA WriteInv ==
    ASSUME IInv, NEW i \in Refreshes, NEW t \in Refresh, i \in 1..started,
           refresh' = [refresh EXCEPT ![i] = t], t.key = refresh[i].key,
           t.list = refresh[i].list, Storing(i),
           UNCHANGED <<config, inflight, started, req>>,
           NEW k \in CacheKey, NEW e \in Entry,
           entries' = [entries EXCEPT ![k] = e],
           e = Absent \/ (k = t.key /\ e.list = t.list)
    PROVE  IInv'
  <1>t. TypeOK
    BY DEF IInv
  <1>1. /\ refresh' \in [1..started' -> Refresh]
        /\ refresh'[i] = t
        /\ \A j \in 1..started : j # i => refresh'[j] = refresh[j]
        /\ \A j \in 1..started : refresh'[j].key = refresh[j].key
        /\ \A j \in 1..started : refresh'[j].list = refresh[j].list
        /\ \A j \in 1..started : Storing(j)' => Storing(j)
    BY TaskFrame DEF Storing
  <1>2. TypeOK'
    BY <1>1, <1>t DEF TypeOK
  <1>3. Slots' /\ Latest'
    BY SlotsKept DEF Storing
  <1>e. /\ entries'[k] = e
        /\ \A l \in CacheKey : l # k => entries'[l] = entries[l]
        /\ e.list = None \/ (k = t.key /\ e.list = t.list)
    BY <1>t DEF TypeOK, Absent
  <1>n. t.list \in Nat /\ t.list # None
    BY ListRange DEF Refresh, IInv, CacheInv, Newer
  <1>4. EntriesOwn'
    BY <1>1, <1>e DEF IInv, CacheInv, EntriesOwn, ListsOwn, Of
  <1>5. ListsOwn'
    BY <1>1 DEF IInv, CacheInv, ListsOwn, Of
  (* No other refresh is about to store for the key of i. *)
  <1>o. \A j \in 1..started : Storing(j) /\ refresh[j].key = t.key => j = i
    BY DEF IInv, CacheInv, Slots, Storing
  <1>6. Newer'
    <2>1. ASSUME NEW j \in 1..started, Storing(j)'
          PROVE  /\ refresh'[j].list # None
                 /\ entries'[refresh'[j].key].list <= refresh'[j].list
      <3>0. /\ Storing(j) /\ refresh[j].key \in CacheKey
            /\ refresh[j].list \in Nat
        BY <2>1, <1>1, <1>t, ListRange DEF TypeOK, Refresh
      <3>1. CASE refresh[j].key # k
        BY <3>0, <3>1, <1>1, <1>e DEF IInv, CacheInv, Newer
      <3>2. CASE refresh[j].key = k /\ e.list = None
        BY <3>0, <3>2, <1>1, <1>e DEF IInv, CacheInv, Newer, None
      <3>3. CASE refresh[j].key = k /\ k = t.key /\ e.list = t.list
        BY <3>0, <3>3, <1>1, <1>e, <1>o, <1>n
      <3> QED BY <3>1, <3>2, <3>3, <1>e
    <2> QED BY <2>1, <1>1 DEF Newer
  <1>7. ASSUME NEW r \in Requests, req[r].pc # "idle"
        PROVE  Owed(r)'
    <2>1. Owed(r) /\ req[r].key \in CacheKey
      BY <1>7, <1>t, RequestType DEF IInv, RequestInv
    <2>2. Of(req[r].floor, req[r].key)'
      BY <2>1, <1>1 DEF Owed, Of
    <2>3. entries'[req[r].key].list # None =>
             req[r].floor <= entries'[req[r].key].list
      BY <2>1, <1>1, <1>e DEF Owed
    <2> QED BY <2>1, <2>2, <2>3, <1>1 DEF Owed
  <1> QED BY <1>2, <1>3, <1>4, <1>5, <1>6, <1>7
          DEF IInv, CacheInv, RequestInv

LEMMA RemoveInv ==
    ASSUME IInv, NEW i \in Refreshes, Remove(i)
    PROVE  IInv'
  <1>t. TypeOK
    BY DEF IInv
  <1> DEFINE t == [refresh[i] EXCEPT !.pc = "over"]
  <1>1. /\ i \in 1..started /\ refresh[i] \in Refresh
        /\ refresh[i].pc = "remove" /\ refresh[i].key \in CacheKey
    BY <1>t DEF Remove, Running, TypeOK, Refresh
  <1>2. /\ t \in Refresh /\ t.key = refresh[i].key /\ t.pc = "over"
        /\ t.list = refresh[i].list
    BY <1>1 DEF Refresh
  <1>3. /\ refresh' = [refresh EXCEPT ![i] = t]
        /\ inflight' = [inflight EXCEPT ![refresh[i].key] = None]
        /\ UNCHANGED <<config, entries, started, req>>
    BY DEF Remove
  <1> HIDE DEF t
  <1>4. /\ refresh' \in [1..started' -> Refresh]
        /\ refresh'[i] = t
        /\ \A j \in 1..started : j # i => refresh'[j] = refresh[j]
        /\ \A j \in 1..started : refresh'[j].key = refresh[j].key
    BY <1>1, <1>2, <1>3, TaskFrame
  <1>5. TypeOK'
    BY <1>1, <1>3, <1>4, <1>t DEF TypeOK
  <1>6. Slots'
    <2>1. ASSUME NEW j \in 1..started, refresh'[j].pc # "over"
          PROVE  inflight'[refresh'[j].key] = j
      <3>1. j # i /\ refresh'[j] = refresh[j]
        BY <2>1, <1>2, <1>4
      <3>2. inflight[refresh[j].key] = j /\ inflight[refresh[i].key] = i
        BY <2>1, <3>1, <1>1 DEF IInv, CacheInv, Slots
      <3>3. refresh[j].key # refresh[i].key /\ refresh[j].key \in CacheKey
        BY <3>1, <3>2, <1>t DEF TypeOK, Refresh
      <3> QED BY <3>1, <3>2, <3>3, <1>3, <1>t DEF TypeOK
    <2> QED BY <2>1, <1>3 DEF Slots
  <1>7. Latest'
    BY <1>1, <1>2, <1>3, <1>4 DEF IInv, CacheInv, Latest
  <1>8. \A j \in 1..started : /\ refresh'[j].list = refresh[j].list
                              /\ Storing(j)' => Storing(j)
    BY <1>2, <1>4 DEF Storing
  <1>9. EntriesOwn' /\ ListsOwn' /\ Newer'
    BY <1>3, <1>4, <1>8
       DEF IInv, CacheInv, EntriesOwn, ListsOwn, Newer, Of
  <1>10. RequestInv'
    BY <1>3, <1>4, <1>8 DEF IInv, RequestInv, Owed, Of
  <1> QED BY <1>5, <1>6, <1>7, <1>9, <1>10 DEF IInv, CacheInv

LEMMA TasksInv ==
    ASSUME IInv, NEW i \in Refreshes, Task(i)
    PROVE  IInv'
  <1>t. /\ TypeOK
        /\ \A r \in Requests : req[r] \in Request
        /\ req \in [Requests -> Request]
    BY DEF IInv, TypeOK
  <1>1. /\ i \in 1..started /\ refresh[i] \in Refresh
        /\ refresh[i].key \in CacheKey
        /\ refresh[i].list \in Refreshes \cup {None}
        /\ refresh[i].pc # "over"
    BY <1>t DEF Task, Fetched, FetchFails, Panics, Insert, Evict, Store,
                SetDone, Notify, Remove, Running, TypeOK, Refresh
  <1>2. CASE Fetched(i)
    <2> DEFINE t == [refresh[i] EXCEPT !.pc = "insert", !.list = i]
    <2>1. t \in Refresh /\ t.key = refresh[i].key /\ t.list = i
      BY <1>1 DEF Refresh
    <2>2. refresh' = [refresh EXCEPT ![i] = t]
      BY <1>2 DEF Fetched
    <2> HIDE DEF t
    <2> QED BY <1>1, <1>2, <1>t, <2>1, <2>2, TaskInv DEF Fetched
  <1>3. CASE FetchFails(i)
    <2> DEFINE list == entries[refresh[i].key].list
               place == IF list = None THEN "release" ELSE "insert"
               t == [refresh[i] EXCEPT !.pc = place, !.list = list]
    <2>1. list \in Refreshes \cup {None}
      BY <1>1, <1>t, EntryType
    <2>2. refresh' = [refresh EXCEPT ![i] = t]
      BY <1>3 DEF FetchFails
    <2>3. /\ t \in Refresh /\ t.key = refresh[i].key
          /\ t.list = list /\ t.pc = place
      <3> HIDE DEF list
      <3> QED BY <1>1, <2>1 DEF Refresh
    <2>4. t.list = None => t.pc \notin {"insert", "evict", "store"}
      BY <2>3
    <2>5. t.list = entries[t.key].list
      BY <2>3
    <2> HIDE DEF t
    <2> QED BY <1>1, <1>3, <1>t, <2>2, <2>3, <2>4, <2>5, TaskInv
            DEF FetchFails
  <1>4. CASE Panics(i)
    <2> DEFINE t == [refresh[i] EXCEPT !.pc = "release"]
    <2>1. /\ t \in Refresh /\ t.key = refresh[i].key
          /\ t.list = refresh[i].list /\ t.pc = "release"
      BY <1>1 DEF Refresh
    <2>2. refresh' = [refresh EXCEPT ![i] = t]
      BY <1>4 DEF Panics
    <2> HIDE DEF t
    <2> QED BY <1>1, <1>4, <1>t, <2>1, <2>2, TaskInv DEF Panics
  <1>5. CASE Insert(i)
    <2>1. PICK k \in CacheKey, place \in {"store", "evict"} :
             refresh' = [refresh EXCEPT ![i] =
                           [refresh[i] EXCEPT !.pc = place, !.victim = k]]
      <3>1. CASE refresh' = [refresh EXCEPT ![i].pc = "store"]
        <4>1. [refresh[i] EXCEPT !.pc = "store"] =
                [refresh[i] EXCEPT !.pc = "store",
                                   !.victim = refresh[i].victim]
          BY <1>1 DEF Refresh
        <4>2. refresh[i].victim \in CacheKey
          BY <1>1 DEF Refresh
        <4> QED BY <3>1, <4>1, <4>2
      <3>2. CASE \E k \in Stored :
                    refresh' = [refresh EXCEPT ![i].pc = "evict",
                                               ![i].victim = k]
        BY <3>2 DEF Stored
      <3> QED BY <1>5, <3>1, <3>2 DEF Insert
    <2> DEFINE t == [refresh[i] EXCEPT !.pc = place, !.victim = k]
    <2>2. /\ t \in Refresh /\ t.key = refresh[i].key
          /\ t.list = refresh[i].list
      BY <1>1 DEF Refresh
    <2>3. refresh' = [refresh EXCEPT ![i] = t] /\ Storing(i)
      BY <2>1, <1>5 DEF Insert, Running, Storing
    <2> HIDE DEF t
    <2> QED BY <1>1, <1>5, <1>t, <2>2, <2>3, TaskInv DEF Insert
  <1>6. CASE Evict(i)
    <2> DEFINE t == [refresh[i] EXCEPT !.pc = "store"]
    <2>1. /\ t \in Refresh /\ t.key = refresh[i].key
          /\ t.list = refresh[i].list /\ refresh[i].victim \in CacheKey
      BY <1>1 DEF Refresh
    <2>2. /\ refresh' = [refresh EXCEPT ![i] = t]
          /\ Storing(i) /\ Absent \in Entry
      BY <1>6 DEF Evict, Running, Storing, Entry
    <2> HIDE DEF t
    <2> QED BY <1>1, <1>6, <2>1, <2>2, WriteInv DEF Evict
  <1>7. CASE Store(i)
    <2>0. refresh[i].list \in Refreshes /\ Storing(i)
      BY <1>1, <1>7 DEF Store, Running, Storing, IInv, CacheInv, Newer
    <2>1. PICK t \in Refresh : t = [refresh[i] EXCEPT !.pc = "release"]
      BY <1>1 DEF Refresh
    <2>2. PICK e \in Entry : e = [list |-> refresh[i].list, fresh |-> TRUE]
      BY <2>0 DEF Entry
    <2>3. PICK k \in CacheKey : k = refresh[i].key
      BY <1>1
    <2>4. t.key = refresh[i].key /\ t.list = refresh[i].list
      BY <1>1, <2>1 DEF Refresh
    <2>5. e = Absent \/ (k = t.key /\ e.list = t.list)
      BY <2>2, <2>3, <2>4
    <2>6. refresh' = [refresh EXCEPT ![i] = t]
      BY <1>7, <2>1 DEF Store
    <2>7. entries' = [entries EXCEPT ![k] = e]
      BY <1>7, <2>2, <2>3 DEF Store
    <2>8. UNCHANGED <<config, inflight, started, req>>
      BY <1>7 DEF Store
    <2> QED BY <1>1, <2>0, <2>4, <2>5, <2>6, <2>7, <2>8, WriteInv
  <1>8. CASE SetDone(i)
    <2> DEFINE t == [refresh[i] EXCEPT !.pc = "notify"]
    <2>1. /\ t \in Refresh /\ t.key = refresh[i].key
          /\ t.list = refresh[i].list /\ t.pc = "notify"
      BY <1>1 DEF Refresh
    <2>2. refresh' = [refresh EXCEPT ![i] = t]
      BY <1>8 DEF SetDone
    <2> HIDE DEF t
    <2> QED BY <1>1, <1>8, <1>t, <2>1, <2>2, TaskInv DEF SetDone
  <1>9. CASE Notify(i)
    <2> DEFINE t == [refresh[i] EXCEPT !.pc = "remove"]
    <2>1. /\ t \in Refresh /\ t.key = refresh[i].key
          /\ t.list = refresh[i].list /\ t.pc = "remove"
      BY <1>1 DEF Refresh
    <2>2. refresh' = [refresh EXCEPT ![i] = t]
      BY <1>9 DEF Notify
    <2>3. ASSUME NEW r \in Requests
          PROVE  /\ req'[r] \in Request
                 /\ req'[r] = req[r] \/ Onward(req[r], req'[r])
      <3>1. CASE req[r].ref = i /\ req[r].pc \in {"recheck", "parked"}
        <4>1. req'[r] = [req[r] EXCEPT !.pc = "again"]
          BY <1>9, <3>1 DEF Notify
        <4> QED BY <3>1, <4>1, <1>t DEF Request, Onward
      <3>2. CASE ~(req[r].ref = i /\ req[r].pc \in {"recheck", "parked"})
        BY <1>9, <3>2, <1>t DEF Notify
      <3> QED BY <3>1, <3>2
    <2>4. req' \in [Requests -> Request]
      BY <1>9, <2>3 DEF Notify
    <2> HIDE DEF t
    <2> QED BY <1>1, <1>9, <2>1, <2>2, <2>3, <2>4, TaskInv DEF Notify
  <1>10. CASE Remove(i)
    BY <1>10, RemoveInv
  <1> QED BY <1>2, <1>3, <1>4, <1>5, <1>6, <1>7, <1>8, <1>9, <1>10 DEF Task

-----------------------------------------------------------------------------
(* Time, and reloads of the configuration.                                 *)

LEMMA ExpireInv ==
    ASSUME IInv, NEW k \in CacheKey, Expire(k)
    PROVE  IInv'
  <1>t. TypeOK
    BY DEF IInv
  <1>1. UNCHANGED <<config, inflight, started, refresh, req>>
    BY DEF Expire
  <1>2. entries[k] \in [list : Refreshes, fresh : BOOLEAN]
    <2>1. entries[k] # Absent
      BY DEF Expire, Absent
    <2> QED BY <2>1, <1>t DEF TypeOK, Entry
  <1>3. [entries[k] EXCEPT !.fresh = FALSE] \in Entry
    BY <1>2 DEF Entry
  <1>4. entries' = [entries EXCEPT ![k] = [entries[k] EXCEPT !.fresh = FALSE]]
    BY DEF Expire
  <1>5. \A l \in CacheKey : entries'[l].list = entries[l].list
    BY <1>2, <1>4, <1>t DEF TypeOK
  <1>6. TypeOK'
    BY <1>1, <1>3, <1>4, <1>t DEF TypeOK
  <1>7. \A i \in 1..started : refresh[i].key \in CacheKey
    BY <1>t DEF TypeOK, Refresh
  <1>8. CacheInv'
    BY <1>1, <1>5, <1>7
       DEF IInv, CacheInv, Slots, Latest, EntriesOwn, ListsOwn, Newer, Of,
           Storing
  <1>9. RequestInv'
    <2>1. \A r \in Requests : req[r].key \in CacheKey
      BY <1>t, RequestType
    <2> QED BY <2>1, <1>1, <1>5 DEF IInv, RequestInv, Owed, Of, Storing
  <1> QED BY <1>6, <1>8, <1>9 DEF IInv

LEMMA ReloadInv ==
    ASSUME IInv, Reload
    PROVE  IInv'
  <1>1. UNCHANGED <<entries, inflight, started, refresh, req>>
    BY DEF Reload
  <1>2. PICK cached \in BOOLEAN :
          config' = [generation |-> config.generation + 1, cached |-> cached]
    BY DEF Reload
  <1>3. config.generation + 1 \in Generations
    BY BoundAssumption DEF IInv, TypeOK, Reload, Generations
  <1>4. TypeOK'
    BY <1>1, <1>2, <1>3 DEF IInv, TypeOK
  <1>5. CacheInv'
    BY <1>1, CacheFrame DEF IInv
  <1>6. RequestInv'
    BY <1>1 DEF IInv, RequestInv, Owed, Of, Storing
  <1> QED BY <1>4, <1>5, <1>6 DEF IInv

-----------------------------------------------------------------------------
LEMMA NextInv == IInv /\ [Next]_vars => IInv'
  <1> SUFFICES ASSUME IInv, [Next]_vars PROVE IInv'
    OBVIOUS
  <1>1. CASE UNCHANGED vars
    BY <1>1 DEF vars, IInv, TypeOK, CacheInv, Slots, Latest, EntriesOwn,
                ListsOwn, Newer, Of, Storing, RequestInv, Owed
  <1>2. CASE Reload
    BY <1>2, ReloadInv
  <1>3. ASSUME NEW k \in CacheKey, Expire(k) PROVE IInv'
    BY <1>3, ExpireInv
  <1>4. ASSUME NEW r \in Requests, Arrive(r) PROVE IInv'
    BY <1>4, ArriveInv
  <1>5. ASSUME NEW r \in Requests, Lead(r) PROVE IInv'
    BY <1>5, LeadInv
  <1>6. ASSUME NEW r \in Requests, Handler(r) \/ Timeout(r) \/ Disconnect(r)
        PROVE  IInv'
    BY <1>5, <1>6, HandlerInv DEF Handler
  <1>7. ASSUME NEW i \in Refreshes, Task(i) PROVE IInv'
    BY <1>7, TasksInv
  <1> QED BY <1>1, <1>2, <1>3, <1>4, <1>6, <1>7 DEF Next

THEOREM Invariance == Spec => []IInv
  BY InitInv, NextInv, PTL DEF Spec

(* The cache's maps, tasks and requests have their types, and no entry     *)
(* holds the empty aggregation of a failed refresh (list_models).          *)
THEOREM CacheTypeCorrect == Spec => []TypeOK
  <1>1. IInv => TypeOK
    BY DEF IInv
  <1> QED BY <1>1, Invariance, PTL

(* begin_refresh and the guard of the refresh task let at most one refresh *)
(* of a key fetch, evict or store at a time.                               *)
THEOREM RefreshIsSingleflight == Spec => []Singleflight
  <1>1. IInv => Singleflight
    BY DEF IInv, CacheInv, Slots, Singleflight, Done
  <1> QED BY <1>1, Invariance, PTL

(* A request that ends with a list in a step of list_models has taken it   *)
(* from a fresh entry, from any entry, or from the refresh it leads.       *)
Served(r) ==
    \/ /\ req'[r].list = entries[req[r].key].list
       /\ entries[req[r].key].list # None
    \/ /\ req[r].pc = "joining"
       /\ req'[r].list = refresh[req[r].ref].list
       /\ refresh[req[r].ref].list # None

LEMMA ServedFrom ==
    ASSUME IInv, Next, NEW r \in Requests, req[r].pc # "idle",
           req'[r].pc = "idle", req'[r].reply = "list"
    PROVE  Served(r)
  <1>t. /\ TypeOK /\ req \in [Requests -> Request]
        /\ req[r] \in Request /\ req[r].key \in CacheKey
    BY RequestType DEF IInv, TypeOK
  <1>e. /\ entries[req[r].key].list \in Refreshes \cup {None}
        /\ entries[req[r].key].fresh => entries[req[r].key].list # None
        /\ None \in Refreshes \cup {None}
    <2>1. None \notin Refreshes
      BY BoundAssumption DEF Refreshes, None
    <2> QED BY <2>1, <1>t, EntryType
  <1>1. ASSUME NEW q \in Request, NEW p \in Requests,
               req' = [req EXCEPT ![p] = q]
        PROVE  p = r /\ q.pc = "idle" /\ q.reply = "list"
    BY <1>1, <1>t
  <1>2. ASSUME NEW reply \in {"none", "list", "direct", "badgateway", "gone"},
               NEW list \in Refreshes \cup {None}, NEW p \in Requests,
               req' = [req EXCEPT ![p] = Idle(reply, list)]
        PROVE  p = r /\ reply = "list" /\ req'[r].list = list
    <2>1. Idle(reply, list) \in Request
      BY IdleType
    <2>2. p = r /\ reply = "list"
      BY <2>1, <1>1, <1>2, IdleType
    <2> QED BY <2>2, <1>2, <1>t, IdleType
  <1>3. ASSUME NEW p \in Requests,
               NEW place \in {"begin", "subscribe", "recheck", "parked",
                              "again", "previous"},
               req' = [req EXCEPT ![p].pc = place]
        PROVE  FALSE
    BY <1>3, <1>t DEF Request
  <1>4. UNCHANGED req => FALSE
    OBVIOUS
  <1>5. ASSUME NEW i \in Refreshes, Task(i) PROVE FALSE
    <2>1. CASE Notify(i)
      BY <2>1, <1>t DEF Notify, Request
    <2>2. CASE ~Notify(i)
      BY <1>4, <1>5, <2>2 DEF Task, Fetched, FetchFails, Panics, Insert,
                              Evict, Store, SetDone, Remove
    <2> QED BY <2>1, <2>2
  <1>6. ASSUME NEW p \in Requests, Arrive(p) PROVE FALSE
    <2>1. req[p].pc = "idle"
      BY <1>6 DEF Arrive
    <2>2. PICK q : req' = [req EXCEPT ![p] = q]
      BY <1>6 DEF Arrive
    <2> QED BY <2>1, <2>2, <1>t
  <1>7. ASSUME NEW p \in Requests, Lead(p) \/ Follow(p) PROVE FALSE
    <2>1. req[p] \in Request
      BY <1>t
    <2>2. PICK ref : \/ req' = [req EXCEPT ![p].pc = "joining", ![p].ref = ref]
                     \/ req' = [req EXCEPT ![p].pc = "wait", ![p].ref = ref]
      BY <1>7 DEF Lead, Follow
    <2> QED BY <2>1, <2>2, <1>t DEF Request
  <1>8. ASSUME NEW p \in Requests,
               WaitFirst(p) \/ Subscribe(p) \/ WaitAgain(p) \/ Timeout(p)
        PROVE  FALSE
    BY <1>3, <1>8 DEF WaitFirst, Subscribe, WaitAgain, Timeout, At
  <1>9. ASSUME NEW p \in Requests, Direct(p) \/ Disconnect(p) PROVE FALSE
    BY <1>2, <1>9 DEF Direct, Disconnect
  <1>10. ASSUME NEW p \in Requests, Join(p) PROVE Served(r)
    <2>1. CASE refresh[req[p].ref].list = None
      BY <2>1, <1>2, <1>10 DEF Join
    <2>2. CASE refresh[req[p].ref].list # None
      <3>1. req[p].ref \in 1..started
        BY <1>10 DEF Join, IInv, RequestInv, Owed
      <3>2. refresh[req[p].ref].list \in Refreshes \cup {None}
        BY <3>1, <1>t DEF TypeOK, Refresh
      <3>3. p = r /\ req'[r].list = refresh[req[p].ref].list
        BY <3>2, <2>2, <1>2, <1>10 DEF Join
      <3> QED BY <3>3, <2>2, <1>10 DEF Served, Join
    <2> QED BY <2>1, <2>2
  <1>11. ASSUME NEW p \in Requests, Lookup(p) \/ LookAgain(p) \/ TakePrevious(p)
         PROVE  Served(r)
    <2>0. entries[req[p].key].list \in Refreshes \cup {None}
      BY <1>t, EntryType, RequestType
    <2>1. CASE req' = [req EXCEPT ![p] = Idle("list", entries[req[p].key].list)]
      <3>1. p = r /\ req'[r].list = entries[req[p].key].list
        BY <2>0, <2>1, <1>2
      <3>2. /\ req' # [req EXCEPT ![p].pc = "begin"]
            /\ req' # [req EXCEPT ![p].pc = "previous"]
            /\ req' # [req EXCEPT ![p] = Idle("badgateway", None)]
        BY <1>2, <1>3, <1>e
      <3>3. \/ entries[req[p].key].fresh
            \/ entries[req[p].key].list # None
        BY <3>2, <1>11 DEF Lookup, LookAgain, TakePrevious
      <3>4. entries[req[r].key].list # None
        BY <3>1, <3>3, <1>e
      <3> QED BY <3>1, <3>4 DEF Served
    <2>2. CASE req' # [req EXCEPT ![p] = Idle("list", entries[req[p].key].list)]
      <3>1. \/ req' = [req EXCEPT ![p].pc = "begin"]
            \/ req' = [req EXCEPT ![p].pc = "previous"]
            \/ req' = [req EXCEPT ![p] = Idle("badgateway", None)]
        BY <2>2, <1>11 DEF Lookup, LookAgain, TakePrevious
      <3> QED BY <3>1, <1>2, <1>3, <1>e
    <2> QED BY <2>1, <2>2
  <1> QED BY <1>4, <1>5, <1>6, <1>7, <1>8, <1>9, <1>10, <1>11
          DEF Next, Handler, Reload, Expire

(* A request is answered with a list fetched for its own generation and    *)
(* upstream keys: cache_key is taken once, and the refresh task stores     *)
(* under the key it was started for, whatever was reloaded since.          *)
THEOREM OwnListServed == Spec => OwnList
  <1>1. ASSUME IInv, [Next]_vars,
               NEW r \in Requests, req[r].pc # "idle", req'[r].pc = "idle",
               req'[r].reply = "list"
        PROVE  refresh[req'[r].list].key = req[r].key
    <2>1. Next
      BY <1>1 DEF vars
    <2>2. Served(r) /\ req[r].key \in CacheKey /\ Owed(r)
      BY <1>1, <2>1, ServedFrom, RequestType DEF IInv, RequestInv
    <2> QED BY <1>1, <2>2
            DEF Served, Owed, Of, IInv, CacheInv, EntriesOwn, ListsOwn
  <1>2. IInv /\ [Next]_vars =>
           [\A r \in Requests :
              req[r].pc # "idle" /\ req'[r].pc = "idle" /\ req'[r].reply = "list"
                 => refresh[req'[r].list].key = req[r].key]_vars
    BY <1>1
  <1> QED BY <1>2, Invariance, PTL DEF Spec, OwnList

(* Nobody is answered with a list older than the one the cache held when   *)
(* the request came in: neither a failed refresh that stores the previous  *)
(* list again, nor an eviction, nor a late leader brings an older one.     *)
THEOREM NoOlderListServed == Spec => NoOlderList
  <1>1. ASSUME IInv, [Next]_vars,
               NEW r \in Requests, req[r].pc # "idle", req'[r].pc = "idle",
               req'[r].reply = "list"
        PROVE  req'[r].list >= req[r].floor
    <2>1. Next
      BY <1>1 DEF vars
    <2>2. Served(r) /\ Owed(r)
      BY <1>1, <2>1, ServedFrom DEF IInv, RequestInv
    <2>3. req[r].key \in CacheKey /\ req[r].floor \in Nat
      BY <1>1, RequestType, ListRange DEF IInv, Request
    <2>4. req'[r].list \in Nat
      <3>1. CASE req'[r].list = entries[req[r].key].list
        BY <3>1, <2>3, <1>1, EntryType, ListRange DEF IInv
      <3>2. CASE /\ req[r].pc = "joining"
                 /\ req'[r].list = refresh[req[r].ref].list
        <4>1. refresh[req[r].ref] \in Refresh
          BY <3>2, <2>2, <1>1 DEF Owed, IInv, TypeOK
        <4> QED BY <3>2, <4>1, ListRange DEF Refresh
      <3> QED BY <2>2, <3>1, <3>2 DEF Served
    <2>5. req[r].floor <= req'[r].list
      BY <2>2 DEF Served, Owed
    <2> QED BY <2>3, <2>4, <2>5
  <1>2. IInv /\ [Next]_vars =>
           [\A r \in Requests :
              req[r].pc # "idle" /\ req'[r].pc = "idle" /\ req'[r].reply = "list"
                 => req'[r].list >= req[r].floor]_vars
    BY <1>1
  <1> QED BY <1>2, Invariance, PTL DEF Spec, NoOlderList

=============================================================================
