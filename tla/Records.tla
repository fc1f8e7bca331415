------------------------------ MODULE Records ------------------------------
(***************************************************************************)
(* Reading the audit: the list of records across the active file and the   *)
(* archives, page by page (db/records_query.rs, handlers/records_api.rs),  *)
(* and the timeline of a conversation (handlers/session_timeline_api.rs,   *)
(* db/session_fingerprint.rs), while records are written and files are     *)
(* rotated.  How a rotation works inside is the subject of Rotation: here  *)
(* it is one step.                                                         *)
(***************************************************************************)
EXTENDS Extract

CONSTANTS Conversations,   \* for each conversation the exchanges of its turns
          MaxTime,         \* bound: the values of TimeMs are 1..MaxTime
          MaxMigrated,     \* bound: records of a migrated file
          MaxRows,         \* bound: records of all files
          MaxFiles,        \* bound: files
          Limit,           \* the limit of a page, 1..500
          PAGE_MAX,        \* the longest page, and all that a session timeline reads
          SCAN_CAP,        \* FINGERPRINT_SCAN_CAP
          CACHE_CAPACITY   \* fingerprints kept

ASSUME RecordsAssumption ==
    /\ Limit \in Nat \ {0} /\ CACHE_CAPACITY \in Nat \ {0}
    /\ PAGE_MAX \in Nat \ {0} /\ SCAN_CAP \in Nat \ {0}
    /\ MaxTime \in Nat /\ MaxMigrated \in Nat /\ MaxRows \in Nat /\ MaxFiles \in Nat

VARIABLES
    files,   \* the files in the order of their months; the last is the active one
    cache,   \* CACHE: the fingerprint of a record id
    pager,   \* a client that follows nextCursor to the end
    told,    \* the keys that were answered: <<file, id, key>>
    session, \* the last timeline of a session
    reads    \* what is read in this behaviour, "list" or "timeline": the two share
             \* nothing but the files

vars == <<files, cache, pager, told, session, reads>>

Time == 1..MaxTime

\* The NULL of a legacy row whose time could not be read: it sorts below every time
\* and no comparison with it is true.
Untimed == 0

ActiveFile == Len(files)

\* The columns and the key of an exchange.
Columns == [c \in DOMAIN Conversations |->
              [k \in DOMAIN Conversations[c] |-> BuildRecord(Conversations[c][k])]]
Keys == [c \in DOMAIN Conversations |->
           [k \in DOMAIN Conversations[c] |-> conversation_fingerprint(Conversations[c][k])]]

\* A stored row: the conversation and turn it is of, its time, the session in its
\* columns, and the key that its stored body yields.
RowOf(c, k, t) == [conv |-> c, turn |-> k, time |-> t,
                   session |-> Columns[c][k].session, key |-> Keys[c][k]]
Rows == UNION {{RowOf(c, k, t) : k \in DOMAIN Conversations[c], t \in Time \union {Untimed}}
                 : c \in DOMAIN Conversations}
SessionOf(row) == row.session
KeyOf(row) == row.key

\* A record is known by its file and its id.
RecordsOf(f) == {<<f, id>> : id \in DOMAIN files[f]}
AllRecords == UNION {RecordsOf(f) : f \in DOMAIN files}
Row(r) == files[r[1]][r[2]]

NoPager == [on |-> FALSE, from |-> 0, ranged |-> FALSE, cursor |-> <<>>, seen |-> <<>>,
            owed |-> {}, over |-> FALSE, rotated |-> FALSE]
NoSession == [file |-> 1, upto |-> 0, items |-> <<>>]

\* What the migration of a legacy database left: turns in their order, at times that
\* were read or not.
Migrated ==
    {f \in UNION {[1..n -> Rows] : n \in 0..MaxMigrated} :
        \A i \in DOMAIN f : f[i].turn = Cardinality({j \in 1..i : f[j].conv = f[i].conv})}

Init ==
    /\ files \in {<<f>> : f \in Migrated}
    /\ cache = <<>>
    /\ pager = NoPager
    /\ told = {}
    /\ session = NoSession
    /\ reads \in {"list", "timeline"}

-----------------------------------------------------------------------------
(* Writing *)

\* A record of the next turn of a conversation; its TimeMs is from when its request
\* ended, so that records are not committed in the order of their times.
Commit ==
    \E c \in DOMAIN Conversations, t \in Time :
      LET k == Cardinality({r \in AllRecords : Row(r).conv = c}) + 1
      IN  /\ k \in DOMAIN Conversations[c] /\ Cardinality(AllRecords) < MaxRows
          /\ files' = [files EXCEPT ![ActiveFile] =
                          Append(@, RowOf(c, k, t))]
          /\ UNCHANGED <<cache, pager, told, session, reads>>

Rotate ==
    /\ Len(files) < MaxFiles /\ files[ActiveFile] # <<>>
    /\ files' = Append(files, <<>>)
    /\ pager' = [pager EXCEPT !.rotated = pager.on]
    /\ UNCHANGED <<cache, told, session, reads>>

-----------------------------------------------------------------------------
(* The list *)

\* The order of shard ids: "active" sorts before the stems of the archives.
Shard(f) == IF f = ActiveFile THEN 0 ELSE f

\* Tuples of numbers in the order SQL and Rust compare them.
Less(a, b) == \E n \in DOMAIN a : a[n] < b[n] /\ \A m \in 1..(n - 1) : a[m] = b[m]

\* The place of a record in the global order.
Place(f, id) == <<files[f][id].time, id, Shard(f)>>

\* A bug: a page goes on after the time of the last record, not after its place.
BeforeTimeOnly(f, id, cursor) ==
    \/ cursor = <<>>
    \/ files[f][id].time # Untimed /\ files[f][id].time < cursor[1]

\* The records of a shard before the cursor; a record without a time is before none.
\* A cursor of two parts does not know of shards.
Before(f, id, cursor) ==
    \/ cursor = <<>>
    \/ /\ files[f][id].time # Untimed
       /\ \/ Less(<<files[f][id].time, id>>, SubSeq(cursor, 1, 2))
          \/ /\ Len(cursor) = 3
             /\ <<files[f][id].time, id>> = SubSeq(cursor, 1, 2)
             /\ Shard(f) < cursor[3]

\* The members of S in an order that is given by what comes before each.
InOrder(S, before) ==
    [i \in 1..Cardinality(S) |-> CHOOSE r \in S : Cardinality(before[r]) = i - 1]

Newer(S) == [r \in S |-> {q \in S : Less(Place(r[1], r[2]), Place(q[1], q[2]))}]
NewestFirst(S) == InOrder(S, Newer(S))

\* The newest n of the records S, newest first.
Newest(S, n) == SubSeq(NewestFirst(S), 1, Min({n, Cardinality(S)}))

\* query_shard: at most Limit + 1 records.  A range leaves out those without a time.
query_shard(f, from, cursor) ==
    Newest({r \in RecordsOf(f) : Row(r).time >= from /\ Before(f, r[2], cursor)},
           Limit + 1)

\* query_records_multi: the pages of the shards merged, the rest left for the next.
query_records(shards, from, cursor) ==
    Newest(UNION {Range(query_shard(f, from, cursor)) : f \in shards}, Limit + 1)

\* The archives whose times meet the range; none when no range is given.
candidates(ranged, from) ==
    {f \in 1..(ActiveFile - 1) : ranged /\ \E r \in Range(files[f]) : r.time >= from}

\* The cursor after a page: with the shard when several were asked.
format_cursor(record, several) ==
    LET place == Place(record[1], record[2])
    IN  IF several THEN place ELSE SubSeq(place, 1, 2)

StartPaging ==
    /\ reads = "list" /\ ~pager.on
    /\ \E ranged \in BOOLEAN, from \in 0..2 :
         /\ ranged <=> from > 0
         /\ LET shards == IF ranged THEN DOMAIN files ELSE {ActiveFile}
            IN  pager' = [NoPager EXCEPT !.on = TRUE, !.ranged = ranged, !.from = from,
                           !.owed = {r \in UNION {RecordsOf(f) : f \in shards} :
                                       Row(r).time >= from}]
    /\ UNCHANGED <<files, cache, told, session, reads>>

\* list_records: the active file alone when no archive is asked for.  There is no next
\* page after a page whose last record has no time.
list_records ==
    /\ pager.on /\ ~pager.over
    /\ LET archives == candidates(pager.ranged, pager.from)
           several == archives # {}
           found == query_records(archives \union {ActiveFile}, pager.from,
                       IF several THEN pager.cursor ELSE SubSeq(pager.cursor, 1, Min({2, Len(pager.cursor)})))
           more == Len(found) > Limit
           page == SubSeq(found, 1, Min({Limit, Len(found)}))
           next == more /\ Row(Last(page)).time # Untimed
       IN  pager' = [pager EXCEPT !.seen = @ \o page, !.over = ~next,
                        !.cursor = IF next THEN format_cursor(Last(page), several) ELSE <<>>]
    /\ UNCHANGED <<files, cache, told, session, reads>>

ClosePager ==
    /\ pager.over
    /\ pager' = NoPager
    /\ UNCHANGED <<files, cache, told, session, reads>>

-----------------------------------------------------------------------------
(* The timeline *)

\* fingerprint_cached: what is known of the id is answered; else the key is kept, in
\* a cache that is emptied when it is full.
Remember(c, id, key) ==
    IF id \in DOMAIN c \/ key = NoKey THEN c
    ELSE LET room == IF Cardinality(DOMAIN c) >= CACHE_CAPACITY THEN <<>> ELSE c
         IN  [i \in DOMAIN room \union {id} |-> IF i = id THEN key ELSE room[i]]

KnownKey(c, id, key) == IF id \in DOMAIN c THEN c[id] ELSE key

\* The newest records of the active file, page by page up to the cap: those without a
\* time are reached by the first page only.
Scanned ==
    LET newest(n) == Range(Newest(RecordsOf(ActiveFile), n))
    IN  {r \in newest(SCAN_CAP) : Row(r).time # Untimed \/ r \in newest(PAGE_MAX)}

\* group_by_fingerprint: the scanned records that name no session, in their order,
\* each under the key that the cache has for its id.
group_by_fingerprint ==
    LET keyless == NewestFirst({r \in Scanned : SessionOf(Row(r)) = None})
        key(i) == KeyOf(files[ActiveFile][keyless[i][2]])
        After[n \in 0..Len(keyless)] ==
            IF n = 0 THEN cache ELSE Remember(After[n - 1], keyless[n][2], key(n))
    IN  /\ cache' = After[Len(keyless)]
        /\ told' = told \union
             {<<ActiveFile, keyless[i][2], KnownKey(After[i - 1], keyless[i][2], key(i))>>
                 : i \in {j \in DOMAIN keyless : key(j) # NoKey}}

FingerprintTimeline ==
    /\ files[ActiveFile] # <<>>
    /\ group_by_fingerprint
    /\ UNCHANGED <<files, pager, session, reads>>

\* sort_ascending, by time and id; no time counts as the earliest.
sort_ascending(ids) ==
    LET time(i) == files[ActiveFile][i].time
    IN  InOrder(ids, [i \in ids |-> {j \in ids : Less(<<time(j), j>>, <<time(i), i>>)}])

\* The timeline of a session: its records on the first page of the active file.
SessionTimeline ==
    \E s \in {SessionOf(r) : r \in Range(files[ActiveFile])} \ {None} :
      LET of == {r \in Range(Newest(RecordsOf(ActiveFile), PAGE_MAX)) :
                   SessionOf(Row(r)) = s}
      IN  /\ session' = [file |-> ActiveFile, upto |-> Len(files[ActiveFile]),
                         items |-> sort_ascending({r[2] : r \in of})]
          /\ UNCHANGED <<files, cache, pager, told, reads>>

HasId(f, id) == id \in DOMAIN files[f]

\* record_detail without a shard: the active file first, else the only archive that
\* has the id; none is not found, several are a conflict.
Resolved(id) ==
    IF HasId(ActiveFile, id) THEN {ActiveFile}
    ELSE LET hits == {f \in DOMAIN files : HasId(f, id)}
         IN  IF Cardinality(hits) = 1 THEN hits ELSE {}

\* The detail of a record, asked with its shard or without; the key of a record that
\* names no session goes with it.
record_detail ==
    \E id \in 1..MaxRows, named \in BOOLEAN :
      \E f \in (IF named THEN {g \in DOMAIN files : HasId(g, id)} ELSE Resolved(id)) :
        LET key == KeyOf(files[f][id])
        IN  /\ SessionOf(files[f][id]) = None /\ key # NoKey
            /\ cache' = Remember(cache, id, key)
            /\ told' = told \union {<<f, id, KnownKey(cache, id, key)>>}
            /\ UNCHANGED <<files, pager, session, reads>>

Next == \/ Commit \/ Rotate
        \/ StartPaging \/ list_records \/ ClosePager
        \/ reads = "timeline" /\ (FingerprintTimeline \/ SessionTimeline \/ record_detail)

Spec == Init /\ [][Next]_vars

-----------------------------------------------------------------------------
(* Properties *)

\* Records of two files with the same TimeMs and id: only the names of their shards
\* tell them apart, and a rotation renames one of them.
Tied(r) == \E f \in DOMAIN files \ {r[1]} :
    HasId(f, r[2]) /\ files[f][r[2]].time = files[r[1]][r[2]].time

\* A client that follows nextCursor never sees a record twice, and when the list ends
\* it has seen every record that was there when it began, although records were
\* written and files were archived under it; records of equal times included.  The
\* code leaves three gaps: a list without a range is of the active file alone, a
\* record tied with one of another file can be passed over when a rotation renames
\* its shard between two pages, and of the migrated records without a time a list
\* shows those that its first page has room for.
PagesExact ==
    /\ IsInjective(pager.seen)
    /\ pager.over => \A r \in pager.owed \ Range(pager.seen) :
          \/ pager.rotated /\ (~pager.ranged \/ Tied(r))
          \/ Row(r).time = Untimed /\ Len(pager.seen) >= Limit

\* The timelines follow the conversations.  As long as the process has seen one file,
\* two answers give the same key exactly when the records are of one conversation,
\* whichever turn, page, detail or emptied cache they come from; and the timeline of a
\* session has the records of that session in the order of their times, all of them
\* if the file was not longer than a page.
TimelineExact ==
    Len(files) = 1 =>
        LET f == files[1]
            of == Range(session.items)
        IN  /\ \A t, u \in told : t[3] = u[3] <=> f[t[2]].conv = f[u[2]].conv
            /\ \A i, j \in DOMAIN session.items : i < j =>
                  f[session.items[i]].time <= f[session.items[j]].time
            /\ \A i, j \in of : SessionOf(f[i]) = SessionOf(f[j])
            /\ session.upto <= PAGE_MAX => \A i \in 1..session.upto :
                  of # {} /\ SessionOf(f[i]) = SessionOf(f[session.items[1]]) => i \in of

\* What a preview p of the text s may be: its two ends, cut between characters, that
\* fit the limit together, and the number of the bytes between them.
PreviewOf(p, s, max) ==
    /\ IsPrefix(p.head, s) /\ IsSuffix(p.tail, s)
    /\ bytes(p.head) + p.omitted + bytes(p.tail) = bytes(s)
    /\ bytes(p.head) + bytes(p.tail) <= max \/ p.omitted = 0
    /\ p.omitted > 0 => bytes(s) > max

\* The summary of an exchange, told without the extraction.
Faithful(x, r) ==
    LET asks  == {i \in DOMAIN x.msgs : x.msgs[i].role = "user" /\ x.msgs[i].text # <<>>}
        named == {x.headers[h] : h \in DOMAIN x.headers \intersect Range(SESSION_ID_HEADERS)}
                 \union {x.body[k] : k \in DOMAIN x.body \ {"dsh_parent"}}
    IN  /\ asks # {} => LET asked == x.msgs[Max(asks)].text
                        IN  /\ PreviewOf(r.request.prompt, asked, PROMPT_MAX)
                            /\ r.request.prompt_bytes = bytes(asked)
        /\ PreviewOf(r.request.tail, Last(x.msgs).text, TEXT_MAX)
        /\ r.session \in named \ {""} \/ (r.session = None /\ named \subseteq {""})

FaithfulTurns ==
    UNION {{<<c, k>> : k \in {n \in DOMAIN Conversations[c] :
                                 Faithful(Conversations[c][n], Columns[c][n])}}
              : c \in DOMAIN Conversations}

\* The summary of a stored record is that of its request and response: the prompt is
\* the last thing the user said in words, each preview accounts for every byte of its
\* text, and a session that any header or field names is not lost to a blank one.
SummaryFaithful ==
    \A f \in DOMAIN files : \A row \in Range(files[f]) :
        <<row.conv, row.turn>> \in FaithfulTurns

-----------------------------------------------------------------------------
(* The conversations that timelines and summaries are about *)

Message == [role : STRING, text : Seq(Nat), images : Nat, result : BOOLEAN]

\* An exchange ends with a message in words, what the user said last is in words, a
\* plain prompt is one message, and no header or field has the value that stands for
\* its absence.
IsProper(x) ==
    /\ x.msgs \in Seq(Message) \ {<<>>}
    /\ Last(x.msgs).text # <<>> /\ ~IsSystem(Last(x.msgs))
    /\ \A i \in UserTurns(x.msgs) :
          x.msgs[i].text = <<>> => \E j \in UserTurns(x.msgs) : j > i
    /\ x.type \in {"chat", "responses", "anthropic"} \/ Len(x.msgs) = 1
    /\ \A h \in DOMAIN x.headers : x.headers[h] # None
    /\ DOMAIN x.body \subseteq {"dsh_session", "prompt_cache_key", "dsh_parent"}
    /\ \A k \in DOMAIN x.body : x.body[k] # None

ExchangesProper ==
    \A c \in DOMAIN Conversations : \A k \in DOMAIN Conversations[c] :
        k \in Nat /\ IsProper(Conversations[c][k])

\* The turns that name no session, by their conversation.
Nameless(c) == {k \in DOMAIN Conversations[c] : Columns[c][k].session = None}

\* Such a client sends the history again with each turn.
HistoriesResent ==
    \A c \in DOMAIN Conversations : \A k, l \in Nameless(c) :
        k <= l => IsPrefix(Conversations[c][k].msgs, Conversations[c][l].msgs)

\* Two such conversations differ in what is kept of the system text or of the first
\* message.
BeginningsDiffer ==
    LET first(x) == KeyWith(x, x.msgs[Min(Turns(x.msgs))])
    IN  \A c, d \in DOMAIN Conversations : \A k \in Nameless(c), l \in Nameless(d) :
            LET x == Conversations[c][k]
                y == Conversations[d][l]
            IN  c # d /\ Keyed(x) /\ Keyed(y) => first(x) # first(y)
============================================================================
