------------------------------- MODULE Rollup -------------------------------
(***************************************************************************)
(* The derived rollups of src/db/aggregate.rs and the analysis that reads  *)
(* them, src/handlers/analysis_api/rollup.rs.                              *)
(*                                                                         *)
(* A rollup adds up rows per local day.  Everything in it is a sum over    *)
(* rows, so it is modelled by how often it counts each row; an analysis    *)
(* likewise.  Rows of a file have ids 1, 2, ... in commit order (module    *)
(* AuditWriter); a rotation (module Rotation) makes the active file an     *)
(* archive and starts an empty one, whose inode may be one seen before.    *)
(***************************************************************************)
EXTENDS Integers, Sequences, FiniteSets

CONSTANTS MaxFiles,     \* bound: the active files there are, one by one
          MaxRows,      \* bound: rows per file
          MaxTime,      \* bound: the clock, in milliseconds
          DayLength,    \* milliseconds per local day
          Inodes,       \* identities that the file system hands out
          MaxFaults,    \* bound: builds that fail and restarts
          MaxAnalyses   \* bound: analyses, and other requests for a build

ASSUME RollupBounds ==
    /\ {MaxFiles, MaxTime, DayLength} \subseteq Nat \ {0}
    /\ {MaxRows, MaxFaults, MaxAnalyses} \subseteq Nat
    /\ Inodes # {}

Files == 1..MaxFiles
Times == 1..MaxTime
Ids   == 1..MaxRows
Rows  == Files \X Ids

VARIABLES
    now,       \* the time of the last commit
    times,     \* per file, the TimeMs of its rows in id order
    file,      \* the active file; smaller numbers are archives
    inode,     \* identity of the active file
    agg,       \* rollup of shard "active": how often it counts each row
    state,     \* active_state: the cursor, none before the first build
    built,     \* archives with a valid rollup
    builder,   \* the task in ensure_active
    analysis,  \* an analysis under way
    asked, faults,
    settled,   \* history: the last build was undisturbed and nothing has
               \* been committed, rotated or cleared since
    torn       \* history: the rollup was cleared, its cursor kept, and a
               \* build has gone on from that cursor

rollup == <<agg, state>>
counts == <<asked, faults>>
vars == <<now, times, file, inode, rollup, built, builder, analysis, counts,
          settled, torn>>

NoState == [lastId |-> 0, maxTime |-> 0, lastTime |-> 0, inode |-> "none"]
NoBuild == [at |-> "idle", store |-> 1, maxId |-> 0, from |-> 0, inode |-> "none",
            maxTime |-> 0, delta |-> {}, lastTime |-> 0, quiet |-> FALSE]
NoAnalysis == [at |-> "idle", store |-> 1, lo |-> 0, hi |-> 0, olds |-> {},
               count |-> [r \in Rows |-> 0], scanned |-> FALSE, quiet |-> FALSE]

Committed(f) == {<<f, i>> : i \in 1..Len(times[f])}
TimeOf(r)    == times[r[1]][r[2]]
Within(S, lo, hi) == {r \in S : lo <= TimeOf(r) /\ TimeOf(r) <= hi}
Nothing      == [r \in Rows |-> 0]
Plus(c, S)   == [r \in Rows |-> c[r] + IF r \in S THEN 1 ELSE 0]

Latest(S) == CHOOSE t \in S : \A u \in S : u <= t

Init ==
    /\ now = 1
    /\ times = [f \in Files |-> <<>>]
    /\ file = 1 /\ inode \in Inodes
    /\ agg = Nothing /\ state = NoState
    /\ built = {}
    /\ builder = [NoBuild EXCEPT !.at = "lock", !.store = 1]
    /\ analysis = NoAnalysis
    /\ asked = 0 /\ faults = 0
    /\ settled = FALSE /\ torn = FALSE

-----------------------------------------------------------------------------
(* The writer, the rotation, the clock, a restart.                         *)

Disturb ==
    /\ builder' = [builder EXCEPT !.quiet = FALSE]
    /\ analysis' = [analysis EXCEPT !.quiet = FALSE]
    /\ settled' = FALSE

(* Another analysis, the metrics or the filters of the log page found the  *)
(* rollup behind and ask for a build, with the store they took when they   *)
(* began: several can be under way, and that store may be an archive now.  *)
AskElsewhere(store) ==
    /\ store <= file
    /\ builder.at = "idle"
    /\ asked < MaxAnalyses
    /\ asked' = asked + 1
    /\ builder' = [NoBuild EXCEPT !.at = "lock", !.store = store]
    /\ UNCHANGED <<now, times, file, inode, rollup, built, analysis, faults,
                   settled, torn>>

(* A batch commits: one row, at the present time. *)
Commit ==
    /\ Len(times[file]) < MaxRows
    /\ now' \in now..MaxTime
    /\ times' = [times EXCEPT ![file] = Append(@, now')]
    /\ Disturb
    /\ UNCHANGED <<file, inode, rollup, built, counts, torn>>

Rotate ==
    /\ file < MaxFiles
    /\ file' = file + 1
    /\ inode' \in Inodes
    /\ Disturb
    /\ UNCHANGED <<now, times, rollup, built, counts, torn>>

(* The rollup is on disk; tasks are gone, and the active one is started    *)
(* again by warm_active_rollup.                                            *)
Restart ==
    /\ faults < MaxFaults
    /\ faults' = faults + 1
    /\ builder' = [NoBuild EXCEPT !.at = "lock", !.store = file]
    /\ analysis' = NoAnalysis
    /\ UNCHANGED <<now, times, file, inode, rollup, built, asked, settled, torn>>

-----------------------------------------------------------------------------
(* ensure_active: the build lock is taken and MAX(id) is read, ...         *)
ReadMaxId ==
    /\ builder.at = "lock"
    /\ builder' = [builder EXCEPT !.at = "cursor",
                     !.maxId = Len(times[builder.store]),
                     !.quiet = builder.store = file]
    /\ UNCHANGED <<now, times, file, inode, rollup, built, analysis, counts,
                   settled, torn>>

(* A bug: only the identity of the file is compared. *)
RotatedByIdentity(s) == state # NoState /\ state.inode # inode

(* The cursor belongs to another file: another identity, or the row at the *)
(* cursor has another time (inodes are reused).                            *)
Rotated(s) ==
    /\ state # NoState
    /\ \/ state.inode # inode
       \/ /\ state.lastId > 0 /\ state.lastTime # 0
          /\ IF state.lastId > Len(times[s]) THEN TRUE
             ELSE times[s][state.lastId] # state.lastTime

(* The rollup has been cleared, and no build has completed since. *)
Cut == state # NoState /\ agg = Nothing

(* A bug: the cursor is kept when the rollup it belongs to is cleared. *)
CheckCursorKept ==
    /\ builder.at = "cursor"
    /\ LET stale == Rotated(builder.store)
       IN  /\ agg' = IF stale THEN Nothing ELSE agg
           /\ settled' = (settled /\ ~stale)
           /\ torn' = (~stale /\ (torn \/ Cut))
           /\ builder' = IF builder.maxId = state.lastId THEN NoBuild
                         ELSE [builder EXCEPT !.at = "scan", !.from = state.lastId,
                                 !.inode = inode, !.maxTime = state.maxTime]
    /\ analysis' = [analysis EXCEPT !.quiet = FALSE]
    /\ UNCHANGED <<now, times, file, inode, state, built, counts>>

(* ... then the state is compared with the file and, if it belongs to      *)
(* another one, the rollup (and not the state) is cleared.                 *)
CheckCursor ==
    /\ builder.at = "cursor"
    /\ LET stale == \/ Rotated(builder.store)
                    \/ state = NoState /\ agg # Nothing
                    \/ builder.maxId < state.lastId
           from  == IF stale THEN 0 ELSE state.lastId
       IN  /\ agg' = IF stale THEN Nothing ELSE agg
           /\ settled' = (settled /\ ~stale)
           /\ torn' = (~stale /\ (torn \/ Cut))
           /\ builder' = IF builder.maxId = from THEN NoBuild
                         ELSE [builder EXCEPT !.at = "scan", !.from = from,
                                 !.inode = inode,
                                 !.maxTime = IF stale THEN 0 ELSE state.maxTime]
    /\ analysis' = [analysis EXCEPT !.quiet = FALSE]
    /\ UNCHANGED <<now, times, file, inode, state, built, counts>>

(* scan_after reads every row behind the cursor, the ones committed since  *)
(* MAX(id) was read included.                                              *)
ScanAfter ==
    /\ builder.at = "scan"
    /\ LET ts == times[builder.store]
           ids == (builder.from + 1)..Len(ts)
       IN  builder' = [builder EXCEPT !.at = "apply",
               !.delta = {<<builder.store, i>> : i \in ids},
               !.lastTime = IF ids = {} THEN 0 ELSE ts[Len(ts)],
               !.maxTime = Latest({@} \cup {ts[i] : i \in ids})]
    /\ UNCHANGED <<now, times, file, inode, rollup, built, analysis, counts,
                   settled, torn>>

(* The new cursor: MAX(id) as first read, the time of the row last scanned. *)
Cursor(b) ==
    [lastId |-> b.maxId, maxTime |-> b.maxTime, lastTime |-> b.lastTime,
     inode |-> b.inode]

(* apply_deltas: one transaction adds the rows and moves the cursor. *)
ApplyDeltas ==
    /\ builder.at = "apply"
    /\ agg' = Plus(agg, builder.delta)
    /\ state' = Cursor(builder)
    /\ settled' = builder.quiet
    /\ builder' = NoBuild
    /\ analysis' = [analysis EXCEPT !.quiet = FALSE]
    /\ UNCHANGED <<now, times, file, inode, built, counts, torn>>

(* The lock times out, or a statement fails; what was cleared stays so. *)
BuildFails ==
    /\ builder.at # "idle"
    /\ faults < MaxFaults
    /\ faults' = faults + 1
    /\ builder' = NoBuild
    /\ UNCHANGED <<now, times, file, inode, rollup, built, analysis, asked,
                   settled, torn>>

(* build, under the same lock: an archive is read once more and its rollup  *)
(* replaced in one transaction, with the stamp of the file.  It is spawned *)
(* when the archive is registered, by the metrics and by an analysis that  *)
(* misses it, so it may come at any time; one that fails leaves no trace.  *)
BuildArchive(f) ==
    /\ f < file /\ f \notin built
    /\ builder.at \in {"idle", "lock"}
    /\ built' = built \cup {f}
    /\ UNCHANGED <<now, times, file, inode, rollup, builder, analysis, counts,
                   settled, torn>>

-----------------------------------------------------------------------------
(* The analysis.                                                           *)

DayStart(t) == t - (t % DayLength)

(* The whole days of [lo, hi]: from the first on, up to an excluded end. *)
FirstFull(lo, hi) == IF lo = DayStart(lo) THEN lo ELSE DayStart(lo) + DayLength
FullEnd(lo, hi) ==
    IF hi + 1 >= DayStart(hi) + DayLength THEN DayStart(hi) + DayLength
    ELSE DayStart(hi)

(* A bug: the window behind the last whole day is forgotten when it is one *)
(* millisecond wide.                                                       *)
CorrectionWindowsShort(lo, hi) ==
    {w \in {<<lo, FirstFull(lo, hi) - 1>>, <<FullEnd(lo, hi), hi>>} : w[1] < w[2]}

(* What is left of the range at its two ends has to be scanned. *)
CorrectionWindows(lo, hi) ==
    {w \in {<<lo, FirstFull(lo, hi) - 1>>, <<FullEnd(lo, hi), hi>>} : w[1] <= w[2]}

(* A shard's rows by the rollup c of its whole days, and by scans. *)
SliceCounts(c, S, lo, hi) ==
    [r \in Rows |->
        (IF r \in Committed(r[1]) /\ TimeOf(r) >= FirstFull(lo, hi)
                                  /\ TimeOf(r) < FullEnd(lo, hi) THEN c[r] ELSE 0)
        + Cardinality({w \in CorrectionWindows(lo, hi) : r \in Within(S, w[1], w[2])})]

Add(c, d) == [r \in Rows |-> c[r] + d[r]]

(* active_caught_up: by time, or because no unread row is old enough; the  *)
(* identity of the file is not compared.                                   *)
CaughtUp(s, needed) ==
    /\ state # NoState
    /\ \/ state.maxTime >= needed
       \/ \A i \in (state.lastId + 1)..Len(times[s]) : times[s][i] > needed

(* collect_shards; every archive with rows in the range is a candidate. *)
Collect(lo, hi) ==
    /\ analysis.at = "idle"
    /\ asked < MaxAnalyses
    /\ asked' = asked + 1
    /\ analysis' = [NoAnalysis EXCEPT !.at = "active", !.store = file,
                      !.lo = lo, !.hi = hi, !.quiet = TRUE,
                      !.olds = {f \in 1..(file - 1) : Within(Committed(f), lo, hi) # {}}]
    /\ UNCHANGED <<now, times, file, inode, rollup, built, builder, faults,
                   settled, torn>>

HasFullDay == FullEnd(analysis.lo, analysis.hi) > FirstFull(analysis.lo, analysis.hi)

UsesRollup ==
    HasFullDay /\ CaughtUp(analysis.store, FullEnd(analysis.lo, analysis.hi) - 1)

(* The active shard, through its rollup ... *)
ActiveByRollup ==
    /\ analysis.at = "active"
    /\ UsesRollup
    /\ analysis' = [analysis EXCEPT !.at = "slice"]
    /\ UNCHANGED <<now, times, file, inode, rollup, built, builder, counts,
                   settled, torn>>

ReadActiveSlice ==
    /\ analysis.at = "slice"
    /\ analysis' = [analysis EXCEPT !.at = "archives",
          !.count = SliceCounts(agg, Committed(analysis.store), analysis.lo, analysis.hi)]
    /\ UNCHANGED <<now, times, file, inode, rollup, built, builder, counts,
                   settled, torn>>

(* ... or by a scan, which also starts a build, unless one was started in  *)
(* the last 30 seconds.                                                    *)
ActiveByScan ==
    /\ analysis.at = "active"
    /\ ~UsesRollup
    /\ analysis' = [analysis EXCEPT !.at = "archives",
          !.count = Plus(Nothing, Within(Committed(analysis.store), analysis.lo,
                                         analysis.hi))]
    /\ \/ UNCHANGED builder
       \/ builder.at = "idle" /\ builder' = [NoBuild EXCEPT !.at = "lock",
                                                !.store = analysis.store]
    /\ UNCHANGED <<now, times, file, inode, rollup, built, counts, settled,
                   torn>>

(* Rollups of archives are exact: an archive does not change. *)
ReadArchives ==
    /\ analysis.at = "archives"
    /\ HasFullDay => analysis.olds \subseteq built
    /\ LET S == UNION {Committed(f) : f \in analysis.olds}
       IN  analysis' = [analysis EXCEPT !.at = "done", !.count = Add(@,
              IF HasFullDay
              THEN SliceCounts(Plus(Nothing, S), S, analysis.lo, analysis.hi)
              ELSE Plus(Nothing, Within(S, analysis.lo, analysis.hi)))]
    /\ UNCHANGED <<now, times, file, inode, rollup, built, builder, counts,
                   settled, torn>>

(* One archive has no valid rollup: its build is spawned (BuildArchive),   *)
(* and everything is scanned.                                              *)
ScanEverything ==
    /\ analysis.at = "archives"
    /\ HasFullDay
    /\ ~(analysis.olds \subseteq built)
    /\ LET S == UNION {Committed(f) : f \in analysis.olds \cup {analysis.store}}
       IN  analysis' = [analysis EXCEPT !.at = "done", !.scanned = TRUE,
              !.count = Plus(Nothing, Within(S, analysis.lo, analysis.hi))]
    /\ UNCHANGED <<now, times, file, inode, rollup, built, builder, counts, settled,
                   torn>>

Answered ==
    /\ analysis.at = "done"
    /\ analysis' = NoAnalysis
    /\ UNCHANGED <<now, times, file, inode, rollup, built, builder, counts,
                   settled, torn>>

-----------------------------------------------------------------------------
BuildStep == ReadMaxId \/ CheckCursor \/ ScanAfter \/ ApplyDeltas

Next ==
    \/ Commit \/ Rotate \/ Restart
    \/ BuildStep \/ BuildFails
    \/ \E f \in Files : AskElsewhere(f) \/ BuildArchive(f)
    \/ \E lo, hi \in Times : lo <= hi /\ Collect(lo, hi)
    \/ ActiveByRollup \/ ReadActiveSlice \/ ActiveByScan
    \/ ReadArchives \/ ScanEverything \/ Answered

Spec == Init /\ [][Next]_vars

-----------------------------------------------------------------------------
(* Properties.                                                             *)

(* The tables stay inside their ranges: the rollup counts rows that there  *)
(* can be, and the cursor, and a scan behind it, never lie beyond the last *)
(* row that a file can have.                                               *)
TypeOK ==
    /\ now \in Times
    /\ times \in [Files -> Seq(Times)]
    /\ \A f \in Files : Len(times[f]) <= MaxRows
    /\ file \in Files /\ inode \in Inodes
    /\ agg \in [Rows -> Nat]
    /\ state \in [lastId : 0..MaxRows, maxTime : 0..MaxTime, lastTime : 0..MaxTime,
                  inode : Inodes \cup {"none"}]
    /\ built \subseteq Files
    /\ builder \in [at : {"idle", "lock", "cursor", "scan", "apply"},
                    store : Files, maxId : 0..MaxRows, from : 0..MaxRows,
                    inode : Inodes \cup {"none"}, maxTime : 0..MaxTime,
                    delta : SUBSET Rows, lastTime : 0..MaxTime, quiet : BOOLEAN]
    /\ builder.from <= builder.maxId
    /\ analysis \in [at : {"idle", "active", "slice", "archives", "done"},
                     store : Files, lo : 0..MaxTime, hi : 0..MaxTime,
                     olds : SUBSET Files, count : [Rows -> Nat],
                     scanned : BOOLEAN, quiet : BOOLEAN]
    /\ {asked, faults} \subseteq Nat
    /\ settled \in BOOLEAN /\ torn \in BOOLEAN

(* Rows of one file or of two that carry the same millisecond. *)
SameTime == \E r, q \in UNION {Committed(f) : f \in Files} :
                r # q /\ TimeOf(r) = TimeOf(q)

(* A build that no commit and no rotation disturbs leaves a rollup that    *)
(* counts every row of the active file once and no other row, whatever was *)
(* there before: a cursor of another file, a reused inode, a build that    *)
(* was overtaken by commits, one that died after it had cleared.  It holds *)
(* as long as no two rows share a millisecond, and no build goes on from   *)
(* the cursor of a rollup that a late build of a former file has cleared.  *)
QuietBuildExact ==
    settled /\ ~SameTime /\ ~torn => agg = Plus(Nothing, Committed(file))

Exact(a) ==
    a.count = Plus(Nothing, Within(UNION {Committed(f) : f \in Files}, a.lo, a.hi))

(* An analysis that nothing disturbs answers what a scan of all rows in    *)
(* its range would, if the rollup of the active file is settled or it      *)
(* scanned anyway.                                                         *)
SettledAnalysisExact ==
    analysis.at = "done" /\ analysis.quiet /\ ((settled /\ ~torn) \/ analysis.scanned)
                         /\ ~SameTime => Exact(analysis)

(* docs/DATABASE_SCHEMA.md:197: answers are the same with and without the  *)
(* rollups.                                                                *)
AnalysisMatchesScan ==
    analysis.at = "done" /\ analysis.quiet /\ ~SameTime => Exact(analysis)
=============================================================================
