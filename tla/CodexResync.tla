---------------------------- MODULE CodexResync ----------------------------
(* Codex resynchronisation: the daemon follows, slice by slice and with one *)
(* cached cursor per file, the rollout files a live Codex process has open  *)
(* for writing, while Codex appends to them, replaces or truncates them.    *)
(* A passive poll proves that the current session is idle after a normal    *)
(* completion; a prompt is let through only when every root is quiescent.   *)
EXTENDS Naturals, SequencesExt

CONSTANTS
    RolloutFile,   \* paths below a sessions directory
    Canonical,     \* session digest of the pane's record
    Foreign,       \* another session's digest
    MaxTurns,      \* MAX_TURNS a cursor holds
    MaxRecords,    \* bound: records Codex writes
    MaxDisk,       \* bound: files opened, closed, replaced, truncated; process replaced
    MaxReads       \* bound: polls and prompt checks

VARIABLES
    disk,      \* external, per path: [ino, recs, half, cut]
    codexOpen, \* external: paths the process holds open for writing
    owner,     \* external: start token of the process; the record holds 1
    readers,   \* Resynchronizer.readers, per (path, session)
    reading,   \* the poll or prompt check that holds the lock
    resyncSpent \* bounds: [records, disk, reads]

resyncVars == <<disk, codexOpen, owner, readers, reading, resyncSpent>>
diskVars == <<disk, codexOpen, owner>>

ReaderKey == RolloutFile \X {Canonical, Foreign}

NoFile == [ino |-> 0, recs |-> <<>>, half |-> FALSE, cut |-> FALSE]
NewCursor(ino) ==
    [ino |-> ino, at |-> 0, header |-> FALSE, unknown |-> FALSE, turns |-> <<>>]
NoReading ==
    [kind |-> "none", roots |-> {}, todo |-> <<>>, stat |-> FALSE, verdict |-> FALSE,
     truth |-> TRUE]

\* Lengths count half records: a line without its newline is one half.
Length(f) == 2 * Len(f.recs) + (IF f.half THEN 1 ELSE 0)

-----------------------------------------------------------------------------
(* External: Codex and the file system.                                     *)

TurnsOf(f) == {f.recs[i].turn : i \in {j \in DOMAIN f.recs : f.recs[j].kind = "start"}}
Ends(f, t) == {i \in DOMAIN f.recs : f.recs[i].kind \in {"complete", "error", "abort"}
                                     /\ f.recs[i].turn = t}
OpenTurns(f) == {t \in TurnsOf(f) : Ends(f, t) = {}}

Record(kind, turn) == [kind |-> kind, turn |-> turn, session |-> Canonical, source |-> "none"]

\* session_meta first; then turns that start and end one at a time.
NextRecords(f) ==
    IF f.recs = <<>>
    THEN [kind : {"meta"}, turn : {0}, session : {Canonical, Foreign},
          source : {"root", "fork", "child"}]
    ELSE {Record("rollback", 0)}
         \cup {Record(kind, t) : kind \in {"complete", "error", "abort"}, t \in OpenTurns(f)}
         \cup (IF OpenTurns(f) = {} THEN {Record("start", Len(f.recs))} ELSE {})

Writes ==
    /\ resyncSpent.records < MaxRecords
    /\ \E p \in codexOpen :
        /\ ~disk[p].cut
        /\ \/ /\ ~disk[p].half /\ disk' = [disk EXCEPT ![p].half = TRUE]
              /\ UNCHANGED resyncSpent
           \/ /\ disk[p].half
              /\ \E r \in NextRecords(disk[p]) :
                     disk' = [disk EXCEPT ![p].recs = Append(@, r), ![p].half = FALSE]
              /\ resyncSpent' = [resyncSpent EXCEPT !.records = @ + 1]
    /\ UNCHANGED <<codexOpen, owner, readers, reading>>

DiskChanges ==
    /\ resyncSpent.disk < MaxDisk /\ resyncSpent' = [resyncSpent EXCEPT !.disk = @ + 1]
    /\ \/ \E p \in RolloutFile :
           \/ /\ disk' = [disk EXCEPT ![p] = [NoFile EXCEPT !.ino = disk[p].ino + 1]]
              /\ codexOpen' = codexOpen \cup {p} /\ UNCHANGED owner
           \/ /\ p \in codexOpen /\ codexOpen' = codexOpen \ {p} /\ UNCHANGED <<disk, owner>>
           \/ /\ disk[p].recs # <<>> /\ UNCHANGED <<codexOpen, owner>>
              /\ disk' = [disk EXCEPT ![p].recs = Front(@), ![p].half = FALSE, ![p].cut = TRUE]
       \/ owner' = owner + 1 /\ codexOpen' = {} /\ UNCHANGED disk
    /\ UNCHANGED <<readers, reading>>

-----------------------------------------------------------------------------
(* turn_order: Cursor.                                                      *)

Broken(c) == [c EXCEPT !.unknown = TRUE]

\* Mutant: the id of the session is not asked for in the header, nor are rolled back turns dropped.
M_apply_record(c, r, session) ==
    IF ~c.header THEN [c EXCEPT !.header = TRUE]
    ELSE IF r.kind = "start" THEN [c EXCEPT !.turns = Append(@, [turn |-> r.turn, end |-> "open"])]
    ELSE IF r.kind = "rollback" THEN c
    ELSE [c EXCEPT !.turns = [i \in DOMAIN @ |->
              IF @[i].turn = r.turn THEN [@[i] EXCEPT !.end = r.kind] ELSE @[i]]]

\* turns lists [turn, end] in the order of their starts.
apply_record(c, r, session) ==
    LET known == {i \in DOMAIN c.turns : c.turns[i].turn = r.turn}
        opens == r.kind = "meta" /\ r.session = session /\ r.source # "child"
    IN IF c.unknown THEN c
       ELSE IF ~c.header THEN IF opens THEN [c EXCEPT !.header = TRUE] ELSE Broken(c)
       ELSE IF r.kind \in {"meta", "rollback"} THEN Broken(c)
       ELSE IF r.kind = "start"
       THEN IF known # {} \/ Len(c.turns) >= MaxTurns THEN Broken(c)
            ELSE [c EXCEPT !.turns = Append(@, [turn |-> r.turn, end |-> "open"])]
       ELSE IF \E i \in known : c.turns[i].end = "open"
       THEN [c EXCEPT !.turns = [i \in DOMAIN @ |->
                 IF i \in known THEN [@[i] EXCEPT !.end = r.kind] ELSE @[i]]]
       ELSE Broken(c)

quiescent(c) == c.header /\ ~c.unknown /\ \A i \in DOMAIN c.turns : c.turns[i].end # "open"
idle(c) == quiescent(c) /\ c.turns # <<>> /\ Last(c.turns).end = "complete"

\* Bytes up to `to` are parsed; a record counts once its newline was read.
feed(c, f, to, session) ==
    LET from == c.at \div 2
        read[n \in from..(to \div 2)] ==
            IF n = from THEN c ELSE apply_record(read[n - 1], f.recs[n], session)
    IN [read[to \div 2] EXCEPT !.at = to]

matches_current_file(c, f) == f.ino = c.ino /\ Length(f) >= c.at

-----------------------------------------------------------------------------
(* Resynchronizer.                                                          *)

Header(p) == disk[p].recs[1]
HeadersKnown(paths) == \A p \in paths : disk[p].recs # <<>>
RootPaths(paths) == {p \in paths : Header(p).source # "child"}
Locator(p, need) == [path |-> p, ino |-> disk[p].ino, session |-> Header(p).session, need |-> need]

\* roots_from_paths: a retained fork of another session is refused.
roots_from_paths(paths) ==
    HeadersKnown(paths)
    /\ \A p \in paths : Header(p).source = "fork" => Header(p).session = Canonical

\* session_locator: exactly one root writer, and it is the current session.
session_locator(paths) ==
    HeadersKnown(paths) /\ \E p \in RootPaths(paths) :
        RootPaths(paths) = {p} /\ Header(p).session = Canonical

retain_roots(todo) ==   \* retain_roots, and a new cursor for a new file at the path
    LET now == [k \in {<<e.path, e.session>> : e \in ToSet(todo)} |->
                    CHOOSE e \in ToSet(todo) : <<e.path, e.session>> = k]
    IN [k \in DOMAIN now |->
            IF k \in DOMAIN readers /\ readers[k].ino = now[k].ino THEN readers[k]
            ELSE NewCursor(now[k].ino)]

Begin ==
    /\ reading.kind = "none" /\ resyncSpent.reads < MaxReads
    /\ resyncSpent' = [resyncSpent EXCEPT !.reads = @ + 1]

\* poll: warms the cursor of every root, then looks for the current session.
poll ==
    /\ Begin
    /\ LET roots == IF roots_from_paths(codexOpen) THEN RootPaths(codexOpen) ELSE {}
           todo == [i \in DOMAIN SetToSeq(roots) |-> Locator(SetToSeq(roots)[i], "warm")]
       IN /\ readers' = IF roots_from_paths(codexOpen) THEN retain_roots(todo) ELSE readers
          /\ reading' = [NoReading EXCEPT !.kind = "poll", !.roots = codexOpen, !.todo = todo]
    /\ UNCHANGED diskVars

locator_from_paths ==
    /\ reading.kind = "poll" /\ reading.todo = <<>>
    /\ IF owner = 1 /\ session_locator(reading.roots)
       THEN LET p == CHOOSE p \in RootPaths(reading.roots) : Header(p).session = Canonical
                e == Locator(p, "idle")
                k == <<p, e.session>>
            IN /\ reading' = [reading EXCEPT !.kind = "session", !.todo = <<e>>]
               /\ readers' = [j \in DOMAIN readers \cup {k} |->
                      IF j = k /\ (k \notin DOMAIN readers \/ readers[k].ino # e.ino)
                      THEN NewCursor(e.ino) ELSE readers[j]]
       ELSE reading' = NoReading /\ UNCHANGED readers
    /\ UNCHANGED diskVars /\ UNCHANGED resyncSpent

\* The readiness check of a prompt: every root, each session once.
verify_prompt_roots ==
    /\ Begin
    /\ LET roots == RootPaths(codexOpen)
           todo == [i \in DOMAIN SetToSeq(roots) |-> Locator(SetToSeq(roots)[i], "quiet")]
           once == \A p, q \in roots : Header(p).session = Header(q).session => p = q
       IN IF owner = 1 /\ roots_from_paths(codexOpen) /\ once
          THEN /\ readers' = retain_roots(todo)
               /\ reading' = [NoReading EXCEPT !.kind = "prompt", !.roots = roots, !.todo = todo]
          ELSE UNCHANGED <<readers, reading>>
    /\ UNCHANGED diskVars

\* read_slice, first half: checks the file and reads up to any point.
ReadSlice ==
    /\ reading.todo # <<>> /\ ~reading.stat
    /\ LET e == Head(reading.todo)
           k == <<e.path, e.session>>
           c == readers[k]
           f == disk[e.path]
       IN IF c.unknown \/ ~matches_current_file(c, f)
          THEN readers' = [readers EXCEPT ![k] = Broken(@)]
          ELSE \E to \in c.at..Length(f) :
                   readers' = [readers EXCEPT ![k] = feed(@, f, to, e.session)]
    /\ reading' = [reading EXCEPT !.stat = TRUE]
    /\ UNCHANGED diskVars /\ UNCHANGED resyncSpent

\* The file as a fresh look at it would judge it, cursor or not.
Quiet(f, session) ==
    /\ f.recs # <<>> /\ f.recs[1].session = session /\ f.recs[1].source # "child"
    /\ \A i \in DOMAIN f.recs : f.recs[i].kind # "rollback"
    /\ OpenTurns(f) = {} /\ ~f.half
CompletedLast(f) == f.recs # <<>> /\ Last(f.recs).kind = "complete"

\* read_slice, second half, and what read_transcript makes of it: the file is
\* looked at again; another slice follows, or the time is up.
ReadStat ==
    /\ reading.todo # <<>> /\ reading.stat
    /\ LET e == Head(reading.todo)
           k == <<e.path, e.session>>
           f == disk[e.path]
           c == IF matches_current_file(readers[k], f) THEN readers[k] ELSE Broken(readers[k])
           whole == c.at = Length(f) /\ c.at % 2 = 0
           yes == whole /\ (IF e.need = "idle" THEN idle(c) ELSE quiescent(c))
           true == Quiet(f, e.session) /\ (e.need = "idle" => CompletedLast(f))
           rest == Tail(reading.todo)
       IN /\ readers' = [readers EXCEPT ![k] = c]
          /\ \/ /\ ~c.unknown /\ c.at < Length(f)
                /\ reading' = [reading EXCEPT !.stat = FALSE]
             \/ /\ e.need = "warm"
                /\ reading' = [reading EXCEPT !.stat = FALSE, !.todo = rest]
             \/ /\ e.need # "warm" /\ ~yes /\ reading' = NoReading
             \/ /\ e.need # "warm" /\ yes
                /\ reading' = [reading EXCEPT !.stat = FALSE, !.todo = rest, !.verdict = TRUE,
                                              !.truth = @ /\ true]
    /\ UNCHANGED diskVars /\ UNCHANGED resyncSpent

\* The verdict is used: the observation is marked verified, or the prompt's
\* text goes on to the next check.
VerdictUsed ==
    /\ reading.kind \in {"session", "prompt"} /\ reading.todo = <<>>
    /\ reading' = NoReading /\ UNCHANGED <<readers, resyncSpent>> /\ UNCHANGED diskVars

ResyncInit ==
    /\ disk = [p \in RolloutFile |-> NoFile] /\ codexOpen = {} /\ owner = 1
    /\ readers = <<>> /\ reading = NoReading
    /\ resyncSpent = [records |-> 0, disk |-> 0, reads |-> 0]

ResyncNext ==
    \/ Writes \/ DiskChanges
    \/ poll \/ locator_from_paths \/ verify_prompt_roots \/ ReadSlice \/ ReadStat \/ VerdictUsed

ResyncSpec == ResyncInit /\ [][ResyncNext]_resyncVars

-----------------------------------------------------------------------------
(* Properties.                                                              *)

(* A session is called idle, and a prompt let through, only on files that,  *)
(* when last looked at, a fresh reading of the whole file would call closed *)
(* as well: the cached cursor never answers for another file or for a turn  *)
(* it has not seen the end of.                                              *)
VerdictHolds == reading.verdict => reading.truth

(* A cursor still trusted has read a prefix of the file it was made for.    *)
CursorIsPrefix ==
    \A k \in DOMAIN readers :
        LET c == readers[k]
            f == disk[k[1]]
            open == {t \in {c.turns[i].turn : i \in DOMAIN c.turns} :
                         \E i \in DOMAIN c.turns : c.turns[i] = [turn |-> t, end |-> "open"]}
            read == [f EXCEPT !.recs = SubSeq(@, 1, c.at \div 2)]
        IN ~c.unknown /\ c.ino = f.ino /\ ~f.cut => open = OpenTurns(read)

ResyncSound == VerdictHolds /\ CursorIsPrefix
=============================================================================
