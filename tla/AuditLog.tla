------------------------------- MODULE AuditLog -------------------------------
(*****************************************************************************)
(* The audit log: one file of lines per day, and a chain through all of      *)
(* them, each entry holding the hash of the one written before it.  An       *)
(* entry takes its time, and with it its file, before it waits for the       *)
(* mutex; its place in the chain it takes under the mutex.  A write can fail *)
(* with nothing in the file, or with half a line; the process can die and    *)
(* find the end of the chain again from the newest file.  A hash is modelled *)
(* by the entry's own number: nothing alters a record here, so two hashes    *)
(* are equal when the records are.                                           *)
(*****************************************************************************)
EXTENDS Integers, Sequences, FiniteSets, FiniteSetsExt

CONSTANTS
    DayLength,      \* ticks in a day
    LastTime,       \* bound: the clock stops here
    MaxEntries,     \* bound: entries that are started
    MaxLosses       \* bound: writes that fail, and restarts

ASSUME AuditLogAssumption ==
    DayLength \in Nat \ {0} /\ LastTime \in Nat /\ MaxEntries \in Nat /\ MaxLosses \in Nat

VARIABLES
    dayFile,    \* the directory: for each day with a file, its lines
    head,       \* the logger's head: the last entry it wrote, 0 for none
    time,       \* the clock
    waiting,    \* entries that have their time and wait for the mutex
    started,    \* how many entries were started
    losses,     \* failed writes and restarts so far
    marred      \* history: what happened that the chain has no answer to

auditVars == <<dayFile, head, time, waiting, started, losses, marred>>

Day(t) == t \div DayLength

\* A line of a file: an entry, or text that is not one.  "half" is text without an end.
Line(id, at, prev) == [id |-> id, at |-> at, prev |-> prev]
Half == Line(0, 0, -1)
Junk == Line(0, 0, -2)
IsEntry(line) == line.id # 0

\* readFile: the lines of a day that are entries.
readFile(d) == {i \in DOMAIN dayFile[d] : IsEntry(dayFile[d][i])}

\* The entries of all files, each by its day and line, and the order they are read in.
Entries == UNION {{d} \X readFile(d) : d \in DOMAIN dayFile}
EntryAt(p) == dayFile[p[1]][p[2]]
Before(p, q) == p[1] < q[1] \/ (p[1] = q[1] /\ p[2] < q[2])

LinesOf(d) == IF d \in DOMAIN dayFile THEN dayFile[d] ELSE <<>>
WithFile(d, lines) == [x \in DOMAIN dayFile \cup {d} |-> IF x = d THEN lines ELSE dayFile[x]]

EndsInHalf(lines) == lines # <<>> /\ lines[Len(lines)] = Half
\* A line is written at the end of the file: after half a line it makes one line with it.
Glued(d, line) ==
    LET old == LinesOf(d)
    IN IF EndsInHalf(old) THEN [old EXCEPT ![Len(old)] = Junk] ELSE Append(old, line)

\* loadHead: the last entry of the newest file, however many files there are before it.
NewestDay == Max(DOMAIN dayFile)
loadHead ==
    IF DOMAIN dayFile = {} \/ readFile(NewestDay) = {} THEN 0
    ELSE EntryAt(<<NewestDay, Max(readFile(NewestDay))>>).id

AuditInit ==
    /\ dayFile = <<>> /\ head = 0 /\ time = 0 /\ waiting = {} /\ started = 0
    /\ losses = 0 /\ marred = {}

Elapse == time < LastTime /\ time' = time + 1
          /\ UNCHANGED <<dayFile, head, waiting, started, losses, marred>>

\* Append takes the time and chooses the file,
Stamp ==
    /\ started < MaxEntries
    /\ started' = started + 1
    /\ waiting' = waiting \cup {[id |-> started + 1, at |-> time]}
    /\ UNCHANGED <<dayFile, head, time, losses, marred>>

\* and under the mutex chains the entry and writes it.
LinkLine(e) == Line(e.id, e.at, head)
Late(e) == \E d \in DOMAIN dayFile : d > Day(e.at) /\ readFile(d) # {}

\* Mutant for LogTrusted: the head moves although the write fails.
LoseLineAdvancing(e) ==
    /\ losses < MaxLosses /\ losses' = losses + 1
    /\ dayFile' = WithFile(Day(e.at), LinesOf(Day(e.at)))
    /\ head' = e.id
    /\ waiting' = waiting \ {e}
    /\ UNCHANGED <<time, started, marred>>
\* The write fails with nothing written: the file is there all the same.
LoseLine(e) ==
    /\ losses < MaxLosses /\ losses' = losses + 1
    /\ dayFile' = WithFile(Day(e.at), LinesOf(Day(e.at)))
    /\ waiting' = waiting \ {e}
    /\ UNCHANGED <<head, time, started, marred>>

WriteLine(e) ==
    /\ dayFile' = WithFile(Day(e.at), Glued(Day(e.at), LinkLine(e)))
    /\ head' = e.id
    /\ waiting' = waiting \ {e}
    /\ marred' = marred \cup IF Late(e) THEN {"midnight"} ELSE {}
    /\ UNCHANGED <<time, started, losses>>

\* The write fails, or the process dies, with half the line in the file.
TearLine(e) ==
    /\ losses < MaxLosses /\ losses' = losses + 1
    /\ dayFile' = WithFile(Day(e.at), LET old == LinesOf(Day(e.at))
                                      IN IF EndsInHalf(old) THEN old ELSE Append(old, Half))
    /\ waiting' = waiting \ {e}
    /\ marred' = marred \cup {"torn"}
    /\ UNCHANGED <<head, time, started>>

\* The process dies and is started again: Open.
OpenLog ==
    /\ losses < MaxLosses /\ losses' = losses + 1
    /\ waiting' = {}
    /\ head' = loadHead
    /\ marred' = marred \cup IF Entries # {} /\ readFile(NewestDay) = {}
                             THEN {"emptyday"} ELSE {}
    /\ UNCHANGED <<dayFile, time, started>>

AuditNext ==
    \/ Elapse \/ Stamp \/ OpenLog
    \/ \E e \in waiting : WriteLine(e) \/ LoseLine(e) \/ TearLine(e)

AuditSpec == AuditInit /\ [][AuditNext]_auditVars

(***************************************************************************)
(* Reading.                                                                *)
(***************************************************************************)
\* Verify: the first entry has no predecessor, every other names the one before it.
Verify ==
    \A p \in Entries :
      LET earlier == {q \in Entries : Before(q, p)}
      IN \/ earlier = {} /\ EntryAt(p).prev = 0
         \/ \E q \in earlier : EntryAt(p).prev = EntryAt(q).id /\ \A r \in earlier : ~Before(q, r)

\* A filter: entries from since to until (0 for no bound), at most limit of them (-1: all).
Filter(since, until, limit) == [since |-> since, until |-> until, limit |-> limit]
match(e, f) == (f.since # 0 => e.at >= f.since) /\ (f.until # 0 => e.at <= f.until)

\* The files Query does not open: those of days past until, and of days over before since.
Skipped(d, f) ==
    \/ f.until # 0 /\ d * DayLength > f.until
    \/ f.since # 0 /\ (d + 1) * DayLength < f.since

\* The newest entries that a filter asks for and the files opened have, at most its limit.
Query(f) ==
    LET found == {p \in Entries : ~Skipped(p[1], f) /\ match(EntryAt(p), f)}
    IN {p \in found : f.limit < 0 \/ Cardinality({q \in found : Before(p, q)}) < f.limit}

\* What Stats counts, and what the exports write, for a filter: everything Query finds.
Stats(f) == Cardinality(Query([f EXCEPT !.limit = -1]))
Export(f) == Query([f EXCEPT !.limit = -1])

(***************************************************************************)
(* Properties.                                                             *)
(***************************************************************************)
\* "audit verify" reports a break only for a log that was tampered with: whatever writes
\* interleave or fail and whenever the server restarts, the chain adds up.  It does not
\* after two entries that straddle midnight were written in the other order, after a line
\* was torn, and after a restart that finds the newest day's file without an entry.
ChainHolds == marred = {} => Verify

\* No entry a filter asks for is left out of the list, the statistics or the exports because
\* its file was not opened: days are skipped by the name of their file only.
QueryMissesNothing ==
    \A since, until \in 0 .. LastTime :
      LET f == Filter(since, until, -1)
      IN Export(f) = {p \in Entries : match(EntryAt(p), f)}

\* An auditor may trust the log: the chain holds, and a query shows what is in it.
LogTrusted == ChainHolds /\ QueryMissesNothing
===============================================================================
