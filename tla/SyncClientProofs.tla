-------------------------- MODULE SyncClientProofs --------------------------
(***************************************************************************)
(* Theorems about SyncClient, for every number of directories, commands,   *)
(* daemons, paths and contents, and for every bound.  The first two hold   *)
(* however the processes overlap; the last two as long as those of one     *)
(* directory take turns.                                                   *)
(***************************************************************************)
EXTENDS SyncClient, TLAPS

Contents == Data \cup {NoData}
Places == {"idle", "list", "fetch", "write", "walk", "send", "conf", "save", "saving"}

\* Where a process stands and what it holds there.
ControlAt(p) ==
    /\ pc[p] \in {"list", "fetch", "write"} => job[p].kind \in {"pull", "poll"}
    /\ pc[p] \in {"walk", "send", "save"} => job[p].kind = "push"
    /\ pc[p] # "idle" => job[p].at <= head /\ (job[p].kind = "poll" <=> p \in Daemons)
    /\ pc[p] = "write" => job[p].todo # {}
    /\ pc[p] \in {"saving", "conf"} /\ job[p].kind # "push" => job[p].todo = {}

FileInv ==
    /\ content \in [Paths -> Contents] /\ head \in Nat /\ rules \in [Paths -> Modes]
    /\ tree \in [Dirs -> [Paths -> Contents]]
    /\ state \in [Dirs -> {Torn} \cup States]
    /\ conf \in [Dirs -> 0..head]
    /\ got \in [Dirs -> [Paths -> Contents]]
    /\ skipped \in [Dirs -> SUBSET Paths] /\ blind \in [Dirs -> BOOLEAN]

ProcInv ==
    /\ pc \in [Procs -> Places] /\ job \in [Procs -> {NoJob} \cup Jobs]
    /\ last \in [Procs -> 0..head]
    /\ \A p \in Procs : (pc[p] = "idle") <=> (job[p] = NoJob)
    /\ \A p \in Procs : ControlAt(p)

TInv == FileInv /\ ProcInv

\* What was sent has arrived, as far as the state files and the calls under way know.
Arrived(sent) == Held(sent) \subseteq arrived
SentAt(p) ==
    /\ pc[p] # "idle" => Arrived(job[p].st.sent)
    /\ pc[p] = "send" => \A q \in Paths : job[p].sent[q] # NoData =>
                            q \in job[p].puts \/ job[p].sent[q] = job[p].st.sent[q]
SentInv == SentArrived /\ \A p \in Procs : SentAt(p)

\* The processes of a directory take turns.
OnTurn(p) == \A o \in Procs \ {p} : Dir[o] = Dir[p] => pc[o] = "idle"
TakeTurns == \A p \in Procs : pc[p] # "idle" => OnTurn(p)

\* Directory d has had all there is but the paths of S.
HasAllBut(d, S) == \A q \in Paths \ S : content[q] # NoData => got[d][q] = content[q]

\* A directory that takes itself to be at the head has all its last pull did not leave out.
DirHas(d) == conf[d] = head /\ ~blind[d] => HasAllBut(d, skipped[d])

\* A pull whose listing is not the one its directory had last, and is still of the head,
\* already has all but what it leaves out and what it has yet to fetch.
PullAt(p) ==
    /\ IF p \in Daemons THEN last[p] < head ELSE last[p] = conf[Dir[p]]
    /\ pc[p] # "list" => conf[Dir[p]] <= job[p].at
    /\ pc[p] # "list" /\ p \in Daemons => last[p] < job[p].at
    /\ pc[p] # "list" /\ last[p] # job[p].at /\ job[p].at = head =>
         HasAllBut(Dir[p], job[p].left \cup job[p].todo)
    /\ pc[p] = "write" /\ job[p].at = head => job[p].body = content[Following(p)]

\* A push that the server would take, or has taken last, knows all there is.
PushAt(p) ==
    pc[p] \in {"walk", "send", "conf"} /\ job[p].at = head /\ ~blind[Dir[p]] =>
        HasAllBut(Dir[p], skipped[Dir[p]])

WorkAt(p) == pc[p] # "idle" => IF job[p].kind = "push" THEN PushAt(p) ELSE PullAt(p)
HeadInv == (\A d \in Dirs : DirHas(d)) /\ \A p \in Procs : WorkAt(p)

-----------------------------------------------------------------------------
(* Types and control *)

LEMMA InitTInv == Init => TInv
BY SyncClientAssumption
   DEF Init, TInv, FileInv, ProcInv, ControlAt, States, NoDocs, EmptyState, NoJob, Contents, Places

LEMMA TypesHold == TInv => TypeOK
BY DEF TInv, FileInv, ProcInv, TypeOK, Contents

\* The fields of a job.
LEMMA JobFields ==
    ASSUME NEW j \in Jobs
    PROVE  /\ j # NoJob /\ j.kind \in {"pull", "poll", "push"} /\ j.rules \in [Paths -> Modes]
           /\ j.st.seeded \in SUBSET Paths /\ j.st.sent \in [Paths -> Contents] /\ j.st \in States
           /\ j.at \in Nat /\ j.todo \in SUBSET Paths /\ j.left \in SUBSET Paths
           /\ j.body \in Contents
           /\ j.puts \in SUBSET Paths /\ j.dels \in SUBSET Paths /\ j.sent \in [Paths -> Contents]
<1>1. j.kind \in {"pull", "poll", "push"} /\ NoJob.kind = "none"
    BY DEF Jobs, NoJob
<1>2. j.st \in States
    BY DEF Jobs
<1>3. j.st.seeded \in SUBSET Paths /\ j.st.sent \in [Paths -> Contents]
    BY <1>2 DEF States, Contents
<1> QED
    BY <1>1, <1>2, <1>3 DEF Jobs, Contents

\* A step of one process, of which ControlAt says where it leaves it.
Moved(p) ==
    /\ pc' \in [Procs -> Places] /\ job' \in [Procs -> {NoJob} \cup Jobs]
    /\ last' \in [Procs -> 0..head']
    /\ (pc'[p] = "idle") <=> (job'[p] = NoJob)
    /\ \A o \in Procs \ {p} : pc'[o] = pc[o] /\ job'[o] = job[o] /\ last'[o] = last[o]

LEMMA ProcMoves ==
    ASSUME ProcInv, head \in Nat, head' \in Nat, head <= head',
           NEW p \in Procs, Moved(p), ControlAt(p)'
    PROVE  ProcInv'
<1>1. ASSUME NEW o \in Procs, o # p PROVE ControlAt(o)'
    <2>1. job[o] \in Jobs => job[o].at \in Nat
        BY JobFields
    <2>2. pc[o] # "idle" => job[o] \in Jobs
        BY DEF ProcInv
    <2>3. pc'[o] = pc[o] /\ job'[o] = job[o]
        BY <1>1 DEF Moved
    <2> QED
        BY <2>1, <2>2, <2>3 DEF ProcInv, ControlAt
<1>2. \A o \in Procs : (pc'[o] = "idle") <=> (job'[o] = NoJob)
    BY DEF Moved, ProcInv
<1> QED
    BY <1>1, <1>2 DEF ProcInv, Moved

\* A step of others.
LEMMA ProcStays ==
    ASSUME ProcInv, head \in Nat, head' \in Nat, head <= head', UNCHANGED process
    PROVE  ProcInv'
<1>1. ASSUME NEW o \in Procs PROVE ControlAt(o)'
    <2>1. pc[o] # "idle" => job[o] \in Jobs
        BY DEF ProcInv
    <2>2. job[o] \in Jobs => job[o].at \in Nat
        BY JobFields
    <2> QED
        BY <2>1, <2>2 DEF ProcInv, ControlAt, process
<1> QED
    BY <1>1 DEF ProcInv, process

\* What each step makes of a job is a job.
LEMMA BodyType ==
    ASSUME NEW j \in Jobs, NEW b \in Contents, NEW k, k = [j EXCEPT !.body = b]
    PROVE  /\ k \in Jobs /\ k.body = b /\ k.todo = j.todo /\ k.left = j.left
           /\ k.at = j.at /\ k.kind = j.kind /\ k.st = j.st
BY DEF Jobs, Contents

LEMMA WrittenType ==
    ASSUME NEW j \in Jobs, NEW q \in Paths
    PROVE  LET k == [j EXCEPT !.st.seeded = @ \cup {q}, !.todo = @ \ {q}, !.body = NoData]
           IN  /\ k \in Jobs /\ k.todo = j.todo \ {q} /\ k.left = j.left
               /\ k.at = j.at /\ k.kind = j.kind /\ k.st.sent = j.st.sent
<1> DEFINE k == [j EXCEPT !.st.seeded = @ \cup {q}, !.todo = @ \ {q}, !.body = NoData]
<1>1. k \in Jobs
    BY DEF Jobs, States
<1>2. k.todo = j.todo \ {q} /\ k.left = j.left /\ k.at = j.at /\ k.kind = j.kind
    BY DEF Jobs
<1>3. k.st.sent = j.st.sent
    BY DEF Jobs, States
<1> QED
    BY <1>1, <1>2, <1>3

LEMMA CollectedType ==
    ASSUME NEW j \in Jobs, NEW s \in SUBSET Paths, NEW d \in SUBSET Paths,
           NEW t \in [Paths -> Contents], NEW k, k = [j EXCEPT !.puts = s, !.dels = d, !.sent = t]
    PROVE  /\ k \in Jobs /\ k.puts = s /\ k.dels = d /\ k.sent = t
           /\ k.at = j.at /\ k.kind = j.kind /\ k.todo = j.todo /\ k.st = j.st
BY DEF Jobs, Contents

LEMMA NotedType ==
    ASSUME NEW j \in Jobs, head \in Nat
    PROVE  /\ Noted(j) \in Jobs /\ Noted(j).at = head + 1 /\ Noted(j).st.sent = j.sent
           /\ Noted(j).kind = j.kind /\ Noted(j).todo = j.todo
<1> DEFINE s == [j.st EXCEPT !.sent = j.sent]
<1>1. j.st \in States /\ j.sent \in [Paths -> Contents]
    BY JobFields
<1>2. s \in States /\ s.sent = j.sent
    BY <1>1 DEF States, Contents
<1> HIDE DEF s
<1>3. PICK k \in Jobs : k = [j EXCEPT !.at = head + 1]
    <2>1. ASSUME NEW n \in Nat PROVE [j EXCEPT !.at = n] \in Jobs
        BY DEF Jobs
    <2>2. head + 1 \in Nat
        OBVIOUS
    <2> QED
        BY <2>1, <2>2
<1>4. k.at = head + 1 /\ k.kind = j.kind /\ k.todo = j.todo /\ k.st = j.st
    BY <1>3 DEF Jobs
<1>5. Noted(j) = [k EXCEPT !.st = s]
    BY <1>3, <1>4 DEF Noted, s
<1>6. Noted(j) \in Jobs
    BY <1>2, <1>5 DEF Jobs
<1>7. Noted(j).at = k.at /\ Noted(j).kind = k.kind /\ Noted(j).todo = k.todo /\ Noted(j).st = s
    BY <1>5 DEF Jobs
<1> QED
    BY <1>2, <1>4, <1>6, <1>7

\* Each step keeps types and control.
LEMMA TypeEdit ==
    ASSUME TInv, NEW d \in Dirs, NEW q \in Paths, NEW c \in Data \cup {NoData}, Edit(d, q, c)
    PROVE  TInv'
<1>1. FileInv' /\ head \in Nat /\ head' \in Nat /\ head <= head'
    BY DEF TInv, FileInv, Contents, server, disk, process, counters, history, Edit
<1>2. UNCHANGED process
    BY DEF Edit, process
<1> QED
    BY <1>1, <1>2, ProcStays DEF TInv

LEMMA TypeElsewhere ==
    ASSUME TInv, NEW q \in Paths, NEW c \in Data \cup {NoData}, Elsewhere(q, c)
    PROVE  TInv'
<1>1. FileInv' /\ head \in Nat /\ head' \in Nat /\ head <= head'
    BY DEF TInv, FileInv, Contents, server, disk, process, counters, history, Elsewhere
<1>2. UNCHANGED process
    BY DEF Elsewhere, process
<1> QED
    BY <1>1, <1>2, ProcStays DEF TInv

LEMMA TypeSetRule ==
    ASSUME TInv, NEW q \in Paths, NEW m \in Modes, SetRule(q, m)
    PROVE  TInv'
<1>1. FileInv' /\ head \in Nat /\ head' \in Nat /\ head <= head'
    BY DEF TInv, FileInv, Contents, server, disk, process, counters, history, SetRule
<1>2. UNCHANGED process
    BY DEF SetRule, process
<1> QED
    BY <1>1, <1>2, ProcStays DEF TInv

LEMMA TypeStartPull ==
    ASSUME TInv, NEW p \in Procs, StartPull(p)
    PROVE  TInv'
<1> DEFINE j == Loaded(p, "pull", 0)
<1>1. FileInv' /\ head \in Nat /\ head' = head
    BY SyncClientAssumption DEF TInv, FileInv, Contents, server, disk, process, counters, history, StartPull
<1>2. state[Dir[p]] \in States /\ Dir[p] \in Dirs /\ conf[Dir[p]] \in 0..head
    BY SyncClientAssumption DEF TInv, FileInv, StartPull, Readable
<1>3. j \in Jobs /\ j.at \in 0..head /\ j.kind = "pull"
    BY <1>1, <1>2 DEF Jobs, Loaded, TInv, FileInv, Contents, NoDocs
<1>4. pc' = [pc EXCEPT ![p] = "list"] /\ job' = [job EXCEPT ![p] = j] /\ j # NoJob
    BY <1>3, JobFields DEF StartPull, Goto
<1> HIDE DEF j
<1>5. pc'[p] = "list" /\ job'[p] = j
    BY <1>4 DEF TInv, ProcInv
<1>6. ControlAt(p)'
    BY <1>1, <1>3, <1>5 DEF ControlAt, StartPull
<1>7. last' \in [Procs -> 0..head'] /\ \A o \in Procs \ {p} : last'[o] = last[o]
    BY <1>1, <1>2 DEF StartPull, TInv, ProcInv
<1>8. Moved(p)
    BY <1>3, <1>4, <1>7 DEF Moved, TInv, ProcInv, Places
<1> QED
    BY <1>1, <1>6, <1>8, ProcMoves DEF TInv

LEMMA TypePoll ==
    ASSUME TInv, NEW p \in Procs, Poll(p)
    PROVE  TInv'
<1> DEFINE j == Loaded(p, "poll", 0)
<1>1. FileInv' /\ head \in Nat /\ head' = head
    BY SyncClientAssumption DEF TInv, FileInv, Contents, server, disk, process, counters, history, Poll
<1>2. state[Dir[p]] \in States /\ Dir[p] \in Dirs /\ conf[Dir[p]] \in 0..head
    BY SyncClientAssumption DEF TInv, FileInv, Poll, Readable
<1>3. j \in Jobs /\ j.at \in 0..head /\ j.kind = "poll"
    BY <1>1, <1>2 DEF Jobs, Loaded, TInv, FileInv, Contents, NoDocs
<1>4. pc' = [pc EXCEPT ![p] = "list"] /\ job' = [job EXCEPT ![p] = j] /\ j # NoJob
    BY <1>3, JobFields DEF Poll, Goto
<1> HIDE DEF j
<1>5. pc'[p] = "list" /\ job'[p] = j
    BY <1>4 DEF TInv, ProcInv
<1>6. ControlAt(p)'
    BY <1>1, <1>3, <1>5 DEF ControlAt, Poll
<1>7. last' \in [Procs -> 0..head'] /\ \A o \in Procs \ {p} : last'[o] = last[o]
    BY <1>1, <1>2 DEF Poll, TInv, ProcInv
<1>8. Moved(p)
    BY <1>3, <1>4, <1>7 DEF Moved, TInv, ProcInv, Places
<1> QED
    BY <1>1, <1>6, <1>8, ProcMoves DEF TInv

LEMMA TypeStartPush ==
    ASSUME TInv, NEW p \in Procs, StartPush(p)
    PROVE  TInv'
<1> DEFINE j == Loaded(p, "push", Expected(Dir[p]))
<1>1. FileInv' /\ head \in Nat /\ head' = head
    BY SyncClientAssumption DEF TInv, FileInv, Contents, server, disk, process, counters, history, StartPush
<1>2. state[Dir[p]] \in States /\ Dir[p] \in Dirs /\ conf[Dir[p]] \in 0..head
    BY SyncClientAssumption DEF TInv, FileInv, StartPush, Readable
<1>3. j \in Jobs /\ j.at \in 0..head /\ j.kind = "push"
    BY <1>1, <1>2 DEF Jobs, Loaded, Expected, TInv, FileInv, Contents, NoDocs
<1>4. pc' = [pc EXCEPT ![p] = "walk"] /\ job' = [job EXCEPT ![p] = j] /\ j # NoJob
    BY <1>3, JobFields DEF StartPush, Goto
<1> HIDE DEF j
<1>5. pc'[p] = "walk" /\ job'[p] = j
    BY <1>4 DEF TInv, ProcInv
<1>6. ControlAt(p)'
    BY <1>1, <1>3, <1>5 DEF ControlAt, StartPush
<1>7. last' \in [Procs -> 0..head'] /\ \A o \in Procs \ {p} : last'[o] = last[o]
    BY <1>1, <1>2 DEF StartPush, TInv, ProcInv
<1>8. Moved(p)
    BY <1>3, <1>4, <1>7 DEF Moved, TInv, ProcInv, Places
<1> QED
    BY <1>1, <1>6, <1>8, ProcMoves DEF TInv

\* A process that has a job.
LEMMA AtWork ==
    ASSUME TInv, NEW p \in Procs, pc[p] # "idle"
    PROVE  job[p] \in Jobs /\ Dir[p] \in Dirs /\ head \in Nat
BY SyncClientAssumption DEF TInv, FileInv, ProcInv

LEMMA Stopping ==
    ASSUME TInv, FileInv', head <= head', NEW p \in Procs, Stop(p),
           last' \in [Procs -> 0..head'], \A o \in Procs \ {p} : last'[o] = last[o]
    PROVE  TInv'
<1>1. pc' = [pc EXCEPT ![p] = "idle"] /\ job' = [job EXCEPT ![p] = NoJob]
    BY DEF Stop, Goto
<1>2. pc'[p] = "idle" /\ job'[p] = NoJob
    BY <1>1 DEF TInv, ProcInv
<1>3. Moved(p)
    BY <1>1, <1>2 DEF Moved, TInv, ProcInv, Places
<1>4. ControlAt(p)'
    BY <1>2 DEF ControlAt
<1>5. head \in Nat /\ head' \in Nat
    BY DEF TInv, FileInv
<1> QED
    BY <1>3, <1>4, <1>5, ProcMoves DEF TInv

LEMMA GoingOn ==
    ASSUME TInv, FileInv', head <= head', NEW p \in Procs, NEW l \in Places, l # "idle", Goto(p, l),
           NEW j \in Jobs, job' = [job EXCEPT ![p] = j], ControlAt(p)',
           last' \in [Procs -> 0..head'], \A o \in Procs \ {p} : last'[o] = last[o]
    PROVE  TInv'
<1>1. pc' = [pc EXCEPT ![p] = l] /\ j # NoJob
    BY JobFields DEF Goto
<1>2. Moved(p)
    BY <1>1 DEF Moved, TInv, ProcInv, Places
<1>3. head \in Nat /\ head' \in Nat
    BY DEF TInv, FileInv
<1> QED
    BY <1>2, <1>3, ProcMoves DEF TInv

\* Where a process goes on, and with what.
LEMMA GoesOn ==
    ASSUME TInv, NEW p \in Procs, NEW l, Goto(p, l), NEW j, job' = [job EXCEPT ![p] = j]
    PROVE  pc'[p] = l /\ job'[p] = j
BY DEF TInv, ProcInv, Goto

LEMMA LastStays ==
    ASSUME TInv, FileInv', head <= head', UNCHANGED last
    PROVE  last' \in [Procs -> 0..head'] /\ \A o \in Procs : last'[o] = last[o]
<1>1. head \in Nat /\ head' \in Nat
    BY DEF TInv, FileInv
<1> QED
    BY <1>1 DEF TInv, ProcInv

LEMMA TypeList ==
    ASSUME TInv, NEW p \in Procs, List(p)
    PROVE  TInv'
<1> DEFINE left == {q \in Paths : Skips(job[p], q)}
           j == [job[p] EXCEPT !.at = head, !.todo = Listing(last[p]) \ left, !.left = left]
<1>1. pc[p] = "list" /\ Goto(p, "fetch") /\ UNCHANGED last /\ head' = head
    BY DEF List, server
<1>2. job[p] \in Jobs /\ head \in Nat /\ head <= head'
    BY <1>1, AtWork
<1>3. FileInv'
    BY DEF TInv, FileInv, server, disk, history, List
<1>4. j \in Jobs /\ j.at = head /\ j.kind = job[p].kind
    <2>1. Listing(last[p]) \ left \in SUBSET Paths /\ left \in SUBSET Paths
        BY DEF Listing
    <2> HIDE DEF left
    <2> QED
        BY <1>2, <2>1 DEF Jobs
<1>5. job' = [job EXCEPT ![p] = j]
    BY <1>2 DEF List
<1> HIDE DEF j
<1>6. pc'[p] = "fetch" /\ job'[p] = j
    BY <1>1, <1>5, GoesOn
<1>7. ControlAt(p)'
    BY <1>1, <1>2, <1>4, <1>6 DEF ControlAt, TInv, ProcInv
<1> QED
    BY <1>1, <1>2, <1>3, <1>4, <1>5, <1>7, LastStays, GoingOn DEF Places

LEMMA FollowingIs ==
    ASSUME NEW p \in Procs, job[p] \in Jobs, job[p].todo # {}
    PROVE  Following(p) \in job[p].todo /\ Following(p) \in Paths
BY JobFields DEF Following

LEMMA TypeFetch ==
    ASSUME TInv, NEW p \in Procs, Fetch(p)
    PROVE  TInv'
<1> DEFINE j == [job[p] EXCEPT !.body = content[Following(p)]]
<1>1. pc[p] = "fetch" /\ UNCHANGED last /\ head' = head /\ job[p].todo # {}
    BY DEF Fetch, server
<1>2. job[p] \in Jobs /\ head \in Nat /\ head <= head'
    BY <1>1, AtWork
<1>3. FileInv'
    BY DEF TInv, FileInv, server, disk, history, Fetch
<1>4. CASE Stop(p)
    BY <1>1, <1>2, <1>3, <1>4, LastStays, Stopping
<1>5. CASE job' = [job EXCEPT ![p].body = content[Following(p)]] /\ Goto(p, "write")
    <2>1. content[Following(p)] \in Contents
        BY <1>1, <1>2, FollowingIs DEF TInv, FileInv
    <2>2. j \in Jobs /\ j.at = job[p].at /\ j.kind = job[p].kind /\ j.todo = job[p].todo
        BY <1>2, <2>1, BodyType
    <2>3. job' = [job EXCEPT ![p] = j]
        BY <1>2, <1>5
    <2> HIDE DEF j
    <2>4. pc'[p] = "write" /\ job'[p] = j
        BY <1>5, <2>3, GoesOn
    <2>5. ControlAt(p)'
        BY <1>1, <1>2, <2>2, <2>4 DEF ControlAt, TInv, ProcInv
    <2> QED
        BY <1>1, <1>2, <1>3, <1>5, <2>2, <2>3, <2>5, LastStays, GoingOn DEF Places
<1> QED
    BY <1>4, <1>5 DEF Fetch

LEMMA TypeWrite ==
    ASSUME TInv, NEW p \in Procs, Write(p)
    PROVE  TInv'
<1> DEFINE q == Following(p)
           j == [job[p] EXCEPT !.st.seeded = @ \cup {q}, !.todo = @ \ {q}, !.body = NoData]
<1>1. pc[p] = "write" /\ Goto(p, "fetch") /\ UNCHANGED last /\ head' = head
    BY DEF Write, server
<1>2. job[p] \in Jobs /\ head \in Nat /\ head <= head' /\ Dir[p] \in Dirs
    BY <1>1, AtWork
<1>3. q \in Paths /\ job[p].body \in Contents
    BY <1>1, <1>2, FollowingIs, JobFields DEF TInv, ProcInv, ControlAt
<1>4. FileInv'
    BY <1>2, <1>3 DEF TInv, FileInv, server, Write
<1> HIDE DEF q
<1>5. j \in Jobs /\ j.at = job[p].at /\ j.kind = job[p].kind
    BY <1>2, <1>3, WrittenType
<1>6. job' = [job EXCEPT ![p] = j]
    BY <1>2 DEF Write, q
<1> HIDE DEF j
<1>7. pc'[p] = "fetch" /\ job'[p] = j
    BY <1>1, <1>6, GoesOn
<1>8. ControlAt(p)'
    BY <1>1, <1>2, <1>5, <1>7 DEF ControlAt, TInv, ProcInv
<1> QED
    BY <1>1, <1>2, <1>4, <1>5, <1>6, <1>8, LastStays, GoingOn DEF Places

LEMMA TypeCollect ==
    ASSUME TInv, NEW p \in Procs, Collect(p)
    PROVE  TInv'
<1> DEFINE sent == Walked(p)
           before == job[p].st.sent
           puts == {q \in Paths : sent[q] # NoData /\ sent[q] # before[q]}
           dels == {q \in Paths : before[q] # NoData /\ sent[q] = NoData /\ job[p].rules[q] # "never"}
           j == [job[p] EXCEPT !.puts = puts, !.dels = dels, !.sent = sent]
           l == IF puts \cup dels = {} THEN "conf" ELSE "send"
<1>1. pc[p] = "walk" /\ Goto(p, l) /\ UNCHANGED last /\ head' = head
    BY DEF Collect, server
<1>2. job[p] \in Jobs /\ head \in Nat /\ head <= head' /\ Dir[p] \in Dirs
    BY <1>1, AtWork
<1>3. FileInv'
    BY DEF TInv, FileInv, server, disk, history, Collect
<1>4. job' = [job EXCEPT ![p] = j]
    BY <1>2 DEF Collect
<1>5. sent \in [Paths -> Contents] /\ puts \in SUBSET Paths /\ dels \in SUBSET Paths
    BY <1>2 DEF Walked, TInv, FileInv, Contents
<1> HIDE DEF sent, puts, dels
<1>6. j \in Jobs /\ j.at = job[p].at /\ j.kind = job[p].kind
    BY <1>2, <1>5 DEF Jobs, Contents
<1> HIDE DEF j
<1>7. pc'[p] = l /\ job'[p] = j
    BY <1>1, <1>4, GoesOn
<1>8. ControlAt(p)'
    BY <1>1, <1>2, <1>6, <1>7 DEF ControlAt, TInv, ProcInv
<1>9. l \in Places /\ l # "idle"
    BY DEF Places
<1> HIDE DEF l
<1> QED
    BY <1>1, <1>2, <1>3, <1>4, <1>6, <1>8, <1>9, LastStays, GoingOn

LEMMA TypeRefused ==
    ASSUME TInv, NEW p \in Procs, Refused(p)
    PROVE  TInv'
<1>1. FileInv' /\ head <= head'
    BY DEF TInv, FileInv, server, disk, history, Refused
<1> QED
    BY <1>1, LastStays, Stopping DEF Refused

\* What the server makes of a batch.
LEMMA TypeApply ==
    ASSUME TInv, NEW p \in Procs, Apply(p)
    PROVE  FileInv' /\ head' = head + 1 /\ head <= head' /\ UNCHANGED last
<1>1. job[p] \in Jobs /\ head \in Nat /\ Dir[p] \in Dirs /\ head' = head + 1
    BY AtWork DEF Apply
<1> DEFINE New(c) == [q \in Paths |-> IF q \in job[p].puts THEN job[p].sent[q]
                                      ELSE IF q \in job[p].dels THEN NoData ELSE c[q]]
<1>2. ASSUME NEW c \in [Paths -> Contents] PROVE New(c) \in [Paths -> Contents]
    BY <1>1, JobFields DEF Contents
<1>3. content' = New(content) /\ got' = [got EXCEPT ![Dir[p]] = New(got[Dir[p]])]
    BY DEF Apply
<1> HIDE DEF New
<1>4. content' \in [Paths -> Contents] /\ got' \in [Dirs -> [Paths -> Contents]]
    BY <1>1, <1>2, <1>3 DEF TInv, FileInv
<1>5. conf \in [Dirs -> 0..head'] /\ UNCHANGED <<rules, tree, state, conf, last, skipped, blind>>
    BY <1>1 DEF TInv, FileInv, Apply, disk
<1> QED
    BY <1>1, <1>4, <1>5 DEF TInv, FileInv

LEMMA TypeAccepted ==
    ASSUME TInv, NEW p \in Procs, Accepted(p)
    PROVE  TInv'
<1>1. pc[p] = "send" /\ Goto(p, "conf") /\ Apply(p)
    BY DEF Accepted, Apply
<1>2. job[p] \in Jobs /\ head \in Nat
    BY <1>1, AtWork
<1>3. Noted(job[p]) \in Jobs /\ Noted(job[p]).at = head + 1 /\ Noted(job[p]).kind = job[p].kind
    BY <1>2, NotedType
<1>4. job' = [job EXCEPT ![p] = Noted(job[p])]
    BY DEF Accepted
<1>5. pc'[p] = "conf" /\ job'[p] = Noted(job[p])
    BY <1>1, <1>4, GoesOn
<1>6. FileInv' /\ head' = head + 1 /\ head <= head' /\ UNCHANGED last
    BY <1>1, TypeApply
<1>7. ControlAt(p)'
    BY <1>1, <1>2, <1>3, <1>5, <1>6 DEF ControlAt, TInv, ProcInv
<1> QED
    BY <1>1, <1>3, <1>4, <1>6, <1>7, LastStays, GoingOn DEF Places

LEMMA TypeAnswerLost ==
    ASSUME TInv, NEW p \in Procs, AnswerLost(p)
    PROVE  TInv'
BY TypeApply, LastStays, Stopping DEF AnswerLost

\* A process that changes its place only.
LEMMA Resumes ==
    ASSUME TInv, FileInv', head' = head, NEW p \in Procs, pc[p] # "idle", NEW l \in Places, l # "idle",
           Goto(p, l), UNCHANGED <<job, last>>, pc'[p] = l => ControlAt(p)'
    PROVE  TInv'
<1>1. job[p] \in Jobs /\ head \in Nat /\ head <= head'
    BY AtWork
<1>2. job' = [job EXCEPT ![p] = job[p]]
    BY DEF TInv, ProcInv
<1>3. pc'[p] = l
    BY DEF TInv, ProcInv, Goto
<1> QED
    BY <1>1, <1>2, <1>3, LastStays, GoingOn

LEMMA TypeTruncate ==
    ASSUME TInv, NEW p \in Procs, Truncate(p)
    PROVE  TInv'
<1>1. FileInv' /\ head' = head /\ pc[p] \in {"save", "fetch"} /\ (pc[p] = "fetch" => job[p].todo = {})
    BY DEF TInv, FileInv, server, history, Truncate, Fetched
<1>2. Goto(p, "saving") /\ UNCHANGED <<job, last>>
    BY DEF Truncate
<1>3. pc'[p] = "saving" => ControlAt(p)'
    BY <1>1, <1>2 DEF ControlAt, TInv, ProcInv
<1> QED
    BY <1>1, <1>2, <1>3, Resumes DEF Places

LEMMA TypeStateNotSaved ==
    ASSUME TInv, NEW p \in Procs, StateNotSaved(p)
    PROVE  TInv'
<1>1. FileInv' /\ head' = head /\ pc[p] = "fetch" /\ job[p].todo = {}
    BY DEF TInv, FileInv, server, disk, history, StateNotSaved, Fetched
<1>2. Goto(p, "conf") /\ UNCHANGED <<job, last>>
    BY DEF StateNotSaved
<1>3. pc'[p] = "conf" => ControlAt(p)'
    BY <1>1, <1>2 DEF ControlAt, TInv, ProcInv
<1> QED
    BY <1>1, <1>2, <1>3, Resumes DEF Places

LEMMA TypeSaveState ==
    ASSUME TInv, NEW p \in Procs, SaveState(p)
    PROVE  TInv'
<1>1. pc[p] = "saving" /\ head' = head /\ UNCHANGED last
    BY DEF SaveState, server
<1>2. job[p] \in Jobs /\ head \in Nat /\ head <= head'
    BY <1>1, AtWork
<1>3. job[p].st \in States
    BY <1>2, JobFields
<1>4. FileInv'
    BY <1>3 DEF TInv, FileInv, server, history, SaveState
<1>5. CASE job[p].kind = "push"
    BY <1>1, <1>2, <1>4, <1>5, LastStays, Stopping DEF SaveState
<1>6. CASE job[p].kind # "push"
    <2>1. Goto(p, "conf") /\ UNCHANGED <<job, last>>
        BY <1>1, <1>6 DEF SaveState
    <2>2. pc'[p] = "conf" => ControlAt(p)'
        BY <1>1, <1>6, <2>1 DEF ControlAt, TInv, ProcInv
    <2> QED
        BY <1>1, <1>4, <2>1, <2>2, Resumes DEF Places
<1> QED
    BY <1>5, <1>6

LEMMA TypeSaveConf ==
    ASSUME TInv, NEW p \in Procs, SaveConf(p)
    PROVE  TInv'
<1>1. pc[p] = "conf" /\ head' = head
    BY DEF SaveConf, server
<1>2. job[p] \in Jobs /\ head \in Nat /\ head <= head' /\ Dir[p] \in Dirs
    BY <1>1, AtWork
<1>3. job[p].at \in 0..head /\ job[p].left \in SUBSET Paths
    BY <1>1, <1>2, JobFields DEF TInv, ProcInv, ControlAt
<1>4. conf' \in [Dirs -> 0..head]
    BY <1>2, <1>3 DEF TInv, FileInv, SaveConf
<1>5. skipped' \in [Dirs -> SUBSET Paths] /\ blind' \in [Dirs -> BOOLEAN]
    BY <1>2, <1>3 DEF TInv, FileInv, SaveConf
<1>6. FileInv'
    BY <1>1, <1>4, <1>5 DEF TInv, FileInv, server, SaveConf
<1>7. last' \in [Procs -> 0..head'] /\ \A o \in Procs \ {p} : last'[o] = last[o]
    BY <1>1, <1>2, <1>3 DEF TInv, ProcInv, SaveConf
<1>8. CASE job[p].kind = "push"
    <2>1. Goto(p, "save") /\ job' = [job EXCEPT ![p] = job[p]]
        BY <1>8 DEF SaveConf, TInv, ProcInv
    <2>2. pc'[p] = "save" /\ job'[p] = job[p]
        BY <2>1, GoesOn
    <2>3. ControlAt(p)'
        BY <1>1, <1>8, <2>2 DEF ControlAt, TInv, ProcInv
    <2> QED
        BY <1>2, <1>6, <1>7, <2>1, <2>3, GoingOn DEF Places
<1>9. CASE job[p].kind # "push"
    BY <1>2, <1>6, <1>7, <1>9, Stopping DEF SaveConf
<1> QED
    BY <1>8, <1>9

LEMMA TypeKill ==
    ASSUME TInv, NEW p \in Procs, Kill(p)
    PROVE  TInv'
<1>1. FileInv' /\ head' = head /\ head \in Nat /\ Dir[p] \in Dirs
    BY SyncClientAssumption DEF TInv, FileInv, server, disk, history, Kill
<1>2. last' \in [Procs -> 0..head'] /\ \A o \in Procs \ {p} : last'[o] = last[o]
    BY <1>1 DEF TInv, FileInv, ProcInv, Kill
<1> QED
    BY <1>1, <1>2, Stopping DEF Kill

LEMMA TypeRestart ==
    ASSUME TInv, NEW p \in Procs, Restart(p)
    PROVE  TInv'
<1>1. FileInv' /\ head' = head /\ head \in Nat /\ Dir[p] \in Dirs
    BY SyncClientAssumption DEF TInv, FileInv, server, disk, history, Restart
<1>2. last' \in [Procs -> 0..head'] /\ \A o \in Procs \ {p} : last'[o] = last[o]
    BY <1>1 DEF TInv, FileInv, ProcInv, Restart
<1>3. Moved(p)
    BY <1>2 DEF Moved, TInv, ProcInv, Restart
<1>4. ControlAt(p)'
    BY DEF ControlAt, Restart
<1> QED
    BY <1>1, <1>3, <1>4, ProcMoves DEF TInv

\* So TInv is inductive.
LEMMA StepTInv == TInv /\ [Next]_vars => TInv'
<1> SUFFICES ASSUME TInv, [Next]_vars PROVE TInv'
    OBVIOUS
<1>1. CASE UNCHANGED vars
    BY <1>1 DEF TInv, FileInv, ProcInv, ControlAt, vars, server, disk, process, history
<1>2. ASSUME NEW p \in Procs, Working(p) PROVE TInv'
    BY <1>2, TypePoll, TypeList, TypeFetch, TypeWrite, TypeCollect, TypeRefused, TypeAccepted,
       TypeTruncate, TypeSaveState, TypeSaveConf DEF Working
<1> QED
    BY <1>1, <1>2, TypeEdit, TypeElsewhere, TypeSetRule, TypeStartPull, TypeStartPush,
       TypeStateNotSaved, TypeAnswerLost, TypeKill, TypeRestart DEF Next

\* Every variable keeps its type, and a process has a job exactly while it works: no command or
\* daemon of client.go, cli/client.go and daemon.go ends with a call half done or works without one.
THEOREM TypeCorrect == Spec => []TypeOK
<1>1. TInv => TypeOK
    BY TypesHold
<1> QED
    BY <1>1, InitTInv, StepTInv, PTL DEF Spec

-----------------------------------------------------------------------------
(* What is recorded as sent has arrived *)

LEMMA InitSent == Init => SentInv
<1> SUFFICES ASSUME Init PROVE SentInv
    OBVIOUS
<1>1. Held(NoDocs) = {}
    BY DEF Held, NoDocs
<1>2. ASSUME NEW d \in Dirs PROVE state[d].sent = NoDocs
    BY DEF Init, EmptyState
<1> QED
    BY <1>1, <1>2 DEF SentInv, SentArrived, SentAt, Init

\* A step of one process, the batches that arrived staying.
LEMMA SentMoves ==
    ASSUME SentInv, NEW p \in Procs, arrived \subseteq arrived', SentAt(p)',
           \A o \in Procs \ {p} : pc'[o] = pc[o] /\ job'[o] = job[o],
           \A d \in Dirs : state'[d] \in {state[d], Torn} \/ Arrived(state'[d].sent)
    PROVE  SentInv'
<1>1. ASSUME NEW o \in Procs, o # p PROVE SentAt(o)'
    BY <1>1 DEF SentInv, SentAt, Arrived
<1>2. SentArrived'
    BY DEF SentInv, SentArrived, Arrived
<1> QED
    BY <1>1, <1>2 DEF SentInv

\* A step of others.
LEMMA SentStays ==
    ASSUME SentInv, arrived \subseteq arrived', UNCHANGED <<pc, job, state>>
    PROVE  SentInv'
BY DEF SentInv, SentAt, SentArrived, Arrived

\* A process that goes on, or stops, without touching what was sent.
LEMMA SentGoesOn ==
    ASSUME TInv, SentInv, NEW p \in Procs, NEW l, Goto(p, l), l # "send", UNCHANGED <<state, arrived>>,
           NEW j, job' = [job EXCEPT ![p] = j],
           l = "idle" \/ (pc[p] # "idle" /\ j.st.sent = job[p].st.sent)
    PROVE  SentInv'
<1>1. pc'[p] = l /\ job'[p] = j
    BY GoesOn
<1>2. SentAt(p)'
    BY <1>1 DEF SentInv, SentAt, Arrived
<1>3. \A o \in Procs \ {p} : pc'[o] = pc[o] /\ job'[o] = job[o]
    BY DEF Goto, TInv, ProcInv
<1> QED
    BY <1>2, <1>3, SentMoves

LEMMA SentStops ==
    ASSUME TInv, SentInv, NEW p \in Procs, Stop(p), state' = state, arrived \subseteq arrived'
    PROVE  SentInv'
<1>1. \A o \in Procs \ {p} : pc'[o] = pc[o] /\ job'[o] = job[o]
    BY DEF Stop, Goto, TInv, ProcInv
<1>2. pc'[p] = "idle"
    BY DEF Stop, Goto, TInv, ProcInv
<1>3. SentAt(p)'
    BY <1>2 DEF SentAt
<1> QED
    BY <1>1, <1>3, SentMoves

LEMMA SentStarts ==
    ASSUME TInv, SentInv, NEW p \in Procs, NEW l, l \in {"list", "walk"}, Goto(p, l), Readable(p),
           UNCHANGED <<state, arrived>>, NEW kind, NEW at, job' = [job EXCEPT ![p] = Loaded(p, kind, at)]
    PROVE  SentInv'
<1> DEFINE j == Loaded(p, kind, at)
<1>1. j.st = state[Dir[p]]
    BY DEF Loaded
<1> HIDE DEF j
<1>2. pc'[p] = l /\ job'[p] = j
    BY GoesOn DEF j
<1>3. Arrived(j.st.sent)
    BY <1>1, SyncClientAssumption DEF SentInv, SentArrived, Readable, Arrived
<1>4. SentAt(p)'
    BY <1>2, <1>3 DEF SentAt, Arrived
<1>5. \A o \in Procs \ {p} : pc'[o] = pc[o] /\ job'[o] = job[o]
    BY DEF Goto, TInv, ProcInv
<1> QED
    BY <1>4, <1>5, SentMoves

LEMMA SentFetch ==
    ASSUME TInv, SentInv, NEW p \in Procs, Fetch(p)
    PROVE  SentInv'
<1>1. job[p] \in Jobs
    BY AtWork DEF Fetch
<1>2. pc[p] = "fetch" /\ UNCHANGED <<state, arrived>>
    BY DEF Fetch, disk, history
<1>3. CASE Stop(p)
    BY <1>2, <1>3, SentStops
<1>4. CASE job' = [job EXCEPT ![p].body = content[Following(p)]] /\ Goto(p, "write")
    <2> DEFINE j == [job[p] EXCEPT !.body = content[Following(p)]]
    <2>1. job' = [job EXCEPT ![p] = j] /\ j.st = job[p].st
        BY <1>1, <1>4 DEF Jobs
    <2> HIDE DEF j
    <2> QED
        BY <1>2, <1>4, <2>1, SentGoesOn
<1> QED
    BY <1>3, <1>4 DEF Fetch

LEMMA SentList ==
    ASSUME TInv, SentInv, NEW p \in Procs, List(p)
    PROVE  SentInv'
<1> DEFINE left == {q \in Paths : Skips(job[p], q)}
           j == [job[p] EXCEPT !.at = head, !.todo = Listing(last[p]) \ left, !.left = left]
<1>1. job[p] \in Jobs
    BY AtWork DEF List
<1>2. pc[p] = "list" /\ Goto(p, "fetch") /\ UNCHANGED <<state, arrived>>
    BY DEF List, disk, history
<1>3. job' = [job EXCEPT ![p] = j]
    BY <1>1 DEF List
<1>4. j.st = job[p].st
    BY <1>1 DEF Jobs
<1> HIDE DEF j
<1> QED
    BY <1>2, <1>3, <1>4, SentGoesOn

LEMMA SentWrite ==
    ASSUME TInv, SentInv, NEW p \in Procs, Write(p)
    PROVE  SentInv'
<1> DEFINE q == Following(p)
           j == [job[p] EXCEPT !.st.seeded = @ \cup {q}, !.todo = @ \ {q}, !.body = NoData]
<1>1. pc[p] = "write" /\ Goto(p, "fetch") /\ UNCHANGED <<state, arrived>>
    BY DEF Write
<1>2. job[p] \in Jobs
    BY <1>1, AtWork
<1>3. q \in Paths
    BY <1>1, <1>2, FollowingIs DEF TInv, ProcInv, ControlAt
<1>4. job' = [job EXCEPT ![p] = j]
    BY <1>2 DEF Write
<1> HIDE DEF q
<1>5. j.st.sent = job[p].st.sent
    BY <1>2, <1>3, WrittenType
<1> HIDE DEF j
<1> QED
    BY <1>1, <1>4, <1>5, SentGoesOn

LEMMA SentCollect ==
    ASSUME TInv, SentInv, NEW p \in Procs, Collect(p)
    PROVE  SentInv'
<1> DEFINE sent == Walked(p)
           before == job[p].st.sent
           puts == {q \in Paths : sent[q] # NoData /\ sent[q] # before[q]}
           dels == {q \in Paths : before[q] # NoData /\ sent[q] = NoData /\ job[p].rules[q] # "never"}
           j == [job[p] EXCEPT !.puts = puts, !.dels = dels, !.sent = sent]
           l == IF puts \cup dels = {} THEN "conf" ELSE "send"
<1>1. pc[p] = "walk" /\ Goto(p, l) /\ UNCHANGED <<state, arrived>>
    BY DEF Collect, disk, history
<1>2. job[p] \in Jobs /\ Dir[p] \in Dirs
    BY <1>1, AtWork
<1>3. job' = [job EXCEPT ![p] = j]
    BY <1>2 DEF Collect
<1>4. \A q \in Paths : sent[q] # NoData => q \in puts \/ sent[q] = before[q]
    OBVIOUS
<1>5. sent \in [Paths -> Contents] /\ puts \in SUBSET Paths /\ dels \in SUBSET Paths
    BY <1>2 DEF Walked, TInv, FileInv, Contents
<1> HIDE DEF sent, puts, dels
<1>6. j.puts = puts /\ j.sent = sent /\ j.st = job[p].st
    BY <1>2, <1>5 DEF Jobs
<1> HIDE DEF j, l
<1>7. pc'[p] = l /\ job'[p] = j
    BY <1>1, <1>3, GoesOn
<1>8. SentAt(p)'
    BY <1>1, <1>4, <1>6, <1>7 DEF SentInv, SentAt, Arrived
<1>9. \A o \in Procs \ {p} : pc'[o] = pc[o] /\ job'[o] = job[o]
    BY <1>1, <1>3 DEF Goto, TInv, ProcInv
<1> QED
    BY <1>1, <1>8, <1>9, SentMoves

LEMMA SentAccepted ==
    ASSUME TInv, SentInv, NEW p \in Procs, Accepted(p)
    PROVE  SentInv'
<1>1. pc[p] = "send" /\ Goto(p, "conf") /\ state' = state
    BY DEF Accepted, Apply, disk
<1>2. job[p] \in Jobs /\ head \in Nat
    BY <1>1, AtWork
<1>3. job' = [job EXCEPT ![p] = Noted(job[p])] /\ Noted(job[p]).st.sent = job[p].sent
    BY <1>2, NotedType DEF Accepted
<1>4. pc'[p] = "conf" /\ job'[p] = Noted(job[p])
    BY <1>1, <1>3, GoesOn
<1>5. arrived' = arrived \cup Held(content')
    BY DEF Accepted, Apply
<1>6. ASSUME NEW q \in Paths, job[p].sent[q] # NoData
      PROVE  <<q, job[p].sent[q]>> \in arrived'
    <2>1. CASE q \in job[p].puts
        <3>1. content'[q] = job[p].sent[q]
            BY <2>1 DEF Accepted, Apply
        <3> QED
            BY <1>5, <1>6, <3>1 DEF Held
    <2>2. CASE job[p].sent[q] = job[p].st.sent[q]
        <3>1. Held(job[p].st.sent) \subseteq arrived
            BY <1>1 DEF SentInv, SentAt, Arrived
        <3>2. <<q, job[p].st.sent[q]>> \in Held(job[p].st.sent)
            BY <1>6, <2>2 DEF Held
        <3> QED
            BY <1>5, <2>2, <3>1, <3>2
    <2> QED
        BY <1>1, <1>6, <2>1, <2>2 DEF SentInv, SentAt
<1>7. Held(job[p].sent) \subseteq arrived'
    BY <1>6 DEF Held
<1>8. SentAt(p)'
    BY <1>3, <1>4, <1>7 DEF SentAt, Arrived
<1>9. \A o \in Procs \ {p} : pc'[o] = pc[o] /\ job'[o] = job[o]
    BY <1>1, <1>3 DEF Goto, TInv, ProcInv
<1> QED
    BY <1>1, <1>5, <1>8, <1>9, SentMoves

\* The steps that save, or fail to save, the two files.
LEMMA SentSaving ==
    ASSUME TInv, SentInv, NEW p \in Procs,
           Truncate(p) \/ SaveState(p) \/ SaveConf(p) \/ StateNotSaved(p)
    PROVE  SentInv'
<1>1. pc[p] # "idle" /\ arrived' = arrived
    BY DEF Truncate, Fetched, SaveState, SaveConf, StateNotSaved, history
<1>2. pc'[p] # "send" /\ (pc'[p] # "idle" => job'[p] = job[p])
    BY DEF Truncate, SaveState, SaveConf, StateNotSaved, Stop, Goto, TInv, ProcInv
<1>3. SentAt(p)'
    BY <1>1, <1>2 DEF SentInv, SentAt, Arrived
<1>4. \A o \in Procs \ {p} : pc'[o] = pc[o] /\ job'[o] = job[o]
    BY DEF Truncate, SaveState, SaveConf, StateNotSaved, Stop, Goto, TInv, ProcInv
<1>5. ASSUME NEW d \in Dirs PROVE state'[d] \in {state[d], Torn} \/ Arrived(state'[d].sent)
    <2>1. state'[d] \in {state[d], Torn, job[p].st}
        BY SyncClientAssumption DEF Truncate, SaveState, SaveConf, StateNotSaved, TInv, FileInv, disk
    <2>2. Arrived(job[p].st.sent)
        BY <1>1 DEF SentInv, SentAt
    <2> QED
        BY <2>1, <2>2
<1> QED
    BY <1>1, <1>3, <1>4, <1>5, SentMoves

LEMMA StepSent == TInv /\ SentInv /\ [Next]_vars => SentInv'
<1> SUFFICES ASSUME TInv, SentInv, [Next]_vars PROVE SentInv'
    OBVIOUS
<1>1. CASE UNCHANGED vars
    BY <1>1, SentStays DEF vars, disk, process, history
<1>2. ASSUME NEW d \in Dirs, NEW q \in Paths, NEW c \in Contents, Edit(d, q, c) PROVE SentInv'
    BY <1>2, SentStays DEF Edit, disk, process, history
<1>3. ASSUME NEW q \in Paths, NEW c \in Contents, Elsewhere(q, c) PROVE SentInv'
    BY <1>3, SentStays DEF Elsewhere, disk, process, history
<1>4. ASSUME NEW q \in Paths, NEW m \in Modes, SetRule(q, m) PROVE SentInv'
    BY <1>4, SentStays DEF SetRule, disk, process, history
<1>5. ASSUME NEW p \in Procs, StartPull(p) \/ StartPush(p) \/ Poll(p) PROVE SentInv'
    <2>1. Readable(p) /\ UNCHANGED <<state, arrived>>
        BY <1>5 DEF StartPull, StartPush, Poll, disk, history
    <2> QED
        BY <1>5, <2>1, SentStarts DEF StartPull, StartPush, Poll
<1>6. ASSUME NEW p \in Procs, Refused(p) \/ AnswerLost(p) \/ Kill(p) PROVE SentInv'
    BY <1>6, SentStops DEF Refused, AnswerLost, Apply, Kill, disk, history
<1>7. ASSUME NEW p \in Procs, Restart(p) PROVE SentInv'
    BY <1>7, SentStays DEF Restart, disk, history
<1>8. ASSUME NEW p \in Procs, Working(p) PROVE SentInv'
    BY <1>5, <1>6, <1>8, SentList, SentFetch, SentWrite, SentCollect, SentAccepted, SentSaving
       DEF Working
<1> QED
    BY <1>1, <1>2, <1>3, <1>4, <1>5, <1>6, <1>7, <1>8, SentSaving DEF Next, Contents

\* What a directory's state records as sent did reach the server once, whatever was lost,
\* torn or killed in between (client.go saves it after the answer), in every order of the steps
\* of any number of processes.
THEOREM SentHasArrived == Spec => []SentArrived
<1>1. SentInv => SentArrived
    BY DEF SentInv
<1> QED
    BY <1>1, InitTInv, InitSent, StepTInv, StepSent, PTL DEF Spec

-----------------------------------------------------------------------------
(* The head a directory knows stands for the content it has had *)

\* Processes start on their own, and nobody starts while they are at it.
LEMMA TurnsKept ==
    ASSUME TakeTurns, NEW p \in Procs, \A o \in Procs \ {p} : pc'[o] = pc[o],
           pc'[p] # "idle" => OnTurn(p)
    PROVE  TakeTurns'
BY DEF TakeTurns, OnTurn

LEMMA StepTurns ==
    ASSUME Together = FALSE, TInv, TakeTurns, [Next]_vars
    PROVE  TakeTurns'
<1>1. CASE UNCHANGED pc
    BY <1>1 DEF TakeTurns, OnTurn
<1>2. ASSUME NEW p \in Procs, StartPull(p) \/ StartPush(p) \/ Poll(p) PROVE TakeTurns'
    BY <1>2, TurnsKept DEF StartPull, StartPush, Poll, Alone, OnTurn, Goto, TInv, ProcInv
<1>3. ASSUME NEW p \in Procs, pc[p] # "idle", NEW l, Goto(p, l) PROVE TakeTurns'
    BY <1>3, TurnsKept DEF TakeTurns, Goto, TInv, ProcInv
<1>4. ASSUME NEW p \in Procs, List(p) \/ Fetch(p) \/ Write(p) \/ Truncate(p) \/ SaveState(p)
                              \/ SaveConf(p) \/ StateNotSaved(p) \/ Kill(p)
      PROVE  TakeTurns'
    BY <1>3, <1>4 DEF List, Fetch, Write, Truncate, Fetched, SaveState, SaveConf, StateNotSaved,
                      Kill, Stop
<1>5. ASSUME NEW p \in Procs, Collect(p) \/ Refused(p) \/ Accepted(p) \/ AnswerLost(p)
      PROVE  TakeTurns'
    BY <1>3, <1>5 DEF Collect, Refused, Accepted, AnswerLost, Apply, Stop
<1>6. CASE Next
    <2>1. ASSUME NEW p \in Procs, Restart(p) PROVE UNCHANGED pc
        BY <2>1 DEF Restart
    <2>2. ASSUME NEW d \in Dirs, NEW q \in Paths, NEW c \in Contents, Edit(d, q, c) PROVE UNCHANGED pc
        BY <2>2 DEF Edit, process
    <2>3. ASSUME NEW q \in Paths, NEW c \in Contents, Elsewhere(q, c) PROVE UNCHANGED pc
        BY <2>3 DEF Elsewhere, process
    <2>4. ASSUME NEW q \in Paths, NEW m \in Modes, SetRule(q, m) PROVE UNCHANGED pc
        BY <2>4 DEF SetRule, process
    <2> QED
        BY <1>1, <1>2, <1>4, <1>5, <1>6, <2>1, <2>2, <2>3, <2>4 DEF Next, Working, Contents
<1> QED
    BY <1>1, <1>6 DEF vars, process

LEMMA InitHead == Init => TakeTurns /\ HeadInv
<1> SUFFICES ASSUME Init PROVE TakeTurns /\ HeadInv
    OBVIOUS
<1>1. \A p \in Procs : pc[p] = "idle"
    BY DEF Init
<1>2. \A d \in Dirs : conf[d] # head
    BY DEF Init
<1> QED
    BY <1>1, <1>2 DEF TakeTurns, HeadInv, DirHas, WorkAt

\* What a process knows is its own, its directory's and the server's.
LEMMA WorkStays ==
    ASSUME NEW o \in Procs, WorkAt(o), UNCHANGED <<content, head>>,
           pc'[o] = pc[o], job'[o] = job[o], last'[o] = last[o], conf'[Dir[o]] = conf[Dir[o]],
           got'[Dir[o]] = got[Dir[o]], skipped'[Dir[o]] = skipped[Dir[o]], blind'[Dir[o]] = blind[Dir[o]]
    PROVE  WorkAt(o)'
<1>1. Following(o)' = Following(o)
    BY DEF Following
<1> QED
    BY <1>1 DEF WorkAt, PullAt, PushAt, HasAllBut

\* A step of one process, on its turn and in its own directory, the server staying.
LEMMA HeadStep ==
    ASSUME HeadInv, NEW p \in Procs, OnTurn(p), UNCHANGED <<content, head>>,
           \A o \in Procs \ {p} : pc'[o] = pc[o] /\ job'[o] = job[o] /\ last'[o] = last[o],
           \A d \in Dirs \ {Dir[p]} : /\ conf'[d] = conf[d] /\ got'[d] = got[d]
                                      /\ skipped'[d] = skipped[d] /\ blind'[d] = blind[d],
           WorkAt(p)', DirHas(Dir[p])'
    PROVE  HeadInv'
<1>1. ASSUME NEW o \in Procs, o # p PROVE WorkAt(o)'
    <2>1. CASE Dir[o] = Dir[p]
        BY <1>1, <2>1 DEF OnTurn, WorkAt
    <2>2. CASE Dir[o] # Dir[p]
        <3>1. Dir[o] \in Dirs \ {Dir[p]}
            BY <2>2, SyncClientAssumption
        <3> QED
            BY <1>1, <3>1, WorkStays DEF HeadInv
    <2> QED
        BY <2>1, <2>2
<1>2. ASSUME NEW d \in Dirs, d # Dir[p] PROVE DirHas(d)'
    BY <1>2 DEF HeadInv, DirHas, HasAllBut
<1> QED
    BY <1>1, <1>2 DEF HeadInv

\* The directory stays as it was: the process only goes on.
LEMMA HeadGoesOn ==
    ASSUME TInv, HeadInv, NEW p \in Procs, OnTurn(p), UNCHANGED <<content, head, conf, got, skipped, blind>>,
           NEW l, Goto(p, l), NEW j, job' = [job EXCEPT ![p] = j],
           \A o \in Procs \ {p} : last'[o] = last[o],
           pc'[p] = l /\ job'[p] = j => WorkAt(p)'
    PROVE  HeadInv'
<1>1. \A o \in Procs \ {p} : pc'[o] = pc[o] /\ job'[o] = job[o] /\ last'[o] = last[o]
    BY DEF Goto, TInv, ProcInv
<1>2. WorkAt(p)'
    BY GoesOn
<1>3. DirHas(Dir[p])'
    BY SyncClientAssumption DEF HeadInv, DirHas, HasAllBut
<1> QED
    BY <1>1, <1>2, <1>3, HeadStep

LEMMA HeadStops ==
    ASSUME TInv, HeadInv, NEW p \in Procs, OnTurn(p), UNCHANGED <<content, head, conf, got, skipped, blind>>,
           Stop(p), \A o \in Procs \ {p} : last'[o] = last[o]
    PROVE  HeadInv'
BY HeadGoesOn DEF Stop, WorkAt

\* The head moves on: every directory and every call under way is behind it.
LEMMA HeadMoves ==
    ASSUME TInv, head' = head + 1, conf' = conf, NEW o \in Procs, WorkAt(o),
           pc'[o] = pc[o], job'[o] = job[o], last'[o] = last[o]
    PROVE  WorkAt(o)'
<1>1. pc[o] # "idle" => job[o] \in Jobs /\ job[o].at <= head
    BY DEF TInv, ProcInv, ControlAt
<1>2. head \in Nat /\ last[o] \in 0..head
    BY DEF TInv, FileInv, ProcInv
<1>3. job[o] \in Jobs => job[o].at \in Nat
    BY JobFields
<1> QED
    BY <1>1, <1>2, <1>3 DEF WorkAt, PullAt, PushAt

LEMMA BehindHead ==
    ASSUME TInv, head' = head + 1, conf' = conf
    PROVE  \A d \in Dirs : DirHas(d)'
BY DEF TInv, FileInv, DirHas

LEMMA HeadElsewhere ==
    ASSUME TInv, HeadInv, NEW q \in Paths, NEW c \in Contents, Elsewhere(q, c)
    PROVE  HeadInv'
<1>1. head' = head + 1 /\ conf' = conf /\ UNCHANGED <<pc, job, last>>
    BY DEF Elsewhere, disk, process
<1> QED
    BY <1>1, HeadMoves, BehindHead DEF HeadInv

LEMMA HeadStart ==
    ASSUME TInv, HeadInv, NEW p \in Procs, OnTurn(p), StartPull(p) \/ Poll(p)
    PROVE  HeadInv'
<1> DEFINE kind == IF p \in Daemons THEN "poll" ELSE "pull"
           j == Loaded(p, kind, 0)
<1>1. Goto(p, "list") /\ job' = [job EXCEPT ![p] = j]
    BY DEF StartPull, Poll
<1>2. UNCHANGED <<content, head, conf, got, skipped, blind>> /\ \A o \in Procs \ {p} : last'[o] = last[o]
    BY DEF StartPull, Poll, server, disk, history, TInv, ProcInv
<1>3. IF p \in Daemons THEN last'[p] < head ELSE last'[p] = conf[Dir[p]]
    <2>1. CASE StartPull(p)
        BY <2>1 DEF StartPull, TInv, ProcInv
    <2>2. CASE Poll(p)
        <3>1. p \in Daemons /\ last' = last /\ head # last[p] /\ head \in Nat /\ last[p] \in 0..head
            BY <2>2 DEF Poll, TInv, FileInv, ProcInv
        <3> QED
            BY <3>1
    <2> QED
        BY <2>1, <2>2
<1>4. j.kind # "push"
    BY DEF Loaded
<1> HIDE DEF j
<1>5. pc'[p] = "list" /\ job'[p] = j => WorkAt(p)'
    BY <1>2, <1>3, <1>4 DEF WorkAt, PullAt
<1> QED
    BY <1>1, <1>2, <1>5, HeadGoesOn

LEMMA HeadStartPush ==
    ASSUME TInv, HeadInv, NEW p \in Procs, OnTurn(p), StartPush(p)
    PROVE  HeadInv'
<1> DEFINE j == Loaded(p, "push", Expected(Dir[p]))
<1>1. Goto(p, "walk") /\ job' = [job EXCEPT ![p] = j] /\ UNCHANGED last
    BY DEF StartPush
<1>2. Dir[p] \in Dirs /\ UNCHANGED <<content, head, conf, got, skipped>>
    BY SyncClientAssumption DEF StartPush, server, disk
<1>3. blind' = [blind EXCEPT ![Dir[p]] = @ \/ conf[Dir[p]] = 0] /\ blind \in [Dirs -> BOOLEAN]
    BY DEF StartPush, TInv, FileInv
<1>4. j.kind = "push" /\ j.at = Expected(Dir[p])
    BY DEF Loaded
<1> HIDE DEF j
<1>5. pc'[p] = "walk" /\ job'[p] = j
    BY <1>1, GoesOn
<1>6. ~blind'[Dir[p]] => ~blind[Dir[p]] /\ conf[Dir[p]] # 0
    BY <1>2, <1>3
<1>7. DirHas(Dir[p])'
    BY <1>2, <1>6 DEF HeadInv, DirHas, HasAllBut
<1>8. WorkAt(p)'
    BY <1>2, <1>4, <1>5, <1>6 DEF HeadInv, DirHas, HasAllBut, WorkAt, PushAt, Expected
<1>9. \A o \in Procs \ {p} : pc'[o] = pc[o] /\ job'[o] = job[o] /\ last'[o] = last[o]
    BY <1>1 DEF Goto, TInv, ProcInv
<1>10. \A d \in Dirs \ {Dir[p]} : blind'[d] = blind[d]
    BY <1>3
<1> QED
    BY <1>2, <1>7, <1>8, <1>9, <1>10, HeadStep

LEMMA HeadList ==
    ASSUME TInv, HeadInv, NEW p \in Procs, OnTurn(p), List(p)
    PROVE  HeadInv'
<1> DEFINE left == {q \in Paths : Skips(job[p], q)}
           j == [job[p] EXCEPT !.at = head, !.todo = Listing(last[p]) \ left, !.left = left]
<1>1. pc[p] = "list" /\ Goto(p, "fetch") /\ UNCHANGED <<last, content, head, conf, got, skipped, blind>>
    BY DEF List, server, disk, history
<1>2. job[p] \in Jobs /\ Dir[p] \in Dirs
    BY <1>1, AtWork
<1>3. job' = [job EXCEPT ![p] = j]
    BY <1>2 DEF List
<1>4. j.at = head /\ j.kind = job[p].kind /\ j.left = left /\ j.todo = Listing(last[p]) \ left
    <2> HIDE DEF left
    <2> QED
        BY <1>2 DEF Jobs
<1>5. last[p] # head => HasAllBut(Dir[p], j.left \cup j.todo)
    BY <1>4 DEF HasAllBut, Listing
<1> HIDE DEF left, j
<1>6. job[p].kind \in {"pull", "poll"} /\ WorkAt(p) /\ conf[Dir[p]] <= head
    BY <1>1, <1>2 DEF HeadInv, TInv, FileInv, ProcInv, ControlAt
<1>7. pc'[p] = "fetch" /\ job'[p] = j => WorkAt(p)'
    BY <1>1, <1>4, <1>5, <1>6 DEF WorkAt, PullAt, HasAllBut
<1> QED
    BY <1>1, <1>3, <1>7, HeadGoesOn

LEMMA HeadFetch ==
    ASSUME TInv, HeadInv, NEW p \in Procs, OnTurn(p), Fetch(p)
    PROVE  HeadInv'
<1>1. pc[p] = "fetch" /\ UNCHANGED <<last, content, head, conf, got, skipped, blind>> /\ job[p].todo # {}
    BY DEF Fetch, server, disk, history
<1>2. job[p] \in Jobs
    BY <1>1, AtWork
<1>3. CASE Stop(p)
    BY <1>1, <1>3, HeadStops
<1>4. CASE job' = [job EXCEPT ![p].body = content[Following(p)]] /\ Goto(p, "write")
    <2> DEFINE j == [job[p] EXCEPT !.body = content[Following(p)]]
    <2>1. content[Following(p)] \in Contents
        BY <1>1, <1>2, FollowingIs DEF TInv, FileInv
    <2>2. /\ j.body = content[Following(p)] /\ j.at = job[p].at /\ j.kind = job[p].kind
          /\ j.todo = job[p].todo /\ j.left = job[p].left
        BY <1>2, <2>1, BodyType
    <2>3. job' = [job EXCEPT ![p] = j]
        BY <1>2, <1>4
    <2> HIDE DEF j
    <2>4. job'[p] = j => Following(p)' = Following(p)
        BY <2>2 DEF Following
    <2>5. job[p].kind # "push" /\ WorkAt(p)
        BY <1>1 DEF HeadInv, TInv, ProcInv, ControlAt
    <2>6. pc'[p] = "write" /\ job'[p] = j => WorkAt(p)'
        BY <1>1, <2>2, <2>4, <2>5 DEF WorkAt, PullAt, HasAllBut
    <2> QED
        BY <1>1, <1>4, <2>3, <2>6, HeadGoesOn
<1> QED
    BY <1>3, <1>4 DEF Fetch

LEMMA HeadWrite ==
    ASSUME TInv, HeadInv, NEW p \in Procs, OnTurn(p), Write(p)
    PROVE  HeadInv'
<1> DEFINE q == Following(p)
           d == Dir[p]
           j == [job[p] EXCEPT !.st.seeded = @ \cup {q}, !.todo = @ \ {q}, !.body = NoData]
<1>1. pc[p] = "write" /\ Goto(p, "fetch") /\ UNCHANGED <<last, content, head, conf, skipped, blind>>
    BY DEF Write, server
<1>2. job[p] \in Jobs /\ d \in Dirs /\ head \in Nat
    BY <1>1, AtWork
<1>3. q \in Paths
    BY <1>1, <1>2, FollowingIs DEF TInv, ProcInv, ControlAt
<1>4. job' = [job EXCEPT ![p] = j]
    BY <1>2 DEF Write
<1>5. got' = [got EXCEPT ![d] = [got[d] EXCEPT ![q] = job[p].body]] /\ got \in [Dirs -> [Paths -> Contents]]
    BY DEF Write, TInv, FileInv
<1>6. job[p].kind # "push" /\ PullAt(p)
    BY <1>1 DEF HeadInv, TInv, ProcInv, ControlAt, WorkAt
<1>7. job[p].at = head => job[p].body = content[q]
    BY <1>1, <1>6 DEF PullAt
<1> HIDE DEF q
<1>8. j.at = job[p].at /\ j.kind = job[p].kind /\ j.todo = job[p].todo \ {q} /\ j.left = job[p].left
    BY <1>2, <1>3, WrittenType
<1> HIDE DEF j
<1>9. pc'[p] = "fetch" /\ job'[p] = j
    BY <1>1, <1>4, GoesOn
<1>10. got'[d] = [got[d] EXCEPT ![q] = job[p].body] /\ got[d] \in [Paths -> Contents]
    BY <1>2, <1>5
<1>11. ASSUME NEW S \in SUBSET Paths, NEW R, HasAllBut(d, S), S \subseteq R \cup {q}, job[p].at = head
       PROVE  HasAllBut(d, R)'
    BY <1>1, <1>3, <1>7, <1>10, <1>11 DEF HasAllBut
<1>12. job[p].at \in Nat /\ job[p].at <= head /\ conf[d] \in Nat /\ conf[d] <= head
    BY <1>1, <1>2, JobFields DEF TInv, FileInv, ProcInv, ControlAt
<1>13. WorkAt(p)'
    <2>1. last[p] # job[p].at /\ job[p].at = head => HasAllBut(d, job[p].left \cup job[p].todo)'
        <3>1. job[p].left \cup job[p].todo \in SUBSET Paths
            BY <1>2, JobFields
        <3>2. job[p].left \cup job[p].todo \subseteq (job'[p].left \cup job'[p].todo) \cup {q}
            BY <1>8, <1>9
        <3>3. last[p] # job[p].at /\ job[p].at = head => HasAllBut(d, job[p].left \cup job[p].todo)
            BY <1>1, <1>6 DEF PullAt
        <3> QED
            BY <1>11, <3>1, <3>2, <3>3 DEF HasAllBut
    <2> QED
        BY <1>1, <1>6, <1>8, <1>9, <2>1 DEF WorkAt, PullAt
<1>14. DirHas(d)'
    <2>1. conf[d] = head => job[p].at = head
        BY <1>1, <1>6, <1>12 DEF PullAt
    <2>2. skipped[d] \in SUBSET Paths
        BY <1>2 DEF TInv, FileInv
    <2>3. conf[d] = head /\ ~blind[d] => HasAllBut(d, skipped[d])'
        BY <1>1, <1>2, <1>11, <2>1, <2>2 DEF HeadInv, DirHas
    <2> QED
        BY <1>1, <2>3 DEF DirHas
<1>15. \A o \in Procs \ {p} : pc'[o] = pc[o] /\ job'[o] = job[o] /\ last'[o] = last[o]
    BY <1>1, <1>4 DEF Goto, TInv, ProcInv
<1>16. \A e \in Dirs \ {d} : got'[e] = got[e]
    BY <1>5
<1> QED
    BY <1>1, <1>13, <1>14, <1>15, <1>16, HeadStep

LEMMA HeadCollect ==
    ASSUME TInv, HeadInv, NEW p \in Procs, OnTurn(p), Collect(p)
    PROVE  HeadInv'
<1> DEFINE sent == Walked(p)
           before == job[p].st.sent
           puts == {q \in Paths : sent[q] # NoData /\ sent[q] # before[q]}
           dels == {q \in Paths : before[q] # NoData /\ sent[q] = NoData /\ job[p].rules[q] # "never"}
           j == [job[p] EXCEPT !.puts = puts, !.dels = dels, !.sent = sent]
           l == IF puts \cup dels = {} THEN "conf" ELSE "send"
<1>1. pc[p] = "walk" /\ Goto(p, l) /\ UNCHANGED <<last, content, head, conf, got, skipped, blind>>
    BY DEF Collect, server, disk, history
<1>2. job[p] \in Jobs
    BY <1>1, AtWork
<1>3. job' = [job EXCEPT ![p] = j]
    BY <1>2 DEF Collect
<1> HIDE DEF sent, puts, dels
<1>4. j.at = job[p].at /\ j.kind = job[p].kind
    BY <1>2 DEF Jobs
<1>5. job[p].kind = "push" /\ PushAt(p)
    BY <1>1 DEF HeadInv, WorkAt, TInv, ProcInv, ControlAt
<1>6. pc[p] = "walk" /\ l \in {"conf", "send"}
    BY <1>1
<1> HIDE DEF j, l
<1>7. pc'[p] = l /\ job'[p] = j => WorkAt(p)'
    BY <1>1, <1>4, <1>5, <1>6 DEF WorkAt, PushAt, HasAllBut
<1> QED
    BY <1>1, <1>3, <1>7, HeadGoesOn

\* The server applies a batch only when the directory knew all there was.
LEMMA HeadApply ==
    ASSUME TInv, HeadInv, NEW p \in Procs, Apply(p)
    PROVE  /\ head' = head + 1 /\ UNCHANGED <<conf, last, skipped, blind>>
           /\ ~blind[Dir[p]] => HasAllBut(Dir[p], skipped[Dir[p]])
           /\ ~blind[Dir[p]] => HasAllBut(Dir[p], skipped[Dir[p]])'
<1>1. pc[p] = "send" /\ job[p].at = head
    BY DEF Apply, Acceptable
<1>2. head' = head + 1 /\ UNCHANGED <<conf, last, skipped, blind>> /\ Dir[p] \in Dirs
    BY <1>1, AtWork DEF Apply, disk
<1>3. ~blind[Dir[p]] => HasAllBut(Dir[p], skipped[Dir[p]])
    BY <1>1 DEF HeadInv, WorkAt, PushAt, TInv, ProcInv, ControlAt
<1> DEFINE New(c) == [q \in Paths |-> IF q \in job[p].puts THEN job[p].sent[q]
                                      ELSE IF q \in job[p].dels THEN NoData ELSE c[q]]
<1>4. content' = New(content) /\ got'[Dir[p]] = New(got[Dir[p]])
    BY <1>2 DEF Apply, TInv, FileInv
<1>5. ASSUME HasAllBut(Dir[p], skipped[Dir[p]]) PROVE HasAllBut(Dir[p], skipped[Dir[p]])'
    BY <1>2, <1>4, <1>5 DEF HasAllBut
<1> QED
    BY <1>2, <1>3, <1>5

LEMMA HeadAccepted ==
    ASSUME TInv, HeadInv, NEW p \in Procs, Accepted(p)
    PROVE  HeadInv'
<1>1. pc[p] = "send" /\ Goto(p, "conf") /\ Apply(p) /\ job' = [job EXCEPT ![p] = Noted(job[p])]
    BY DEF Accepted, Apply
<1>2. Noted(job[p]).kind = job[p].kind /\ job[p].kind = "push"
    BY <1>1, AtWork, NotedType DEF TInv, ProcInv, ControlAt
<1>3. pc'[p] = "conf" /\ job'[p] = Noted(job[p])
    BY <1>1, GoesOn
<1>4. head' = head + 1 /\ UNCHANGED <<conf, last, skipped, blind>>
    BY <1>1, HeadApply
<1>5. ~blind[Dir[p]] => HasAllBut(Dir[p], skipped[Dir[p]])'
    BY <1>1, HeadApply
<1>6. WorkAt(p)'
    BY <1>2, <1>3, <1>4, <1>5 DEF WorkAt, PushAt, HasAllBut
<1>7. \A o \in Procs \ {p} : pc'[o] = pc[o] /\ job'[o] = job[o] /\ last'[o] = last[o]
    BY <1>1, <1>4 DEF Goto, TInv, ProcInv
<1> QED
    BY <1>4, <1>6, <1>7, HeadMoves, BehindHead DEF HeadInv

LEMMA HeadAnswerLost ==
    ASSUME TInv, HeadInv, NEW p \in Procs, AnswerLost(p)
    PROVE  HeadInv'
<1>1. Apply(p) /\ head' = head + 1 /\ UNCHANGED <<conf, last>>
    BY HeadApply DEF AnswerLost
<1>2. pc'[p] = "idle" /\ \A o \in Procs \ {p} : pc'[o] = pc[o] /\ job'[o] = job[o] /\ last'[o] = last[o]
    BY <1>1 DEF AnswerLost, Stop, Goto, TInv, ProcInv
<1>3. WorkAt(p)'
    BY <1>2 DEF WorkAt
<1> QED
    BY <1>1, <1>2, <1>3, HeadMoves, BehindHead DEF HeadInv

LEMMA HeadSaving ==
    ASSUME TInv, HeadInv, NEW p \in Procs, OnTurn(p), Truncate(p) \/ SaveState(p) \/ StateNotSaved(p)
    PROVE  HeadInv'
<1>1. UNCHANGED <<last, content, head, conf, got, skipped, blind>>
    BY DEF Truncate, SaveState, StateNotSaved, server, disk, history
<1>2. pc[p] \in {"fetch", "save", "saving"}
    BY DEF Truncate, Fetched, SaveState, StateNotSaved
<1>3. CASE Stop(p)
    BY <1>1, <1>3, HeadStops
<1>4. ASSUME NEW l, l \in {"saving", "conf"}, Goto(p, l), UNCHANGED job,
             l = "conf" => job[p].kind # "push"
      PROVE  HeadInv'
    <2>1. job' = [job EXCEPT ![p] = job[p]]
        BY <1>4 DEF TInv, ProcInv
    <2>2. WorkAt(p)
        BY DEF HeadInv
    <2>3. pc'[p] = l /\ job'[p] = job[p] => WorkAt(p)'
        BY <1>1, <1>2, <1>4, <2>2 DEF WorkAt, PullAt, PushAt, HasAllBut
    <2> QED
        BY <1>1, <1>4, <2>1, <2>3, HeadGoesOn
<1>5. CASE Truncate(p)
    BY <1>4, <1>5 DEF Truncate
<1>6. CASE SaveState(p)
    BY <1>3, <1>4, <1>6 DEF SaveState
<1>7. CASE StateNotSaved(p)
    BY <1>4, <1>7 DEF StateNotSaved, Fetched, TInv, ProcInv, ControlAt
<1> QED
    BY <1>5, <1>6, <1>7

LEMMA HeadSaveConf ==
    ASSUME TInv, HeadInv, NEW p \in Procs, OnTurn(p), SaveConf(p)
    PROVE  HeadInv'
<1> DEFINE d == Dir[p]
           full == job[p].kind # "push" /\ last[p] # job[p].at
<1>1. pc[p] = "conf" /\ UNCHANGED <<content, head, got>>
    BY DEF SaveConf, server
<1>2. job[p] \in Jobs /\ d \in Dirs /\ head \in Nat
    BY <1>1, AtWork
<1>3. conf' = [conf EXCEPT ![d] = job[p].at] /\ conf'[d] = job[p].at
    BY <1>2 DEF SaveConf, TInv, FileInv
<1>4. skipped' = [skipped EXCEPT ![d] = IF full THEN job[p].left ELSE skipped[d]]
    BY DEF SaveConf
<1>5. blind' = [blind EXCEPT ![d] = blind[d] /\ ~full]
    BY DEF SaveConf
<1>6. skipped'[d] = (IF full THEN job[p].left ELSE skipped[d]) /\ blind'[d] = (blind[d] /\ ~full)
    <2> HIDE DEF full, d
    <2> QED
        BY <1>2, <1>4, <1>5 DEF TInv, FileInv
<1>7. WorkAt(p) /\ DirHas(d) /\ ControlAt(p)
    BY <1>2 DEF HeadInv, TInv, ProcInv
<1>8. ASSUME job[p].kind = "push" PROVE WorkAt(p)' /\ DirHas(d)'
    <2>1. pc'[p] = "save" /\ job' = job
        BY <1>8 DEF SaveConf, Goto, TInv, ProcInv
    <2>2. WorkAt(p)'
        BY <1>8, <2>1 DEF WorkAt, PushAt
    <2>3. job[p].at = head /\ ~blind[d] => HasAllBut(d, skipped[d])
        BY <1>1, <1>7, <1>8 DEF WorkAt, PushAt
    <2>4. DirHas(d)'
        BY <1>1, <1>3, <1>6, <1>8, <2>3 DEF DirHas, HasAllBut
    <2> QED
        BY <2>2, <2>4
<1>9. ASSUME job[p].kind # "push" PROVE WorkAt(p)' /\ DirHas(d)'
    <2>1. WorkAt(p)'
        BY <1>9 DEF SaveConf, Stop, Goto, TInv, ProcInv, WorkAt
    <2>2. PullAt(p) /\ job[p].todo = {}
        BY <1>1, <1>7, <1>9 DEF WorkAt, ControlAt
    <2>3. CASE full
        <3>1. job[p].at = head => HasAllBut(d, job[p].left)
            BY <1>1, <2>2, <2>3 DEF PullAt
        <3> QED
            BY <1>1, <1>3, <1>6, <2>1, <2>3, <3>1 DEF DirHas, HasAllBut
    <2>4. CASE ~full
        <3>1. conf[d] = job[p].at
            <4>1. last[p] \in Nat /\ job[p].at \in Nat
                BY <1>2, JobFields DEF TInv, FileInv, ProcInv
            <4> QED
                BY <1>1, <1>9, <2>2, <2>4, <4>1 DEF PullAt
        <3> QED
            BY <1>1, <1>3, <1>6, <1>7, <2>1, <2>4, <3>1 DEF DirHas, HasAllBut
    <2> QED
        BY <2>1, <2>3, <2>4
<1>10. \A o \in Procs \ {p} : pc'[o] = pc[o] /\ job'[o] = job[o] /\ last'[o] = last[o]
    BY DEF SaveConf, Stop, Goto, TInv, ProcInv
<1>11. \A e \in Dirs \ {d} : conf'[e] = conf[e] /\ skipped'[e] = skipped[e] /\ blind'[e] = blind[e]
    BY <1>3, <1>4, <1>5 DEF TInv, FileInv
<1> QED
    BY <1>1, <1>8, <1>9, <1>10, <1>11, HeadStep

\* A step that leaves the server, the heads and the calls as they are.
LEMMA HeadStays ==
    ASSUME HeadInv, UNCHANGED <<content, head, conf, got, skipped, blind, pc, job>>,
           \A o \in Procs : pc[o] # "idle" => last'[o] = last[o]
    PROVE  HeadInv'
<1>1. \A o \in Procs : WorkAt(o)'
    BY WorkStays DEF HeadInv, WorkAt
<1> QED
    BY <1>1 DEF HeadInv, DirHas, HasAllBut

LEMMA StepHead ==
    ASSUME Together = FALSE, TInv, TakeTurns, HeadInv, [Next]_vars
    PROVE  HeadInv'
<1>1. CASE UNCHANGED vars
    BY <1>1, HeadStays DEF vars, server, disk, process, history
<1>2. ASSUME NEW d \in Dirs, NEW q \in Paths, NEW c \in Contents, Edit(d, q, c) PROVE HeadInv'
    BY <1>2, HeadStays DEF Edit, server, process, history
<1>3. ASSUME NEW q \in Paths, NEW c \in Contents, Elsewhere(q, c) PROVE HeadInv'
    BY <1>3, HeadElsewhere
<1>4. ASSUME NEW q \in Paths, NEW m \in Modes, SetRule(q, m) PROVE HeadInv'
    BY <1>4, HeadStays DEF SetRule, disk, process, history
<1>5. ASSUME NEW p \in Procs, StartPull(p) \/ StartPush(p) \/ Poll(p) PROVE HeadInv'
    <2>1. OnTurn(p)
        BY <1>5 DEF StartPull, StartPush, Poll, Alone, OnTurn
    <2> QED
        BY <1>5, <2>1, HeadStart, HeadStartPush
<1>6. ASSUME NEW p \in Procs, Working(p) \/ StateNotSaved(p) \/ AnswerLost(p) \/ Kill(p), ~Poll(p)
      PROVE  HeadInv'
    <2>1. pc[p] # "idle"
        BY <1>6 DEF Working, List, Fetch, Write, Collect, Refused, Accepted, Truncate, Fetched,
                    SaveState, SaveConf, StateNotSaved, AnswerLost, Apply, Kill
    <2>2. OnTurn(p)
        BY <2>1 DEF TakeTurns
    <2>3. CASE Refused(p)
        BY <2>2, <2>3, HeadStops DEF Refused, server, disk, history
    <2>4. CASE Kill(p)
        BY <2>2, <2>4, HeadStops DEF Kill, server, disk, history, TInv, ProcInv
    <2> QED
        BY <1>6, <2>2, <2>3, <2>4, HeadList, HeadFetch, HeadWrite, HeadCollect, HeadAccepted,
           HeadAnswerLost, HeadSaving, HeadSaveConf DEF Working
<1>7. ASSUME NEW p \in Procs, Restart(p) PROVE HeadInv'
    BY <1>7, HeadStays DEF Restart, server, disk, history, TInv, ProcInv
<1> QED
    BY <1>1, <1>2, <1>3, <1>4, <1>5, <1>6, <1>7 DEF Next, Working, Contents

LEMMA HeadsHold == HeadInv => AtHeadHasAll
BY DEF HeadInv, DirHas, HasAllBut, AtHeadHasAll

\* A directory whose configuration names the server's head has had every file of it, but what its
\* last pull left out by mode, as long as the directory's processes take turns (Together = FALSE):
\* the two saved files (client.go, poll.go) tell the next poll nothing that is not so.
THEOREM HeadMeansContent ==
    ASSUME Together = FALSE
    PROVE  Spec => []AtHeadHasAll
<1>1. TakeTurns /\ TInv /\ [Next]_vars => TakeTurns'
    BY StepTurns
<1>2. TakeTurns /\ TInv /\ HeadInv /\ [Next]_vars => HeadInv'
    BY StepHead
<1>3. HeadInv => AtHeadHasAll
    BY HeadsHold
<1> QED
    BY <1>1, <1>2, <1>3, InitTInv, InitHead, StepTInv, PTL DEF Spec

\* Only a batch the server takes moves its sender on from sending and the head with it.
LEMMA OnlyApplyMovesBoth ==
    ASSUME TInv, Next, NEW p \in Procs, pc[p] = "send", pc'[p] # "send", head' # head
    PROVE  Apply(p)
<1>1. ASSUME NEW o \in Procs, Apply(o), Accepted(o) \/ AnswerLost(o) PROVE o = p
    BY <1>1 DEF Accepted, AnswerLost, Stop, Goto, TInv, ProcInv
<1>2. ASSUME NEW o \in Procs PROVE ~(StartPull(o) \/ StartPush(o) \/ StateNotSaved(o) \/ Kill(o) \/ Restart(o))
    BY DEF StartPull, StartPush, StateNotSaved, Kill, Restart, server
<1>3. ASSUME NEW o \in Procs
      PROVE ~(Poll(o) \/ List(o) \/ Fetch(o) \/ Write(o) \/ Collect(o) \/ Refused(o)
              \/ Truncate(o) \/ SaveState(o) \/ SaveConf(o))
    BY DEF Poll, List, Fetch, Write, Collect, Refused, Truncate, SaveState, SaveConf, server
<1>4. ASSUME NEW d \in Dirs, NEW q \in Paths, NEW c \in Contents PROVE ~Edit(d, q, c) /\ ~Elsewhere(q, c)
    BY DEF Edit, Elsewhere, server, process
<1>5. ASSUME NEW q \in Paths, NEW m \in Modes PROVE ~SetRule(q, m)
    BY DEF SetRule
<1>6. ASSUME NEW q \in Paths, NEW c \in Contents PROVE ~Elsewhere(q, c)
    BY DEF Elsewhere, process
<1>7. PICK o \in Procs : Accepted(o) \/ AnswerLost(o)
    BY <1>2, <1>3, <1>4, <1>5, <1>6 DEF Next, Working, Contents
<1> QED
    BY <1>1, <1>7 DEF Accepted, AnswerLost

\* A push that the server takes replaces or deletes only what its directory has seen, as long as
\* the directory's processes take turns: the expected head (push.go) is no token of
\* a listing that somebody else's files have since joined.
THEOREM PushSeesWhatItReplaces ==
    ASSUME Together = FALSE
    PROVE  Spec => NoBlindOverwrite
<1>1. ASSUME TInv, HeadInv, Next, NEW p \in Procs, pc[p] = "send", pc'[p] # "send", head' # head,
             NEW q \in Paths \ skipped[Dir[p]], content'[q] # content[q], ~blind[Dir[p]]
      PROVE  content[q] \in {NoData, got[Dir[p]][q]}
    <2>1. Apply(p)
        BY <1>1, OnlyApplyMovesBoth
    <2>2. HasAllBut(Dir[p], skipped[Dir[p]])
        BY <1>1, <2>1, HeadApply
    <2> QED
        BY <1>1, <2>2 DEF HasAllBut
<1> DEFINE Seen ==
        \A p \in Procs : pc[p] = "send" /\ pc'[p] # "send" /\ head' # head =>
            \A q \in Paths \ skipped[Dir[p]] :
                content'[q] # content[q] /\ ~blind[Dir[p]] =>
                    content[q] \in {NoData, got[Dir[p]][q]}
<1>2. TInv /\ HeadInv /\ [Next]_vars => [Seen]_vars
    BY <1>1
<1>3. NoBlindOverwrite <=> [][Seen]_vars
    BY PTL DEF NoBlindOverwrite
<1>4. TakeTurns /\ TInv /\ [Next]_vars => TakeTurns'
    BY StepTurns
<1>5. TakeTurns /\ TInv /\ HeadInv /\ [Next]_vars => HeadInv'
    BY StepHead
<1> HIDE DEF Seen
<1> QED
    BY <1>2, <1>3, <1>4, <1>5, InitTInv, InitHead, StepTInv, PTL DEF Spec

=============================================================================
