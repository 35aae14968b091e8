----------------------------- MODULE SyncClient -----------------------------
(***************************************************************************)
(* Directories that follow a space: internal/syncclient, the pull, push    *)
(* and init commands of internal/cli/client.go, and the daemon of          *)
(* internal/cli/daemon.go.                                                 *)
(*                                                                         *)
(* A directory holds the documents, .sync/state.json (what was seeded,     *)
(* what was sent) and config.yaml (the last head).  Commands and the       *)
(* daemon are processes that read these files, talk to the server, and     *)
(* save the two files one after the other.  The server is its content, its *)
(* head and its sync rules; SpaceService says how a push gets to be one    *)
(* step of it.  Everybody else who writes the space is Elsewhere.          *)
(***************************************************************************)
EXTENDS Integers, FiniteSets

CONSTANTS
    Dirs,           \* directories
    Procs,          \* commands and daemons
    Dir,            \* the directory each works in
    Daemons,        \* those of Procs that are daemons
    Together,       \* whether two processes may work in one directory at once
    Paths, Data, NoData,
    Template,       \* what the space is created with
    Defaults,       \* the sync rules it is created with
    Modes,          \* the modes the space's rules use
    Torn,           \* a state file that does not parse
    MaxWrites,      \* bound: changes made elsewhere, of content or of rules
    MaxEdits,       \* bound: edits and removals by the people at the directories
    MaxCalls,       \* bound: commands given
    MaxFaults       \* bound: lost answers, failed saves, killed processes

ASSUME SyncClientAssumption ==
    /\ Dir \in [Procs -> Dirs] /\ Daemons \subseteq Procs
    /\ Together \in BOOLEAN
    /\ NoData \notin Data /\ Template \in [Paths -> Data \cup {NoData}]
    /\ Defaults \in [Paths -> Modes]
    /\ Modes \subseteq {"always", "init-only", "never"} /\ Modes # {}
    /\ {MaxWrites, MaxEdits, MaxCalls, MaxFaults} \subseteq Nat

VARIABLES
    content, head, rules,   \* the server
    tree,       \* per directory: its documents
    state,      \* per directory: state.json
    conf,       \* per directory: the last head in config.yaml, 0 before the first
    pc,         \* per process
    last,       \* per process: the last head of the configuration it has loaded
    job,        \* per process: the locals of the call under way
    writes, edits, calls, faults,
    got,        \* history, per directory: the last content of a path received or delivered
    skipped,    \* history, per directory: the paths its last pull left out by mode
    blind,      \* history, per directory: it pushed before it had ever pulled
    arrived     \* history: what the server has ever held

server == <<content, head, rules>>
disk == <<tree, state, conf>>
process == <<pc, last, job>>
counters == <<writes, edits, calls, faults>>
history == <<got, skipped, blind, arrived>>
vars == <<server, disk, process, counters, history>>

-----------------------------------------------------------------------------
NoDocs == [q \in Paths |-> NoData]
EmptyState == [seeded |-> {}, sent |-> NoDocs]
NoJob == [kind |-> "none"]
Held(c) == {<<q, c[q]>> : q \in {x \in Paths : c[x] # NoData}}

Init ==
    /\ content = Template /\ head = 1
    /\ rules = Defaults
    /\ tree = [d \in Dirs |-> NoDocs]
    /\ state = [d \in Dirs |-> EmptyState]
    /\ conf = [d \in Dirs |-> 0]
    /\ pc = [p \in Procs |-> "idle"]
    /\ last = [p \in Procs |-> 0]
    /\ job = [p \in Procs |-> NoJob]
    /\ writes = 0 /\ edits = 0 /\ calls = 0 /\ faults = 0
    /\ got = [d \in Dirs |-> NoDocs]
    /\ skipped = [d \in Dirs |-> {}]
    /\ blind = [d \in Dirs |-> FALSE]
    /\ arrived = Held(content)

Goto(p, l) == pc' = [pc EXCEPT ![p] = l]
\* Mutant: a call that ends keeps its locals.
StopDirty(p) == Goto(p, "idle") /\ UNCHANGED job
\* A call is over.  A daemon keeps the configuration it has loaded.
Stop(p) == Goto(p, "idle") /\ job' = [job EXCEPT ![p] = NoJob]
Alone(p) == Together \/ \A o \in Procs \ {p} : Dir[o] = Dir[p] => pc[o] = "idle"

-----------------------------------------------------------------------------
(* People, and everybody else *)

\* Somebody edits or removes a document in directory d.
Edit(d, q, c) ==
    /\ edits < MaxEdits /\ edits' = edits + 1
    /\ tree[d][q] # c
    /\ tree' = [tree EXCEPT ![d][q] = c]
    /\ UNCHANGED <<server, state, conf, process, writes, calls, faults, history>>

\* Another client, or a browser, writes or deletes a file: the head advances.
Elsewhere(q, c) ==
    /\ writes < MaxWrites /\ writes' = writes + 1
    /\ content[q] # c
    /\ content' = [content EXCEPT ![q] = c]
    /\ head' = head + 1
    /\ arrived' = arrived \cup Held(content')
    /\ UNCHANGED <<rules, disk, process, edits, calls, faults, got, skipped, blind>>

\* An administrator changes a sync rule.  The head stays: rules are metadata.
SetRule(q, m) ==
    /\ writes < MaxWrites /\ writes' = writes + 1
    /\ rules[q] # m
    /\ rules' = [rules EXCEPT ![q] = m]
    /\ UNCHANGED <<content, head, disk, process, edits, calls, faults, history>>

-----------------------------------------------------------------------------
(* Pulling *)

\* What every call loads: the rules, and state.json, which must parse.
Loaded(p, kind, at) ==
    [kind |-> kind, rules |-> rules, st |-> state[Dir[p]],
     at |-> at, todo |-> {}, left |-> {}, body |-> NoData,
     puts |-> {}, dels |-> {}, sent |-> NoDocs]

Readable(p) == state[Dir[p]] # Torn

\* pull, and the first pull of init client.
StartPull(p) ==
    /\ p \notin Daemons /\ pc[p] = "idle" /\ Alone(p)
    /\ calls < MaxCalls /\ calls' = calls + 1
    /\ Readable(p)
    /\ last' = [last EXCEPT ![p] = conf[Dir[p]]]
    /\ job' = [job EXCEPT ![p] = Loaded(p, "pull", 0)]
    /\ Goto(p, "list")
    /\ UNCHANGED <<server, disk, writes, edits, faults, history>>

\* The daemon's timer: it pulls when the head is not the last it saw.  It has
\* had its configuration since it started.
Poll(p) ==
    /\ p \in Daemons /\ pc[p] = "idle" /\ Alone(p)
    /\ head # last[p]
    /\ Readable(p)
    /\ job' = [job EXCEPT ![p] = Loaded(p, "poll", 0)]
    /\ Goto(p, "list")
    /\ UNCHANGED <<server, disk, last, counters, history>>

Skips(j, q) == j.rules[q] = "never" \/ (j.rules[q] = "init-only" /\ q \in j.st.seeded)

\* The changes since the last head: nothing, or every file there is.
Listing(since) == IF since = head THEN {} ELSE {q \in Paths : content[q] # NoData}

List(p) ==
    /\ pc[p] = "list"
    /\ LET left == {q \in Paths : Skips(job[p], q)} IN
       job' = [job EXCEPT ![p].at = head,
                          ![p].todo = Listing(last[p]) \ left,
                          ![p].left = left]
    /\ Goto(p, "fetch")
    /\ UNCHANGED <<server, disk, last, counters, history>>

\* The file to fetch next; one deleted since the listing fails the pull, and what
\* the call has noted in memory is dropped with it.
Following(p) == CHOOSE q \in job[p].todo : TRUE

\* Mutant: a file that is gone is asked for again and again.
FetchAgain(p) ==
    /\ pc[p] = "fetch" /\ job[p].todo # {}
    /\ content[Following(p)] # NoData
    /\ job' = [job EXCEPT ![p].body = content[Following(p)]]
    /\ Goto(p, "write")
    /\ UNCHANGED <<server, disk, last, counters, history>>
Fetch(p) ==
    /\ pc[p] = "fetch" /\ job[p].todo # {}
    /\ IF content[Following(p)] = NoData
       THEN Stop(p)
       ELSE /\ job' = [job EXCEPT ![p].body = content[Following(p)]]
            /\ Goto(p, "write")
    /\ UNCHANGED <<server, disk, last, counters, history>>

\* The body replaces the document, whatever the person has in it by now.
Write(p) ==
    LET q == Following(p) IN
    /\ pc[p] = "write"
    /\ tree' = [tree EXCEPT ![Dir[p]][q] = job[p].body]
    /\ got' = [got EXCEPT ![Dir[p]][q] = job[p].body]
    /\ job' = [job EXCEPT ![p].st.seeded = @ \cup {q}, ![p].todo = @ \ {q}, ![p].body = NoData]
    /\ Goto(p, "fetch")
    /\ UNCHANGED <<server, state, conf, last, counters, skipped, blind, arrived>>

-----------------------------------------------------------------------------
(* Pushing *)

\* Mutant: a push always expects the head it has just asked for.
ExpectedNow(d) == IF d \in Dirs THEN head ELSE 0
\* The expected head is the last one, or for want of one the server's of now.
Expected(d) == IF conf[d] = 0 THEN head ELSE conf[d]

StartPush(p) ==
    /\ p \notin Daemons /\ pc[p] = "idle" /\ Alone(p)
    /\ calls < MaxCalls /\ calls' = calls + 1
    /\ Readable(p)
    /\ job' = [job EXCEPT ![p] = Loaded(p, "push", Expected(Dir[p]))]
    /\ blind' = [blind EXCEPT ![Dir[p]] = @ \/ conf[Dir[p]] = 0]
    /\ Goto(p, "walk")
    /\ UNCHANGED <<server, disk, last, writes, edits, faults, got, skipped, arrived>>

\* What leaves the machine: the documents that sync both ways.
Walked(p) == [q \in Paths |-> IF job[p].rules[q] = "always" THEN tree[Dir[p]][q] ELSE NoData]

Collect(p) ==
    LET sent == Walked(p)
        before == job[p].st.sent
        puts == {q \in Paths : sent[q] # NoData /\ sent[q] # before[q]}
        dels == {q \in Paths : before[q] # NoData /\ sent[q] = NoData /\ job[p].rules[q] # "never"}
    IN  /\ pc[p] = "walk"
        /\ job' = [job EXCEPT ![p].puts = puts, ![p].dels = dels, ![p].sent = sent]
        /\ Goto(p, IF puts \cup dels = {} THEN "conf" ELSE "send")
        /\ UNCHANGED <<server, disk, last, counters, history>>

\* The server takes the batch whole, or refuses it: its head has moved, or a
\* file to delete is not there.
Acceptable(j) == head = j.at /\ \A q \in j.dels : content[q] # NoData

\* What was sent is noted only once the server has taken it.
Noted(j) == [j EXCEPT !.at = head + 1, !.st.sent = j.sent]

\* Mutant: what was sent is noted whatever the server answers.
RefusedNoted(p) ==
    /\ pc[p] = "send" /\ ~Acceptable(job[p])
    /\ job' = [job EXCEPT ![p].st.sent = job[p].sent]
    /\ Goto(p, "save")
    /\ UNCHANGED <<server, disk, last, counters, history>>
Refused(p) ==
    /\ pc[p] = "send" /\ ~Acceptable(job[p])
    /\ Stop(p)
    /\ UNCHANGED <<server, disk, last, counters, history>>

Apply(p) ==
    LET j == job[p]
        New(c) == [q \in Paths |-> IF q \in j.puts THEN j.sent[q]
                                   ELSE IF q \in j.dels THEN NoData ELSE c[q]]
    IN  /\ pc[p] = "send" /\ Acceptable(j)
        /\ content' = New(content)
        /\ head' = head + 1
        /\ got' = [got EXCEPT ![Dir[p]] = New(@)]
        /\ arrived' = arrived \cup Held(content')
        /\ UNCHANGED <<rules, disk, last, writes, edits, calls, skipped, blind>>

Accepted(p) ==
    /\ Apply(p)
    /\ job' = [job EXCEPT ![p] = Noted(@)]
    /\ Goto(p, "conf")
    /\ UNCHANGED faults

-----------------------------------------------------------------------------
(* The two files *)

Fault == faults < MaxFaults /\ faults' = faults + 1

\* Mutant: a pull that could not fetch a file saves what it has.
FetchedSome(p) == pc[p] = "fetch" /\ job[p].kind # "push"
\* state.json is written in place: for a moment it is empty.
Fetched(p) == pc[p] = "fetch" /\ job[p].todo = {}

Truncate(p) ==
    /\ pc[p] = "save" \/ Fetched(p)
    /\ state' = [state EXCEPT ![Dir[p]] = Torn]
    /\ Goto(p, "saving")
    /\ UNCHANGED <<server, tree, conf, last, job, counters, history>>

SaveState(p) ==
    /\ pc[p] = "saving"
    /\ state' = [state EXCEPT ![Dir[p]] = job[p].st]
    /\ IF job[p].kind = "push" THEN Stop(p) ELSE Goto(p, "conf") /\ UNCHANGED job
    /\ UNCHANGED <<server, tree, conf, last, counters, history>>

\* The daemon goes on when its state cannot be saved.
StateNotSaved(p) ==
    /\ Fetched(p) /\ job[p].kind = "poll"
    /\ Fault
    /\ Goto(p, "conf")
    /\ UNCHANGED <<server, disk, last, job, writes, edits, calls, history>>

\* config.yaml is replaced: the head comes from the listing, or the push's answer.
SaveConf(p) ==
    LET j == job[p]
        d == Dir[p]
        full == j.kind # "push" /\ last[p] # j.at
    IN  /\ pc[p] = "conf"
        /\ conf' = [conf EXCEPT ![d] = j.at]
        /\ last' = [last EXCEPT ![p] = IF p \in Daemons THEN j.at ELSE 0]
        /\ IF j.kind = "push" THEN Goto(p, "save") /\ UNCHANGED job ELSE Stop(p)
        /\ skipped' = [skipped EXCEPT ![d] = IF full THEN j.left ELSE @]
        /\ blind' = [blind EXCEPT ![d] = @ /\ ~full]
        /\ UNCHANGED <<server, tree, state, counters, got, arrived>>

-----------------------------------------------------------------------------
(* Faults *)

\* The server has applied the batch, and the answer does not come.
AnswerLost(p) == Apply(p) /\ Fault /\ Stop(p)

\* A process dies, or gives up waiting for the network.
Kill(p) ==
    /\ pc[p] # "idle"
    /\ Fault
    /\ Stop(p)
    /\ last' = [last EXCEPT ![p] = IF p \in Daemons THEN conf[Dir[p]] ELSE 0]
    /\ UNCHANGED <<server, disk, writes, edits, calls, history>>

\* daemon stop, daemon start: the configuration is loaded again.
Restart(p) ==
    /\ p \in Daemons /\ pc[p] = "idle"
    /\ last[p] # conf[Dir[p]]
    /\ last' = [last EXCEPT ![p] = conf[Dir[p]]]
    /\ UNCHANGED <<server, disk, pc, job, counters, history>>

-----------------------------------------------------------------------------
Working(p) ==
    \/ Poll(p) \/ List(p) \/ Fetch(p) \/ Write(p)
    \/ Collect(p) \/ Refused(p) \/ Accepted(p)
    \/ Truncate(p) \/ SaveState(p) \/ SaveConf(p)

Next ==
    \/ \E d \in Dirs, q \in Paths, c \in Data \cup {NoData} : Edit(d, q, c)
    \/ \E q \in Paths, c \in Data \cup {NoData} : Elsewhere(q, c)
    \/ \E q \in Paths, m \in Modes : SetRule(q, m)
    \/ \E p \in Procs :
          \/ StartPull(p) \/ StartPush(p) \/ Working(p)
          \/ StateNotSaved(p) \/ AnswerLost(p) \/ Kill(p) \/ Restart(p)

Spec == Init /\ [][Next]_vars

\* A process that can go on does: the network answers or times out, timers fire.
\* Nothing is assumed of people, of other clients or of faults.
FairSpec == Spec /\ \A p \in Procs : WF_vars(Working(p))

-----------------------------------------------------------------------------
(* Properties *)

States == [seeded : SUBSET Paths, sent : [Paths -> Data \cup {NoData}]]
Jobs ==
    [kind : {"pull", "poll", "push"}, rules : [Paths -> Modes], st : States, at : Nat,
     todo : SUBSET Paths, left : SUBSET Paths, body : Data \cup {NoData},
     puts : SUBSET Paths, dels : SUBSET Paths, sent : [Paths -> Data \cup {NoData}]]

\* Types, and that a process has a job exactly while it works.
TypeOK ==
    /\ content \in [Paths -> Data \cup {NoData}] /\ head \in Nat /\ rules \in [Paths -> Modes]
    /\ tree \in [Dirs -> [Paths -> Data \cup {NoData}]]
    /\ \A d \in Dirs : state[d] = Torn \/ state[d] \in States
    /\ conf \in [Dirs -> 0..head] /\ last \in [Procs -> 0..head]
    /\ \A p \in Procs : job[p] = NoJob \/ job[p] \in Jobs
    /\ \A p \in Procs : (pc[p] = "idle") <=> (job[p] = NoJob)

\* A directory that takes itself to be at the head has had every file of it: what
\* a pull that failed half way, a push whose answer was lost or a process killed
\* between its two saves leaves behind is never "unchanged" to the next poll.
\* Excepted: paths the last pull left out by their mode, and a directory that has
\* pushed before it ever pulled (client.go, "refresh if empty").
AtHeadHasAll ==
    \A d \in Dirs : conf[d] = head /\ ~blind[d] =>
        \A q \in Paths \ skipped[d] : content[q] # NoData => got[d][q] = content[q]

\* A push replaces or deletes only what its directory has seen: the head it
\* expects stands for the content it knows (docs/cli.md: a concurrent change is
\* reported rather than silently overwritten).  Excepted as above.
NoBlindOverwrite ==
    [][\A p \in Procs : pc[p] = "send" /\ pc'[p] # "send" /\ head' # head =>
          \A q \in Paths \ skipped[Dir[p]] :
              content'[q] # content[q] /\ ~blind[Dir[p]] =>
                  content[q] \in {NoData, got[Dir[p]][q]}]_vars

\* What is recorded as sent did arrive, so that a push skips no file that never
\* did, whichever of answer, configuration and state was lost.
SentArrived ==
    \A d \in Dirs : state[d] # Torn => Held(state[d].sent) \subseteq arrived

\* Once nobody writes any more, every polling daemon reaches the head, through
\* failed pulls and killed processes, unless a process died writing state.json:
\* then every call fails for good.
CatchesUp ==
    \A p \in Daemons : <>[](last[p] = head \/ state[Dir[p]] = Torn)

\* An init-only document, copied once, is the person's: no pull replaces it.
YoursAlone ==
    [][\A p \in Procs, q \in Paths :
          pc[p] = "write" /\ tree'[Dir[p]][q] # tree[Dir[p]][q] /\ got'[Dir[p]] # got[Dir[p]] =>
              ~(job[p].rules[q] = "init-only" /\ got[Dir[p]][q] # NoData)]_vars
=============================================================================
