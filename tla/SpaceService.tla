---------------------------- MODULE SpaceService ----------------------------
(***************************************************************************)
(* The write path of one space: internal/spacesvc and the file, push and   *)
(* changes handlers of internal/server.  A push checks the head, plans its *)
(* batch, applies it path by path, and commits by advancing the head; a    *)
(* batch that fails is rolled back.  A single-file call writes its path    *)
(* under the same lock and advances the head after letting it go.  Pullers *)
(* take no lock.                                                           *)
(*                                                                         *)
(* A path is the register of AtomicFile, which FileLog implements: each of *)
(* its calls is one step here, and may also fail before or after its       *)
(* effect.  The lock is a mutex of one process: replicas of a server share *)
(* the files and the head, and nothing else.                               *)
(***************************************************************************)
EXTENDS Integers, Sequences, FiniteSets

CONSTANTS
    Requests,       \* request slots
    Replicas, On,   \* the replicas, and the one that serves each slot
    Pullers,        \* clients pulling the space
    Paths, Data, NoData,
    Kinds,          \* the calls clients make
    Wants,          \* the file versions pushes expect: Infer, or a number
    Tokens,         \* the file versions single-file calls expect
    Infer, Free,
    FaultKinds,     \* which faults happen, of FaultNames
    MaxFiles,       \* the quota on files
    MaxBatch,       \* bound: operations of one push
    MaxCalls,       \* bound: requests begun
    MaxPulls,       \* bound: pulls begun
    MaxFaults       \* bound: faults

\* A call fails before or after its effect; a read, or a write to the working
\* tree, fails and nobody is told; a process dies.
FaultNames == {"before", "after", "unread", "unmirrored", "crash"}

ASSUME SpaceServiceAssumption ==
    /\ On \in [Requests -> Replicas]
    /\ Requests \cap Pullers = {} /\ Free \notin Requests
    /\ NoData \notin Data
    /\ Kinds \subseteq {"push", "put", "delete", "undelete"}
    /\ Wants \subseteq Nat \cup {Infer} /\ Infer \notin Nat
    /\ Tokens \subseteq Nat
    /\ FaultKinds \subseteq FaultNames
    /\ {MaxFiles, MaxCalls, MaxPulls, MaxFaults} \subseteq Nat /\ MaxBatch \in Nat \ {0}

VARIABLES
    file,       \* per path: [cur, vers], the current version (0: none) and all contents
    head,       \* the head of the space, 0 before the first
    tree,       \* per replica: its working-tree mirror
    lock,       \* per replica: the request holding the space lock
    pc, req,    \* per request: where it is, and what was asked
    at,         \* per request: the head a push read, or a head bump read
    have,       \* per request: the paths its inventory counts
    plan,       \* per request: its planned operations
    i,          \* per request: the operation it is at
    seen,       \* per request: the live version it read last
    undo,       \* per request: how to undo what it applied
    mixed,      \* per request: an undo step failed
    reply,      \* per request: its answer
    pull,       \* per puller: the pull under way
    calls, pulls, faults,
    before,     \* history, per request: the content of the space when it got the lock
    log,        \* history: what the space held when the head was moved, oldest first
    spoiled,    \* history: a push was told the space is mixed, or a process died at work
    blind,      \* history, per request: the files it put over and took for absent
    vanished,   \* history: the files such a push removed, since the head last moved
    stale       \* history, per replica: the paths its tree missed and nobody was told

storage == <<file, head>>
progress == <<at, have, plan, i, seen, undo, mixed>>
outcome == <<before, log, spoiled, blind, vanished>>
history == <<outcome, stale>>
counters == <<calls, pulls, faults>>
vars == <<storage, tree, lock, pc, req, progress, reply, pull, counters, history>>

-----------------------------------------------------------------------------
(* One path, as AtomicFile has it *)

NoFile == [cur |-> 0, vers |-> <<>>]
\* Mutant: a write that replaces a file stores nothing.
WrittenEmpty(f, d) == [cur |-> Len(f.vers) + 1, vers |-> Append(f.vers, IF f.cur = 0 THEN d ELSE NoData)]
Written(f, d) == [cur |-> Len(f.vers) + 1, vers |-> Append(f.vers, d)]
Removed(f) == [f EXCEPT !.cur = 0]
Restored(f) == [f EXCEPT !.cur = Len(f.vers)]
Body(f) == IF f.cur = 0 THEN NoData ELSE f.vers[f.cur]

Content == [p \in Paths |-> Body(file[p])]
Present == {p \in Paths : file[p].cur # 0}

Put(p, d) == file' = [file EXCEPT ![p] = Written(@, d)]

Ops == [op : {"put"}, path : Paths, data : Data, want : Wants]
           \cup [op : {"delete"}, path : Paths, data : {NoData}, want : Wants]
Batches == UNION {[1..n -> Ops] : n \in 1..MaxBatch}

NoReq == [kind |-> "none"]
NoPull == [pc |-> "idle"]

Init ==
    /\ file = [p \in Paths |-> NoFile]
    /\ head = 0
    /\ tree = [r \in Replicas |-> [p \in Paths |-> NoData]]
    /\ lock = [r \in Replicas |-> Free]
    /\ pc = [q \in Requests |-> "idle"]
    /\ req = [q \in Requests |-> NoReq]
    /\ at = [q \in Requests |-> 0]
    /\ have = [q \in Requests |-> {}]
    /\ plan = [q \in Requests |-> <<>>]
    /\ i = [q \in Requests |-> 1]
    /\ seen = [q \in Requests |-> 0]
    /\ undo = [q \in Requests |-> <<>>]
    /\ mixed = [q \in Requests |-> FALSE]
    /\ reply = [q \in Requests |-> "none"]
    /\ pull = [u \in Pullers |-> NoPull]
    /\ calls = 0 /\ pulls = 0 /\ faults = 0
    /\ before = [q \in Requests |-> Content]
    /\ log = <<>>
    /\ spoiled = FALSE
    /\ blind = [q \in Requests |-> {}]
    /\ vanished = {}
    /\ stale = [r \in Replicas |-> {}]

Goto(q, l) == pc' = [pc EXCEPT ![q] = l]

\* Mutant: an answer does not let the lock go.
KeepLock(q) == lock' = [x \in Replicas |-> lock[x]] /\ q \in Requests
\* The lock is let go, if the call still holds it.
Unlock(q) == lock' = [x \in Replicas |-> IF lock[x] = q THEN Free ELSE lock[x]]

Reply(q, r) ==
    /\ Goto(q, "idle")
    /\ reply' = [reply EXCEPT ![q] = r]
    /\ Unlock(q)
    /\ req' = [req EXCEPT ![q] = NoReq]
    /\ at' = [at EXCEPT ![q] = 0]
    /\ have' = [have EXCEPT ![q] = {}]
    /\ plan' = [plan EXCEPT ![q] = <<>>]
    /\ i' = [i EXCEPT ![q] = 1]
    /\ seen' = [seen EXCEPT ![q] = 0]
    /\ undo' = [undo EXCEPT ![q] = <<>>]
    /\ mixed' = [mixed EXCEPT ![q] = FALSE]

Refuse(q, why) == Reply(q, why) /\ UNCHANGED <<storage, tree, pull, counters, history>>

Fault(kind) == kind \in FaultKinds /\ faults < MaxFaults /\ faults' = faults + 1

Request(q, c) ==
    /\ Goto(q, "lock")
    /\ req' = [req EXCEPT ![q] = c]

Begin(q) ==
    /\ pc[q] = "idle"
    /\ calls < MaxCalls
    /\ \/ \E b \in Batches, h \in 0..Len(log) :
            "push" \in Kinds /\ Request(q, [kind |-> "push", ops |-> b, head |-> h])
       \/ \E p \in Paths, d \in Data, w \in Tokens :
            "put" \in Kinds /\ Request(q, [kind |-> "put", path |-> p, data |-> d, want |-> w])
       \/ \E p \in Paths, w \in Tokens \ {0} :
            "delete" \in Kinds /\ Request(q, [kind |-> "delete", path |-> p, want |-> w])
       \/ \E p \in Paths :
            "undelete" \in Kinds /\ Request(q, [kind |-> "undelete", path |-> p])
    /\ reply' = [reply EXCEPT ![q] = "none"]
    /\ calls' = calls + 1
    /\ UNCHANGED <<storage, tree, lock, progress, pull, pulls, faults, history>>

\* Mutant: the lock is not waited for.
LockAnyway(q) ==
    /\ pc[q] = "lock"
    /\ lock' = [lock EXCEPT ![On[q]] = q]
    /\ before' = [before EXCEPT ![q] = Content]
    /\ blind' = [blind EXCEPT ![q] = {}]
    /\ Goto(q, IF req[q].kind = "push" THEN "head" ELSE "check")
    /\ UNCHANGED <<storage, tree, req, progress, reply, pull, counters, log, spoiled,
                   vanished, stale>>

Lock(q) == lock[On[q]] = Free /\ LockAnyway(q)

-----------------------------------------------------------------------------
(* Push: check the head, plan *)

CheckHead(q) ==
    /\ pc[q] = "head"
    /\ head = req[q].head
    /\ at' = [at EXCEPT ![q] = head]
    /\ Goto(q, "inventory")
    /\ UNCHANGED <<storage, tree, lock, req, have, plan, i, seen, undo, mixed, reply, pull,
                   counters, history>>

RefuseHead(q) == pc[q] = "head" /\ head # req[q].head /\ Refuse(q, "conflict")

Inventory(q) ==
    /\ pc[q] = "inventory"
    /\ have' = [have EXCEPT ![q] = Present]
    /\ Goto(q, "plan")
    /\ UNCHANGED <<storage, tree, lock, req, at, plan, i, seen, undo, mixed, reply, pull,
                   counters, history>>

Op(q) == req[q].ops[i[q]]

\* A stale version, or a delete of nothing, fails the whole batch here.
Accepts(q) ==
    LET v == file[Op(q).path].cur IN
    IF Op(q).want = Infer THEN Op(q).op = "put" \/ v # 0 ELSE Op(q).want = v

Counted(q) ==
    IF Op(q).op = "put" THEN have[q] \cup {Op(q).path} ELSE have[q] \ {Op(q).path}

\* Mutant: the batch is judged before its last operation is counted.
FitsBefore(q) == Cardinality(have[q]) <= MaxFiles
Fits(q) == Cardinality(Counted(q)) <= MaxFiles

PlanOp(q) ==
    /\ pc[q] = "plan"
    /\ Accepts(q)
    /\ plan' = [plan EXCEPT ![q] = Append(@, [Op(q) EXCEPT !.want = file[Op(q).path].cur])]
    /\ have' = [have EXCEPT ![q] = Counted(q)]
    /\ \/ /\ i[q] < Len(req[q].ops)
          /\ i' = [i EXCEPT ![q] = @ + 1]
          /\ UNCHANGED pc
       \/ /\ i[q] = Len(req[q].ops)
          /\ Fits(q)
          /\ i' = [i EXCEPT ![q] = 1]
          /\ Goto(q, "applyRead")
    /\ UNCHANGED <<storage, tree, lock, req, at, seen, undo, mixed, reply, pull, counters, history>>

RefusePlan(q) ==
    /\ pc[q] = "plan"
    /\ \/ ~Accepts(q)
       \/ i[q] = Len(req[q].ops) /\ ~Fits(q)
    /\ Refuse(q, "refused")

-----------------------------------------------------------------------------
(* Push: apply *)

Current(q) == plan[q][i[q]]

\* livePutVersion: what a rollback will need to know of the path.  A read that
\* fails tells it that there is no file.
ApplyRead(q) ==
    /\ pc[q] = "applyRead"
    /\ \/ seen' = [seen EXCEPT ![q] = file[Current(q).path].cur] /\ UNCHANGED faults
       \/ Fault("unread") /\ seen' = [seen EXCEPT ![q] = 0]
    /\ Goto(q, "applyWrite")
    /\ UNCHANGED <<storage, tree, lock, req, at, have, plan, i, undo, mixed, reply, pull,
                   calls, pulls, history>>

\* The file log turns an operation down: its version moved, or there is nothing to delete.
TurnsDown(o) == file[o.path].cur # o.want \/ (o.op = "delete" /\ o.want = 0)

\* The compare-and-swap of the file log, for one operation.
Swap(o) ==
    /\ ~TurnsDown(o)
    /\ \/ o.op = "put" /\ Put(o.path, o.data)
       \/ o.op = "delete" /\ file' = [file EXCEPT ![o.path] = Removed(@)]

\* Mutant: a removal is not mirrored.
MirrorWrites(q, p, d) ==
    /\ tree' = IF d = NoData THEN tree ELSE [tree EXCEPT ![On[q]][p] = d]
    /\ stale' = [stale EXCEPT ![On[q]] = @ \ {p}]
    /\ UNCHANGED faults
Mirror(q, p, d) ==
    /\ tree' = [tree EXCEPT ![On[q]][p] = d]
    /\ stale' = [stale EXCEPT ![On[q]] = @ \ {p}]
    /\ UNCHANGED faults

\* The mirror is not brought up to date, and nobody is told: a file of the tree
\* that could not be removed, or a restored file that could not be read back.
MissesMirror(q, p) ==
    /\ Fault("unmirrored")
    /\ stale' = [stale EXCEPT ![On[q]] = @ \cup {p}]
    /\ UNCHANGED tree

\* Mutant: a put over an existing file is undone by removing it.
UndoAlwaysCreated(q) ==
    [path |-> Current(q).path, how |-> IF Current(q).op = "delete" THEN "restore" ELSE "remove",
     ver |-> seen[q]]
UndoOf(q) ==
    [path |-> Current(q).path,
     how |-> CASE Current(q).op = "delete" -> "restore"
               [] Current(q).op = "put" /\ seen[q] = 0 -> "remove"
               [] OTHER -> "rewrite",
     ver |-> seen[q]]

\* A put whose read failed replaces a file that it takes for absent.
TakenForAbsent(q) ==
    {p \in {Current(q).path} : Current(q).op = "put" /\ seen[q] = 0 /\ file[p].cur # 0}

ApplyWrite(q) ==
    /\ pc[q] = "applyWrite"
    /\ Swap(Current(q))
    /\ \/ Mirror(q, Current(q).path, Current(q).data)
       \/ Current(q).op = "delete" /\ MissesMirror(q, Current(q).path)
    /\ undo' = [undo EXCEPT ![q] = Append(@, UndoOf(q))]
    /\ blind' = [blind EXCEPT ![q] = @ \cup TakenForAbsent(q)]
    /\ IF i[q] < Len(plan[q])
       THEN i' = [i EXCEPT ![q] = @ + 1] /\ Goto(q, "applyRead")
       ELSE Goto(q, "commit") /\ UNCHANGED i
    /\ UNCHANGED <<head, lock, req, at, have, plan, seen, mixed, reply, pull, calls, pulls,
                   before, log, spoiled, vanished>>

\* The operation is refused or fails, and what was applied before is undone.
ApplyFails(q) ==
    /\ pc[q] = "applyWrite"
    /\ \/ TurnsDown(Current(q)) /\ UNCHANGED <<file, faults>>
       \/ Fault("before") /\ UNCHANGED file
       \/ Fault("after") /\ Swap(Current(q))
    /\ Goto(q, "roll")
    /\ UNCHANGED <<head, tree, lock, req, progress, reply, pull, calls, pulls, history>>

-----------------------------------------------------------------------------
(* The head *)

SetHead(q) ==
    /\ head = at[q]
    /\ head' = Len(log) + 1
    /\ log' = Append(log, file)
    /\ vanished' = {}

Commit(q) ==
    /\ pc[q] = "commit"
    /\ SetHead(q)
    /\ Reply(q, "ok")
    /\ UNCHANGED <<file, tree, pull, counters, before, spoiled, blind, stale>>

CommitFails(q) ==
    /\ pc[q] = "commit"
    /\ \/ head # at[q] /\ UNCHANGED <<head, log, vanished, faults>>
       \/ Fault("before") /\ UNCHANGED <<head, log, vanished>>
       \/ Fault("after") /\ SetHead(q)
    /\ Goto(q, "roll")
    /\ UNCHANGED <<file, tree, lock, req, progress, reply, pull, calls, pulls, before, spoiled,
                   blind, stale>>

-----------------------------------------------------------------------------
(* Push: roll back, newest first.  A step that fails is noted and skipped. *)

Last(s) == s[Len(s)]
Undoing(q, how) == pc[q] = "roll" /\ undo[q] # <<>> /\ Last(undo[q]).how = how

Pop(q) == undo' = [undo EXCEPT ![q] = SubSeq(@, 1, Len(@) - 1)]
Popped(q) ==
    /\ Pop(q) /\ Goto(q, "roll")
    /\ UNCHANGED <<head, lock, req, at, have, plan, i, seen, reply, pull, calls, pulls, outcome>>

Undone(u) ==
    CASE u.how = "restore" -> Restored(file[u.path])
      [] u.how = "remove" -> Removed(file[u.path])
      [] u.how = "rewrite" -> Written(file[u.path], file[u.path].vers[u.ver])

UndoFile(u) == file' = [file EXCEPT ![u.path] = Undone(u)]

UndoLast(q) ==
    /\ UndoFile(Last(undo[q]))
    /\ \/ Mirror(q, Last(undo[q]).path, Body(Undone(Last(undo[q]))))
       \/ Last(undo[q]).how \in {"restore", "remove"} /\ MissesMirror(q, Last(undo[q]).path)
    /\ UNCHANGED mixed
    /\ Popped(q)

RollRestore(q) == Undoing(q, "restore") /\ UndoLast(q)

RollRead(q) ==
    /\ Undoing(q, "remove") \/ Undoing(q, "rewrite")
    /\ file[Last(undo[q]).path].cur # 0
    /\ seen' = [seen EXCEPT ![q] = file[Last(undo[q]).path].cur]
    /\ Goto(q, "rollWrite")
    /\ UNCHANGED <<storage, tree, lock, req, at, have, plan, i, undo, mixed, reply, pull,
                   counters, history>>

\* The file is still what RollRead saw.
Unmoved(q) == file[Last(undo[q]).path].cur = seen[q]

RollWrite(q) == pc[q] = "rollWrite" /\ Unmoved(q) /\ UndoLast(q)

\* Mutant: a failed undo step is forgotten.
RollForgets(q) == UNCHANGED mixed
Noted(q) == mixed' = [mixed EXCEPT ![q] = TRUE]

RollFails(q) ==
    /\ \/ /\ Undoing(q, "remove") \/ Undoing(q, "rewrite")
          /\ \/ file[Last(undo[q]).path].cur = 0 /\ UNCHANGED faults
             \/ file[Last(undo[q]).path].cur # 0 /\ Fault("before")
          /\ UNCHANGED file
       \/ /\ pc[q] = "rollWrite"
          /\ ~Unmoved(q)
          /\ UNCHANGED <<file, faults>>
       \/ /\ Undoing(q, "restore") \/ (pc[q] = "rollWrite" /\ Unmoved(q))
          /\ \/ Fault("before") /\ UNCHANGED file
             \/ Fault("after") /\ UndoFile(Last(undo[q]))
    /\ Noted(q)
    /\ UNCHANGED <<tree, stale>>
    /\ Popped(q)

RollDone(q) ==
    /\ pc[q] = "roll"
    /\ undo[q] = <<>>
    /\ Reply(q, IF mixed[q] THEN "mixed" ELSE "failed")
    /\ spoiled' = (spoiled \/ mixed[q])
    /\ vanished' = vanished \cup (blind[q] \ Present)
    /\ UNCHANGED <<storage, tree, pull, counters, before, log, blind, stale>>

-----------------------------------------------------------------------------
(* Single-file calls: check the quota, write, let the lock go, bump the head *)

CheckQuota(q) ==
    /\ pc[q] = "check"
    /\ req[q].kind = "put" => Cardinality(Present \cup {req[q].path}) <= MaxFiles
    /\ Goto(q, "write")
    /\ UNCHANGED <<storage, tree, lock, req, progress, reply, pull, counters, history>>

RefuseQuota(q) ==
    /\ pc[q] = "check"
    /\ req[q].kind = "put" /\ Cardinality(Present \cup {req[q].path}) > MaxFiles
    /\ Refuse(q, "refused")

\* What the file log makes of the call, if it accepts it.
FileCall(c) ==
    \/ c.kind = "put" /\ file[c.path].cur = c.want /\ Put(c.path, c.data)
    \/ /\ c.kind = "delete" /\ file[c.path].cur = c.want
       /\ file' = [file EXCEPT ![c.path] = Removed(@)]
    \/ /\ c.kind = "undelete" /\ file[c.path].vers # <<>>
       /\ file' = [file EXCEPT ![c.path] = Restored(@)]

Rejects(c) ==
    \/ c.kind \in {"put", "delete"} /\ file[c.path].cur # c.want
    \/ c.kind = "undelete" /\ file[c.path].vers = <<>>

WriteFile(q) ==
    /\ pc[q] = "write"
    /\ FileCall(req[q])
    /\ \/ Mirror(q, req[q].path, Body(file'[req[q].path]))
       \/ req[q].kind = "delete" /\ MissesMirror(q, req[q].path)
    /\ Unlock(q)
    /\ Goto(q, "bumpRead")
    /\ UNCHANGED <<head, req, progress, reply, pull, calls, pulls, outcome>>

WriteFails(q) ==
    /\ pc[q] = "write"
    /\ \/ Rejects(req[q]) /\ UNCHANGED <<file, faults>>
       \/ Fault("before") /\ UNCHANGED file
       \/ Fault("after") /\ FileCall(req[q])
    /\ Reply(q, "failed")
    /\ UNCHANGED <<head, tree, pull, calls, pulls, history>>

BumpRead(q) ==
    /\ pc[q] = "bumpRead"
    /\ at' = [at EXCEPT ![q] = head]
    /\ Goto(q, "bumpSet")
    /\ UNCHANGED <<storage, tree, lock, req, have, plan, i, seen, undo, mixed, reply, pull,
                   counters, history>>

\* Whatever becomes of the head, the file was written and the answer is success.
BumpSet(q) ==
    /\ pc[q] = "bumpSet"
    /\ \/ SetHead(q) /\ UNCHANGED faults
       \/ head # at[q] /\ UNCHANGED <<head, log, vanished, faults>>
       \/ Fault("before") /\ UNCHANGED <<head, log, vanished>>
    /\ Reply(q, "ok")
    /\ UNCHANGED <<file, tree, pull, calls, pulls, before, spoiled, blind, stale>>

-----------------------------------------------------------------------------
(* A puller: Changes reads the head and then the listing, and each file is *)
(* fetched by a call of its own.                                           *)

PullHead(u) ==
    /\ pull[u].pc \in {"idle", "done"}
    /\ pulls < MaxPulls
    /\ pulls' = pulls + 1
    /\ pull' = [pull EXCEPT ![u] = [pc |-> "list", head |-> head]]
    /\ UNCHANGED <<storage, tree, lock, pc, req, progress, reply, calls, faults, history>>

PullList(u) ==
    /\ pull[u].pc = "list"
    /\ pull' = [pull EXCEPT ![u] =
                    [pc |-> "fetch", head |-> @.head, todo |-> Present, got |-> <<>>]]
    /\ UNCHANGED <<storage, tree, lock, pc, req, progress, reply, counters, history>>

PullFetch(u) ==
    /\ pull[u].pc = "fetch"
    /\ \E p \in pull[u].todo :
        /\ file[p].cur # 0
        /\ pull' = [pull EXCEPT ![u].todo = @ \ {p},
                                ![u].got = Append(@, [path |-> p, ver |-> file[p].cur,
                                                      data |-> Body(file[p])])]
    /\ UNCHANGED <<storage, tree, lock, pc, req, progress, reply, counters, history>>

\* Mutant: the client asks for the head once it is done.
LastHeadAsked(u) == IF u \in Pullers THEN head ELSE 0
\* The head a client remembers for the content it pulled.
LastHead(u) == pull[u].head

PullEnd(u) ==
    /\ pull[u].pc = "fetch"
    /\ pull[u].todo = {}
    /\ pull' = [pull EXCEPT ![u].pc = "done", ![u].head = LastHead(u)]
    /\ UNCHANGED <<storage, tree, lock, pc, req, progress, reply, counters, history>>

\* A listed file is gone by the time it is fetched.
PullFails(u) ==
    /\ pull[u].pc = "fetch"
    /\ \E p \in pull[u].todo : file[p].cur = 0
    /\ pull' = [pull EXCEPT ![u] = NoPull]
    /\ UNCHANGED <<storage, tree, lock, pc, req, progress, reply, counters, history>>

-----------------------------------------------------------------------------
\* The process dies: its requests are gone, its lock with them.
Crash(r) ==
    LET mine == {q \in Requests : On[q] = r} IN
    /\ Fault("crash")
    /\ \E q \in mine : pc[q] # "idle"
    /\ pc' = [q \in Requests |-> IF q \in mine THEN "idle" ELSE pc[q]]
    /\ req' = [q \in Requests |-> IF q \in mine THEN NoReq ELSE req[q]]
    /\ at' = [q \in Requests |-> IF q \in mine THEN 0 ELSE at[q]]
    /\ have' = [q \in Requests |-> IF q \in mine THEN {} ELSE have[q]]
    /\ plan' = [q \in Requests |-> IF q \in mine THEN <<>> ELSE plan[q]]
    /\ i' = [q \in Requests |-> IF q \in mine THEN 1 ELSE i[q]]
    /\ seen' = [q \in Requests |-> IF q \in mine THEN 0 ELSE seen[q]]
    /\ undo' = [q \in Requests |-> IF q \in mine THEN <<>> ELSE undo[q]]
    /\ mixed' = [q \in Requests |-> IF q \in mine THEN FALSE ELSE mixed[q]]
    /\ lock' = [lock EXCEPT ![r] = Free]
    /\ spoiled' = TRUE
    /\ UNCHANGED <<storage, tree, reply, pull, calls, pulls, before, log, blind, vanished, stale>>

Push(q) ==
    \/ CheckHead(q) \/ RefuseHead(q) \/ Inventory(q) \/ PlanOp(q) \/ RefusePlan(q)
    \/ ApplyRead(q) \/ ApplyWrite(q) \/ ApplyFails(q) \/ Commit(q) \/ CommitFails(q)
Rollback(q) == RollRestore(q) \/ RollRead(q) \/ RollWrite(q) \/ RollFails(q) \/ RollDone(q)
FileCalls(q) ==
    CheckQuota(q) \/ RefuseQuota(q) \/ WriteFile(q) \/ WriteFails(q) \/ BumpRead(q) \/ BumpSet(q)
Serve(q) == Lock(q) \/ Push(q) \/ Rollback(q) \/ FileCalls(q)
Pull(u) == PullHead(u) \/ PullList(u) \/ PullFetch(u) \/ PullEnd(u) \/ PullFails(u)

Next ==
    \/ \E q \in Requests : Begin(q) \/ Serve(q)
    \/ \E u \in Pullers : Pull(u)
    \/ \E r \in Replicas : Crash(r)

Spec == Init /\ [][Next]_vars

-----------------------------------------------------------------------------
(* Properties *)

TypeOK ==
    /\ \A p \in Paths : file[p].vers \in Seq(Data) /\ file[p].cur \in 0..Len(file[p].vers)
    /\ head \in 0..Len(log)
    /\ tree \in [Replicas -> [Paths -> Data \cup {NoData}]]
    /\ lock \in [Replicas -> Requests \cup {Free}]
    /\ pc \in [Requests -> {"idle", "lock", "head", "inventory", "plan", "applyRead", "applyWrite",
                            "commit", "roll", "rollWrite", "check", "write", "bumpRead", "bumpSet"}]
    /\ reply \in [Requests -> {"none", "ok", "conflict", "refused", "failed", "mixed"}]
    /\ at \in [Requests -> 0..Len(log)]
    /\ have \in [Requests -> SUBSET Paths]
    /\ \A q \in Requests : Len(undo[q]) <= Len(plan[q]) /\ i[q] \in 1..MaxBatch
    /\ mixed \in [Requests -> BOOLEAN]
    /\ spoiled \in BOOLEAN
    /\ blind \in [Requests -> SUBSET Paths] /\ vanished \subseteq Paths
    /\ stale \in [Replicas -> SUBSET Paths]

\* A content after a batch of operations on paths that differ.
Overlaid(c, ops) ==
    [p \in Paths |->
        IF \E k \in DOMAIN ops : ops[k].path = p
        THEN ops[CHOOSE k \in DOMAIN ops : ops[k].path = p].data
        ELSE c[p]]

\* With one replica a push is atomic: acknowledged, the space holds its whole
\* batch on top of what it held when the push got the lock; refused or failed
\* without calling the space mixed, exactly what it held, but for a file that
\* it put over and took for absent, a read having failed: that file may be gone.
PushIsAtomic ==
    [][\A q \in Requests :
            req[q].kind = "push" /\ reply'[q] # reply[q] =>
                CASE reply'[q] = "ok" ->
                        /\ Cardinality({req[q].ops[k].path : k \in DOMAIN req[q].ops}) = Len(req[q].ops)
                        /\ Content' = Overlaid(before[q], req[q].ops)
                  [] reply'[q] \in {"conflict", "refused", "failed"} ->
                        \A p \in Paths :
                            \/ Content'[p] = before[q][p]
                            \/ p \in blind[q] /\ Content'[p] = NoData
                  [] OTHER -> TRUE]_vars

\* No call is past its lock, and none gave up on what it had applied.
AtRest == (\A q \in Requests : pc[q] \in {"idle", "lock"}) /\ ~spoiled

\* The working tree mirrors the space whenever no call is at work, pushes
\* that failed and were rolled back included, but for a path that it missed and
\* nobody was told of; until that path is written again.
TreeMirrors ==
    AtRest => \A r \in Replicas : \A p \in Paths \ stale[r] : tree[r][p] = Content[p]

\* No push takes the space past its quota, in whatever order it puts and
\* deletes, and no rollback does.
QuotaHolds == AtRest => Cardinality(Present) <= MaxFiles

ContentAt(h) == IF h = 0 THEN [p \in Paths |-> NoData] ELSE [p \in Paths |-> Body(log[h][p])]

\* The head names the content: a client that sees the head unchanged has
\* nothing to pull, though pushes failed since; all but a file that a failed
\* push took for absent and removed.  Pushes alone keep it; that a
\* head bump, outside the lock, breaks it refutes what the comment at the
\* commit point of Push says of a head that could not advance.
HeadNamesContent ==
    AtRest => \A p \in Paths \ vanished : Content[p] = ContentAt(head)[p]

Pulled(u) == IF pull[u].pc \in {"fetch", "done"} THEN {pull[u].got[k] : k \in DOMAIN pull[u].got} ELSE {}

\* What a client holds is never older than the head it remembers for it: every
\* file is at least the version that head stood for, so a client that finds the
\* head unchanged has missed nothing.
PullNotStale ==
    \A u \in Pullers : \A e \in Pulled(u) :
        pull[u].head # 0 => e.ver >= log[pull[u].head][e.path].cur

\* What the comment on Push says of its phases: what a puller fetches was
\* committed by some head.
NothingBeforeCommit ==
    \A u \in Pullers : \A e \in Pulled(u) :
        \E h \in 0..Len(log) : ContentAt(h)[e.path] = e.data

\* Every call is answered, or dies with its process: the lock always comes back.
FairSpec == Spec /\ \A q \in Requests : WF_vars(Serve(q)) /\ SF_vars(Lock(q))
CallsEnd == \A q \in Requests : pc[q] # "idle" ~> pc[q] = "idle"
=============================================================================
