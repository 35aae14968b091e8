------------------------- MODULE SpaceServiceProofs -------------------------
(***************************************************************************)
(* Theorems about SpaceService that hold whatever clients call, on any     *)
(* number of replicas, with any faults.                                    *)
(***************************************************************************)
EXTENDS SpaceService, SequenceTheorems, TLAPS

(* The inductive invariant *)

Files == [cur : Nat, vers : Seq(Data)]
Listings == [Paths -> Files]

Batched == {b \in Seq(Ops) : Len(b) \in 1..MaxBatch}
PushReqs == [kind : {"push"}, ops : Batched, head : Nat]
FileReqs == [kind : {"put"}, path : Paths, data : Data, want : Nat]
                \cup [kind : {"delete"}, path : Paths, want : Nat]
                \cup [kind : {"undelete"}, path : Paths]
PlanOps == [op : {"put"}, path : Paths, data : Data, want : Nat]
               \cup [op : {"delete"}, path : Paths, data : {NoData}, want : Nat]
Undos == [path : Paths, how : {"restore", "remove", "rewrite"}, ver : Nat]

\* Where a push has a plan, and where it undoes what it applied; where a call
\* holds the lock of the space.
Applying == {"applyRead", "applyWrite", "commit"}
Rolling == {"roll", "rollWrite"}
Pushing == {"head", "inventory", "plan"} \cup Applying \cup Rolling
Filing == {"check", "write", "bumpRead", "bumpSet"}
Pcs == {"idle", "lock"} \cup Pushing \cup Filing
Holds(q) == pc[q] \in Pushing \cup {"check", "write"}

\* The paths that the properties except.
Excused ==
    /\ blind \in [Requests -> SUBSET Paths] /\ vanished \subseteq Paths
    /\ stale \in [Replicas -> SUBSET Paths]

Shaped ==
    /\ file \in Listings
    /\ log \in Seq(Listings) /\ head \in 0..Len(log)
    /\ tree \in [Replicas -> [Paths -> Data \cup {NoData}]]
    /\ lock \in [Replicas -> Requests \cup {Free}]
    /\ pc \in [Requests -> Pcs]
    /\ req \in [Requests -> {NoReq} \cup PushReqs \cup FileReqs]
    /\ at \in [Requests -> 0..Len(log)]
    /\ have \in [Requests -> SUBSET Paths]
    /\ plan \in [Requests -> Seq(PlanOps)]
    /\ i \in [Requests -> 1..MaxBatch]
    /\ seen \in [Requests -> Nat]
    /\ undo \in [Requests -> Seq(Undos)]
    /\ mixed \in [Requests -> BOOLEAN]
    /\ reply \in [Requests -> {"none", "ok", "conflict", "refused", "failed", "mixed"}]
    /\ before \in [Requests -> [Paths -> Data \cup {NoData}]]
    /\ spoiled \in BOOLEAN
    /\ Excused

\* A path is deleted, or its newest content is current.
Settled == \A p \in Paths : file[p].cur \in {0, Len(file[p].vers)}

\* What a call asked for.
Asked(q) ==
    /\ pc[q] = "idle" => req[q] = NoReq
    /\ pc[q] = "lock" => req[q] \in PushReqs \cup FileReqs
    /\ pc[q] \in Pushing => req[q] \in PushReqs
    /\ pc[q] \in Filing => req[q] \in FileReqs

\* How far it is: the operations planned and those applied.
Progress(q) ==
    /\ Len(undo[q]) <= Len(plan[q])
    /\ pc[q] \notin {"plan"} \cup Applying \cup Rolling => plan[q] = <<>> /\ i[q] = 1
    /\ pc[q] = "plan" => i[q] = Len(plan[q]) + 1 /\ i[q] <= Len(req[q].ops)
    /\ pc[q] \in Applying => Len(plan[q]) = Len(req[q].ops) /\ i[q] <= Len(plan[q])
    /\ pc[q] \notin Applying \cup Rolling => undo[q] = <<>>
    /\ pc[q] \in {"applyRead", "applyWrite"} => i[q] = Len(undo[q]) + 1
    /\ pc[q] = "commit" => Len(undo[q]) = Len(plan[q])
    /\ pc[q] = "rollWrite" => undo[q] # <<>> /\ Last(undo[q]).how # "restore"
    /\ pc[q] \notin Rolling => ~mixed[q]

\* The contents a rollback will write again are there.
Readable(q) ==
    /\ \A k \in DOMAIN undo[q] :
        undo[q][k].how = "rewrite" => undo[q][k].ver \in 1..Len(file[undo[q][k].path].vers)
    /\ pc[q] = "applyWrite" => seen[q] <= Len(file[Current(q).path].vers)

\* A call past its lock has it.
Locked == \A q \in Requests : Holds(q) => lock[On[q]] = q

TInv ==
    /\ Shaped
    /\ Settled
    /\ \A q \in Requests : Asked(q) /\ Progress(q) /\ Readable(q)

-----------------------------------------------------------------------------
(* Sequences and requests *)

\* The last element of a sequence, and the sequence without it.
LEMMA LastAndFront ==
    ASSUME NEW S, NEW s \in Seq(S), s # <<>>
    PROVE  /\ Len(s) \in Nat \ {0}
           /\ Last(s) \in S
           /\ SubSeq(s, 1, Len(s) - 1) \in Seq(S)
           /\ Len(SubSeq(s, 1, Len(s) - 1)) = Len(s) - 1
           /\ \A k \in 1..Len(s) - 1 : SubSeq(s, 1, Len(s) - 1)[k] = s[k]
<1>1. Len(s) \in Nat /\ Len(s) # 0
    BY EmptySeq
<1>2. DOMAIN s = 1..Len(s) /\ s \in [1..Len(s) -> S]
    BY LenProperties
<1> QED
    BY <1>1, <1>2, SubSeqProperties, 1 \in 1..Len(s) + 1, Len(s) - 1 \in 0..Len(s) DEF Last

\* A batch is a sequence of operations, and not an empty one.
LEMMA BatchIsSeq ==
    ASSUME NEW b \in Batches
    PROVE  b \in Batched
<1>1. PICK n \in 1..MaxBatch : b \in [1..n -> Ops]
    BY DEF Batches
<1>2. b \in Seq(Ops)
    BY <1>1, SeqDef
<1>3. Len(b) = n
    BY <1>1, <1>2, LenProperties
<1> QED
    BY <1>1, <1>2, <1>3 DEF Batched

\* What a call plans is an operation whose version is a number.
LEMMA OpIsPlanned ==
    ASSUME NEW o \in Ops, NEW n \in Nat
    PROVE  /\ [o EXCEPT !.want = n] \in PlanOps
           /\ [o EXCEPT !.want = n].path = o.path
           /\ [o EXCEPT !.want = n].op = o.op
           /\ [o EXCEPT !.want = n].data = o.data
           /\ [o EXCEPT !.want = n].want = n
BY DEF Ops, PlanOps

-----------------------------------------------------------------------------
(* What a step leaves alone *)

\* Nothing of a call changes.
Same(s) ==
    /\ pc'[s] = pc[s] /\ req'[s] = req[s] /\ plan'[s] = plan[s] /\ undo'[s] = undo[s]
    /\ i'[s] = i[s] /\ seen'[s] = seen[s] /\ mixed'[s] = mixed[s] /\ have'[s] = have[s]
    /\ before'[s] = before[s] /\ reply'[s] = reply[s] /\ at'[s] = at[s]
    /\ blind'[s] = blind[s]

\* A step of a call is none of another call.
LEMMA OthersSame ==
    ASSUME Shaped, NEW q \in Requests, NEW s \in Requests, s # q, Begin(q) \/ Serve(q)
    PROVE  Same(s)
<1> USE DEF Shaped, Excused, Same, progress, history, outcome, counters, storage, Goto, Refuse, Reply
<1>1. CASE Begin(q)
    BY <1>1 DEF Begin, Request
<1>2. CASE Lock(q) \/ CheckHead(q) \/ RefuseHead(q) \/ Inventory(q) \/ PlanOp(q) \/ RefusePlan(q)
    BY <1>2 DEF Lock, LockAnyway, CheckHead, RefuseHead, Inventory, PlanOp, RefusePlan
<1>3. CASE ApplyRead(q) \/ ApplyWrite(q) \/ ApplyFails(q)
    BY <1>3 DEF ApplyRead, ApplyWrite, ApplyFails
<1>4. CASE Commit(q) \/ CommitFails(q)
    BY SMTT(30), <1>4 DEF Commit, CommitFails
<1>5. CASE Rollback(q)
    BY <1>5 DEF Rollback, RollRestore, RollRead, RollWrite, RollFails, RollDone, UndoLast, Popped, Pop, Noted
<1>6. CASE FileCalls(q)
    BY SMTT(30), <1>6 DEF FileCalls, CheckQuota, RefuseQuota, WriteFile, WriteFails, BumpRead, BumpSet
<1> QED
    BY <1>1, <1>2, <1>3, <1>4, <1>5, <1>6 DEF Serve, Push

\* A call of a process that dies is gone; the others go on.
LEMMA CrashSame ==
    ASSUME NEW r \in Replicas, NEW s \in Requests, Crash(r), Shaped
    PROVE  /\ On[s] # r => Same(s)
           /\ On[s] = r => /\ pc'[s] = "idle" /\ req'[s] = NoReq /\ plan'[s] = <<>>
                           /\ undo'[s] = <<>> /\ i'[s] = 1 /\ ~mixed'[s]
BY DEF Crash, Same, Shaped, history, outcome

LEMMA PullSame ==
    ASSUME NEW u, Pull(u)
    PROVE  UNCHANGED <<storage, tree, lock, pc, req, progress, reply, history>>
BY DEF Pull, PullHead, PullList, PullFetch, PullEnd, PullFails, counters

-----------------------------------------------------------------------------
(* What a step does to a file: a write, a removal or a restore *)

Moved(f, g) == g = Removed(f) \/ g = Restored(f) \/ \E d \in Data : g = Written(f, d)

\* A version stays readable with its content, and a new one is the newest.
LEMMA MovedFile ==
    ASSUME NEW f \in Files, NEW g, Moved(f, g)
    PROVE  /\ g \in Files
           /\ g.cur \in {0, Len(g.vers)}
           /\ Len(f.vers) <= Len(g.vers)
           /\ \A k \in 1..Len(f.vers) : g.vers[k] = f.vers[k]
           /\ f.vers # <<>> => g.vers # <<>>
<1>1. f.cur \in Nat /\ f.vers \in Seq(Data) /\ Len(f.vers) \in Nat
    BY LenProperties DEF Files
<1>2. ASSUME NEW d \in Data
      PROVE  /\ Append(f.vers, d) \in Seq(Data)
             /\ Len(Append(f.vers, d)) = Len(f.vers) + 1
             /\ \A k \in 1..Len(f.vers) : Append(f.vers, d)[k] = f.vers[k]
             /\ Append(f.vers, d) # <<>>
    BY <1>1, AppendProperties, EmptySeq
<1>3. CASE g = Removed(f)
    BY <1>1, <1>3 DEF Removed, Files
<1>4. CASE g = Restored(f)
    BY <1>1, <1>4 DEF Restored, Files
<1>5. ASSUME NEW d \in Data, g = Written(f, d)
      PROVE  g.vers = Append(f.vers, d) /\ g.cur = Len(f.vers) + 1 /\ g \in Files
    BY <1>1, <1>2, <1>5 DEF Written, Files
<1> QED
    BY <1>1, <1>2, <1>3, <1>4, <1>5 DEF Moved

FileStep ==
    \E p \in Paths : Moved(file[p], file'[p]) /\ file' = [file EXCEPT ![p] = file'[p]]

\* The current content is one that was written.
LEMMA BodyIsData ==
    ASSUME NEW f \in Files, f.cur \in {0, Len(f.vers)}
    PROVE  /\ f.cur \in Nat /\ Len(f.vers) \in Nat
           /\ Body(f) \in Data \cup {NoData}
           /\ Body(f) # NoData <=> f.cur # 0
<1>1. f.cur \in Nat /\ f.vers \in Seq(Data) /\ Len(f.vers) \in Nat
    BY LenProperties DEF Files
<1>2. ASSUME f.cur # 0 PROVE f.vers[f.cur] \in Data
    BY <1>1, <1>2, ElementOfSeq
<1> QED
    BY <1>1, <1>2, SpaceServiceAssumption DEF Body

LEMMA UndoMoves ==
    ASSUME Shaped, NEW u \in Undos,
           u.how = "rewrite" => u.ver \in 1..Len(file[u.path].vers)
    PROVE  Moved(file[u.path], Undone(u)) /\ file[u.path] \in Files /\ u.path \in Paths
<1>1. u.path \in Paths /\ u.how \in {"restore", "remove", "rewrite"} /\ file[u.path] \in Files
    BY DEF Undos, Shaped, Listings
<1>2. CASE u.how = "rewrite"
    <2>1. file[u.path].vers \in Seq(Data)
        BY <1>1 DEF Files
    <2>2. file[u.path].vers[u.ver] \in Data
        BY <1>2, <2>1, ElementOfSeq
    <2> QED
        BY <1>1, <1>2, <2>2 DEF Moved, Undone
<1> QED
    BY <1>1, <1>2 DEF Moved, Undone

\* The operation a push is at, and the undo step a rollback is at.
LEMMA CurrentIsPlanned ==
    ASSUME Shaped, NEW q \in Requests, Progress(q), pc[q] \in Applying
    PROVE  /\ i[q] \in DOMAIN plan[q] /\ DOMAIN plan[q] = 1..Len(plan[q]) /\ Len(plan[q]) \in Nat
           /\ Current(q) \in PlanOps /\ Current(q).path \in Paths /\ Current(q).want \in Nat
           /\ file[Current(q).path] \in Files
<1>1. plan[q] \in Seq(PlanOps) /\ i[q] \in 1..MaxBatch /\ MaxBatch \in Nat
    BY SpaceServiceAssumption DEF Shaped
<1>2. Len(plan[q]) \in Nat /\ DOMAIN plan[q] = 1..Len(plan[q])
    BY <1>1, LenProperties
<1>3. i[q] \in 1..Len(plan[q])
    BY <1>1, <1>2 DEF Progress
<1>4. Current(q) \in PlanOps
    BY <1>1, <1>3, ElementOfSeq DEF Current
<1>5. Current(q).path \in Paths /\ Current(q).want \in Nat
    BY <1>4 DEF PlanOps
<1> QED
    BY <1>2, <1>3, <1>4, <1>5 DEF Shaped, Listings

LEMMA LastUndoIsOne ==
    ASSUME Shaped, NEW q \in Requests, Readable(q), undo[q] # <<>>
    PROVE  /\ Last(undo[q]) \in Undos /\ Last(undo[q]).path \in Paths
           /\ Len(undo[q]) \in DOMAIN undo[q]
           /\ Last(undo[q]).how = "rewrite" =>
                Last(undo[q]).ver \in 1..Len(file[Last(undo[q]).path].vers)
<1>1. undo[q] \in Seq(Undos)
    BY DEF Shaped
<1>2. Last(undo[q]) \in Undos /\ Len(undo[q]) \in Nat \ {0}
    BY <1>1, LastAndFront
<1>3. DOMAIN undo[q] = 1..Len(undo[q])
    BY <1>1, LenProperties
<1>4. Last(undo[q]) = undo[q][Len(undo[q])]
    BY DEF Last
<1> QED
    BY <1>2, <1>3, <1>4 DEF Readable, Undos

\* The operation a push plans.
LEMMA OpIsOp ==
    ASSUME Shaped, NEW q \in Requests, Asked(q), Progress(q), pc[q] = "plan"
    PROVE  /\ Op(q) \in Ops /\ Op(q).path \in Paths
           /\ req[q].ops \in Seq(Ops) /\ Len(req[q].ops) \in 1..MaxBatch /\ req[q].kind = "push"
           /\ i[q] \in 1..Len(req[q].ops)
           /\ file[Op(q).path].cur \in Nat
<1>1. req[q].ops \in Batched /\ req[q].kind = "push"
    BY DEF Asked, Pushing, PushReqs
<1>2. req[q].ops \in Seq(Ops) /\ Len(req[q].ops) \in 1..MaxBatch
    BY <1>1 DEF Batched
<1>3. i[q] \in 1..Len(req[q].ops)
    BY <1>2, SpaceServiceAssumption DEF Shaped, Progress
<1>4. Op(q) \in Ops
    BY <1>2, <1>3, ElementOfSeq DEF Op
<1>5. Op(q).path \in Paths
    BY <1>4 DEF Ops
<1> QED
    BY <1>1, <1>2, <1>3, <1>4, <1>5 DEF Shaped, Listings, Files

-----------------------------------------------------------------------------
(* What the steps do to the files and the log *)

\* Every step that touches a file moves one; no step of the log is undone.
LEMMA FilesMove ==
    ASSUME TInv, NEW q \in Requests, Begin(q) \/ Serve(q)
    PROVE  UNCHANGED file \/ FileStep
<1> USE DEF TInv, storage
<1>1. CASE Begin(q) \/ Lock(q) \/ CheckHead(q) \/ RefuseHead(q) \/ Inventory(q) \/ PlanOp(q)
           \/ RefusePlan(q) \/ ApplyRead(q) \/ Commit(q) \/ CommitFails(q) \/ RollRead(q)
           \/ RollDone(q) \/ CheckQuota(q) \/ RefuseQuota(q) \/ BumpRead(q) \/ BumpSet(q)
    BY <1>1 DEF Begin, Lock, LockAnyway, CheckHead, RefuseHead, Inventory, PlanOp, RefusePlan, Refuse,
                ApplyRead, Commit, CommitFails, RollRead, RollDone, CheckQuota, RefuseQuota,
                BumpRead, BumpSet
<1>2. ASSUME pc[q] = "applyWrite", Swap(Current(q)) PROVE FileStep
    <2>1. Current(q) \in PlanOps /\ Current(q).path \in Paths
        BY <1>2, CurrentIsPlanned DEF Applying
    <2>2. CASE Current(q).op = "put" /\ Put(Current(q).path, Current(q).data)
        BY <2>1, <2>2 DEF PlanOps, FileStep, Moved, Put, Shaped, Listings
    <2>3. CASE file' = [file EXCEPT ![Current(q).path] = Removed(@)]
        BY <2>1, <2>3 DEF FileStep, Moved, Shaped, Listings
    <2> QED
        BY <1>2, <2>2, <2>3 DEF Swap
<1>3. ASSUME undo[q] # <<>>, UndoFile(Last(undo[q])) PROVE FileStep
    <2>1. /\ Moved(file[Last(undo[q]).path], Undone(Last(undo[q])))
          /\ Last(undo[q]).path \in Paths
        BY <1>3, LastUndoIsOne, UndoMoves
    <2> QED
        BY <1>3, <2>1 DEF UndoFile, FileStep, Shaped, Listings
<1>4. ASSUME pc[q] = "write", FileCall(req[q]) PROVE FileStep
    <2>1. req[q] \in FileReqs
        BY <1>4 DEF Asked, Filing
    <2>2. req[q].path \in Paths /\ (req[q].kind = "put" => req[q].data \in Data)
        BY <2>1 DEF FileReqs
    <2>3. \/ file' = [file EXCEPT ![req[q].path] = Removed(@)]
          \/ file' = [file EXCEPT ![req[q].path] = Restored(@)]
          \/ \E d \in Data : file' = [file EXCEPT ![req[q].path] = Written(@, d)]
        BY <1>4, <2>2 DEF FileCall, Put
    <2> QED
        BY <2>2, <2>3 DEF FileStep, Moved, Shaped, Listings
<1>5. CASE ApplyWrite(q) \/ ApplyFails(q)
    BY <1>2, <1>5 DEF ApplyWrite, ApplyFails
<1>6. CASE RollRestore(q) \/ RollWrite(q) \/ RollFails(q)
    BY <1>3, <1>6 DEF RollRestore, RollWrite, RollFails, UndoLast, Undoing, Progress
<1>7. CASE WriteFile(q) \/ WriteFails(q)
    BY <1>4, <1>7 DEF WriteFile, WriteFails
<1> QED
    BY <1>1, <1>5, <1>6, <1>7 DEF Serve, Push, Rollback, FileCalls

\* The head is moved to a new entry of the log, or stays.
LogStep == head' = Len(log) + 1 /\ log' = Append(log, file)

LEMMA HeadMoves ==
    ASSUME NEW q \in Requests, Begin(q) \/ Serve(q)
    PROVE  UNCHANGED <<head, log>> \/ LogStep
<1> USE DEF storage, history, outcome, Refuse
<1>1. CASE Begin(q) \/ Lock(q) \/ CheckHead(q) \/ RefuseHead(q) \/ Inventory(q) \/ PlanOp(q)
           \/ RefusePlan(q) \/ ApplyRead(q) \/ ApplyWrite(q) \/ ApplyFails(q)
    BY <1>1 DEF Begin, Lock, LockAnyway, CheckHead, RefuseHead, Inventory, PlanOp, RefusePlan,
                ApplyRead, ApplyWrite, ApplyFails
<1>2. CASE Commit(q) \/ CommitFails(q) \/ BumpSet(q)
    BY <1>2 DEF Commit, CommitFails, BumpSet, SetHead, LogStep
<1>3. CASE Rollback(q)
    BY <1>3 DEF Rollback, RollRestore, RollRead, RollWrite, RollFails, RollDone, UndoLast, Popped
<1>4. CASE CheckQuota(q) \/ RefuseQuota(q) \/ WriteFile(q) \/ WriteFails(q) \/ BumpRead(q)
    BY <1>4 DEF CheckQuota, RefuseQuota, WriteFile, WriteFails, BumpRead
<1> QED
    BY <1>1, <1>2, <1>3, <1>4 DEF Serve, Push, FileCalls

\* The files and the log keep their types; contents that were readable stay so.
LEMMA FilesKept ==
    ASSUME Shaped, Settled, UNCHANGED file \/ FileStep
    PROVE  /\ file' \in Listings
           /\ Settled'
           /\ \A p \in Paths :
                /\ Len(file[p].vers) \in Nat /\ Len(file'[p].vers) \in Nat
                /\ Len(file[p].vers) <= Len(file'[p].vers)
                /\ \A k \in 1..Len(file[p].vers) : file'[p].vers[k] = file[p].vers[k]
<1>1. ASSUME NEW p \in Paths
      PROVE  file[p] \in Files /\ file[p].vers \in Seq(Data) /\ Len(file[p].vers) \in Nat
    BY LenProperties DEF Shaped, Listings, Files
<1>2. CASE UNCHANGED file
    BY <1>1, <1>2 DEF Shaped, Settled
<1>3. CASE FileStep
    <2>1. PICK x \in Paths : Moved(file[x], file'[x]) /\ file' = [file EXCEPT ![x] = file'[x]]
        BY <1>3 DEF FileStep
    <2>2. /\ file'[x] \in Files
          /\ file'[x].cur \in {0, Len(file'[x].vers)}
          /\ Len(file[x].vers) <= Len(file'[x].vers)
          /\ \A k \in 1..Len(file[x].vers) : file'[x].vers[k] = file[x].vers[k]
        BY <1>1, <2>1, MovedFile
    <2>3. Len(file'[x].vers) \in Nat
        BY <2>2, LenProperties DEF Files
    <2>4. \A p \in Paths \ {x} : file'[p] = file[p]
        BY <2>1 DEF Shaped, Listings
    <2>5. file' \in Listings
        BY <2>1, <2>2 DEF Shaped, Listings
    <2> QED
        BY SMTT(30), <1>1, <2>2, <2>3, <2>4, <2>5 DEF Settled
<1> QED
    BY <1>2, <1>3

LEMMA LogKept ==
    ASSUME Shaped, UNCHANGED <<head, log>> \/ LogStep
    PROVE  /\ log' \in Seq(Listings) /\ Len(log) \in Nat /\ Len(log') \in Nat
           /\ head' \in 0..Len(log') /\ Len(log) <= Len(log')
           /\ \A k \in 1..Len(log) : log'[k] = log[k]
<1>1. log \in Seq(Listings) /\ file \in Listings /\ Len(log) \in Nat
    BY LenProperties DEF Shaped
<1>2. /\ Append(log, file) \in Seq(Listings)
      /\ Len(Append(log, file)) = Len(log) + 1
      /\ \A k \in 1..Len(log) : Append(log, file)[k] = log[k]
    BY <1>1, AppendProperties
<1>3. CASE UNCHANGED <<head, log>>
    BY <1>1, <1>3 DEF Shaped
<1>4. CASE LogStep
    BY <1>1, <1>2, <1>4 DEF LogStep
<1> QED
    BY <1>3, <1>4

-----------------------------------------------------------------------------
(* Types: each step, for the call that makes it *)

\* What is typed of a step once files and log are.
Locals ==
    /\ tree \in [Replicas -> [Paths -> Data \cup {NoData}]]
    /\ lock \in [Replicas -> Requests \cup {Free}]
    /\ pc \in [Requests -> Pcs]
    /\ req \in [Requests -> {NoReq} \cup PushReqs \cup FileReqs]
    /\ have \in [Requests -> SUBSET Paths]
    /\ plan \in [Requests -> Seq(PlanOps)]
    /\ i \in [Requests -> 1..MaxBatch]
    /\ seen \in [Requests -> Nat]
    /\ undo \in [Requests -> Seq(Undos)]
    /\ mixed \in [Requests -> BOOLEAN]
    /\ reply \in [Requests -> {"none", "ok", "conflict", "refused", "failed", "mixed"}]
    /\ before \in [Requests -> [Paths -> Data \cup {NoData}]]
    /\ spoiled \in BOOLEAN

\* A call that is answered, or dies, starts again from nothing.
LEMMA ReplyTyped ==
    ASSUME Shaped, NEW q \in Requests,
           NEW r \in {"ok", "conflict", "refused", "failed", "mixed"}, Reply(q, r),
           tree' \in [Replicas -> [Paths -> Data \cup {NoData}]], UNCHANGED before,
           spoiled' \in BOOLEAN
    PROVE  Locals' /\ Asked(q)' /\ Progress(q)' /\ pc'[q] = "idle"
<1>1. 1 \in 1..MaxBatch
    BY SpaceServiceAssumption
<1>2. <<>> \in Seq(PlanOps) /\ <<>> \in Seq(Undos) /\ Len(<<>>) = 0
    OBVIOUS
<1>3. pc'[q] = "idle" /\ req'[q] = NoReq /\ plan'[q] = <<>> /\ undo'[q] = <<>> /\ i'[q] = 1 /\ ~mixed'[q]
    BY DEF Reply, Goto, Shaped
<1>4. Locals'
    BY <1>1, <1>2 DEF Reply, Goto, Shaped, Locals, Unlock, Pcs
<1>5. Asked(q)'
    BY <1>3 DEF Asked, Pushing, Filing, Applying, Rolling
<1>6. Progress(q)'
    BY <1>2, <1>3 DEF Progress, Applying, Rolling
<1> QED
    BY <1>3, <1>4, <1>5, <1>6

LEMMA BeginTyped ==
    ASSUME TInv, NEW q \in Requests, Begin(q)
    PROVE  Locals' /\ Asked(q)' /\ Progress(q)' /\ pc'[q] = "lock"
<1> USE DEF TInv
<1>1. PICK c \in PushReqs \cup FileReqs : Request(q, c)
    <2>1. ASSUME NEW b \in Batches, NEW h \in 0..Len(log)
          PROVE  [kind |-> "push", ops |-> b, head |-> h] \in PushReqs
        <3>1. Len(log) \in Nat
            BY LenProperties DEF Shaped
        <3> QED
            BY <3>1, BatchIsSeq DEF PushReqs
    <2>2. ASSUME NEW p \in Paths, NEW d \in Data, NEW w \in Tokens
          PROVE  /\ [kind |-> "put", path |-> p, data |-> d, want |-> w] \in FileReqs
                 /\ [kind |-> "delete", path |-> p, want |-> w] \in FileReqs
        BY SpaceServiceAssumption DEF FileReqs
    <2>3. ASSUME NEW p \in Paths, NEW w \in Tokens \ {0}
          PROVE  [kind |-> "delete", path |-> p, want |-> w] \in FileReqs
        BY SpaceServiceAssumption DEF FileReqs
    <2>4. ASSUME NEW p \in Paths PROVE [kind |-> "undelete", path |-> p] \in FileReqs
        BY DEF FileReqs
    <2> HIDE DEF TInv
    <2> QED
        BY <2>1, <2>2, <2>3, <2>4 DEF Begin
<1>2. /\ pc' = [pc EXCEPT ![q] = "lock"] /\ req' = [req EXCEPT ![q] = c]
      /\ reply' = [reply EXCEPT ![q] = "none"] /\ pc[q] = "idle"
      /\ UNCHANGED <<storage, tree, lock, progress, history>>
    BY <1>1 DEF Begin, Request, Goto
<1>3. pc'[q] = "lock" /\ req'[q] = c
    BY <1>2 DEF Shaped
<1>4. Locals'
    BY <1>2 DEF Shaped, Locals, progress, history, outcome, Pcs
<1>5. Asked(q)'
    BY <1>3 DEF Asked, Pushing, Filing, Applying, Rolling
<1>6. Progress(q)'
    BY <1>2, <1>3 DEF Progress, progress, Applying, Rolling
<1> QED
    BY <1>3, <1>4, <1>5, <1>6

LEMMA ContentTyped ==
    ASSUME Shaped, Settled
    PROVE  Content \in [Paths -> Data \cup {NoData}]
BY BodyIsData DEF Content, Shaped, Settled, Listings

LEMMA LockTyped ==
    ASSUME TInv, NEW q \in Requests, Lock(q)
    PROVE  Locals' /\ Asked(q)' /\ Progress(q)'
<1> USE DEF TInv
<1>1. /\ pc'[q] = IF req[q].kind = "push" THEN "head" ELSE "check"
      /\ pc[q] = "lock" /\ req'[q] = req[q]
      /\ UNCHANGED progress
    BY DEF Lock, LockAnyway, Goto, Shaped
<1>2. Locals'
    BY ContentTyped, SpaceServiceAssumption DEF Lock, LockAnyway, Goto, Shaped, Locals, progress, storage, Pcs, Pushing, Filing
<1>3. req[q] \in PushReqs <=> req[q].kind = "push"
    BY <1>1 DEF Asked, PushReqs, FileReqs
<1>4. Asked(q)'
    BY <1>1, <1>3 DEF Asked, Pushing, Filing, Applying, Rolling
<1>5. Progress(q)'
    BY <1>1 DEF Progress, progress, Applying, Rolling
<1> QED
    BY <1>2, <1>4, <1>5

\* The steps of a push up to its plan.
LEMMA PlanTyped ==
    ASSUME TInv, NEW q \in Requests, CheckHead(q) \/ RefuseHead(q) \/ Inventory(q) \/ PlanOp(q) \/ RefusePlan(q)
    PROVE  Locals' /\ Asked(q)' /\ Progress(q)'
<1> USE DEF TInv
<1>1. CASE RefuseHead(q) \/ RefusePlan(q)
    BY <1>1, ReplyTyped DEF RefuseHead, RefusePlan, Refuse, Shaped, history, outcome
<1>2. CASE CheckHead(q)
    <2>1. pc'[q] = "inventory" /\ pc[q] = "head" /\ UNCHANGED <<req, plan, i, undo, mixed>>
        BY <1>2 DEF CheckHead, Goto, Shaped
    <2>2. Locals'
        BY <1>2 DEF CheckHead, Goto, Shaped, Locals, storage, history, outcome, Pcs, Pushing
    <2> QED
        BY <2>1, <2>2 DEF Asked, Progress, Pushing, Filing, Applying, Rolling
<1>3. CASE Inventory(q)
    <2>1. /\ pc'[q] = "plan" /\ pc[q] = "inventory" /\ UNCHANGED <<req, plan, i, undo, mixed>>
        BY <1>3 DEF Inventory, Goto, Shaped
    <2>2. Locals'
        BY <1>3 DEF Inventory, Goto, Shaped, Locals, storage, history, outcome, Pcs, Pushing, Present
    <2>3. req[q].ops \in Batched
        BY <2>1 DEF Asked, Pushing, PushReqs
    <2>4. Len(req[q].ops) >= 1 /\ Len(req[q].ops) \in Nat
        BY <2>3, SpaceServiceAssumption DEF Batched
    <2>5. Len(plan[q]) = 0 /\ i[q] = 1
        BY <2>1 DEF Progress, Applying, Rolling
    <2> QED
        BY <2>1, <2>2, <2>4, <2>5 DEF Asked, Progress, Pushing, Filing, Applying, Rolling
<1>4. CASE PlanOp(q)
    <2>1. pc[q] = "plan"
        BY <1>4 DEF PlanOp
    <2>2. /\ Op(q) \in Ops /\ file[Op(q).path].cur \in Nat /\ Op(q).path \in Paths
          /\ i[q] \in 1..Len(req[q].ops) /\ Len(req[q].ops) \in 1..MaxBatch
        BY <2>1, OpIsOp
    <2> DEFINE o == [Op(q) EXCEPT !.want = file[Op(q).path].cur]
    <2>3. o \in PlanOps
        BY <2>2, OpIsPlanned
    <2> HIDE DEF o
    <2>4. plan[q] \in Seq(PlanOps) /\ Len(plan[q]) \in Nat /\ undo[q] = <<>>
        BY <2>1, LenProperties DEF Shaped, Progress, Applying, Rolling
    <2>5. Append(plan[q], o) \in Seq(PlanOps) /\ Len(Append(plan[q], o)) = Len(plan[q]) + 1
        BY <2>3, <2>4, AppendProperties
    <2>6. Counted(q) \in SUBSET Paths
        BY <2>2 DEF Counted, Shaped
    <2>7. /\ plan' = [plan EXCEPT ![q] = Append(@, o)]
          /\ have' = [have EXCEPT ![q] = Counted(q)]
          /\ UNCHANGED <<tree, lock, req, seen, undo, mixed, reply, before, spoiled>>
        BY <1>4 DEF PlanOp, o, history, outcome
    <2>8. plan'[q] = Append(plan[q], o) /\ undo'[q] = <<>> /\ ~mixed'[q]
        BY <2>1, <2>4, <2>7 DEF Shaped, Progress, Rolling
    <2>9. CASE i[q] < Len(req[q].ops) /\ i' = [i EXCEPT ![q] = @ + 1] /\ UNCHANGED pc
        <3>1. i'[q] = i[q] + 1 /\ i'[q] \in 1..MaxBatch /\ i'[q] <= Len(req[q].ops)
            BY SMTT(30), <2>2, <2>9, SpaceServiceAssumption DEF Shaped
        <3>2. i' \in [Requests -> 1..MaxBatch]
            BY <2>9, <3>1 DEF Shaped
        <3>3. Locals'
            BY <2>5, <2>6, <2>7, <2>9, <3>2 DEF Shaped, Locals
        <3>4. Asked(q)'
            BY <2>7, <2>9 DEF Asked
        <3>5. Progress(q)'
            BY <2>1, <2>2, <2>4, <2>5, <2>7, <2>8, <2>9, <3>1 DEF Progress, Applying, Rolling
        <3> QED
            BY <3>3, <3>4, <3>5
    <2>10. CASE i[q] = Len(req[q].ops) /\ i' = [i EXCEPT ![q] = 1] /\ Goto(q, "applyRead")
        <3>1. i'[q] = 1 /\ pc'[q] = "applyRead"
            BY <2>10 DEF Shaped, Goto
        <3>2. Locals'
            BY SMTT(30), <2>5, <2>6, <2>7, <2>10, SpaceServiceAssumption DEF Shaped, Locals, Goto, Pcs, Pushing, Applying
        <3>3. Asked(q)'
            BY <2>1, <2>7, <3>1 DEF Asked, Pushing, Filing, Applying, Rolling
        <3>4. Len(plan'[q]) = Len(req[q].ops)
            BY <2>1, <2>2, <2>4, <2>5, <2>8, <2>10 DEF Progress
        <3>5. Progress(q)'
            BY <2>2, <2>4, <2>7, <2>8, <3>1, <3>4 DEF Progress, Applying, Rolling
        <3> QED
            BY <3>2, <3>3, <3>5
    <2> QED
        BY <1>4, <2>9, <2>10 DEF PlanOp
<1> QED
    BY <1>1, <1>2, <1>3, <1>4

\* The tree is brought up to date, or misses it.
Mirrored(q, p, d) == Mirror(q, p, d) \/ MissesMirror(q, p)

LEMMA MirrorTyped ==
    ASSUME Shaped, NEW q \in Requests, NEW p \in Paths, NEW d \in Data \cup {NoData}, Mirrored(q, p, d)
    PROVE  tree' \in [Replicas -> [Paths -> Data \cup {NoData}]]
<1>1. On[q] \in Replicas
    BY SpaceServiceAssumption
<1>2. [tree[On[q]] EXCEPT ![p] = d] \in [Paths -> Data \cup {NoData}]
    BY <1>1 DEF Shaped
<1>3. tree' = [tree EXCEPT ![On[q]] = [tree[On[q]] EXCEPT ![p] = d]] \/ UNCHANGED tree
    BY DEF Mirrored, Mirror, MissesMirror
<1> QED
    BY <1>1, <1>2, <1>3 DEF Shaped

\* The steps of a push that apply its plan and commit it.
LEMMA ApplyTyped ==
    ASSUME TInv, NEW q \in Requests,
           ApplyRead(q) \/ ApplyWrite(q) \/ ApplyFails(q) \/ Commit(q) \/ CommitFails(q)
    PROVE  Locals' /\ Asked(q)' /\ Progress(q)'
<1> USE DEF TInv
<1>0. pc[q] \in Applying
    BY DEF ApplyRead, ApplyWrite, ApplyFails, Commit, CommitFails, Applying
<1>1. /\ Current(q) \in PlanOps /\ Current(q).path \in Paths /\ Current(q).want \in Nat
      /\ file[Current(q).path] \in Files /\ Len(plan[q]) \in Nat
      /\ i[q] \in DOMAIN plan[q] /\ DOMAIN plan[q] = 1..Len(plan[q])
    BY <1>0, CurrentIsPlanned
<1>2. undo[q] \in Seq(Undos) /\ Len(undo[q]) \in Nat
    BY LenProperties DEF Shaped
<1>3. CASE Commit(q)
    BY <1>3, ReplyTyped DEF Commit, Shaped
<1>4. CASE CommitFails(q) \/ ApplyFails(q)
    <2>1. /\ pc' = [pc EXCEPT ![q] = "roll"]
          /\ UNCHANGED <<tree, lock, req, progress, reply, before, spoiled>>
        BY <1>4 DEF CommitFails, ApplyFails, Goto, history, outcome
    <2>2. pc'[q] = "roll"
        BY <2>1 DEF Shaped
    <2>3. Locals'
        BY <2>1 DEF Shaped, Locals, progress, Pcs, Pushing, Rolling
    <2>4. Asked(q)'
        BY <1>0, <2>1, <2>2 DEF Asked, Pushing, Filing, Applying, Rolling
    <2>5. Progress(q)'
        BY <2>1, <2>2 DEF Progress, progress, Applying, Rolling
    <2> QED
        BY <2>3, <2>4, <2>5
<1>5. CASE ApplyRead(q)
    <2>1. /\ pc' = [pc EXCEPT ![q] = "applyWrite"] /\ pc[q] = "applyRead"
          /\ seen' \in [Requests -> Nat]
          /\ UNCHANGED <<tree, lock, req, have, plan, i, undo, mixed, reply, before, spoiled>>
        <3>1. file[Current(q).path].cur \in Nat
            BY <1>1 DEF Files
        <3>2. \E n \in Nat : seen' = [seen EXCEPT ![q] = n]
            BY <1>5, <3>1 DEF ApplyRead
        <3>3. seen' \in [Requests -> Nat]
            BY <3>2 DEF Shaped
        <3> QED
            BY <1>5, <3>3 DEF ApplyRead, Goto, history, outcome
    <2>2. pc'[q] = "applyWrite"
        BY <2>1 DEF Shaped
    <2>3. Locals'
        BY <2>1 DEF Shaped, Locals, Pcs, Pushing, Applying
    <2>4. Asked(q)'
        BY <2>1, <2>2 DEF Asked, Pushing, Filing, Applying, Rolling
    <2>5. Progress(q)'
        BY <2>1, <2>2 DEF Progress, Applying, Rolling
    <2> QED
        BY <2>3, <2>4, <2>5
<1>6. CASE ApplyWrite(q)
    <2>1. /\ pc[q] = "applyWrite" /\ Mirrored(q, Current(q).path, Current(q).data)
          /\ undo' = [undo EXCEPT ![q] = Append(@, UndoOf(q))]
          /\ UNCHANGED <<lock, req, have, plan, seen, mixed, reply, before, spoiled>>
        BY <1>6 DEF ApplyWrite, Mirrored
    <2>2. tree' \in [Replicas -> [Paths -> Data \cup {NoData}]]
        BY <1>1, <2>1, MirrorTyped DEF PlanOps
    <2>3. UndoOf(q) \in Undos
        BY <1>1 DEF UndoOf, Undos, Shaped
    <2>4. /\ Append(undo[q], UndoOf(q)) \in Seq(Undos)
          /\ Len(Append(undo[q], UndoOf(q))) = Len(undo[q]) + 1
        BY <1>2, <2>3, AppendProperties
    <2>5. undo' \in [Requests -> Seq(Undos)] /\ undo'[q] = Append(undo[q], UndoOf(q))
        BY <2>1, <2>4 DEF Shaped
    <2>6. i[q] = Len(undo[q]) + 1 /\ i[q] <= Len(plan[q]) /\ Len(plan[q]) = Len(req[q].ops) /\ ~mixed[q]
        BY <2>1 DEF Progress, Applying, Rolling
    <2>7. Len(plan[q]) <= MaxBatch
        BY <1>0, <2>6 DEF Asked, Pushing, PushReqs, Batched
    <2>8. CASE i[q] < Len(plan[q]) /\ i' = [i EXCEPT ![q] = @ + 1] /\ Goto(q, "applyRead")
        <3>1. i[q] + 1 \in 1..MaxBatch
            BY SMTT(30), <1>1, <2>7, <2>8, SpaceServiceAssumption DEF Shaped
        <3>2. i'[q] = i[q] + 1 /\ pc'[q] = "applyRead"
            BY <2>8 DEF Shaped, Goto
        <3>3. Locals'
            BY <2>1, <2>2, <2>5, <2>8, <3>1 DEF Shaped, Locals, Goto, Pcs, Pushing, Applying
        <3>4. Asked(q)'
            BY <2>1, <3>2 DEF Asked, Pushing, Filing, Applying, Rolling
        <3>5. Progress(q)'
            BY <1>1, <1>2, <2>1, <2>4, <2>5, <2>6, <2>8, <3>2 DEF Progress, Applying, Rolling
        <3> QED
            BY <3>3, <3>4, <3>5
    <2>9. CASE ~(i[q] < Len(plan[q])) /\ Goto(q, "commit") /\ UNCHANGED i
        <3>1. pc'[q] = "commit"
            BY <2>9 DEF Shaped, Goto
        <3>2. Locals'
            BY <2>1, <2>2, <2>5, <2>9 DEF Shaped, Locals, Goto, Pcs, Pushing, Applying
        <3>3. Asked(q)'
            BY <2>1, <3>1 DEF Asked, Pushing, Filing, Applying, Rolling
        <3>4. Progress(q)'
            BY <1>1, <1>2, <2>1, <2>4, <2>5, <2>6, <2>9, <3>1 DEF Progress, Applying, Rolling
        <3> QED
            BY <3>2, <3>3, <3>4
    <2> QED
        BY <1>6, <2>8, <2>9 DEF ApplyWrite
<1> QED
    BY <1>3, <1>4, <1>5, <1>6

\* The steps of a push that roll it back.
LEMMA RollTyped ==
    ASSUME TInv, NEW q \in Requests, Rollback(q)
    PROVE  Locals' /\ Asked(q)' /\ Progress(q)'
<1> USE DEF TInv
<1>0. pc[q] \in Rolling
    BY DEF Rollback, RollRestore, RollRead, RollWrite, RollFails, RollDone, Undoing, Rolling
<1>1. plan[q] \in Seq(PlanOps) /\ Len(plan[q]) \in Nat /\ undo[q] \in Seq(Undos) /\ Len(undo[q]) \in Nat
    BY LenProperties DEF Shaped
<1>2. CASE RollDone(q)
    BY <1>2, ReplyTyped DEF RollDone, Shaped
<1>3. CASE RollRead(q)
    <2>1. /\ pc' = [pc EXCEPT ![q] = "rollWrite"]
          /\ undo[q] # <<>> /\ Last(undo[q]).how # "restore"
          /\ seen' = [seen EXCEPT ![q] = file[Last(undo[q]).path].cur]
          /\ UNCHANGED <<tree, lock, req, have, plan, i, undo, mixed, reply, before, spoiled>>
        BY <1>3 DEF RollRead, Undoing, Goto, history, outcome
    <2>2. pc'[q] = "rollWrite"
        BY <2>1 DEF Shaped
    <2>3. file[Last(undo[q]).path].cur \in Nat
        BY <2>1, LastUndoIsOne DEF Shaped, Listings, Files
    <2>4. Locals'
        BY <2>1, <2>3 DEF Shaped, Locals, Pcs, Pushing, Rolling
    <2>5. Asked(q)'
        BY <1>0, <2>1, <2>2 DEF Asked, Pushing, Filing, Applying, Rolling
    <2>6. Progress(q)'
        BY <1>0, <2>1, <2>2 DEF Progress, Applying, Rolling
    <2> QED
        BY <2>4, <2>5, <2>6
<1>4. ASSUME undo[q] # <<>>, Popped(q),
             tree' \in [Replicas -> [Paths -> Data \cup {NoData}]],
             mixed' \in [Requests -> BOOLEAN]
      PROVE  Locals' /\ Asked(q)' /\ Progress(q)'
    <2>1. /\ pc' = [pc EXCEPT ![q] = "roll"]
          /\ undo' = [undo EXCEPT ![q] = SubSeq(@, 1, Len(@) - 1)]
          /\ UNCHANGED <<lock, req, have, plan, i, seen, reply, before, spoiled>>
        BY <1>4 DEF Popped, Pop, Goto, history, outcome
    <2>2. /\ SubSeq(undo[q], 1, Len(undo[q]) - 1) \in Seq(Undos)
          /\ Len(SubSeq(undo[q], 1, Len(undo[q]) - 1)) = Len(undo[q]) - 1
        BY <1>1, <1>4, LastAndFront
    <2>3. pc'[q] = "roll" /\ Len(undo'[q]) = Len(undo[q]) - 1
        BY <2>1, <2>2 DEF Shaped
    <2>4. Locals'
        BY <1>4, <2>1, <2>2 DEF Shaped, Locals, Pcs, Pushing, Rolling
    <2>5. Asked(q)'
        BY <1>0, <2>1, <2>3 DEF Asked, Pushing, Filing, Applying, Rolling
    <2>6. Progress(q)'
        BY <1>0, <1>1, <2>1, <2>3 DEF Progress, Applying, Rolling
    <2> QED
        BY <2>4, <2>5, <2>6
<1>5. ASSUME undo[q] # <<>>, UndoLast(q)
      PROVE  Locals' /\ Asked(q)' /\ Progress(q)'
    <2> DEFINE u == Last(undo[q])
    <2>1. u \in Undos /\ u.path \in Paths /\ Moved(file[u.path], Undone(u)) /\ file[u.path] \in Files
        BY <1>5, LastUndoIsOne, UndoMoves
    <2>2. Undone(u) \in Files /\ Undone(u).cur \in {0, Len(Undone(u).vers)}
        BY <2>1, MovedFile
    <2>3. Body(Undone(u)) \in Data \cup {NoData}
        BY <2>2, BodyIsData
    <2>4. Mirrored(q, u.path, Body(Undone(u))) /\ Popped(q) /\ UNCHANGED mixed
        BY <1>5 DEF UndoLast, Mirrored
    <2> HIDE DEF u
    <2>5. tree' \in [Replicas -> [Paths -> Data \cup {NoData}]]
        BY <2>1, <2>3, <2>4, MirrorTyped
    <2> QED
        BY <1>4, <1>5, <2>4, <2>5 DEF Shaped
<1>6. CASE RollRestore(q) \/ RollWrite(q)
    BY <1>5, <1>6 DEF RollRestore, RollWrite, Undoing, Progress
<1>7. CASE RollFails(q)
    <2>1. undo[q] # <<>>
        BY <1>7 DEF RollFails, Undoing, Progress
    <2>2. Popped(q) /\ UNCHANGED tree /\ mixed' = [mixed EXCEPT ![q] = TRUE]
        BY <1>7 DEF RollFails, Noted
    <2> QED
        BY <1>4, <2>1, <2>2 DEF Shaped
<1> QED
    BY <1>2, <1>3, <1>6, <1>7 DEF Rollback

\* The file a single-file call leaves.
LEMMA FileCallTyped ==
    ASSUME TInv, NEW q \in Requests, pc[q] = "write", FileCall(req[q])
    PROVE  req[q].path \in Paths /\ Body(file'[req[q].path]) \in Data \cup {NoData}
<1> USE DEF TInv
<1>1. req[q].path \in Paths
    BY DEF Asked, Filing, FileReqs
<1>2. FileStep
    <2>1. \/ file' = [file EXCEPT ![req[q].path] = Removed(@)]
          \/ file' = [file EXCEPT ![req[q].path] = Restored(@)]
          \/ \E d \in Data : file' = [file EXCEPT ![req[q].path] = Written(@, d)]
        BY DEF FileCall, Put, Asked, Filing, FileReqs
    <2> QED
        BY <1>1, <2>1 DEF FileStep, Moved, Shaped, Listings
<1>3. file' \in Listings /\ Settled'
    BY <1>2, FilesKept
<1> QED
    BY <1>1, <1>3, BodyIsData DEF Listings, Settled

\* The steps of a single-file call.
LEMMA FilingTyped ==
    ASSUME TInv, NEW q \in Requests, FileCalls(q)
    PROVE  Locals' /\ Asked(q)' /\ Progress(q)'
<1> USE DEF TInv
<1>1. CASE RefuseQuota(q) \/ WriteFails(q) \/ BumpSet(q)
    BY <1>1, ReplyTyped DEF RefuseQuota, Refuse, WriteFails, BumpSet, Shaped, history, outcome
<1>2. CASE CheckQuota(q)
    <2>1. /\ pc' = [pc EXCEPT ![q] = "write"] /\ pc[q] = "check"
          /\ UNCHANGED <<tree, lock, req, progress, reply, history>>
        BY <1>2 DEF CheckQuota, Goto
    <2>2. pc'[q] = "write"
        BY <2>1 DEF Shaped
    <2>3. Locals'
        BY <2>1 DEF Shaped, Locals, progress, history, outcome, Pcs, Filing
    <2>4. Asked(q)' /\ Progress(q)'
        BY <2>1, <2>2 DEF Asked, Progress, progress, Pushing, Filing, Applying, Rolling
    <2> QED
        BY <2>3, <2>4
<1>3. CASE WriteFile(q)
    <2>1. /\ pc' = [pc EXCEPT ![q] = "bumpRead"] /\ pc[q] = "write"
          /\ Mirrored(q, req[q].path, Body(file'[req[q].path])) /\ FileCall(req[q]) /\ Unlock(q)
          /\ UNCHANGED <<req, progress, reply, outcome>>
        BY <1>3 DEF WriteFile, Goto, Mirrored
    <2>2. pc'[q] = "bumpRead"
        BY <2>1 DEF Shaped
    <2>3. tree' \in [Replicas -> [Paths -> Data \cup {NoData}]]
        BY <2>1, FileCallTyped, MirrorTyped
    <2>4. Locals'
        BY <2>1, <2>3 DEF Shaped, Locals, progress, history, outcome, Pcs, Filing, Unlock
    <2>5. Asked(q)' /\ Progress(q)'
        BY <2>1, <2>2 DEF Asked, Progress, progress, Pushing, Filing, Applying, Rolling
    <2> QED
        BY <2>4, <2>5
<1>4. CASE BumpRead(q)
    <2>1. /\ pc' = [pc EXCEPT ![q] = "bumpSet"] /\ pc[q] = "bumpRead"
          /\ UNCHANGED <<tree, lock, req, have, plan, i, seen, undo, mixed, reply, history>>
        BY <1>4 DEF BumpRead, Goto
    <2>2. pc'[q] = "bumpSet"
        BY <2>1 DEF Shaped
    <2>3. Locals'
        BY <2>1 DEF Shaped, Locals, history, outcome, Pcs, Filing
    <2>4. Asked(q)' /\ Progress(q)'
        BY <2>1, <2>2 DEF Asked, Progress, Pushing, Filing, Applying, Rolling
    <2> QED
        BY <2>3, <2>4
<1> QED
    BY <1>1, <1>2, <1>3, <1>4 DEF FileCalls

LEMMA OwnTyped ==
    ASSUME TInv, NEW q \in Requests, Begin(q) \/ Serve(q)
    PROVE  Locals' /\ Asked(q)' /\ Progress(q)'
BY BeginTyped, LockTyped, PlanTyped, ApplyTyped, RollTyped, FilingTyped DEF Serve, Push

LEMMA CrashTyped ==
    ASSUME Shaped, NEW r \in Replicas, Crash(r)
    PROVE  Locals'
<1>1. <<>> \in Seq(PlanOps) /\ <<>> \in Seq(Undos) /\ 1 \in 1..MaxBatch
    BY SpaceServiceAssumption
<1>2. /\ pc' \in [Requests -> Pcs] /\ req' \in [Requests -> {NoReq} \cup PushReqs \cup FileReqs]
      /\ have' \in [Requests -> SUBSET Paths] /\ plan' \in [Requests -> Seq(PlanOps)]
    BY <1>1 DEF Crash, Shaped, Pcs
<1>3. /\ i' \in [Requests -> 1..MaxBatch] /\ seen' \in [Requests -> Nat]
      /\ undo' \in [Requests -> Seq(Undos)] /\ mixed' \in [Requests -> BOOLEAN]
    BY <1>1 DEF Crash, Shaped
<1>4. lock' \in [Replicas -> Requests \cup {Free}] /\ spoiled' \in BOOLEAN
      /\ UNCHANGED <<tree, reply, before>>
    BY DEF Crash, Shaped
<1> QED
    BY <1>2, <1>3, <1>4 DEF Shaped, Locals

\* The head a call has read is one the log reaches.
LEMMA AtTyped ==
    ASSUME TInv, NEW q \in Requests, Begin(q) \/ Serve(q)
    PROVE  at' \in [Requests -> 0..Len(log')]
<1> USE DEF TInv
<1>1. UNCHANGED <<head, log>> \/ LogStep
    BY HeadMoves
<1>2. /\ Len(log) \in Nat /\ Len(log') \in Nat /\ Len(log) <= Len(log')
    BY <1>1, LogKept
<1>3. at' = at \/ at' = [at EXCEPT ![q] = head] \/ at' = [at EXCEPT ![q] = 0]
    <2> USE DEF progress, Refuse, Reply
    <2>1. CASE Begin(q) \/ Lock(q) \/ CheckHead(q) \/ RefuseHead(q) \/ Inventory(q) \/ PlanOp(q)
               \/ RefusePlan(q) \/ ApplyRead(q) \/ ApplyWrite(q) \/ ApplyFails(q)
        BY <2>1 DEF Begin, Lock, LockAnyway, CheckHead, RefuseHead, Inventory, PlanOp, RefusePlan,
                    ApplyRead, ApplyWrite, ApplyFails
    <2>2. CASE Commit(q) \/ CommitFails(q) \/ BumpSet(q)
        BY <2>2 DEF Commit, CommitFails, BumpSet
    <2>3. CASE Rollback(q)
        BY <2>3 DEF Rollback, RollRestore, RollRead, RollWrite, RollFails, RollDone, UndoLast, Popped
    <2>4. CASE CheckQuota(q) \/ RefuseQuota(q) \/ WriteFile(q) \/ WriteFails(q) \/ BumpRead(q)
        BY <2>4 DEF CheckQuota, RefuseQuota, WriteFile, WriteFails, BumpRead
    <2> QED
        BY <2>1, <2>2, <2>3, <2>4 DEF Serve, Push, FileCalls
<1> QED
    BY SMTT(30), <1>2, <1>3 DEF Shaped

-----------------------------------------------------------------------------
(* What a rollback will read stays readable *)

LEMMA UndoKept ==
    ASSUME Shaped, Settled, NEW q \in Requests, Readable(q), UNCHANGED file \/ FileStep,
           \/ undo'[q] = undo[q] \/ undo'[q] = <<>>
           \/ undo[q] # <<>> /\ undo'[q] = SubSeq(undo[q], 1, Len(undo[q]) - 1)
    PROVE  \A k \in DOMAIN undo'[q] :
                undo'[q][k].how = "rewrite" =>
                    undo'[q][k].ver \in 1..Len(file'[undo'[q][k].path].vers)
<1>1. undo[q] \in Seq(Undos) /\ DOMAIN undo[q] = 1..Len(undo[q]) /\ Len(undo[q]) \in Nat
    BY LenProperties DEF Shaped
<1>2. ASSUME NEW k \in DOMAIN undo'[q]
      PROVE  k \in DOMAIN undo[q] /\ undo'[q][k] = undo[q][k]
    <2>1. CASE undo'[q] = undo[q]
        BY <2>1, <1>2
    <2>2. CASE undo'[q] = <<>>
        BY <2>2, <1>2
    <2>3. CASE undo[q] # <<>> /\ undo'[q] = SubSeq(undo[q], 1, Len(undo[q]) - 1)
        <3>1. /\ undo'[q] \in Seq(Undos) /\ Len(undo'[q]) = Len(undo[q]) - 1
              /\ \A n \in 1..Len(undo[q]) - 1 : undo'[q][n] = undo[q][n]
            BY <1>1, <2>3, LastAndFront
        <3>2. DOMAIN undo'[q] = 1..Len(undo[q]) - 1
            BY <3>1, LenProperties
        <3> QED
            BY <1>1, <1>2, <3>1, <3>2
    <2> QED
        BY <2>1, <2>2, <2>3
<1>3. ASSUME NEW k \in DOMAIN undo[q] PROVE undo[q][k].path \in Paths /\ undo[q][k].ver \in Nat
    <2>1. undo[q][k] \in Undos
        BY <1>1, <1>3, ElementOfSeq
    <2> QED
        BY <2>1 DEF Undos
<1>4. \A p \in Paths : /\ Len(file[p].vers) \in Nat /\ Len(file'[p].vers) \in Nat
                       /\ Len(file[p].vers) <= Len(file'[p].vers)
    BY FilesKept
<1>5. ASSUME NEW k \in DOMAIN undo'[q], undo'[q][k].how = "rewrite"
      PROVE  undo'[q][k].ver \in 1..Len(file'[undo'[q][k].path].vers)
    <2> DEFINE u == undo[q][k]
    <2>1. undo'[q][k] = u /\ u.path \in Paths /\ u.ver \in Nat
        BY <1>2, <1>3, <1>5
    <2>2. u.ver \in 1..Len(file[u.path].vers)
        BY <1>2, <1>5, <2>1 DEF Readable
    <2> HIDE DEF u
    <2> QED
        BY <1>4, <2>1, <2>2
<1> QED
    BY <1>5

LEMMA OwnReadable ==
    ASSUME TInv, NEW q \in Requests, Begin(q) \/ Serve(q)
    PROVE  Readable(q)'
<1> USE DEF TInv
<1>1. UNCHANGED file \/ FileStep
    BY FilesMove
<1>2. undo[q] \in Seq(Undos) /\ DOMAIN undo[q] = 1..Len(undo[q]) /\ Len(undo[q]) \in Nat
    BY LenProperties DEF Shaped
<1>3. ASSUME pc'[q] # "applyWrite",
             \/ undo'[q] = undo[q] \/ undo'[q] = <<>>
             \/ undo[q] # <<>> /\ undo'[q] = SubSeq(undo[q], 1, Len(undo[q]) - 1)
      PROVE  Readable(q)'
    BY <1>1, <1>3, UndoKept DEF Readable
<1>4. ASSUME NEW r, Reply(q, r) PROVE Readable(q)'
    BY <1>3, <1>4 DEF Reply, Goto, Shaped
<1>5. CASE Begin(q) \/ Lock(q) \/ CheckHead(q) \/ Inventory(q) \/ PlanOp(q) \/ ApplyFails(q)
           \/ CommitFails(q) \/ CheckQuota(q) \/ WriteFile(q) \/ BumpRead(q) \/ RollRead(q)
    <2>1. pc'[q] # "applyWrite" /\ undo'[q] = undo[q]
        BY <1>5 DEF Begin, Request, Lock, LockAnyway, CheckHead, Inventory, PlanOp, ApplyFails,
                    CommitFails, CheckQuota, WriteFile, BumpRead, RollRead, Goto, progress, Shaped
    <2> QED
        BY <1>3, <2>1
<1>6. CASE RefuseHead(q) \/ RefusePlan(q) \/ Commit(q) \/ RollDone(q) \/ RefuseQuota(q) \/ WriteFails(q) \/ BumpSet(q)
    BY <1>4, <1>6 DEF RefuseHead, RefusePlan, Commit, RollDone, RefuseQuota, Refuse, WriteFails, BumpSet
<1>7. CASE RollRestore(q) \/ RollWrite(q) \/ RollFails(q)
    <2>1. undo[q] # <<>> /\ Popped(q)
        BY <1>7 DEF RollRestore, RollWrite, RollFails, UndoLast, Undoing, Progress
    <2> QED
        BY <1>3, <2>1 DEF Popped, Pop, Goto, Shaped
<1>8. CASE ApplyRead(q)
    <2>1. /\ UNCHANGED <<file, plan, i, undo>> /\ pc[q] = "applyRead"
          /\ seen'[q] \in {0, file[Current(q).path].cur}
        BY <1>8 DEF ApplyRead, storage, Shaped
    <2>2. Current(q).path \in Paths /\ file[Current(q).path] \in Files
        BY <2>1, CurrentIsPlanned DEF Applying
    <2>3. seen'[q] <= Len(file[Current(q).path].vers)
        BY <2>1, <2>2, LenProperties DEF Settled, Files
    <2> QED
        BY <2>1, <2>3 DEF Readable, Current
<1>9. CASE ApplyWrite(q)
    <2>1. /\ pc[q] = "applyWrite" /\ pc'[q] # "applyWrite"
          /\ undo'[q] = Append(undo[q], UndoOf(q))
        BY <1>9 DEF ApplyWrite, Goto, Shaped
    <2>2. /\ Current(q).path \in Paths /\ Current(q) \in PlanOps
          /\ seen[q] \in Nat /\ seen[q] <= Len(file[Current(q).path].vers)
        BY <2>1, CurrentIsPlanned DEF Applying, Readable, Shaped
    <2>3. UndoOf(q) \in Undos
        BY <2>2 DEF UndoOf, Undos
    <2>4. /\ DOMAIN undo'[q] = 1..Len(undo[q]) + 1
          /\ \A k \in 1..Len(undo[q]) : undo'[q][k] = undo[q][k]
          /\ undo'[q][Len(undo[q]) + 1] = UndoOf(q)
        BY <1>2, <2>1, <2>3, AppendProperties, LenProperties
    <2>5. \A p \in Paths : /\ Len(file[p].vers) \in Nat /\ Len(file'[p].vers) \in Nat
                           /\ Len(file[p].vers) <= Len(file'[p].vers)
        BY <1>1, FilesKept
    <2>6. UndoOf(q).path = Current(q).path /\ UndoOf(q).ver = seen[q]
          /\ (UndoOf(q).how = "rewrite" => seen[q] # 0)
        BY <2>2 DEF UndoOf, PlanOps
    <2>7. UndoOf(q).how = "rewrite" => UndoOf(q).ver \in 1..Len(file'[UndoOf(q).path].vers)
        BY <2>2, <2>5, <2>6
    <2>8. ASSUME NEW k \in 1..Len(undo[q]), undo[q][k].how = "rewrite"
          PROVE  undo[q][k].ver \in 1..Len(file'[undo[q][k].path].vers)
        <3>1. undo[q][k] \in Undos /\ undo[q][k].ver \in 1..Len(file[undo[q][k].path].vers)
            BY <1>2, <2>8, ElementOfSeq DEF Readable
        <3> QED
            BY <2>5, <3>1 DEF Undos
    <2> QED
        BY <1>2, <2>1, <2>4, <2>7, <2>8 DEF Readable
<1> QED
    BY <1>5, <1>6, <1>7, <1>8, <1>9 DEF Serve, Push, Rollback, FileCalls

\* Another's step moves files on, and nothing else a call depends on.
LEMMA SameKept ==
    ASSUME TInv, NEW s \in Requests, Same(s), UNCHANGED file \/ FileStep
    PROVE  Asked(s)' /\ Progress(s)' /\ Readable(s)'
<1> USE DEF TInv
<1>1. Asked(s)' /\ Progress(s)'
    BY DEF Same, Asked, Progress
<1>2. \A p \in Paths : /\ Len(file[p].vers) \in Nat /\ Len(file'[p].vers) \in Nat
                       /\ Len(file[p].vers) <= Len(file'[p].vers)
    BY FilesKept
<1>3. CASE pc[s] = "applyWrite"
    <2>1. Current(s).path \in Paths /\ seen[s] \in Nat /\ Current(s)' = Current(s)
        BY <1>3, CurrentIsPlanned DEF Applying, Shaped, Same, Current
    <2> QED
        BY <1>1, <1>2, <1>3, <2>1, UndoKept DEF Readable, Same
<1>4. CASE pc[s] # "applyWrite"
    BY <1>1, <1>4, UndoKept DEF Readable, Same
<1> QED
    BY <1>3, <1>4

-----------------------------------------------------------------------------
(* The invariant, and the first theorem *)

LEMMA InitTInv == Init => TInv
<1> SUFFICES ASSUME Init PROVE TInv
    OBVIOUS
<1>1. <<>> \in Seq(Data) /\ <<>> \in Seq(Listings) /\ <<>> \in Seq(PlanOps) /\ <<>> \in Seq(Undos)
      /\ 1 \in 1..MaxBatch
    BY SpaceServiceAssumption
<1>2. NoFile \in Files /\ NoFile.cur = 0
    BY <1>1 DEF NoFile, Files
<1>3. file \in Listings /\ Settled
    BY <1>2 DEF Init, Listings, Settled
<1>4. Content \in [Paths -> Data \cup {NoData}]
    BY <1>2, <1>3 DEF Content, Body, Init
<1>5. Shaped
    <2>1. /\ head \in 0..Len(log) /\ log \in Seq(Listings)
          /\ at \in [Requests -> 0..Len(log)]
        BY <1>1 DEF Init
    <2>2. /\ plan \in [Requests -> Seq(PlanOps)] /\ undo \in [Requests -> Seq(Undos)]
          /\ i \in [Requests -> 1..MaxBatch] /\ before \in [Requests -> [Paths -> Data \cup {NoData}]]
        BY <1>1, <1>4 DEF Init
    <2> QED
        BY <1>3, <2>1, <2>2 DEF Init, Shaped, Excused, Pcs
<1>6. ASSUME NEW q \in Requests PROVE Asked(q) /\ Progress(q) /\ Readable(q)
    BY DEF Init, Asked, Progress, Readable, Pushing, Filing, Applying, Rolling
<1> QED
    BY <1>3, <1>5, <1>6 DEF TInv

\* What the properties except are requests' paths.
LEMMA ExcusesTyped ==
    ASSUME TInv, NEW q \in Requests, Begin(q) \/ Serve(q)
    PROVE  Excused'
<1> USE DEF TInv, Excused
<1>1. /\ blind \in [Requests -> SUBSET Paths] /\ vanished \subseteq Paths
      /\ stale \in [Replicas -> SUBSET Paths]
    BY DEF Shaped
<1>2. ASSUME NEW p \in Paths, NEW d, Mirrored(q, p, d) PROVE stale' \in [Replicas -> SUBSET Paths]
    BY <1>1, <1>2 DEF Mirrored, Mirror, MissesMirror
<1>3. CASE ApplyWrite(q)
    <2>1. Current(q).path \in Paths
        BY <1>3, CurrentIsPlanned DEF ApplyWrite, Applying
    <2>2. Mirrored(q, Current(q).path, Current(q).data) /\ UNCHANGED vanished
          /\ blind' = [blind EXCEPT ![q] = @ \cup TakenForAbsent(q)]
        BY <1>3 DEF ApplyWrite, Mirrored
    <2>3. TakenForAbsent(q) \subseteq Paths
        BY <2>1 DEF TakenForAbsent
    <2>4. stale' \in [Replicas -> SUBSET Paths]
        BY <1>2, <2>1, <2>2
    <2> QED
        BY <1>1, <2>2, <2>3, <2>4
<1>4. CASE RollRestore(q) \/ RollWrite(q)
    <2>1. undo[q] # <<>> /\ UndoLast(q)
        BY <1>4 DEF RollRestore, RollWrite, Undoing, Progress
    <2>2. Last(undo[q]).path \in Paths
        BY <2>1, LastUndoIsOne
    <2>3. Mirrored(q, Last(undo[q]).path, Body(Undone(Last(undo[q])))) /\ UNCHANGED <<blind, vanished>>
        BY <2>1 DEF UndoLast, Popped, Mirrored, outcome
    <2> QED
        BY <1>1, <1>2, <2>2, <2>3
<1>5. CASE WriteFile(q)
    <2>1. req[q].path \in Paths
        BY <1>5, FileCallTyped DEF WriteFile
    <2>2. Mirrored(q, req[q].path, Body(file'[req[q].path])) /\ UNCHANGED <<blind, vanished>>
        BY <1>5 DEF WriteFile, Mirrored, outcome
    <2> QED
        BY <1>1, <1>2, <2>1, <2>2
<1>6. CASE Lock(q) \/ Commit(q) \/ CommitFails(q) \/ BumpSet(q) \/ RollDone(q)
    BY <1>1, <1>6 DEF Lock, LockAnyway, Commit, CommitFails, BumpSet, RollDone, SetHead, Shaped
<1>7. CASE \/ Begin(q) \/ CheckHead(q) \/ RefuseHead(q) \/ Inventory(q) \/ PlanOp(q) \/ RefusePlan(q)
           \/ ApplyRead(q) \/ ApplyFails(q) \/ RollRead(q) \/ RollFails(q)
           \/ CheckQuota(q) \/ RefuseQuota(q) \/ WriteFails(q) \/ BumpRead(q)
    BY <1>1, <1>7 DEF Begin, CheckHead, RefuseHead, Inventory, PlanOp, RefusePlan, Refuse, ApplyRead,
                      ApplyFails, RollRead, RollFails, Popped, CheckQuota, RefuseQuota, WriteFails,
                      BumpRead, history, outcome
<1> QED
    BY <1>3, <1>4, <1>5, <1>6, <1>7 DEF Serve, Push, Rollback, FileCalls

LEMMA NextTInv == TInv /\ [Next]_vars => TInv'
<1> SUFFICES ASSUME TInv, [Next]_vars PROVE TInv'
    OBVIOUS
<1>1. ASSUME NEW q \in Requests, Begin(q) \/ Serve(q) PROVE TInv'
    <2>1. UNCHANGED file \/ FileStep
        BY <1>1, FilesMove
    <2>2. UNCHANGED <<head, log>> \/ LogStep
        BY <1>1, HeadMoves
    <2>3. file' \in Listings /\ Settled' /\ log' \in Seq(Listings) /\ head' \in 0..Len(log')
        BY <2>1, <2>2, FilesKept, LogKept DEF TInv
    <2>4. at' \in [Requests -> 0..Len(log')]
        BY <1>1, AtTyped
    <2>5. Locals' /\ Asked(q)' /\ Progress(q)' /\ Readable(q)'
        BY <1>1, OwnTyped, OwnReadable
    <2>6. Shaped'
        BY <1>1, <2>3, <2>4, <2>5, ExcusesTyped DEF Shaped, Locals
    <2>7. ASSUME NEW s \in Requests, s # q PROVE Asked(s)' /\ Progress(s)' /\ Readable(s)'
        BY <1>1, <2>1, <2>7, OthersSame, SameKept DEF TInv
    <2> QED
        BY <2>3, <2>5, <2>6, <2>7 DEF TInv
<1>2. ASSUME NEW u \in Pullers, Pull(u) PROVE TInv'
    <2>1. UNCHANGED <<storage, tree, lock, pc, req, progress, reply, history>>
        BY <1>2, PullSame
    <2> QED
        BY <2>1 DEF TInv, Shaped, Excused, Settled, Asked, Progress, Readable, storage, progress,
                    history, outcome, Current
<1>3. ASSUME NEW r \in Replicas, Crash(r) PROVE TInv'
    <2>1. UNCHANGED <<file, head, log>>
        BY <1>3 DEF Crash, storage
    <2>2. Locals'
        BY <1>3, CrashTyped DEF TInv
    <2>3. at' \in [Requests -> 0..Len(log)]
        BY <1>3, LenProperties DEF Crash, TInv, Shaped
    <2>4. Shaped' /\ Settled'
        BY <1>3, <2>1, <2>2, <2>3 DEF TInv, Shaped, Locals, Settled, Excused, Crash
    <2>5. ASSUME NEW s \in Requests PROVE Asked(s)' /\ Progress(s)' /\ Readable(s)'
        <3>1. CASE On[s] # r
            BY <1>3, <2>1, <3>1, CrashSame, SameKept DEF TInv
        <3>2. CASE On[s] = r
            <4>1. /\ pc'[s] = "idle" /\ req'[s] = NoReq /\ plan'[s] = <<>>
                  /\ undo'[s] = <<>> /\ i'[s] = 1 /\ ~mixed'[s]
                BY <1>3, <3>2, CrashSame DEF TInv
            <4> QED
                BY <4>1 DEF Asked, Progress, Readable, Pushing, Filing, Applying, Rolling
        <3> QED
            BY <3>1, <3>2
    <2> QED
        BY <2>4, <2>5 DEF TInv
<1>4. CASE UNCHANGED vars
    BY <1>4 DEF vars, TInv, Shaped, Excused, Settled, Asked, Progress, Readable, storage, progress,
                history, outcome, Current
<1> QED
    BY <1>1, <1>2, <1>3, <1>4 DEF Next

LEMMA TInvHolds == Spec => []TInv
BY InitTInv, NextTInv, PTL DEF Spec

\* Every variable keeps its type, a path's version is one it has, and a push
\* never undoes more than it planned: for any requests, replicas, pullers,
\* quotas and batches, and whatever fails.
THEOREM TypeCorrect == Spec => []TypeOK
<1>1. TInv => TypeOK
    <2> SUFFICES ASSUME TInv PROVE TypeOK
        OBVIOUS
    <2>1. ASSUME NEW p \in Paths
          PROVE  file[p].vers \in Seq(Data) /\ file[p].cur \in 0..Len(file[p].vers)
        <3>1. file[p] \in Files /\ file[p].cur \in {0, Len(file[p].vers)}
            BY DEF TInv, Shaped, Listings, Settled
        <3>2. file[p].vers \in Seq(Data) /\ Len(file[p].vers) \in Nat
            BY <3>1, LenProperties DEF Files
        <3> QED
            BY <3>1, <3>2
    <2> QED
        BY <2>1 DEF TInv, Shaped, Excused, Progress, TypeOK, Pcs, Pushing, Filing, Applying, Rolling
<1> QED
    BY <1>1, TInvHolds, PTL

-----------------------------------------------------------------------------
(* The lock *)

LEMMA InitLocked == Init => Locked
BY DEF Init, Locked, Holds, Pushing, Applying, Rolling

\* What a call's step does to the lock: takes it while it is free, lets it go
\* with whatever the call held, or leaves it, and then it holds it no longer
\* than before.
LEMMA LockMoves ==
    ASSUME Shaped, NEW q \in Requests, Begin(q) \/ Serve(q)
    PROVE  \/ lock[On[q]] = Free /\ lock' = [lock EXCEPT ![On[q]] = q]
           \/ Unlock(q) /\ pc'[q] \in {"idle", "bumpRead"}
           \/ UNCHANGED lock /\ (Holds(q)' => Holds(q))
<1> USE DEF Shaped, Goto, Holds, Pushing, Applying, Rolling, Refuse, Reply
<1>1. CASE Begin(q) \/ Lock(q) \/ CheckHead(q) \/ RefuseHead(q) \/ Inventory(q) \/ PlanOp(q) \/ RefusePlan(q)
    BY <1>1 DEF Begin, Request, Lock, LockAnyway, CheckHead, RefuseHead, Inventory, PlanOp, RefusePlan
<1>2. CASE ApplyRead(q) \/ ApplyWrite(q) \/ ApplyFails(q) \/ Commit(q) \/ CommitFails(q)
    BY <1>2 DEF ApplyRead, ApplyWrite, ApplyFails, Commit, CommitFails
<1>3. CASE Rollback(q)
    BY <1>3 DEF Rollback, RollRestore, RollRead, RollWrite, RollFails, RollDone, UndoLast, Popped, Undoing
<1>4. CASE FileCalls(q)
    BY <1>4 DEF FileCalls, CheckQuota, RefuseQuota, WriteFile, WriteFails, BumpRead, BumpSet
<1> QED
    BY <1>1, <1>2, <1>3, <1>4 DEF Serve, Push

LEMMA NextLocked == TInv /\ Locked /\ [Next]_vars => Locked'
<1> SUFFICES ASSUME TInv, Locked, [Next]_vars PROVE Locked'
    OBVIOUS
<1> USE SpaceServiceAssumption DEF TInv
<1>1. ASSUME NEW q \in Requests, Begin(q) \/ Serve(q), NEW s \in Requests, Holds(s)'
      PROVE  lock'[On[s]] = s
    <2>1. \/ lock[On[q]] = Free /\ lock' = [lock EXCEPT ![On[q]] = q]
          \/ Unlock(q) /\ pc'[q] \in {"idle", "bumpRead"}
          \/ UNCHANGED lock /\ (Holds(q)' => Holds(q))
        BY <1>1, LockMoves
    <2>2. CASE s = q
        BY <1>1, <2>1, <2>2 DEF Locked, Shaped, Holds, Pushing, Applying, Rolling
    <2>3. CASE s # q
        <3>1. Holds(s)
            BY <1>1, <2>3, OthersSame DEF Same, Holds
        <3>2. lock[On[s]] = s /\ On[s] \in Replicas /\ On[q] \in Replicas /\ s # Free
            BY <3>1 DEF Locked
        <3> QED
            BY SMTT(30), <2>1, <2>3, <3>2 DEF Shaped, Unlock
    <2> QED
        BY <2>2, <2>3
<1>2. ASSUME NEW u \in Pullers, Pull(u) PROVE Locked'
    BY <1>2, PullSame DEF Locked, Holds
<1>3. ASSUME NEW r \in Replicas, Crash(r), NEW s \in Requests, Holds(s)'
      PROVE  lock'[On[s]] = s
    <2>1. On[s] # r
        BY <1>3, CrashSame DEF Holds, Pushing, Applying, Rolling
    <2>2. Holds(s)
        BY <1>3, <2>1, CrashSame DEF Same, Holds
    <2> QED
        BY <1>3, <2>1, <2>2 DEF Locked, Crash, Shaped
<1>4. CASE UNCHANGED vars
    BY <1>4 DEF vars, Locked, Holds
<1> QED
    BY <1>1, <1>2, <1>3, <1>4 DEF Next, Locked

\* One call at a time works on a space at a replica, from the moment it takes
\* the lock until it is answered or has let the lock go: whatever fails.
Exclusive ==
    \A q, s \in Requests : Holds(q) /\ Holds(s) /\ On[q] = On[s] => q = s

\* The mutex of a space does exclude, on every path through push.go and service.go: no error,
\* refusal, rollback or crash lets a second call in while the first works.
THEOREM OneAtATime == Spec => []Exclusive
<1>1. Locked => Exclusive
    BY DEF Locked, Exclusive
<1>2. Spec => []Locked
    BY InitLocked, NextLocked, TInvHolds, PTL DEF Spec
<1> QED
    BY <1>1, <1>2, PTL

-----------------------------------------------------------------------------
(* What a puller holds *)

Fetched == [path : Paths, ver : Nat, data : Data \cup {NoData}]
Pulls == {NoPull} \cup [pc : {"list"}, head : Nat]
             \cup [pc : {"fetch", "done"}, head : Nat, todo : SUBSET Paths, got : Seq(Fetched)]

\* What a client fetched is at least as new as the head it will remember.
Fresh(u) ==
    /\ pull[u].pc # "idle" => pull[u].head <= Len(log)
    /\ pull[u].pc \in {"fetch", "done"} /\ pull[u].head # 0 =>
        \A k \in DOMAIN pull[u].got :
            log[pull[u].head][pull[u].got[k].path].cur <= pull[u].got[k].ver

\* No head names a version newer than the newest of its file.
LogOld == \A k \in 1..Len(log) : \A p \in Paths : log[k][p].cur <= Len(file[p].vers)

PInv ==
    /\ pull \in [Pullers -> Pulls]
    /\ LogOld
    /\ \A u \in Pullers : Fresh(u)

LEMMA LogEntry ==
    ASSUME Shaped, NEW k \in 1..Len(log), NEW p \in Paths
    PROVE  log[k] \in Listings /\ log[k][p].cur \in Nat
BY ElementOfSeq DEF Shaped, Listings, Files

LEMMA InitPInv == Init => PInv
BY DEF Init, PInv, Pulls, LogOld, Fresh, NoPull

\* A step of a call: the log grows, and so does every file.
LEMMA ServePInv ==
    ASSUME TInv, PInv, NEW q \in Requests, Begin(q) \/ Serve(q)
    PROVE  PInv'
<1> USE DEF TInv, PInv
<1>1. UNCHANGED pull
    BY DEF Begin, Serve, Push, Rollback, FileCalls, Lock, LockAnyway, CheckHead, RefuseHead, Inventory,
           PlanOp, RefusePlan, Refuse, ApplyRead, ApplyWrite, ApplyFails, Commit, CommitFails, RollRestore,
           RollRead, RollWrite, RollFails, RollDone, UndoLast, Popped, CheckQuota, RefuseQuota,
           WriteFile, WriteFails, BumpRead, BumpSet
<1>2. UNCHANGED file \/ FileStep
    BY FilesMove
<1>3. UNCHANGED <<head, log>> \/ LogStep
    BY HeadMoves
<1>4. \A p \in Paths : /\ Len(file[p].vers) \in Nat /\ Len(file'[p].vers) \in Nat
                       /\ Len(file[p].vers) <= Len(file'[p].vers)
    BY <1>2, FilesKept
<1>5. /\ Len(log) \in Nat /\ Len(log') \in Nat /\ Len(log) <= Len(log')
      /\ \A k \in 1..Len(log) : log'[k] = log[k]
    BY <1>3, LogKept
<1>6. LogOld'
    <2> SUFFICES ASSUME NEW k \in 1..Len(log'), NEW p \in Paths
                 PROVE  log'[k][p].cur <= Len(file'[p].vers)
        BY DEF LogOld
    <2>1. CASE k \in 1..Len(log)
        BY SMTT(30), <1>4, <1>5, <2>1, LogEntry DEF LogOld
    <2>2. CASE k \notin 1..Len(log)
        <3>1. LogStep
            BY <1>3, <2>2
        <3>2. log'[k] = file
            BY <1>5, <2>2, <3>1, AppendProperties DEF LogStep, Shaped
        <3>3. file[p].cur \in Nat /\ file[p].cur <= Len(file[p].vers)
            BY <1>4 DEF Shaped, Settled, Listings, Files
        <3> QED
            BY <1>4, <3>2, <3>3
    <2> QED
        BY <2>1, <2>2
<1>7. ASSUME NEW u \in Pullers PROVE Fresh(u)'
    <2>1. CASE pull[u].pc # "idle" /\ pull[u].head # 0
        <3>1. pull[u].head \in 1..Len(log)
            BY <1>5, <2>1 DEF Fresh, Pulls, NoPull
        <3> QED
            BY <1>1, <1>5, <3>1 DEF Fresh
    <2>2. CASE ~(pull[u].pc # "idle" /\ pull[u].head # 0)
        BY <1>1, <1>5, <2>2 DEF Fresh
    <2> QED
        BY <2>1, <2>2
<1> QED
    BY <1>1, <1>6, <1>7

\* A step of a puller: it fetches the newest version of a file.
LEMMA PullPInv ==
    ASSUME TInv, PInv, NEW u \in Pullers, Pull(u)
    PROVE  PInv'
<1> USE DEF TInv, PInv
<1>1. UNCHANGED <<file, head, log>>
    BY PullSame DEF storage, history, outcome
<1>2. LogOld'
    BY <1>1 DEF LogOld
<1>3. head \in Nat /\ head <= Len(log)
    BY LenProperties DEF Shaped
<1>4. pull[u] \in Pulls
    OBVIOUS
<1>5. ASSUME NEW g \in Pulls, pull' = [pull EXCEPT ![u] = g],
             /\ g.pc # "idle" => g.head <= Len(log)
             /\ g.pc \in {"fetch", "done"} /\ g.head # 0 =>
                    \A k \in DOMAIN g.got : log[g.head][g.got[k].path].cur <= g.got[k].ver
      PROVE  PInv'
    BY <1>1, <1>2, <1>5 DEF Fresh
<1>6. CASE PullHead(u)
    <2>1. [pc |-> "list", head |-> head] \in Pulls
        BY <1>3 DEF Pulls
    <2> QED
        BY <1>3, <1>5, <1>6, <2>1 DEF PullHead
<1>7. CASE PullList(u)
    <2> DEFINE g == [pc |-> "fetch", head |-> pull[u].head, todo |-> Present, got |-> <<>>]
    <2>1. pull[u].pc = "list" /\ pull' = [pull EXCEPT ![u] = g]
        BY <1>7 DEF PullList
    <2>2. pull[u].head \in Nat /\ pull[u].head <= Len(log)
        BY <1>4, <2>1 DEF Pulls, NoPull, Fresh
    <2>3. g \in Pulls /\ g.head = pull[u].head /\ DOMAIN g.got = {} /\ g.pc = "fetch"
        BY <2>2 DEF Pulls, Present
    <2> HIDE DEF g
    <2> QED
        BY <1>5, <2>1, <2>2, <2>3
<1>8. CASE PullFails(u)
    BY <1>5, <1>8 DEF PullFails, Pulls, NoPull
<1>9. ASSUME pull[u].pc = "fetch"
      PROVE  /\ pull[u] \in [pc : {"fetch", "done"}, head : Nat, todo : SUBSET Paths, got : Seq(Fetched)]
             /\ pull[u].head <= Len(log)
    BY <1>4, <1>9 DEF Pulls, NoPull, Fresh
<1>10. CASE PullEnd(u)
    <2> DEFINE g == [pull[u] EXCEPT !.pc = "done", !.head = pull[u].head]
    <2>1. pull[u].pc = "fetch" /\ pull' = [pull EXCEPT ![u] = g]
        BY <1>10 DEF PullEnd, LastHead
    <2>2. g \in Pulls /\ g.head = pull[u].head /\ g.got = pull[u].got /\ g.pc = "done"
        BY <1>9, <2>1 DEF Pulls
    <2> HIDE DEF g
    <2> QED
        BY <1>5, <1>9, <2>1, <2>2 DEF Fresh
<1>11. CASE PullFetch(u)
    <2>1. PICK p \in pull[u].todo :
            /\ file[p].cur # 0
            /\ pull' = [pull EXCEPT ![u].todo = @ \ {p},
                                    ![u].got = Append(@, [path |-> p, ver |-> file[p].cur,
                                                          data |-> Body(file[p])])]
        BY <1>11 DEF PullFetch
    <2>2. pull[u].pc = "fetch"
        BY <1>11 DEF PullFetch
    <2> DEFINE e == [path |-> p, ver |-> file[p].cur, data |-> Body(file[p])]
               g == [pull[u] EXCEPT !.todo = @ \ {p}, !.got = Append(@, e)]
    <2>3. p \in Paths /\ file[p] \in Files /\ file[p].cur \in {0, Len(file[p].vers)}
        BY <1>9, <2>2 DEF Shaped, Settled, Listings
    <2>4. e \in Fetched /\ e.path = p /\ e.ver = Len(file[p].vers)
        BY <2>1, <2>3, BodyIsData DEF Fetched
    <2> HIDE DEF e
    <2>5. pull[u].got \in Seq(Fetched) /\ Len(pull[u].got) \in Nat
        BY <1>9, <2>2, LenProperties
    <2>6. /\ Append(pull[u].got, e) \in Seq(Fetched)
          /\ DOMAIN Append(pull[u].got, e) = 1..Len(pull[u].got) + 1
          /\ DOMAIN pull[u].got = 1..Len(pull[u].got)
          /\ \A k \in 1..Len(pull[u].got) : Append(pull[u].got, e)[k] = pull[u].got[k]
          /\ Append(pull[u].got, e)[Len(pull[u].got) + 1] = e
        BY <2>4, <2>5, AppendProperties, LenProperties
    <2>7. /\ g \in Pulls /\ g.head = pull[u].head /\ g.pc = "fetch"
          /\ g.got = Append(pull[u].got, e)
        BY <1>9, <2>2, <2>6 DEF Pulls
    <2>8. pull' = [pull EXCEPT ![u] = g]
        BY <2>1 DEF e
    <2>9. ASSUME pull[u].head # 0, NEW k \in DOMAIN Append(pull[u].got, e)
          PROVE  log[pull[u].head][Append(pull[u].got, e)[k].path].cur <= Append(pull[u].got, e)[k].ver
        <3>1. pull[u].head \in 1..Len(log)
            BY <1>3, <1>9, <2>2, <2>9
        <3>2. CASE k \in 1..Len(pull[u].got)
            BY <2>2, <2>6, <2>9, <3>2 DEF Fresh
        <3>3. CASE k = Len(pull[u].got) + 1
            BY <2>3, <2>4, <2>6, <3>1, <3>3 DEF LogOld
        <3> QED
            BY <2>5, <2>6, <2>9, <3>2, <3>3
    <2> HIDE DEF g
    <2> QED
        BY <1>5, <1>9, <2>2, <2>7, <2>8, <2>9
<1> QED
    BY <1>6, <1>7, <1>8, <1>10, <1>11 DEF Pull

LEMMA NextPInv == TInv /\ PInv /\ [Next]_vars => PInv'
<1> SUFFICES ASSUME TInv, PInv, [Next]_vars PROVE PInv'
    OBVIOUS
<1>1. ASSUME NEW r \in Replicas, Crash(r) PROVE PInv'
    BY <1>1 DEF Crash, storage, PInv, LogOld, Fresh
<1>2. CASE UNCHANGED vars
    BY <1>2 DEF vars, storage, history, outcome, PInv, LogOld, Fresh
<1> QED
    BY <1>1, <1>2, ServePInv, PullPInv DEF Next

\* A client is never behind the head it remembers: every file it holds is at
\* least the version that head stood for, so a head that has not moved means
\* nothing was missed.  It holds whatever is written or rolled back meanwhile.
THEOREM PulledIsNotStale == Spec => []PullNotStale
<1>1. TInv /\ PInv => PullNotStale
    <2> SUFFICES ASSUME TInv, PInv, NEW u \in Pullers, NEW e \in Pulled(u), pull[u].head # 0
                 PROVE  e.ver >= log[pull[u].head][e.path].cur
        BY DEF PullNotStale
    <2>1. pull[u].pc \in {"fetch", "done"}
        BY DEF Pulled
    <2>2. /\ pull[u] \in [pc : {"fetch", "done"}, head : Nat, todo : SUBSET Paths, got : Seq(Fetched)]
          /\ pull[u].head <= Len(log)
        BY <2>1 DEF PInv, Pulls, NoPull, Fresh
    <2>3. PICK k \in DOMAIN pull[u].got : e = pull[u].got[k]
        BY <2>1 DEF Pulled
    <2>4. log[pull[u].head][e.path].cur <= e.ver
        BY <2>1, <2>3 DEF PInv, Fresh
    <2>5. e \in Fetched
        BY <2>2, <2>3, ElementOfSeq, LenProperties
    <2>6. pull[u].head \in 1..Len(log)
        BY <2>2, LenProperties DEF TInv, Shaped
    <2>7. log[pull[u].head][e.path].cur \in Nat
        BY <2>5, <2>6, LogEntry DEF TInv, Fetched
    <2> QED
        BY <2>4, <2>5, <2>7 DEF Fetched
<1> QED
    BY <1>1, InitPInv, NextPInv, TInvHolds, PTL DEF Spec
=============================================================================
