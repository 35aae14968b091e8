------------------------- MODULE SpaceServiceAtomic -------------------------
(***************************************************************************)
(* Theorems about SpaceService on one replica, where the lock of a space   *)
(* keeps its writers apart and an operation told to fail has no effect: a  *)
(* push happens as a whole or not at all, but for files it took for absent *)
(* when a read of theirs failed.                                           *)
(***************************************************************************)
EXTENDS SpaceServiceProofs, FiniteSetTheorems

SoleReplica == \A r, s \in Replicas : r = s
CleanFaults == "after" \notin FaultKinds

(* The inductive invariant *)

\* What an undo step makes of a file.
Back(u, f) ==
    CASE u.how = "restore" -> Restored(f)
      [] u.how = "remove" -> Removed(f)
      [] u.how = "rewrite" -> Written(f, f.vers[u.ver])

Touched(q) == {undo[q][k].path : k \in DOMAIN undo[q]}

\* What a path held when the push got the lock; or nothing, if it is one that
\* the push put over and took for absent.
Gives(q, p, d) == d = before[q][p] \/ (p \in blind[q] /\ d = NoData)

\* A push can always be taken back: each path it touched it touched once, and
\* its undo step leads to what the space held when the push got the lock;
\* unless an undo step failed, every other path still holds that.
UndoRight(q) ==
    /\ \A j, k \in DOMAIN undo[q] : undo[q][j].path = undo[q][k].path => j = k
    /\ \A k \in DOMAIN undo[q] :
        /\ Gives(q, undo[q][k].path, Body(Back(undo[q][k], file[undo[q][k].path])))
        /\ file[undo[q][k].path].cur = 0 <=> undo[q][k].how = "restore"
    /\ ~mixed[q] => \A p \in Paths \ Touched(q) : Gives(q, p, Body(file[p]))
    /\ pc[q] \notin Rolling => blind[q] \subseteq Touched(q)
    /\ pc[q] = "rollWrite" => Unmoved(q)

\* A plan is the batch, with the versions its paths had: a path already
\* touched has another, so that a second operation on it is turned down.
PlanRight(q) ==
    /\ pc[q] \in {"plan"} \cup Applying =>
        \A k \in DOMAIN plan[q] :
            /\ plan[q][k].path = req[q].ops[k].path
            /\ plan[q][k].op = req[q].ops[k].op
            /\ plan[q][k].data = req[q].ops[k].data
    /\ pc[q] \in {"plan", "applyRead", "applyWrite"} =>
        \A k \in DOMAIN plan[q] :
            plan[q][k].path \in Touched(q) <=> plan[q][k].want # file[plan[q][k].path].cur
    /\ pc[q] = "applyWrite" => seen[q] \in {0, file[Current(q).path].cur}
    /\ pc[q] \in Applying =>
        \A k \in DOMAIN undo[q] :
            /\ undo[q][k].path = plan[q][k].path
            /\ Body(file[plan[q][k].path]) = plan[q][k].data

TreeRight == \A r \in Replicas : \A p \in Paths \ stale[r] : tree[r][p] = Content[p]

AInv ==
    /\ TreeRight
    /\ \A q \in Requests : Holds(q) => UndoRight(q) /\ PlanRight(q)

-----------------------------------------------------------------------------
(* Undoing one operation *)

LEMMA BackIsUndone ==
    ASSUME NEW u
    PROVE  /\ Undone(u) = Back(u, file[u.path])
           /\ Undone(u)' = Back(u, file'[u.path])
BY DEF Undone, Back

\* The content a file holds after a write, a removal and a restore.
LEMMA BodyAfter ==
    ASSUME NEW f \in Files, f.cur \in {0, Len(f.vers)}, NEW d \in Data
    PROVE  /\ Body(Written(f, d)) = d /\ Written(f, d).cur = Len(f.vers) + 1
           /\ Written(f, d) \in Files /\ Len(f.vers) \in Nat
           /\ \A k \in 1..Len(f.vers) : Written(f, d).vers[k] = f.vers[k]
           /\ Body(Removed(f)) = NoData /\ Removed(f).cur = 0 /\ Removed(f).vers = f.vers
           /\ Restored(f).cur = Len(f.vers) /\ Restored(f).vers = f.vers
<1>1. f.cur \in Nat /\ f.vers \in Seq(Data) /\ Len(f.vers) \in Nat
    BY LenProperties DEF Files
<1>2. /\ Append(f.vers, d) \in Seq(Data)
      /\ Append(f.vers, d)[Len(f.vers) + 1] = d
      /\ \A k \in 1..Len(f.vers) : Append(f.vers, d)[k] = f.vers[k]
    BY <1>1, AppendProperties
<1>3. Written(f, d).vers = Append(f.vers, d) /\ Written(f, d).cur = Len(f.vers) + 1
    BY DEF Written
<1>4. Written(f, d) \in Files
    BY <1>1, <1>2 DEF Written, Files
<1> QED
    BY <1>1, <1>2, <1>3, <1>4 DEF Body, Removed, Restored, Files

\* Each undo step takes its operation back.
LEMMA BackFromDelete ==
    ASSUME NEW f \in Files, f.cur \in {0, Len(f.vers)}, f.cur # 0, NEW u, u.how = "restore"
    PROVE  Body(Back(u, Removed(f))) = Body(f)
<1>1. Len(f.vers) \in Nat /\ Removed(f).vers = f.vers /\ Removed(f).cur = 0
    BY LenProperties DEF Removed, Files
<1>2. Back(u, Removed(f)) = Restored(Removed(f))
    BY DEF Back
<1>3. Restored(Removed(f)).cur = f.cur /\ Restored(Removed(f)).vers = f.vers
    BY <1>1 DEF Restored, Removed, Files
<1> QED
    BY <1>2, <1>3 DEF Body

LEMMA BackFromCreate ==
    ASSUME NEW f, f.cur = 0, NEW d, NEW u, u.how = "remove"
    PROVE  Body(Back(u, Written(f, d))) = Body(f)
<1>1. Back(u, Written(f, d)) = Removed(Written(f, d))
    BY DEF Back
<1>2. Removed(Written(f, d)).cur = 0
    BY DEF Removed, Written
<1> QED
    BY <1>1, <1>2 DEF Body

LEMMA RemovedIsGone ==
    ASSUME NEW f, NEW d, NEW u, u.how = "remove"
    PROVE  Body(Back(u, Written(f, d))) = NoData
<1>1. Back(u, Written(f, d)) = Removed(Written(f, d))
    BY DEF Back
<1>2. Removed(Written(f, d)).cur = 0
    BY DEF Removed, Written
<1> QED
    BY <1>1, <1>2 DEF Body

LEMMA BackFromWrite ==
    ASSUME NEW f \in Files, f.cur \in {0, Len(f.vers)}, f.cur # 0, NEW d \in Data,
           NEW u, u.how = "rewrite", u.ver = f.cur
    PROVE  Body(Back(u, Written(f, d))) = Body(f)
<1> DEFINE g == Written(f, d)
<1>1. /\ g \in Files /\ g.cur \in {0, Len(g.vers)} /\ g.vers[f.cur] = f.vers[f.cur]
    <2>1. g \in Files /\ \A k \in 1..Len(f.vers) : g.vers[k] = f.vers[k]
        BY BodyAfter
    <2>2. g.cur \in {0, Len(g.vers)}
        BY MovedFile DEF Moved
    <2>3. f.cur \in 1..Len(f.vers)
        BY LenProperties DEF Files
    <2> QED
        BY <2>1, <2>2, <2>3
<1>2. f.vers[f.cur] \in Data
    BY BodyIsData DEF Body, Files
<1> HIDE DEF g
<1>3. Back(u, g) = Written(g, f.vers[f.cur])
    BY <1>1 DEF Back
<1>4. Body(Written(g, f.vers[f.cur])) = f.vers[f.cur]
    BY <1>1, <1>2, BodyAfter
<1> QED
    BY <1>3, <1>4 DEF Body, g

-----------------------------------------------------------------------------
(* What a step does to what a rollback relies on *)

\* Nothing to undo: the space holds what it held.
LEMMA NothingTouched ==
    ASSUME NEW q \in Requests, UndoRight(q), undo[q] = <<>>, ~mixed[q],
           before \in [Requests -> [Paths -> Data \cup {NoData}]]
    PROVE  /\ \A p \in Paths : Gives(q, p, Content[p])
           /\ pc[q] \notin Rolling => Content = before[q] /\ blind[q] = {}
<1>1. Touched(q) = {}
    BY DEF Touched
<1>2. \A p \in Paths : Gives(q, p, Body(file[p]))
    BY <1>1 DEF UndoRight
<1>3. \A p \in Paths : Gives(q, p, Content[p])
    BY <1>2 DEF Content
<1>4. pc[q] \notin Rolling => blind[q] = {}
    BY <1>1 DEF UndoRight
<1>5. pc[q] \notin Rolling => Content = before[q]
    BY <1>2, <1>4 DEF Content, Gives
<1> QED
    BY <1>3, <1>4, <1>5

\* Before it rolls back, a push finds the paths it did not touch as they were.
LEMMA UntouchedHeld ==
    ASSUME NEW q \in Requests, UndoRight(q), ~mixed[q], pc[q] \notin Rolling
    PROVE  \A p \in Paths \ Touched(q) : Body(file[p]) = before[q][p]
BY DEF UndoRight, Gives

\* A step that leaves files and undo list alone.
LEMMA UndoRightStays ==
    ASSUME NEW q, UndoRight(q), UNCHANGED file, undo'[q] = undo[q], before'[q] = before[q],
           blind'[q] = blind[q], mixed'[q] = mixed[q], (pc'[q] = "rollWrite" => Unmoved(q)'),
           pc[q] \in Rolling => pc'[q] \in Rolling
    PROVE  UndoRight(q)'
BY DEF UndoRight, Touched, Gives

\* The undo list of a call, its paths and their files.
LEMMA UndoIsTyped ==
    ASSUME Shaped, Settled, NEW q \in Requests
    PROVE  /\ undo[q] \in Seq(Undos) /\ Len(undo[q]) \in Nat /\ DOMAIN undo[q] = 1..Len(undo[q])
           /\ \A k \in DOMAIN undo[q] : undo[q][k] \in Undos /\ undo[q][k].path \in Paths
           /\ \A p \in Paths : file[p] \in Files /\ file[p].cur \in {0, Len(file[p].vers)}
<1>1. undo[q] \in Seq(Undos) /\ Len(undo[q]) \in Nat /\ DOMAIN undo[q] = 1..Len(undo[q])
    BY LenProperties DEF Shaped
<1>2. \A k \in DOMAIN undo[q] : undo[q][k] \in Undos
    BY <1>1, ElementOfSeq
<1> QED
    BY <1>1, <1>2 DEF Undos, Shaped, Settled, Listings

\* The last undo step is taken off the list.
LEMMA Shortened ==
    ASSUME Shaped, Settled, NEW q \in Requests, undo[q] # <<>>, Pop(q)
    PROVE  /\ DOMAIN undo'[q] = 1..Len(undo[q]) - 1 /\ DOMAIN undo[q] = 1..Len(undo[q])
           /\ Len(undo[q]) \in Nat \ {0}
           /\ \A k \in 1..Len(undo[q]) - 1 : undo'[q][k] = undo[q][k]
           /\ Last(undo[q]) = undo[q][Len(undo[q])]
<1>1. undo[q] \in Seq(Undos) /\ DOMAIN undo[q] = 1..Len(undo[q])
    BY UndoIsTyped
<1>2. undo'[q] = SubSeq(undo[q], 1, Len(undo[q]) - 1)
    BY DEF Pop, Shaped
<1>3. /\ undo'[q] \in Seq(Undos) /\ Len(undo'[q]) = Len(undo[q]) - 1 /\ Len(undo[q]) \in Nat \ {0}
      /\ \A k \in 1..Len(undo[q]) - 1 : undo'[q][k] = undo[q][k]
    BY <1>1, <1>2, LastAndFront
<1>4. DOMAIN undo'[q] = 1..Len(undo'[q])
    BY <1>3, LenProperties
<1> QED
    BY <1>1, <1>3, <1>4 DEF Last

\* An undo step takes its path back; another's path is another.
LEMMA UndoRightUndone ==
    ASSUME Shaped, Settled, NEW q \in Requests, UndoRight(q), undo[q] # <<>>,
           UndoFile(Last(undo[q])), Pop(q), before'[q] = before[q], mixed'[q] = mixed[q],
           blind'[q] = blind[q], pc'[q] = "roll"
    PROVE  UndoRight(q)'
<1> DEFINE u == Last(undo[q])
           n == Len(undo[q])
<1>1. /\ DOMAIN undo'[q] = 1..n - 1 /\ DOMAIN undo[q] = 1..n /\ n \in Nat \ {0}
      /\ \A k \in 1..n - 1 : undo'[q][k] = undo[q][k]
      /\ u = undo[q][n]
    BY Shortened
<1>2. \A k \in 1..n : undo[q][k].path \in Paths
    BY <1>1, UndoIsTyped
<1>3. \A j, k \in 1..n : undo[q][j].path = undo[q][k].path => j = k
    BY <1>1 DEF UndoRight
<1>4. file' = [file EXCEPT ![u.path] = Back(u, file[u.path])]
    BY BackIsUndone DEF UndoFile
<1>5. Gives(q, u.path, Body(Back(u, file[u.path])))
    BY <1>1 DEF UndoRight
<1>6. \A k \in 1..n - 1 : undo[q][k].path # u.path /\ k \in 1..n
    BY <1>1, <1>3
<1>7. u.path \in Paths
    BY <1>1, <1>2
<1>8. \A p \in Paths : p # u.path => file'[p] = file[p]
    BY <1>4 DEF Shaped, Listings
<1>9. file'[u.path] = Back(u, file[u.path])
    BY <1>4, <1>7 DEF Shaped, Listings
<1> HIDE DEF u, n
<1>10. \A j, k \in DOMAIN undo'[q] : undo'[q][j].path = undo'[q][k].path => j = k
    BY <1>1, <1>3, <1>6
<1>11. ASSUME NEW k \in DOMAIN undo'[q]
       PROVE  /\ Gives(q, undo'[q][k].path, Body(Back(undo'[q][k], file'[undo'[q][k].path])))
              /\ file'[undo'[q][k].path].cur = 0 <=> undo'[q][k].how = "restore"
    <2>1. k \in DOMAIN undo[q] /\ undo'[q][k] = undo[q][k]
        BY <1>1, <1>6, <1>11
    <2>2. file'[undo[q][k].path] = file[undo[q][k].path]
        BY <1>1, <1>2, <1>6, <1>8, <1>11
    <2> QED
        BY <2>1, <2>2 DEF UndoRight
<1>12. ASSUME ~mixed[q], NEW p \in Paths \ Touched(q)' PROVE Gives(q, p, Body(file'[p]))
    <2>1. CASE p = u.path
        BY <1>5, <1>9, <2>1
    <2>2. CASE p # u.path
        <3>1. p \notin Touched(q)
            <4> SUFFICES ASSUME NEW k \in DOMAIN undo[q], undo[q][k].path = p PROVE FALSE
                BY DEF Touched
            <4>1. k # n
                BY <1>1, <2>2
            <4>2. k \in DOMAIN undo'[q] /\ undo'[q][k] = undo[q][k]
                BY <1>1, <4>1
            <4> QED
                BY <1>12, <4>2 DEF Touched
        <3> QED
            BY <1>8, <1>12, <2>2, <3>1 DEF UndoRight
    <2> QED
        BY <2>1, <2>2
<1> QED
    BY <1>10, <1>11, <1>12 DEF UndoRight, Gives, Rolling

\* An undo step that failed without effect is given up, and the call knows.
LEMMA UndoRightGivenUp ==
    ASSUME Shaped, Settled, NEW q \in Requests, UndoRight(q), undo[q] # <<>>,
           UNCHANGED file, Pop(q), before'[q] = before[q], blind'[q] = blind[q], mixed'[q],
           pc'[q] = "roll"
    PROVE  UndoRight(q)'
<1> DEFINE n == Len(undo[q])
<1>1. /\ DOMAIN undo'[q] = 1..n - 1 /\ DOMAIN undo[q] = 1..n /\ n \in Nat \ {0}
      /\ \A k \in 1..n - 1 : undo'[q][k] = undo[q][k]
    BY Shortened
<1>2. \A k \in 1..n - 1 : k \in 1..n
    BY <1>1
<1> HIDE DEF n
<1>3. \A k \in DOMAIN undo'[q] : k \in DOMAIN undo[q] /\ undo'[q][k] = undo[q][k]
    BY <1>1, <1>2
<1> QED
    BY <1>3 DEF UndoRight, Gives, Rolling

\* A step that applies an operation to a path untouched so far.
LEMMA UndoRightApplied ==
    ASSUME Shaped, Settled, NEW q \in Requests, UndoRight(q), ~mixed[q],
           NEW u \in Undos, u.path \notin Touched(q),
           blind[q] \subseteq Touched(q), blind[q] \subseteq blind'[q],
           blind'[q] \subseteq blind[q] \cup {u.path},
           \/ Body(Back(u, file'[u.path])) = Body(file[u.path])
           \/ u.path \in blind'[q] /\ Body(Back(u, file'[u.path])) = NoData,
           file'[u.path].cur = 0 <=> u.how = "restore",
           file' = [file EXCEPT ![u.path] = file'[u.path]],
           undo'[q] = Append(undo[q], u), before'[q] = before[q], pc'[q] # "rollWrite"
    PROVE  UndoRight(q)' /\ Touched(q)' = Touched(q) \cup {u.path}
<1> DEFINE n == Len(undo[q])
<1>1. /\ undo[q] \in Seq(Undos) /\ n \in Nat /\ DOMAIN undo[q] = 1..n
      /\ \A k \in DOMAIN undo[q] : undo[q][k].path \in Paths
    BY UndoIsTyped
<1>2. /\ DOMAIN undo'[q] = 1..n + 1 /\ undo'[q][n + 1] = u
      /\ \A k \in 1..n : undo'[q][k] = undo[q][k]
    BY <1>1, AppendProperties, LenProperties
<1>3. u.path \in Paths
    BY DEF Undos
<1>4. \A p \in Paths : p # u.path => file'[p] = file[p]
    BY DEF Shaped, Listings
<1>5. \A k \in 1..n : undo[q][k].path # u.path
    BY <1>1 DEF Touched
<1>6. before[q][u.path] = Body(file[u.path])
    BY <1>3 DEF UndoRight, Gives
<1> HIDE DEF n
<1> DEFINE Given(p, d) == d = before[q][p] \/ (p \in blind'[q] /\ d = NoData)
<1>7. \A j, k \in 1..n : undo[q][j].path = undo[q][k].path => j = k
    BY <1>1 DEF UndoRight
<1>8. \A j, k \in 1..n + 1 : undo'[q][j].path = undo'[q][k].path => j = k
    BY <1>1, <1>2, <1>5, <1>7
<1>9. Touched(q)' = Touched(q) \cup {u.path}
    <2>1. \A k \in 1..n + 1 : k = n + 1 \/ k \in 1..n
        BY <1>1
    <2>2. \A k \in 1..n : k \in 1..n + 1
        BY <1>1
    <2>3. n + 1 \in 1..n + 1
        BY <1>1
    <2> QED
        BY <1>1, <1>2, <2>1, <2>2, <2>3 DEF Touched
<1>10. ASSUME NEW k \in 1..n + 1
       PROVE  /\ Given(undo'[q][k].path, Body(Back(undo'[q][k], file'[undo'[q][k].path])))
              /\ file'[undo'[q][k].path].cur = 0 <=> undo'[q][k].how = "restore"
    <2>1. CASE k = n + 1
        <3>1. undo'[q][k] = u
            BY <1>2, <2>1
        <3>2. Given(u.path, Body(Back(u, file'[u.path])))
            BY <1>6
        <3> HIDE DEF Given
        <3> QED
            BY <3>1, <3>2
    <2>2. CASE k \in 1..n
        <3>1. file'[undo[q][k].path] = file[undo[q][k].path]
            BY <1>1, <1>4, <1>5, <2>2
        <3>2. /\ Gives(q, undo[q][k].path, Body(Back(undo[q][k], file[undo[q][k].path])))
              /\ file[undo[q][k].path].cur = 0 <=> undo[q][k].how = "restore"
            BY <1>1, <2>2 DEF UndoRight
        <3>3. Given(undo[q][k].path, Body(Back(undo[q][k], file'[undo[q][k].path])))
            BY <3>1, <3>2 DEF Gives
        <3> HIDE DEF Given
        <3> QED
            BY <1>2, <2>2, <3>1, <3>2, <3>3
    <2> QED
        BY <1>1, <1>10, <2>1, <2>2
<1>11. \A p \in Paths \ Touched(q)' : Given(p, Body(file'[p]))
    BY <1>4, <1>9 DEF UndoRight, Gives
<1>12. blind'[q] \subseteq Touched(q)'
    BY <1>9
<1> QED
    BY <1>2, <1>8, <1>9, <1>10, <1>11, <1>12 DEF UndoRight, Gives

-----------------------------------------------------------------------------
(* The working tree *)

LEMMA TreeFollows ==
    ASSUME SoleReplica, Shaped, TreeRight, NEW q \in Requests, NEW p \in Paths,
           file' = [file EXCEPT ![p] = file'[p]], Mirrored(q, p, Body(file'[p]))
    PROVE  TreeRight'
<1> SUFFICES ASSUME NEW r \in Replicas, NEW x \in Paths, x \notin stale'[r]
             PROVE  tree'[r][x] = Body(file'[x])
    BY DEF TreeRight, Content
<1>1. On[q] = r
    BY SpaceServiceAssumption DEF SoleReplica
<1>2. x # p => x \notin stale[r] /\ tree'[r][x] = tree[r][x]
    BY <1>1 DEF Mirrored, Mirror, MissesMirror, Shaped, Excused
<1>3. x # p => file'[x] = file[x]
    BY DEF Shaped, Listings
<1>4. CASE x = p
    BY <1>1, <1>4 DEF Mirrored, Mirror, MissesMirror, Shaped, Excused
<1>5. CASE x # p
    BY <1>2, <1>3, <1>5 DEF TreeRight, Content
<1> QED
    BY <1>4, <1>5

-----------------------------------------------------------------------------
(* Each step, for the call that makes it *)

\* A call without the lock does nothing to the files, unless to take the lock.
LEMMA WithoutLock ==
    ASSUME Shaped, NEW q \in Requests, Begin(q) \/ Serve(q), ~Holds(q)
    PROVE  /\ UNCHANGED <<file, tree, stale>>
           /\ Lock(q) \/ ~Holds(q)'
<1> USE DEF Shaped, Holds, Pushing, Applying, Rolling, Goto, storage, history, outcome, Refuse
<1>1. CASE Begin(q) \/ Lock(q)
    BY <1>1 DEF Begin, Request, Lock, LockAnyway
<1>2. CASE Push(q)
    BY <1>2 DEF Push, CheckHead, RefuseHead, Inventory, PlanOp, RefusePlan, ApplyRead, ApplyWrite,
                ApplyFails, Commit, CommitFails
<1>3. CASE Rollback(q)
    BY <1>3 DEF Rollback, RollRestore, RollRead, RollWrite, RollFails, RollDone, Undoing
<1>4. CASE FileCalls(q)
    BY <1>4 DEF FileCalls, CheckQuota, RefuseQuota, WriteFile, WriteFails, BumpRead, BumpSet, Reply
<1> QED
    BY <1>1, <1>2, <1>3, <1>4 DEF Serve

\* What a step of a call that works keeps for that call, and for the tree.
Kept(q) ==
    /\ Holds(q)' => UndoRight(q)' /\ PlanRight(q)'
    /\ TreeRight'

\* A step that touches no file, and leaves the call with nothing planned that
\* was not, or without the lock.
LEMMA AnsweredKept ==
    ASSUME AInv, NEW q \in Requests, UNCHANGED <<file, tree, stale>>, ~Holds(q)'
    PROVE  Kept(q)
BY DEF Kept, AInv, TreeRight, Content

LEMMA LockKept ==
    ASSUME TInv, AInv, NEW q \in Requests, Lock(q)
    PROVE  Kept(q)
<1>1. /\ UNCHANGED <<file, tree, stale, undo, plan>> /\ before'[q] = Content /\ pc[q] = "lock"
      /\ blind'[q] = {}
      /\ pc'[q] \in {"head", "check"}
    BY DEF Lock, LockAnyway, Goto, storage, progress, TInv, Shaped, Excused
<1>2. undo'[q] = <<>>
    BY <1>1 DEF TInv, Progress, Applying, Rolling
<1>3. Content' = Content
    BY <1>1 DEF Content
<1>4. UndoRight(q)'
    BY <1>1, <1>2 DEF UndoRight, Gives, Content
<1>5. PlanRight(q)'
    BY <1>1 DEF PlanRight, Applying
<1> QED
    BY <1>1, <1>3, <1>4, <1>5 DEF Kept, AInv, TreeRight

LEMMA PlanningKept ==
    ASSUME TInv, AInv, NEW q \in Requests, Holds(q),
           CheckHead(q) \/ RefuseHead(q) \/ Inventory(q) \/ PlanOp(q) \/ RefusePlan(q)
    PROVE  Kept(q)
<1> USE DEF TInv
<1>0. UndoRight(q) /\ PlanRight(q)
    BY DEF AInv
<1>1. CASE RefuseHead(q) \/ RefusePlan(q)
    BY <1>1, AnsweredKept DEF RefuseHead, RefusePlan, Refuse, Reply, Goto, storage, history, Shaped, Holds, Pushing, Applying,
                          Rolling
<1>2. CASE CheckHead(q)
    <2>1. /\ UNCHANGED <<file, tree, stale, undo, before, blind, mixed, plan>> /\ pc'[q] = "inventory"
          /\ pc[q] = "head"
        BY <1>2 DEF CheckHead, Goto, storage, history, outcome, Shaped
    <2>2. UndoRight(q)' /\ PlanRight(q)'
        BY <1>0, <2>1, UndoRightStays DEF PlanRight, Applying, Rolling
    <2> QED
        BY <2>1, <2>2 DEF Kept, AInv, TreeRight, Content
<1>3. CASE Inventory(q)
    <2>1. /\ UNCHANGED <<file, tree, stale, undo, before, blind, mixed, plan>>
          /\ pc'[q] = "plan" /\ pc[q] = "inventory"
        BY <1>3 DEF Inventory, Goto, storage, history, outcome, Shaped
    <2>2. plan'[q] = <<>>
        BY <2>1 DEF Progress, Applying, Rolling
    <2>3. UndoRight(q)' /\ PlanRight(q)'
        BY <1>0, <2>1, <2>2, UndoRightStays DEF PlanRight, Applying, Rolling
    <2> QED
        BY <2>1, <2>3 DEF Kept, AInv, TreeRight, Content
<1>4. CASE PlanOp(q)
    <2>1. /\ UNCHANGED <<file, tree, stale, undo, before, blind, mixed, req>> /\ pc[q] = "plan"
          /\ pc'[q] \in {"plan", "applyRead"}
        BY <1>4 DEF PlanOp, Goto, storage, history, outcome, Shaped
    <2> DEFINE o == [Op(q) EXCEPT !.want = file[Op(q).path].cur]
               n == Len(plan[q])
    <2>2. /\ Op(q) \in Ops /\ file[Op(q).path].cur \in Nat /\ i[q] = n + 1
        BY <2>1, OpIsOp DEF Progress
    <2>3. /\ o.path = Op(q).path /\ o.op = Op(q).op /\ o.data = Op(q).data
          /\ o.want = file[Op(q).path].cur /\ o \in PlanOps
        BY <2>2, OpIsPlanned
    <2>4. plan'[q] = Append(plan[q], o)
        BY <1>4 DEF PlanOp, Shaped
    <2>5. plan[q] \in Seq(PlanOps) /\ n \in Nat /\ DOMAIN plan[q] = 1..n /\ undo[q] = <<>>
        BY <2>1, LenProperties DEF Shaped, Progress, Applying, Rolling
    <2> HIDE DEF o
    <2>6. /\ DOMAIN plan'[q] = 1..n + 1 /\ plan'[q][n + 1] = o
          /\ \A k \in 1..n : plan'[q][k] = plan[q][k]
        BY <2>3, <2>4, <2>5, AppendProperties, LenProperties
    <2>7. o.path = req[q].ops[n + 1].path /\ o.op = req[q].ops[n + 1].op /\ o.data = req[q].ops[n + 1].data
        BY <2>2, <2>3 DEF Op
    <2>8. Touched(q) = {} /\ Touched(q)' = {}
        BY <2>1, <2>5 DEF Touched
    <2> HIDE DEF n
    <2>9. ASSUME NEW k \in 1..n + 1
          PROVE  /\ plan'[q][k].path = req[q].ops[k].path
                 /\ plan'[q][k].op = req[q].ops[k].op
                 /\ plan'[q][k].data = req[q].ops[k].data
                 /\ plan'[q][k].want = file[plan'[q][k].path].cur
        <3>1. CASE k = n + 1
            BY <2>3, <2>6, <2>7, <3>1
        <3>2. CASE k \in 1..n
            BY <1>0, <2>1, <2>5, <2>6, <2>8, <3>2 DEF PlanRight
        <3> QED
            BY <2>5, <3>1, <3>2
    <2>10. PlanRight(q)'
        BY <2>1, <2>5, <2>6, <2>8, <2>9 DEF PlanRight
    <2>11. UndoRight(q)'
        BY <1>0, <2>1, UndoRightStays DEF Rolling
    <2> QED
        BY <2>1, <2>10, <2>11 DEF Kept, AInv, TreeRight, Content
<1> QED
    BY <1>1, <1>2, <1>3, <1>4

LEMMA FilingKept ==
    ASSUME SoleReplica, CleanFaults, TInv, AInv, NEW q \in Requests, Holds(q), FileCalls(q)
    PROVE  Kept(q)
<1> USE DEF TInv
<1>0. UndoRight(q) /\ PlanRight(q)
    BY DEF AInv
<1>1. CASE CheckQuota(q)
    <2>1. /\ UNCHANGED <<file, tree, stale, undo, before, blind, mixed, plan>> /\ pc'[q] = "write"
          /\ pc[q] = "check"
        BY <1>1 DEF CheckQuota, Goto, storage, history, outcome, progress, Shaped
    <2>2. UndoRight(q)' /\ PlanRight(q)'
        BY <1>0, <2>1, UndoRightStays DEF PlanRight, Applying, Rolling
    <2> QED
        BY <2>1, <2>2 DEF Kept, AInv, TreeRight, Content
<1>2. CASE RefuseQuota(q) \/ WriteFails(q) \/ BumpSet(q)
    <2>1. UNCHANGED <<file, tree, stale>>
        BY <1>2 DEF RefuseQuota, Refuse, WriteFails, BumpSet, storage, history, Fault, CleanFaults
    <2>2. pc'[q] = "idle"
        BY <1>2 DEF RefuseQuota, Refuse, WriteFails, BumpSet, Reply, Goto, Shaped
    <2> QED
        BY <2>1, <2>2, AnsweredKept DEF Holds, Pushing, Applying, Rolling
<1>3. CASE BumpRead(q)
    BY <1>3 DEF BumpRead, Holds, Pushing, Applying, Rolling
<1>4. CASE WriteFile(q)
    <2>1. /\ pc[q] = "write" /\ pc'[q] = "bumpRead" /\ FileCall(req[q])
          /\ Mirrored(q, req[q].path, Body(file'[req[q].path]))
        BY <1>4 DEF WriteFile, Mirrored, Goto, Shaped
    <2>2. req[q].path \in Paths
        BY <2>1, FileCallTyped
    <2>3. file' = [file EXCEPT ![req[q].path] = file'[req[q].path]]
        BY <2>1, <2>2 DEF FileCall, Put, Shaped, Listings
    <2> QED
        BY <2>1, <2>2, <2>3, TreeFollows DEF Kept, AInv, Holds, Pushing, Applying, Rolling
<1> QED
    BY <1>1, <1>2, <1>3, <1>4 DEF FileCalls

\* What the file log made of an operation that it accepted.
LEMMA SwapDone ==
    ASSUME Shaped, Settled, NEW o \in PlanOps, Swap(o)
    PROVE  /\ o.path \in Paths /\ o.want = file[o.path].cur
           /\ file' = [file EXCEPT ![o.path] = file'[o.path]]
           /\ Body(file'[o.path]) = o.data
           /\ file'[o.path].cur # o.want
           /\ \/ o.op = "put" /\ o.data \in Data /\ file'[o.path] = Written(file[o.path], o.data)
              \/ /\ o.op = "delete" /\ file[o.path].cur # 0
                 /\ file'[o.path] = Removed(file[o.path])
<1>1. /\ o.path \in Paths /\ o.want \in Nat /\ (o.op = "put" => o.data \in Data)
      /\ (o.op = "delete" => o.data = NoData) /\ o.op \in {"put", "delete"}
    BY DEF PlanOps
<1>2. file[o.path] \in Files /\ file[o.path].cur \in {0, Len(file[o.path].vers)}
    BY <1>1 DEF Shaped, Settled, Listings
<1>3. file[o.path].cur = o.want /\ (o.op = "delete" => o.want # 0)
    BY DEF Swap, TurnsDown
<1>4. CASE o.op = "put"
    <2>1. file' = [file EXCEPT ![o.path] = Written(file[o.path], o.data)]
        BY <1>4 DEF Swap, Put
    <2>2. file'[o.path] = Written(file[o.path], o.data)
        BY <1>1, <2>1 DEF Shaped, Listings
    <2>3. /\ Body(Written(file[o.path], o.data)) = o.data
          /\ Written(file[o.path], o.data).cur = Len(file[o.path].vers) + 1
          /\ Len(file[o.path].vers) \in Nat
        BY <1>1, <1>2, <1>4, BodyAfter
    <2>4. Body(file'[o.path]) = o.data /\ file'[o.path].cur # o.want
        BY <1>2, <1>3, <2>2, <2>3
    <2>5. file' = [file EXCEPT ![o.path] = file'[o.path]]
        BY <2>1, <2>2
    <2> QED
        BY <1>1, <1>3, <1>4, <2>2, <2>4, <2>5
<1>5. CASE o.op = "delete"
    <2>1. file' = [file EXCEPT ![o.path] = Removed(file[o.path])]
        BY <1>5 DEF Swap
    <2>2. file'[o.path] = Removed(file[o.path])
        BY <1>1, <2>1 DEF Shaped, Listings
    <2>3. Body(file'[o.path]) = NoData /\ file'[o.path].cur = 0
        BY <1>1, <1>2, <2>2 DEF Body, Removed, Files
    <2>4. file' = [file EXCEPT ![o.path] = file'[o.path]]
        BY <2>1, <2>2
    <2> QED
        BY <1>1, <1>3, <1>5, <2>2, <2>3, <2>4
<1> QED
    BY <1>1, <1>4, <1>5

\* The undo step that a push notes takes its operation back, or removes a file
\* that it takes for absent.
LEMMA UndoOfSwap ==
    ASSUME TInv, NEW q \in Requests, pc[q] = "applyWrite", seen[q] \in {0, file[Current(q).path].cur},
           Swap(Current(q))
    PROVE  /\ UndoOf(q) \in Undos /\ UndoOf(q).path = Current(q).path
           /\ \/ Body(Back(UndoOf(q), file'[Current(q).path])) = Body(file[Current(q).path])
              \/ /\ Current(q).path \in TakenForAbsent(q)
                 /\ Body(Back(UndoOf(q), file'[Current(q).path])) = NoData
           /\ file'[Current(q).path].cur = 0 <=> UndoOf(q).how = "restore"
<1> DEFINE o == Current(q)
           f == file[Current(q).path]
           g == file'[Current(q).path]
           u == UndoOf(q)
<1>1. o \in PlanOps /\ o.path \in Paths /\ f \in Files /\ seen[q] \in Nat
    BY CurrentIsPlanned DEF TInv, Applying, Shaped
<1>2. f.cur \in {0, Len(f.vers)}
    BY <1>1 DEF TInv, Settled
<1>3. \/ o.op = "put" /\ o.data \in Data /\ g = Written(f, o.data)
      \/ o.op = "delete" /\ f.cur # 0 /\ g = Removed(f)
    BY <1>1, SwapDone DEF TInv
<1>4. /\ u.path = o.path /\ u.ver = seen[q] /\ u \in Undos
      /\ o.op = "delete" => u.how = "restore"
      /\ o.op = "put" => u.how = IF seen[q] = 0 THEN "remove" ELSE "rewrite"
    BY <1>1, <1>3 DEF UndoOf, Undos
<1>5. /\ seen[q] \in {0, f.cur}
      /\ (o.op = "put" /\ seen[q] = 0 /\ f.cur # 0) => o.path \in TakenForAbsent(q)
    BY DEF TakenForAbsent
<1> DEFINE TakesBack == \/ Body(Back(u, g)) = Body(f)
                        \/ o.path \in TakenForAbsent(q) /\ Body(Back(u, g)) = NoData
<1> HIDE DEF o, f, g, u
<1>6. ASSUME o.op = "delete", f.cur # 0, g = Removed(f)
      PROVE  TakesBack /\ (g.cur = 0 <=> u.how = "restore")
    <2>1. u.how = "restore"
        BY <1>4, <1>6
    <2>2. Body(Back(u, g)) = Body(f)
        BY <1>1, <1>2, <1>6, <2>1, BackFromDelete
    <2>3. g.cur = 0
        BY <1>1, <1>6 DEF Removed, Files
    <2> QED
        BY <2>1, <2>2, <2>3
<1>7. ASSUME o.op = "put", o.data \in Data, g = Written(f, o.data)
      PROVE  TakesBack /\ (g.cur = 0 <=> u.how = "restore")
    <2>1. g.cur # 0
        BY <1>1, <1>2, <1>7, BodyAfter
    <2>2. CASE seen[q] = 0 /\ f.cur = 0
        <3>1. u.how = "remove"
            BY <1>4, <1>7, <2>2
        <3>2. Body(Back(u, g)) = Body(f)
            BY <1>7, <2>2, <3>1, BackFromCreate
        <3> QED
            BY <2>1, <3>1, <3>2
    <2>3. CASE seen[q] = f.cur /\ f.cur # 0
        <3>1. u.how = "rewrite" /\ u.ver = f.cur
            BY <1>4, <1>7, <2>3
        <3>2. Body(Back(u, g)) = Body(f)
            BY <1>1, <1>2, <1>7, <2>3, <3>1, BackFromWrite
        <3> QED
            BY <2>1, <3>1, <3>2
    <2>4. CASE seen[q] = 0 /\ f.cur # 0
        <3>1. u.how = "remove" /\ o.path \in TakenForAbsent(q)
            BY <1>4, <1>5, <1>7, <2>4
        <3>2. Body(Back(u, g)) = NoData
            BY <1>7, <3>1, RemovedIsGone
        <3> QED
            BY <2>1, <3>1, <3>2
    <2> QED
        BY <1>5, <2>2, <2>3, <2>4
<1>8. TakesBack /\ (g.cur = 0 <=> u.how = "restore")
    BY <1>3, <1>6, <1>7
<1> QED
    BY <1>4, <1>8 DEF o, f, g, u

LEMMA ApplyWriteKept ==
    ASSUME SoleReplica, TInv, AInv, NEW q \in Requests, ApplyWrite(q)
    PROVE  Kept(q)
<1> USE DEF TInv
<1> DEFINE o == Current(q)
           n == Len(undo[q])
<1>1. /\ pc[q] = "applyWrite" /\ Swap(o) /\ Mirrored(q, o.path, o.data)
      /\ undo'[q] = Append(undo[q], UndoOf(q)) /\ pc'[q] \in {"applyRead", "commit"}
      /\ blind'[q] = blind[q] \cup TakenForAbsent(q)
      /\ UNCHANGED <<plan, req, before, mixed>>
    BY DEF ApplyWrite, Mirrored, Goto, Shaped, Excused
<1>2. UndoRight(q) /\ PlanRight(q)
    BY <1>1 DEF AInv, Holds, Pushing, Applying
<1>3. /\ o \in PlanOps /\ o.path \in Paths /\ i[q] \in DOMAIN plan[q] /\ o = plan[q][i[q]]
      /\ DOMAIN plan[q] = 1..Len(plan[q]) /\ Len(plan[q]) \in Nat
    BY <1>1, CurrentIsPlanned DEF Applying, Current
<1>4. seen[q] \in {0, file[o.path].cur}
    BY <1>1, <1>2 DEF PlanRight
<1>5. /\ o.want = file[o.path].cur
      /\ file' = [file EXCEPT ![o.path] = file'[o.path]]
      /\ Body(file'[o.path]) = o.data
      /\ file'[o.path].cur # o.want
    BY <1>1, <1>3, SwapDone
<1>6. /\ UndoOf(q) \in Undos /\ UndoOf(q).path = o.path
      /\ \/ Body(Back(UndoOf(q), file'[o.path])) = Body(file[o.path])
         \/ o.path \in TakenForAbsent(q) /\ Body(Back(UndoOf(q), file'[o.path])) = NoData
      /\ file'[o.path].cur = 0 <=> UndoOf(q).how = "restore"
    BY <1>1, <1>4, UndoOfSwap
<1>7. i[q] = n + 1 /\ ~mixed[q]
    BY <1>1 DEF Progress, Rolling, Applying
<1>8. o.path \notin Touched(q)
    BY <1>1, <1>2, <1>3, <1>5 DEF PlanRight
<1>8a. TakenForAbsent(q) \subseteq {o.path} /\ blind[q] \subseteq Touched(q)
    BY <1>1, <1>2 DEF TakenForAbsent, UndoRight, Rolling
<1> HIDE DEF o
<1>9. UndoRight(q)' /\ Touched(q)' = Touched(q) \cup {o.path}
    <2> DEFINE u == UndoOf(q)
    <2>1. u \in Undos /\ u.path = o.path /\ u.path \notin Touched(q)
        BY <1>6, <1>8
    <2>2. /\ blind[q] \subseteq Touched(q) /\ blind[q] \subseteq blind'[q]
          /\ blind'[q] \subseteq blind[q] \cup {u.path}
        BY <1>1, <1>6, <1>8a
    <2>3. \/ Body(Back(u, file'[u.path])) = Body(file[u.path])
          \/ u.path \in blind'[q] /\ Body(Back(u, file'[u.path])) = NoData
        BY <1>1, <1>6
    <2>4. file'[u.path].cur = 0 <=> u.how = "restore"
        BY <1>6
    <2>5. /\ file' = [file EXCEPT ![u.path] = file'[u.path]]
          /\ undo'[q] = Append(undo[q], u) /\ before'[q] = before[q] /\ pc'[q] # "rollWrite"
        BY <1>1, <1>5, <1>6
    <2> HIDE DEF u
    <2>6. UndoRight(q)' /\ Touched(q)' = Touched(q) \cup {u.path}
        BY <1>2, <1>7, <2>1, <2>2, <2>3, <2>4, <2>5, UndoRightApplied
    <2> QED
        BY <2>1, <2>6
<1>10. \A p \in Paths : p # o.path => file'[p] = file[p]
    BY <1>5 DEF Shaped, Listings
<1>11. /\ undo[q] \in Seq(Undos) /\ n \in Nat /\ DOMAIN undo[q] = 1..n
       /\ \A k \in DOMAIN undo[q] : undo[q][k].path \in Paths
    BY UndoIsTyped
<1>12. /\ DOMAIN undo'[q] = 1..n + 1 /\ undo'[q][n + 1] = UndoOf(q)
       /\ \A k \in 1..n : undo'[q][k] = undo[q][k]
    BY <1>1, <1>6, <1>11, AppendProperties, LenProperties
<1> HIDE DEF n
<1>13. \A k \in DOMAIN plan[q] : plan[q][k].path \in Paths
    <2> SUFFICES ASSUME NEW k \in DOMAIN plan[q] PROVE plan[q][k].path \in Paths
        OBVIOUS
    <2>1. plan[q][k] \in PlanOps
        BY <1>3, ElementOfSeq DEF Shaped
    <2> QED
        BY <2>1 DEF PlanOps
<1>14. ASSUME NEW k \in DOMAIN plan[q]
       PROVE  plan[q][k].path \in Touched(q)' <=> plan[q][k].want # file'[plan[q][k].path].cur
    <2>1. plan[q][k].path \in Touched(q) <=> plan[q][k].want # file[plan[q][k].path].cur
        BY <1>1, <1>2 DEF PlanRight
    <2>2. CASE plan[q][k].path # o.path
        BY <1>9, <1>10, <1>13, <2>1, <2>2
    <2>3. CASE plan[q][k].path = o.path
        BY <1>5, <1>8, <1>9, <2>1, <2>3
    <2> QED
        BY <2>2, <2>3
<1>15. ASSUME NEW k \in 1..n + 1
       PROVE  undo'[q][k].path = plan[q][k].path /\ Body(file'[plan[q][k].path]) = plan[q][k].data
    <2>1. CASE k = n + 1
        BY <1>3, <1>5, <1>6, <1>7, <1>12, <2>1
    <2>2. CASE k \in 1..n
        <3>1. undo[q][k].path = plan[q][k].path /\ Body(file[plan[q][k].path]) = plan[q][k].data
            BY <1>1, <1>2, <1>11, <2>2 DEF PlanRight, Applying
        <3>2. undo[q][k].path # o.path /\ undo[q][k].path \in Paths
            BY <1>8, <1>11, <2>2 DEF Touched
        <3> QED
            BY <1>10, <1>12, <2>2, <3>1, <3>2
    <2> QED
        BY <1>11, <1>15, <2>1, <2>2
<1>16. PlanRight(q)'
    <2>1. \A k \in DOMAIN plan[q] : /\ plan[q][k].path = req[q].ops[k].path
                                   /\ plan[q][k].op = req[q].ops[k].op
                                   /\ plan[q][k].data = req[q].ops[k].data
        BY <1>1, <1>2 DEF PlanRight, Applying
    <2>2. \A k \in DOMAIN plan'[q] : /\ plan'[q][k].path = req'[q].ops[k].path
                                    /\ plan'[q][k].op = req'[q].ops[k].op
                                    /\ plan'[q][k].data = req'[q].ops[k].data
        BY <1>1, <2>1
    <2>3. pc'[q] # "applyWrite"
        BY <1>1
    <2>4. \A k \in DOMAIN plan'[q] :
            plan'[q][k].path \in Touched(q)' <=> plan'[q][k].want # file'[plan'[q][k].path].cur
        BY <1>1, <1>14
    <2>5. \A k \in DOMAIN undo'[q] : /\ undo'[q][k].path = plan'[q][k].path
                                    /\ Body(file'[plan'[q][k].path]) = plan'[q][k].data
        BY <1>1, <1>12, <1>15
    <2> QED
        BY <2>2, <2>3, <2>4, <2>5 DEF PlanRight
<1>17. TreeRight'
    <2>1. Mirrored(q, o.path, Body(file'[o.path]))
        BY <1>1, <1>5
    <2>2. TreeRight
        BY DEF AInv
    <2> QED
        BY <1>3, <1>5, <2>1, <2>2, TreeFollows
<1> QED
    BY <1>9, <1>16, <1>17 DEF Kept

LEMMA ApplyKept ==
    ASSUME SoleReplica, CleanFaults, TInv, AInv, NEW q \in Requests,
           ApplyRead(q) \/ ApplyWrite(q) \/ ApplyFails(q) \/ Commit(q) \/ CommitFails(q)
    PROVE  Kept(q)
<1> USE DEF TInv
<1>0. UndoRight(q) /\ PlanRight(q)
    BY DEF AInv, Holds, ApplyRead, ApplyWrite, ApplyFails, Commit, CommitFails, Pushing, Applying
<1>1. CASE ApplyRead(q)
    <2>1. /\ UNCHANGED <<file, tree, stale, undo, before, blind, mixed, plan, req, i>> /\ pc'[q] = "applyWrite"
          /\ pc[q] = "applyRead" /\ seen'[q] \in {0, file[Current(q).path].cur}
        BY <1>1 DEF ApplyRead, Goto, storage, history, outcome, Shaped
    <2>2. UndoRight(q)'
        BY <1>0, <2>1, UndoRightStays DEF Rolling
    <2>3. PlanRight(q)'
        BY SMTT(30), <1>0, <2>1 DEF PlanRight, Applying, Touched, Current
    <2> QED
        BY <2>1, <2>2, <2>3 DEF Kept, AInv, TreeRight, Content
<1>2. CASE ApplyWrite(q)
    BY <1>2, ApplyWriteKept
<1>3. CASE Commit(q)
    BY <1>3, AnsweredKept DEF Commit, Reply, Goto, Shaped, Holds, Pushing, Applying, Rolling
<1>4. CASE ApplyFails(q) \/ CommitFails(q)
    <2>1. /\ UNCHANGED <<file, tree, stale, undo, before, blind, mixed>> /\ pc'[q] = "roll" /\ pc[q] \in Applying
        BY <1>4 DEF Applying, ApplyFails, CommitFails, Fault, CleanFaults, Goto, storage, progress, history, outcome, Shaped
    <2>2. UndoRight(q)' /\ PlanRight(q)'
        BY <1>0, <2>1, UndoRightStays DEF PlanRight, Applying, Rolling
    <2> QED
        BY <2>1, <2>2 DEF Kept, AInv, TreeRight, Content
<1> QED
    BY <1>1, <1>2, <1>3, <1>4

LEMMA RollKept ==
    ASSUME SoleReplica, CleanFaults, TInv, AInv, NEW q \in Requests, Rollback(q)
    PROVE  Kept(q)
<1> USE DEF TInv
<1>0. UndoRight(q) /\ PlanRight(q) /\ pc[q] \in Rolling
    BY DEF AInv, Holds, Rollback, RollRestore, RollRead, RollWrite, RollFails, RollDone, Undoing, Pushing, Rolling
<1>1. CASE RollDone(q)
    BY <1>1, AnsweredKept DEF RollDone, Reply, Goto, Shaped, Holds, Pushing, Applying, Rolling, storage, outcome
<1>2. CASE RollRead(q)
    <2>1. /\ UNCHANGED <<file, tree, stale, undo, before, blind, mixed>> /\ pc'[q] = "rollWrite"
          /\ seen'[q] = file[Last(undo[q]).path].cur
        BY <1>2 DEF RollRead, Goto, storage, history, outcome, Shaped
    <2>2. UndoRight(q)' /\ PlanRight(q)'
        BY <1>0, <2>1, UndoRightStays DEF PlanRight, Applying, Rolling, Unmoved
    <2> QED
        BY <2>1, <2>2 DEF Kept, AInv, TreeRight, Content
<1>3. CASE RollRestore(q) \/ RollWrite(q)
    <2> DEFINE u == Last(undo[q])
    <2>1. undo[q] # <<>> /\ UndoLast(q)
        BY <1>3 DEF RollRestore, RollWrite, Undoing, Progress
    <2>2. /\ UndoFile(u) /\ Mirrored(q, u.path, Body(Undone(u))) /\ Pop(q)
          /\ UNCHANGED <<before, blind, mixed>> /\ pc'[q] = "roll"
        BY <2>1 DEF UndoLast, Mirrored, Popped, Goto, history, outcome, Shaped
    <2>3. UndoRight(q)'
        BY <1>0, <2>1, <2>2, UndoRightUndone
    <2>4. PlanRight(q)'
        BY <2>2 DEF PlanRight, Applying
    <2>5. u.path \in Paths
        BY <2>1, LastUndoIsOne
    <2> HIDE DEF u
    <2>6. file' = [file EXCEPT ![u.path] = file'[u.path]] /\ file'[u.path] = Undone(u)
        BY <2>2, <2>5 DEF UndoFile, Shaped, Listings
    <2>7. TreeRight'
        BY <2>2, <2>5, <2>6, TreeFollows DEF AInv
    <2> QED
        BY <2>3, <2>4, <2>7 DEF Kept
<1>4. CASE RollFails(q)
    <2>1. undo[q] # <<>> /\ Pop(q) /\ UNCHANGED <<tree, stale, before, blind>> /\ pc'[q] = "roll" /\ mixed'[q]
        BY <1>4 DEF RollFails, Noted, Popped, Goto, history, outcome, Shaped, Undoing, Progress
    <2>2. UNCHANGED file
        BY <1>4 DEF RollFails, Fault, CleanFaults
    <2>3. UndoRight(q)'
        BY <1>0, <2>1, <2>2, UndoRightGivenUp
    <2> QED
        BY <2>1, <2>2, <2>3 DEF Kept, AInv, TreeRight, Content, PlanRight, Applying
<1> QED
    BY <1>1, <1>2, <1>3, <1>4 DEF Rollback

-----------------------------------------------------------------------------
(* The invariant *)

LEMMA InitAInv == Init => AInv
<1> SUFFICES ASSUME Init PROVE AInv
    OBVIOUS
<1>1. \A q \in Requests : ~Holds(q)
    BY DEF Init, Holds, Pushing, Applying, Rolling
<1>2. TreeRight
    BY DEF Init, TreeRight, Content, Body, NoFile
<1> QED
    BY <1>1, <1>2 DEF AInv

\* The step of a call keeps what the call itself, and the tree, rely on.
LEMMA OwnKept ==
    ASSUME SoleReplica, CleanFaults, TInv, AInv, NEW q \in Requests, Begin(q) \/ Serve(q)
    PROVE  Kept(q)
<1>1. CASE ~Holds(q)
    BY <1>1, WithoutLock, LockKept, AnsweredKept DEF TInv
<1>2. CASE Holds(q)
    <2>1. ~Begin(q) /\ ~Lock(q)
        BY <1>2 DEF Begin, Lock, LockAnyway, Holds, Pushing, Applying, Rolling
    <2> QED
        BY <1>2, <2>1, PlanningKept, ApplyKept, RollKept, FilingKept DEF Serve, Push
<1> QED
    BY <1>1, <1>2

\* What a call at work relies on outlives the steps of the others.
LEMMA OthersKept ==
    ASSUME SoleReplica, TInv, Locked, AInv, NEW q \in Requests, Begin(q) \/ Serve(q),
           NEW s \in Requests, s # q, Holds(s)'
    PROVE  /\ ~Holds(q) /\ ~Holds(q)' /\ Holds(s) /\ UNCHANGED <<file, tree, stale>>
           /\ UndoRight(s)' /\ PlanRight(s)'
<1>1. Same(s)
    BY OthersSame DEF TInv
<1>2. Holds(s) /\ UndoRight(s) /\ PlanRight(s)
    BY <1>1 DEF Same, Holds, AInv
<1>3. On[q] = On[s] /\ On[s] \in Replicas
    BY SpaceServiceAssumption DEF SoleReplica
<1>4. ~Holds(q) /\ lock[On[q]] # Free
    BY <1>2, <1>3, SpaceServiceAssumption DEF Locked
<1>5. UNCHANGED <<file, tree, stale>> /\ ~Holds(q)'
    BY <1>4, WithoutLock DEF TInv, Lock
<1>6. UndoRight(s)'
    BY <1>1, <1>2, <1>5, UndoRightStays DEF Same, UndoRight, Unmoved
<1>7. PlanRight(s)'
    BY <1>1, <1>2, <1>5 DEF Same, PlanRight, Touched, Current
<1> QED
    BY <1>2, <1>4, <1>5, <1>6, <1>7

LEMMA NextAInv ==
    ASSUME SoleReplica, CleanFaults
    PROVE  TInv /\ Locked /\ AInv /\ [Next]_vars => AInv'
<1> SUFFICES ASSUME TInv, Locked, AInv, [Next]_vars PROVE AInv'
    OBVIOUS
<1>1. ASSUME NEW q \in Requests, Begin(q) \/ Serve(q) PROVE AInv'
    <2>1. Kept(q)
        BY <1>1, OwnKept
    <2>2. ASSUME NEW s \in Requests, s # q, Holds(s)' PROVE UndoRight(s)' /\ PlanRight(s)'
        BY <1>1, <2>2, OthersKept
    <2> QED
        BY <2>1, <2>2 DEF Kept, AInv
<1>2. ASSUME NEW u \in Pullers, Pull(u) PROVE AInv'
    <2>1. UNCHANGED <<storage, tree, lock, pc, req, progress, reply, history>>
        BY <1>2, PullSame
    <2> QED
        BY SMTT(30), <2>1 DEF AInv, TreeRight, Content, Holds, UndoRight, PlanRight, Gives, Touched, Unmoved,
                     Current, storage, progress, history, outcome
<1>3. ASSUME NEW r \in Replicas, Crash(r) PROVE AInv'
    <2>1. \A s \in Requests : On[s] = r
        BY SpaceServiceAssumption DEF SoleReplica
    <2>2. \A s \in Requests : ~Holds(s)'
        BY <1>3, <2>1, CrashSame DEF TInv, Holds, Pushing, Applying, Rolling
    <2>3. UNCHANGED <<file, tree, stale>>
        BY <1>3 DEF Crash, storage
    <2> QED
        BY <2>2, <2>3 DEF AInv, TreeRight, Content
<1>4. CASE UNCHANGED vars
    BY SMTT(30), <1>4 DEF vars, AInv, TreeRight, Content, Holds, UndoRight, PlanRight, Gives, Touched, Unmoved,
                     Current, storage, progress, history, outcome
<1> QED
    BY <1>1, <1>2, <1>3, <1>4 DEF Next

LEMMA AInvHolds ==
    ASSUME SoleReplica, CleanFaults
    PROVE  Spec => [](TInv /\ Locked /\ AInv)
BY InitTInv, NextTInv, InitLocked, NextLocked, InitAInv, NextAInv, PTL DEF Spec

\* On one replica, where an operation told to fail had no effect, the working
\* tree mirrors the space whenever no call is at work, roll-backs and crashes
\* included; all but a path whose mirror silently missed, until it is next
\* written.
THEOREM TreeIsMirror == SoleReplica /\ CleanFaults => (Spec => []TreeMirrors)
<1> SUFFICES ASSUME SoleReplica, CleanFaults PROVE Spec => []TreeMirrors
    OBVIOUS
<1>1. AInv => TreeMirrors
    BY DEF AInv, TreeRight, TreeMirrors
<1> QED
    BY <1>1, AInvHolds, PTL

-----------------------------------------------------------------------------
(* A push is atomic *)

\* As many paths as operations, when no two are the same.
LEMMA DistinctCount ==
    ASSUME NEW n \in Nat, NEW f, \A j, k \in 1..n : f[j] = f[k] => j = k
    PROVE  Cardinality({f[k] : k \in 1..n}) = n
<1> DEFINE g == [k \in 1..n |-> f[k]]
           T == {f[k] : k \in 1..n}
<1>1. g \in Bijection(1..n, T)
    BY DEF Bijection, Injection, Surjection, IsInjective
<1>2. ExistsBijection(1..n, T)
    BY <1>1 DEF ExistsBijection
<1> QED
    BY <1>2, FS_CountingElements

\* When it commits, the space holds the batch on top of what it held.
LEMMA CommitOverlays ==
    ASSUME TInv, AInv, NEW q \in Requests, Commit(q)
    PROVE  /\ Cardinality({req[q].ops[k].path : k \in DOMAIN req[q].ops}) = Len(req[q].ops)
           /\ Content' = Overlaid(before[q], req[q].ops)
<1> USE DEF TInv
<1> DEFINE n == Len(undo[q])
           ops == req[q].ops
<1>1. pc[q] = "commit" /\ UNCHANGED file
    BY DEF Commit
<1>2. UndoRight(q) /\ PlanRight(q) /\ ~mixed[q] /\ pc[q] \notin Rolling
    BY <1>1 DEF AInv, Holds, Pushing, Applying, Rolling, Progress
<1>3. req[q] \in PushReqs
    BY <1>1 DEF Asked, Pushing, Applying
<1>4. ops \in Seq(Ops)
    BY <1>3 DEF PushReqs, Batched
<1>5. n \in Nat /\ DOMAIN undo[q] = 1..n
    BY UndoIsTyped
<1>6. Len(ops) = n /\ Len(plan[q]) = n
    BY <1>1 DEF Progress, Applying
<1>7. DOMAIN ops = 1..n /\ DOMAIN plan[q] = 1..n
    BY <1>4, <1>6, LenProperties DEF Shaped
<1> HIDE DEF n, ops
<1>8. \A k \in 1..n : /\ undo[q][k].path = ops[k].path
                      /\ Body(file[ops[k].path]) = ops[k].data
    BY <1>1, <1>2, <1>5, <1>7 DEF PlanRight, Applying, ops
<1>9. \A j, k \in 1..n : ops[j].path = ops[k].path => j = k
    BY <1>2, <1>5, <1>8 DEF UndoRight
<1>10. Cardinality({ops[k].path : k \in 1..n}) = n
    <2> DEFINE f == [k \in 1..n |-> ops[k].path]
    <2>1. \A j, k \in 1..n : f[j] = f[k] => j = k
        BY <1>9
    <2>2. {ops[k].path : k \in 1..n} = {f[k] : k \in 1..n}
        OBVIOUS
    <2> HIDE DEF f
    <2>3. Cardinality({f[k] : k \in 1..n}) = n
        BY <1>5, <2>1, DistinctCount
    <2> QED
        BY <2>2, <2>3
<1>11. ASSUME NEW p \in Paths PROVE Body(file[p]) = Overlaid(before[q], ops)[p]
    <2>1. CASE \E k \in DOMAIN ops : ops[k].path = p
        <3> DEFINE c == CHOOSE k \in DOMAIN ops : ops[k].path = p
        <3>1. c \in DOMAIN ops /\ ops[c].path = p
            BY <2>1
        <3>2. Overlaid(before[q], ops)[p] = ops[c].data
            BY <2>1 DEF Overlaid
        <3> HIDE DEF c
        <3> QED
            BY <1>7, <1>8, <3>1, <3>2
    <2>2. CASE ~ \E k \in DOMAIN ops : ops[k].path = p
        <3>1. p \notin Touched(q)
            BY <1>5, <1>7, <1>8, <2>2 DEF Touched
        <3>2. Overlaid(before[q], ops)[p] = before[q][p]
            BY <2>2 DEF Overlaid
        <3> QED
            BY <1>2, <3>1, <3>2, UntouchedHeld
    <2> QED
        BY <2>1, <2>2
<1>12. Content' = [p \in Paths |-> Overlaid(before[q], ops)[p]]
    BY <1>1, <1>11 DEF Content
<1>13. Content' = Overlaid(before[q], ops)
    BY <1>12 DEF Overlaid
<1> QED
    BY <1>6, <1>7, <1>10, <1>13 DEF ops

\* A push that is refused leaves what was there; one that fails and is rolled
\* back does too, but for the files that it took for absent.
LEMMA FailureRestores ==
    ASSUME TInv, AInv, NEW q \in Requests, Holds(q), undo[q] = <<>>, ~mixed[q], UNCHANGED file
    PROVE  /\ \A p \in Paths : Gives(q, p, Content'[p])
           /\ pc[q] \notin Rolling => Content' = before[q] /\ blind[q] = {}
<1>1. Content' = Content
    BY DEF Content
<1> QED
    BY <1>1, NothingTouched DEF TInv, AInv, Shaped

Atomic(q) ==
    req[q].kind = "push" /\ reply'[q] # reply[q] =>
        CASE reply'[q] = "ok" ->
                /\ Cardinality({req[q].ops[k].path : k \in DOMAIN req[q].ops}) = Len(req[q].ops)
                /\ Content' = Overlaid(before[q], req[q].ops)
          [] reply'[q] \in {"conflict", "refused", "failed"} ->
                \A p \in Paths :
                    \/ Content'[p] = before[q][p]
                    \/ p \in blind[q] /\ Content'[p] = NoData
          [] OTHER -> TRUE

LEMMA OwnAtomic ==
    ASSUME TInv, AInv, NEW q \in Requests, Begin(q) \/ Serve(q)
    PROVE  Atomic(q)
<1> USE DEF TInv
<1>1. CASE RefuseHead(q) \/ RefusePlan(q)
    <2>1. /\ pc[q] \in {"head", "plan"} /\ UNCHANGED file
          /\ reply'[q] \in {"conflict", "refused"}
        BY <1>1 DEF RefuseHead, RefusePlan, Refuse, Reply, storage, Shaped
    <2>2. Holds(q) /\ undo[q] = <<>> /\ ~mixed[q]
        BY <2>1 DEF Holds, Pushing, Progress, Applying, Rolling
    <2> QED
        BY <2>1, <2>2, FailureRestores DEF Atomic, Gives
<1>2. CASE Commit(q)
    <2>1. reply'[q] = "ok"
        BY <1>2 DEF Commit, Reply, Shaped
    <2> QED
        BY <1>2, <2>1, CommitOverlays DEF Atomic
<1>3. CASE RollDone(q)
    <2>1. /\ pc[q] = "roll" /\ UNCHANGED file /\ undo[q] = <<>>
          /\ reply'[q] = IF mixed[q] THEN "mixed" ELSE "failed"
        BY <1>3 DEF RollDone, Reply, storage, Shaped
    <2>2. Holds(q)
        BY <2>1 DEF Holds, Pushing, Rolling
    <2> QED
        BY <2>1, <2>2, FailureRestores DEF Atomic, Gives
<1>4. CASE Begin(q)
    BY <1>4 DEF Begin, Asked, NoReq, Atomic
<1>5. CASE FileCalls(q)
    <2>1. pc[q] \in Filing
        BY <1>5 DEF FileCalls, CheckQuota, RefuseQuota, WriteFile, WriteFails, BumpRead, BumpSet, Filing
    <2> QED
        BY <2>1 DEF Asked, FileReqs, Atomic
<1>6. CASE \/ Lock(q) \/ CheckHead(q) \/ Inventory(q) \/ PlanOp(q) \/ ApplyRead(q) \/ ApplyWrite(q)
           \/ ApplyFails(q) \/ CommitFails(q) \/ RollRestore(q) \/ RollRead(q) \/ RollWrite(q) \/ RollFails(q)
    <2>1. UNCHANGED reply
        BY <1>6 DEF Lock, LockAnyway, CheckHead, Inventory, PlanOp, ApplyRead, ApplyWrite, ApplyFails,
                    CommitFails, RollRestore, RollRead, RollWrite, RollFails, UndoLast, Popped
    <2> QED
        BY <2>1 DEF Atomic
<1> QED
    BY <1>1, <1>2, <1>3, <1>4, <1>5, <1>6 DEF Serve, Push, Rollback

\* On one replica, where an operation told to fail had no effect, a push is
\* atomic: acknowledged, the space holds its whole batch on top of what it
\* held when the push got the lock; refused, or failed and rolled back, it
\* holds that again, but for a file that the push put over and took for absent,
\* because it could not read it: that file may be gone.  Only a push whose
\* rollback failed leaves anything else, and says so.  For batches of any
\* length, in any interleaving with any number of calls, with reads and
\* mirrors that fail unseen, and with crashes in between.
THEOREM PushAtomic == SoleReplica /\ CleanFaults => (Spec => PushIsAtomic)
<1> SUFFICES ASSUME SoleReplica, CleanFaults PROVE Spec => PushIsAtomic
    OBVIOUS
<1> DEFINE AllAtomic == \A q \in Requests : Atomic(q)
<1>1. PushIsAtomic <=> [][AllAtomic]_vars
    BY PTL DEF PushIsAtomic, Atomic
<1>2. TInv /\ Locked /\ AInv /\ [Next]_vars => [AllAtomic]_vars
    <2> SUFFICES ASSUME TInv, Locked, AInv, Next, NEW q \in Requests PROVE Atomic(q)
        OBVIOUS
    <2>1. ASSUME NEW s \in Requests, Begin(s) \/ Serve(s) PROVE Atomic(q)
        <3>1. CASE s = q
            BY <2>1, <3>1, OwnAtomic
        <3>2. CASE s # q
            BY <2>1, <3>2, OthersSame DEF TInv, Same, Atomic
        <3> QED
            BY <3>1, <3>2
    <2>2. ASSUME NEW u \in Pullers, Pull(u) PROVE Atomic(q)
        BY <2>2, PullSame DEF Atomic
    <2>3. ASSUME NEW r \in Replicas, Crash(r) PROVE Atomic(q)
        BY <2>3 DEF Crash, Atomic
    <2> QED
        BY <2>1, <2>2, <2>3 DEF Next
<1> HIDE DEF AllAtomic
<1> QED
    BY <1>1, <1>2, AInvHolds, PTL DEF Spec

-----------------------------------------------------------------------------
(* Taking the lock and letting it go *)

\* The files of a content.
FilesOf(c) == {p \in Paths : c[p] # NoData}

LEMMA PresentIsContent ==
    ASSUME Shaped, Settled
    PROVE  Present = FilesOf(Content)
<1> SUFFICES ASSUME NEW p \in Paths PROVE p \in Present <=> p \in FilesOf(Content)
    BY DEF Present, FilesOf
<1>1. file[p] \in Files /\ file[p].cur \in {0, Len(file[p].vers)}
    BY DEF Shaped, Settled, Listings
<1>2. Body(file[p]) # NoData <=> file[p].cur # 0
    BY <1>1, BodyIsData
<1> QED
    BY <1>2 DEF Present, FilesOf, Content

Quiet == \A s \in Requests : ~Holds(s)

\* A call takes the lock of a space that no call works on.
LEMMA TakesLock ==
    ASSUME SoleReplica, TInv, Locked, NEW q \in Requests, Begin(q) \/ Serve(q), ~Holds(q), Holds(q)'
    PROVE  /\ Quiet /\ Lock(q) /\ UNCHANGED <<file, head, log, vanished>>
           /\ before'[q] = Content /\ spoiled' = spoiled
<1>1. Lock(q)
    BY WithoutLock DEF TInv
<1>2. lock[On[q]] = Free
    BY <1>1 DEF Lock
<1>3. Quiet
    BY <1>2, SpaceServiceAssumption DEF Quiet, Locked, SoleReplica
<1> QED
    BY <1>1, <1>3 DEF Lock, LockAnyway, storage, TInv, Shaped

\* The space holds what it held when the call got the lock, and no more files.
Restores(q) ==
    /\ \A p \in Paths \ vanished' : Content'[p] = before[q][p]
    /\ \A p \in Paths : before[q][p] = NoData => Content'[p] = NoData

\* When it lets the lock go, no call works on the space, and the space is as
\* it was, unless the call wrote: committed, or wrote its one file.  What it is
\* short of has vanished.
LEMMA LetsGo ==
    ASSUME SoleReplica, CleanFaults, TInv, Locked, AInv, NEW q \in Requests, Begin(q) \/ Serve(q),
           Holds(q), ~Holds(q)'
    PROVE  /\ Quiet'
           /\ Restores(q) \/ spoiled' \/ Commit(q) \/ WriteFile(q)
<1> USE DEF TInv
<1>1. Quiet'
    BY OthersKept DEF Quiet
<1>2. CASE \/ RefuseHead(q) \/ RefusePlan(q) \/ RefuseQuota(q) \/ WriteFails(q)
           \/ (RollDone(q) /\ ~mixed[q])
    <2>1. /\ UNCHANGED file /\ undo[q] = <<>> /\ ~mixed[q]
          /\ pc[q] \in Rolling => vanished' = vanished \cup (blind[q] \ Present)
        <3>1. CASE RollDone(q) /\ ~mixed[q]
            BY <3>1 DEF RollDone, storage
        <3>2. CASE RefuseHead(q) \/ RefusePlan(q) \/ RefuseQuota(q) \/ WriteFails(q)
            <4>1. pc[q] \in {"head", "plan", "check", "write"} /\ UNCHANGED file
                BY <3>2 DEF RefuseHead, RefusePlan, RefuseQuota, WriteFails, Refuse, storage, Fault, CleanFaults
            <4> QED
                BY <4>1 DEF Progress, Applying, Rolling
        <3> QED
            BY <1>2, <3>1, <3>2
    <2>2. /\ \A p \in Paths : Gives(q, p, Content'[p])
          /\ pc[q] \notin Rolling => Content' = before[q]
        BY <2>1, FailureRestores
    <2>3. Present = FilesOf(Content) /\ Content' = Content
        BY <2>1, PresentIsContent DEF Content
    <2>4. Restores(q)
        BY <2>1, <2>2, <2>3 DEF Restores, Gives, FilesOf
    <2> QED
        BY <1>1, <2>4
<1>3. CASE RollDone(q) /\ mixed[q]
    BY <1>1, <1>3 DEF RollDone
<1>4. ASSUME pc'[q] \in Pushing \cup {"check", "write"} PROVE FALSE
    BY <1>4 DEF Holds
<1>5. CASE \/ CheckHead(q) \/ Inventory(q) \/ PlanOp(q) \/ ApplyRead(q) \/ ApplyWrite(q) \/ ApplyFails(q)
           \/ CommitFails(q) \/ RollRestore(q) \/ RollRead(q) \/ RollWrite(q) \/ RollFails(q) \/ CheckQuota(q)
           \/ Lock(q)
    <2>1. pc'[q] \in Pushing \cup {"check", "write"}
        BY <1>5 DEF CheckHead, Inventory, PlanOp, ApplyRead, ApplyWrite, ApplyFails, CommitFails, RollRestore,
                    RollRead, RollWrite, RollFails, UndoLast, Popped, CheckQuota, Lock, LockAnyway, Goto, Shaped,
                    Pushing, Applying, Rolling
    <2> QED
        BY <1>4, <2>1
<1>6. CASE Begin(q) \/ BumpRead(q) \/ BumpSet(q)
    BY <1>6 DEF Begin, BumpRead, BumpSet, Holds, Pushing, Applying, Rolling
<1> QED
    BY <1>1, <1>2, <1>3, <1>5, <1>6 DEF Serve, Push, Rollback, FileCalls

\* Between the two it remembers what the space held.
LEMMA BeforeKept ==
    ASSUME Shaped, NEW q \in Requests, Begin(q) \/ Serve(q), Holds(q)
    PROVE  before'[q] = before[q]
<1> USE DEF history, outcome, Refuse
<1>1. CASE Begin(q) \/ Lock(q)
    BY <1>1 DEF Begin, Lock, LockAnyway, Holds, Pushing, Applying, Rolling
<1>2. CASE Push(q)
    BY <1>2 DEF Push, CheckHead, RefuseHead, Inventory, PlanOp, RefusePlan, ApplyRead, ApplyWrite,
                ApplyFails, Commit, CommitFails
<1>3. CASE Rollback(q)
    BY <1>3 DEF Rollback, RollRestore, RollRead, RollWrite, RollFails, RollDone, UndoLast, Popped
<1>4. CASE FileCalls(q)
    BY <1>4 DEF FileCalls, CheckQuota, RefuseQuota, WriteFile, WriteFails, BumpRead, BumpSet
<1> QED
    BY <1>1, <1>2, <1>3, <1>4 DEF Serve

LEMMA SpoiledStays ==
    ASSUME NEW q \in Requests, Begin(q) \/ Serve(q), spoiled
    PROVE  spoiled'
<1> USE DEF history, outcome, Refuse
<1>1. CASE Begin(q) \/ Lock(q)
    BY <1>1 DEF Begin, Lock, LockAnyway
<1>2. CASE Push(q)
    BY <1>2 DEF Push, CheckHead, RefuseHead, Inventory, PlanOp, RefusePlan, ApplyRead, ApplyWrite,
                ApplyFails, Commit, CommitFails
<1>3. CASE Rollback(q)
    <2>1. CASE RollDone(q)
        <3>1. spoiled' = (spoiled \/ mixed[q])
            BY <2>1 DEF RollDone
        <3> QED
            BY <3>1, Zenon
    <2>2. CASE RollRestore(q) \/ RollRead(q) \/ RollWrite(q) \/ RollFails(q)
        BY <2>2 DEF RollRestore, RollRead, RollWrite, RollFails, UndoLast, Popped
    <2> QED
        BY <1>3, <2>1, <2>2 DEF Rollback
<1>4. CASE FileCalls(q)
    BY <1>4 DEF FileCalls, CheckQuota, RefuseQuota, WriteFile, WriteFails, BumpRead, BumpSet
<1> QED
    BY <1>1, <1>2, <1>3, <1>4 DEF Serve

-----------------------------------------------------------------------------
(* With pushes alone, the head names the content *)

OnlyPushes == Kinds \subseteq {"push"}

AllPush == \A q \in Requests : req[q] \in {NoReq} \cup PushReqs

\* A content is the one that the head stands for, but for what has vanished.
Named(c) == \A p \in Paths \ vanished : c[p] = ContentAt(head)[p]

\* At rest the space holds what its head stands for, and a push that works
\* found that when it got the lock.
HInv ==
    /\ AllPush
    /\ ~spoiled => /\ Quiet => Named(Content)
                   /\ \A q \in Requests : Holds(q) => Named(before[q])

LEMMA NoFiling ==
    ASSUME TInv, AllPush, NEW q \in Requests
    PROVE  pc[q] \notin Filing
BY DEF TInv, AllPush, Asked, NoReq, PushReqs, FileReqs, Filing

LEMMA NextAllPush ==
    ASSUME OnlyPushes, TInv, AllPush, NEW q \in Requests, Begin(q) \/ Serve(q)
    PROVE  AllPush'
<1> USE DEF TInv
<1>1. ASSUME NEW s \in Requests, s # q PROVE req'[s] \in {NoReq} \cup PushReqs
    BY <1>1, OthersSame DEF Same, AllPush
<1>2. req'[q] \in {NoReq} \cup PushReqs
    <2>1. CASE Begin(q)
        <3>1. PICK b \in Batches, h \in 0..Len(log) : Request(q, [kind |-> "push", ops |-> b, head |-> h])
            BY <2>1 DEF Begin, OnlyPushes
        <3>2. [kind |-> "push", ops |-> b, head |-> h] \in PushReqs
            BY BatchIsSeq, LenProperties DEF PushReqs, Shaped
        <3> QED
            BY <3>1, <3>2 DEF Request, Shaped
    <2>2. CASE Serve(q)
        <3>1. UNCHANGED req \/ req' = [req EXCEPT ![q] = NoReq]
            BY <2>2 DEF Serve, Push, Rollback, FileCalls, Lock, LockAnyway, CheckHead, RefuseHead, Inventory,
               PlanOp, RefusePlan, Refuse, ApplyRead, ApplyWrite, ApplyFails, Commit, CommitFails, RollRestore,
               RollRead, RollWrite, RollFails, RollDone, UndoLast, Popped, CheckQuota, RefuseQuota,
               WriteFile, WriteFails, BumpRead, BumpSet, Reply
        <3> QED
            BY <3>1 DEF AllPush, Shaped
    <2> QED
        BY <2>1, <2>2
<1> QED
    BY <1>1, <1>2 DEF AllPush

\* Only a commit moves the head.
LEMMA HeadMovesAtCommit ==
    ASSUME CleanFaults, TInv, AllPush, NEW q \in Requests, Begin(q) \/ Serve(q), ~Commit(q)
    PROVE  UNCHANGED <<head, log>> /\ vanished \subseteq vanished'
<1> USE DEF storage, history, outcome, Refuse
<1>1. CASE Begin(q) \/ Lock(q) \/ CheckHead(q) \/ RefuseHead(q) \/ Inventory(q) \/ PlanOp(q)
           \/ RefusePlan(q) \/ ApplyRead(q) \/ ApplyWrite(q) \/ ApplyFails(q)
    BY <1>1 DEF Begin, Lock, LockAnyway, CheckHead, RefuseHead, Inventory, PlanOp, RefusePlan,
                ApplyRead, ApplyWrite, ApplyFails
<1>2. CASE CommitFails(q)
    BY <1>2 DEF CommitFails, Fault, CleanFaults
<1>3. CASE Rollback(q)
    BY <1>3 DEF Rollback, RollRestore, RollRead, RollWrite, RollFails, RollDone, UndoLast, Popped
<1>4. CASE CheckQuota(q) \/ RefuseQuota(q) \/ WriteFile(q) \/ WriteFails(q) \/ BumpRead(q)
    BY <1>4 DEF CheckQuota, RefuseQuota, WriteFile, WriteFails, BumpRead
<1>5. CASE BumpSet(q)
    BY <1>5, NoFiling DEF BumpSet, Filing
<1> QED
    BY <1>1, <1>2, <1>3, <1>4, <1>5 DEF Serve, Push, FileCalls

LEMMA CommitNames ==
    ASSUME TInv, NEW q \in Requests, Commit(q)
    PROVE  Named(Content)'
<1>1. /\ UNCHANGED file /\ head' = Len(log) + 1 /\ log' = Append(log, file)
      /\ log \in Seq(Listings) /\ file \in Listings /\ Len(log) \in Nat
    BY LenProperties DEF Commit, SetHead, TInv, Shaped
<1>2. log'[Len(log) + 1] = file /\ head' # 0
    BY <1>1, AppendProperties
<1> QED
    BY <1>1, <1>2 DEF Named, Content, ContentAt

LEMMA ServeHInv ==
    ASSUME SoleReplica, CleanFaults, OnlyPushes, TInv, Locked, AInv, HInv,
           NEW q \in Requests, Begin(q) \/ Serve(q)
    PROVE  HInv'
<1> SUFFICES ASSUME ~spoiled'
             PROVE  /\ Quiet' => Named(Content)'
                    /\ \A s \in Requests : Holds(s)' => Named(before[s])'
    BY NextAllPush DEF HInv
<1>1. ~spoiled
    BY SpoiledStays
<1>2. CASE Commit(q)
    <2>1. Holds(q) /\ ~Holds(q)'
        BY <1>2 DEF Commit, Reply, Goto, TInv, Shaped, Holds, Pushing, Applying, Rolling
    <2> QED
        BY <1>2, <2>1, CommitNames, OthersKept
<1>3. CASE ~Commit(q)
    <2>1. ContentAt(head)' = ContentAt(head) /\ vanished \subseteq vanished'
        BY <1>3, HeadMovesAtCommit DEF HInv, ContentAt
    <2>2. ~WriteFile(q)
        BY NoFiling DEF HInv, WriteFile, Filing
    <2>3. CASE Holds(q) /\ ~Holds(q)'
        <3>1. Restores(q) /\ Named(before[q]) /\ \A s \in Requests : ~Holds(s)'
            BY <1>1, <1>3, <2>2, <2>3, LetsGo DEF HInv, Quiet
        <3> QED
            BY <2>1, <3>1 DEF Restores, Named
    <2>4. CASE ~Holds(q) /\ Holds(q)'
        <3>1. Quiet /\ before'[q] = Content /\ ~Quiet'
            BY <2>4, TakesLock DEF Quiet
        <3>2. \A s \in Requests : s # q => ~Holds(s)'
            BY <3>1, OthersKept DEF Quiet
        <3> QED
            BY <1>1, <2>1, <3>1, <3>2 DEF HInv, Named
    <2>5. CASE Holds(q) /\ Holds(q)'
        <3>1. \A s \in Requests : s # q => ~Holds(s)'
            BY <2>5, OthersKept
        <3> QED
            BY <1>1, <2>1, <2>5, <3>1, BeforeKept DEF HInv, Named, Quiet, TInv
    <2>6. CASE ~Holds(q) /\ ~Holds(q)'
        <3>1. UNCHANGED file
            BY <2>6, WithoutLock DEF TInv
        <3>2. Content' = Content
            BY <3>1 DEF Content
        <3>3. \A s \in Requests : s # q => Same(s)
            BY OthersSame DEF TInv
        <3> QED
            BY <1>1, <2>1, <2>6, <3>2, <3>3 DEF HInv, Named, Quiet, Same, Holds
    <2> QED
        BY <2>3, <2>4, <2>5, <2>6
<1> QED
    BY <1>2, <1>3

LEMMA NextHInv ==
    ASSUME SoleReplica, CleanFaults, OnlyPushes
    PROVE  TInv /\ Locked /\ AInv /\ HInv /\ [Next]_vars => HInv'
<1> SUFFICES ASSUME TInv, Locked, AInv, HInv, [Next]_vars PROVE HInv'
    OBVIOUS
<1>1. ASSUME NEW u \in Pullers, Pull(u) PROVE HInv'
    <2>1. UNCHANGED <<storage, tree, lock, pc, req, progress, reply, history>>
        BY <1>1, PullSame
    <2> QED
        BY <2>1 DEF HInv, AllPush, Named, Quiet, Holds, Content, ContentAt, storage, history, outcome
<1>2. ASSUME NEW r \in Replicas, Crash(r) PROVE HInv'
    <2>1. spoiled'
        BY <1>2 DEF Crash
    <2>2. \A s \in Requests : req'[s] \in {NoReq} \cup PushReqs
        BY <1>2, CrashSame DEF Same, TInv, HInv, AllPush
    <2> QED
        BY <2>1, <2>2 DEF HInv, AllPush
<1>3. CASE UNCHANGED vars
    BY <1>3 DEF vars, HInv, AllPush, Named, Quiet, Holds, Content, ContentAt, storage, history, outcome
<1> QED
    BY <1>1, <1>2, <1>3, ServeHInv DEF Next

LEMMA InitHInv == Init => HInv
BY DEF Init, HInv, AllPush, Named, Quiet, Content, ContentAt, Body, NoFile, Holds, Pushing, Applying, Rolling

\* On one replica, where an operation told to fail had no effect and clients
\* only push, the space at rest holds what its head stands for: a client that
\* finds the head unchanged has nothing to pull, though pushes failed since;
\* all but a file that such a push took for absent, because it could not read
\* it, and removed.
THEOREM HeadNames ==
    SoleReplica /\ CleanFaults /\ OnlyPushes => (Spec => []HeadNamesContent)
<1> SUFFICES ASSUME SoleReplica, CleanFaults, OnlyPushes PROVE Spec => []HeadNamesContent
    OBVIOUS
<1>1. HInv => HeadNamesContent
    BY DEF HInv, Named, HeadNamesContent, AtRest, Quiet, Holds, Pushing, Applying, Rolling
<1> QED
    BY <1>1, InitHInv, NextHInv, AInvHolds, PTL DEF Spec

-----------------------------------------------------------------------------
(* The quota on files *)

NoUndelete == Kinds \subseteq {"push", "put", "delete"}

NoneUndeletes == \A q \in Requests : req[q].kind # "undelete"

\* What a push counts: the last operation on a path decides, and a path of
\* none is there if it was.  What it counted fits when it applies its plan, as
\* does what a put found and adds to.
HaveRight(q) ==
    /\ pc[q] \in {"plan"} \cup Applying =>
        /\ \A p \in Paths :
            (\A k \in DOMAIN plan[q] : plan[q][k].path # p) =>
                (p \in have[q] <=> p \in FilesOf(before[q]))
        /\ \A k \in DOMAIN plan[q] :
            (\A j \in DOMAIN plan[q] : j > k => plan[q][j].path # plan[q][k].path)
                => (plan[q][k].path \in have[q] <=> plan[q][k].op = "put")
    /\ pc[q] \in Applying => Cardinality(have[q]) <= MaxFiles
    /\ pc[q] = "write" /\ req[q].kind = "put" => Cardinality(Present \cup {req[q].path}) <= MaxFiles

InQuota(c) == IsFiniteSet(FilesOf(c)) /\ Cardinality(FilesOf(c)) <= MaxFiles

QInv ==
    /\ IsFiniteSet(Present)
    /\ NoneUndeletes
    /\ \A q \in Requests : Holds(q) => HaveRight(q)
    /\ ~spoiled => /\ Quiet => Cardinality(Present) <= MaxFiles
                   /\ \A q \in Requests : Holds(q) => InQuota(before[q])

LEMMA PresentPrimed ==
    ASSUME Shaped', Settled'
    PROVE  Present' = FilesOf(Content)'
<1> SUFFICES ASSUME NEW p \in Paths PROVE p \in Present' <=> p \in FilesOf(Content)'
    BY DEF Present, FilesOf
<1>1. file'[p] \in Files /\ file'[p].cur \in {0, Len(file'[p].vers)}
    BY DEF Shaped, Settled, Listings
<1>2. Body(file'[p]) # NoData <=> file'[p].cur # 0
    BY <1>1, BodyIsData
<1> QED
    BY <1>2 DEF Present, FilesOf, Content

LEMMA PresentStaysFinite ==
    ASSUME Shaped, IsFiniteSet(Present), UNCHANGED file \/ FileStep
    PROVE  IsFiniteSet(Present')
<1>1. CASE UNCHANGED file
    BY <1>1 DEF Present
<1>2. CASE FileStep
    <2>1. PICK x \in Paths : file' = [file EXCEPT ![x] = file'[x]]
        BY <1>2 DEF FileStep
    <2>2. Present' \subseteq Present \cup {x}
        BY <2>1 DEF Present, Shaped, Listings
    <2>3. IsFiniteSet(Present \cup {x})
        BY FS_AddElement
    <2> QED
        BY <2>2, <2>3, FS_Subset
<1> QED
    BY <1>1, <1>2

LEMMA NextNoneUndeletes ==
    ASSUME NoUndelete, Shaped, NoneUndeletes, NEW q \in Requests, Begin(q) \/ Serve(q)
    PROVE  NoneUndeletes'
<1>1. \A s \in Requests : s # q => req'[s] = req[s]
    BY OthersSame DEF Same
<1>2. req'[q].kind # "undelete"
    <2>1. CASE Begin(q)
        <3>1. PICK c \in {req'[q]} : Request(q, c) /\ c.kind # "undelete"
            BY <2>1 DEF Begin, NoUndelete, Request, Shaped
        <3> QED
            BY <3>1
    <2>2. CASE Serve(q)
        <3>1. UNCHANGED req \/ req' = [req EXCEPT ![q] = NoReq]
            BY <2>2 DEF Serve, Push, Rollback, FileCalls, Lock, LockAnyway, CheckHead, RefuseHead, Inventory,
               PlanOp, RefusePlan, Refuse, ApplyRead, ApplyWrite, ApplyFails, Commit, CommitFails, RollRestore,
               RollRead, RollWrite, RollFails, RollDone, UndoLast, Popped, CheckQuota, RefuseQuota,
               WriteFile, WriteFails, BumpRead, BumpSet, Reply
        <3> QED
            BY <3>1 DEF NoneUndeletes, Shaped, NoReq
    <2> QED
        BY <2>1, <2>2
<1> QED
    BY <1>1, <1>2 DEF NoneUndeletes

\* What a push counts when it plans one more operation.
LEMMA PlanOpCounts ==
    ASSUME TInv, NEW q \in Requests, PlanOp(q), HaveRight(q)
    PROVE  HaveRight(q)'
<1> USE DEF TInv
<1> DEFINE o == [Op(q) EXCEPT !.want = file[Op(q).path].cur]
           n == Len(plan[q])
<1>1. /\ pc[q] = "plan" /\ before'[q] = before[q] /\ plan'[q] = Append(plan[q], o)
      /\ have'[q] = Counted(q) /\ pc'[q] \in {"plan", "applyRead"}
      /\ pc'[q] = "applyRead" => Fits(q)
    BY DEF PlanOp, Goto, history, outcome, Shaped
<1>2. Op(q) \in Ops /\ Op(q).path \in Paths /\ file[Op(q).path].cur \in Nat
    BY <1>1, OpIsOp
<1>3. o.path = Op(q).path /\ o.op = Op(q).op /\ o.op \in {"put", "delete"} /\ o \in PlanOps
    BY <1>2, OpIsPlanned DEF PlanOps
<1>4. plan[q] \in Seq(PlanOps) /\ n \in Nat /\ DOMAIN plan[q] = 1..n
    BY LenProperties DEF Shaped
<1>5. /\ \A p \in Paths : p # o.path => (p \in Counted(q) <=> p \in have[q])
      /\ o.path \in Counted(q) <=> o.op = "put"
    BY <1>2, <1>3 DEF Counted
<1> HIDE DEF o
<1>6. /\ DOMAIN plan'[q] = 1..n + 1 /\ plan'[q][n + 1] = o
      /\ \A k \in 1..n : plan'[q][k] = plan[q][k]
    BY <1>1, <1>3, <1>4, AppendProperties, LenProperties
<1>7. \A k \in 1..n : plan[q][k].path \in Paths
    <2> SUFFICES ASSUME NEW k \in 1..n PROVE plan[q][k].path \in Paths
        OBVIOUS
    <2>1. plan[q][k] \in PlanOps
        BY <1>4, ElementOfSeq
    <2> QED
        BY <2>1 DEF PlanOps
<1> HIDE DEF n
<1>8. n + 1 \in 1..n + 1 /\ \A k \in 1..n : k \in 1..n + 1 /\ n + 1 > k
    BY <1>4
<1>9. ASSUME NEW p \in Paths, \A k \in 1..n + 1 : plan'[q][k].path # p
      PROVE  p \in Counted(q) <=> p \in FilesOf(before[q])
    <2>1. p # o.path /\ \A k \in 1..n : plan[q][k].path # p
        BY <1>6, <1>8, <1>9
    <2> QED
        BY <1>1, <1>4, <1>5, <2>1 DEF HaveRight
<1>10. ASSUME NEW k \in 1..n + 1,
              \A j \in 1..n + 1 : j > k => plan'[q][j].path # plan'[q][k].path
       PROVE  plan'[q][k].path \in Counted(q) <=> plan'[q][k].op = "put"
    <2>1. CASE k = n + 1
        BY <1>5, <1>6, <2>1
    <2>2. CASE k \in 1..n
        <3>1. /\ plan[q][k].path # o.path /\ plan[q][k].path \in Paths
              /\ \A j \in 1..n : j > k => plan[q][j].path # plan[q][k].path
            BY <1>6, <1>7, <1>8, <1>10, <2>2
        <3> QED
            BY <1>1, <1>4, <1>5, <1>6, <2>2, <3>1 DEF HaveRight
    <2> QED
        BY <1>4, <1>10, <2>1, <2>2
<1>11. FilesOf(before[q])' = FilesOf(before[q])
    BY <1>1 DEF FilesOf
<1> QED
    BY <1>1, <1>6, <1>9, <1>10, <1>11 DEF HaveRight, Fits, Applying

\* What was counted is what is there when every operation is applied.
LEMMA CommitCounts ==
    ASSUME TInv, AInv, NEW q \in Requests, Commit(q), HaveRight(q)
    PROVE  Present' = have[q] /\ Cardinality(have[q]) <= MaxFiles
<1> USE DEF TInv
<1> DEFINE n == Len(undo[q])
<1>1. pc[q] = "commit" /\ UNCHANGED file /\ have[q] \subseteq Paths
    BY DEF Commit, Shaped
<1>2. UndoRight(q) /\ PlanRight(q) /\ ~mixed[q] /\ pc[q] \notin Rolling
    BY <1>1 DEF AInv, Holds, Pushing, Applying, Rolling, Progress
<1>3. n \in Nat /\ DOMAIN undo[q] = 1..n /\ Len(plan[q]) = n /\ plan[q] \in Seq(PlanOps)
    BY <1>1, UndoIsTyped DEF Progress, Applying, Shaped
<1>4. DOMAIN plan[q] = 1..n
    BY <1>3, LenProperties
<1>5. ASSUME NEW k \in 1..n
      PROVE  /\ undo[q][k].path = plan[q][k].path
             /\ plan[q][k].path \in Present <=> plan[q][k].op = "put"
    <2>1. undo[q][k].path = plan[q][k].path /\ Body(file[plan[q][k].path]) = plan[q][k].data
        BY <1>1, <1>2, <1>3, <1>5 DEF PlanRight, Applying
    <2>2. plan[q][k] \in PlanOps
        BY <1>3, <1>4, <1>5, ElementOfSeq
    <2>3. plan[q][k].path \in Paths /\ (plan[q][k].data # NoData <=> plan[q][k].op = "put")
        BY <2>2, SpaceServiceAssumption DEF PlanOps
    <2>4. file[plan[q][k].path] \in Files /\ file[plan[q][k].path].cur \in {0, Len(file[plan[q][k].path].vers)}
        BY <2>3, UndoIsTyped
    <2>5. Body(file[plan[q][k].path]) # NoData <=> file[plan[q][k].path].cur # 0
        BY <2>4, BodyIsData
    <2> QED
        BY <2>1, <2>3, <2>5 DEF Present
<1> HIDE DEF n
<1>6. \A j, k \in 1..n : plan[q][j].path = plan[q][k].path => j = k
    BY <1>2, <1>3, <1>5 DEF UndoRight
<1>7. \A j, k \in 1..n : j > k => j # k
    BY <1>3
<1>8. ASSUME NEW p \in Paths PROVE p \in Present <=> p \in have[q]
    <2>1. CASE \E k \in 1..n : plan[q][k].path = p
        <3>1. PICK k \in 1..n : plan[q][k].path = p
            BY <2>1
        <3>2. \A j \in 1..n : j > k => plan[q][j].path # plan[q][k].path
            BY <1>6, <1>7
        <3> QED
            BY <1>1, <1>4, <1>5, <3>1, <3>2 DEF HaveRight, Applying
    <2>2. CASE \A k \in 1..n : plan[q][k].path # p
        <3>1. p \in have[q] <=> p \in FilesOf(before[q])
            BY <1>1, <1>4, <2>2 DEF HaveRight, Applying
        <3>2. Body(file[p]) = before[q][p]
            BY <1>2, <1>3, <1>5, <2>2, UntouchedHeld DEF Touched
        <3>3. p \in Present <=> p \in FilesOf(Content)
            BY PresentIsContent
        <3> QED
            BY <3>1, <3>2, <3>3 DEF FilesOf, Content
    <2> QED
        BY <2>1, <2>2
<1> QED
    BY <1>1, <1>8 DEF HaveRight, Applying, Present

\* A step of a call keeps what that call has counted.
LEMMA OwnHaveRight ==
    ASSUME SoleReplica, CleanFaults, TInv, Locked, AInv, NEW q \in Requests, Begin(q) \/ Serve(q),
           Holds(q) => HaveRight(q), Holds(q)'
    PROVE  HaveRight(q)'
<1> USE DEF TInv, Goto
<1> DEFINE Early == {"head", "inventory", "check"} \cup Rolling
<1>1. ASSUME pc'[q] \in Early PROVE HaveRight(q)'
    BY <1>1 DEF HaveRight, Applying, Rolling
<1>2. CASE Lock(q)
    BY <1>1, <1>2 DEF Lock, LockAnyway, Shaped
<1>3. CASE CheckHead(q)
    BY <1>1, <1>3 DEF CheckHead, Shaped
<1>4. CASE Inventory(q)
    <2>1. pc[q] = "inventory" /\ pc'[q] = "plan" /\ have'[q] = Present /\ UNCHANGED <<plan, before>>
        BY <1>4 DEF Inventory, Shaped, history, outcome
    <2>2. Holds(q) /\ undo[q] = <<>> /\ ~mixed[q] /\ plan[q] = <<>>
        BY <2>1 DEF Holds, Pushing, Applying, Rolling, Progress
    <2>3. Content = before[q]
        BY <2>1, <2>2, NothingTouched DEF AInv, Shaped, Rolling
    <2>4. Present = FilesOf(before[q])
        BY <2>3, PresentIsContent
    <2>5. DOMAIN plan'[q] = {} /\ before'[q] = before[q]
        BY <2>1, <2>2
    <2> QED
        BY <2>1, <2>4, <2>5 DEF HaveRight, Applying, FilesOf
<1>5. CASE PlanOp(q)
    <2>1. Holds(q)
        BY <1>5 DEF PlanOp, Holds, Pushing
    <2> QED
        BY <1>5, <2>1, PlanOpCounts
<1>6. CASE ApplyRead(q) \/ ApplyWrite(q)
    <2>1. /\ pc[q] \in Applying /\ pc'[q] \in Applying
          /\ UNCHANGED <<plan, have, before>>
        BY <1>6 DEF ApplyRead, ApplyWrite, Applying, Shaped, history, outcome
    <2>2. Holds(q) /\ pc'[q] # "write"
        BY <2>1 DEF Holds, Pushing, Applying
    <2> QED
        BY <2>1, <2>2 DEF HaveRight, FilesOf
<1>7. CASE ApplyFails(q) \/ CommitFails(q) \/ Rollback(q)
    <2>1. pc'[q] \in Rolling \cup {"idle"}
        BY <1>7 DEF ApplyFails, CommitFails, Rollback, RollRestore, RollRead, RollWrite, RollFails, RollDone,
                    UndoLast, Popped, Reply, Rolling, Shaped
    <2> QED
        BY <1>1, <2>1 DEF Holds, Pushing, Applying, Rolling
<1>8. CASE CheckQuota(q)
    <2>1. /\ pc'[q] = "write" /\ UNCHANGED <<file, req>>
          /\ req[q].kind = "put" => Cardinality(Present \cup {req[q].path}) <= MaxFiles
        BY <1>8 DEF CheckQuota, Shaped, storage
    <2>2. Present' = Present /\ req'[q] = req[q]
        BY <2>1 DEF Present
    <2> QED
        BY <2>1, <2>2 DEF HaveRight, Applying
<1>9. CASE \/ Begin(q) \/ RefuseHead(q) \/ RefusePlan(q) \/ Commit(q) \/ RefuseQuota(q) \/ WriteFile(q)
           \/ WriteFails(q) \/ BumpRead(q) \/ BumpSet(q)
    <2>1. pc'[q] \in {"lock", "idle", "bumpRead", "bumpSet"}
        BY <1>9 DEF Begin, Request, RefuseHead, RefusePlan, Commit, RefuseQuota, Refuse, WriteFile, WriteFails,
                    BumpRead, BumpSet, Reply, Shaped
    <2> QED
        BY <2>1 DEF Holds, Pushing, Applying, Rolling
<1> QED
    BY <1>2, <1>3, <1>4, <1>5, <1>6, <1>7, <1>8, <1>9 DEF Serve, Push, FileCalls

\* A single-file call writes what it was allowed to.
LEMMA WriteFits ==
    ASSUME TInv, AInv, QInv, ~spoiled, NEW q \in Requests, WriteFile(q)
    PROVE  Cardinality(Present') <= MaxFiles
<1> USE DEF TInv
<1>1. /\ pc[q] = "write" /\ FileCall(req[q]) /\ Holds(q) /\ req[q] \in FileReqs
      /\ req[q].kind \in {"put", "delete"}
    BY DEF WriteFile, Holds, Pushing, Asked, Filing, QInv, NoneUndeletes, FileReqs
<1>2. PICK x \in Paths : /\ x = req[q].path
                         /\ file' = [file EXCEPT ![x] = file'[x]]
                         /\ req[q].kind = "delete" => file'[x].cur = 0
    BY <1>1 DEF FileCall, FileReqs, Put, Removed, Shaped, Listings, Files
<1>3. CASE req[q].kind = "put"
    <2>1. Present' \subseteq Present \cup {x}
        BY <1>2 DEF Present, Shaped, Listings
    <2>2. IsFiniteSet(Present \cup {x})
        BY FS_AddElement DEF QInv
    <2>3. Cardinality(Present \cup {x}) <= MaxFiles
        BY <1>1, <1>2, <1>3 DEF QInv, HaveRight
    <2> QED
        BY <2>1, <2>2, <2>3, FS_Subset, FS_CardinalityType, SpaceServiceAssumption
<1>4. CASE req[q].kind = "delete"
    <2>1. Present' \subseteq Present
        BY <1>2, <1>4 DEF Present, Shaped, Listings
    <2>2. undo[q] = <<>> /\ ~mixed[q]
        BY <1>1 DEF Progress, Applying, Rolling
    <2>3. Content = before[q]
        BY <1>1, <2>2, NothingTouched DEF AInv, Shaped, Rolling
    <2>4. Present = FilesOf(before[q])
        BY <2>3, PresentIsContent
    <2>5. Cardinality(Present) <= MaxFiles
        BY <1>1, <2>4 DEF QInv, InQuota
    <2>6. IsFiniteSet(Present)
        BY DEF QInv
    <2> QED
        BY <2>1, <2>5, <2>6, FS_Subset, FS_CardinalityType, SpaceServiceAssumption
<1> QED
    BY <1>1, <1>3, <1>4

LEMMA ServeQInv ==
    ASSUME SoleReplica, CleanFaults, NoUndelete, TInv, TInv', Locked, AInv, QInv,
           NEW q \in Requests, Begin(q) \/ Serve(q)
    PROVE  QInv'
<1>1. IsFiniteSet(Present')
    BY PresentStaysFinite, FilesMove DEF TInv, QInv
<1>2. NoneUndeletes'
    BY NextNoneUndeletes DEF TInv, QInv
<1>3. ASSUME NEW s \in Requests, Holds(s)' PROVE HaveRight(s)'
    <2>1. CASE s = q
        BY <1>3, <2>1, OwnHaveRight DEF QInv
    <2>2. CASE s # q
        <3>1. Holds(s) /\ UNCHANGED file /\ Same(s)
            BY <1>3, <2>2, OthersKept, OthersSame DEF TInv
        <3>2. Present' = Present
            BY <3>1 DEF Present
        <3> QED
            BY SMTT(30), <3>1, <3>2 DEF QInv, HaveRight, Same, FilesOf
    <2> QED
        BY <2>1, <2>2
<1>4. Present' = FilesOf(Content') /\ Present = FilesOf(Content)
    <2>1. Present' = FilesOf(Content)'
        BY PresentPrimed DEF TInv
    <2> QED
        BY <2>1, PresentIsContent DEF TInv, FilesOf
<1>5. ASSUME ~spoiled'
      PROVE  /\ Quiet' => Cardinality(Present') <= MaxFiles
             /\ \A s \in Requests : Holds(s)' => InQuota(before'[s])
    <2>1. ~spoiled
        BY <1>5, SpoiledStays
    <2>2. CASE Holds(q) /\ ~Holds(q)'
        <3>1. \A s \in Requests : ~Holds(s)'
            BY <2>2, LetsGo DEF Quiet
        <3>2. CASE Commit(q)
            BY <2>2, <3>1, <3>2, CommitCounts DEF QInv
        <3>3. CASE WriteFile(q)
            BY <2>1, <3>1, <3>3, WriteFits
        <3>4. CASE Restores(q)
            <4>1. InQuota(before[q])
                BY <2>1, <2>2 DEF QInv
            <4>2. FilesOf(Content') \subseteq FilesOf(before[q])
                BY <3>4 DEF Restores, FilesOf
            <4> QED
                BY <1>4, <3>1, <4>1, <4>2, FS_Subset, FS_CardinalityType, SpaceServiceAssumption
                DEF InQuota
        <3> QED
            BY <1>5, <2>2, <3>2, <3>3, <3>4, LetsGo
    <2>3. CASE ~Holds(q) /\ Holds(q)'
        <3>1. Quiet /\ before'[q] = Content /\ ~Quiet'
            BY <2>3, TakesLock DEF Quiet
        <3>2. \A s \in Requests : s # q => ~Holds(s)'
            BY <3>1, OthersKept DEF Quiet
        <3>3. InQuota(Content)
            BY <1>4, <2>1, <3>1 DEF QInv, InQuota
        <3> QED
            BY <3>1, <3>2, <3>3
    <2>4. CASE Holds(q) /\ Holds(q)'
        <3>1. \A s \in Requests : s # q => ~Holds(s)'
            BY <2>4, OthersKept
        <3>2. before'[q] = before[q] /\ ~Quiet'
            BY <2>4, BeforeKept DEF Quiet, TInv
        <3>3. InQuota(before[q])
            BY <2>1, <2>4 DEF QInv
        <3> QED
            BY <3>1, <3>2, <3>3
    <2>5. CASE ~Holds(q) /\ ~Holds(q)'
        <3>1. UNCHANGED file
            BY <2>5, WithoutLock DEF TInv
        <3>2. Present' = Present
            BY <3>1 DEF Present
        <3>3. \A s \in Requests : s # q => Same(s)
            BY OthersSame DEF TInv
        <3>4. \A s \in Requests : Holds(s)' => Holds(s) /\ before'[s] = before[s]
            BY <2>5, <3>3 DEF Same, Holds
        <3>5. Quiet' => Quiet
            BY <2>5, <3>3 DEF Same, Holds, Quiet
        <3>6. \A s \in Requests : Holds(s) => InQuota(before[s])
            BY <2>1 DEF QInv
        <3> QED
            BY <2>1, <3>2, <3>4, <3>5, <3>6 DEF QInv
    <2> QED
        BY <2>2, <2>3, <2>4, <2>5
<1> QED
    BY <1>1, <1>2, <1>3, <1>5 DEF QInv, InQuota, FilesOf

LEMMA NextQInv ==
    ASSUME SoleReplica, CleanFaults, NoUndelete
    PROVE  TInv /\ TInv' /\ Locked /\ AInv /\ QInv /\ [Next]_vars => QInv'
<1> SUFFICES ASSUME TInv, TInv', Locked, AInv, QInv, [Next]_vars PROVE QInv'
    OBVIOUS
<1>1. ASSUME UNCHANGED <<storage, pc, req, progress, history>> PROVE QInv'
    <2>1. Present' = Present
        BY <1>1 DEF Present, storage
    <2>2. \A q \in Requests : HaveRight(q)' <=> HaveRight(q)
        BY <1>1, <2>1 DEF HaveRight, FilesOf, progress, history, outcome
    <2> QED
        BY <1>1, <2>1, <2>2 DEF QInv, InQuota, NoneUndeletes, Quiet, Holds, FilesOf, history, outcome
<1>2. ASSUME NEW u \in Pullers, Pull(u) PROVE QInv'
    BY <1>1, <1>2, PullSame
<1>3. ASSUME NEW r \in Replicas, Crash(r) PROVE QInv'
    <2>1. UNCHANGED file /\ spoiled'
        BY <1>3 DEF Crash, storage
    <2>2. \A s \in Requests : On[s] = r
        BY SpaceServiceAssumption DEF SoleReplica
    <2>3. \A s \in Requests : ~Holds(s)' /\ req'[s].kind # "undelete"
        BY <1>3, <2>2, CrashSame DEF TInv, Holds, Pushing, Applying, Rolling, NoReq
    <2> QED
        BY <2>1, <2>3 DEF QInv, NoneUndeletes, Present
<1>4. CASE UNCHANGED vars
    BY <1>1, <1>4 DEF vars
<1> QED
    BY <1>2, <1>3, <1>4, ServeQInv DEF Next

LEMMA InitQInv == Init => QInv
<1> SUFFICES ASSUME Init PROVE QInv
    OBVIOUS
<1>1. Present = {}
    BY DEF Init, Present, NoFile
<1>2. IsFiniteSet(Present) /\ Cardinality(Present) <= MaxFiles
    BY <1>1, FS_EmptySet, SpaceServiceAssumption
<1> QED
    BY <1>2 DEF Init, QInv, NoneUndeletes, NoReq, Holds, Pushing, Applying, Rolling

\* On one replica, where an operation told to fail had no effect and no file is
\* undeleted, the space at rest has no more files than its quota, in whatever
\* order batches put and delete, roll-backs and single-file calls included.
THEOREM QuotaKept ==
    SoleReplica /\ CleanFaults /\ NoUndelete => (Spec => []QuotaHolds)
<1> SUFFICES ASSUME SoleReplica, CleanFaults, NoUndelete PROVE Spec => []QuotaHolds
    OBVIOUS
<1>1. QInv => QuotaHolds
    BY DEF QInv, QuotaHolds, AtRest, Quiet, Holds, Pushing, Applying, Rolling
<1> QED
    BY <1>1, InitQInv, NextQInv, AInvHolds, PTL DEF Spec
=============================================================================
