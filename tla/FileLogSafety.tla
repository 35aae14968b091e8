---------------------------- MODULE FileLogSafety ----------------------------
(***************************************************************************)
(* What several replicas keep true without a common lock, as long as none  *)
(* destroys versions: the newest version of a path is readable with the    *)
(* content it was committed with; no save loses, rewrites or brings back a *)
(* version; an acknowledged put stays; reads answer what was committed;    *)
(* and the path implements the atomic register of AtomicFile.              *)
(***************************************************************************)
EXTENDS FileLogProofs

\* The newest version is retained, and no other one is ever current.
Shape(m) ==
    /\ m.current \in {0, Len(m.vers)}
    /\ m.vers # <<>> => ~m.vers[Len(m.vers)].destroyed

\* What a call under way has established.  A put that may still win its
\* commit owns the blob of the next version: whoever reaches that version
\* number after it finds the blob taken, and pruning stays below the newest.
CallInv(p) ==
    /\ call[p].op # "destroy"
    /\ Shape(held[p]) /\ Len(held[p].vers) <= Len(meta.vers)
    /\ pc[p] \in {"unmirror", "save"} /\ call[p].op = "delete" => held[p].current # 0
    /\ pc[p] \in {"mirror", "mirrorPut", "save"} /\ call[p].op = "undelete" => held[p].vers # <<>>
    /\ pc[p] \in {"prune", "save"} /\ call[p].op = "put" /\ Len(meta.vers) = Len(held[p].vers) =>
            blob[Len(held[p].vers) + 1] = call[p].data
    /\ pc[p] = "adoptMeta" /\ meta.vers = <<>> => blob[1] = carried[p]

IInv == TInv /\ Shape(meta) /\ NewestReadable /\ \A p \in Procs : CallInv(p)

-----------------------------------------------------------------------------
(* What the operators on metadata do to a log of this shape *)

LEMMA NextVersionShape ==
    ASSUME NEW m \in Meta, Shape(m)
    PROVE  NextVersion(m) = Len(m.vers) + 1
<1>1. Len(m.vers) \in Nat
    BY DEF Meta
<1> QED
    BY <1>1 DEF NextVersion, Shape

\* A put appends its version, and nothing it drops is the newest of what it loaded.
LEMMA AddVersionShape ==
    ASSUME NEW m \in Meta, Shape(m), NEW d \in Data
    PROVE  /\ AddVersion(m, d) = [current |-> Len(m.vers) + 1, vers |-> Append(m.vers, NewVersion(d))]
           /\ Len(AddVersion(m, d).vers) = Len(m.vers) + 1
           /\ AddVersion(m, d).vers[Len(m.vers) + 1] = NewVersion(d)
<1>1. m.vers \in Seq(VersionInfo) /\ Len(m.vers) \in Nat /\ DOMAIN m.vers = 1..Len(m.vers)
    BY DEF Meta
<1>2. NewVersion(d) \in VersionInfo
    BY DEF NewVersion, VersionInfo
<1>3. AddVersion(m, d) = [current |-> Len(m.vers) + 1, vers |-> Append(m.vers, NewVersion(d))]
    BY <1>1, NextVersionShape DEF AddVersion
<1> QED
    BY <1>1, <1>2, <1>3

LEMMA DroppedBelow ==
    ASSUME MaxVersions >= 2, NEW m \in Meta, Shape(m), NEW d \in Data,
           NEW n \in Dropped(AddVersion(m, d))
    PROVE  n \in Nat /\ n < Len(m.vers)
<1> DEFINE a == AddVersion(m, d)
           newer == {k \in Retained(a.vers) : k > n}
<1>1. /\ a \in Meta /\ Len(a.vers) = Len(m.vers) + 1 /\ a.current = Len(m.vers) + 1
      /\ Len(m.vers) \in Nat
    BY AddVersionType, AddVersionShape DEF Meta
<1>2. DOMAIN a.vers = 1..(Len(m.vers) + 1)
    BY <1>1, LenProperties DEF Meta
<1>3. n \in 1..Len(m.vers) /\ Cardinality(newer) >= MaxVersions
    BY <1>1, <1>2 DEF Dropped, Retained
<1>4. ASSUME n = Len(m.vers) PROVE FALSE
    <2>1. newer \subseteq {Len(m.vers) + 1}
        BY <1>1, <1>2, <1>4 DEF Retained
    <2>2. Cardinality(newer) <= 1 /\ Cardinality(newer) \in Nat
        <3>1. IsFiniteSet({Len(m.vers) + 1}) /\ Cardinality({Len(m.vers) + 1}) = 1
            BY FS_Singleton
        <3> QED
            BY <2>1, <3>1, FS_Subset, FS_CardinalityType
    <2> QED
        BY <1>3, <2>2, FileLogAssumption
<1> QED
    BY <1>1, <1>3, <1>4

\* What a save makes of the metadata it loaded.
LEMMA SavedShape ==
    ASSUME NEW m \in Meta, Shape(m), NEW c, c.op \in {"put", "delete", "undelete"},
           c.op = "put" => c.data \in Data,
           c.op = "delete" => m.current # 0,
           c.op = "undelete" => m.vers # <<>>
    PROVE  /\ Shape(NewMeta(m, c)) /\ NewMeta(m, c).vers # <<>>
           /\ c.op = "put" => /\ Len(NewMeta(m, c).vers) = Len(m.vers) + 1
                              /\ NewMeta(m, c).vers[Len(m.vers) + 1].data = c.data
           /\ c.op # "put" => /\ Len(NewMeta(m, c).vers) = Len(m.vers)
                              /\ NewMeta(m, c).vers[Len(m.vers)].data = m.vers[Len(m.vers)].data
<1> DEFINE r == NewMeta(m, c)  L == Len(m.vers)
<1>1. m.vers \in Seq(VersionInfo) /\ L \in Nat /\ DOMAIN m.vers = 1..L
    BY DEF Meta
<1>2. r \in Meta
    BY NewMetaType
<1>3. CASE c.op = "put"
    <2> DEFINE a == AddVersion(m, c.data)
    <2>1. /\ a \in Meta /\ a.current = L + 1 /\ Len(a.vers) = L + 1
          /\ a.vers[L + 1] = NewVersion(c.data)
        BY <1>1, <1>3, AddVersionType, AddVersionShape
    <2>2. r.current = L + 1 /\ Len(r.vers) = L + 1
        BY <1>3, <2>1, PrunedType DEF NewMeta
    <2>3. DOMAIN a.vers = 1..(L + 1)
        BY <1>1, <2>1, LenProperties DEF Meta
    <2>4. (L + 1) \in DOMAIN a.vers /\ (L + 1) \notin Dropped(a)
        BY <1>1, <2>1, <2>3 DEF Dropped
    <2>5. r.vers = Pruned(a).vers
        BY <1>3 DEF NewMeta
    <2>6. r.vers[L + 1].data = c.data /\ ~r.vers[L + 1].destroyed
        <3>1. /\ r.vers[L + 1].data = a.vers[L + 1].data
              /\ r.vers[L + 1].destroyed = (a.vers[L + 1].destroyed \/ (L + 1) \in Dropped(a))
            BY <2>1, <2>4, <2>5, PrunedEntry
        <3>2. a.vers[L + 1].data = c.data /\ a.vers[L + 1].destroyed = FALSE
            BY <2>1 DEF NewVersion
        <3> QED
            BY <2>4, <3>1, <3>2
    <2> QED
        BY <1>1, <1>3, <2>2, <2>6 DEF Shape
<1>4. CASE c.op = "delete"
    <2>1. m.current = L /\ L # 0 /\ L \in DOMAIN m.vers
        BY <1>1, <1>4 DEF Shape
    <2>2. r.current = 0 /\ r.vers = [m.vers EXCEPT ![L].deleted = TRUE]
        BY <1>4, <2>1 DEF NewMeta
    <2>3. Len(r.vers) = L
        BY <2>2, MarkedType
    <2>4. r.vers[L] = [m.vers[L] EXCEPT !.deleted = TRUE]
        BY <2>1, <2>2
    <2>5. r.vers[L].data = m.vers[L].data /\ r.vers[L].destroyed = m.vers[L].destroyed
        <3>1. m.vers[L] \in VersionInfo
            BY <1>1, <2>1, ElementOfSeq
        <3> QED
            BY <2>4, <3>1 DEF VersionInfo
    <2> QED
        BY <1>1, <1>4, <2>1, <2>2, <2>3, <2>5 DEF Shape
<1>5. CASE c.op = "undelete"
    <2>1. Best(m) = L /\ L # 0 /\ L \in DOMAIN m.vers
        <3>1. L # 0
            BY <1>1, <1>5
        <3>2. L \in Retained(m.vers) /\ Retained(m.vers) \subseteq 1..L
            BY <1>1, <1>5, <3>1 DEF Shape, Retained
        <3>3. \A n \in Retained(m.vers) : (\A k \in Retained(m.vers) : k <= n) => n = L
            BY <1>1, <3>2
        <3>4. \A k \in Retained(m.vers) : k <= L
            BY <1>1, <3>2
        <3> QED
            BY <1>1, <3>1, <3>2, <3>3, <3>4 DEF Best
    <2>2. r.current = L /\ r.vers = [m.vers EXCEPT ![L].deleted = FALSE]
        BY <1>5, <2>1 DEF NewMeta
    <2>3. Len(r.vers) = L
        BY <2>2, MarkedType
    <2>4. r.vers[L] = [m.vers[L] EXCEPT !.deleted = FALSE]
        BY <2>1, <2>2
    <2>5. r.vers[L].data = m.vers[L].data /\ r.vers[L].destroyed = m.vers[L].destroyed
        <3>1. m.vers[L] \in VersionInfo
            BY <1>1, <2>1, ElementOfSeq
        <3> QED
            BY <2>4, <3>1 DEF VersionInfo
    <2> QED
        BY <1>1, <1>5, <2>1, <2>2, <2>3, <2>5 DEF Shape
<1> QED
    BY <1>3, <1>4, <1>5

-----------------------------------------------------------------------------
(* What a step keeps *)

\* No step shortens the log or rewrites a body at or above its newest version.
Kept ==
    /\ Len(meta.vers) <= Len(meta'.vers)
    /\ \A n \in 1..MaxN : n >= Len(meta.vers) /\ blob[n] # NoData => blob'[n] = blob[n]

\* The new body of an adoption or a put goes where there was none, and pruning
\* stays below the newest version.
LEMMA StepKept ==
    ASSUME MaxVersions >= 2, IInv, NEW p \in Procs,
           \/ Begin(p) \/ Load(p) \/ Adopt(p) \/ PutSteps(p) \/ Commit(p)
           \/ Mirror(p) \/ Others(p) \/ Reads(p) \/ Abandon(p)
    PROVE  Kept
<1>1. /\ meta \in Meta /\ held[p] \in Meta /\ call[p] \in Call /\ Len(meta.vers) \in Nat
      /\ blob \in [1..MaxN -> MaybeData] /\ ControlAt(p) /\ CallInv(p)
    BY DEF IInv, TInv, TypeOK, ControlOK, Meta
<1>2. CASE UNCHANGED <<meta, blob>>
    BY <1>1, <1>2 DEF Kept
<1>3. CASE AdoptBlob(p) /\ ~UNCHANGED <<meta, blob>>
    <2>1. UNCHANGED meta /\ blob[1] = NoData /\ blob' = [blob EXCEPT ![1] = carried[p]]
        BY <1>3 DEF AdoptBlob, Fail, objects
    <2> QED
        BY <1>1, <2>1 DEF Kept
<1>4. CASE AdoptMeta(p) /\ ~UNCHANGED <<meta, blob>>
    <2>1. /\ UNCHANGED blob /\ meta = EmptyMeta
          /\ meta' = [current |-> 1, vers |-> <<NewVersion(carried[p])>>]
        BY <1>1, <1>4 DEF AdoptMeta, Fail, objects, ControlAt
    <2>2. Len(meta.vers) = 0 /\ Len(meta'.vers) = 1
        BY <2>1 DEF EmptyMeta
    <2> QED
        BY <2>1, <2>2 DEF Kept
<1>5. CASE PutBlob(p)
    <2>1. /\ UNCHANGED meta /\ blob[NextVersion(held[p])] = NoData
          /\ blob' = [blob EXCEPT ![NextVersion(held[p])] = call[p].data]
        BY <1>5 DEF PutBlob, WriteBlob
    <2> QED
        BY <1>1, <2>1 DEF Kept
<1>6. CASE Prune(p)
    <2>1. PICK gone \in SUBSET Dropped(AddVersion(held[p], call[p].data)) :
            blob' = [n \in DOMAIN blob |-> IF n \in gone THEN NoData ELSE blob[n]]
        BY <1>6 DEF Prune
    <2>2. ASSUME NEW n \in gone PROVE n < Len(meta.vers)
        <3>1. call[p].data \in Data /\ Shape(held[p]) /\ Len(held[p].vers) <= Len(meta.vers)
            BY <1>1, <1>6 DEF Prune, ControlAt, CallInv
        <3>2. n \in Nat /\ n < Len(held[p].vers)
            BY <1>1, <3>1, DroppedBelow
        <3>3. Len(held[p].vers) \in Nat
            BY <1>1 DEF Meta
        <3> QED
            BY <1>1, <3>1, <3>2, <3>3
    <2>3. UNCHANGED meta
        BY <1>6 DEF Prune
    <2> QED
        BY <1>1, <2>1, <2>2, <2>3 DEF Kept
<1>7. CASE SaveMeta(p)
    <2>1. /\ UNCHANGED blob /\ meta = held[p] /\ meta' = NewMeta(meta, call[p])
        BY <1>7 DEF SaveMeta, WriteMeta
    <2>2. /\ call[p].op \in {"put", "delete", "undelete"}
          /\ call[p].op = "put" => call[p].data \in Data
          /\ call[p].op = "delete" => held[p].current # 0
          /\ call[p].op = "undelete" => held[p].vers # <<>>
        BY <1>1, <1>7 DEF SaveMeta, ControlAt, CallInv
    <2>3. Len(meta'.vers) >= Len(meta.vers)
        BY <1>1, <2>1, <2>2, SavedShape DEF CallInv
    <2> QED
        BY <2>1, <2>3 DEF Kept
<1>8. ~Destroy(p)
    BY <1>1 DEF Destroy, MayDestroy, CallInv
<1> QED
    BY <1>2, <1>3, <1>4, <1>5, <1>6, <1>7, <1>8
    DEF Begin, Request, Load, Adopt, AdoptRead, PutSteps, ResolveToken, RejectStale, RefuseBlob,
        Commit, LoseMeta, Mirror, MirrorRead, MirrorPut, AfterMirror, LoseMirror, Others, DeleteRead,
        DeleteLive, UndeleteRead, RefuseDestroy, Reads, GetLive, GetBlob, GetNothing, Abandon,
        Fail, objects

\* No step touches what another call holds.
LEMMA StepLocal ==
    ASSUME TInv, NEW p \in Procs, NEW q \in Procs \ {p},
           \/ Begin(p) \/ Load(p) \/ Adopt(p) \/ PutSteps(p) \/ Commit(p)
           \/ Mirror(p) \/ Others(p) \/ Reads(p) \/ Abandon(p)
    PROVE  pc'[q] = pc[q] /\ call'[q] = call[q] /\ held'[q] = held[q] /\ carried'[q] = carried[q]
<1> DEFINE Same == /\ pc'[q] = pc[q] /\ call'[q] = call[q]
                   /\ held'[q] = held[q] /\ carried'[q] = carried[q]
<1>0. ASSUME NEW r, Return(p, r) PROVE Same
    BY <1>0 DEF Return, Goto, TInv, TypeOK
<1>1. Fail(p) \/ Reads(p) \/ Abandon(p) => Same
    BY <1>0 DEF Fail, Reads, GetLive, GetBlob, GetNothing, Abandon
<1>2. Begin(p) => Same
    BY DEF Begin, Request, Goto, TInv, TypeOK
<1>3. Load(p) => Same
    BY DEF Load, Goto, TInv, TypeOK
<1>4. Adopt(p) => Same
    BY <1>1 DEF Adopt, AdoptRead, AdoptBlob, AdoptMeta, Goto, TInv, TypeOK
<1>5. PutSteps(p) => Same
    BY <1>1 DEF PutSteps, ResolveToken, RejectStale, RefuseBlob, PutBlob, WriteBlob, Prune,
                Goto, TInv, TypeOK
<1>6. Commit(p) => Same
    BY <1>0, <1>1 DEF Commit, LoseMeta, SaveMeta, WriteMeta, Goto, TInv, TypeOK
<1>7. Mirror(p) => Same
    BY <1>0, <1>1 DEF Mirror, MirrorRead, MirrorPut, AfterMirror, LoseMirror, Goto, TInv, TypeOK
<1>8. Others(p) => Same
    BY <1>1 DEF Others, DeleteRead, DeleteLive, UndeleteRead, Destroy, RefuseDestroy,
                Goto, TInv, TypeOK
<1> QED
    BY <1>1, <1>2, <1>3, <1>4, <1>5, <1>6, <1>7, <1>8

\* So a call that does not move keeps what it has established.
LEMMA OthersInv ==
    ASSUME IInv, Kept, NEW q \in Procs,
           pc'[q] = pc[q], call'[q] = call[q], held'[q] = held[q], carried'[q] = carried[q],
           meta' \in Meta
    PROVE  CallInv(q)'
<1>1. /\ CallInv(q) /\ ControlAt(q) /\ held[q] \in Meta /\ meta \in Meta
      /\ Len(meta.vers) \in Nat /\ Len(meta'.vers) \in Nat /\ Len(held[q].vers) \in Nat
    BY DEF IInv, TInv, TypeOK, ControlOK, Meta
<1>2. Shape(held[q])' /\ Len(held'[q].vers) <= Len(meta'.vers)
    BY <1>1 DEF CallInv, Shape, Kept
<1>3. ASSUME pc[q] \in {"prune", "save"}, call[q].op = "put", Len(meta'.vers) = Len(held[q].vers)
      PROVE  blob'[Len(held[q].vers) + 1] = call[q].data
    <2>1. Len(meta.vers) = Len(held[q].vers) /\ blob[Len(held[q].vers) + 1] = call[q].data
        BY <1>1, <1>3 DEF Kept, CallInv
    <2>2. Len(held[q].vers) + 1 \in 1..MaxN /\ call[q].data # NoData
        BY <1>1, <1>3, NextVersionShape, FileLogAssumption DEF ControlAt, CallInv
    <2> QED
        BY <1>1, <2>1, <2>2 DEF Kept
<1>4. ASSUME pc[q] = "adoptMeta", meta'.vers = <<>>
      PROVE  blob'[1] = carried[q]
    <2>1. Len(meta'.vers) = 0
        BY <1>4
    <2>2. Len(meta.vers) = 0
        BY <1>1, <2>1 DEF Kept
    <2>3. meta.vers = <<>>
        BY <1>1, <2>2 DEF Meta
    <2>4. 1 \in 1..MaxN /\ blob[1] = carried[q] /\ carried[q] # NoData
        BY <1>1, <1>4, <2>3, FileLogAssumption DEF CallInv, ControlAt
    <2> QED
        BY <1>1, <2>2, <2>4 DEF Kept
<1> QED
    BY <1>1, <1>2, <1>3, <1>4 DEF CallInv

-----------------------------------------------------------------------------
(* The invariant *)

LEMMA InitIInv ==
    ASSUME Init, "destroy" \notin MutatingOps
    PROVE  IInv
<1>1. TInv
    BY InitTInv
<1>2. Shape(EmptyMeta) /\ Len(EmptyMeta.vers) = 0
    BY DEF Shape, EmptyMeta
<1>3. NewestReadable
    BY DEF Init, NewestReadable, EmptyMeta
<1>4. ASSUME NEW p \in Procs PROVE CallInv(p)
    BY <1>2 DEF Init, CallInv, NoCall
<1> QED
    BY <1>1, <1>2, <1>3, <1>4 DEF IInv, Init

\* The step of p leaves p with what it must have established.
LEMMA OwnInv ==
    ASSUME MaxVersions >= 2, "destroy" \notin MutatingOps, IInv, TInv', Kept, NEW p \in Procs,
           \/ Begin(p) \/ Load(p) \/ Adopt(p) \/ PutSteps(p) \/ Commit(p)
           \/ Mirror(p) \/ Others(p) \/ Reads(p) \/ Abandon(p)
    PROVE  CallInv(p)'
<1>1. /\ CallInv(p) /\ ControlAt(p) /\ held[p] \in Meta /\ meta \in Meta /\ meta' \in Meta
      /\ Len(meta.vers) \in Nat /\ Len(meta'.vers) \in Nat /\ Len(held[p].vers) \in Nat
      /\ pc \in [Procs -> PC] /\ call \in [Procs -> Call] /\ held \in [Procs -> Meta]
      /\ carried \in [Procs -> MaybeData] /\ blob \in [1..MaxN -> MaybeData]
    BY DEF IInv, TInv, TypeOK, ControlOK, Meta
<1>2. Shape(EmptyMeta) /\ Len(EmptyMeta.vers) = 0
    BY DEF Shape, EmptyMeta
<1>3. ASSUME NEW r, Return(p, r) PROVE CallInv(p)'
    <2>1. pc'[p] = "idle" /\ call'[p] = NoCall /\ held'[p] = EmptyMeta
        BY <1>1, <1>3 DEF Return, Goto
    <2> QED
        BY <1>1, <1>2, <2>1 DEF CallInv, NoCall, Shape
<1>4. CASE Fail(p) \/ Reads(p) \/ Abandon(p)
    BY <1>3, <1>4 DEF Fail, Reads, GetLive, GetBlob, GetNothing, Abandon
<1>5. CASE Begin(p)
    <2>1. PICK c : Request(p, c) /\ c.op # "destroy"
        <3>1. PICK op, w, d, n : Request(p, Asking(op, w, d, n)) /\ op # "destroy"
            BY <1>5 DEF Begin
        <3>2. Asking(op, w, d, n).op = op
            BY DEF Asking
        <3> QED
            BY <3>1, <3>2
    <2>2. pc'[p] = "load" /\ call'[p] = c /\ held'[p] = held[p] /\ meta' = meta
        BY <1>1, <2>1 DEF Request, Goto, objects
    <2> QED
        BY <1>1, <2>1, <2>2 DEF CallInv, Shape
<1>6. CASE Load(p)
    <2>1. pc'[p] \in {"adopt", "ready"} /\ call' = call /\ held'[p] = meta /\ meta' = meta
        BY <1>1, <1>6 DEF Load, Goto, objects
    <2> QED
        BY <1>1, <2>1 DEF CallInv, Shape, IInv
<1>7. CASE /\ call' = call /\ held' = held /\ meta' = meta
           /\ pc'[p] \in {"ready", "adoptBlob", "load"}
    BY <1>1, <1>7 DEF CallInv, Shape
<1>8. CASE Adopt(p)
    <2>1. CASE AdoptRead(p)
        BY <1>1, <1>7, <2>1 DEF AdoptRead, Goto, objects
    <2>2. CASE AdoptBlob(p) /\ ~Fail(p)
        <3>1. /\ pc'[p] = "adoptMeta" /\ call' = call /\ held' = held /\ meta' = meta
              /\ carried' = carried /\ blob' = [blob EXCEPT ![1] = carried[p]] /\ 1 \in 1..MaxN
            BY <1>1, <2>2, FileLogAssumption DEF AdoptBlob, Goto
        <3> QED
            BY <1>1, <3>1 DEF CallInv, Shape
    <2>3. CASE AdoptMeta(p) /\ ~Fail(p)
        <3>1. pc'[p] = "load" /\ call' = call /\ held' = held
            BY <1>1, <2>3 DEF AdoptMeta, Goto
        <3> QED
            BY <1>1, <3>1 DEF CallInv, Shape, Kept
    <2> QED
        BY <1>4, <1>8, <2>1, <2>2, <2>3 DEF Adopt
<1>9. CASE PutSteps(p)
    <2>1. CASE ResolveToken(p) /\ ~Fail(p)
        <3>1. /\ pc'[p] = "ready" /\ call'[p].op = call[p].op /\ held' = held /\ meta' = meta
            BY <1>1, <2>1 DEF ResolveToken, objects, Call
        <3> QED
            BY <1>1, <3>1 DEF CallInv, Shape
    <2>2. CASE PutBlob(p)
        <3>1. /\ pc'[p] \in {"prune", "save"} /\ call' = call /\ held' = held /\ meta' = meta
              /\ blob' = [blob EXCEPT ![NextVersion(held[p])] = call[p].data]
              /\ call[p].op = "put" /\ NextVersion(held[p]) \in 1..MaxN
            BY <1>1, <2>2, NextVersionType DEF PutBlob, AtPutBlob, WriteBlob, Goto
        <3>2. NextVersion(held[p]) = Len(held[p].vers) + 1
            BY <1>1, NextVersionShape DEF CallInv
        <3> QED
            BY <1>1, <3>1, <3>2 DEF CallInv, Shape
    <2>3. CASE Prune(p)
        <3>1. /\ pc[p] = "prune" /\ pc'[p] = "save" /\ call' = call /\ held' = held /\ meta' = meta
              /\ call[p].op = "put"
            BY <1>1, <2>3 DEF Prune, Goto, ControlAt
        <3>2. ASSUME Len(meta.vers) = Len(held[p].vers)
              PROVE  blob'[Len(held[p].vers) + 1] = call[p].data
            <4>1. Len(held[p].vers) + 1 \in 1..MaxN /\ call[p].data # NoData
                BY <1>1, <3>1, NextVersionShape, FileLogAssumption DEF ControlAt, CallInv
            <4> QED
                BY <1>1, <3>1, <3>2, <4>1 DEF CallInv, Kept
        <3> QED
            BY <1>1, <3>1, <3>2 DEF CallInv, Shape
    <2> QED
        BY <1>4, <1>9, <2>1, <2>2, <2>3 DEF PutSteps, RejectStale, RefuseBlob
<1>10. CASE Commit(p)
    <2>1. CASE SaveMeta(p) /\ call[p].op = "put"
        <3>1. pc'[p] = "mirror" /\ call' = call /\ held' = held
            BY <1>1, <2>1 DEF SaveMeta, WriteMeta, Goto
        <3> QED
            BY <1>1, <2>1, <3>1 DEF CallInv, Shape, Kept
    <2> QED
        BY <1>3, <1>4, <1>10, <2>1 DEF Commit, LoseMeta, SaveMeta, WriteMeta
<1>11. CASE Mirror(p)
    <2>1. CASE MirrorRead(p)
        <3>1. /\ pc[p] = "mirror" /\ pc'[p] = "mirrorPut"
              /\ call' = call /\ held' = held /\ meta' = meta
            BY <1>1, <2>1 DEF MirrorRead, Goto, objects
        <3> QED
            BY <1>1, <3>1 DEF CallInv, Shape
    <2>2. CASE MirrorPut(p) /\ call[p].op = "undelete"
        <3>1. /\ pc[p] = "mirrorPut" /\ pc'[p] = "save"
              /\ call' = call /\ held' = held /\ meta' = meta
            BY <1>1, <2>2 DEF MirrorPut, AfterMirror, Goto
        <3> QED
            BY <1>1, <2>2, <3>1 DEF CallInv, Shape
    <2> QED
        BY <1>3, <1>4, <1>11, <2>1, <2>2 DEF Mirror, LoseMirror, MirrorPut, AfterMirror
<1>12. CASE Others(p)
    <2>1. CASE DeleteRead(p)
        <3>1. /\ pc'[p] \in {"save", "unmirror"} /\ call' = call /\ held' = held /\ meta' = meta
              /\ call[p].op = "delete" /\ held[p].current # 0
            BY <1>1, <2>1 DEF DeleteRead, Goto, objects
        <3> QED
            BY <1>1, <3>1 DEF CallInv, Shape
    <2>2. CASE DeleteLive(p) /\ ~Fail(p)
        <3>1. /\ pc[p] = "unmirror" /\ pc'[p] = "save" /\ call[p].op = "delete"
              /\ call' = call /\ held' = held /\ meta' = meta
            BY <1>1, <2>2 DEF DeleteLive, Goto, ControlAt
        <3> QED
            BY <1>1, <3>1 DEF CallInv, Shape
    <2>3. CASE UndeleteRead(p) /\ ~Fail(p)
        <3>1. /\ pc'[p] = "mirror" /\ call' = call /\ held' = held /\ meta' = meta
              /\ call[p].op = "undelete" /\ Best(held[p]) # 0
            BY <1>1, <2>3 DEF UndeleteRead, Goto, objects
        <3>2. held[p].vers # <<>>
            BY <1>1, <3>1, BestType DEF Retained
        <3> QED
            BY <1>1, <3>1, <3>2 DEF CallInv, Shape
    <2>4. ~Destroy(p)
        BY <1>1 DEF Destroy, MayDestroy, CallInv
    <2> QED
        BY <1>4, <1>12, <2>1, <2>2, <2>3, <2>4 DEF Others, RefuseDestroy
<1> QED
    BY <1>4, <1>5, <1>6, <1>8, <1>9, <1>10, <1>11, <1>12

LEMMA StepIInv ==
    ASSUME MaxVersions >= 2, "destroy" \notin MutatingOps, IInv, [Next]_vars
    PROVE  IInv'
<1>1. TInv'
    BY StepTInv DEF IInv
<1>2. CASE UNCHANGED vars
    <2>1. NewestReadable' /\ Shape(meta)'
        BY <1>2 DEF IInv, vars, NewestReadable, Retained, Shape
    <2>2. ASSUME NEW q \in Procs PROVE CallInv(q)'
        BY <1>2 DEF IInv, vars, CallInv, Shape
    <2> QED
        BY <1>1, <2>1, <2>2 DEF IInv
<1> SUFFICES ASSUME NEW p \in Procs,
                    \/ Begin(p) \/ Load(p) \/ Adopt(p) \/ PutSteps(p) \/ Commit(p)
                    \/ Mirror(p) \/ Others(p) \/ Reads(p) \/ Abandon(p)
             PROVE  IInv'
    BY <1>2 DEF Next
<1>3. Kept
    BY StepKept
<1>4. /\ meta \in Meta /\ meta' \in Meta /\ Len(meta.vers) \in Nat /\ Len(meta'.vers) \in Nat
      /\ call[p] \in Call /\ held[p] \in Meta /\ Bounded(meta) /\ ControlAt(p) /\ CallInv(p)
    BY <1>1 DEF IInv, TInv, TypeOK, ControlOK, Meta
<1>5. \A q \in Procs : CallInv(q)'
    BY <1>1, <1>3, <1>4, StepLocal, OthersInv, OwnInv DEF IInv
<1>6. ASSUME NEW m \in Meta, m.vers # <<>>, ~m.vers[Len(m.vers)].destroyed
      PROVE  Len(m.vers) \in Retained(m.vers) /\ Len(m.vers) \in Nat \ {0}
    <2>1. Len(m.vers) \in Nat \ {0}
        BY <1>6 DEF Meta
    <2> QED
        BY <1>6, <2>1 DEF Retained, Meta
<1>7. CASE UNCHANGED meta
    <2>1. Shape(meta)'
        BY <1>7 DEF IInv, Shape
    <2>2. ASSUME meta.vers # <<>> PROVE blob'[Len(meta.vers)] = meta.vers[Len(meta.vers)].data
        <3>1. Len(meta.vers) \in 1..MaxN
            BY <1>4, <1>6, <2>2 DEF IInv, Shape, Bounded
        <3>2. meta.vers[Len(meta.vers)] \in VersionInfo
            BY <1>4, <3>1, ElementOfSeq DEF Meta
        <3>3. blob[Len(meta.vers)] # NoData
            BY <2>2, <3>2, FileLogAssumption DEF IInv, NewestReadable, VersionInfo
        <3> QED
            BY <1>3, <1>4, <2>2, <3>1, <3>3 DEF Kept, IInv, NewestReadable
    <2> QED
        BY <1>1, <1>5, <1>7, <2>1, <2>2 DEF IInv, NewestReadable
<1>8. CASE SaveMeta(p)
    <2>1. /\ meta = held[p] /\ meta' = NewMeta(meta, call[p]) /\ UNCHANGED blob /\ pc[p] = "save"
        BY <1>8 DEF SaveMeta, WriteMeta
    <2>2. /\ call[p].op \in {"put", "delete", "undelete"}
          /\ call[p].op = "put" => call[p].data \in Data
          /\ call[p].op = "delete" => meta.current # 0
          /\ call[p].op = "undelete" => meta.vers # <<>>
        BY <1>4, <2>1 DEF ControlAt, CallInv
    <2>3. /\ Shape(meta') /\ meta'.vers # <<>>
          /\ call[p].op = "put" => /\ Len(meta'.vers) = Len(meta.vers) + 1
                                   /\ meta'.vers[Len(meta.vers) + 1].data = call[p].data
          /\ call[p].op # "put" => /\ Len(meta'.vers) = Len(meta.vers)
                                   /\ meta'.vers[Len(meta.vers)].data = meta.vers[Len(meta.vers)].data
        BY <1>4, <2>1, <2>2, SavedShape DEF CallInv
    <2>4. blob'[Len(meta'.vers)] = meta'.vers[Len(meta'.vers)].data
        <3>1. CASE call[p].op = "put"
            BY <1>4, <2>1, <2>3, <3>1 DEF CallInv
        <3>2. CASE call[p].op # "put"
            <4>1. meta.vers # <<>>
                BY <1>4, <2>3, <3>2 DEF Meta
            <4> QED
                BY <2>1, <2>3, <3>2, <4>1 DEF IInv, NewestReadable
        <3> QED
            BY <3>1, <3>2
    <2>5. Len(meta'.vers) \in Retained(meta'.vers)
        BY <1>4, <1>6, <2>3 DEF Shape
    <2> QED
        BY <1>1, <1>5, <2>3, <2>4, <2>5 DEF IInv, NewestReadable, Shape
<1>9. CASE AdoptMeta(p) /\ ~UNCHANGED meta
    <2>1. /\ pc[p] = "adoptMeta" /\ meta = EmptyMeta /\ UNCHANGED blob
          /\ meta' = [current |-> 1, vers |-> <<NewVersion(carried[p])>>]
        BY <1>4, <1>9 DEF AdoptMeta, Fail, objects, ControlAt
    <2>2. Len(meta'.vers) = 1 /\ meta'.vers[1] = NewVersion(carried[p]) /\ meta'.current = 1
        BY <2>1
    <2>3. meta.vers = <<>>
        BY <2>1 DEF EmptyMeta
    <2>4. Shape(meta') /\ ~meta'.vers[1].destroyed /\ meta'.vers[1].data = carried[p]
        BY <2>2 DEF Shape, NewVersion
    <2>5. blob'[1] = carried[p]
        BY <1>4, <2>1, <2>3 DEF CallInv
    <2>6. meta'.vers # <<>>
        BY <2>2
    <2>7. Len(meta'.vers) \in Retained(meta'.vers)
        BY <1>4, <1>6, <2>2, <2>4, <2>6
    <2> QED
        BY <1>1, <1>5, <2>2, <2>4, <2>5, <2>7 DEF IInv, NewestReadable, Shape
<1> QED
    BY <1>7, <1>8, <1>9
    DEF Begin, Request, Load, Adopt, AdoptRead, AdoptBlob, PutSteps, ResolveToken, RejectStale,
        RefuseBlob, PutBlob, WriteBlob, Prune, Commit, LoseMeta, Mirror, MirrorRead, MirrorPut,
        AfterMirror, LoseMirror, Others, DeleteRead, DeleteLive, UndeleteRead, Destroy, RefuseDestroy,
        Reads, GetLive, GetBlob, GetNothing, Abandon, Fail, objects

\* Whatever calls of however many replicas race, and wherever they are cut
\* short, the newest version stays retained and readable with the content it
\* was committed with (NewestReadable).
THEOREM NewestIsReadable ==
    ASSUME MaxVersions >= 2, "destroy" \notin MutatingOps
    PROVE  Spec => []NewestReadable
<1>1. Init => IInv
    BY InitIInv
<1>2. IInv /\ [Next]_vars => IInv'
    BY StepIInv
<1>3. IInv => NewestReadable
    BY DEF IInv
<1> QED
    BY <1>1, <1>2, <1>3, PTL DEF Spec

-----------------------------------------------------------------------------
(* The history of a path *)


Step(p) == \/ Begin(p) \/ Load(p) \/ Adopt(p) \/ PutSteps(p) \/ Commit(p)
           \/ Mirror(p) \/ Others(p) \/ Reads(p) \/ Abandon(p)

\* Every version of m is in r, with its content, and destroyed if it was.
Continues(m, r) ==
    \A n \in DOMAIN m.vers :
        /\ n \in DOMAIN r.vers
        /\ r.vers[n].data = m.vers[n].data
        /\ m.vers[n].destroyed => r.vers[n].destroyed

\* A mark on one entry changes no content and destroys nothing.
LEMMA MarkContinues ==
    ASSUME NEW m \in Meta, NEW i, NEW b \in BOOLEAN, NEW c,
           NEW r, r = [current |-> c, vers |-> [m.vers EXCEPT ![i].deleted = b]]
    PROVE  Continues(m, r)
<1>1. m.vers \in Seq(VersionInfo) /\ DOMAIN m.vers = 1..Len(m.vers)
    BY LenProperties DEF Meta
<1>2. r.vers = [m.vers EXCEPT ![i] = [m.vers[i] EXCEPT !.deleted = b]]
    OBVIOUS
<1>3. ASSUME NEW n \in DOMAIN m.vers
      PROVE  r.vers[n].data = m.vers[n].data /\ r.vers[n].destroyed = m.vers[n].destroyed
    <2>1. m.vers[n] \in VersionInfo
        BY <1>1, ElementOfSeq
    <2>2. CASE n = i
        <3>1. r.vers[n] = [m.vers[n] EXCEPT !.deleted = b]
            BY <1>1, <1>2, <2>2
        <3> QED
            BY <2>1, <3>1 DEF VersionInfo
    <2>3. CASE n # i
        BY <1>1, <1>2, <2>3
    <2> QED
        BY <2>2, <2>3
<1>4. DOMAIN r.vers = DOMAIN m.vers
    BY <1>2
<1> QED
    BY <1>3, <1>4 DEF Continues

LEMMA SaveContinues ==
    ASSUME NEW m \in Meta, Shape(m), NEW c, c.op \in {"put", "delete", "undelete"},
           c.op = "put" => c.data \in Data
    PROVE  Continues(m, NewMeta(m, c))
<1>1. m.vers \in Seq(VersionInfo) /\ DOMAIN m.vers = 1..Len(m.vers) /\ Len(m.vers) \in Nat
    BY LenProperties DEF Meta
<1>2. CASE c.op = "put"
    <2> DEFINE a == AddVersion(m, c.data)
    <2>1. a \in Meta /\ a.vers = Append(m.vers, NewVersion(c.data)) /\ Len(a.vers) = Len(m.vers) + 1
        BY <1>2, AddVersionType, AddVersionShape
    <2>2. NewVersion(c.data) \in VersionInfo
        BY <1>2 DEF NewVersion, VersionInfo
    <2>3. ASSUME NEW n \in DOMAIN m.vers
          PROVE  /\ n \in DOMAIN Pruned(a).vers
                 /\ Pruned(a).vers[n].data = m.vers[n].data
                 /\ m.vers[n].destroyed => Pruned(a).vers[n].destroyed
        <3>1. n \in DOMAIN a.vers /\ a.vers[n] = m.vers[n]
            BY <1>1, <2>1, <2>2
        <3>2. Pruned(a).vers[n].data = a.vers[n].data
              /\ Pruned(a).vers[n].destroyed = (a.vers[n].destroyed \/ n \in Dropped(a))
            BY <2>1, <3>1, PrunedEntry
        <3>3. DOMAIN Pruned(a).vers = DOMAIN a.vers
            BY DEF Pruned
        <3> QED
            BY <3>1, <3>2, <3>3
    <2>4. NewMeta(m, c) = Pruned(a)
        BY <1>2 DEF NewMeta
    <2> QED
        BY <2>3, <2>4 DEF Continues
<1>3. CASE c.op = "delete"
    <2>1. NewMeta(m, c) = [current |-> 0, vers |-> [m.vers EXCEPT ![m.current].deleted = TRUE]]
        BY <1>3 DEF NewMeta
    <2> QED
        BY <2>1, MarkContinues
<1>4. CASE c.op = "undelete"
    <2>1. NewMeta(m, c) = [current |-> Best(m), vers |-> [m.vers EXCEPT ![Best(m)].deleted = FALSE]]
        BY <1>4 DEF NewMeta
    <2> QED
        BY <2>1, MarkContinues
<1> QED
    BY <1>2, <1>3, <1>4

\* The only steps that write metadata are the commit points.
LEMMA MetaSteps ==
    ASSUME NEW p \in Procs, Step(p)
    PROVE  UNCHANGED meta \/ SaveMeta(p) \/ (AdoptMeta(p) /\ ~Fail(p))
BY DEF Step, Begin, Request, Load, Adopt, AdoptRead, AdoptBlob, AdoptMeta, PutSteps, ResolveToken,
       RejectStale, RefuseBlob, PutBlob, WriteBlob, Prune, Commit, LoseMeta, Mirror, MirrorRead,
       MirrorPut, AfterMirror, LoseMirror, Others, DeleteRead, DeleteLive, UndeleteRead, Destroy,
       RefuseDestroy, Reads, GetLive, GetBlob, GetNothing, Abandon, Fail, objects

LEMMA SaveStep ==
    ASSUME IInv, NEW p \in Procs, SaveMeta(p)
    PROVE  /\ meta = held[p] /\ meta' = NewMeta(meta, call[p]) /\ UNCHANGED blob
           /\ call[p].op \in {"put", "delete", "undelete"}
           /\ call[p].op = "put" =>
                /\ call[p].data \in Data
                /\ pc' = [pc EXCEPT ![p] = "mirror"] /\ UNCHANGED <<call, held, reply>>
           /\ call[p].op = "delete" => meta.current # 0
           /\ call[p].op = "undelete" => meta.vers # <<>>
<1>1. meta = held[p] /\ meta' = NewMeta(meta, call[p]) /\ UNCHANGED blob /\ pc[p] = "save"
    BY DEF SaveMeta, WriteMeta
<1>2. ControlAt(p) /\ CallInv(p)
    BY DEF IInv, TInv, ControlOK
<1> QED
    BY <1>1, <1>2 DEF ControlAt, CallInv, SaveMeta, WriteMeta, Goto

LEMMA AdoptStep ==
    ASSUME IInv, NEW p \in Procs, AdoptMeta(p), ~Fail(p)
    PROVE  /\ meta = EmptyMeta /\ UNCHANGED <<blob, call, held, reply>>
           /\ pc' = [pc EXCEPT ![p] = "load"]
           /\ meta' = [current |-> 1, vers |-> <<NewVersion(carried[p])>>]
           /\ carried[p] \in Data
<1>1. pc[p] = "adoptMeta" /\ ControlAt(p)
    BY DEF AdoptMeta, IInv, TInv, ControlOK
<1> QED
    BY <1>1 DEF ControlAt, AdoptMeta, Goto

LEMMA StepContinues ==
    ASSUME IInv, NEW p \in Procs, Step(p)
    PROVE  Continues(meta, meta')
<1>1. CASE UNCHANGED meta
    BY <1>1 DEF Continues
<1>2. CASE SaveMeta(p)
    BY <1>2, SaveStep, SaveContinues DEF IInv, TInv, TypeOK
<1>3. CASE AdoptMeta(p) /\ ~Fail(p)
    <2>1. meta = EmptyMeta
        BY <1>3, AdoptStep
    <2> QED
        BY <2>1 DEF Continues, EmptyMeta
<1> QED
    BY <1>1, <1>2, <1>3, MetaSteps

\* No call of any replica loses a version another committed, rewrites its
\* content, or brings back one that was pruned (HistoryKept).
THEOREM HistoryIsKept ==
    ASSUME MaxVersions >= 2, "destroy" \notin MutatingOps
    PROVE  Spec => HistoryKept
<1>1. Init => IInv
    BY InitIInv
<1>2. IInv /\ [Next]_vars => IInv'
    BY StepIInv
<1>3. IInv /\ [Next]_vars => [Continues(meta, meta')]_meta
    BY StepContinues DEF Next, Step, vars
<1> QED
    BY <1>1, <1>2, <1>3, PTL DEF Spec, HistoryKept, Continues

-----------------------------------------------------------------------------
(* Acknowledged puts *)

\* Version n of the log is there, with content d.
Has(n, d) == n \in DOMAIN meta.vers /\ meta.vers[n].data = d

\* A put past its commit point is in the history, though it has not answered yet.
PutCommitted(p) ==
    pc[p] \in {"mirror", "mirrorPut"} /\ call[p].op = "put" =>
        Has(NextVersion(held[p]), call[p].data)

PutAnswered(p) == reply[p].op = "put" /\ reply[p].ok => Has(reply[p].ver, reply[p].data)

AckInv == IInv /\ \A p \in Procs : PutCommitted(p) /\ PutAnswered(p)

\* What was in the history still is after a step that continues it.
LEMMA HasKept ==
    ASSUME Continues(meta, meta'), NEW n, NEW d, Has(n, d)
    PROVE  Has(n, d)'
BY DEF Continues, Has

LEMMA ReplyLocal ==
    ASSUME TInv, NEW p \in Procs, NEW q \in Procs \ {p}, Step(p)
    PROVE  reply'[q] = reply[q]
<1>0. ASSUME NEW r, Return(p, r) PROVE reply'[q] = reply[q]
    BY <1>0 DEF Return, TInv, TypeOK
<1>1. Fail(p) \/ Reads(p) \/ Abandon(p) => reply'[q] = reply[q]
    BY <1>0 DEF Fail, Reads, GetLive, GetBlob, GetNothing, Abandon
<1>2. CASE Begin(p)
    BY <1>2 DEF Begin, Request, TInv, TypeOK
<1> QED
    BY <1>0, <1>1, <1>2
    DEF Step, Load, Adopt, AdoptRead, AdoptBlob, AdoptMeta, PutSteps, ResolveToken, RejectStale,
        RefuseBlob, PutBlob, WriteBlob, Prune, Commit, SaveMeta, WriteMeta, LoseMeta, Mirror,
        MirrorRead, MirrorPut, AfterMirror, LoseMirror, Others, DeleteRead, DeleteLive,
        UndeleteRead, Destroy, RefuseDestroy

\* p either says nothing new, or answers something that is not a put, or
\* answers the put it committed.
LEMMA AnswerOf ==
    ASSUME TInv, NEW p \in Procs, Step(p)
    PROVE  \/ reply'[p] = reply[p]
           \/ ~(reply'[p].op = "put" /\ reply'[p].ok)
           \/ /\ pc[p] = "mirrorPut" /\ call[p].op = "put" /\ UNCHANGED meta
              /\ reply'[p] = Success(p, NextVersion(held[p]), call[p].data)
<1> DEFINE Silent == \/ reply'[p] = reply[p]
                     \/ ~(reply'[p].op = "put" /\ reply'[p].ok)
<1>0. ASSUME NEW r, Return(p, r) PROVE reply'[p] = r
    BY <1>0 DEF Return, TInv, TypeOK
<1>1. ~Failure(p).ok /\ ~NoReply.ok
    BY DEF Failure, NoReply
<1>2. ASSUME NEW v, NEW d PROVE Success(p, v, d).op = call[p].op
    BY DEF Success
<1>3. Fail(p) \/ Abandon(p) => Silent
    BY <1>0, <1>1 DEF Fail, Abandon
<1>4. CASE Reads(p)
    <2>1. CASE GetLive(p)
        BY <1>0, <1>1, <1>2, <2>1 DEF GetLive
    <2>2. CASE GetBlob(p)
        BY <1>0, <1>1, <1>2, <2>2 DEF GetBlob
    <2> QED
        BY <1>3, <1>4, <2>1, <2>2 DEF Reads, GetNothing
<1>5. CASE Begin(p)
    <2>1. reply'[p] = NoReply
        BY <1>5 DEF Begin, Request, TInv, TypeOK
    <2> QED
        BY <1>1, <2>1
<1>6. CASE SaveMeta(p)
    BY <1>0, <1>2, <1>6 DEF SaveMeta, WriteMeta
<1>7. CASE MirrorPut(p)
    BY <1>0, <1>2, <1>7 DEF MirrorPut, AfterMirror
<1> QED
    BY <1>3, <1>4, <1>5, <1>6, <1>7
    DEF Step, Load, Adopt, AdoptRead, AdoptBlob, AdoptMeta, PutSteps, ResolveToken, RejectStale,
        RefuseBlob, PutBlob, WriteBlob, Prune, Commit, LoseMeta, Mirror,
        MirrorRead, LoseMirror, Others, DeleteRead, DeleteLive,
        UndeleteRead, Destroy, RefuseDestroy

LEMMA CommitOf ==
    ASSUME IInv, NEW p \in Procs, Step(p), pc'[p] \in {"mirror", "mirrorPut"}, call'[p].op = "put"
    PROVE  \/ SaveMeta(p) /\ call[p].op = "put"
           \/ /\ pc[p] = "mirror" /\ call[p].op = "put" /\ UNCHANGED <<call, held>>
<1>0. ASSUME NEW r, Return(p, r) PROVE FALSE
    BY <1>0 DEF Return, Goto, IInv, TInv, TypeOK
<1>1. ~Fail(p) /\ ~Reads(p) /\ ~Abandon(p)
    BY <1>0 DEF Fail, Reads, GetLive, GetBlob, GetNothing, Abandon
<1>2. ~Begin(p) /\ ~Load(p) /\ ~Adopt(p) /\ ~PutSteps(p)
    BY <1>1 DEF Begin, Request, Load, Adopt, AdoptRead, AdoptBlob, AdoptMeta, PutSteps,
                ResolveToken, RejectStale, RefuseBlob, PutBlob, WriteBlob, Prune, Goto,
                IInv, TInv, TypeOK
<1>3. ~Others(p)
    BY <1>1 DEF Others, DeleteRead, DeleteLive, UndeleteRead, Destroy, RefuseDestroy, Goto,
                IInv, TInv, TypeOK
<1>4. CASE Commit(p)
    BY <1>0, <1>1, <1>4 DEF Commit, LoseMeta, SaveMeta, WriteMeta
<1>5. CASE Mirror(p)
    BY <1>0, <1>1, <1>5 DEF Mirror, MirrorRead, MirrorPut, AfterMirror, LoseMirror, Goto,
                            IInv, TInv, TypeOK
<1> QED
    BY <1>1, <1>2, <1>3, <1>4, <1>5 DEF Step

LEMMA StepAck ==
    ASSUME MaxVersions >= 2, "destroy" \notin MutatingOps, AckInv, [Next]_vars
    PROVE  AckInv'
<1>1. IInv'
    BY StepIInv DEF AckInv
<1>2. CASE UNCHANGED vars
    BY <1>1, <1>2 DEF vars, AckInv, PutCommitted, PutAnswered, Has, NextVersion
<1> SUFFICES ASSUME NEW p \in Procs, Step(p), NEW q \in Procs
             PROVE  (PutCommitted(q) /\ PutAnswered(q))'
    BY <1>1, <1>2 DEF Next, Step, AckInv
<1>3. Continues(meta, meta') /\ IInv /\ TInv
    BY StepContinues DEF AckInv, IInv
<1>4. ASSUME NEW n, NEW d, Has(n, d) PROVE Has(n, d)'
    BY <1>3, <1>4, HasKept
<1>5. CASE q # p
    <2>1. pc'[q] = pc[q] /\ call'[q] = call[q] /\ held'[q] = held[q] /\ reply'[q] = reply[q]
        BY <1>3, <1>5, StepLocal, ReplyLocal DEF Step
    <2>2. PutCommitted(q) /\ PutAnswered(q)
        BY DEF AckInv
    <2>3. PutCommitted(q)'
        <3>1. NextVersion(held'[q]) = NextVersion(held[q])
            BY <2>1
        <3> QED
            BY <1>4, <2>1, <2>2, <3>1 DEF PutCommitted
    <2>4. PutAnswered(q)'
        BY <1>4, <2>1, <2>2 DEF PutAnswered
    <2> QED
        BY <2>3, <2>4
<1>6. CASE q = p
    <2>1. PutCommitted(p) /\ PutAnswered(p)
        BY DEF AckInv
    <2>2. PutCommitted(p)'
        <3> SUFFICES ASSUME pc'[p] \in {"mirror", "mirrorPut"}, call'[p].op = "put"
                     PROVE  Has(NextVersion(held[p]), call[p].data)'
            BY DEF PutCommitted
        <3>1. CASE SaveMeta(p) /\ call[p].op = "put"
            <4>1. /\ meta = held[p] /\ meta' = NewMeta(meta, call[p]) /\ UNCHANGED <<call, held>>
                  /\ call[p].data \in Data
                BY <1>3, <3>1, SaveStep
            <4>2. Shape(meta) /\ meta \in Meta /\ meta' \in Meta /\ Len(meta.vers) \in Nat
                BY <1>1, <1>3 DEF IInv, TInv, TypeOK, Meta
            <4>3. Len(meta'.vers) = Len(meta.vers) + 1
                  /\ meta'.vers[Len(meta.vers) + 1].data = call[p].data
                BY <3>1, <4>1, <4>2, SavedShape
            <4>4. NextVersion(held[p]) = Len(meta.vers) + 1
                BY <4>1, <4>2, NextVersionShape
            <4>5. Len(meta.vers) + 1 \in DOMAIN meta'.vers
                BY <4>2, <4>3, LenProperties DEF Meta
            <4> QED
                BY <4>1, <4>3, <4>4, <4>5 DEF Has
        <3>2. CASE pc[p] = "mirror" /\ call[p].op = "put" /\ UNCHANGED <<call, held>>
            <4>1. Has(NextVersion(held[p]), call[p].data)
                BY <2>1, <3>2 DEF PutCommitted
            <4> QED
                BY <1>4, <3>2, <4>1
        <3> QED
            BY <1>3, <3>1, <3>2, CommitOf
    <2>3. PutAnswered(p)'
        <3>1. CASE reply'[p] = reply[p]
            BY <1>4, <2>1, <3>1 DEF PutAnswered
        <3>2. CASE ~(reply'[p].op = "put" /\ reply'[p].ok)
            BY <3>2 DEF PutAnswered
        <3>3. CASE /\ pc[p] = "mirrorPut" /\ call[p].op = "put"
                   /\ reply'[p] = Success(p, NextVersion(held[p]), call[p].data)
            <4>1. UNCHANGED meta
                BY <1>3, <3>3, MetaSteps DEF SaveMeta, AdoptMeta
            <4>2. Has(NextVersion(held[p]), call[p].data)
                BY <2>1, <3>3 DEF PutCommitted
            <4>3. reply'[p].ver = NextVersion(held[p]) /\ reply'[p].data = call[p].data
                BY <3>3 DEF Success
            <4> QED
                BY <4>1, <4>2, <4>3 DEF PutAnswered, Has
        <3> QED
            BY <1>3, <3>1, <3>2, <3>3, AnswerOf
    <2> QED
        BY <1>6, <2>2, <2>3
<1> QED
    BY <1>5, <1>6

\* A put that was acknowledged stays in the history with its content: no
\* racing write of another replica took its version (AckedPutStands).
THEOREM AckedPutStays ==
    ASSUME MaxVersions >= 2, "destroy" \notin MutatingOps
    PROVE  Spec => []AckedPutStands
<1>1. Init => AckInv
    BY InitIInv DEF Init, AckInv, PutCommitted, PutAnswered, NoReply
<1>2. AckInv /\ [Next]_vars => AckInv'
    BY StepAck
<1>3. AckInv => AckedPutStands
    BY DEF AckInv, PutAnswered, Has, AckedPutStands
<1> QED
    BY <1>1, <1>2, <1>3, PTL DEF Spec

-----------------------------------------------------------------------------
(* Refinement *)

\* A save is a write, a removal or a restore of the abstract file.
LEMMA SaveRefines ==
    ASSUME IInv, IInv', NEW p \in Procs, SaveMeta(p)
    PROVE  File!Next
<1>1. /\ meta = held[p] /\ meta' = NewMeta(meta, call[p]) /\ UNCHANGED blob
      /\ call[p].op \in {"put", "delete", "undelete"}
      /\ call[p].op = "put" => call[p].data \in Data
      /\ call[p].op = "delete" => meta.current # 0
      /\ call[p].op = "undelete" => meta.vers # <<>>
    BY SaveStep
<1>2. Shape(meta) /\ meta \in Meta /\ meta' \in Meta /\ Len(meta.vers) \in Nat
      /\ DOMAIN meta.vers = 1..Len(meta.vers)
    BY DEF IInv, TInv, TypeOK, Meta
<1>3. CASE call[p].op = "put"
    <2>1. /\ Len(meta'.vers) = Len(meta.vers) + 1 /\ meta'.vers # <<>>
          /\ meta'.vers[Len(meta.vers) + 1].data = call[p].data
        BY <1>1, <1>2, <1>3, SavedShape
    <2>2. meta'.current = Len(meta.vers) + 1
        <3>1. meta' = Pruned(AddVersion(meta, call[p].data))
            BY <1>1, <1>3 DEF NewMeta
        <3> QED
            BY <1>1, <1>2, <1>3, <3>1, AddVersionShape, AddVersionType, PrunedType
    <2>3. blob'[Len(meta'.vers)] = call[p].data
        BY <2>1 DEF IInv, NewestReadable
    <2> QED
        BY <1>1, <1>3, <2>1, <2>2, <2>3 DEF File!Next, File!Write
<1>4. CASE call[p].op = "delete"
    <2>1. meta'.current = 0 /\ meta'.vers = [meta.vers EXCEPT ![meta.current].deleted = TRUE]
        BY <1>1, <1>4 DEF NewMeta
    <2>2. Len(meta'.vers) = Len(meta.vers) /\ meta'.vers # <<>>
        BY <1>1, <1>2, <1>4, SavedShape
    <2>3. meta.vers # <<>>
        BY <1>2, <2>2 DEF Meta
    <2> QED
        BY <1>1, <1>4, <2>1, <2>2, <2>3 DEF File!Next, File!Remove
<1>5. CASE call[p].op = "undelete"
    <2>1. meta'.current = Best(meta)
        BY <1>1, <1>5 DEF NewMeta
    <2>2. Len(meta'.vers) = Len(meta.vers) /\ meta'.vers # <<>> /\ Shape(meta')
        BY <1>1, <1>2, <1>5, SavedShape
    <2>3. Len(meta.vers) # 0 /\ Len(meta.vers) \in Retained(meta.vers)
        BY <1>1, <1>2, <1>5 DEF IInv, NewestReadable, Meta
    <2>4. Best(meta) # 0
        <3>1. \E n \in Retained(meta.vers) : \A k \in Retained(meta.vers) : k <= n
            BY <1>2, <2>3 DEF Retained
        <3> QED
            BY <1>2, <2>3, <3>1 DEF Best, Retained
    <2>5. meta'.current = Len(meta.vers)
        BY <2>1, <2>2, <2>4 DEF Shape
    <2> QED
        BY <1>1, <1>5, <2>2, <2>3, <2>5 DEF File!Next, File!Restore
<1> QED
    BY <1>1, <1>3, <1>4, <1>5

LEMMA AdoptRefines ==
    ASSUME IInv, IInv', NEW p \in Procs, AdoptMeta(p), ~Fail(p)
    PROVE  File!Next
<1>1. /\ meta = EmptyMeta /\ meta' = [current |-> 1, vers |-> <<NewVersion(carried[p])>>]
      /\ carried[p] \in Data
    BY AdoptStep
<1>2. /\ Len(meta.vers) = 0 /\ Len(meta'.vers) = 1 /\ meta'.current = 1 /\ meta'.vers # <<>>
      /\ meta'.vers[1].data = carried[p]
    BY <1>1 DEF EmptyMeta, NewVersion
<1>3. blob'[1] = carried[p]
    BY <1>2 DEF IInv, NewestReadable
<1> QED
    BY <1>1, <1>2, <1>3 DEF File!Next, File!Write

\* Every other step leaves the abstract file as it is.
LEMMA OtherStutters ==
    ASSUME MaxVersions >= 2, IInv, IInv', NEW p \in Procs, Step(p), UNCHANGED meta
    PROVE  UNCHANGED File!vars
<1>1. meta.vers # <<>> => blob'[Len(meta.vers)] = blob[Len(meta.vers)]
    BY DEF IInv, NewestReadable
<1> QED
    BY <1>1 DEF File!vars

\* The path is an atomic register to whoever reads it through its metadata:
\* each put takes effect at its metadata save, and no interleaving or
\* interruption shows anything else (ImplementsAtomicFile).
THEOREM Refines ==
    ASSUME MaxVersions >= 2, "destroy" \notin MutatingOps
    PROVE  Spec => ImplementsAtomicFile
<1>1. Init => IInv /\ File!Init
    BY InitIInv DEF Init, EmptyMeta, File!Init
<1>2. IInv /\ [Next]_vars => IInv'
    BY StepIInv
<1>3. ASSUME IInv, IInv', [Next]_vars PROVE [File!Next]_(File!vars)
    <2>1. CASE UNCHANGED vars
        BY <2>1 DEF vars, File!vars
    <2>2. CASE \E p \in Procs : Step(p)
        BY <1>3, <2>2, MetaSteps, SaveRefines, AdoptRefines, OtherStutters
    <2> QED
        BY <1>3, <2>1, <2>2 DEF Next, Step
<1> QED
    BY <1>1, <1>2, <1>3, PTL DEF Spec, ImplementsAtomicFile, File!Spec

-----------------------------------------------------------------------------
(* Reads *)

\* The body on disk is that of its version, or a call has taken it off the disk: then a put
\* left over from before it may create the blob again.
BodyOrGone(n) == blob[n] = meta.vers[n].data \/ n \in erased

ReadInv ==
    /\ IInv /\ Pairs(meta) \subseteq committed
    /\ \A n \in DOMAIN meta.vers : BodyOrGone(n)
    /\ \A p \in Readers : call[p].op \in ReadOps \cup {"none"}

\* A blob created for a version that is in the history already.
LEMMA CreatedLate ==
    ASSUME ReadInv, NEW n \in DOMAIN meta.vers, blob[n] = NoData
    PROVE  n \in erased
<1>1. meta.vers[n] \in VersionInfo
    <2>1. meta.vers \in Seq(VersionInfo) /\ DOMAIN meta.vers = 1..Len(meta.vers)
        BY LenProperties DEF ReadInv, IInv, TInv, TypeOK, Meta
    <2> QED
        BY <2>1, ElementOfSeq
<1>2. meta.vers[n].data # NoData
    BY <1>1, FileLogAssumption DEF VersionInfo
<1> QED
    BY <1>2 DEF ReadInv, BodyOrGone

\* A body off the disk is remembered.
LEMMA ErasedGrows ==
    ASSUME NEW p \in Procs, Step(p)
    PROVE  erased \subseteq erased'
BY DEF Step, Begin, Request, Load, Adopt, AdoptRead, AdoptBlob, AdoptMeta, PutSteps,
       ResolveToken, RejectStale, RefuseBlob, PutBlob, WriteBlob, Prune, Commit, SaveMeta, WriteMeta,
       LoseMeta, Mirror, MirrorRead, MirrorPut, AfterMirror, LoseMirror, Others, DeleteRead, DeleteLive,
       UndeleteRead, Destroy, RefuseDestroy, Reads, GetLive, GetBlob, GetNothing, Abandon, Fail

LEMMA BodiesStay ==
    ASSUME MaxVersions >= 2, ReadInv, IInv', NEW p \in Procs, Step(p), NEW n \in DOMAIN meta'.vers
    PROVE  BodyOrGone(n)'
<1>1. /\ meta \in Meta /\ meta' \in Meta /\ held[p] \in Meta /\ blob \in [1..MaxN -> MaybeData]
      /\ Len(meta.vers) \in Nat /\ Len(meta'.vers) \in Nat
      /\ DOMAIN meta.vers = 1..Len(meta.vers) /\ DOMAIN meta'.vers = 1..Len(meta'.vers)
      /\ Shape(meta) /\ ControlAt(p) /\ CallInv(p) /\ IInv
    BY LenProperties DEF ReadInv, IInv, TInv, TypeOK, ControlOK, Meta
<1>2. n \in DOMAIN meta.vers => BodyOrGone(n)
    BY DEF ReadInv
<1>3. CASE UNCHANGED meta
    <2> SUFFICES ASSUME blob'[n] # blob[n] PROVE n \in erased'
        BY <1>1, <1>2, <1>3, ErasedGrows DEF BodyOrGone
    <2>1. CASE AdoptBlob(p)
        <3>1. blob[1] = NoData /\ blob' = [blob EXCEPT ![1] = carried[p]]
            BY <2>1 DEF AdoptBlob, Fail, objects
        <3> QED
            BY <1>1, <1>3, <3>1, CreatedLate, ErasedGrows
    <2>2. CASE PutBlob(p)
        <3> DEFINE k == NextVersion(held[p])
        <3>1. blob[k] = NoData /\ blob' = [blob EXCEPT ![k] = call[p].data]
            BY <2>2 DEF PutBlob, WriteBlob
        <3> HIDE DEF k
        <3> QED
            BY <1>1, <1>3, <3>1, CreatedLate, ErasedGrows
    <2>3. CASE Prune(p)
        <3>1. PICK gone \in SUBSET Dropped(AddVersion(held[p], call[p].data)) :
                /\ blob' = [k \in DOMAIN blob |-> IF k \in gone THEN NoData ELSE blob[k]]
                /\ erased' = erased \cup gone
            BY <2>3 DEF Prune
        <3>2. n \in DOMAIN blob
            BY <1>1, <1>3, FileLogAssumption DEF IInv, TInv, Bounded
        <3> QED
            BY <3>1, <3>2
    <2>4. ~Destroy(p)
        BY <1>1 DEF Destroy, MayDestroy, CallInv
    <2> QED
        BY <1>3, <2>1, <2>2, <2>3, <2>4
        DEF Step, Begin, Request, Load, Adopt, AdoptRead, AdoptMeta, PutSteps, ResolveToken,
            RejectStale, RefuseBlob, Commit, SaveMeta, WriteMeta, LoseMeta, Mirror, MirrorRead,
            MirrorPut, AfterMirror, LoseMirror, Others, DeleteRead, DeleteLive, UndeleteRead,
            RefuseDestroy, Reads, GetLive, GetBlob, GetNothing, Abandon, Fail, objects
<1>4. CASE SaveMeta(p)
    <2>1. /\ meta = held[p] /\ meta' = NewMeta(meta, call[p]) /\ UNCHANGED blob
          /\ call[p].op \in {"put", "delete", "undelete"}
          /\ call[p].op = "put" => call[p].data \in Data
          /\ call[p].op = "delete" => meta.current # 0
          /\ call[p].op = "undelete" => meta.vers # <<>>
        BY <1>1, <1>4, SaveStep
    <2>2. Continues(meta, meta')
        BY <1>1, StepContinues
    <2>3. /\ call[p].op = "put" => /\ Len(meta'.vers) = Len(meta.vers) + 1
                                   /\ meta'.vers[Len(meta.vers) + 1].data = call[p].data
          /\ call[p].op # "put" => Len(meta'.vers) = Len(meta.vers)
        <3>1. CASE call[p].op = "put"
            BY <1>1, <2>1, <3>1, SavedShape
        <3>2. CASE call[p].op # "put"
            BY <1>1, <2>1, <3>2, SavedShape
        <3> QED
            BY <3>1, <3>2
    <2>4. CASE n \in DOMAIN meta.vers
        <3>1. meta'.vers[n].data = meta.vers[n].data /\ Len(meta'.vers) >= Len(meta.vers)
            BY <1>1, <2>1, <2>2, <2>3, <2>4 DEF Continues
        <3> QED
            BY <1>1, <1>2, <2>1, <2>4, <3>1, ErasedGrows DEF BodyOrGone
    <2>5. CASE n \notin DOMAIN meta.vers
        <3>1. call[p].op = "put" /\ n = Len(meta.vers) + 1
            BY <1>1, <2>3, <2>5
        <3>2. blob[n] = call[p].data
            BY <1>1, <1>4, <2>1, <3>1 DEF SaveMeta, CallInv
        <3> QED
            BY <2>1, <2>3, <3>1, <3>2 DEF BodyOrGone
    <2> QED
        BY <2>4, <2>5
<1>5. CASE AdoptMeta(p) /\ ~Fail(p)
    <2>1. /\ meta = EmptyMeta /\ UNCHANGED blob
          /\ meta' = [current |-> 1, vers |-> <<NewVersion(carried[p])>>]
        BY <1>1, <1>5, AdoptStep
    <2>2. n = 1 /\ meta'.vers[1].data = carried[p]
        BY <2>1 DEF NewVersion
    <2>3. blob[1] = carried[p]
        BY <1>1, <1>5, <2>1 DEF AdoptMeta, CallInv, EmptyMeta
    <2> QED
        BY <2>1, <2>2, <2>3 DEF BodyOrGone
<1> QED
    BY <1>3, <1>4, <1>5, MetaSteps

\* Whatever the metadata names has been committed.
LEMMA CommittedStays ==
    ASSUME NEW p \in Procs, Step(p), Pairs(meta) \subseteq committed
    PROVE  Pairs(meta') \subseteq committed' /\ committed \subseteq committed'
<1>1. CASE SaveMeta(p)
    BY <1>1 DEF SaveMeta, WriteMeta
<1>2. CASE AdoptMeta(p) /\ ~Fail(p)
    BY <1>2 DEF AdoptMeta
<1>3. CASE UNCHANGED meta /\ ~SaveMeta(p) /\ ~(AdoptMeta(p) /\ ~Fail(p))
    <2>1. UNCHANGED committed
        BY <1>3 DEF Step, Begin, Request, Load, Adopt, AdoptRead, AdoptBlob, AdoptMeta, PutSteps,
            ResolveToken, RejectStale, RefuseBlob, PutBlob, WriteBlob, Prune, Commit, LoseMeta,
            Mirror, MirrorRead, MirrorPut, AfterMirror, LoseMirror, Others, DeleteRead, DeleteLive,
            UndeleteRead, Destroy, RefuseDestroy, Reads, GetLive, GetBlob, GetNothing, Abandon, Fail
    <2> QED
        BY <1>3, <2>1
<1> QED
    BY <1>1, <1>2, <1>3, MetaSteps

\* A reader makes no other calls than reads.
LEMMA ReadersRead ==
    ASSUME TInv, NEW p \in Procs, Step(p), NEW q \in Readers, call[q].op \in ReadOps \cup {"none"}
    PROVE  call'[q].op \in ReadOps \cup {"none"}
<1>1. q \in Procs /\ q \notin Writers
    BY FileLogAssumption DEF Procs
<1>2. CASE q # p
    BY <1>1, <1>2, StepLocal DEF Step
<1>3. CASE q = p
    <2>1. ASSUME NEW r, Return(p, r) PROVE call'[p] = NoCall
        BY <2>1 DEF Return, TInv, TypeOK
    <2>2. Fail(p) \/ Reads(p) \/ Abandon(p) => call'[p] = NoCall
        BY <2>1 DEF Fail, Reads, GetLive, GetBlob, GetNothing, Abandon
    <2>3. CASE Begin(p)
        BY <1>1, <1>3, <2>3 DEF Begin, Request, Asking, ReadOps, TInv, TypeOK
    <2>4. CASE ResolveToken(p)
        BY <1>3, <2>4 DEF ResolveToken, ReadOps
    <2>5. NoCall.op = "none"
        BY DEF NoCall
    <2>6. call'[p] = NoCall \/ call'[p] = call[p] \/ Begin(p) \/ ResolveToken(p)
        BY <2>1, <2>2 DEF Step, Load, Adopt, AdoptRead, AdoptBlob, AdoptMeta, PutSteps,
            RejectStale, RefuseBlob, PutBlob, WriteBlob, Prune, Commit, SaveMeta, WriteMeta, LoseMeta,
            Mirror, MirrorRead, MirrorPut, AfterMirror, LoseMirror, Others, DeleteRead, DeleteLive,
            UndeleteRead, Destroy, RefuseDestroy
    <2> QED
        BY <1>3, <2>3, <2>4, <2>5, <2>6
<1> QED
    BY <1>2, <1>3

LEMMA ReadInvStays ==
    ASSUME MaxVersions >= 2, "destroy" \notin MutatingOps, ReadInv, [Next]_vars
    PROVE  ReadInv'
<1>1. IInv'
    BY StepIInv DEF ReadInv
<1>2. CASE UNCHANGED vars
    BY <1>1, <1>2 DEF vars, ReadInv, BodyOrGone, Pairs
<1>3. CASE \E p \in Procs : Step(p)
    <2>1. PICK p \in Procs : Step(p)
        BY <1>3
    <2>2. TInv
        BY DEF ReadInv, IInv
    <2>3. Pairs(meta)' \subseteq committed'
        BY <2>1, CommittedStays DEF ReadInv
    <2>4. \A n \in DOMAIN meta'.vers : BodyOrGone(n)'
        BY <1>1, <2>1, BodiesStay
    <2>5. \A q \in Readers : call'[q].op \in ReadOps \cup {"none"}
        BY <2>1, <2>2, ReadersRead DEF ReadInv
    <2> QED
        BY <1>1, <2>3, <2>4, <2>5 DEF ReadInv
<1> QED
    BY <1>2, <1>3 DEF Next, Step

\* What a reader is answered under a version number.
Answered(p) ==
    LET r == reply'[p] IN
    r # reply[p] /\ r.ok /\ r.ver \in Nat =>
        <<r.ver, r.data>> \in committed \/ r.ver \in erased

LEMMA ReadAnswers ==
    ASSUME ReadInv, NEW p \in Procs, Step(p), NEW q \in Readers
    PROVE  Answered(q)
<1>1. /\ TInv /\ meta \in Meta /\ held[q] \in Meta /\ blob \in [1..MaxN -> MaybeData]
      /\ Len(meta.vers) \in Nat /\ Len(held[q].vers) \in Nat
      /\ DOMAIN meta.vers = 1..Len(meta.vers) /\ DOMAIN held[q].vers = 1..Len(held[q].vers)
      /\ ControlAt(q) /\ CallInv(q) /\ q \in Procs
      /\ call[q].op \in ReadOps \cup {"none"}
    BY LenProperties DEF ReadInv, IInv, TInv, TypeOK, ControlOK, Meta, Procs
<1>2. CASE q # p
    <2>1. reply'[q] = reply[q]
        BY <1>1, <1>2, ReplyLocal
    <2> QED
        BY <2>1 DEF Answered
<1>3. CASE q = p
    <2>1. ASSUME NEW r, Return(p, r) PROVE reply'[p] = r
        BY <1>1, <2>1 DEF Return, TInv, TypeOK
    <2>2. ~Failure(p).ok /\ ~NoReply.ok
        BY DEF Failure, NoReply
    <2>3. CASE Fail(p) \/ Abandon(p)
        <3>1. ~reply'[p].ok
            BY <2>1, <2>2, <2>3 DEF Fail, Abandon
        <3> QED
            BY <1>3, <3>1 DEF Answered
    <2>4. CASE Begin(p)
        <3>1. reply'[p] = NoReply
            BY <1>1, <2>4 DEF Begin, Request, TInv, TypeOK
        <3> QED
            BY <1>3, <2>2, <3>1 DEF Answered
    <2>5. CASE GetLive(p)
        <3>1. reply'[p] = Failure(p) \/ (live # NoData /\ reply'[p] = Success(p, live, live))
            BY <2>1, <2>5 DEF GetLive
        <3>2. live # NoData => live \notin Nat
            BY <1>1, FileLogAssumption DEF TInv, TypeOK, MaybeData
        <3>3. Success(p, live, live).ver = live
            BY DEF Success
        <3> QED
            BY <1>3, <2>2, <3>1, <3>2, <3>3 DEF Answered
    <2>6. CASE GetBlob(p)
        <3> DEFINE n == Wanted(p)
        <3>1. reply'[p] = Failure(p) \/ (blob[n] # NoData /\ reply'[p] = Success(p, n, blob[n]))
            BY <2>1, <2>6 DEF GetBlob, Body
        <3>2. n \in 1..Len(held[p].vers)
            BY <1>1, <1>3, <2>6 DEF GetBlob, Wanted, Retained, Bounded, ControlAt, Meta
        <3>3. n \in DOMAIN meta.vers
            BY <1>1, <1>3, <3>2 DEF CallInv
        <3>4. blob[n] = meta.vers[n].data \/ n \in erased
            BY <3>3 DEF ReadInv, BodyOrGone
        <3>5. <<n, meta.vers[n].data>> \in committed
            BY <3>3 DEF ReadInv, Pairs
        <3>6. Success(p, n, blob[n]).ver = n /\ Success(p, n, blob[n]).data = blob[n]
            BY DEF Success
        <3> HIDE DEF n
        <3> QED
            BY <1>3, <2>2, <3>1, <3>4, <3>5, <3>6 DEF Answered
    <2>7. ~SaveMeta(p) /\ ~MirrorPut(p)
        BY <1>1, <1>3 DEF SaveMeta, MirrorPut, ControlAt, ReadOps
    <2>8. reply'[p] = reply[p] \/ Fail(p) \/ Abandon(p) \/ Begin(p) \/ GetLive(p) \/ GetBlob(p)
        BY <2>7 DEF Step, Load, Adopt, AdoptRead, AdoptBlob, AdoptMeta, PutSteps, ResolveToken,
            RejectStale, RefuseBlob, PutBlob, WriteBlob, Prune, Commit, LoseMeta, Mirror, MirrorRead,
            LoseMirror, Others, DeleteRead, DeleteLive, UndeleteRead, Destroy, RefuseDestroy, Reads,
            GetNothing
    <2> QED
        BY <1>3, <2>3, <2>4, <2>5, <2>6, <2>8 DEF Answered
<1> QED
    BY <1>2, <1>3

\* A read takes no lock, and yet what it answers under a version number was committed under
\* it, unless a call has taken that version's body off the disk (ReadsAreCommitted).
THEOREM ReadsTellCommitted ==
    ASSUME MaxVersions >= 2, "destroy" \notin MutatingOps
    PROVE  Spec => ReadsAreCommitted
<1>1. Init => ReadInv
    <2> SUFFICES ASSUME Init PROVE ReadInv
        OBVIOUS
    <2>1. IInv
        BY InitIInv
    <2>2. meta.vers = <<>> /\ \A p \in Readers : call[p].op = "none"
        BY DEF Init, EmptyMeta, NoCall, Procs
    <2> QED
        BY <2>1, <2>2 DEF ReadInv, Pairs
<1>2. ReadInv /\ [Next]_vars => ReadInv'
    BY ReadInvStays
<1> DEFINE Tells ==
        \A p \in Readers :
            LET r == reply'[p] IN
            r # reply[p] /\ r.ok /\ r.ver \in Nat =>
                \/ <<r.ver, r.data>> \in committed
                \/ r.ver \in erased
<1>3. ReadInv /\ [Next]_vars => [Tells]_reply
    BY ReadAnswers DEF Next, Step, vars, Answered
<1> QED
    BY <1>1, <1>2, <1>3, PTL DEF Spec, ReadsAreCommitted
=============================================================================
