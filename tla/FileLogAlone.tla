---------------------------- MODULE FileLogAlone ----------------------------
(***************************************************************************)
(* What a single replica that makes one call at a time keeps true, what-   *)
(* ever it calls, destroy included, and wherever its calls are cut short.  *)
(***************************************************************************)
EXTENDS FileLogProofs

\* One call at a time: one replica, and no reader beside it.
Alone == \E p : Procs = {p}

\* The current version is the newest retained one.
Newest(m) == m.current # 0 =>
    m.current \in Retained(m.vers) /\ \A n \in Retained(m.vers) : n <= m.current
\* What the live copy should hold.
Shown(m) == IF m.current = 0 THEN NoData ELSE m.vers[m.current].data

Doing(p, op, labels) == pc[p] \in labels /\ call[p].op = op

\* Nobody has saved metadata since a call loaded it, but the call itself.
StillHeld(p) ==
    pc[p] \in {"adopt", "adoptBlob", "adoptMeta", "ready", "prune", "unmirror", "save"}
        \/ Doing(p, "undelete", {"mirror", "mirrorPut"}) => held[p] = meta

\* What a call under way has established, and what it has written.
Established(p) ==
    LET best == Best(held[p]) IN
    /\ pc[p] = "adoptMeta" => blob[1] = carried[p]
    /\ Doing(p, "put", {"prune", "save"}) => blob[NextVersion(held[p])] = call[p].data
    /\ Doing(p, "put", {"mirror", "mirrorPut"}) => meta.current # 0 /\ carried[p] = Shown(meta)
    /\ Doing(p, "delete", {"unmirror", "save"}) => held[p].current # 0
    /\ Doing(p, "undelete", {"mirror", "mirrorPut", "save"}) =>
            best # 0 /\ blob[best] = held[p].vers[best].data
    /\ Doing(p, "undelete", {"mirror", "mirrorPut"}) => carried[p] = held[p].vers[best].data
    /\ Doing(p, "destroy", {"save"}) => call[p].n \in DOMAIN held[p].vers /\ call[p].n # held[p].current

\* As long as nothing was cut short: no blob without an entry, but the one that the
\* call under way is about to enter,
NoOrphan(p) ==
    /\ \A n \in 1..MaxN : blob[n] # NoData =>
        \/ n \in Retained(meta.vers)
        \/ pc[p] = "adoptMeta" /\ n = 1
        \/ Doing(p, "put", {"prune", "save"}) /\ n = NextVersion(held[p])
    /\ Doing(p, "put", {"save"}) =>
            \A n \in Dropped(AddVersion(held[p], call[p].data)) : blob[n] = NoData
    /\ Doing(p, "destroy", {"save"}) => blob[call[p].n] = NoData

\* and the live copy is what it should be, but for what that call is about to save.
Mirrored(p) ==
    /\ pc[p] \in {"adoptBlob", "adoptMeta"} => live = carried[p]
    /\ pc[p] \in {"mirrorPut", "unmirror"} => live = liveVer[p]
    /\ Doing(p, "delete", {"save"}) => live = NoData
    /\ Doing(p, "undelete", {"save"}) => live = held[p].vers[Best(held[p])].data
    /\ \/ meta = EmptyMeta \/ live = Shown(meta)
       \/ Doing(p, "put", {"mirror", "mirrorPut"})
       \/ Doing(p, "delete", {"save"}) \/ Doing(p, "undelete", {"save"})

CallAlone(p) == StillHeld(p) /\ Established(p) /\ (faults = 0 => NoOrphan(p) /\ Mirrored(p))

AloneInv == TInv /\ Newest(meta) /\ CurrentReadable /\ BodiesMatch /\ \A p \in Procs : CallAlone(p)

-----------------------------------------------------------------------------
(* What the operators on metadata do to a log whose newest version is current *)

LEMMA MetaFacts ==
    ASSUME NEW m \in Meta
    PROVE  /\ m.vers \in Seq(VersionInfo) /\ m.current \in Nat /\ Len(m.vers) \in Nat
           /\ DOMAIN m.vers = 1..Len(m.vers)
           /\ \A n \in DOMAIN m.vers : m.vers[n] \in VersionInfo
           /\ Retained(m.vers) \subseteq DOMAIN m.vers
           /\ \A n \in DOMAIN m.vers : n \in Retained(m.vers) <=> ~m.vers[n].destroyed
<1>1. m.vers \in Seq(VersionInfo) /\ m.current \in Nat
    BY DEF Meta
<1>2. Len(m.vers) \in Nat /\ DOMAIN m.vers = 1..Len(m.vers)
    BY <1>1, LenProperties
<1> QED
    BY <1>1, <1>2, ElementOfSeq DEF Retained

LEMMA WithinBound ==
    ASSUME NEW m \in Meta, Bounded(m)
    PROVE  DOMAIN m.vers \subseteq 1..MaxN /\ Retained(m.vers) \subseteq 1..MaxN
<1>1. Len(m.vers) \in Nat /\ MaxN \in Nat /\ Len(m.vers) <= MaxN
    BY MetaFacts, FileLogAssumption DEF Bounded
<1>2. DOMAIN m.vers = 1..Len(m.vers) /\ Retained(m.vers) \subseteq DOMAIN m.vers
    BY MetaFacts
<1> QED
    BY <1>1, <1>2

\* A put takes a number that no retained version has.
LEMMA NextIsFree ==
    ASSUME NEW m \in Meta, Newest(m)
    PROVE  /\ NextVersion(m) \in Nat \ {0} /\ NextVersion(m) # m.current
           /\ NextVersion(m) \notin Retained(m.vers)
           /\ \A n \in Retained(m.vers) : n < NextVersion(m)
<1>1. m.current \in Nat /\ Len(m.vers) \in Nat /\ Retained(m.vers) \subseteq 1..Len(m.vers)
    BY MetaFacts
<1> QED
    BY <1>1 DEF NextVersion, Newest

\* The metadata a put makes before it drops anything.
LEMMA Added ==
    ASSUME NEW m \in Meta, Bounded(m), NEW d \in Data
    PROVE  LET n == NextVersion(m)  a == AddVersion(m, d) IN
           /\ a \in Meta /\ a.current = n
           /\ DOMAIN a.vers = DOMAIN m.vers \cup {n}
           /\ a.vers[n] = NewVersion(d)
           /\ \A k \in DOMAIN m.vers : k # n => a.vers[k] = m.vers[k]
<1> DEFINE n == NextVersion(m)  a == AddVersion(m, d)
<1>1. a \in Meta /\ a.current = n
    BY AddVersionType DEF AddVersion
<1>2. n \in DOMAIN m.vers \/ n = Len(m.vers) + 1
    BY MetaFacts DEF NextVersion, Bounded
<1>3. NewVersion(d) \in VersionInfo
    BY DEF NewVersion, VersionInfo
<1>4. CASE n \in DOMAIN m.vers
    <2>1. a.vers = [m.vers EXCEPT ![n] = NewVersion(d)]
        BY <1>4 DEF AddVersion
    <2> QED
        BY <1>1, <1>4, <2>1, MetaFacts
<1>5. CASE n \notin DOMAIN m.vers
    <2>1. a.vers = Append(m.vers, NewVersion(d)) /\ n = Len(m.vers) + 1
        BY <1>2, <1>5 DEF AddVersion
    <2>2. /\ Len(a.vers) = Len(m.vers) + 1 /\ a.vers[n] = NewVersion(d)
          /\ \A k \in 1..Len(m.vers) : a.vers[k] = m.vers[k]
        BY <1>3, <2>1, MetaFacts, AppendProperties
    <2>3. DOMAIN a.vers = 1..(Len(m.vers) + 1)
        BY <1>1, <2>2, MetaFacts
    <2> QED
        BY <1>1, <2>1, <2>2, <2>3, MetaFacts
<1> QED
    BY <1>4, <1>5

\* A set of at most one number.
LEMMA AtMostOne ==
    ASSUME NEW S, NEW n, S \subseteq {n}
    PROVE  Cardinality(S) \in Nat /\ Cardinality(S) <= 1
<1>1. IsFiniteSet({n}) /\ Cardinality({n}) = 1
    BY FS_Singleton
<1> QED
    BY <1>1, FS_Subset, FS_CardinalityType

\* What a put saves: its version is current, and it dropped neither that one nor the
\* one that was.
LEMMA PutSaves ==
    ASSUME MaxVersions >= 2, NEW m \in Meta, Bounded(m), Newest(m), NEW d \in Data
    PROVE  LET n == NextVersion(m)  a == AddVersion(m, d)  r == Pruned(a) IN
           /\ r \in Meta /\ r.current = n /\ n # 0 /\ Newest(r)
           /\ Dropped(a) \subseteq Retained(m.vers) /\ m.current \notin Dropped(a)
           /\ Retained(r.vers) = (Retained(m.vers) \cup {n}) \ Dropped(a)
           /\ n \in Retained(r.vers) /\ r.vers[n].data = d
           /\ \A k \in Retained(m.vers) : r.vers[k].data = m.vers[k].data
<1> DEFINE n == NextVersion(m)  a == AddVersion(m, d)  r == Pruned(a)
<1>1. /\ a \in Meta /\ a.current = n /\ DOMAIN a.vers = DOMAIN m.vers \cup {n}
      /\ a.vers[n] = NewVersion(d)
      /\ \A k \in DOMAIN m.vers : k # n => a.vers[k] = m.vers[k]
    BY Added
<1>2. /\ n \in Nat \ {0} /\ n # m.current /\ n \notin Retained(m.vers)
      /\ \A k \in Retained(m.vers) : k < n
    BY NextIsFree
<1>3. Retained(a.vers) = Retained(m.vers) \cup {n}
    <2>1. n \in Retained(a.vers)
        BY <1>1 DEF Retained, NewVersion
    <2>2. ASSUME NEW k, k # n PROVE k \in Retained(a.vers) <=> k \in Retained(m.vers)
        BY <1>1, <2>2 DEF Retained
    <2> QED
        BY <2>1, <2>2
<1>4. n \notin Dropped(a) /\ Dropped(a) \subseteq Retained(m.vers)
    BY <1>1, <1>3 DEF Dropped
<1>5. m.current \notin Dropped(a)
    <2> SUFFICES ASSUME m.current \in Dropped(a) PROVE FALSE
        OBVIOUS
    <2> DEFINE newer == {k \in Retained(a.vers) : k > m.current}
    <2>1. Cardinality(newer) >= MaxVersions
        BY DEF Dropped
    <2>2. m.current # 0
        <3>1. m.current \in Retained(m.vers) /\ Retained(m.vers) \subseteq 1..Len(m.vers)
            BY <1>4, MetaFacts
        <3> QED
            BY <3>1, MetaFacts
    <2>3. newer \subseteq {n}
        BY <1>3, <2>2, MetaFacts DEF Newest
    <2> QED
        BY <2>1, <2>3, AtMostOne, FileLogAssumption
<1>6. /\ r \in Meta /\ r.current = n
      /\ DOMAIN r.vers = DOMAIN a.vers
    BY <1>1, PrunedType, MetaFacts DEF Pruned
<1>7. ASSUME NEW k \in DOMAIN a.vers
      PROVE  /\ r.vers[k].data = a.vers[k].data
             /\ r.vers[k].destroyed = (a.vers[k].destroyed \/ k \in Dropped(a))
    BY <1>1, PrunedEntry
<1>8. Retained(r.vers) = Retained(a.vers) \ Dropped(a)
    BY <1>6, <1>7 DEF Retained
<1>9. r.vers[n].data = d /\ \A k \in Retained(m.vers) : r.vers[k].data = m.vers[k].data
    BY <1>1, <1>2, <1>7, MetaFacts DEF NewVersion
<1>10. Newest(r)
    <2>1. n \in Retained(r.vers)
        BY <1>3, <1>4, <1>8
    <2>2. ASSUME NEW k \in Retained(r.vers) PROVE k <= n
        <3>1. k \in Retained(m.vers) \/ k = n
            BY <1>3, <1>8
        <3>2. Retained(m.vers) \subseteq 1..Len(m.vers) /\ Len(m.vers) \in Nat
            BY MetaFacts
        <3> QED
            BY <1>2, <3>1, <3>2
    <2> QED
        BY <1>6, <2>1, <2>2 DEF Newest
<1> QED
    BY <1>2, <1>3, <1>4, <1>5, <1>6, <1>8, <1>9, <1>10

\* The other calls mark one entry.
MarkedAs(r, m, c) ==
    /\ r \in Meta /\ \A k \in DOMAIN m.vers : r.vers[k].data = m.vers[k].data
    /\ r.vers = <<>> <=> m.vers = <<>>
    /\ c.op = "delete" => r.current = 0
    /\ c.op = "undelete" => r.current = Best(m)
    /\ c.op = "destroy" => r.current = m.current
    /\ Retained(r.vers) = Retained(m.vers) \ IF c.op = "destroy" THEN {c.n} ELSE {}

LEMMA MarkSaves ==
    ASSUME NEW m \in Meta, NEW c, c.op \in {"delete", "undelete", "destroy"}
    PROVE  MarkedAs(NewMeta(m, c), m, c)
<1> DEFINE r == NewMeta(m, c)
           Entry(k) == IF c.op = "delete" /\ k = m.current THEN [m.vers[k] EXCEPT !.deleted = TRUE]
                       ELSE IF c.op = "undelete" /\ k = Best(m) THEN [m.vers[k] EXCEPT !.deleted = FALSE]
                       ELSE IF c.op = "destroy" /\ k = c.n THEN [m.vers[k] EXCEPT !.destroyed = TRUE]
                       ELSE m.vers[k]
<1>1. r \in Meta
    BY NewMetaType
<1>2. /\ c.op = "delete" => r.current = 0
      /\ c.op = "undelete" => r.current = Best(m)
      /\ c.op = "destroy" => r.current = m.current
      /\ DOMAIN r.vers = DOMAIN m.vers
      /\ \A k \in DOMAIN m.vers : r.vers[k] = Entry(k)
    <2>1. CASE c.op = "delete"
        BY <2>1 DEF NewMeta
    <2>2. CASE c.op = "undelete"
        BY <2>2 DEF NewMeta
    <2>3. CASE c.op = "destroy"
        BY <2>3 DEF NewMeta
    <2> QED
        BY <2>1, <2>2, <2>3
<1>3. ASSUME NEW k \in DOMAIN m.vers
      PROVE  /\ Entry(k).data = m.vers[k].data
             /\ Entry(k).destroyed = (m.vers[k].destroyed \/ (c.op = "destroy" /\ k = c.n))
    <2>1. m.vers[k] \in VersionInfo
        BY MetaFacts
    <2> QED
        BY <2>1 DEF VersionInfo
<1> HIDE DEF Entry
<1>4. Retained(r.vers) = Retained(m.vers) \ IF c.op = "destroy" THEN {c.n} ELSE {}
    <2>1. ASSUME NEW k \in DOMAIN m.vers
          PROVE  r.vers[k].destroyed = (m.vers[k].destroyed \/ (c.op = "destroy" /\ k = c.n))
        BY <1>2, <1>3
    <2>2. ASSUME NEW k \in DOMAIN m.vers
          PROVE  ~r.vers[k].destroyed <=> ~m.vers[k].destroyed /\ ~(c.op = "destroy" /\ k = c.n)
        BY <2>1
    <2>3. \A k : k \in Retained(r.vers) <=> k \in Retained(m.vers) /\ ~(c.op = "destroy" /\ k = c.n)
        BY <1>2, <2>2 DEF Retained
    <2> QED
        BY <2>3
<1>5. r.vers = <<>> <=> m.vers = <<>>
    <2>1. Len(r.vers) = Len(m.vers)
        BY <1>1, <1>2, MetaFacts
    <2> QED
        BY <1>1, <2>1, MetaFacts
<1> QED
    BY <1>1, <1>2, <1>3, <1>4, <1>5 DEF MarkedAs

-----------------------------------------------------------------------------
(* One step of the call under way *)

LEMMA NobodyElse ==
    ASSUME Alone, TInv', NEW p \in Procs, Newest(meta)', CurrentReadable', BodiesMatch', CallAlone(p)'
    PROVE  AloneInv'
<1>1. Procs = {p}
    BY DEF Alone
<1> QED
    BY <1>1 DEF AloneInv

\* The same for a step that touches neither metadata nor blobs.
LEMMA ReadsOnly ==
    ASSUME Alone, AloneInv, TInv', NEW p \in Procs, UNCHANGED <<meta, blob>>, CallAlone(p)'
    PROVE  AloneInv'
<1>1. Newest(meta)' /\ CurrentReadable' /\ BodiesMatch'
    BY DEF AloneInv, CurrentReadable, BodiesMatch
<1> QED
    BY <1>1, NobodyElse

\* A call that ends leaves no orphan and the right live copy, or something was cut short.
AtRest ==
    /\ \A n \in 1..MaxN : blob[n] # NoData => n \in Retained(meta.vers)
    /\ meta = EmptyMeta \/ live = Shown(meta)

LEMMA Ends ==
    ASSUME Alone, AloneInv, TInv', NEW p \in Procs, NEW r, Return(p, r), UNCHANGED <<meta, blob>>,
           faults' = 0 => AtRest'
    PROVE  AloneInv'
<1>1. pc'[p] = "idle" /\ call'[p].op = "none"
    BY DEF AloneInv, TInv, TypeOK, Return, Goto, NoCall
<1>2. CallAlone(p)'
    BY <1>1 DEF CallAlone, StillHeld, Established, NoOrphan, Mirrored, Doing, AtRest
<1> QED
    BY <1>2, ReadsOnly

\* So does one that fails before it has written anything.
LEMMA Fails ==
    ASSUME Alone, AloneInv, TInv', NEW p \in Procs, Fail(p),
           pc[p] \in {"load", "adopt", "adoptBlob", "ready"}
    PROVE  AloneInv'
<1>1. UNCHANGED objects /\ faults' = faults /\ Return(p, Failure(p))
    BY DEF Fail
<1>2. faults = 0 => AtRest
    BY DEF AloneInv, CallAlone, NoOrphan, Mirrored, Doing, AtRest
<1>3. AtRest <=> AtRest'
    BY <1>1 DEF AtRest, objects
<1> QED
    BY <1>1, <1>2, <1>3, Ends DEF objects

\* What the steps have in common.
LEMMA Here ==
    ASSUME AloneInv, NEW p \in Procs
    PROVE  /\ TypeOK /\ ControlAt(p) /\ Bounded(meta) /\ meta \in Meta /\ blob \in [1..MaxN -> MaybeData]
           /\ pc[p] \in PC /\ call[p] \in Call /\ held[p] \in Meta /\ carried[p] \in MaybeData
           /\ Newest(meta) /\ CurrentReadable /\ BodiesMatch
           /\ StillHeld(p) /\ Established(p) /\ (faults = 0 => NoOrphan(p) /\ Mirrored(p))
BY DEF AloneInv, CallAlone, TInv, TypeOK, ControlOK

LEMMA ReadingSteps ==
    ASSUME Alone, AloneInv, TInv', NEW p \in Procs,
           Begin(p) \/ Load(p) \/ AdoptRead(p) \/ ResolveToken(p) \/ RejectStale(p) \/ RefuseBlob(p)
             \/ LoseMeta(p) \/ LoseMirror(p) \/ MirrorRead(p) \/ DeleteRead(p) \/ UndeleteRead(p)
             \/ RefuseDestroy(p) \/ Reads(p)
    PROVE  AloneInv'
<1> USE Here
<1>1. CASE Begin(p)
    <2>1. PICK c : Request(p, c)
        BY <1>1 DEF Begin
    <2>2. pc[p] = "idle" /\ pc'[p] = "load" /\ UNCHANGED objects /\ faults' = faults
        BY <2>1 DEF Request, Goto, TypeOK
    <2>3. CallAlone(p)'
        BY <2>2 DEF CallAlone, StillHeld, Established, NoOrphan, Mirrored, Doing, objects
    <2> QED
        BY <2>2, <2>3, ReadsOnly DEF objects
<1>2. CASE Load(p)
    <2>1. /\ pc[p] = "load" /\ pc'[p] \in {"adopt", "ready"} /\ held'[p] = meta
          /\ UNCHANGED objects /\ faults' = faults
        BY <1>2 DEF Load, Goto, TypeOK
    <2>2. CallAlone(p)'
        BY <2>1 DEF CallAlone, StillHeld, Established, NoOrphan, Mirrored, Doing, objects
    <2> QED
        BY <2>1, <2>2, ReadsOnly DEF objects
<1>3. CASE AdoptRead(p)
    <2>1. /\ pc[p] = "adopt" /\ pc'[p] \in {"adoptBlob", "ready"} /\ held'[p] = held[p] /\ carried'[p] = live
          /\ UNCHANGED objects /\ faults' = faults
        BY <1>3 DEF AdoptRead, Goto, TypeOK
    <2>2. CallAlone(p)'
        BY <2>1 DEF CallAlone, StillHeld, Established, NoOrphan, Mirrored, Doing, objects
    <2> QED
        BY <2>1, <2>2, ReadsOnly DEF objects
<1>4. CASE ResolveToken(p)
    <2>1. CASE Fail(p)
        BY <1>4, <2>1, Fails DEF ResolveToken
    <2>2. CASE ~Fail(p)
        <3>1. /\ pc[p] = "ready" /\ pc'[p] = "ready" /\ held'[p] = held[p]
              /\ UNCHANGED objects /\ faults' = faults
            BY <1>4, <2>2 DEF ResolveToken
        <3>2. CallAlone(p)'
            BY <3>1 DEF CallAlone, StillHeld, Established, NoOrphan, Mirrored, Doing, objects
        <3> QED
            BY <3>1, <3>2, ReadsOnly DEF objects
    <2> QED
        BY <2>1, <2>2
<1>5. CASE RejectStale(p) \/ RefuseBlob(p) \/ RefuseDestroy(p)
    BY <1>5, Fails DEF RejectStale, RefuseBlob, AtPutBlob, RefuseDestroy
<1>6. CASE LoseMeta(p)
    BY <1>6 DEF LoseMeta, StillHeld
<1>7. CASE MirrorRead(p)
    <2>1. /\ pc[p] = "mirror" /\ pc'[p] = "mirrorPut" /\ liveVer'[p] = live
          /\ held'[p] = held[p] /\ call'[p] = call[p] /\ carried'[p] = carried[p]
          /\ UNCHANGED objects /\ faults' = faults
        BY <1>7 DEF MirrorRead, Goto, TypeOK
    <2>2. CallAlone(p)'
        BY <2>1 DEF CallAlone, StillHeld, Established, NoOrphan, Mirrored, Doing, objects
    <2> QED
        BY <2>1, <2>2, ReadsOnly DEF objects
<1>8. CASE LoseMirror(p)
    <2>1. /\ pc[p] = "mirrorPut" /\ live # liveVer[p] /\ Return(p, Failure(p))
          /\ UNCHANGED objects /\ faults' = faults
        BY <1>8 DEF LoseMirror, Fail
    <2>2. faults # 0
        BY <2>1 DEF Mirrored
    <2> QED
        BY <2>1, <2>2, Ends DEF objects
<1>9. CASE DeleteRead(p)
    <2>1. /\ pc[p] = "ready" /\ call[p].op = "delete" /\ held[p].current # 0
          /\ pc'[p] = (IF live = NoData THEN "save" ELSE "unmirror") /\ liveVer'[p] = live
          /\ held'[p] = held[p] /\ call'[p] = call[p]
          /\ UNCHANGED objects /\ faults' = faults
        BY <1>9 DEF DeleteRead, Goto, TypeOK
    <2>2. CallAlone(p)'
        BY <2>1 DEF CallAlone, StillHeld, Established, NoOrphan, Mirrored, Doing, objects
    <2> QED
        BY <2>1, <2>2, ReadsOnly DEF objects
<1>10. CASE UndeleteRead(p)
    <2>1. CASE Fail(p)
        BY <1>10, <2>1, Fails DEF UndeleteRead
    <2>2. CASE ~Fail(p)
        <3>1. /\ pc[p] = "ready" /\ call[p].op = "undelete" /\ pc'[p] = "mirror"
              /\ Best(held[p]) # 0 /\ blob[Best(held[p])] # NoData /\ carried'[p] = blob[Best(held[p])]
              /\ held'[p] = held[p] /\ call'[p] = call[p]
              /\ UNCHANGED objects /\ faults' = faults
            BY <1>10, <2>2 DEF UndeleteRead, Goto, TypeOK
        <3>2. held[p] = meta /\ Best(meta) \in Retained(meta.vers)
            BY <3>1, BestType DEF StillHeld
        <3>3. blob[Best(meta)] = meta.vers[Best(meta)].data
            BY <3>1, <3>2 DEF BodiesMatch
        <3>4. CallAlone(p)'
            BY <3>1, <3>2, <3>3 DEF CallAlone, StillHeld, Established, NoOrphan, Mirrored, Doing, objects
        <3> QED
            BY <3>1, <3>4, ReadsOnly DEF objects
    <2> QED
        BY <2>1, <2>2
<1>11. CASE Reads(p)
    <2>1. /\ pc[p] = "ready" /\ UNCHANGED objects /\ faults' = faults /\ \E r : Return(p, r)
        BY <1>11 DEF Reads, GetLive, GetBlob, GetNothing, Fail
    <2>2. faults = 0 => AtRest'
        BY <2>1 DEF NoOrphan, Mirrored, Doing, AtRest, objects
    <2> QED
        BY <2>1, <2>2, Ends DEF objects
<1> QED
    BY <1>1, <1>2, <1>3, <1>4, <1>5, <1>6, <1>7, <1>8, <1>9, <1>10, <1>11

-----------------------------------------------------------------------------
(* Steps that write *)

LEMMA BlobSteps ==
    ASSUME MaxVersions >= 2, Alone, AloneInv, TInv', NEW p \in Procs,
           AdoptBlob(p) \/ PutBlob(p) \/ Prune(p) \/ Destroy(p)
    PROVE  AloneInv'
<1> USE Here
<1>1. CASE AdoptBlob(p)
    <2>1. CASE Fail(p)
        BY <1>1, <2>1, Fails DEF AdoptBlob
    <2>2. CASE ~Fail(p)
        <3>1. /\ pc[p] = "adoptBlob" /\ pc'[p] = "adoptMeta" /\ 1 \in 1..MaxN
              /\ blob' = [blob EXCEPT ![1] = carried[p]]
              /\ UNCHANGED <<meta, live, call, held, carried, liveVer, faults>>
            BY <1>1, <2>2, FileLogAssumption DEF AdoptBlob, Goto, TypeOK
        <3>2. held[p] = meta /\ meta = EmptyMeta /\ Retained(meta.vers) = {} /\ meta.current = 0
            BY <3>1 DEF StillHeld, ControlAt, EmptyMeta, Retained
        <3>3. blob'[1] = carried[p] /\ \A n \in 1..MaxN : n # 1 => blob'[n] = blob[n]
            BY <3>1
        <3>4. CallAlone(p)'
            BY <3>1, <3>2, <3>3 DEF CallAlone, StillHeld, Established, NoOrphan, Mirrored, Doing
        <3>5. Newest(meta)' /\ CurrentReadable' /\ BodiesMatch'
            BY <3>1, <3>2 DEF Newest, CurrentReadable, BodiesMatch
        <3> QED
            BY <3>4, <3>5, NobodyElse
    <2> QED
        BY <2>1, <2>2
<1>2. CASE PutBlob(p)
    <2> DEFINE n == NextVersion(held[p])  d == call[p].data
    <2>1. /\ pc[p] = "ready" /\ call[p].op = "put" /\ n <= MaxN /\ blob' = [blob EXCEPT ![n] = d]
          /\ pc'[p] = (IF Dropped(AddVersion(held[p], d)) = {} THEN "save" ELSE "prune")
          /\ UNCHANGED <<meta, live, call, held, carried, liveVer, faults>>
        BY <1>2 DEF PutBlob, AtPutBlob, WriteBlob, Goto, TypeOK
    <2>2. held[p] = meta
        BY <2>1 DEF StillHeld
    <2>3. n \in 1..MaxN /\ n # meta.current /\ n \notin Retained(meta.vers)
        BY <2>1, <2>2, NextIsFree, FileLogAssumption
    <2>4. blob'[n] = d /\ \A k \in 1..MaxN : k # n => blob'[k] = blob[k]
        BY <2>1, <2>3
    <2>5. Retained(meta.vers) \subseteq 1..MaxN
        BY WithinBound
    <2> HIDE DEF n, d
    <2>6. CallAlone(p)'
        <3>1. StillHeld(p)' /\ Established(p)'
            BY <2>1, <2>2, <2>3, <2>4 DEF StillHeld, Established, Doing, n, d
        <3>2. faults = 0 => NoOrphan(p)'
            BY <2>1, <2>2, <2>3, <2>4 DEF NoOrphan, Doing, n, d
        <3>3. faults = 0 => Mirrored(p)'
            BY <2>1, <2>2 DEF Mirrored, Doing
        <3> QED
            BY <2>1, <3>1, <3>2, <3>3 DEF CallAlone
    <2>7. Newest(meta)' /\ BodiesMatch' /\ CurrentReadable'
        BY <2>1, <2>3, <2>4, <2>5 DEF BodiesMatch, CurrentReadable, Newest
    <2> QED
        BY <2>6, <2>7, NobodyElse
<1>3. CASE Prune(p)
    <2> DEFINE n == NextVersion(held[p])  d == call[p].data  drop == Dropped(AddVersion(held[p], d))
    <2>1. PICK gone \in SUBSET drop :
          /\ pc[p] = "prune" /\ pc'[p] = "save"
          /\ blob' = [k \in DOMAIN blob |-> IF k \in gone THEN NoData ELSE blob[k]]
          /\ faults' = IF gone = drop THEN faults ELSE faults + 1
          /\ UNCHANGED <<meta, live, call, held, carried, liveVer>>
        BY <1>3 DEF Prune, Goto, TypeOK
    <2>2. call[p].op = "put" /\ d \in Data /\ held[p] = meta /\ n \in 1..MaxN
        BY <2>1 DEF StillHeld, ControlAt
    <2>3. /\ drop \subseteq Retained(meta.vers) /\ meta.current \notin drop /\ n \notin Retained(meta.vers)
        BY <2>2, PutSaves, NextIsFree
    <2>4. \A k \in 1..MaxN : blob'[k] = IF k \in gone THEN NoData ELSE blob[k]
        BY <2>1
    <2>5. Retained(meta.vers) \subseteq 1..MaxN
        BY WithinBound
    <2>6. faults' = 0 => faults = 0 /\ gone = drop
        BY <2>1, FileLogAssumption DEF TypeOK
    <2> HIDE DEF n, d, drop
    <2>7. CallAlone(p)'
        <3>1. StillHeld(p)' /\ Established(p)'
            BY <2>1, <2>2, <2>3, <2>4 DEF StillHeld, Established, Doing, n, d
        <3>2. faults' = 0 => NoOrphan(p)'
            BY <2>1, <2>2, <2>3, <2>4, <2>5, <2>6 DEF NoOrphan, Doing, n, d, drop
        <3>3. faults' = 0 => Mirrored(p)'
            BY <2>1, <2>2, <2>6 DEF Mirrored, Doing
        <3> QED
            BY <3>1, <3>2, <3>3 DEF CallAlone
    <2>8. Newest(meta)' /\ BodiesMatch' /\ CurrentReadable'
        BY <2>1, <2>3, <2>4, <2>5 DEF BodiesMatch, CurrentReadable, Newest
    <2> QED
        BY <2>7, <2>8, NobodyElse
<1>4. CASE Destroy(p)
    <2> DEFINE n == call[p].n
    <2>1. /\ pc[p] = "ready" /\ call[p].op = "destroy" /\ pc'[p] = "save"
          /\ n \in DOMAIN held[p].vers /\ n # held[p].current
          /\ UNCHANGED <<meta, live, call, held, carried, liveVer>>
        BY <1>4 DEF Destroy, MayDestroy, Goto, TypeOK
    <2>2. \/ blob' = [blob EXCEPT ![n] = NoData] /\ faults' = faults
          \/ blob' = blob /\ faults' = faults + 1
        BY <1>4 DEF Destroy
    <2>3. held[p] = meta
        BY <2>1 DEF StillHeld
    <2>4. n \in 1..MaxN /\ Retained(meta.vers) \subseteq 1..MaxN
        BY <2>1, <2>3, WithinBound
    <2>5. /\ \A k \in 1..MaxN : k # n => blob'[k] = blob[k]
          /\ blob'[n] \in {blob[n], NoData}
          /\ faults' = 0 => faults = 0 /\ blob'[n] = NoData
        BY <2>2, <2>4, FileLogAssumption DEF TypeOK
    <2> HIDE DEF n
    <2>6. CallAlone(p)'
        <3>1. StillHeld(p)' /\ Established(p)'
            BY <2>1, <2>3 DEF StillHeld, Established, Doing, n
        <3>2. faults' = 0 => NoOrphan(p)'
            BY <2>1, <2>3, <2>4, <2>5 DEF NoOrphan, Doing, n
        <3>3. faults' = 0 => Mirrored(p)'
            BY <2>1, <2>5 DEF Mirrored, Doing
        <3> QED
            BY <3>1, <3>2, <3>3 DEF CallAlone
    <2>7. Newest(meta)' /\ BodiesMatch' /\ CurrentReadable'
        BY <2>1, <2>3, <2>4, <2>5 DEF BodiesMatch, CurrentReadable, Newest
    <2> QED
        BY <2>6, <2>7, NobodyElse
<1> QED
    BY <1>1, <1>2, <1>3, <1>4

LEMMA LiveSteps ==
    ASSUME Alone, AloneInv, TInv', NEW p \in Procs, MirrorPut(p) \/ DeleteLive(p)
    PROVE  AloneInv'
<1> USE Here
<1>1. CASE MirrorPut(p)
    <2>1. pc[p] = "mirrorPut" /\ live' = carried[p] /\ UNCHANGED <<meta, blob, faults>>
        BY <1>1 DEF MirrorPut, AfterMirror
    <2>2. CASE call[p].op = "put"
        <3>1. \E r : Return(p, r)
            BY <1>1, <2>2 DEF MirrorPut, AfterMirror
        <3>2. faults' = 0 => AtRest'
            BY <2>1, <2>2 DEF NoOrphan, Established, Doing, AtRest
        <3> QED
            BY <2>1, <3>1, <3>2, Ends
    <2>3. CASE call[p].op = "undelete"
        <3>1. pc'[p] = "save" /\ UNCHANGED <<call, held, carried, liveVer>>
            BY <1>1, <2>3 DEF MirrorPut, AfterMirror, Goto, TypeOK
        <3>2. CallAlone(p)'
            BY <2>1, <2>3, <3>1 DEF CallAlone, StillHeld, Established, NoOrphan, Mirrored, Doing
        <3> QED
            BY <2>1, <3>2, ReadsOnly
    <2> QED
        BY <2>1, <2>2, <2>3 DEF ControlAt
<1>2. CASE DeleteLive(p)
    <2>1. CASE Fail(p)
        <3>1. /\ pc[p] = "unmirror" /\ call[p].op = "delete" /\ Return(p, Failure(p))
              /\ UNCHANGED objects /\ faults' = faults
            BY <1>2, <2>1 DEF DeleteLive, Fail, ControlAt
        <3>2. faults' = 0 => AtRest'
            BY <3>1 DEF NoOrphan, Mirrored, Doing, AtRest, objects
        <3> QED
            BY <3>1, <3>2, Ends DEF objects
    <2>2. CASE ~Fail(p)
        <3>1. /\ pc[p] = "unmirror" /\ call[p].op = "delete" /\ pc'[p] = "save" /\ live' = NoData
              /\ UNCHANGED <<meta, blob, call, held, carried, liveVer, faults>>
            BY <1>2, <2>2 DEF DeleteLive, Goto, TypeOK, ControlAt
        <3>2. CallAlone(p)'
            BY <3>1 DEF CallAlone, StillHeld, Established, NoOrphan, Mirrored, Doing
        <3> QED
            BY <3>1, <3>2, ReadsOnly
    <2> QED
        BY <2>1, <2>2
<1> QED
    BY <1>1, <1>2

LEMMA MetaSteps ==
    ASSUME MaxVersions >= 2, Alone, AloneInv, TInv', NEW p \in Procs, AdoptMeta(p) \/ SaveMeta(p)
    PROVE  AloneInv'
<1> USE Here
<1>1. CASE AdoptMeta(p)
    <2>1. pc[p] = "adoptMeta" /\ held[p] = meta /\ meta = EmptyMeta
        BY <1>1 DEF AdoptMeta, StillHeld, ControlAt
    <2> DEFINE e == NewVersion(carried[p])
    <2>2. /\ meta' = [current |-> 1, vers |-> <<e>>] /\ pc'[p] = "load"
          /\ UNCHANGED <<blob, live, call, held, carried, liveVer, faults>>
        BY <1>1, <2>1 DEF AdoptMeta, Fail, Goto, TypeOK
    <2>3. e.data = carried[p] /\ ~e.destroyed
        BY DEF NewVersion
    <2>4. blob[1] = carried[p]
        BY <2>1 DEF Established
    <2>5. /\ meta'.current = 1 /\ Retained(meta'.vers) = {1}
          /\ meta'.vers[1].data = carried[p]
        BY <2>2, <2>3 DEF Retained
    <2>6. CallAlone(p)'
        <3>1. StillHeld(p)' /\ Established(p)'
            BY <2>2 DEF StillHeld, Established, Doing
        <3>2. Retained(meta.vers) = {}
            BY <2>1 DEF Retained, EmptyMeta
        <3>3. faults = 0 => NoOrphan(p)'
            BY <2>1, <2>2, <2>5, <3>2 DEF NoOrphan, Doing
        <3>4. Shown(meta') = carried[p]
            BY <2>5 DEF Shown
        <3>5. faults = 0 => Mirrored(p)'
            BY <2>1, <2>2, <3>4 DEF Mirrored, Doing
        <3> QED
            BY <2>2, <3>1, <3>3, <3>5 DEF CallAlone
    <2>7. Newest(meta)' /\ CurrentReadable' /\ BodiesMatch'
        BY <2>2, <2>4, <2>5 DEF Newest, CurrentReadable, BodiesMatch
    <2> QED
        BY <2>6, <2>7, NobodyElse
<1>2. CASE SaveMeta(p)
    <2>1. /\ pc[p] = "save" /\ held[p] = meta /\ meta' = NewMeta(meta, call[p])
          /\ UNCHANGED <<blob, live, faults>>
        BY <1>2 DEF SaveMeta, WriteMeta
    <2>2. Retained(meta.vers) \subseteq 1..MaxN
        BY WithinBound
    <2>3. CASE call[p].op = "put"
        <3> DEFINE n == NextVersion(meta)  d == call[p].data  drop == Dropped(AddVersion(meta, d))
        <3>1. /\ pc'[p] = "mirror" /\ carried'[p] = d /\ call'[p] = call[p]
            BY <1>2, <2>3 DEF SaveMeta, WriteMeta, Goto, TypeOK
        <3>2. d \in Data /\ n \in 1..MaxN /\ blob[n] = d
            BY <2>1, <2>3 DEF ControlAt, Established, Doing
        <3>3. /\ meta'.current = n /\ n # 0 /\ Newest(meta')
              /\ Retained(meta'.vers) = (Retained(meta.vers) \cup {n}) \ drop
              /\ n \in Retained(meta'.vers) /\ meta'.vers[n].data = d
              /\ \A k \in Retained(meta.vers) : meta'.vers[k].data = meta.vers[k].data
            BY <2>1, <2>3, <3>2, PutSaves DEF NewMeta
        <3>4. faults = 0 => \A k \in drop : blob[k] = NoData
            BY <2>1, <2>3 DEF NoOrphan, Doing
        <3>5. faults = 0 => \A k \in 1..MaxN : blob[k] # NoData => k \in Retained(meta.vers) \/ k = n
            BY <2>1, <2>3 DEF NoOrphan, Doing
        <3> HIDE DEF n, d, drop
        <3>6. CallAlone(p)'
            BY <2>1, <2>3, <3>1, <3>3, <3>4, <3>5
            DEF CallAlone, StillHeld, Established, NoOrphan, Mirrored, Shown, Doing
        <3>7. CurrentReadable' /\ BodiesMatch'
            BY <2>1, <3>2, <3>3 DEF CurrentReadable, BodiesMatch
        <3> QED
            BY <3>3, <3>6, <3>7, NobodyElse
    <2>4. CASE call[p].op # "put"
        <3> DEFINE c == call[p]  best == Best(meta)
        <3>1. c.op \in {"delete", "undelete", "destroy"}
            BY <2>1, <2>4 DEF ControlAt
        <3>2. /\ \A k \in DOMAIN meta.vers : meta'.vers[k].data = meta.vers[k].data
              /\ meta'.vers = <<>> <=> meta.vers = <<>>
              /\ c.op = "delete" => meta'.current = 0
              /\ c.op = "undelete" => meta'.current = best
              /\ c.op = "destroy" => meta'.current = meta.current
              /\ Retained(meta'.vers) = Retained(meta.vers) \ IF c.op = "destroy" THEN {c.n} ELSE {}
            <4>1. MarkedAs(NewMeta(meta, c), meta, c)
                BY <3>1, MarkSaves
            <4>2. MarkedAs(meta', meta, c)
                BY <2>1, <4>1
            <4> HIDE DEF c
            <4> QED
                BY <4>2 DEF MarkedAs
        <3>3. /\ c.op = "delete" => meta.current # 0
              /\ c.op = "undelete" => best # 0 /\ blob[best] = meta.vers[best].data
              /\ c.op = "destroy" => c.n # meta.current
            BY <2>1 DEF Established, Doing
        <3>4. c.op = "undelete" => best \in Retained(meta.vers) /\ \A k \in Retained(meta.vers) : k <= best
            BY <3>3, BestType DEF Best
        <3>5. Retained(meta.vers) \subseteq DOMAIN meta.vers
            BY MetaFacts
        <3>6. Newest(meta)' /\ CurrentReadable' /\ BodiesMatch'
            BY <2>1, <3>1, <3>2, <3>3, <3>4, <3>5 DEF Newest, CurrentReadable, BodiesMatch
        <3>7. PICK r : Return(p, r)
            BY <1>2, <2>4 DEF SaveMeta, WriteMeta
        <3>8. pc'[p] = "idle" /\ call'[p].op = "none"
            BY <3>7 DEF Return, Goto, NoCall, TypeOK
        <3>9. faults = 0 => AtRest'
            <4> SUFFICES ASSUME faults = 0 PROVE AtRest'
                OBVIOUS
            <4>1. /\ \A k \in 1..MaxN : blob[k] # NoData => k \in Retained(meta.vers)
                  /\ c.op = "destroy" => blob[c.n] = NoData
                BY <2>1, <2>4 DEF NoOrphan, Doing
            <4>2. /\ c.op = "delete" => live = NoData
                  /\ c.op = "undelete" => live = meta.vers[best].data
                  /\ c.op = "destroy" => meta = EmptyMeta \/ live = Shown(meta)
                BY <2>1 DEF Mirrored, Doing
            <4>3. c.op = "destroy" => meta.vers # <<>>
                BY <2>1, <2>4 DEF Established, Doing
            <4>4. live' = Shown(meta')
                BY <2>1, <3>1, <3>2, <3>3, <3>4, <3>5, <4>2, <4>3 DEF Shown, EmptyMeta, Newest
            <4> QED
                BY <2>1, <3>1, <3>2, <4>1, <4>4 DEF AtRest
        <3>10. CallAlone(p)'
            BY <2>1, <3>8, <3>9 DEF CallAlone, StillHeld, Established, NoOrphan, Mirrored, Doing, AtRest
        <3> QED
            BY <3>6, <3>10, NobodyElse
    <2> QED
        BY <2>3, <2>4
<1> QED
    BY <1>1, <1>2

LEMMA AloneInitially == Init => AloneInv
<1> SUFFICES ASSUME Init PROVE AloneInv
    OBVIOUS
<1>1. TInv
    BY InitTInv
<1>2. meta = EmptyMeta /\ Retained(meta.vers) = {} /\ meta.current = 0
    BY DEF Init, EmptyMeta, Retained
<1>3. ASSUME NEW p \in Procs PROVE CallAlone(p)
    <2>1. pc[p] = "idle" /\ \A n \in 1..MaxN : blob[n] = NoData
        BY DEF Init
    <2> QED
        BY <1>2, <2>1 DEF CallAlone, StillHeld, Established, NoOrphan, Mirrored, Doing
<1> QED
    BY <1>1, <1>2, <1>3 DEF AloneInv, Newest, CurrentReadable, BodiesMatch

LEMMA AloneStays ==
    ASSUME MaxVersions >= 2, Alone, AloneInv, [Next]_vars
    PROVE  AloneInv'
<1>1. TInv'
    BY StepTInv DEF AloneInv
<1>2. CASE UNCHANGED vars
    <2>1. ASSUME NEW p \in Procs PROVE CallAlone(p)'
        <3>1. CallAlone(p)
            BY DEF AloneInv
        <3>2. CallAlone(p)' <=> CallAlone(p)
            BY <1>2 DEF vars, CallAlone, StillHeld, Established, NoOrphan, Mirrored, Doing
        <3> QED
            BY <3>1, <3>2
    <2>2. Newest(meta)' /\ CurrentReadable' /\ BodiesMatch'
        BY <1>2 DEF AloneInv, vars, CurrentReadable, BodiesMatch
    <2> QED
        BY <1>1, <2>1, <2>2 DEF AloneInv
<1>3. CASE Next
    <2>1. PICK p \in Procs :
            \/ Begin(p) \/ Load(p) \/ Adopt(p) \/ PutSteps(p) \/ Commit(p)
            \/ Mirror(p) \/ Others(p) \/ Reads(p) \/ Abandon(p)
        BY <1>3 DEF Next
    <2>2. CASE Abandon(p)
        <3>1. Return(p, NoReply) /\ UNCHANGED <<meta, blob>> /\ faults' # 0
            BY <2>2, FileLogAssumption DEF Abandon, objects, AloneInv, TInv, TypeOK
        <3> QED
            BY <1>1, <3>1, Ends
    <2> QED
        BY <1>1, <2>1, <2>2, ReadingSteps, BlobSteps, LiveSteps, MetaSteps
        DEF Adopt, PutSteps, Commit, Mirror, Others
<1> QED
    BY <1>2, <1>3

LEMMA AloneAlways ==
    ASSUME MaxVersions >= 2, Alone
    PROVE  Spec => []AloneInv
<1>1. AloneInv /\ [Next]_vars => AloneInv'
    BY AloneStays
<1> QED
    BY <1>1, AloneInitially, PTL DEF Spec

-----------------------------------------------------------------------------
\* Whatever a single replica calls, undeletes and destroys, and wherever its calls are cut
\* short, the version the metadata names can be read and has the content it was
\* committed with (CurrentReadable).
THEOREM CurrentIsReadable ==
    ASSUME MaxVersions >= 2, Alone
    PROVE  Spec => []CurrentReadable
<1>1. AloneInv => CurrentReadable
    BY DEF AloneInv
<1> QED
    BY <1>1, AloneAlways, PTL

\* No body on disk is taken for that of another write: the blob of a version not destroyed
\* is that version's, or is gone (BodiesMatch).
THEOREM BodiesAreTheirs ==
    ASSUME MaxVersions >= 2, Alone
    PROVE  Spec => []BodiesMatch
<1>1. AloneInv => BodiesMatch
    BY DEF AloneInv
<1> QED
    BY <1>1, AloneAlways, PTL

\* Between calls the live copy that listings walk is the current version's content, unless
\* something was cut short before (MirrorExact).
THEOREM MirrorIsExact ==
    ASSUME MaxVersions >= 2, Alone
    PROVE  Spec => []MirrorExact
<1>1. AloneInv => MirrorExact
    BY DEF Alone, AloneInv, CallAlone, Mirrored, MirrorExact, Shown, Doing
<1> QED
    BY <1>1, AloneAlways, PTL

\* A put that holds the current token is never refused because of what an earlier call
\* left, unless that one was cut short (RefusedOnlyByRace).
THEOREM OnlyRacesRefuse ==
    ASSUME MaxVersions >= 2, Alone
    PROVE  Spec => RefusedOnlyByRace
<1> DEFINE Fair == \A p \in Writers :
            RefuseBlob(p) => \/ faults # 0
                             \/ meta # held[p]
                             \/ \E q \in Procs \ {p} : pc[q] # "idle"
<1>1. AloneInv => Fair
    <2> SUFFICES ASSUME AloneInv, NEW p \in Writers, RefuseBlob(p), faults = 0, meta = held[p]
                 PROVE  FALSE
        OBVIOUS
    <2>1. p \in Procs
        BY DEF Procs
    <2>2. /\ pc[p] = "ready" /\ NextVersion(meta) <= MaxN /\ blob[NextVersion(meta)] # NoData
        BY DEF RefuseBlob, AtPutBlob
    <2>3. meta \in Meta /\ Newest(meta) /\ NoOrphan(p)
        BY <2>1, Here
    <2>4. NextVersion(meta) \in 1..MaxN /\ NextVersion(meta) \notin Retained(meta.vers)
        BY <2>2, <2>3, NextIsFree, FileLogAssumption
    <2> QED
        BY <2>2, <2>3, <2>4 DEF NoOrphan, Doing
<1> QED
    BY <1>1, AloneAlways, PTL DEF RefusedOnlyByRace
=============================================================================
