---------------------------- MODULE FileLogProofs ----------------------------
(***************************************************************************)
(* Theorems about FileLog, for every number of replicas and readers, every *)
(* content, and every bound.                                               *)
(***************************************************************************)
EXTENDS FileLog, FiniteSetTheorems, SequenceTheorems, WellFoundedInduction, TLAPS

Bounded(m) == Len(m.vers) <= MaxN /\ m.current <= Len(m.vers)

\* Where a call stands and what it holds there.
ControlAt(p) ==
    /\ call[p].op = "put" => call[p].data \in Data
    /\ Bounded(held[p])
    /\ pc[p] \in {"adopt", "adoptBlob", "adoptMeta"} => held[p] = EmptyMeta
    /\ pc[p] \in {"adoptBlob", "adoptMeta"} => carried[p] \in Data
    /\ pc[p] = "adoptMeta" => 1 \in 1..MaxN
    /\ pc[p] = "prune" => call[p].op = "put"
    /\ pc[p] = "save" => call[p].op \in {"put", "delete", "undelete", "destroy"}
    /\ pc[p] \in {"prune", "save"} /\ call[p].op = "put" => NextVersion(held[p]) \in 1..MaxN
    /\ pc[p] \in {"mirror", "mirrorPut"} => call[p].op \in {"put", "undelete"}
    /\ pc[p] = "unmirror" => call[p].op = "delete"

ControlOK == \A p \in Procs : ControlAt(p)

TInv == TypeOK /\ ControlOK /\ Bounded(meta)

-----------------------------------------------------------------------------
(* Sequences *)

LEMMA FunctionIsSeq ==
    ASSUME NEW S, NEW n \in Nat, NEW f \in [1..n -> S]
    PROVE  f \in Seq(S) /\ Len(f) = n
<1>1. f \in Seq(S)
    BY SeqDef
<1>2. DOMAIN f = 1..Len(f) /\ Len(f) \in Nat
    BY <1>1, LenProperties
<1>3. DOMAIN f = 1..n
    OBVIOUS
<1> QED
    BY <1>1, <1>2, <1>3

\* Replacing an entry, wherever it is, leaves a sequence of the same length.
LEMMA ExceptIsSeq ==
    ASSUME NEW S, NEW s \in Seq(S), NEW i, NEW e, i \in DOMAIN s => e \in S
    PROVE  /\ [s EXCEPT ![i] = e] \in Seq(S)
           /\ Len([s EXCEPT ![i] = e]) = Len(s)
           /\ DOMAIN [s EXCEPT ![i] = e] = DOMAIN s
<1>1. Len(s) \in Nat /\ s \in [1..Len(s) -> S]
    BY LenProperties
<1>2. [s EXCEPT ![i] = e] \in [1..Len(s) -> S]
    BY <1>1
<1> QED
    BY <1>1, <1>2, FunctionIsSeq

-----------------------------------------------------------------------------
(* The operators on metadata *)

\* A non-empty set of numbers below a bound has a largest member.
LEMMA LargestExists ==
    ASSUME NEW N \in Nat, NEW S \in SUBSET (1..N), S # {}
    PROVE  \E n \in S : \A k \in S : k <= n
<1> DEFINE T == {N - n : n \in S}
<1>1. T \in SUBSET Nat /\ T # {}
    <2>1. \A n \in S : n \in Nat /\ n <= N
        OBVIOUS
    <2>2. \A n \in S : N - n \in Nat
        BY <2>1
    <2> QED
        BY <2>2
<1>2. PICK t \in T : \A u \in T : ~(<<u, t>> \in OpToRel(<, Nat))
    BY <1>1, NatLessThanWellFounded, WFMin
<1>3. \A u \in T : ~(u < t)
    BY <1>1, <1>2 DEF OpToRel
<1>4. PICK n \in S : t = N - n
    OBVIOUS
<1>5. ASSUME NEW k \in S PROVE k <= n
    <2>1. ~(N - k < N - n)
        BY <1>3, <1>4
    <2> QED
        BY <2>1
<1> QED
    BY <1>5

\* Best names a version of the log, or 0.
LEMMA BestType ==
    ASSUME NEW m \in Meta
    PROVE  Best(m) \in Nat /\ (Best(m) # 0 <=> Best(m) \in Retained(m.vers))
<1>1. Len(m.vers) \in Nat /\ Retained(m.vers) \in SUBSET (1..Len(m.vers))
    BY DEF Meta, Retained
<1>2. Retained(m.vers) # {} => \E n \in Retained(m.vers) : \A k \in Retained(m.vers) : k <= n
    BY <1>1, LargestExists
<1> QED
    BY <1>1, <1>2 DEF Best

\* The next version number is positive.
LEMMA NextVersionType ==
    ASSUME NEW m \in Meta
    PROVE  NextVersion(m) \in Nat \ {0}
BY DEF NextVersion, Meta

\* Adding a version and pruning keep metadata well formed.
LEMMA AddVersionType ==
    ASSUME NEW m \in Meta, NEW d \in Data
    PROVE  AddVersion(m, d) \in Meta
<1>1. NewVersion(d) \in VersionInfo
    BY DEF NewVersion, VersionInfo
<1>2. NextVersion(m) \in Nat
    BY NextVersionType
<1>3. m.vers \in Seq(VersionInfo)
    BY DEF Meta
<1>4. Append(m.vers, NewVersion(d)) \in Seq(VersionInfo)
    BY <1>1, <1>3
<1>5. [m.vers EXCEPT ![NextVersion(m)] = NewVersion(d)] \in Seq(VersionInfo)
    BY <1>1, <1>3, ExceptIsSeq
<1> QED
    BY <1>2, <1>4, <1>5 DEF AddVersion, Meta

LEMMA PrunedType ==
    ASSUME NEW m \in Meta
    PROVE  Pruned(m) \in Meta /\ Pruned(m).current = m.current /\ Len(Pruned(m).vers) = Len(m.vers)
<1> DEFINE v(n) == [m.vers[n] EXCEPT !.destroyed = @ \/ n \in Dropped(m)]
           vs == [n \in DOMAIN m.vers |-> v(n)]
<1>1. m.vers \in Seq(VersionInfo) /\ m.current \in Nat
    BY DEF Meta
<1>2. Len(m.vers) \in Nat /\ DOMAIN m.vers = 1..Len(m.vers)
    BY <1>1, LenProperties
<1>3. ASSUME NEW n \in DOMAIN m.vers PROVE v(n) \in VersionInfo
    <2>1. m.vers[n] \in VersionInfo
        BY <1>1, <1>2, <1>3, ElementOfSeq
    <2> QED
        BY <2>1 DEF VersionInfo
<1>4. vs \in [1..Len(m.vers) -> VersionInfo]
    BY <1>2, <1>3
<1>5. vs \in Seq(VersionInfo) /\ Len(vs) = Len(m.vers)
    BY <1>2, <1>4, FunctionIsSeq
<1>6. Pruned(m) = [current |-> m.current, vers |-> vs]
    BY DEF Pruned
<1> QED
    BY <1>1, <1>5, <1>6 DEF Meta

\* Pruning marks the entries it drops, and rewrites nothing else.
LEMMA PrunedEntry ==
    ASSUME NEW m \in Meta, NEW n \in DOMAIN m.vers
    PROVE  /\ Pruned(m).vers[n].data = m.vers[n].data
           /\ Pruned(m).vers[n].destroyed = (m.vers[n].destroyed \/ n \in Dropped(m))
<1>1. m.vers[n] \in VersionInfo
    <2>1. m.vers \in Seq(VersionInfo) /\ DOMAIN m.vers = 1..Len(m.vers)
        BY LenProperties DEF Meta
    <2> QED
        BY <2>1, ElementOfSeq
<1> DEFINE e == [m.vers[n] EXCEPT !.destroyed = m.vers[n].destroyed \/ n \in Dropped(m)]
<1>2. Pruned(m).vers[n] = e
    BY DEF Pruned
<1>3. e.data = m.vers[n].data /\ e.destroyed = (m.vers[n].destroyed \/ n \in Dropped(m))
    BY <1>1 DEF VersionInfo
<1> QED
    BY <1>2, <1>3

\* Marking an entry keeps metadata well formed.
LEMMA MarkedType ==
    ASSUME NEW m \in Meta, NEW i
    PROVE  /\ [m.vers EXCEPT ![i].deleted = TRUE] \in Seq(VersionInfo)
           /\ [m.vers EXCEPT ![i].deleted = FALSE] \in Seq(VersionInfo)
           /\ [m.vers EXCEPT ![i].destroyed = TRUE] \in Seq(VersionInfo)
           /\ Len([m.vers EXCEPT ![i].deleted = TRUE]) = Len(m.vers)
           /\ Len([m.vers EXCEPT ![i].deleted = FALSE]) = Len(m.vers)
           /\ Len([m.vers EXCEPT ![i].destroyed = TRUE]) = Len(m.vers)
<1>1. m.vers \in Seq(VersionInfo)
    BY DEF Meta
<1>2. DOMAIN m.vers = 1..Len(m.vers)
    BY <1>1, LenProperties
<1>3. i \in DOMAIN m.vers => m.vers[i] \in VersionInfo
    BY <1>1, <1>2, ElementOfSeq
<1>4. i \in DOMAIN m.vers =>
        /\ [m.vers[i] EXCEPT !.deleted = TRUE] \in VersionInfo
        /\ [m.vers[i] EXCEPT !.deleted = FALSE] \in VersionInfo
        /\ [m.vers[i] EXCEPT !.destroyed = TRUE] \in VersionInfo
    BY <1>3 DEF VersionInfo
<1>5. ASSUME NEW e, i \in DOMAIN m.vers => e \in VersionInfo
      PROVE  [m.vers EXCEPT ![i] = e] \in Seq(VersionInfo) /\ Len([m.vers EXCEPT ![i] = e]) = Len(m.vers)
    BY <1>1, <1>5, ExceptIsSeq
<1>6. /\ [m.vers EXCEPT ![i].deleted = TRUE] = [m.vers EXCEPT ![i] = [m.vers[i] EXCEPT !.deleted = TRUE]]
      /\ [m.vers EXCEPT ![i].deleted = FALSE] = [m.vers EXCEPT ![i] = [m.vers[i] EXCEPT !.deleted = FALSE]]
      /\ [m.vers EXCEPT ![i].destroyed = TRUE] = [m.vers EXCEPT ![i] = [m.vers[i] EXCEPT !.destroyed = TRUE]]
    OBVIOUS
<1> QED
    BY <1>4, <1>5, <1>6, Zenon

LEMMA NewMetaType ==
    ASSUME NEW m \in Meta, NEW c,
           c.op \in {"put", "delete", "undelete", "destroy"},
           c.op = "put" => c.data \in Data
    PROVE  NewMeta(m, c) \in Meta
<1>1. CASE c.op = "put"
    BY <1>1, AddVersionType, PrunedType DEF NewMeta
<1>2. CASE c.op = "delete"
    BY <1>2, MarkedType DEF NewMeta, Meta
<1>3. CASE c.op = "undelete"
    BY <1>3, BestType, MarkedType DEF NewMeta, Meta
<1>4. CASE c.op = "destroy"
    BY <1>4, MarkedType DEF NewMeta, Meta
<1> QED
    BY <1>1, <1>2, <1>3, <1>4

\* A save keeps the log within its bound, and never shortens it.
LEMMA NewMetaBounded ==
    ASSUME NEW m \in Meta, Bounded(m), NEW c,
           c.op \in {"put", "delete", "undelete", "destroy"},
           c.op = "put" => c.data \in Data /\ NextVersion(m) \in 1..MaxN
    PROVE  /\ Bounded(NewMeta(m, c))
           /\ IF c.op = "put" /\ NextVersion(m) = Len(m.vers) + 1
              THEN Len(NewMeta(m, c).vers) = Len(m.vers) + 1
              ELSE Len(NewMeta(m, c).vers) = Len(m.vers)
<1>1. m.vers \in Seq(VersionInfo) /\ Len(m.vers) \in Nat /\ m.current \in Nat
      /\ DOMAIN m.vers = 1..Len(m.vers)
    BY LenProperties DEF Meta
<1>2. CASE c.op = "put"
    <2> DEFINE n == NextVersion(m)
    <2>1. /\ Len(NewMeta(m, c).vers) = Len(AddVersion(m, c.data).vers)
          /\ NewMeta(m, c).current = n
        BY <1>2, AddVersionType, PrunedType DEF NewMeta, AddVersion
    <2>2. NewVersion(c.data) \in VersionInfo
        BY <1>2 DEF NewVersion, VersionInfo
    <2>3. CASE n \in DOMAIN m.vers
        <3>1. AddVersion(m, c.data).vers = [m.vers EXCEPT ![n] = NewVersion(c.data)]
            BY <2>3 DEF AddVersion
        <3>2. Len(AddVersion(m, c.data).vers) = Len(m.vers)
            BY <1>1, <2>2, <2>3, <3>1, ExceptIsSeq
        <3> QED
            BY <1>1, <1>2, <2>1, <2>3, <3>2 DEF Bounded
    <2>4. CASE n \notin DOMAIN m.vers
        <3>1. AddVersion(m, c.data).vers = Append(m.vers, NewVersion(c.data))
            BY <2>4 DEF AddVersion
        <3>2. n = Len(m.vers) + 1
            BY <1>1, <2>4 DEF NextVersion, Bounded
        <3> QED
            BY <1>1, <1>2, <2>1, <2>2, <3>1, <3>2 DEF Bounded
    <2> QED
        BY <2>3, <2>4
<1>3. CASE c.op # "put"
    <2>1. Len(NewMeta(m, c).vers) = Len(m.vers)
        BY <1>3, MarkedType DEF NewMeta
    <2>2. NewMeta(m, c).current \in {0, m.current, Best(m)}
        <3>1. \E v : \/ NewMeta(m, c) = [current |-> 0, vers |-> v]
                     \/ NewMeta(m, c) = [current |-> m.current, vers |-> v]
                     \/ NewMeta(m, c) = [current |-> Best(m), vers |-> v]
            BY <1>3, Zenon DEF NewMeta
        <3> QED
            BY <3>1
    <2>3. Best(m) <= Len(m.vers)
        BY <1>1, BestType DEF Retained
    <2> QED
        BY <1>1, <1>3, <2>1, <2>2, <2>3 DEF Bounded
<1> QED
    BY <1>2, <1>3

LEMMA PairsType ==
    ASSUME NEW m \in Meta
    PROVE  Pairs(m) \subseteq (Nat \X Data)
<1>1. m.vers \in Seq(VersionInfo)
    BY DEF Meta
<1>2. ASSUME NEW n \in DOMAIN m.vers PROVE n \in Nat /\ m.vers[n].data \in Data
    <2>1. DOMAIN m.vers = 1..Len(m.vers) /\ Len(m.vers) \in Nat
        BY <1>1, LenProperties
    <2>2. m.vers[n] \in VersionInfo
        BY <1>1, <1>2, <2>1, ElementOfSeq
    <2> QED
        BY <2>1, <2>2 DEF VersionInfo
<1> QED
    BY <1>2 DEF Pairs

-----------------------------------------------------------------------------
(* Type correctness *)

LEMMA EmptyTypes == EmptyMeta \in Meta /\ NoCall \in Call /\ NoReply \in Reply
<1>1. <<>> \in Seq(VersionInfo)
    OBVIOUS
<1> QED
    BY <1>1 DEF EmptyMeta, Meta, NoCall, Call, NoReply, Reply, Token, MaybeData

\* A call that returns leaves nothing behind but its answer.
LEMMA ReturnLocals ==
    ASSUME TInv, NEW p \in Procs, NEW r \in Reply, Return(p, r)
    PROVE  /\ pc' \in [Procs -> PC] /\ call' \in [Procs -> Call]
           /\ held' \in [Procs -> Meta] /\ carried' \in [Procs -> MaybeData]
           /\ liveVer' \in [Procs -> MaybeData] /\ reply' \in [Procs -> Reply]
           /\ ControlOK'
<1>1. /\ pc' \in [Procs -> PC] /\ call' \in [Procs -> Call]
      /\ held' \in [Procs -> Meta] /\ carried' \in [Procs -> MaybeData]
      /\ liveVer' \in [Procs -> MaybeData] /\ reply' \in [Procs -> Reply]
    BY EmptyTypes DEF TInv, TypeOK, Return, Goto, PC, MaybeData
<1>2. ASSUME NEW q \in Procs PROVE ControlAt(q)'
    <2>1. CASE q = p
        BY <2>1, FileLogAssumption DEF TInv, TypeOK, Return, Goto, ControlAt, NoCall, EmptyMeta, Bounded
    <2>2. CASE q # p
        BY <2>2 DEF TInv, TypeOK, ControlOK, ControlAt, Return, Goto, NextVersion
    <2> QED
        BY <2>1, <2>2
<1> QED
    BY <1>1, <1>2 DEF ControlOK

LEMMA ReplyTypes ==
    ASSUME TInv, NEW p \in Procs
    PROVE  /\ Failure(p) \in Reply
           /\ \A v \in Token, d \in MaybeData : Success(p, v, d) \in Reply
<1>1. call[p] \in Call
    BY DEF TInv, TypeOK
<1>2. Failure(p) = [op |-> call[p].op, ok |-> FALSE, ver |-> 0, data |-> NoData]
    BY DEF Failure, NoReply
<1> QED
    BY <1>1, <1>2 DEF Success, Call, Reply, Token, MaybeData

LEMMA FailTInv ==
    ASSUME TInv, NEW p \in Procs, Fail(p)
    PROVE  TInv'
<1>1. Failure(p) \in Reply
    BY ReplyTypes
<1>2. Return(p, Failure(p)) /\ UNCHANGED <<objects, calls, faults, committed, erased>>
    BY DEF Fail
<1> QED
    BY <1>1, <1>2, ReturnLocals DEF TInv, TypeOK, objects

\* A step of p that touches only p's own entries disturbs no other call.
LEMMA OthersKept ==
    ASSUME TInv, NEW p \in Procs, NEW l, NEW c, NEW h, NEW b, ControlAt(p)',
           pc' = [pc EXCEPT ![p] = l], call' = [call EXCEPT ![p] = c],
           held' = [held EXCEPT ![p] = h], carried' = [carried EXCEPT ![p] = b]
    PROVE  ControlOK'
<1>1. ASSUME NEW q \in Procs, q # p PROVE ControlAt(q)'
    BY <1>1 DEF TInv, TypeOK, ControlOK, ControlAt, NextVersion
<1> QED
    BY <1>1 DEF ControlOK

\* The same for a step that only moves p on.
LEMMA MovedOn ==
    ASSUME TInv, NEW p \in Procs, NEW l, Goto(p, l), ControlAt(p)',
           UNCHANGED <<call, held, carried>>
    PROVE  ControlOK'
<1>1. /\ pc' = [pc EXCEPT ![p] = l] /\ call' = [call EXCEPT ![p] = call[p]]
      /\ held' = [held EXCEPT ![p] = held[p]] /\ carried' = [carried EXCEPT ![p] = carried[p]]
    BY DEF Goto, TInv, TypeOK
<1> QED
    BY <1>1, OthersKept

LEMMA StepTInv ==
    ASSUME TInv, [Next]_vars
    PROVE  TInv'
<1> USE FileLogAssumption
<1>0. ASSUME UNCHANGED vars PROVE TInv'
    BY <1>0 DEF vars, TInv, TypeOK, ControlOK, ControlAt, NextVersion
<1> SUFFICES ASSUME NEW p \in Procs,
                    \/ Begin(p) \/ Load(p) \/ Adopt(p) \/ PutSteps(p) \/ Commit(p)
                    \/ Mirror(p) \/ Others(p) \/ Reads(p) \/ Abandon(p)
             PROVE  TInv'
    BY <1>0 DEF Next
<1>1. call[p] \in Call /\ held[p] \in Meta /\ carried[p] \in MaybeData /\ ControlAt(p)
    BY DEF TInv, TypeOK, ControlOK
<1>2. CASE Begin(p)
    <2>1. PICK c : c \in Call /\ Request(p, c) /\ (c.op = "put" => c.data \in Data)
        <3>1. PICK op \in MutatingOps \cup ReadOps, w \in Token, d \in MaybeData, n \in Nat :
                /\ Request(p, Asking(op, w, d, n))
                /\ op = "put" => d \in Data
            BY <1>2 DEF Begin, ReadOps, Token, MaybeData
        <3>2. Asking(op, w, d, n) \in Call /\ Asking(op, w, d, n).op = op
              /\ Asking(op, w, d, n).data = d
            BY DEF Asking, Call
        <3> QED
            BY <3>1, <3>2
    <2>2. TypeOK'
        BY <2>1, EmptyTypes DEF TInv, TypeOK, Request, Goto, PC, objects
    <2>3. ControlAt(p)'
        BY <1>1, <2>1 DEF TInv, TypeOK, Request, Goto, ControlAt
    <2>4. held' = [held EXCEPT ![p] = held[p]] /\ carried' = [carried EXCEPT ![p] = carried[p]]
        BY <2>1 DEF Request, TInv, TypeOK
    <2> QED
        BY <2>1, <2>2, <2>3, <2>4, OthersKept DEF Request, Goto, TInv, objects, Bounded
<1>3. CASE Load(p)
    <2>1. TypeOK'
        BY <1>3 DEF TInv, TypeOK, Load, Goto, PC, objects
    <2>2. ControlAt(p)'
        BY <1>1, <1>3 DEF TInv, TypeOK, Load, Goto, ControlAt
    <2>3. call' = [call EXCEPT ![p] = call[p]] /\ carried' = [carried EXCEPT ![p] = carried[p]]
        BY <1>3 DEF Load, TInv, TypeOK
    <2> QED
        BY <1>3, <2>1, <2>2, <2>3, OthersKept DEF Load, Goto, TInv, objects, Bounded
<1>4. CASE Adopt(p)
    <2>1. CASE AdoptRead(p)
        <3>1. TypeOK'
            BY <2>1 DEF TInv, TypeOK, AdoptRead, Goto, PC, objects
        <3>2. ControlAt(p)'
            BY <1>1, <2>1 DEF TInv, TypeOK, AdoptRead, Goto, ControlAt, MaybeData, objects
        <3>3. call' = [call EXCEPT ![p] = call[p]] /\ held' = [held EXCEPT ![p] = held[p]]
            BY <2>1 DEF AdoptRead, TInv, TypeOK
        <3> QED
            BY <2>1, <3>1, <3>2, <3>3, OthersKept DEF AdoptRead, Goto, TInv, objects, Bounded
    <2>2. CASE AdoptBlob(p)
        <3>1. CASE Fail(p)
            BY <3>1, FailTInv
        <3>2. CASE ~Fail(p)
            <4>1. TypeOK'
                BY <1>1, <2>2, <3>2 DEF TInv, TypeOK, AdoptBlob, Goto, PC
            <4>2. ControlAt(p)'
                BY <1>1, <2>2, <3>2 DEF TInv, TypeOK, AdoptBlob, Goto, ControlAt
            <4> QED
                BY <2>2, <3>2, <4>1, <4>2, MovedOn DEF AdoptBlob, TInv, objects, Bounded
        <3> QED
            BY <3>1, <3>2
    <2>3. CASE AdoptMeta(p)
        <3>1. CASE Fail(p)
            BY <3>1, FailTInv
        <3>2. CASE ~Fail(p)
            <4>1. meta' \in Meta /\ Bounded(meta')
                <5>1. NewVersion(carried[p]) \in VersionInfo /\ 1 <= MaxN
                    BY <1>1, <2>3 DEF AdoptMeta, ControlAt, NewVersion, VersionInfo
                <5>2. meta' = [current |-> 1, vers |-> <<NewVersion(carried[p])>>]
                    BY <2>3, <3>2 DEF AdoptMeta
                <5> QED
                    BY <5>1, <5>2 DEF Meta, Bounded
            <4>2. committed' \subseteq (Nat \X Data)
                BY <2>3, <3>2, <4>1, PairsType DEF AdoptMeta, TInv, TypeOK, Pairs
            <4>3. TypeOK'
                BY <2>3, <3>2, <4>1, <4>2 DEF TInv, TypeOK, AdoptMeta, Goto, PC
            <4>4. ControlAt(p)'
                BY <1>1, <2>3, <3>2 DEF TInv, TypeOK, AdoptMeta, Goto, ControlAt
            <4> QED
                BY <2>3, <3>2, <4>1, <4>3, <4>4, MovedOn DEF AdoptMeta, TInv, objects, Bounded
        <3> QED
            BY <3>1, <3>2
    <2> QED
        BY <1>4, <2>1, <2>2, <2>3 DEF Adopt
<1>5. CASE PutSteps(p)
    <2>1. CASE Fail(p)
        BY <2>1, FailTInv
    <2>2. CASE ResolveToken(p) /\ ~Fail(p)
        <3> DEFINE c == [call[p] EXCEPT !.want = held[p].current]
        <3>1. call' = [call EXCEPT ![p] = c] /\ c \in Call /\ c.op = call[p].op /\ c.data = call[p].data
            BY <1>1, <2>2 DEF ResolveToken, Call, Meta, Token, TInv, TypeOK
        <3>2. TypeOK'
            BY <2>2, <3>1 DEF TInv, TypeOK, ResolveToken, objects
        <3>3. /\ pc' = [pc EXCEPT ![p] = "ready"] /\ held' = [held EXCEPT ![p] = held[p]]
              /\ carried' = [carried EXCEPT ![p] = carried[p]]
            BY <2>2 DEF ResolveToken, TInv, TypeOK
        <3>4. ControlAt(p)'
            BY <1>1, <3>1, <3>3 DEF TInv, TypeOK, ControlAt
        <3> QED
            BY <2>2, <3>1, <3>2, <3>3, <3>4, OthersKept DEF ResolveToken, TInv, objects, Bounded
    <2>3. CASE PutBlob(p)
        <3>1. AtPutBlob(p) /\ WriteBlob(p)
            BY <2>3 DEF PutBlob
        <3>2. NextVersion(held[p]) \in 1..MaxN /\ call[p].data \in Data
            BY <1>1, <3>1, NextVersionType DEF AtPutBlob, ControlAt
        <3>3. TypeOK'
            BY <3>1, <3>2 DEF TInv, TypeOK, WriteBlob, Goto, PC, MaybeData
        <3>4. ControlAt(p)'
            BY <1>1, <3>1, <3>2 DEF TInv, TypeOK, WriteBlob, AtPutBlob, Goto, ControlAt, NextVersion
        <3> QED
            BY <3>1, <3>3, <3>4, MovedOn DEF WriteBlob, TInv, objects, Bounded
    <2>4. CASE Prune(p)
        <3>1. TypeOK'
            <4>1. PICK gone \in SUBSET Dropped(AddVersion(held[p], call[p].data)) :
                    /\ blob' = [n \in DOMAIN blob |-> IF n \in gone THEN NoData ELSE blob[n]]
                    /\ faults' \in {faults, faults + 1} /\ faults' <= MaxFaults
                    /\ erased' = erased \cup gone
                BY <2>4 DEF Prune
            <4>2. AddVersion(held[p], call[p].data) \in Meta
                BY <1>1, <2>4, AddVersionType DEF Prune, ControlAt
            <4>3. gone \subseteq Nat
                <5> DEFINE m == AddVersion(held[p], call[p].data)
                <5>1. m.vers \in Seq(VersionInfo)
                    BY <4>2 DEF Meta
                <5> HIDE DEF m
                <5>2. DOMAIN m.vers \subseteq Nat
                    BY <5>1
                <5>3. gone \subseteq Dropped(m)
                    BY <4>1 DEF m
                <5> QED
                    BY <5>2, <5>3 DEF Dropped, Retained
            <4>4. blob' \in [1..MaxN -> MaybeData] /\ erased' \subseteq Nat
                BY <4>1, <4>3 DEF TInv, TypeOK, MaybeData
            <4>5. faults' \in 0..MaxFaults
                BY <4>1, FileLogAssumption DEF TInv, TypeOK
            <4> QED
                BY <2>4, <4>4, <4>5 DEF TInv, TypeOK, Prune, Goto, PC
        <3>2. ControlAt(p)'
            BY <1>1, <2>4 DEF TInv, TypeOK, Prune, Goto, ControlAt, NextVersion
        <3> QED
            BY <2>4, <3>1, <3>2, MovedOn DEF Prune, TInv, objects, Bounded
    <2> QED
        BY <1>5, <2>1, <2>2, <2>3, <2>4 DEF PutSteps, RejectStale, RefuseBlob, ResolveToken
<1>6. CASE Commit(p)
    <2>1. CASE Fail(p)
        BY <2>1, FailTInv
    <2>2. CASE SaveMeta(p)
        <3>1. meta' \in Meta /\ committed' \subseteq (Nat \X Data) /\ Bounded(meta') /\ UNCHANGED erased
            <4>1. meta' = NewMeta(held[p], call[p]) /\ committed' = committed \cup Pairs(meta')
                  /\ UNCHANGED erased
                BY <2>2 DEF SaveMeta, WriteMeta
            <4>2. meta' \in Meta
                BY <1>1, <2>2, <4>1, NewMetaType DEF SaveMeta, ControlAt
            <4>3. Bounded(meta')
                <5>1. /\ call[p].op \in {"put", "delete", "undelete", "destroy"}
                      /\ call[p].op = "put" => call[p].data \in Data /\ NextVersion(held[p]) \in 1..MaxN
                    BY <1>1, <2>2 DEF SaveMeta, ControlAt
                <5> QED
                    BY <1>1, <4>1, <5>1, NewMetaBounded DEF ControlAt
            <4> QED
                BY <4>1, <4>2, <4>3, PairsType DEF TInv, TypeOK
        <3>2. CASE call[p].op = "put"
            <4>1. Goto(p, "mirror") /\ carried' = [carried EXCEPT ![p] = call[p].data]
                  /\ UNCHANGED <<blob, live, call, held, liveVer, reply, calls, faults>>
                BY <2>2, <3>2 DEF SaveMeta, WriteMeta
            <4>2. TypeOK'
                BY <1>1, <3>1, <4>1 DEF TInv, TypeOK, Goto, PC, Call
            <4>3. ControlAt(p)'
                BY <1>1, <3>2, <4>1 DEF TInv, TypeOK, Goto, ControlAt
            <4>4. call' = [call EXCEPT ![p] = call[p]] /\ held' = [held EXCEPT ![p] = held[p]]
                BY <4>1 DEF TInv, TypeOK
            <4> QED
                BY <3>1, <4>1, <4>2, <4>3, <4>4, OthersKept DEF Goto, TInv, objects, Bounded
        <3>3. CASE call[p].op # "put"
            <4>1. Return(p, Success(p, meta'.current, NoData)) /\ UNCHANGED <<blob, live, calls, faults>>
                BY <2>2, <3>3 DEF SaveMeta, WriteMeta
            <4>2. Success(p, meta'.current, NoData) \in Reply
                BY <3>1, ReplyTypes DEF Meta, Token, MaybeData
            <4> QED
                BY <3>1, <4>1, <4>2, ReturnLocals DEF TInv, objects, Bounded, TypeOK
        <3> QED
            BY <3>2, <3>3
    <2> QED
        BY <1>6, <2>1, <2>2 DEF Commit, LoseMeta
<1>7. CASE Mirror(p)
    <2>1. CASE Fail(p)
        BY <2>1, FailTInv
    <2>2. CASE MirrorRead(p)
        <3>1. TypeOK'
            BY <2>2 DEF TInv, TypeOK, MirrorRead, Goto, PC, objects
        <3>2. ControlAt(p)'
            BY <1>1, <2>2 DEF TInv, TypeOK, MirrorRead, Goto, ControlAt
        <3> QED
            BY <2>2, <3>1, <3>2, MovedOn DEF MirrorRead, TInv, objects, Bounded
    <2>3. CASE MirrorPut(p)
        <3>1. live' \in MaybeData /\ AfterMirror(p) /\ pc[p] = "mirrorPut"
            BY <1>1, <2>3 DEF MirrorPut
        <3>2. CASE call[p].op = "put"
            <4>1. Return(p, Success(p, NextVersion(held[p]), call[p].data))
                  /\ UNCHANGED <<meta, blob, calls, faults, committed, erased>>
                BY <3>1, <3>2 DEF AfterMirror
            <4>2. Success(p, NextVersion(held[p]), call[p].data) \in Reply
                BY <1>1, NextVersionType, ReplyTypes DEF Call, Token
            <4> QED
                BY <3>1, <4>1, <4>2, ReturnLocals DEF TInv, objects, Bounded, TypeOK
        <3>3. CASE call[p].op # "put"
            <4>1. call[p].op = "undelete" /\ Goto(p, "save")
                  /\ UNCHANGED <<meta, blob, call, held, carried, liveVer, reply, calls, faults, committed, erased>>
                BY <3>1, <3>3 DEF AfterMirror
            <4>2. TypeOK'
                BY <3>1, <4>1 DEF TInv, TypeOK, Goto, PC
            <4>3. ControlAt(p)'
                BY <1>1, <4>1 DEF TInv, TypeOK, Goto, ControlAt
            <4> QED
                BY <4>1, <4>2, <4>3, MovedOn DEF TInv, objects, Bounded
        <3> QED
            BY <3>2, <3>3
    <2> QED
        BY <1>7, <2>1, <2>2, <2>3 DEF Mirror, LoseMirror
<1>8. CASE Others(p)
    <2>1. CASE Fail(p)
        BY <2>1, FailTInv
    <2>2. CASE DeleteRead(p)
        <3>1. TypeOK'
            BY <2>2 DEF TInv, TypeOK, DeleteRead, Goto, PC, objects
        <3>2. ControlAt(p)'
            BY <1>1, <2>2 DEF TInv, TypeOK, DeleteRead, Goto, ControlAt
        <3> QED
            BY <2>2, <3>1, <3>2, MovedOn DEF DeleteRead, TInv, objects, Bounded
    <2>3. CASE DeleteLive(p) /\ ~Fail(p)
        <3>1. TypeOK'
            BY <2>3 DEF TInv, TypeOK, DeleteLive, Goto, PC, MaybeData
        <3>2. ControlAt(p)'
            BY <1>1, <2>3 DEF TInv, TypeOK, DeleteLive, Goto, ControlAt
        <3> QED
            BY <2>3, <3>1, <3>2, MovedOn DEF DeleteLive, TInv, objects, Bounded
    <2>4. CASE UndeleteRead(p) /\ ~Fail(p)
        <3>1. Best(held[p]) # 0 => Best(held[p]) \in 1..MaxN
            <4>1. Retained(held[p].vers) \in SUBSET (1..Len(held[p].vers)) /\ Len(held[p].vers) \in Nat
                BY <1>1 DEF Meta, Retained
            <4>2. Best(held[p]) # 0 => Best(held[p]) \in Retained(held[p].vers)
                BY <1>1, BestType DEF Best
            <4> QED
                BY <1>1, <4>1, <4>2 DEF ControlAt, Bounded
        <3>2. /\ Best(held[p]) # 0 /\ Goto(p, "mirror")
              /\ carried' = [carried EXCEPT ![p] = blob[Best(held[p])]]
              /\ UNCHANGED <<meta, blob, live, call, held, liveVer, reply, calls, faults, committed, erased>>
              /\ call[p].op = "undelete"
            BY <2>4 DEF UndeleteRead, objects
        <3>3. TypeOK'
            BY <3>1, <3>2 DEF TInv, TypeOK, Goto, PC
        <3>4. ControlAt(p)'
            BY <1>1, <3>2 DEF TInv, TypeOK, Goto, ControlAt
        <3>5. call' = [call EXCEPT ![p] = call[p]] /\ held' = [held EXCEPT ![p] = held[p]]
            BY <3>2 DEF TInv, TypeOK
        <3> QED
            BY <3>2, <3>3, <3>4, <3>5, OthersKept DEF Goto, TInv, objects, Bounded
    <2>5. CASE Destroy(p)
        <3>1. TypeOK'
            <4>1. UNCHANGED faults \/ (faults < MaxFaults /\ faults' = faults + 1)
                BY <2>5 DEF Destroy
            <4>2. blob' \in [1..MaxN -> MaybeData]
                BY <2>5 DEF Destroy, TInv, TypeOK, MaybeData
            <4>3. call[p].n \in Nat
                BY DEF TInv, TypeOK, Call
            <4>4. erased' \subseteq Nat
                BY <2>5, <4>3 DEF Destroy, TInv, TypeOK
            <4> QED
                BY <2>5, <4>1, <4>2, <4>4 DEF TInv, TypeOK, Destroy, Goto, PC
        <3>2. ControlAt(p)'
            BY <1>1, <2>5 DEF TInv, TypeOK, Destroy, MayDestroy, Goto, ControlAt
        <3> QED
            BY <2>5, <3>1, <3>2, MovedOn DEF Destroy, TInv, objects, Bounded
    <2> QED
        BY <1>8, <2>1, <2>2, <2>3, <2>4, <2>5 DEF Others, RefuseDestroy, DeleteLive, UndeleteRead
<1>9. CASE Reads(p)
    <2>1. CASE Fail(p)
        BY <2>1, FailTInv
    <2>2. CASE GetLive(p)
        <3>1. PICK r \in Reply : Return(p, r)
            BY <2>2, ReplyTypes DEF GetLive, Token, MaybeData, TInv, TypeOK
        <3> QED
            BY <2>2, <3>1, ReturnLocals DEF GetLive, TInv, TypeOK, objects
    <2>3. CASE GetBlob(p)
        <3>1. Wanted(p) \in Token
            BY <1>1 DEF Wanted, Meta, Call, Token
        <3>2. Body(p) \in MaybeData
            <4>1. /\ held[p].vers \in Seq(VersionInfo) /\ Len(held[p].vers) \in Nat
                  /\ DOMAIN held[p].vers = 1..Len(held[p].vers)
                BY <1>1 DEF Meta
            <4>2. Wanted(p) \in 1..MaxN
                BY <1>1, <2>3, <4>1 DEF GetBlob, Wanted, Retained, ControlAt, Bounded, Meta
            <4> QED
                BY <4>2 DEF Body, TInv, TypeOK
        <3>3. PICK r \in Reply : Return(p, r)
            BY <2>3, <3>1, <3>2, ReplyTypes DEF GetBlob
        <3> QED
            BY <2>3, <3>3, ReturnLocals DEF GetBlob, TInv, TypeOK, objects
    <2> QED
        BY <1>9, <2>1, <2>2, <2>3 DEF Reads, GetNothing
<1>10. CASE Abandon(p)
    BY <1>10, EmptyTypes, ReturnLocals DEF Abandon, TInv, TypeOK, objects
<1> QED
    BY <1>2, <1>3, <1>4, <1>5, <1>6, <1>7, <1>8, <1>9, <1>10

LEMMA InitTInv ==
    ASSUME Init
    PROVE  TInv
<1> USE FileLogAssumption
<1>1. TypeOK
    BY EmptyTypes DEF Init, TypeOK, MaybeData, PC
<1>2. Bounded(EmptyMeta)
    BY DEF Bounded, EmptyMeta
<1>3. ControlOK
    BY <1>2 DEF Init, ControlOK, ControlAt, NoCall
<1> QED
    BY <1>1, <1>2, <1>3 DEF TInv, Init

\* Every variable keeps its type: metadata stays a well-formed log within its
\* bound, and a call holds the body it copies wherever it needs one.
THEOREM TypeCorrect == Spec => []TypeOK
<1>1. Init => TInv
    BY InitTInv
<1>2. TInv /\ [Next]_vars => TInv'
    BY StepTInv
<1>3. TInv => TypeOK
    BY DEF TInv
<1> QED
    BY <1>1, <1>2, <1>3, PTL DEF Spec

=============================================================================
