------------------------------ MODULE FileLog -------------------------------
(***************************************************************************)
(* The per-path version log of internal/storage/filelog.go, for one path,  *)
(* over a Backend whose single-object operations are atomic                *)
(* compare-and-swaps.  One path is three kinds of object: the metadata,    *)
(* one blob per version, and the live copy that listings walk.  Every call *)
(* touches them one at a time, so each Backend call is a step here.        *)
(*                                                                         *)
(* A writer is one replica: within a process the space lock of spacesvc    *)
(* lets one mutating call run at a time, and nothing orders two processes. *)
(* Readers take no lock, and may still write: the first read of a file     *)
(* from before versioning adopts it as version 1.                          *)
(*                                                                         *)
(* Content stands for its hash, so the Backend's version of an object is   *)
(* its value.  Timestamps are left out: two metadata objects that differ   *)
(* in a timestamp only are equal here, which accepts more swaps than the   *)
(* code does and refuses none that it accepts.                             *)
(***************************************************************************)
EXTENDS Integers, Sequences, FiniteSets

CONSTANTS
    Writers,        \* replicas, each running one mutating call at a time
    Readers,        \* lock-free read calls
    Data, NoData,
    MutatingOps,    \* the mutating calls clients make
    Tokens,         \* the expected versions they send: numbers, and hashes from old clients
    MaxVersions,    \* versions retained per path
    AtomicDelete,   \* FALSE: the S3 driver, whose delete compares and deletes in two calls
    MaxN,           \* bound: version numbers
    MaxCalls,       \* bound: calls begun
    MaxFaults       \* bound: calls cut short, and blob deletions that fail

Procs == Writers \cup Readers
ReadOps == {"get", "getVersion"}

ASSUME FileLogAssumption ==
    /\ Writers \cap Readers = {}
    /\ NoData \notin Data
    /\ Data \cap Int = {}
    /\ MutatingOps \subseteq {"put", "delete", "undelete", "destroy"}
    /\ Tokens \subseteq Nat \cup Data
    /\ MaxVersions \in Nat \ {0}
    /\ AtomicDelete \in BOOLEAN
    /\ MaxN \in Nat /\ MaxCalls \in Nat /\ MaxFaults \in Nat

VARIABLES
    meta,       \* the metadata object; EmptyMeta when there is none
    blob,       \* version number -> body of the version blob
    live,       \* the live copy
    pc, call,   \* per process: where it is, and the request it serves
    held,       \* per process: the metadata it loaded
    carried,    \* per process: the body it is about to copy
    liveVer,    \* per process: the Backend version of the live copy it read
    reply,      \* per process: the answer to its last call
    calls, faults,
    committed,  \* history: every <<version, content>> the metadata ever named
    erased      \* history: the versions whose body a call took off the disk

objects == <<meta, blob, live>>
locals == <<pc, call, held, carried, liveVer, reply>>
vars == <<meta, blob, live, pc, call, held, carried, liveVer, reply, calls, faults, committed, erased>>

-----------------------------------------------------------------------------
(* Metadata.  Version numbers are consecutive from 1, so the map of versions *)
(* is a sequence.                                                            *)

MaybeData == Data \cup {NoData}
Token == Nat \cup Data          \* a version number, or a content hash from an old client
VersionInfo == [data : Data, deleted : BOOLEAN, destroyed : BOOLEAN]
Meta == [current : Nat, vers : Seq(VersionInfo)]
Call == [op : MutatingOps \cup ReadOps \cup {"none"}, want : Token, data : MaybeData, n : Nat]
Reply == [op : MutatingOps \cup ReadOps \cup {"none"}, ok : BOOLEAN, ver : Token, data : MaybeData]

EmptyMeta == [current |-> 0, vers |-> <<>>]
NoCall == [op |-> "none", want |-> 0, data |-> NoData, n |-> 0]
NoReply == [op |-> "none", ok |-> FALSE, ver |-> 0, data |-> NoData]

NewVersion(d) == [data |-> d, deleted |-> FALSE, destroyed |-> FALSE]
Retained(vs) == {n \in DOMAIN vs : ~vs[n].destroyed}

\* Mutant: forget the history of a deleted path.
NextVersionAfterCurrent(m) == m.current + 1
NextVersion(m) == IF m.current = 0 THEN Len(m.vers) + 1 ELSE m.current + 1

\* A put writes the entry of its version: a new one, or over a destroyed one.
AddVersion(m, d) ==
    LET n == NextVersion(m) IN
    [current |-> n,
     vers |-> IF n \in DOMAIN m.vers THEN [m.vers EXCEPT ![n] = NewVersion(d)]
                                     ELSE Append(m.vers, NewVersion(d))]

\* Mutant: the newest beyond MaxVersions, the sort the wrong way round.
DropNewest(m) ==
    {n \in Retained(m.vers) : Cardinality({k \in Retained(m.vers) : k < n}) >= MaxVersions}
\* The oldest retained versions beyond MaxVersions, never the current one.
Dropped(m) ==
    {n \in Retained(m.vers) \ {m.current} :
        Cardinality({k \in Retained(m.vers) : k > n}) >= MaxVersions}

Pruned(m) ==
    [current |-> m.current,
     vers |-> [n \in DOMAIN m.vers |->
                [m.vers[n] EXCEPT !.destroyed = @ \/ n \in Dropped(m)]]]

\* The version Undelete restores: the newest retained one, 0 if there is none.
Best(m) ==
    IF Retained(m.vers) = {} THEN 0
    ELSE CHOOSE n \in Retained(m.vers) : \A k \in Retained(m.vers) : k <= n

\* The metadata a mutating call saves, from what it loaded.
NewMeta(m, c) ==
    CASE c.op = "put" -> Pruned(AddVersion(m, c.data))
      [] c.op = "delete" ->
            [current |-> 0, vers |-> [m.vers EXCEPT ![m.current].deleted = TRUE]]
      [] c.op = "undelete" ->
            [current |-> Best(m), vers |-> [m.vers EXCEPT ![Best(m)].deleted = FALSE]]
      [] c.op = "destroy" ->
            [current |-> m.current, vers |-> [m.vers EXCEPT ![c.n].destroyed = TRUE]]

Pairs(m) == {<<n, m.vers[n].data>> : n \in DOMAIN m.vers}

-----------------------------------------------------------------------------
Init ==
    /\ meta = EmptyMeta
    /\ blob = [n \in 1..MaxN |-> NoData]
    /\ live \in MaybeData       \* an unversioned file from before the log, or nothing
    /\ pc = [p \in Procs |-> "idle"]
    /\ call = [p \in Procs |-> NoCall]
    /\ held = [p \in Procs |-> EmptyMeta]
    /\ carried = [p \in Procs |-> NoData]
    /\ liveVer = [p \in Procs |-> NoData]
    /\ reply = [p \in Procs |-> NoReply]
    /\ calls = 0
    /\ faults = 0
    /\ committed = {}
    /\ erased = {}

Goto(p, l) == pc' = [pc EXCEPT ![p] = l]

\* The call returns: everything it held is gone.
Return(p, r) ==
    /\ Goto(p, "idle")
    /\ reply' = [reply EXCEPT ![p] = r]
    /\ call' = [call EXCEPT ![p] = NoCall]
    /\ held' = [held EXCEPT ![p] = EmptyMeta]
    /\ carried' = [carried EXCEPT ![p] = NoData]
    /\ liveVer' = [liveVer EXCEPT ![p] = NoData]

Failure(p) == [op |-> call[p].op, ok |-> FALSE, ver |-> 0, data |-> NoData]
Success(p, v, d) == [op |-> call[p].op, ok |-> TRUE, ver |-> v, data |-> d]

Fail(p) == Return(p, Failure(p)) /\ UNCHANGED <<objects, calls, faults, committed, erased>>

Request(p, c) ==
    /\ pc[p] = "idle"
    /\ calls < MaxCalls
    /\ Goto(p, "load")
    /\ call' = [call EXCEPT ![p] = c]
    /\ reply' = [reply EXCEPT ![p] = NoReply]
    /\ calls' = calls + 1
    /\ UNCHANGED <<objects, held, carried, liveVer, faults, committed, erased>>

Asking(op, w, d, n) == [op |-> op, want |-> w, data |-> d, n |-> n]

Begin(p) ==
    \/ /\ p \in Writers
       /\ \/ "put" \in MutatingOps
             /\ \E w \in Tokens, d \in Data : Request(p, Asking("put", w, d, 0))
          \/ "delete" \in MutatingOps
             /\ \E w \in Tokens : Request(p, Asking("delete", w, NoData, 0))
          \/ "undelete" \in MutatingOps
             /\ Request(p, Asking("undelete", 0, NoData, 0))
          \/ "destroy" \in MutatingOps
             /\ \E n \in 1..MaxN : Request(p, Asking("destroy", 0, NoData, n))
    \/ /\ p \in Readers
       /\ \/ Request(p, Asking("get", 0, NoData, 0))
          \/ \E n \in 1..MaxN : Request(p, Asking("getVersion", 0, NoData, n))

-----------------------------------------------------------------------------
(* loadMeta, and adoptLegacy for a path with no history *)

Load(p) ==
    /\ pc[p] = "load"
    /\ held' = [held EXCEPT ![p] = meta]
    /\ Goto(p, IF meta = EmptyMeta /\ call[p].op \notin {"undelete", "destroy"}
               THEN "adopt" ELSE "ready")
    /\ UNCHANGED <<objects, call, carried, liveVer, reply, calls, faults, committed, erased>>

\* Mutant: a missing live copy is adopted too.
AdoptAbsent(p) ==
    /\ pc[p] = "adopt"
    /\ carried' = [carried EXCEPT ![p] = live]
    /\ Goto(p, "adoptBlob")
    /\ UNCHANGED <<objects, call, held, liveVer, reply, calls, faults, committed, erased>>

AdoptRead(p) ==
    /\ pc[p] = "adopt"
    /\ carried' = [carried EXCEPT ![p] = live]
    /\ Goto(p, IF live = NoData THEN "ready" ELSE "adoptBlob")
    /\ UNCHANGED <<objects, call, held, liveVer, reply, calls, faults, committed, erased>>

AdoptBlob(p) ==
    /\ pc[p] = "adoptBlob"
    /\ \/ /\ MaxN >= 1
          /\ blob[1] = NoData
          /\ blob' = [blob EXCEPT ![1] = carried[p]]
          /\ Goto(p, "adoptMeta")
          /\ UNCHANGED <<meta, live, call, held, carried, liveVer, reply, calls, faults, committed, erased>>
       \/ /\ MaxN >= 1
          /\ blob[1] # NoData
          /\ Fail(p)

AdoptMeta(p) ==
    /\ pc[p] = "adoptMeta"
    /\ \/ /\ meta = held[p]
          /\ meta' = [current |-> 1, vers |-> <<NewVersion(carried[p])>>]
          /\ committed' = committed \cup Pairs(meta')
          /\ Goto(p, "load")
          /\ UNCHANGED <<blob, live, call, held, carried, liveVer, reply, calls, faults, erased>>
       \/ meta # held[p] /\ Fail(p)

-----------------------------------------------------------------------------
(* Put *)

\* A token that is not a number is compared with the hash of the live copy.
ResolveToken(p) ==
    /\ pc[p] = "ready"
    /\ call[p].op \in {"put", "delete"}
    /\ call[p].want \in Data
    /\ \/ /\ live = call[p].want
          /\ call' = [call EXCEPT ![p].want = held[p].current]
          /\ UNCHANGED <<objects, pc, held, carried, liveVer, reply, calls, faults, committed, erased>>
       \/ live # call[p].want /\ Fail(p)

Stale(p) == call[p].want # held[p].current

RejectStale(p) ==
    /\ pc[p] = "ready"
    /\ call[p].op \in {"put", "delete"}
    /\ call[p].want \notin Data
    /\ Stale(p) \/ (call[p].op = "delete" /\ held[p].current = 0)
    /\ Fail(p)

\* At its turn to write the version blob.
AtPutBlob(p) ==
    /\ pc[p] = "ready"
    /\ call[p].op = "put"
    /\ call[p].want \notin Data
    /\ ~Stale(p)
    /\ NextVersion(held[p]) <= MaxN

WriteBlob(p) ==
    /\ blob' = [blob EXCEPT ![NextVersion(held[p])] = call[p].data]
    /\ Goto(p, IF Dropped(AddVersion(held[p], call[p].data)) = {} THEN "save" ELSE "prune")
    /\ UNCHANGED <<meta, live, call, held, carried, liveVer, reply, calls, faults, committed, erased>>

\* Mutant: overwrite the blob instead of creating it.
PutBlobOver(p) == AtPutBlob(p) /\ WriteBlob(p)

PutBlob(p) ==
    /\ AtPutBlob(p)
    /\ blob[NextVersion(held[p])] = NoData
    /\ WriteBlob(p)

RefuseBlob(p) ==
    /\ AtPutBlob(p)
    /\ blob[NextVersion(held[p])] # NoData
    /\ Fail(p)

\* Old bodies go before the metadata that retires them is saved; a deletion
\* that fails is ignored.
Prune(p) ==
    /\ pc[p] = "prune"
    /\ \E gone \in SUBSET Dropped(AddVersion(held[p], call[p].data)) :
        /\ blob' = [n \in DOMAIN blob |-> IF n \in gone THEN NoData ELSE blob[n]]
        /\ faults' = IF gone = Dropped(AddVersion(held[p], call[p].data)) THEN faults ELSE faults + 1
        /\ faults' <= MaxFaults
        /\ erased' = erased \cup gone
    /\ Goto(p, "save")
    /\ UNCHANGED <<meta, live, call, held, carried, liveVer, reply, calls, committed>>

-----------------------------------------------------------------------------
(* saveMeta: the commit point of every mutating call *)

WriteMeta(p) ==
    /\ meta' = NewMeta(held[p], call[p])
    /\ committed' = committed \cup Pairs(meta')
    /\ \/ /\ call[p].op = "put"
          /\ Goto(p, "mirror")
          /\ carried' = [carried EXCEPT ![p] = call[p].data]
          /\ UNCHANGED <<call, held, liveVer, reply>>
       \/ /\ call[p].op # "put"
          /\ Return(p, Success(p, meta'.current, NoData))
    /\ UNCHANGED <<blob, live, calls, faults, erased>>

\* Mutant: save without comparing.
SaveMetaBlind(p) == pc[p] = "save" /\ WriteMeta(p)

SaveMeta(p) == pc[p] = "save" /\ meta = held[p] /\ WriteMeta(p)

LoseMeta(p) ==
    /\ pc[p] = "save"
    /\ meta # held[p]
    /\ Fail(p)

-----------------------------------------------------------------------------
(* putLive: the mirror, read and then swapped *)

MirrorRead(p) ==
    /\ pc[p] = "mirror"
    /\ liveVer' = [liveVer EXCEPT ![p] = live]
    /\ Goto(p, "mirrorPut")
    /\ UNCHANGED <<objects, call, held, carried, reply, calls, faults, committed, erased>>

AfterMirror(p) ==
    /\ \/ /\ call[p].op = "put"
          /\ Return(p, Success(p, NextVersion(held[p]), call[p].data))
       \/ /\ call[p].op = "undelete"
          /\ Goto(p, "save")
          /\ UNCHANGED <<call, held, carried, liveVer, reply>>
    /\ UNCHANGED <<meta, blob, calls, faults, committed, erased>>

\* Mutant: the swap of the live copy is left out.
SkipMirror(p) == pc[p] = "mirrorPut" /\ UNCHANGED live /\ AfterMirror(p)

MirrorPut(p) ==
    /\ pc[p] = "mirrorPut"
    /\ live = liveVer[p]
    /\ live' = carried[p]
    /\ AfterMirror(p)

LoseMirror(p) ==
    /\ pc[p] = "mirrorPut"
    /\ live # liveVer[p]
    /\ Fail(p)

-----------------------------------------------------------------------------
(* SoftDelete takes the live copy away before the metadata says so *)

DeleteRead(p) ==
    /\ pc[p] = "ready"
    /\ call[p].op = "delete"
    /\ call[p].want \notin Data
    /\ ~Stale(p) /\ held[p].current # 0
    /\ liveVer' = [liveVer EXCEPT ![p] = live]
    /\ Goto(p, IF live = NoData THEN "save" ELSE "unmirror")
    /\ UNCHANGED <<objects, call, held, carried, reply, calls, faults, committed, erased>>

DeleteLive(p) ==
    /\ pc[p] = "unmirror"
    /\ \/ /\ live = liveVer[p] \/ ~AtomicDelete
          /\ live' = NoData
          /\ Goto(p, "save")
          /\ UNCHANGED <<meta, blob, call, held, carried, liveVer, reply, calls, faults, committed, erased>>
       \/ live # liveVer[p] /\ Fail(p)

-----------------------------------------------------------------------------
(* Undelete and Destroy *)

UndeleteRead(p) ==
    /\ pc[p] = "ready"
    /\ call[p].op = "undelete"
    /\ LET n == Best(held[p]) IN
       \/ /\ n # 0
          /\ blob[n] # NoData
          /\ carried' = [carried EXCEPT ![p] = blob[n]]
          /\ Goto(p, "mirror")
          /\ UNCHANGED <<objects, call, held, liveVer, reply, calls, faults, committed, erased>>
       \/ n = 0 /\ Fail(p)
       \/ n # 0 /\ blob[n] = NoData /\ Fail(p)

\* Mutant: no check that the version is not the current one.
DestroyCurrentToo(p) == pc[p] = "ready" /\ call[p].op = "destroy" /\ call[p].n \in DOMAIN held[p].vers
MayDestroy(p) ==
    /\ pc[p] = "ready"
    /\ call[p].op = "destroy"
    /\ call[p].n \in DOMAIN held[p].vers
    /\ call[p].n # held[p].current

\* The body goes first; that deletion failing is ignored.
Destroy(p) ==
    /\ MayDestroy(p)
    /\ \/ /\ blob' = [blob EXCEPT ![call[p].n] = NoData]
          /\ erased' = erased \cup {call[p].n}
          /\ UNCHANGED faults
       \/ /\ faults < MaxFaults
          /\ faults' = faults + 1
          /\ UNCHANGED <<blob, erased>>
    /\ Goto(p, "save")
    /\ UNCHANGED <<meta, live, call, held, carried, liveVer, reply, calls, committed>>

RefuseDestroy(p) ==
    /\ pc[p] = "ready"
    /\ call[p].op = "destroy"
    /\ ~MayDestroy(p)
    /\ Fail(p)

-----------------------------------------------------------------------------
(* Get and GetVersion *)

Wanted(p) == IF call[p].op = "get" THEN held[p].current ELSE call[p].n

\* No version is current: whatever the live copy holds, under its hash.
GetLive(p) ==
    /\ pc[p] = "ready"
    /\ call[p].op = "get"
    /\ held[p].current = 0
    /\ Return(p, IF live = NoData THEN Failure(p) ELSE Success(p, live, live))
    /\ UNCHANGED <<objects, calls, faults, committed, erased>>

\* Mutant: read the live copy for it.
MirrorBody(p) == IF p \in Procs THEN live ELSE NoData
\* The body read for a version the loaded metadata names.
Body(p) == blob[Wanted(p)]

GetBlob(p) ==
    /\ pc[p] = "ready"
    /\ \/ call[p].op = "get" /\ held[p].current # 0
       \/ call[p].op = "getVersion" /\ call[p].n \in Retained(held[p].vers)
    /\ Return(p, IF Body(p) = NoData THEN Failure(p) ELSE Success(p, Wanted(p), Body(p)))
    /\ UNCHANGED <<objects, calls, faults, committed, erased>>

GetNothing(p) ==
    /\ pc[p] = "ready"
    /\ call[p].op = "getVersion"
    /\ call[p].n \notin Retained(held[p].vers)
    /\ Fail(p)

-----------------------------------------------------------------------------
\* A crash, a cancelled request, or a Backend error before or after its
\* effect: the call stops where it is and whatever it wrote stays.
Abandon(p) ==
    /\ pc[p] # "idle"
    /\ faults < MaxFaults
    /\ faults' = faults + 1
    /\ Return(p, NoReply)
    /\ UNCHANGED <<objects, calls, committed, erased>>

Adopt(p) == AdoptRead(p) \/ AdoptBlob(p) \/ AdoptMeta(p)
PutSteps(p) == ResolveToken(p) \/ RejectStale(p) \/ PutBlob(p) \/ RefuseBlob(p) \/ Prune(p)
Commit(p) == SaveMeta(p) \/ LoseMeta(p)
Mirror(p) == MirrorRead(p) \/ MirrorPut(p) \/ LoseMirror(p)
Others(p) == DeleteRead(p) \/ DeleteLive(p) \/ UndeleteRead(p) \/ Destroy(p) \/ RefuseDestroy(p)
Reads(p) == GetLive(p) \/ GetBlob(p) \/ GetNothing(p)

Next ==
    \E p \in Procs :
        \/ Begin(p) \/ Load(p) \/ Adopt(p) \/ PutSteps(p) \/ Commit(p)
        \/ Mirror(p) \/ Others(p) \/ Reads(p) \/ Abandon(p)

Spec == Init /\ [][Next]_vars

-----------------------------------------------------------------------------
(* Properties *)

PC == {"idle", "load", "adopt", "adoptBlob", "adoptMeta", "ready", "prune", "save",
       "mirror", "mirrorPut", "unmirror"}

TypeOK ==
    /\ meta \in Meta
    /\ blob \in [1..MaxN -> MaybeData]
    /\ live \in MaybeData
    /\ pc \in [Procs -> PC]
    /\ call \in [Procs -> Call]
    /\ held \in [Procs -> Meta]
    /\ carried \in [Procs -> MaybeData]
    /\ liveVer \in [Procs -> MaybeData]
    /\ reply \in [Procs -> Reply]
    /\ calls \in 0..MaxCalls
    /\ faults \in 0..MaxFaults
    /\ committed \subseteq (Nat \X Data)
    /\ erased \subseteq Nat

\* The version the metadata calls current can be read, and its body is the
\* one it was committed with, whichever write of whichever call is interrupted.
CurrentReadable ==
    meta.current # 0 =>
        /\ meta.current \in Retained(meta.vers)
        /\ blob[meta.current] = meta.vers[meta.current].data

\* So can the newest version, current or not: what Undelete will restore.
NewestReadable ==
    meta.vers # <<>> =>
        /\ Len(meta.vers) \in Retained(meta.vers)
        /\ blob[Len(meta.vers)] = meta.vers[Len(meta.vers)].data

\* A put that was acknowledged is in the history with its content: a write
\* that raced it did not take its version number.
AckedPutStands ==
    \A p \in Procs :
        reply[p].op = "put" /\ reply[p].ok =>
            /\ reply[p].ver \in DOMAIN meta.vers
            /\ meta.vers[reply[p].ver].data = reply[p].data

\* Saving metadata never loses a version, rewrites its content, or brings a
\* destroyed one back: no call overwrites what another committed.
HistoryKept ==
    [][\A n \in DOMAIN meta.vers :
            /\ n \in DOMAIN meta'.vers
            /\ meta'.vers[n].data = meta.vers[n].data
            /\ meta.vers[n].destroyed => meta'.vers[n].destroyed]_meta

\* Get through the metadata and the blob it names is an atomic register.
File == INSTANCE AtomicFile WITH
            top <- Len(meta.vers),
            ver <- meta.current,
            val <- IF meta.vers = <<>> THEN NoData ELSE blob[Len(meta.vers)]
ImplementsAtomicFile == File!Spec

\* With one replica and no lock-free reader: a body on disk for a version not
\* destroyed is that version's content, never that of a write that failed.
BodiesMatch ==
    \A n \in Retained(meta.vers) : blob[n] \in {NoData, meta.vers[n].data}

\* A read takes no lock, and the metadata it loaded may be several puts old by
\* the time it reads a body: what it answers was committed under the version it
\* reports.  The exception is a version whose body a call has taken off the
\* disk: a put left over from before that version may create its blob again.
ReadsAreCommitted ==
    [][\A p \in Readers :
            LET r == reply'[p] IN
            r # reply[p] /\ r.ok /\ r.ver \in Nat =>
                \/ <<r.ver, r.data>> \in committed
                \/ r.ver \in erased]_reply

\* With one replica and nothing interrupted, the live copy that listings walk
\* is the current version's content whenever no call is under way.
MirrorExact ==
    faults = 0 /\ meta # EmptyMeta /\ (\A p \in Procs : pc[p] = "idle") =>
        live = IF meta.current = 0 THEN NoData ELSE meta.vers[meta.current].data

\* A put that holds the current token is refused its blob only because another
\* call is under way, or something was interrupted before.
RefusedOnlyByRace ==
    [][\A p \in Writers :
            RefuseBlob(p) => \/ faults # 0
                             \/ meta # held[p]
                             \/ \E q \in Procs \ {p} : pc[q] # "idle"]_vars

\* What the comment in Put says of an interrupted attempt: the blob it left
\* is overwritten by the next one, so with no other call in the way a put
\* that holds the current token is not refused.
OrphanIsOverwritten ==
    [][\A p \in Writers :
            RefuseBlob(p) => \/ meta # held[p]
                             \/ \E q \in Procs \ {p} : pc[q] # "idle"]_vars
=============================================================================
