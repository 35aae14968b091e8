--------------------------- MODULE ServicesProofs ---------------------------
(*****************************************************************************)
(* Proofs about the parts that share no state with the file log: what lies   *)
(* under a storage backend and the pool of backends, a migration between two *)
(* stores, the server's life from set-up to shutdown, the daemon's process,  *)
(* the terminal screens and the local editor; the event stream, the webhooks *)
(* and the audit log.  Each has its own inductive invariant, and the         *)
(* theorems hold for every value of the constants.                           *)
(*****************************************************************************)
EXTENDS Stores, History, Lifecycle, Daemon, Screens, Desk, Events, AuditLog,
        SequenceTheorems, FiniteSetTheorems, WellFoundedInduction, TLAPS

-----------------------------------------------------------------------------
(* Stores: compare and swap *)

Objects == Content \cup {Absent}
Stages == {"open", "publish", "ready", "read old", "read", "compare", "write", "commit", "push", "clean"}
Accesses == [op : {"put", "delete"}, target : {"file", "head"}, data : Objects, expected : Objects,
             stage : Stages, handle : Nat, actual : Objects, found : {"file", "old"}]

StoresTyped ==
    /\ driver \in Driver
    /\ object \in [file : Objects, old : Objects, head : Objects]
    /\ access \in [StoreCaller -> {Idle} \cup Accesses]
    /\ pool \in [published : Nat, closed : BOOLEAN]
    /\ handle \in Seq({"open", "closed"})
    /\ \A c \in StoreCaller : access[c].stage = "publish" => access[c].handle \in DOMAIN handle

\* Only S3 has objects under old keys, and calls go through the stages of their driver.
InDriver(c) ==
    /\ access[c].stage \in {"commit", "push"} => driver = "git"
    /\ access[c].stage = "read" => driver \in {"local", "git"}
    /\ access[c].stage \in {"read old", "clean"} => driver = "s3"
    /\ access[c].stage # "idle" /\ access[c].found = "old" => driver = "s3"
    /\ access[c].stage = "clean" => access[c].found = "old"
    /\ access[c].stage \in {"read old", "clean"} => access[c].target = "file"
    /\ access[c].stage # "idle" /\ access[c].op = "delete" =>
            access[c].target = "file" /\ access[c].expected # Absent /\ access[c].data = Absent

\* The stages a call goes through inside its lock.
InLock == {"read", "compare", "write", "commit", "push"}
Compared == {"compare", "write"}

\* A local or a git call works under its lock, a database call under that of the row it read.
HoldsLock(c) ==
    \/ driver \in {"local", "git"} /\ access[c].stage \in InLock
    \/ driver = "sql" /\ access[c].stage \in Compared /\ access[c].actual # Absent

\* Until a space is deleted or the pool closed, every call at work uses the one handle.
OneHandle ==
    ~astray => /\ ~pool.closed
               /\ \A c \in StoreCaller : access[c].stage \notin {"idle", "open", "publish"} =>
                    access[c].handle = pool.published /\ pool.published # 0

\* What a call has read is still there when it compares and writes.
StillThere(c) ==
    access[c].stage \in Compared =>
        /\ driver \in {"local", "git"} /\ ~astray => object[access[c].target] = access[c].actual
        /\ driver = "sql" /\ access[c].actual # Absent => object[access[c].target] = access[c].actual
        /\ /\ driver = "s3" /\ access[c].target = "file" /\ access[c].found = "file"
           /\ access[c].actual = Absent
           => object.old = Absent
        /\ access[c].stage = "write" => access[c].actual = access[c].expected

StoresInv ==
    /\ StoresTyped
    /\ driver # "s3" => object.old = Absent
    /\ \A k, l \in locks : k.on = l.on => k.by = l.by
    /\ OneHandle
    /\ \A c \in StoreCaller : /\ InDriver(c) /\ StillThere(c)
                              /\ HoldsLock(c) => [on |-> Lock(c), by |-> c] \in locks

Works(c) ==
    \/ Ask(c) \/ OpenStore(c) \/ PublishStore(c) \/ LockStore(c) \/ ReadStore(c)
    \/ CompareStore(c) \/ WriteStore(c) \/ FailStore(c)

\* What a step of a call leaves of the other calls and of their locks.
LEMMA OtherCalls ==
    ASSUME StoresTyped, NEW c \in StoreCaller, NEW d \in StoreCaller, d # c,
           Works(c)
    PROVE  /\ access'[d] = access[d]
           /\ \A k : [on |-> k, by |-> d] \in locks => [on |-> k, by |-> d] \in locks'
           /\ driver' = driver
<1> USE DEF Works, StoresTyped, inStore, counts, Reach, Done, Saw, Take, Spare
<1>1. CASE Ask(c)
    BY <1>1 DEF Ask
<1>2. CASE OpenStore(c) \/ PublishStore(c)
    BY <1>2 DEF OpenStore, PublishStore, openSQL, openPerSpace
<1>3. CASE LockStore(c) \/ CompareStore(c) \/ FailStore(c)
    BY <1>3 DEF LockStore, withLock, gitLock, CompareStore, FailStore
<1>4. CASE ReadStore(c)
    BY <1>4 DEF ReadStore, readRecord, selectForUpdate, getRecord, getLegacy
<1>5. CASE WriteStore(c)
    BY <1>5 DEF WriteStore, LocalPut, LocalDelete, LocalSetHead, SQLPut, SQLDelete, SQLSetHead, GitPut,
                GitDelete, GitSetHead, commit, maybePush, S3Put, S3Clean, S3Delete, S3SetHead
<1> QED
    BY <1>1, <1>2, <1>3, <1>4, <1>5

\* No call changes the driver, deletes a space or closes the pool.
LEMMA OwnDriver ==
    ASSUME NEW c \in StoreCaller, Works(c)
    PROVE  driver' = driver /\ astray' = astray
BY DEF Works, Ask, OpenStore, PublishStore, LockStore, ReadStore, CompareStore, WriteStore, FailStore,
       inStore, counts, Spare, LocalPut, LocalDelete, LocalSetHead, SQLPut, SQLDelete, SQLSetHead, GitPut,
       GitDelete, GitSetHead, commit, maybePush, S3Put, S3Clean, S3Delete, S3SetHead

LEMMA AskedIsTyped ==
    ASSUME NEW wish \in Jobs, NEW stage \in Stages, NEW h \in Nat
    PROVE  Asking(wish, stage, h) \in Accesses
BY DEF Jobs, Accesses, Asking, Objects

\* A call that has not ended has a record.
LEMMA AtWork ==
    ASSUME StoresTyped, NEW c \in StoreCaller, access[c].stage # "idle"
    PROVE  access[c] \in Accesses
BY DEF StoresTyped, Idle

\* A step that gives one call a new record.
LEMMA OneRecord ==
    ASSUME StoresTyped, NEW c \in StoreCaller, NEW a \in {Idle} \cup Accesses,
           access' = [access EXCEPT ![c] = a], a.stage = "publish" => a.handle \in DOMAIN handle',
           handle' \in Seq({"open", "closed"}), DOMAIN handle \subseteq DOMAIN handle',
           driver' = driver, object' \in [file : Objects, old : Objects, head : Objects],
           pool' \in [published : Nat, closed : BOOLEAN]
    PROVE  StoresTyped'
BY DEF StoresTyped

LEMMA StoresStayTyped ==
    ASSUME StoresTyped, NEW c \in StoreCaller,
           Works(c)
    PROVE  StoresTyped'
<1> USE DEF Works, StoresTyped, inStore, counts, Reach, Done, Saw, Take, Spare, Stages, In
<1>1. CASE Ask(c)
    <2>1. PICK wish \in Jobs : access' = [access EXCEPT ![c] =
              IF pool.published # 0 /\ ~pool.closed THEN Asking(wish, "ready", pool.published)
                                                    ELSE Asking(wish, "open", 0)]
        BY <1>1 DEF Ask
    <2>2. Asking(wish, "ready", pool.published) \in Accesses /\ Asking(wish, "open", 0) \in Accesses
        BY AskedIsTyped
    <2>3. UNCHANGED <<object, pool, handle>>
        BY <1>1 DEF Ask
    <2>4. access'[c] \in Accesses /\ access'[c].stage # "publish"
        BY <2>1, <2>2 DEF Asking
    <2> QED
        BY <2>1, <2>3, <2>4, OwnDriver
<1>2. CASE OpenStore(c)
    <2>1. /\ UNCHANGED <<object, pool>> /\ handle' = Append(handle, "open")
          /\ access' = [access EXCEPT ![c] = [access[c] EXCEPT !.stage = "publish", !.handle = Len(handle) + 1]]
          /\ access[c].stage = "open"
        BY <1>2 DEF OpenStore, OpenLocal, OpenGit, OpenS3, OpenSQL
    <2>2. /\ handle' \in Seq({"open", "closed"}) /\ Len(handle) + 1 \in Nat
          /\ DOMAIN handle = 1..Len(handle) /\ DOMAIN handle' = 1..Len(handle) + 1
        BY <2>1, AppendProperties, LenProperties
    <2>3. access[c] \in Accesses
        BY <2>1, AtWork
    <2> DEFINE a == [access[c] EXCEPT !.stage = "publish", !.handle = Len(handle) + 1]
    <2>4. a \in Accesses /\ a.handle = Len(handle) + 1
        BY <2>2, <2>3 DEF Accesses, Stages
    <2>5. access' = [access EXCEPT ![c] = a]
        BY <2>1
    <2> HIDE DEF a
    <2>6. Len(handle) + 1 \in DOMAIN handle' /\ DOMAIN handle \subseteq DOMAIN handle'
        BY <2>2
    <2> QED
        BY <2>1, <2>2, <2>4, <2>5, <2>6, OneRecord, OwnDriver
<1>3. CASE PublishStore(c)
    <2>1. access[c].stage = "publish" /\ openPerSpace(c) /\ UNCHANGED object
        BY <1>3 DEF PublishStore, openSQL
    <2>2. access[c] \in Accesses
        BY <2>1, AtWork
    <2>3. handle' \in Seq({"open", "closed"}) /\ DOMAIN handle' = DOMAIN handle
        <3>1. UNCHANGED handle \/ \E h : handle' = [handle EXCEPT ![h] = "closed"]
            BY <2>1 DEF openPerSpace, closeBackend
        <3> QED
            BY <3>1
    <2>4. \/ access' = [access EXCEPT ![c] = [access[c] EXCEPT !.stage = "ready"]]
          \/ access' = [access EXCEPT ![c] = [access[c] EXCEPT !.stage = "ready", !.handle = pool.published]]
        BY <2>1 DEF openPerSpace
    <2>5. pool' \in [published : Nat, closed : BOOLEAN] /\ pool.published \in Nat
        BY <2>1, <2>2 DEF openPerSpace, Accesses
    <2>6. /\ [access[c] EXCEPT !.stage = "ready"] \in Accesses
          /\ [access[c] EXCEPT !.stage = "ready"].stage # "publish"
          /\ [access[c] EXCEPT !.stage = "ready", !.handle = pool.published] \in Accesses
          /\ [access[c] EXCEPT !.stage = "ready", !.handle = pool.published].stage # "publish"
        BY <2>2, <2>5 DEF Accesses
    <2> QED
        BY <2>1, <2>3, <2>4, <2>5, <2>6, OneRecord, OwnDriver
<1>4. CASE LockStore(c) \/ CompareStore(c) \/ FailStore(c) \/ ReadStore(c) \/ WriteStore(c)
    <2>1. UNCHANGED <<pool, handle>> /\ access[c].stage # "idle"
        BY <1>4 DEF LockStore, withLock, gitLock, CompareStore, FailStore, ReadStore, readRecord, selectForUpdate,
                    getRecord, getLegacy, WriteStore, LocalPut, LocalDelete, LocalSetHead, SQLPut, SQLDelete,
                    SQLSetHead, GitPut, GitDelete, GitSetHead, commit, maybePush, S3Put, S3Clean, S3Delete,
                    S3SetHead, Does
    <2>2. access[c] \in Accesses
        BY <2>1, AtWork
    <2>3. access[c].data \in Objects /\ object.file \in Objects /\ object.old \in Objects
          /\ object[access[c].target] \in Objects
        BY <2>2 DEF Accesses
    <2>4. object' \in [file : Objects, old : Objects, head : Objects]
        <3>1. \/ UNCHANGED object
              \/ \E place \in {"file", "old", "head"}, x \in Objects : object' = [object EXCEPT ![place] = x]
            <4>1. CASE WriteStore(c)
                BY <2>2, <2>3, <4>1 DEF WriteStore, LocalPut, LocalDelete, LocalSetHead, SQLPut, SQLDelete,
                    SQLSetHead, GitPut, GitDelete, GitSetHead, commit, maybePush, S3Put, S3Clean, S3Delete,
                    S3SetHead, Does, Set, Accesses, Objects
            <4>2. CASE ~WriteStore(c)
                BY <1>4, <4>2 DEF LockStore, CompareStore, FailStore, ReadStore
            <4> QED
                BY <4>1, <4>2
        <3> QED
            BY <3>1
    <2>5. \/ access' = [access EXCEPT ![c] = Idle]
          \/ \E st \in Stages \ {"publish"} : access' = [access EXCEPT ![c] = [access[c] EXCEPT !.stage = st]]
          \/ \E x \in Objects, f \in {"file", "old"} :
                access' = [access EXCEPT ![c] = [access[c] EXCEPT !.stage = "compare", !.actual = x, !.found = f]]
        <3>1. CASE ReadStore(c)
            <4>1. CASE readRecord(c) \/ selectForUpdate(c)
                BY ZenonT(60), <2>3, <4>1 DEF readRecord, selectForUpdate
            <4>2. CASE getRecord(c)
                BY ZenonT(60), <2>3, <4>2 DEF getRecord
            <4>3. CASE getLegacy(c)
                BY ZenonT(60), <2>3, <4>3 DEF getLegacy
            <4> QED
                BY <3>1, <4>1, <4>2, <4>3 DEF ReadStore
        <3>2. CASE LockStore(c) \/ CompareStore(c) \/ FailStore(c)
            BY <3>2 DEF LockStore, withLock, gitLock, CompareStore, FailStore
        <3>3. CASE WriteStore(c)
            BY <3>3 DEF WriteStore, LocalPut, LocalDelete, LocalSetHead, SQLPut, SQLDelete, SQLSetHead, GitPut,
                GitDelete, GitSetHead, commit, maybePush, S3Put, S3Clean, S3Delete, S3SetHead
        <3> QED
            BY <1>4, <3>1, <3>2, <3>3
    <2>6. \E a \in {Idle} \cup Accesses : access' = [access EXCEPT ![c] = a] /\ a.stage # "publish"
        <3>1. CASE access' = [access EXCEPT ![c] = Idle]
            <4>1. Idle \in {Idle} \cup Accesses /\ Idle.stage # "publish"
                BY DEF Idle
            <4> QED
                BY <3>1, <4>1
        <3>2. ASSUME NEW st \in Stages \ {"publish"}, access' = [access EXCEPT ![c] = [access[c] EXCEPT !.stage = st]]
              PROVE  \E a \in {Idle} \cup Accesses : access' = [access EXCEPT ![c] = a] /\ a.stage # "publish"
            <4> DEFINE a == [access[c] EXCEPT !.stage = st]
            <4>1. a \in {Idle} \cup Accesses /\ a.stage # "publish" /\ access' = [access EXCEPT ![c] = a]
                BY <2>2, <3>2 DEF Accesses
            <4> QED
                BY <4>1
        <3>3. ASSUME NEW x \in Objects, NEW f \in {"file", "old"},
                     access' = [access EXCEPT ![c] = [access[c] EXCEPT !.stage = "compare", !.actual = x, !.found = f]]
              PROVE  \E a \in {Idle} \cup Accesses : access' = [access EXCEPT ![c] = a] /\ a.stage # "publish"
            <4> DEFINE a == [access[c] EXCEPT !.stage = "compare", !.actual = x, !.found = f]
            <4>1. a \in {Idle} \cup Accesses /\ a.stage # "publish" /\ access' = [access EXCEPT ![c] = a]
                BY <2>2, <3>3 DEF Accesses
            <4> QED
                BY <4>1
        <3> QED
            BY <2>5, <3>1, <3>2, <3>3
    <2> QED
        BY <2>1, <2>4, <2>6, OneRecord, OwnDriver
<1> QED
    BY <1>1, <1>2, <1>3, <1>4


\* Who changes an object: a call that writes it, in the way of its driver.
LEMMA ObjectChanges ==
    ASSUME StoresInv, NEW c \in StoreCaller, Works(c),
           NEW place \in {"file", "old", "head"}, object'[place] # object[place]
    PROVE  /\ access[c].stage \in {"write", "clean"} /\ access'[c].stage # access[c].stage
           /\ place = "old" => driver = "s3" /\ object'.old = Absent /\ access[c].target = "file"
                               /\ access[c].found = "old"
           /\ place # "old" => access[c].stage = "write" /\ access[c].target = place
           /\ driver = "sql" => object[place] = access[c].actual
           /\ driver = "s3" => \/ access[c].op = "delete" \/ access[c].found = "old"
                               \/ object[place] = access[c].actual
<1> USE DEF Works, inStore, counts, Reach, Done, Spare, Does, In, Set
<1>1. WriteStore(c)
    BY DEF Ask, OpenStore, PublishStore, LockStore, ReadStore, CompareStore, FailStore
<1>2. access[c].stage # "idle"
    BY <1>1 DEF WriteStore, LocalPut, LocalDelete, LocalSetHead, SQLPut, SQLDelete, SQLSetHead, GitPut,
                GitDelete, GitSetHead, commit, maybePush, S3Put, S3Clean, S3Delete, S3SetHead
<1>3. /\ access[c] \in Accesses /\ access \in [StoreCaller -> {Idle} \cup Accesses]
      /\ object \in [file : Objects, old : Objects, head : Objects]
      /\ InDriver(c) /\ StillThere(c)
    BY <1>2, AtWork DEF StoresInv, StoresTyped
<1>4. CASE LocalPut(c) \/ LocalDelete(c) \/ LocalSetHead(c)
    BY <1>3, <1>4 DEF LocalPut, LocalDelete, LocalSetHead, Idle
<1>5. CASE SQLPut(c) \/ SQLSetHead(c)
    BY <1>3, <1>5 DEF SQLPut, SQLSetHead, Idle
<1>6. CASE SQLDelete(c)
    BY <1>3, <1>6 DEF SQLDelete, Idle, InDriver, StillThere, Compared
<1>7. CASE GitPut(c) \/ GitDelete(c) \/ GitSetHead(c) \/ commit(c) \/ maybePush(c)
    BY <1>3, <1>7 DEF GitPut, GitDelete, GitSetHead, commit, maybePush, Accesses
<1>8. CASE S3Put(c)
    BY <1>3, <1>8 DEF S3Put, Idle, Accesses
<1>9. CASE S3Clean(c)
    BY <1>3, <1>9 DEF S3Clean, Idle, InDriver
<1>10. CASE S3Delete(c)
    <2>1. /\ access[c].stage = "write" /\ access[c].op = "delete" /\ access[c].target = "file" /\ driver = "s3"
          /\ object' = [object EXCEPT ![access[c].found] = access[c].data] /\ access' = [access EXCEPT ![c] = Idle]
        BY <1>10 DEF S3Delete
    <2>2. access[c].found \in {"file", "old"} /\ access[c].data = Absent
        BY <1>2, <1>3, <2>1 DEF InDriver, Accesses
    <2> QED
        BY <1>3, <2>1, <2>2 DEF Idle
<1>11. CASE S3SetHead(c)
    BY <1>3, <1>11 DEF S3SetHead, Idle
<1> QED
    BY <1>1, <1>4, <1>5, <1>6, <1>7, <1>8, <1>9, <1>10, <1>11 DEF WriteStore

\* No two calls work under one lock.
LEMMA LocksExclude ==
    ASSUME StoresInv, NEW c \in StoreCaller, NEW d \in StoreCaller, HoldsLock(c), HoldsLock(d),
           Lock(c) = Lock(d)
    PROVE  c = d
BY DEF StoresInv

\* A step of one call disturbs nothing that another relies on.
LEMMA OthersUndisturbed ==
    ASSUME StoresInv, NEW c \in StoreCaller, Works(c), NEW d \in StoreCaller, d # c
    PROVE  /\ InDriver(d)' /\ StillThere(d)'
           /\ HoldsLock(d)' => [on |-> Lock(d)', by |-> d] \in locks'
<1>1. /\ access'[d] = access[d] /\ driver' = driver
      /\ \A k : [on |-> k, by |-> d] \in locks => [on |-> k, by |-> d] \in locks'
    BY OtherCalls DEF StoresInv
<1>2. InDriver(d) /\ StillThere(d) /\ (HoldsLock(d) => [on |-> Lock(d), by |-> d] \in locks)
    BY DEF StoresInv
<1>3. astray' = astray
    BY DEF Works, Ask, OpenStore, PublishStore, LockStore, ReadStore, CompareStore, WriteStore, FailStore,
           inStore, counts, Spare, LocalPut, LocalDelete, LocalSetHead, SQLPut, SQLDelete, SQLSetHead, GitPut,
           GitDelete, GitSetHead, commit, maybePush, S3Put, S3Clean, S3Delete, S3SetHead
<1>4. HoldsLock(d)' => [on |-> Lock(d)', by |-> d] \in locks'
    BY <1>1, <1>2 DEF HoldsLock, Lock
<1>5. InDriver(d)'
    BY <1>1, <1>2 DEF InDriver
<1>6. ASSUME access[d].stage \in Compared PROVE StillThere(d)'
    <2> DEFINE t == access[d].target
    <2>1. access[d] \in Accesses /\ t \in {"file", "head"}
        BY <1>6, AtWork DEF StoresInv, Compared, Accesses
    <2>2. CASE object'[t] = object[t]
        <3>1. driver = "s3" /\ object.old = Absent => object'.old = Absent
            BY ObjectChanges
        <3> QED
            BY <1>1, <1>2, <1>3, <2>2, <3>1 DEF StillThere
    <2>3. CASE object'[t] # object[t]
        <3>1. /\ access[c].stage = "write" /\ access[c].target = t
              /\ driver = "sql" => object[t] = access[c].actual
              /\ driver = "s3" /\ object.old = Absent => object'.old = Absent
            BY <2>1, <2>3, ObjectChanges
        <3>2. ASSUME driver \in {"local", "git"}, ~astray PROVE FALSE
            <4>1. HoldsLock(c) /\ HoldsLock(d)
                BY <1>6, <3>1, <3>2 DEF HoldsLock, InLock, Compared
            <4>2. access[c].handle = access[d].handle
                BY <1>6, <3>1, <3>2 DEF StoresInv, OneHandle, Compared
            <4> QED
                BY <3>2, <4>1, <4>2, LocksExclude DEF Lock
        <3>3. ASSUME driver = "sql", access[d].actual # Absent PROVE FALSE
            <4>1. access[c].actual # Absent
                BY <1>2, <1>6, <3>1, <3>3 DEF StillThere
            <4>2. HoldsLock(c) /\ HoldsLock(d)
                BY <1>6, <3>1, <3>3, <4>1 DEF HoldsLock, Compared
            <4> QED
                BY <3>1, <3>3, <4>2, LocksExclude DEF Lock
        <3> QED
            BY <1>1, <1>2, <1>3, <3>1, <3>2, <3>3 DEF StillThere
    <2> QED
        BY <2>2, <2>3
<1>7. StillThere(d)'
    BY <1>1, <1>6 DEF StillThere
<1> QED
    BY <1>4, <1>5, <1>7

\* What a call's record is after a step that reaches a stage, or reads the store.
LEMMA ReachFields ==
    ASSUME StoresTyped, NEW c \in StoreCaller, access[c].stage # "idle", NEW st, Reach(c, st)
    PROVE  /\ access'[c].stage = st /\ access'[c].op = access[c].op /\ access'[c].target = access[c].target
           /\ access'[c].data = access[c].data /\ access'[c].expected = access[c].expected
           /\ access'[c].handle = access[c].handle /\ access'[c].actual = access[c].actual
           /\ access'[c].found = access[c].found
           /\ access'[c] = [access[c] EXCEPT !.stage = st]
<1>1. access[c] \in Accesses /\ access'[c] = [access[c] EXCEPT !.stage = st]
    BY AtWork DEF Reach, StoresTyped
<1> QED
    BY <1>1 DEF Accesses

LEMMA SawFields ==
    ASSUME StoresTyped, NEW c \in StoreCaller, access[c].stage # "idle", NEW x, NEW f, Saw(c, x, f)
    PROVE  /\ access'[c].stage = "compare" /\ access'[c].op = access[c].op /\ access'[c].target = access[c].target
           /\ access'[c].data = access[c].data /\ access'[c].expected = access[c].expected
           /\ access'[c].handle = access[c].handle /\ access'[c].actual = x /\ access'[c].found = f
<1>1. access[c] \in Accesses
         /\ access'[c] = [access[c] EXCEPT !.stage = "compare", !.actual = x, !.found = f]
    BY AtWork DEF Saw, StoresTyped
<1> QED
    BY <1>1 DEF Accesses

\* How far a step takes its call: the driver's lock is taken before what it protects is read, and
\* given up with the call.
LEMMA OwnSteps ==
    ASSUME StoresInv, NEW c \in StoreCaller, Works(c)
    PROVE  \/ access'[c] = Idle
           \/ /\ access'[c].stage \in {"open", "publish", "ready", "read old"}
              /\ UNCHANGED locks
           \/ access'[c].stage = "read" /\ Take(c) /\ driver \in {"local", "git"}
              /\ access'[c] = [access[c] EXCEPT !.stage = "read"]
           \/ /\ access'[c].stage \in {"compare", "write", "commit", "push", "clean"}
              /\ access'[c].target = access[c].target /\ access'[c].handle = access[c].handle
              /\ driver = "sql" =>
                   \/ UNCHANGED locks /\ (HoldsLock(c)' => HoldsLock(c))
                   \/ Take(c)
              /\ driver # "sql" => UNCHANGED locks /\ (HoldsLock(c)' => HoldsLock(c))
<1> USE DEF Works, inStore, counts, Done, Spare, Does, In
<1>1. StoresTyped /\ InDriver(c) /\ access \in [StoreCaller -> {Idle} \cup Accesses]
    BY DEF StoresInv, StoresTyped
<1>2. CASE Ask(c)
    BY <1>1, <1>2 DEF Ask, Asking
<1>3. CASE OpenStore(c)
    <2>1. access[c] \in Accesses /\ UNCHANGED locks
          /\ access' = [access EXCEPT ![c] = [access[c] EXCEPT !.stage = "publish", !.handle = Len(handle) + 1]]
        BY <1>1, <1>3, AtWork DEF OpenStore, OpenLocal, OpenGit, OpenS3, OpenSQL
    <2>2. access'[c].stage = "publish"
        BY <1>1, <2>1 DEF Accesses
    <2> QED
        BY <2>1, <2>2
<1>4. CASE PublishStore(c)
    <2>1. access[c] \in Accesses /\ UNCHANGED locks
        BY <1>1, <1>4, AtWork DEF PublishStore
    <2>2. \/ access' = [access EXCEPT ![c] = [access[c] EXCEPT !.stage = "ready"]]
          \/ access' = [access EXCEPT ![c] = [access[c] EXCEPT !.stage = "ready", !.handle = pool.published]]
        BY <1>4 DEF PublishStore, openSQL, openPerSpace, Reach
    <2>3. access'[c].stage = "ready"
        BY <1>1, <2>1, <2>2 DEF Accesses
    <2> QED
        BY <2>1, <2>3
<1>5. CASE LockStore(c)
    BY <1>1, <1>5, ReachFields DEF LockStore, withLock, gitLock
<1>6. CASE CompareStore(c)
    BY <1>1, <1>6, ReachFields DEF CompareStore, HoldsLock, InLock, Compared
<1>7. CASE FailStore(c)
    BY <1>1, <1>7 DEF FailStore
<1>8. CASE readRecord(c)
    BY ZenonT(60), <1>1, <1>8, SawFields DEF readRecord, ReadStore, HoldsLock, InLock
<1>9. CASE getLegacy(c)
    <2>1. access[c].stage # "idle" /\ driver = "s3" /\ UNCHANGED locks
          /\ \E f \in {"file", "old"} : Saw(c, object.old, f)
        BY <1>9 DEF getLegacy
    <2>2. access'[c].stage = "compare" /\ access'[c].target = access[c].target /\ access'[c].handle = access[c].handle
        BY <1>1, <2>1, SawFields
    <2> QED
        BY <2>1, <2>2, OwnDriver DEF HoldsLock
<1>10. CASE getRecord(c)
    <2>1. access[c].stage # "idle" /\ driver = "s3" /\ UNCHANGED locks
          /\ (Reach(c, "read old") \/ Saw(c, object[access[c].target], "file"))
        BY <1>10 DEF getRecord
    <2>2. CASE Reach(c, "read old")
        BY <1>1, <2>1, <2>2, ReachFields
    <2>3. CASE Saw(c, object[access[c].target], "file")
        <3>1. access'[c].stage = "compare" /\ access'[c].target = access[c].target
              /\ access'[c].handle = access[c].handle
            BY <1>1, <2>1, <2>3, SawFields
        <3> QED
            BY <2>1, <3>1, OwnDriver DEF HoldsLock
    <2> QED
        BY <2>1, <2>2, <2>3
<1>11. CASE selectForUpdate(c)
    <2>1. /\ access[c].stage # "idle" /\ driver = "sql" /\ Saw(c, object[access[c].target], "file")
          /\ IF object[access[c].target] = Absent THEN UNCHANGED locks ELSE Take(c)
        BY <1>11 DEF selectForUpdate
    <2>2. /\ access'[c].stage = "compare" /\ access'[c].target = access[c].target
          /\ access'[c].handle = access[c].handle /\ access'[c].actual = object[access[c].target]
        BY <1>1, <2>1, SawFields
    <2> QED
        BY <2>1, <2>2, OwnDriver DEF HoldsLock
<1>12. CASE LocalPut(c) \/ LocalDelete(c) \/ LocalSetHead(c) \/ SQLPut(c) \/ SQLDelete(c) \/ SQLSetHead(c)
           \/ maybePush(c) \/ S3Clean(c) \/ S3Delete(c) \/ S3SetHead(c)
    BY <1>1, <1>12 DEF LocalPut, LocalDelete, LocalSetHead, SQLPut, SQLDelete, SQLSetHead, maybePush,
           S3Clean, S3Delete, S3SetHead
<1>13. CASE GitPut(c) \/ GitDelete(c) \/ GitSetHead(c) \/ commit(c)
    <2>1. CASE GitPut(c)
        BY <1>1, <2>1, ReachFields DEF GitPut, HoldsLock, InLock
    <2>2. CASE GitDelete(c)
        BY <1>1, <2>2, ReachFields DEF GitDelete, HoldsLock, InLock
    <2>3. CASE GitSetHead(c)
        BY <1>1, <2>3, ReachFields DEF GitSetHead, HoldsLock, InLock
    <2>4. CASE commit(c)
        BY <1>1, <2>4, ReachFields DEF commit, HoldsLock, InLock
    <2> QED
        BY <1>13, <2>1, <2>2, <2>3, <2>4
<1>14. CASE S3Put(c)
    BY <1>1, <1>14, ReachFields DEF S3Put, HoldsLock
<1> QED
    BY <1>2, <1>3, <1>4, <1>5, <1>6, <1>7, <1>8, <1>9, <1>10, <1>11, <1>12, <1>13, <1>14 DEF ReadStore, WriteStore

\* A call keeps its own lock as long as it needs it, and takes it from nobody.
LEMMA OwnLock ==
    ASSUME StoresInv, NEW c \in StoreCaller, Works(c)
    PROVE  /\ HoldsLock(c)' => [on |-> Lock(c)', by |-> c] \in locks'
           /\ \A k, l \in locks' : k.on = l.on => k.by = l.by
           /\ driver' = driver
<1>1. driver' = driver
    BY OwnDriver
<1>2. locks' \subseteq locks \/ Take(c)
    BY DEF Works, Ask, OpenStore, PublishStore, LockStore, ReadStore, CompareStore, WriteStore, FailStore,
           inStore, counts, Spare, LocalPut, LocalDelete, LocalSetHead, SQLPut, SQLDelete, SQLSetHead, GitPut,
           GitDelete, GitSetHead, commit, maybePush, S3Put, S3Clean, S3Delete, S3SetHead, Done, withLock, gitLock,
           readRecord, selectForUpdate, getRecord, getLegacy
<1>3. \A k, l \in locks' : k.on = l.on => k.by = l.by
    BY <1>2 DEF StoresInv, Take
<1>4. HoldsLock(c) => [on |-> Lock(c), by |-> c] \in locks
    BY DEF StoresInv
<1>5. HoldsLock(c)' => [on |-> Lock(c)', by |-> c] \in locks'
    <2>1. CASE access'[c] = Idle
        BY <2>1 DEF HoldsLock, InLock, Compared, Idle
    <2>2. CASE access'[c].stage \in {"open", "publish", "ready", "read old"}
        BY <2>2 DEF HoldsLock, InLock, Compared
    <2>3. CASE access'[c].stage = "read" /\ Take(c) /\ driver \in {"local", "git"}
               /\ access'[c] = [access[c] EXCEPT !.stage = "read"]
        BY <1>1, <2>3 DEF HoldsLock, Lock, Take
    <2>4. CASE /\ access'[c].stage \in {"compare", "write", "commit", "push", "clean"}
               /\ access'[c].target = access[c].target /\ access'[c].handle = access[c].handle
               /\ driver = "sql" =>
                   \/ UNCHANGED locks /\ (HoldsLock(c)' => HoldsLock(c))
                   \/ Take(c)
               /\ driver # "sql" => UNCHANGED locks /\ (HoldsLock(c)' => HoldsLock(c))
        <3>1. Lock(c)' = Lock(c)
            BY <1>1, <2>4 DEF Lock
        <3> QED
            BY <1>4, <2>4, <3>1 DEF Take
    <2> QED
        BY <2>1, <2>2, <2>3, <2>4, OwnSteps
<1> QED
    BY <1>1, <1>3, <1>5

\* A call compares what it has read with what it expects, and writes only when they are the same.
LEMMA OwnRead ==
    ASSUME StoresInv, NEW c \in StoreCaller, Works(c)
    PROVE  StillThere(c)'
<1> USE DEF inStore, counts, Done, Spare, Does, In
<1>1. /\ StoresTyped /\ InDriver(c) /\ StillThere(c) /\ access \in [StoreCaller -> {Idle} \cup Accesses]
      /\ driver' = driver /\ astray' = astray /\ (access[c].stage # "idle" => access[c] \in Accesses)
    BY OwnDriver, AtWork DEF StoresInv, StoresTyped
<1>2. CASE access'[c].stage \notin Compared
    BY <1>2 DEF StillThere
<1>3. CASE access'[c].stage \in Compared
    <2>1. CASE readRecord(c) /\ UNCHANGED object
        BY <1>1, <2>1, SawFields DEF readRecord, StillThere, Compared
    <2>2. CASE selectForUpdate(c) /\ UNCHANGED object
        BY <1>1, <2>2, SawFields DEF selectForUpdate, StillThere, Compared
    <2>3. CASE getRecord(c) /\ UNCHANGED object
        <3>1. access[c].stage # "idle" /\ driver = "s3"
              /\ \/ Reach(c, "read old")
                 \/ /\ Saw(c, object[access[c].target], "file")
                    /\ access[c].target = "file" => object[access[c].target] # Absent
            BY <2>3 DEF getRecord
        <3>2. CASE Reach(c, "read old")
            <4>1. access'[c].stage = "read old"
                BY <1>1, <3>1, <3>2, ReachFields
            <4> QED
                BY <1>3, <4>1 DEF Compared
        <3>3. CASE Saw(c, object[access[c].target], "file")
                   /\ (access[c].target = "file" => object[access[c].target] # Absent)
            <4>1. /\ access'[c].target = access[c].target /\ access'[c].actual = object[access[c].target]
                  /\ access'[c].stage = "compare"
                BY <1>1, <3>1, <3>3, SawFields
            <4> QED
                BY <1>1, <2>3, <3>1, <3>3, <4>1 DEF StillThere
        <3> QED
            BY <3>1, <3>2, <3>3
    <2>4. CASE getLegacy(c) /\ UNCHANGED object
        <3>1. /\ access[c].stage # "idle" /\ driver = "s3"
              /\ \E f \in {"file", "old"} : Saw(c, object.old, f)
            BY <2>4 DEF getLegacy
        <3>2. access'[c].stage = "compare" /\ access'[c].actual = object.old
            BY <1>1, <3>1, SawFields
        <3> QED
            BY <1>1, <2>4, <3>1, <3>2 DEF StillThere
    <2>5. CASE CompareStore(c)
        <3>1. access[c].stage = "compare" /\ UNCHANGED object
            BY <2>5 DEF CompareStore
        <3>2. access[c].actual = access[c].expected /\ Reach(c, "write")
            BY <1>1, <1>3, <2>5 DEF CompareStore, Compared, Idle
        <3>3. /\ access'[c].target = access[c].target /\ access'[c].actual = access[c].actual
              /\ access'[c].found = access[c].found /\ access'[c].expected = access[c].expected
            BY <1>1, <3>1, <3>2, ReachFields
        <3> QED
            BY <1>1, <3>1, <3>2, <3>3 DEF StillThere, Compared
    <2>6. CASE Ask(c)
        BY <1>1, <1>3, <2>6 DEF Ask, Asking, Compared
    <2>7. CASE OpenStore(c) \/ PublishStore(c) \/ LockStore(c)
        <3>1. access'[c].stage \in {"publish", "ready", "read"}
            <4>1. CASE LockStore(c)
                BY <1>1, <4>1, ReachFields DEF LockStore, withLock, gitLock
            <4>2. CASE OpenStore(c) \/ PublishStore(c)
                <5>1. access[c] \in Accesses /\ access[c].stage # "idle"
                    BY <1>1, <4>2 DEF OpenStore, OpenLocal, OpenGit, OpenS3, OpenSQL, PublishStore
                <5>2. \/ Reach(c, "ready")
                      \/ \E st \in {"publish", "ready"} : \E h : access' = [access EXCEPT ![c].stage = st, ![c].handle = h]
                    BY <4>2 DEF OpenStore, PublishStore, openSQL, openPerSpace
                <5>3. CASE Reach(c, "ready")
                    BY <1>1, <5>1, <5>3, ReachFields
                <5>4. ASSUME NEW st \in {"publish", "ready"}, NEW h,
                             access' = [access EXCEPT ![c].stage = st, ![c].handle = h]
                      PROVE  access'[c].stage \in {"publish", "ready"}
                    <6>1. access'[c] = [access[c] EXCEPT !.stage = st, !.handle = h]
                        BY <1>1, <5>4
                    <6> QED
                        BY <5>1, <6>1 DEF Accesses
                <5> QED
                    BY <5>2, <5>3, <5>4
            <4> QED
                BY <2>7, <4>1, <4>2
        <3> QED
            BY <1>3, <3>1 DEF Compared
    <2>8. CASE WriteStore(c)
        <3>1. access[c].stage # "idle" /\ (access' = [access EXCEPT ![c] = Idle]
                 \/ \E st \in {"commit", "push", "clean"} : Reach(c, st))
            BY <2>8 DEF WriteStore, LocalPut, LocalDelete, LocalSetHead, SQLPut, SQLDelete, SQLSetHead, GitPut,
                   GitDelete, GitSetHead, commit, maybePush, S3Put, S3Clean, S3Delete, S3SetHead
        <3>2. access'[c] = Idle \/ access'[c].stage \in {"commit", "push", "clean"}
            BY <1>1, <3>1, ReachFields
        <3> QED
            BY <1>3, <3>2 DEF Compared, Idle
    <2>9. CASE FailStore(c)
        BY <1>1, <1>3, <2>9 DEF FailStore, Idle, Compared
    <2> QED
        BY <2>1, <2>2, <2>3, <2>4, <2>5, <2>6, <2>7, <2>8, <2>9 DEF Works, ReadStore
<1> QED
    BY <1>2, <1>3

\* A call goes through the stages of its own driver.
LEMMA OwnStages ==
    ASSUME StoresInv, NEW c \in StoreCaller, Works(c)
    PROVE  InDriver(c)'
<1> USE DEF inStore, counts, Done, Spare, Does, In
<1>1. /\ StoresTyped /\ InDriver(c) /\ access \in [StoreCaller -> {Idle} \cup Accesses]
      /\ driver' = driver /\ (access[c].stage # "idle" => access[c] \in Accesses)
    BY OwnDriver, AtWork DEF StoresInv, StoresTyped
<1>2. CASE access'[c] = Idle
    BY <1>2 DEF InDriver, Idle
<1>3. CASE Ask(c)
    <2>1. PICK wish \in Jobs : access' = [access EXCEPT ![c] =
              IF pool.published # 0 /\ ~pool.closed THEN Asking(wish, "ready", pool.published)
                                                    ELSE Asking(wish, "open", 0)]
        BY <1>3 DEF Ask
    <2>2. /\ access'[c].stage \in {"ready", "open"} /\ access'[c].found = "file"
          /\ access'[c].op = wish.op /\ access'[c].target = wish.target /\ access'[c].data = wish.data
          /\ access'[c].expected = wish.expected
        BY <1>1, <2>1 DEF Asking
    <2>3. wish.op = "delete" => wish.target = "file" /\ wish.expected # Absent /\ wish.data = Absent
        BY StoresAssumption DEF Jobs
    <2> QED
        BY <2>2, <2>3 DEF InDriver
<1>4. ASSUME NEW st \in {"publish", "ready", "read old", "read", "write", "commit", "push", "clean"},
             access[c].stage # "idle", Reach(c, st),
             st \in {"commit", "push"} => driver = "git",
             st = "read" => driver \in {"local", "git"},
             st \in {"read old", "clean"} => driver = "s3" /\ access[c].target = "file",
             st = "clean" => access[c].found = "old"
      PROVE  InDriver(c)'
    BY <1>1, <1>4, ReachFields DEF InDriver
<1>5. ASSUME NEW x, NEW f, access[c].stage # "idle", Saw(c, x, f), f = "old" => driver = "s3"
      PROVE  InDriver(c)'
    <2>1. /\ access'[c].stage = "compare" /\ access'[c].op = access[c].op /\ access'[c].target = access[c].target
          /\ access'[c].data = access[c].data /\ access'[c].expected = access[c].expected /\ access'[c].found = f
        BY <1>1, <1>5, SawFields
    <2> QED
        BY <1>1, <1>5, <2>1 DEF InDriver
<1>6. ASSUME NEW st \in {"publish", "ready"}, NEW h,
             access[c].stage # "idle", access' = [access EXCEPT ![c].stage = st, ![c].handle = h]
      PROVE  InDriver(c)'
    <2>1. access'[c] = [access[c] EXCEPT !.stage = st, !.handle = h]
        BY <1>1, <1>6
    <2>2. /\ access'[c].stage = st /\ access'[c].op = access[c].op /\ access'[c].target = access[c].target
          /\ access'[c].data = access[c].data /\ access'[c].expected = access[c].expected
          /\ access'[c].found = access[c].found
        BY <1>1, <1>6, <2>1 DEF Accesses
    <2> QED
        BY <1>1, <1>6, <2>2 DEF InDriver
<1>7. CASE OpenStore(c)
    BY <1>6, <1>7 DEF OpenStore, OpenLocal, OpenGit, OpenS3, OpenSQL
<1>8. CASE PublishStore(c)
    BY <1>4, <1>6, <1>8 DEF PublishStore, openSQL, openPerSpace
<1>9. CASE LockStore(c)
    BY <1>4, <1>9 DEF LockStore, withLock, gitLock
<1>10. CASE ReadStore(c)
    <2>1. CASE readRecord(c) \/ selectForUpdate(c)
        BY <1>5, <2>1 DEF readRecord, selectForUpdate
    <2>2. CASE getRecord(c)
        BY <1>4, <1>5, <2>2 DEF getRecord
    <2>3. CASE getLegacy(c)
        BY <1>5, <2>3 DEF getLegacy
    <2> QED
        BY <1>10, <2>1, <2>2, <2>3 DEF ReadStore
<1>11. CASE CompareStore(c) \/ FailStore(c)
    BY <1>1, <1>2, <1>4, <1>11 DEF CompareStore, FailStore
<1>12. CASE LocalPut(c) \/ LocalDelete(c) \/ LocalSetHead(c) \/ SQLPut(c) \/ SQLDelete(c) \/ SQLSetHead(c)
           \/ maybePush(c) \/ S3Clean(c) \/ S3Delete(c) \/ S3SetHead(c)
    BY <1>1, <1>2, <1>12 DEF LocalPut, LocalDelete, LocalSetHead, SQLPut, SQLDelete, SQLSetHead, maybePush,
           S3Clean, S3Delete, S3SetHead
<1>13. CASE GitPut(c) \/ GitDelete(c) \/ GitSetHead(c) \/ commit(c)
    BY <1>4, <1>13 DEF GitPut, GitDelete, GitSetHead, commit
<1>14. CASE S3Put(c)
    BY <1>1, <1>2, <1>4, <1>14 DEF S3Put
<1> QED
    BY <1>3, <1>7, <1>8, <1>9, <1>10, <1>11, <1>12, <1>13, <1>14 DEF Works, WriteStore

\* While no space is deleted and the pool is open, the first handle published is the one everybody works with.
LEMMA OneHandleStays ==
    ASSUME StoresInv, NEW c \in StoreCaller, Works(c)
    PROVE  OneHandle'
<1> USE DEF inStore, counts, Done, Spare, Does, In
<1>1. /\ StoresTyped /\ OneHandle /\ access \in [StoreCaller -> {Idle} \cup Accesses]
      /\ astray' = astray /\ (access[c].stage # "idle" => access[c] \in Accesses)
      /\ \A d \in StoreCaller : d # c => access'[d] = access[d]
    BY OwnDriver, AtWork, OtherCalls DEF StoresInv, StoresTyped
<1>2. CASE PublishStore(c)
    <2>1. \/ UNCHANGED pool
          \/ pool.published = 0 /\ pool'.closed = pool.closed
        BY <1>1, <1>2 DEF PublishStore, openSQL, openPerSpace, StoresTyped
    <2>2. ASSUME ~astray, NEW d \in StoreCaller, access'[d].stage \notin {"idle", "open", "publish"}
          PROVE  access'[d].handle = pool'.published /\ pool'.published # 0
        <3>1. CASE d = c
            <4>1. CASE pool.published # 0
                <5>1. access' = [access EXCEPT ![c] = [access[c] EXCEPT !.stage = "ready", !.handle = pool.published]]
                      /\ UNCHANGED pool
                    BY <1>1, <1>2, <2>2, <4>1 DEF PublishStore, openSQL, openPerSpace, OneHandle
                <5>2. access[c] \in Accesses
                    BY <1>1, <1>2 DEF PublishStore
                <5>3. access'[c] = [access[c] EXCEPT !.stage = "ready", !.handle = pool.published]
                    BY <1>1, <5>1
                <5>4. access'[c].handle = pool.published
                    BY <5>2, <5>3 DEF Accesses
                <5> QED
                    BY <3>1, <4>1, <5>1, <5>4
            <4>2. CASE pool.published = 0
                <5>1. Reach(c, "ready") /\ pool' = [pool EXCEPT !.published = access[c].handle]
                      /\ access[c].stage = "publish"
                    BY <1>1, <1>2, <2>2, <4>2 DEF PublishStore, openSQL, openPerSpace, OneHandle
                <5>2. access'[c].handle = access[c].handle
                    BY <1>1, <5>1, ReachFields
                <5>3. pool'.published = access[c].handle
                    BY <1>1, <5>1 DEF StoresTyped
                <5>4. access[c].handle \in DOMAIN handle /\ DOMAIN handle = 1..Len(handle)
                    BY <1>1, <5>1, LenProperties DEF StoresTyped
                <5> QED
                    BY <3>1, <5>2, <5>3, <5>4, LenProperties, <1>1 DEF StoresTyped
            <4> QED
                BY <4>1, <4>2
        <3>2. CASE d # c
            <4>1. pool.published = access[d].handle /\ pool.published # 0
                BY <1>1, <2>2, <3>2 DEF OneHandle
            <4> QED
                BY <1>1, <2>1, <3>2, <4>1
        <3> QED
            BY <3>1, <3>2
    <2> QED
        BY <1>1, <2>1, <2>2 DEF OneHandle
<1>3. ASSUME UNCHANGED pool,
             ~astray /\ access'[c].stage \notin {"idle", "open", "publish"} =>
               access'[c].handle = pool.published /\ pool.published # 0
      PROVE  OneHandle'
    BY <1>1, <1>3 DEF OneHandle
<1>4. CASE Ask(c)
    <2>1. UNCHANGED pool /\ \E wish \in Jobs : access' = [access EXCEPT ![c] =
              IF pool.published # 0 /\ ~pool.closed THEN Asking(wish, "ready", pool.published)
                                                    ELSE Asking(wish, "open", 0)]
        BY <1>4 DEF Ask
    <2> QED
        BY <1>1, <1>3, <2>1 DEF Asking
<1>5. CASE OpenStore(c)
    <2>1. UNCHANGED pool /\ access[c] \in Accesses
          /\ access' = [access EXCEPT ![c] = [access[c] EXCEPT !.stage = "publish", !.handle = Len(handle) + 1]]
        BY <1>1, <1>5 DEF OpenStore, OpenLocal, OpenGit, OpenS3, OpenSQL
    <2>2. access'[c].stage = "publish"
        BY <1>1, <2>1 DEF Accesses
    <2> QED
        BY <1>3, <2>1, <2>2
<1>6. ASSUME NEW st, access[c].stage \notin {"idle", "open", "publish"}, UNCHANGED pool, Reach(c, st)
      PROVE  OneHandle'
    <2>1. access'[c].handle = access[c].handle
        BY <1>1, <1>6, ReachFields
    <2> QED
        BY <1>1, <1>3, <1>6, <2>1 DEF OneHandle
<1>7. ASSUME NEW x, NEW f, access[c].stage \notin {"idle", "open", "publish"}, UNCHANGED pool, Saw(c, x, f)
      PROVE  OneHandle'
    <2>1. access'[c].handle = access[c].handle
        BY <1>1, <1>7, SawFields
    <2> QED
        BY <1>1, <1>3, <1>7, <2>1 DEF OneHandle
<1>8. CASE access' = [access EXCEPT ![c] = Idle] /\ UNCHANGED pool
    BY <1>1, <1>3, <1>8 DEF Idle
<1>9. CASE LockStore(c)
    BY <1>6, <1>9 DEF LockStore, withLock, gitLock
<1>10. CASE ReadStore(c)
    BY <1>6, <1>7, <1>10 DEF ReadStore, readRecord, selectForUpdate, getRecord, getLegacy
<1>11. CASE CompareStore(c)
    BY <1>6, <1>8, <1>11 DEF CompareStore
<1>12. CASE FailStore(c)
    BY <1>8, <1>12 DEF FailStore
<1>13. CASE WriteStore(c)
    BY <1>6, <1>8, <1>13 DEF WriteStore, LocalPut, LocalDelete, LocalSetHead, SQLPut, SQLDelete, SQLSetHead,
           GitPut, GitDelete, GitSetHead, commit, maybePush, S3Put, S3Clean, S3Delete, S3SetHead
<1> QED
    BY <1>2, <1>4, <1>5, <1>9, <1>10, <1>11, <1>12, <1>13 DEF Works

\* Only S3 keeps files under their old keys.
LEMMA OldKeys ==
    ASSUME StoresInv, NEW c \in StoreCaller, Works(c)
    PROVE  (driver # "s3" => object.old = Absent)'
<1>1. driver' = driver /\ (driver # "s3" => object.old = Absent)
    BY OwnDriver DEF StoresInv
<1>2. object'.old # object.old => driver = "s3"
    BY ObjectChanges
<1> QED
    BY <1>1, <1>2

\* What happens outside the calls: a space is deleted, and the pool is closed.
Outside == Evict \/ RemoveSpace \/ ClosePool

LEMMA OutsideKeeps ==
    ASSUME StoresInv, Outside
    PROVE  StoresInv'
<1> USE DEF Outside, inStore, counts
<1>1. /\ UNCHANGED <<driver, locks, access>> /\ astray'
    BY DEF Evict, RemoveSpace, ClosePool
<1>2. StoresTyped'
    <2>1. StoresTyped
        BY DEF StoresInv
    <2>2. CASE Evict
        BY <2>1, <2>2 DEF StoresTyped, Evict, closeBackend
    <2>3. CASE RemoveSpace
        BY <2>1, <2>3 DEF StoresTyped, RemoveSpace, Objects
    <2>4. CASE ClosePool
        <3>1. UNCHANGED <<driver, object, access>> /\ pool' = [published |-> 0, closed |-> TRUE]
              /\ (UNCHANGED handle \/ \E h : handle' = [handle EXCEPT ![h] = "closed"])
            BY <2>4 DEF ClosePool, closeBackend
        <3>2. handle' \in Seq({"open", "closed"}) /\ DOMAIN handle' = DOMAIN handle
            BY SMTT(30), <2>1, <3>1 DEF StoresTyped
        <3> QED
            BY <2>1, <3>1, <3>2 DEF StoresTyped
    <2> QED
        BY <2>2, <2>3, <2>4
<1>3. object'.old = object.old
      /\ (driver \in {"sql", "s3"} => object' = object)
    BY DEF Evict, RemoveSpace, ClosePool, StoresInv, StoresTyped
<1>4. ASSUME NEW c \in StoreCaller
      PROVE  InDriver(c)' /\ StillThere(c)' /\ (HoldsLock(c)' => [on |-> Lock(c)', by |-> c] \in locks')
    <2>1. InDriver(c) /\ StillThere(c) /\ (HoldsLock(c) => [on |-> Lock(c), by |-> c] \in locks)
        BY DEF StoresInv
    <2>2. InDriver(c)' /\ (HoldsLock(c)' => [on |-> Lock(c)', by |-> c] \in locks')
        BY <1>1, <2>1 DEF InDriver, HoldsLock, Lock
    <2>3. StillThere(c)'
        BY <1>1, <1>3, <2>1 DEF StillThere
    <2> QED
        BY <2>2, <2>3
<1> QED
    BY <1>1, <1>2, <1>3, <1>4 DEF StoresInv, OneHandle

\* A store opened beside the pool is nobody's handle.
LEMMA AsideKeeps ==
    ASSUME StoresInv, OpenAside
    PROVE  StoresInv'
<1>1. /\ UNCHANGED <<driver, object, locks, pool, access, astray>> /\ handle' = Append(handle, "open")
      /\ StoresTyped
    BY DEF OpenAside, inStore, StoresInv
<1>2. /\ handle' \in Seq({"open", "closed"}) /\ DOMAIN handle \subseteq DOMAIN handle'
    BY <1>1, AppendProperties, LenProperties DEF StoresTyped
<1>3. StoresTyped'
    BY <1>1, <1>2 DEF StoresTyped
<1> QED
    BY <1>1, <1>3 DEF StoresInv, OneHandle, InDriver, StillThere, HoldsLock, Lock

LEMMA StoresStart ==
    ASSUME StoresInit
    PROVE  StoresInv
<1>1. handle = <<>> /\ \A c \in StoreCaller : access[c] = Idle
    BY DEF StoresInit
<1>2. StoresTyped
    BY <1>1, StoresAssumption DEF StoresInit, StoresTyped, Objects, Idle
<1>3. OneHandle /\ locks = {} /\ (driver # "s3" => object.old = Absent)
    BY <1>1 DEF StoresInit, OneHandle, Idle
<1>4. \A c \in StoreCaller : InDriver(c) /\ StillThere(c) /\ ~HoldsLock(c)
    <2>1. \A c \in StoreCaller : access[c].stage = "idle"
        BY <1>1 DEF Idle
    <2>2. \A c \in StoreCaller : InDriver(c)
        BY <2>1 DEF InDriver
    <2>3. \A c \in StoreCaller : StillThere(c) /\ ~HoldsLock(c)
        BY <2>1 DEF StillThere, HoldsLock, InLock, Compared
    <2> QED
        BY <2>2, <2>3
<1> QED
    BY <1>2, <1>3, <1>4 DEF StoresInv

LEMMA StoresStep ==
    ASSUME StoresInv, [StoresNext]_storeVars
    PROVE  StoresInv'
<1>1. CASE Outside
    BY <1>1, OutsideKeeps
<1>2. ASSUME NEW c \in StoreCaller, Works(c)
      PROVE  StoresInv'
    <2>1. StoresTyped' /\ OneHandle' /\ (driver # "s3" => object.old = Absent)'
        BY <1>2, StoresStayTyped, OneHandleStays, OldKeys DEF StoresInv
    <2>2. /\ InDriver(c)' /\ StillThere(c)' /\ (HoldsLock(c)' => [on |-> Lock(c)', by |-> c] \in locks')
          /\ \A k, l \in locks' : k.on = l.on => k.by = l.by
        BY <1>2, OwnStages, OwnRead, OwnLock
    <2>3. \A d \in StoreCaller \ {c} : InDriver(d)' /\ StillThere(d)'
                                       /\ (HoldsLock(d)' => [on |-> Lock(d)', by |-> d] \in locks')
        BY <1>2, OthersUndisturbed
    <2> QED
        BY <2>1, <2>2, <2>3 DEF StoresInv
<1>3. CASE UNCHANGED storeVars
    BY <1>3 DEF storeVars, StoresInv, StoresTyped, OneHandle, InDriver, StillThere, HoldsLock, Lock
<1> QED
    BY <1>1, <1>2, <1>3, AsideKeeps DEF StoresNext, Works, Outside

LEMMA StoresAlways == StoresSpec => []StoresInv
<1> QED
    BY StoresStart, StoresStep, PTL DEF StoresSpec

\* What every step does to an object, if it changes one while no space has been deleted and the
\* pool is open.
LEMMA SwapStep ==
    ASSUME StoresInv, [StoresNext]_storeVars, NEW target \in {"file", "head"},
           Visible(object', target) # Visible(object, target), ~astray
    PROVE  \E c \in StoreCaller : /\ Moved(c) /\ access[c].target = target
                                  /\ \/ Visible(object, target) = access[c].expected
                                     \/ driver = "s3" /\ (access[c].op = "delete" \/ access[c].found = "old")
<1>1. object' # object
    BY DEF Visible
<1>2. PICK c \in StoreCaller : Works(c)
    BY <1>1 DEF StoresNext, Works, storeVars, OpenAside, Evict, RemoveSpace, ClosePool, inStore
<1>3. /\ InDriver(c) /\ StillThere(c) /\ (driver # "s3" => object.old = Absent)
      /\ object \in [file : Objects, old : Objects, head : Objects]
    BY DEF StoresInv, StoresTyped
<1>4. PICK place \in {target, "old"} : object'[place] # object[place] /\ (place = "old" => target = "file")
    BY DEF Visible
<1>5. /\ access[c].stage \in {"write", "clean"} /\ access'[c].stage # access[c].stage
      /\ place = "old" => driver = "s3" /\ access[c].target = "file" /\ access[c].found = "old"
      /\ place # "old" => access[c].stage = "write" /\ access[c].target = place
      /\ driver = "sql" => object[place] = access[c].actual
      /\ driver = "s3" => \/ access[c].op = "delete" \/ access[c].found = "old"
                          \/ object[place] = access[c].actual
    BY <1>2, <1>4, ObjectChanges
<1>6. access[c].target = target /\ Moved(c)
    BY <1>4, <1>5 DEF Moved
<1>7. ASSUME place # "old", driver # "s3" \/ ~(access[c].op = "delete" \/ access[c].found = "old")
      PROVE  Visible(object, target) = access[c].expected
    <2>1. access[c].stage = "write" /\ access[c].actual = access[c].expected /\ place = target
        BY <1>3, <1>4, <1>5, <1>7 DEF StillThere, Compared
    <2>2. access[c] \in Accesses
        BY <2>1, AtWork DEF StoresInv
    <2>3. driver # "s3" => object[target] = access[c].actual
        BY <1>3, <1>5, <1>7, <2>1, StoresAssumption DEF StillThere, Compared, StoresInv, StoresTyped
    <2>4. CASE driver # "s3"
        BY <1>3, <2>1, <2>3, <2>4, StoresAssumption DEF Visible, StoresInv, StoresTyped
    <2>5. CASE driver = "s3"
        <3>1. object[target] = access[c].actual /\ access[c].found = "file"
            BY <1>5, <1>7, <2>1, <2>2, <2>5 DEF Accesses
        <3> QED
            BY <1>3, <1>6, <2>1, <2>5, <3>1 DEF Visible, StillThere, Compared
    <2> QED
        BY <2>4, <2>5
<1> QED
    BY <1>2, <1>5, <1>6, <1>7

\* With every driver a caller replaces or deletes only what it expected to find, whatever the other
\* callers do between its read and its write: the driver's own lock, or its conditional request,
\* makes the two one. The exceptions are stated in the property.
THEOREM CompareAndSwap == StoresSpec => SwapsWhatItCompared
<1> DEFINE Body ==
        \A target \in {"file", "head"} : Visible(object', target) # Visible(object, target) =>
         \/ astray
         \/ \E c \in StoreCaller : /\ Moved(c) /\ access[c].target = target
                                   /\ \/ Visible(object, target) = access[c].expected
                                      \/ driver = "s3" /\ (access[c].op = "delete" \/ access[c].found = "old")
<1>1. StoresInv /\ [StoresNext]_storeVars => Body
    BY SwapStep
<1>2. SwapsWhatItCompared <=> [][Body]_storeVars
    BY PTL DEF SwapsWhatItCompared
<1> HIDE DEF Body
<1> QED
    BY <1>1, <1>2, StoresAlways, PTL DEF StoresSpec

\* A step keeps every open connection owned.
LEMMA ConnectionsStayOwned ==
    ASSUME StoresInv, ConnectionsOwned, [StoresNext]_storeVars
    PROVE  ConnectionsOwned'
<1> USE DEF inStore, counts
<1>1. StoresTyped /\ access \in [StoreCaller -> {Idle} \cup Accesses]
      /\ DOMAIN handle = 1..Len(handle) /\ Len(handle) \in Nat
    BY LenProperties DEF StoresInv, StoresTyped
<1>2. ASSUME NEW c \in StoreCaller, OpenStore(c)
      PROVE  ConnectionsOwned'
    <2>1. /\ UNCHANGED <<driver, pool, aside>> /\ handle' = Append(handle, "open") /\ access[c].stage = "open"
          /\ access' = [access EXCEPT ![c] = [access[c] EXCEPT !.stage = "publish", !.handle = Len(handle) + 1]]
        BY <1>2 DEF OpenStore, OpenLocal, OpenGit, OpenS3, OpenSQL, In
    <2>2. access[c] \in Accesses
        BY <1>1, <2>1, AtWork
    <2>3. access'[c] = [access[c] EXCEPT !.stage = "publish", !.handle = Len(handle) + 1]
        BY <1>1, <2>1
    <2>4. access'[c].stage = "publish" /\ access'[c].handle = Len(handle) + 1
        BY <2>2, <2>3 DEF Accesses
    <2>5. /\ DOMAIN handle' = 1..Len(handle) + 1
          /\ \A h \in DOMAIN handle : handle'[h] = handle[h]
        BY <1>1, <2>1, AppendProperties DEF StoresTyped
    <2>6. \A d \in StoreCaller : access[d].stage = "publish" => access'[d] = access[d]
        BY <1>1, <2>1
    <2>7. ASSUME driver = "sql", ~pool.closed, NEW h \in DOMAIN handle' \ aside, handle'[h] = "open"
          PROVE  h = pool.published \/ \E d \in StoreCaller : access'[d].stage = "publish" /\ access'[d].handle = h
        <3>1. CASE h = Len(handle) + 1
            BY <2>4, <3>1
        <3>2. CASE h \in DOMAIN handle
            BY <2>5, <2>6, <2>7, <3>2 DEF ConnectionsOwned
        <3> QED
            BY <1>1, <2>5, <3>1, <3>2
    <2> QED
        BY <2>1, <2>7 DEF ConnectionsOwned
<1>3. ASSUME NEW c \in StoreCaller, PublishStore(c), driver = "sql", ~pool'.closed
      PROVE  ConnectionsOwned'
    <2>1. access[c].stage = "publish" /\ UNCHANGED <<driver, aside>> /\ openPerSpace(c)
          /\ access[c] \in Accesses
        BY <1>1, <1>3, AtWork DEF PublishStore, openSQL
    <2>2. ~pool.closed
        BY <1>1, <1>3, <2>1 DEF openPerSpace, StoresTyped
    <2>3. \A d \in StoreCaller : d # c => access'[d] = access[d]
        BY <1>1, <1>3, OtherCalls DEF Works
    <2>4. access[c].handle \in DOMAIN handle
        BY <1>1, <2>1 DEF StoresTyped
    <2>5. CASE pool.published # 0
        <3>1. UNCHANGED pool /\ handle' = [handle EXCEPT ![access[c].handle] = "closed"]
            BY <1>1, <1>3, <2>1, <2>2, <2>4, <2>5 DEF openPerSpace, closeBackend
        <3>2. DOMAIN handle' = DOMAIN handle /\ handle'[access[c].handle] = "closed"
              /\ \A h \in DOMAIN handle : handle'[h] = "open" => handle[h] = "open"
            BY <1>1, <2>4, <3>1 DEF StoresTyped
        <3> QED
            BY <1>3, <2>1, <2>2, <2>3, <3>1, <3>2 DEF ConnectionsOwned
    <2>6. CASE pool.published = 0
        <3>1. pool'.published = access[c].handle /\ UNCHANGED handle
            BY <1>1, <2>1, <2>2, <2>6 DEF openPerSpace, StoresTyped
        <3>2. 0 \notin DOMAIN handle
            BY <1>1
        <3> QED
            BY <1>3, <2>1, <2>2, <2>3, <2>6, <3>1, <3>2 DEF ConnectionsOwned
    <2> QED
        BY <2>5, <2>6
<1>4. ASSUME NEW c \in StoreCaller, Works(c), ~OpenStore(c), ~PublishStore(c)
      PROVE  ConnectionsOwned'
    <2>1. UNCHANGED <<driver, pool, handle, aside>> /\ access[c].stage # "publish"
        BY <1>4 DEF Works, Ask, LockStore, withLock, gitLock, CompareStore, FailStore, ReadStore, readRecord,
                    selectForUpdate, getRecord, getLegacy, WriteStore, LocalPut, LocalDelete, LocalSetHead,
                    SQLPut, SQLDelete, SQLSetHead, GitPut, GitDelete, GitSetHead, commit, maybePush, S3Put,
                    S3Clean, S3Delete, S3SetHead, Does, In, Spare
    <2>2. \A d \in StoreCaller : d # c => access'[d] = access[d]
        BY <1>1, <1>4, OtherCalls
    <2> QED
        BY <2>1, <2>2 DEF ConnectionsOwned
<1>5. ASSUME NEW c \in StoreCaller, PublishStore(c)
      PROVE  ConnectionsOwned'
    <2>1. driver' = driver
        BY <1>5 DEF PublishStore
    <2> QED
        BY <1>3, <1>5, <2>1 DEF ConnectionsOwned
<1>6. CASE Evict \/ RemoveSpace \/ ClosePool
    BY <1>1, <1>6 DEF Evict, RemoveSpace, ClosePool, ConnectionsOwned
<1>7. CASE UNCHANGED storeVars
    BY <1>7 DEF storeVars, ConnectionsOwned
<1>8. CASE OpenAside
    <2>1. /\ UNCHANGED <<driver, pool, access>> /\ handle' = Append(handle, "open")
          /\ aside' = aside \cup {Len(handle) + 1}
        BY <1>8 DEF OpenAside
    <2>2. /\ DOMAIN handle' = DOMAIN handle \cup {Len(handle) + 1}
          /\ \A h \in DOMAIN handle : handle'[h] = handle[h]
        BY <1>1, <2>1, AppendProperties DEF StoresTyped
    <2> QED
        BY <2>1, <2>2 DEF ConnectionsOwned
<1> QED
    BY <1>2, <1>4, <1>5, <1>6, <1>7, <1>8 DEF StoresNext, Works

\* However many callers of the pool open the database at once, one connection is published and the
\* others are closed by who opened them: but those opened beside the pool, no connection leaks.
THEOREM ConnectionsClosed == StoresSpec => []ConnectionsOwned
<1>1. StoresInit => ConnectionsOwned
    <2>1. StoresInit => DOMAIN handle = {}
        <3>1. DOMAIN << >> = {}
            OBVIOUS
        <3> QED
            BY <3>1 DEF StoresInit
    <2> QED
        BY <2>1 DEF ConnectionsOwned
<1>2. StoresInv /\ ConnectionsOwned /\ [StoresNext]_storeVars => ConnectionsOwned'
    BY ConnectionsStayOwned
<1> QED
    BY <1>1, <1>2, StoresAlways, PTL DEF StoresSpec

-----------------------------------------------------------------------------
(* History: a migration is whole *)

Steps == {"clear", "put", "verify"}

\* With nobody writing and nothing left out of the listing, every file that the migration is past
\* is in the other store as it is in this one, and the one it is at is still what it has read.
Copied(todo) == \A p \in HeldNames : kept[p] # Nothing /\ p \notin todo => moved[p] = kept[p]
HeadCopied == keptHead # 0 => movedHead = keptHead
HistoryInv ==
    /\ DOMAIN moved = HeldNames /\ from \in From \cup {"moved"}
    /\ "kind" \in DOMAIN job
    /\ from = "moved" => job = Resting
    /\ job.kind = "migrate" => DOMAIN job = {"kind", "at", "todo", "path", "data"}
    /\ job.kind = "migrate" /\ excuse = {} =>
         /\ job.at # "list" => Copied(job.todo)
         /\ job.at \in Steps => job.path \in job.todo /\ job.path \in HeldNames /\ kept[job.path] = job.data
    /\ job.kind = "switch" /\ excuse = {} => Copied({}) /\ HeadCopied
    /\ from = "moved" /\ excuse = {} => Copied({}) /\ HeadCopied

LEMMA HistoryStep ==
    ASSUME HistoryInv, [HistoryNext]_historyVars
    PROVE  HistoryInv'
<1> USE DEF HistoryInv, Copied, HeadCopied, Steps, stores, Resting
<1>1. CASE EditSpace
    BY <1>1 DEF EditSpace
<1>2. CASE from # "moved" /\ WriteKept
    BY <1>2 DEF WriteKept
<1>3. CASE FailJob
    BY <1>3 DEF FailJob
<1>4. CASE SnapshotSpace \/ SnapshotGet \/ SnapshotManifest
  <2>1. /\ job'.kind \in {"snapshot", "head"} /\ "kind" \in DOMAIN job' /\ from # "moved"
        /\ UNCHANGED <<stores, excuse>>
    <3>1. CASE SnapshotSpace
        BY <3>1 DEF SnapshotSpace, BeginJob
    <3>2. CASE SnapshotGet
        BY <3>2 DEF SnapshotGet
    <3>3. CASE SnapshotManifest
        BY <3>3 DEF SnapshotManifest
    <3> QED
        BY <1>4, <3>1, <3>2, <3>3
  <2> QED
      BY <2>1
<1>5. CASE SnapshotPut
  <2>1. /\ job'.kind \in {"snapshot", "none"} /\ "kind" \in DOMAIN job' /\ from # "moved"
        /\ UNCHANGED <<from, keptHead, moved, movedHead, excuse>>
    <3>1. job.kind = "snapshot" /\ from # "moved" /\ UNCHANGED <<from, keptHead, moved, movedHead, excuse>>
        BY <1>5 DEF SnapshotPut
    <3>2. CASE job' = Resting
        BY <3>1, <3>2
    <3>3. CASE job' # Resting
      <4> DEFINE p == Head(job.todo)
                 first == [job EXCEPT !.at = "put", !.todo = Tail(@)]
                 put == [first EXCEPT !.version = [@ EXCEPT ![p] = job.data[p]]]
      <4>1. job' = put
          BY <1>5, <3>3 DEF SnapshotPut
      <4>2. "kind" \in DOMAIN first /\ first.kind = job.kind
          OBVIOUS
      <4>3. "kind" \in DOMAIN put /\ put.kind = job.kind
        <5> HIDE DEF first
        <5> QED
            BY <4>2
      <4> QED
          BY <3>1, <4>1, <4>3
    <3> QED
        BY <3>2, <3>3
  <2> QED
      BY <2>1
<1>6. CASE AdvanceHead
    BY <1>6 DEF AdvanceHead
<1>7. CASE RestoreSpace \/ RestoreFile \/ RestoreHead
  <2>1. /\ job'.kind \in {"restore", "head", "none"} /\ "kind" \in DOMAIN job' /\ from # "moved"
        /\ UNCHANGED <<stores, excuse>>
      BY <1>7 DEF RestoreSpace, RestoreFile, RestoreHead, BeginJob
  <2> QED
      BY <2>1
<1>8. CASE Migrate
    BY <1>8 DEF Migrate, BeginJob
<1>9. CASE MigrateList
    BY ZenonT(60), <1>9 DEF MigrateList, LocalList, GitList, S3List, SQLList, Held
<1>10. CASE MigrateGet
    BY <1>10 DEF MigrateGet
<1>11. CASE MigrateClear
    BY <1>11 DEF MigrateClear
<1>12. CASE MigratePut
    BY <1>12 DEF MigratePut
<1>13. CASE MigrateVerify
    BY <1>13 DEF MigrateVerify, Migrated
<1>14. CASE MigrateHead
    BY <1>14 DEF MigrateHead
<1>15. CASE SwitchStore
    BY <1>15 DEF SwitchStore
<1>16. CASE UNCHANGED historyVars
    BY <1>16 DEF historyVars
<1> QED
    BY <1>1, <1>2, <1>3, <1>4, <1>5, <1>6, <1>7, <1>8, <1>9, <1>10, <1>11, <1>12, <1>13, <1>14, <1>15, <1>16
    DEF HistoryNext

\* A space that is served from its new store has there what it had in the old one, however often
\* the migration was begun and broken off before, and whatever arrived wrong.
THEOREM MigrationWhole == HistorySpec => []MigratedWhole
<1>1. HistoryInit => HistoryInv
    BY HistoryAssumption DEF HistoryInit, HistoryInv, Resting, Empty
<1>2. HistoryInv => MigratedWhole
    BY DEF HistoryInv, MigratedWhole, Copied, HeadCopied
<1>3. HistoryInv /\ [HistoryNext]_historyVars => HistoryInv'
    BY HistoryStep
<1> QED
    BY <1>1, <1>2, <1>3, PTL DEF HistorySpec

-----------------------------------------------------------------------------
(* Lifecycle: requests are served, and the directory tells the truth *)

LifeStages == {"new", "named", "spawned", "serving", "draining", "drained", "closed", "gone"}
Processes == [stage : LifeStages, mode : {"run", "setup"}, tree : {"none", "run", "setup"},
              building : {"no", "run", "setup"}, busy : Nat, storage : {"open", "closed"}]
InstallStages == {"save", "user", "space", "switch", "drop", "done", "failed"}
Installs == [by : Nat, at : InstallStages]
LifeTyped ==
    /\ process \in Seq(Processes) /\ install \in Seq(Installs) /\ port \in Nat
    /\ dir \in [config : BOOLEAN, admin : BOOLEAN, space : BOOLEAN, pid : Nat]
    /\ \A i \in DOMAIN install : install[i].by \in DOMAIN process \cup {0}

\* A process that has been switched over builds no tree of the setup's any more, and had none
\* under construction when it was.
SetupOver ==
    /\ \A p \in DOMAIN process : process[p].mode = "run" => process[p].building # "setup"
    /\ \A i \in DOMAIN install :
         /\ install[i].at \in {"switch", "drop"} => install[i].by # 0
         /\ install[i].by # 0 /\ install[i].at \in {"drop", "done"} => process[install[i].by].mode = "run"

\* The storage goes after the requests.
ClosedLast ==
    \A p \in DOMAIN process :
      /\ "early" \notin amiss /\ process[p].storage = "closed" => process[p].stage \in {"closed", "gone"}
      /\ "timeout" \notin amiss /\ process[p].stage \in {"drained", "closed"} => process[p].busy = 0

\* What is not there yet has an installation that is about to add it.
SomebodyAdds ==
    amiss \cap {"half", "wiped"} = {} =>
      /\ dir.config /\ ~dir.admin => \E i \in DOMAIN install : install[i].at = "user"
      /\ dir.admin /\ ~dir.space => \E i \in DOMAIN install : install[i].at = "space"
      /\ dir.space => dir.admin
      /\ \A i \in DOMAIN install : install[i].at = "space" => dir.admin

\* There is one process, and from its start to its stop the file is its own.
OneProcess ==
    /\ "second" \notin amiss => \A p, q \in Alive : p = q
    /\ amiss \cap {"second", "wiped", "early"} = {} =>
         \A p \in DOMAIN process : process[p].stage \in {"named", "spawned", "serving"} => dir.pid = p

LifeInv == LifeTyped /\ SetupOver /\ TreeFresh /\ ClosedLast /\ SomebodyAdds /\ OneProcess

LEMMA EntryReplaced ==
    ASSUME NEW S, NEW s \in Seq(S), NEW i \in DOMAIN s, NEW a \in S
    PROVE  [s EXCEPT ![i] = a] \in Seq(S) /\ DOMAIN [s EXCEPT ![i] = a] = DOMAIN s
OBVIOUS

LEMMA InstallReplaced ==
    ASSUME install \in Seq(Installs), NEW i \in DOMAIN install, NEW a \in Installs,
           install' = [install EXCEPT ![i] = a]
    PROVE  /\ install' \in Seq(Installs) /\ DOMAIN install' = DOMAIN install
           /\ \A j \in DOMAIN install : install'[j] = IF j = i THEN a ELSE install[j]
BY EntryReplaced

LEMMA InstallMoved ==
    ASSUME install \in Seq(Installs), NEW i \in DOMAIN install, NEW at \in InstallStages,
           install' = [install EXCEPT ![i].at = at]
    PROVE  /\ install' \in Seq(Installs) /\ DOMAIN install' = DOMAIN install
           /\ \A j \in DOMAIN install : install'[j] = IF j = i THEN [by |-> install[i].by, at |-> at] ELSE install[j]
<1> DEFINE b == [install[i] EXCEPT !.at = at]
<1>1. install' = [install EXCEPT ![i] = b]
    OBVIOUS
<1>2. install[i] \in Installs
    OBVIOUS
<1>3. b = [by |-> install[i].by, at |-> at] /\ b \in Installs
    BY <1>2 DEF Installs
<1> HIDE DEF b
<1>4. b \in Installs
    BY <1>3
<1> QED
    BY <1>1, <1>3, <1>4, InstallReplaced

LEMMA ProcessMoved ==
    ASSUME process \in Seq(Processes), NEW p \in DOMAIN process, NEW a \in Processes,
           process' = [process EXCEPT ![p] = a]
    PROVE  /\ process' \in Seq(Processes) /\ DOMAIN process' = DOMAIN process
           /\ \A q \in DOMAIN process : process'[q] = IF q = p THEN a ELSE process[q]
BY EntryReplaced

LEMMA StageSet ==
    ASSUME process \in Seq(Processes), NEW p \in DOMAIN process, NEW to \in LifeStages,
           process' = [process EXCEPT ![p].stage = to]
    PROVE  /\ process' \in Seq(Processes) /\ DOMAIN process' = DOMAIN process
           /\ \A q \in DOMAIN process : process'[q] = IF q = p THEN [process[p] EXCEPT !.stage = to] ELSE process[q]
<1> DEFINE b == [process[p] EXCEPT !.stage = to]
<1>1. process' = [process EXCEPT ![p] = b]
    OBVIOUS
<1>2. process[p] \in Processes
    OBVIOUS
<1>3. b \in Processes
    BY <1>2 DEF Processes
<1> HIDE DEF b
<1>4. QED
    BY <1>1, <1>3, ProcessMoved

\* The stop command changes at most the process that the pid file names.
LEMMA Stopped ==
    ASSUME LifeTyped, StopServer
    PROVE  /\ process' \in Seq(Processes) /\ DOMAIN process' = DOMAIN process /\ dir.pid \in Alive
           /\ \A q \in DOMAIN process : q # dir.pid => process'[q] = process[q]
           /\ \A q \in DOMAIN process :
                /\ process'[q].mode = process[q].mode /\ process'[q].tree = process[q].tree
                /\ process'[q].building = process[q].building /\ process'[q].busy = process[q].busy
<1> DEFINE p == dir.pid
           Change(stage, storage) == [process[p] EXCEPT !.stage = stage, !.storage = storage]
<1>1. p \in DOMAIN process /\ process[p] \in Processes /\ p \in Alive
    BY DEF StopServer, Alive, LifeTyped
<1>2. \/ process' = process
      \/ \E to \in LifeStages : process' = [process EXCEPT ![p].stage = to]
      \/ process' = [process EXCEPT ![p].storage = "closed"]
    BY DEF StopServer, LifeStages
<1>3. process[p] = Change(process[p].stage, process[p].storage)
    BY <1>1 DEF Processes
<1>4. \A to : [process[p] EXCEPT !.stage = to] = Change(to, process[p].storage)
    BY <1>1 DEF Processes
<1>5. [process[p] EXCEPT !.storage = "closed"] = Change(process[p].stage, "closed")
    BY <1>1 DEF Processes
<1>6. process[p].stage \in LifeStages /\ process[p].storage \in {"open", "closed"}
    BY <1>1 DEF Processes
<1>7. \A stage \in LifeStages, storage \in {"open", "closed"} : Change(stage, storage) \in Processes
    BY <1>1 DEF Processes
<1>8. PICK stage \in LifeStages : \E storage \in {"open", "closed"} :
        process' = [process EXCEPT ![p] = Change(stage, storage)]
  <2>1. CASE process' = process
    <3>1. process' = [process EXCEPT ![p] = process[p]]
        BY <1>1, <2>1 DEF LifeTyped
    <3> QED
        BY <1>3, <1>6, <3>1
  <2>2. CASE \E to \in LifeStages : process' = [process EXCEPT ![p].stage = to]
    <3>1. PICK to \in LifeStages : process' = [process EXCEPT ![p] = [process[p] EXCEPT !.stage = to]]
        BY <2>2
    <3> QED
        BY <1>4, <1>6, <3>1
  <2>3. CASE process' = [process EXCEPT ![p].storage = "closed"]
    <3>1. process' = [process EXCEPT ![p] = [process[p] EXCEPT !.storage = "closed"]]
        BY <2>3
    <3> QED
        BY <1>5, <1>6, <3>1
  <2> QED
      BY <1>2, <2>1, <2>2, <2>3
<1>9. PICK storage \in {"open", "closed"} : process' = [process EXCEPT ![p] = Change(stage, storage)]
    BY <1>8
<1>10. LET a == Change(stage, storage)
       IN  /\ a.mode = process[p].mode /\ a.tree = process[p].tree
           /\ a.building = process[p].building /\ a.busy = process[p].busy
    BY <1>1 DEF Processes
<1> HIDE DEF Change
<1>11. /\ process' \in Seq(Processes) /\ DOMAIN process' = DOMAIN process
       /\ \A q \in DOMAIN process : process'[q] = IF q = p THEN Change(stage, storage) ELSE process[q]
    BY <1>1, <1>7, <1>9, ProcessMoved DEF LifeTyped
<1> QED
    BY <1>1, <1>10, <1>11

LEMMA LifeTypedStep ==
    ASSUME LifeTyped, [LifecycleNext]_lifeVars
    PROVE  LifeTyped'
<1> DEFINE Grown == /\ process' \in Seq(Processes) /\ DOMAIN process \subseteq DOMAIN process'
           Owned == /\ install' \in Seq(Installs) /\ \A i \in DOMAIN install' : install'[i].by \in DOMAIN process \cup {0}
           Fixed == port' \in Nat /\ dir' \in [config : BOOLEAN, admin : BOOLEAN, space : BOOLEAN, pid : Nat]
           Goal == Grown /\ Owned /\ Fixed
<1>1. ASSUME BeginInstall \/ ForceInstall PROVE Goal
  <2>1. PICK by \in DOMAIN process \cup {0} : install' = Append(install, [by |-> by, at |-> "save"])
      BY <1>1 DEF BeginInstall, ForceInstall, SetupPages
  <2>2. [by |-> by, at |-> "save"] \in Installs
      BY DEF LifeTyped, Installs, InstallStages
  <2>3. Owned
      BY <2>1, <2>2, AppendProperties DEF LifeTyped
  <2>4. UNCHANGED <<process, port>> /\ (dir' = dir \/ dir' = EmptyDir)
      BY <1>1 DEF BeginInstall, ForceInstall
  <2>5. EmptyDir \in [config : BOOLEAN, admin : BOOLEAN, space : BOOLEAN, pid : Nat]
      BY DEF EmptyDir
  <2>6. Fixed
    <3> HIDE DEF EmptyDir
    <3> QED
        BY <2>4, <2>5 DEF LifeTyped
  <2> QED
      BY <2>3, <2>4, <2>6 DEF LifeTyped
<1>2. ASSUME Start PROVE Goal
  <2> DEFINE a == [stage |-> "new", mode |-> IF dir.config THEN "run" ELSE "setup",
                   tree |-> "none", building |-> "no", busy |-> 0, storage |-> "open"]
  <2>1. a \in Processes
      BY DEF Processes, LifeStages
  <2>2. process' = Append(process, a)
      BY <1>2 DEF Start
  <2> HIDE DEF a
  <2>3. Grown
      BY <2>1, <2>2, AppendProperties DEF LifeTyped
  <2> QED
      BY <1>2, <2>3 DEF Start, LifeTyped
<1>3. ASSUME StopServer PROVE Goal
  <2>3. Grown
      BY <1>3, Stopped
  <2>4. UNCHANGED install /\ dir' = [dir EXCEPT !.pid = 0] /\ port' \in {port, 0}
      BY <1>3 DEF StopServer
  <2>5. Fixed /\ Owned
      BY <2>4 DEF LifeTyped
  <2> QED
      BY <2>3, <2>5
<1>4. ASSUME NEW i \in DOMAIN install,
             SaveConfig(i) \/ AddAdmin(i) \/ CreateFirstSpace(i) \/ SecondInstall(i) \/ FailInstall(i)
      PROVE  Goal
  <2>1. PICK at \in InstallStages : install' = [install EXCEPT ![i].at = at]
      BY <1>4 DEF SaveConfig, AddAdmin, CreateFirstSpace, SecondInstall, FailInstall, Advance, NextStep, InstallStages
  <2>2. Owned
    <3>1. /\ install' \in Seq(Installs) /\ DOMAIN install' = DOMAIN install
          /\ \A j \in DOMAIN install : install'[j] = IF j = i THEN [by |-> install[i].by, at |-> at] ELSE install[j]
        BY <2>1, InstallMoved DEF LifeTyped
    <3>2. \A j \in DOMAIN install : install'[j].by = install[j].by
        BY <3>1
    <3> QED
        BY <3>1, <3>2 DEF LifeTyped
  <2>3. Fixed
      BY <1>4 DEF SaveConfig, AddAdmin, CreateFirstSpace, SecondInstall, FailInstall, LifeTyped
  <2> QED
      BY <1>4, <2>2, <2>3 DEF SaveConfig, AddAdmin, CreateFirstSpace, SecondInstall, FailInstall, LifeTyped
<1>5. ASSUME NEW i \in DOMAIN install, SwitchOver(i) \/ invalidateHandler(i)
      PROVE  Goal
  <2>1. PICK at \in InstallStages : install' = [install EXCEPT ![i].at = at]
      BY <1>5 DEF SwitchOver, invalidateHandler, Advance, NextStep, InstallStages
  <2>2. Owned
    <3>1. /\ install' \in Seq(Installs) /\ DOMAIN install' = DOMAIN install
          /\ \A j \in DOMAIN install : install'[j] = IF j = i THEN [by |-> install[i].by, at |-> at] ELSE install[j]
        BY <2>1, InstallMoved DEF LifeTyped
    <3>2. \A j \in DOMAIN install : install'[j].by = install[j].by
        BY <3>1
    <3> QED
        BY <3>1, <3>2 DEF LifeTyped
  <2>3. install[i].at \in {"switch", "drop"} /\ UNCHANGED <<dir, port>>
      BY <1>5 DEF SwitchOver, invalidateHandler
  <2>4. Grown
    <3> DEFINE p == install[i].by
               a == [process[p] EXCEPT !.mode = "run"]
               b == [process[p] EXCEPT !.tree = "none"]
    <3>1. CASE p \notin DOMAIN process
      <4>1. DOMAIN process' = DOMAIN process /\ \A q \in DOMAIN process : process'[q] = process[q]
          BY <1>5, <3>1 DEF SwitchOver, invalidateHandler, LifeTyped
      <4>2. process' = process
          BY <1>5, <3>1, <4>1 DEF SwitchOver, invalidateHandler, LifeTyped
      <4> QED
          BY <4>2 DEF LifeTyped
    <3>2. CASE p \in DOMAIN process
      <4>1. process[p] \in Processes
          BY <3>2 DEF LifeTyped
      <4>2. a \in Processes /\ b \in Processes
          BY <4>1 DEF Processes
      <4>3. process' = [process EXCEPT ![p] = a] \/ process' = [process EXCEPT ![p] = b]
          BY <1>5 DEF SwitchOver, invalidateHandler
      <4> HIDE DEF a, b, p
      <4> QED
          BY <3>2, <4>2, <4>3, ProcessMoved DEF LifeTyped
    <3> QED
        BY <3>1, <3>2
  <2> QED
      BY <2>2, <2>3, <2>4 DEF LifeTyped
<1>6. ASSUME NEW p \in DOMAIN process,
             \/ WritePid(p) \/ checkListenFree(p) \/ PortTaken(p) \/ ListenAndServe(p)
             \/ Shutdown(p) \/ ShutdownTimeout(p) \/ gracefulStop(p) \/ Kill(p)
      PROVE  Goal
  <2>1. PICK to \in LifeStages : process' = [process EXCEPT ![p].stage = to]
      BY <1>6 DEF WritePid, checkListenFree, PortTaken, ListenAndServe, Shutdown, ShutdownTimeout, gracefulStop, Kill,
                  Step, LeaveDir, LifeStages
  <2>2. Grown
      BY <2>1, StageSet DEF LifeTyped
  <2>3. Fixed
    <3>1. p \in Nat
        BY DEF LifeTyped
    <3> QED
      BY <1>6, <3>1 DEF WritePid, checkListenFree, PortTaken, ListenAndServe, Shutdown, ShutdownTimeout, gracefulStop, Kill,
                  LeaveDir, LifeTyped
  <2>4. Owned
    <3>1. CASE Kill(p) \/ gracefulStop(p)
      <4> DEFINE b(i) == IF install[i].by = p /\ install[i].at # "done"
                         THEN [install[i] EXCEPT !.at = "failed"] ELSE install[i]
      <4>1. ASSUME NEW i \in DOMAIN install PROVE b(i) \in Installs /\ b(i).by = install[i].by
        <5>1. install[i] \in Installs
            BY DEF LifeTyped
        <5> QED
            BY <5>1 DEF Installs, InstallStages
      <4>2. install' = [i \in DOMAIN install |-> b(i)]
          BY <3>1 DEF Kill, gracefulStop, CutShort
      <4> HIDE DEF b
      <4>3. DOMAIN install = 1..Len(install) /\ Len(install) \in Nat
          BY DEF LifeTyped
      <4>4. DOMAIN install' = DOMAIN install /\ install' \in Seq(Installs)
          BY <4>1, <4>2, <4>3
      <4> QED
          BY <4>1, <4>2, <4>4 DEF LifeTyped
    <3> QED
        BY <1>6, <3>1 DEF WritePid, checkListenFree, PortTaken, ListenAndServe, Shutdown, ShutdownTimeout, LifeTyped
  <2> QED
      BY <2>2, <2>3, <2>4
<1>7. ASSUME NEW p \in DOMAIN process,
             buildHandler(p) \/ Handler(p) \/ ArriveAt(p) \/ Leaves(p) \/ CloseStorage(p)
      PROVE  Goal
  <2> DEFINE old == process[p]
  <2>1. old \in Processes
      BY DEF LifeTyped
  <2>2. PICK a \in Processes : process' = [process EXCEPT ![p] = a]
    <3>1. CASE buildHandler(p)
      <4>1. [old EXCEPT !.building = old.mode] \in Processes
          BY <2>1 DEF Processes
      <4> QED
          BY <3>1, <4>1 DEF buildHandler
    <3>2. CASE Handler(p)
      <4>1. [old EXCEPT !.tree = old.building, !.building = "no"] \in Processes
          BY <2>1, <3>2 DEF Processes, Handler
      <4>2. process' = [process EXCEPT ![p] = [old EXCEPT !.tree = old.building, !.building = "no"]]
          BY <2>1, <3>2 DEF Handler
      <4> QED
          BY <4>1, <4>2
    <3>3. CASE ArriveAt(p)
      <4>1. [old EXCEPT !.busy = @ + 1] \in Processes
          BY <2>1 DEF Processes
      <4> QED
          BY <3>3, <4>1 DEF ArriveAt
    <3>4. CASE Leaves(p)
      <4>1. [old EXCEPT !.busy = @ - 1] \in Processes
          BY <2>1, <3>4 DEF Processes, Leaves
      <4> QED
          BY <3>4, <4>1 DEF Leaves
    <3>5. CASE CloseStorage(p)
      <4>1. [old EXCEPT !.stage = "closed", !.storage = "closed"] \in Processes
          BY <2>1 DEF Processes, LifeStages
      <4>2. process' = [process EXCEPT ![p] = [old EXCEPT !.stage = "closed", !.storage = "closed"]]
          BY <2>1, <3>5 DEF CloseStorage
      <4> QED
          BY <4>1, <4>2
    <3> QED
        BY <1>7, <3>1, <3>2, <3>3, <3>4, <3>5
  <2>3. Grown
      BY <2>2, ProcessMoved DEF LifeTyped
  <2> QED
      BY <1>7, <2>3 DEF buildHandler, Handler, ArriveAt, Leaves, CloseStorage, LifeTyped
<1>8. ASSUME UNCHANGED lifeVars PROVE Goal
    BY <1>8 DEF lifeVars, LifeTyped
<1>9. Goal
  <2> HIDE DEF Goal
  <2>1. CASE \E i \in DOMAIN install : \/ SaveConfig(i) \/ AddAdmin(i) \/ CreateFirstSpace(i)
                                       \/ SecondInstall(i) \/ FailInstall(i)
                                       \/ SwitchOver(i) \/ invalidateHandler(i)
      BY <1>4, <1>5, <2>1
  <2>2. CASE \E p \in DOMAIN process : \/ buildHandler(p) \/ Handler(p) \/ WritePid(p)
                                       \/ checkListenFree(p) \/ PortTaken(p) \/ ListenAndServe(p)
                                       \/ ArriveAt(p) \/ Leaves(p) \/ Shutdown(p) \/ ShutdownTimeout(p)
                                       \/ CloseStorage(p) \/ gracefulStop(p) \/ Kill(p)
      BY <1>6, <1>7, <2>2
  <2> QED
      BY <1>1, <1>2, <1>3, <1>8, <2>1, <2>2 DEF LifecycleNext
<1> QED
    BY <1>9 DEF LifeTyped

LEMMA SetupStep ==
    ASSUME LifeInv, LifeTyped', [LifecycleNext]_lifeVars
    PROVE  (SetupOver /\ TreeFresh)'
<1> DEFINE SameTree == /\ DOMAIN process' = DOMAIN process
                       /\ \A p \in DOMAIN process : /\ process'[p].mode = process[p].mode
                                                    /\ process'[p].tree = process[p].tree
                                                    /\ process'[p].building = process[p].building
           NoneOver == \A i \in DOMAIN install' :
                         \/ i \in DOMAIN install /\ install'[i] = install[i]
                         \/ install'[i].at \in {"save", "user", "space", "failed"}
                         \/ install'[i].by = 0 /\ install'[i].at = "done"
                         \/ install'[i].by # 0 /\ install'[i].at = "switch"
           Goal == (SetupOver /\ TreeFresh)'
           Frame == SameTree /\ NoneOver
<1>0. ASSUME Frame PROVE Goal
  <2>1. \A p \in DOMAIN process' : process'[p].mode = "run" => process'[p].building # "setup"
      BY <1>0 DEF LifeInv, SetupOver
  <2>2. ASSUME NEW i \in DOMAIN install'
        PROVE  /\ install'[i].at \in {"switch", "drop"} => install'[i].by # 0
               /\ install'[i].by # 0 /\ install'[i].at \in {"drop", "done"} =>
                     i \in DOMAIN install /\ install'[i] = install[i] /\ install[i].by \in DOMAIN process
      BY <1>0 DEF LifeInv, LifeTyped, SetupOver
  <2> QED
      BY <1>0, <2>1, <2>2 DEF LifeInv, SetupOver, TreeFresh
<1> HIDE DEF Goal
<1> USE DEF LifeInv, LifeTyped
<1>1. ASSUME BeginInstall \/ ForceInstall PROVE Goal
  <2>1. PICK by : install' = Append(install, [by |-> by, at |-> "save"])
      BY <1>1 DEF BeginInstall, ForceInstall
  <2>2. NoneOver
      BY <2>1
  <2>3. process' = process
      BY <1>1 DEF BeginInstall, ForceInstall
  <2> QED
      BY <1>0, <2>2, <2>3
<1>2. ASSUME Start PROVE Goal
  <2> DEFINE a == [stage |-> "new", mode |-> IF dir.config THEN "run" ELSE "setup",
                   tree |-> "none", building |-> "no", busy |-> 0, storage |-> "open"]
  <2>1. process' = Append(process, a) /\ a.tree = "none" /\ a.building = "no" /\ install' = install
      BY <1>2 DEF Start
  <2> HIDE DEF a
  <2>2. /\ DOMAIN process' = 1..(Len(process) + 1)
        /\ \A p \in DOMAIN process' : (p \in DOMAIN process /\ process'[p] = process[p]) \/ process'[p] = a
      BY <2>1
  <2>3. \A p \in DOMAIN process : p \in DOMAIN process' /\ process'[p] = process[p]
      BY <2>1
  <2>4. SetupOver'
    <3>1. \A p \in DOMAIN process' : process'[p].mode = "run" => process'[p].building # "setup"
        BY <2>1, <2>2 DEF SetupOver
    <3> QED
        BY <2>1, <2>3, <3>1 DEF SetupOver
  <2> QED
      BY <2>1, <2>3, <2>4 DEF Goal, SetupOver, TreeFresh
<1>3. ASSUME StopServer PROVE Goal
  <2>1. install' = install
      BY <1>3 DEF StopServer
  <2>2. SameTree
      BY <1>3, Stopped
  <2> QED
      BY <1>0, <2>1, <2>2
<1>4. ASSUME NEW i \in DOMAIN install,
             SaveConfig(i) \/ AddAdmin(i) \/ CreateFirstSpace(i) \/ SecondInstall(i) \/ FailInstall(i)
      PROVE  Goal
  <2>1. PICK at : /\ install' = [install EXCEPT ![i].at = at]
                  /\ \/ at \in {"user", "space", "failed"}
                     \/ at = "done" /\ install[i].by = 0
                     \/ at = "switch" /\ install[i].by # 0
      BY <1>4 DEF SaveConfig, AddAdmin, CreateFirstSpace, SecondInstall, FailInstall, Advance, NextStep
  <2>2. at \in InstallStages
      BY <2>1 DEF InstallStages
  <2>3. NoneOver
      BY <2>1, <2>2, InstallMoved
  <2>4. process' = process
      BY <1>4 DEF SaveConfig, AddAdmin, CreateFirstSpace, SecondInstall, FailInstall
  <2> QED
      BY <1>0, <2>3, <2>4
<1>5. ASSUME NEW i \in DOMAIN install, SwitchOver(i)
      PROVE  Goal
    BY SMTT(30), <1>5 DEF SwitchOver, Advance, NextStep, Goal, SetupOver, TreeFresh, Installs, InstallStages, Processes, LifeStages
<1>6. ASSUME NEW i \in DOMAIN install, invalidateHandler(i)
      PROVE  Goal
    BY SMTT(30), <1>6 DEF invalidateHandler, Advance, NextStep, Goal, SetupOver, TreeFresh, Installs, InstallStages, Processes, LifeStages
<1>7. ASSUME NEW p \in DOMAIN process,
             \/ WritePid(p) \/ checkListenFree(p) \/ PortTaken(p) \/ ListenAndServe(p)
             \/ Shutdown(p) \/ ShutdownTimeout(p)
      PROVE  Goal
  <2>1. PICK to \in LifeStages : process' = [process EXCEPT ![p].stage = to]
      BY <1>7 DEF WritePid, checkListenFree, PortTaken, ListenAndServe, Shutdown, ShutdownTimeout, Step,
                  LeaveDir, LifeStages
  <2>2. SameTree
      BY <2>1, StageSet DEF Processes
  <2>3. install' = install
      BY <1>7 DEF WritePid, checkListenFree, PortTaken, ListenAndServe, Shutdown, ShutdownTimeout
  <2> QED
      BY <1>0, <2>2, <2>3
<1>8. ASSUME NEW p \in DOMAIN process, Kill(p) \/ gracefulStop(p)
      PROVE  Goal
  <2>1. process' = [process EXCEPT ![p].stage = "gone"] /\ "gone" \in LifeStages
      BY <1>8 DEF Kill, gracefulStop, LeaveDir, LifeStages
  <2>2. SameTree
      BY <2>1, StageSet DEF Processes
  <2>3. \A i \in DOMAIN install : install'[i] = install[i] \/ install'[i].at = "failed"
    <3>1. CutShort(p)
        BY <1>8 DEF Kill, gracefulStop
    <3> QED
        BY <3>1 DEF CutShort, Installs
  <2>4. DOMAIN install' = DOMAIN install
    <3>1. CutShort(p)
        BY <1>8 DEF Kill, gracefulStop
    <3> QED
        BY <3>1 DEF CutShort
  <2> QED
      BY <1>0, <2>2, <2>3, <2>4
<1>9. ASSUME NEW p \in DOMAIN process, ArriveAt(p) \/ Leaves(p) \/ CloseStorage(p)
      PROVE  Goal
  <2>1. install' = install
      BY <1>9 DEF ArriveAt, Leaves, CloseStorage
  <2>2. SameTree
    <3>1. CASE ArriveAt(p)
        BY <3>1 DEF ArriveAt, Processes
    <3>3. CASE Leaves(p)
        BY <3>3 DEF Leaves, Processes
    <3>2. CASE CloseStorage(p)
        BY <3>2 DEF CloseStorage, Processes
    <3> QED
        BY <1>9, <3>1, <3>2, <3>3
  <2> QED
      BY <1>0, <2>1, <2>2
<1>10. ASSUME NEW p \in DOMAIN process, buildHandler(p)
      PROVE  Goal
    BY SMTT(30), <1>10 DEF buildHandler, Goal, SetupOver, TreeFresh, Installs, InstallStages, Processes, LifeStages
<1>11. ASSUME NEW p \in DOMAIN process, Handler(p)
      PROVE  Goal
  <2> DEFINE a == [process[p] EXCEPT !.tree = process[p].building, !.building = "no"]
  <2>1. process[p] \in Processes
      OBVIOUS
  <2>2. process' = [process EXCEPT ![p] = a] /\ install' = install
      BY <1>11, <2>1 DEF Handler
  <2>3. a.mode = process[p].mode /\ a.tree = process[p].building /\ a.building = "no"
      BY <2>1 DEF Processes
  <2> HIDE DEF a
  <2>4. /\ DOMAIN process' = DOMAIN process
        /\ \A q \in DOMAIN process : process'[q] = IF q = p THEN a ELSE process[q]
      BY <2>2
  <2>5. SetupOver'
      BY <2>2, <2>3, <2>4 DEF SetupOver
  <2>6. TreeFresh'
      BY <2>2, <2>3, <2>4 DEF SetupOver, TreeFresh
  <2> QED
      BY <2>5, <2>6 DEF Goal
<1>12. ASSUME UNCHANGED lifeVars PROVE Goal
    BY <1>0, <1>12 DEF lifeVars
<1>13. CASE \E i \in DOMAIN install : \/ SaveConfig(i) \/ AddAdmin(i) \/ CreateFirstSpace(i)
                                      \/ SecondInstall(i) \/ FailInstall(i)
                                      \/ SwitchOver(i) \/ invalidateHandler(i)
    BY <1>4, <1>5, <1>6, <1>13 DEF Goal
<1>14. CASE \E p \in DOMAIN process : \/ buildHandler(p) \/ Handler(p) \/ WritePid(p)
                                      \/ checkListenFree(p) \/ PortTaken(p) \/ ListenAndServe(p)
                                      \/ ArriveAt(p) \/ Leaves(p) \/ Shutdown(p) \/ ShutdownTimeout(p)
                                      \/ CloseStorage(p) \/ gracefulStop(p) \/ Kill(p)
    BY <1>7, <1>8, <1>9, <1>10, <1>11, <1>14 DEF Goal
<1> QED
    BY <1>1, <1>2, <1>3, <1>12, <1>13, <1>14 DEF LifecycleNext, Goal

\* What a change of its stage alone leaves of a process, and what the work inside it leaves.
LEMMA Staged ==
    ASSUME LifeTyped, NEW p \in DOMAIN process, NEW to \in LifeStages,
           process' = [process EXCEPT ![p].stage = to]
    PROVE  /\ DOMAIN process' = DOMAIN process
           /\ \A q \in DOMAIN process : /\ process'[q].stage = IF q = p THEN to ELSE process[q].stage
                                        /\ process'[q].storage = process[q].storage
                                        /\ process'[q].busy = process[q].busy
<1>1. process[p] \in Processes
    BY DEF LifeTyped
<1>2. LET a == [process[p] EXCEPT !.stage = to]
      IN  a.stage = to /\ a.storage = process[p].storage /\ a.busy = process[p].busy
    BY <1>1 DEF Processes
<1> QED
    BY <1>2, StageSet DEF LifeTyped

Kept == /\ DOMAIN process' = DOMAIN process /\ UNCHANGED <<dir, amiss>>
        /\ \A q \in DOMAIN process : /\ process'[q].stage = process[q].stage
                                     /\ process'[q].storage = process[q].storage
                                     /\ process'[q].busy = process[q].busy
LEMMA SwitchKeeps ==
    ASSUME LifeTyped, NEW i \in DOMAIN install, SwitchOver(i) \/ invalidateHandler(i)
    PROVE  Kept
<1> DEFINE p == install[i].by
<1>1. \A q \in DOMAIN process : process[q] \in Processes
    BY DEF LifeTyped
<1>2. CASE SwitchOver(i)
    BY <1>1, <1>2 DEF SwitchOver, Processes, Kept
<1>3. CASE invalidateHandler(i)
    BY <1>1, <1>3 DEF invalidateHandler, Processes, Kept
<1> QED
    BY <1>2, <1>3

LEMMA BuildKeeps ==
    ASSUME LifeTyped, NEW p \in DOMAIN process, buildHandler(p) \/ Handler(p)
    PROVE  Kept
<1> DEFINE a == [process[p] EXCEPT !.tree = process[p].building, !.building = "no"]
<1>1. \A q \in DOMAIN process : process[q] \in Processes
    BY DEF LifeTyped
<1>2. CASE buildHandler(p)
    BY <1>1, <1>2 DEF buildHandler, Processes, Kept
<1>3. CASE Handler(p)
  <2>1. process' = [process EXCEPT ![p] = a] /\ UNCHANGED <<dir, amiss>>
      BY <1>3 DEF Handler
  <2>2. a.stage = process[p].stage /\ a.storage = process[p].storage /\ a.busy = process[p].busy
      BY <1>1 DEF Processes
  <2> HIDE DEF a
  <2> QED
      BY <2>1, <2>2 DEF Kept
<1> QED
    BY <1>2, <1>3

LEMMA ClosedStep ==
    ASSUME LifeInv, LifeTyped', [LifecycleNext]_lifeVars
    PROVE  ClosedLast'
<1> DEFINE Goal == ClosedLast'
<1> USE DEF LifeInv, LifeTyped, ClosedLast
<1>1. CASE BeginInstall \/ ForceInstall
    BY <1>1 DEF BeginInstall, ForceInstall
<1>2. CASE Start
    BY <1>2 DEF Start, Processes
<1>3. CASE StopServer
  <2> DEFINE p == dir.pid
  <2>1. /\ DOMAIN process' = DOMAIN process /\ p \in Alive
        /\ \A q \in DOMAIN process : process'[q].busy = process[q].busy
        /\ \A q \in DOMAIN process : q # p => process'[q] = process[q]
      BY <1>3, Stopped
  <2>4. p \in DOMAIN process /\ process[p] \in Processes
      BY <2>1 DEF Alive
  <2>2. \/ process[p].stage = "serving" /\ process'[p].stage = "draining" /\ process'[p].storage = process[p].storage
        \/ process[p].stage = "spawned" /\ process'[p].stage = "spawned" /\ "early" \in amiss'
        \/ process[p].stage = "named" /\ process'[p].stage = "gone"
        \/ process'[p] = process[p]
      BY SMTT(30), <1>3, <2>4 DEF StopServer, Processes
  <2>3. amiss \subseteq amiss'
      BY <1>3 DEF StopServer
  <2> HIDE DEF p
  <2> QED
      BY <2>1, <2>2, <2>3, <2>4
<1>4. ASSUME NEW i \in DOMAIN install,
             SaveConfig(i) \/ AddAdmin(i) \/ CreateFirstSpace(i) \/ SecondInstall(i) \/ FailInstall(i)
      PROVE  Goal
    BY <1>4 DEF SaveConfig, AddAdmin, CreateFirstSpace, SecondInstall, FailInstall
<1>5. ASSUME NEW i \in DOMAIN install, SwitchOver(i) \/ invalidateHandler(i)
      PROVE  Goal
    BY <1>5, SwitchKeeps DEF Kept
<1>6. ASSUME NEW p \in DOMAIN process,
             WritePid(p) \/ checkListenFree(p) \/ PortTaken(p) \/ ListenAndServe(p) \/ gracefulStop(p) \/ Kill(p)
      PROVE  Goal
  <2>1. PICK to \in {"named", "spawned", "serving", "gone"} :
          /\ process' = [process EXCEPT ![p].stage = to] /\ amiss \subseteq amiss'
          /\ process[p].stage = "closed" => to = "gone"
      BY <1>6 DEF WritePid, checkListenFree, PortTaken, ListenAndServe, gracefulStop, Kill, CutShort, Step, LeaveDir
  <2>2. to \in LifeStages /\ process[p].stage # "gone"
      BY <1>6, <2>1 DEF WritePid, checkListenFree, PortTaken, ListenAndServe, gracefulStop, Kill, Alive, Step, LifeStages
  <2> QED
      BY <2>1, <2>2, Staged
<1>7. ASSUME NEW p \in DOMAIN process, Shutdown(p) \/ ShutdownTimeout(p)
      PROVE  Goal
  <2>1. /\ process' = [process EXCEPT ![p].stage = "drained"] /\ amiss \subseteq amiss'
        /\ process[p].stage = "draining" /\ (process[p].busy = 0 \/ "timeout" \in amiss')
    <3>1. process[p] \in Processes
        OBVIOUS
    <3> QED
        BY <1>7, <3>1 DEF Shutdown, ShutdownTimeout, Serves, Step, Processes
  <2>2. "drained" \in LifeStages
      BY DEF LifeStages
  <2> QED
      BY <2>1, <2>2, Staged
<1>8. ASSUME NEW p \in DOMAIN process, buildHandler(p) \/ Handler(p)
      PROVE  Goal
    BY <1>8, BuildKeeps DEF Kept
<1>9. ASSUME NEW p \in DOMAIN process, ArriveAt(p) \/ Leaves(p)
      PROVE  Goal
  <2>1. /\ DOMAIN process' = DOMAIN process /\ amiss' = amiss
        /\ \A q \in DOMAIN process : /\ process'[q].stage = process[q].stage
                                     /\ process'[q].storage = process[q].storage
        /\ \A q \in DOMAIN process : q # p => process'[q].busy = process[q].busy
        /\ process[p].stage = "serving" \/ (process[p].busy > 0 /\ process[p].stage # "gone")
    <3>1. process[p] \in Processes
        OBVIOUS
    <3>2. CASE ArriveAt(p)
      <4>1. LET a == [process[p] EXCEPT !.busy = @ + 1]
            IN  a.stage = process[p].stage /\ a.storage = process[p].storage
          BY <3>1 DEF Processes
      <4> QED
          BY <3>2, <4>1 DEF ArriveAt
    <3>3. CASE Leaves(p)
      <4>1. LET a == [process[p] EXCEPT !.busy = @ - 1]
            IN  a.stage = process[p].stage /\ a.storage = process[p].storage
          BY <3>1 DEF Processes
      <4> QED
          BY <3>3, <4>1 DEF Leaves
    <3> QED
        BY <1>9, <3>2, <3>3
  <2>2. process[p].busy = 0 => process[p].stage = "serving"
      BY <2>1
  <2>3. \A q \in DOMAIN process : process[q] \in Processes
      OBVIOUS
  <2>4. \A q \in DOMAIN process : process[q].busy \in Nat
      BY <2>3 DEF Processes
  <2> QED
      BY <2>1, <2>2, <2>4
<1>10. ASSUME NEW p \in DOMAIN process, CloseStorage(p)
      PROVE  Goal
    BY <1>10 DEF CloseStorage, Processes
<1>11. CASE UNCHANGED lifeVars
    BY <1>11 DEF lifeVars
<1> HIDE DEF Goal
<1>12. CASE \E i \in DOMAIN install : \/ SaveConfig(i) \/ AddAdmin(i) \/ CreateFirstSpace(i)
                                      \/ SecondInstall(i) \/ FailInstall(i)
                                      \/ SwitchOver(i) \/ invalidateHandler(i)
    BY <1>4, <1>5, <1>12 DEF Goal
<1>13. CASE \E p \in DOMAIN process : \/ buildHandler(p) \/ Handler(p) \/ WritePid(p)
                                      \/ checkListenFree(p) \/ PortTaken(p) \/ ListenAndServe(p)
                                      \/ ArriveAt(p) \/ Leaves(p) \/ Shutdown(p) \/ ShutdownTimeout(p)
                                      \/ CloseStorage(p) \/ gracefulStop(p) \/ Kill(p)
    BY <1>6, <1>7, <1>8, <1>9, <1>10, <1>13 DEF Goal
<1> QED
    BY <1>1, <1>2, <1>3, <1>11, <1>12, <1>13 DEF LifecycleNext, Goal

LEMMA AddsStep ==
    ASSUME LifeInv, LifeTyped', [LifecycleNext]_lifeVars
    PROVE  SomebodyAdds'
<1> DEFINE Goal == SomebodyAdds'
<1> USE DEF LifeInv, LifeTyped, SomebodyAdds, Installs, InstallStages
<1>1. CASE BeginInstall
  <2>1. PICK by : install' = Append(install, [by |-> by, at |-> "save"])
      BY <1>1 DEF BeginInstall
  <2>2. /\ \A i \in DOMAIN install : i \in DOMAIN install' /\ install'[i] = install[i]
        /\ \A i \in DOMAIN install' : i \notin DOMAIN install => install'[i].at = "save"
      <3> DEFINE begun == [by |-> by, at |-> "save"]
      <3>1. Len(install) \in Nat /\ DOMAIN install = 1 .. Len(install)
          BY LenProperties
      <3>2. install' = Append(install, begun) /\ begun.at = "save"
          BY <2>1
      <3> HIDE DEF begun
      <3>3. /\ DOMAIN install' = 1 .. Len(install) + 1 /\ install'[Len(install) + 1] = begun
            /\ \A i \in 1 .. Len(install) : install'[i] = install[i]
          BY <3>2, AppendProperties
      <3> QED
          BY <3>1, <3>2, <3>3
  <2> QED
      BY <1>1, <2>2 DEF BeginInstall
<1>2. CASE ForceInstall
    BY <1>2 DEF ForceInstall
<1>3. CASE Start \/ StopServer
  <2>1. /\ install' = install /\ (amiss' \cap {"half", "wiped"} = amiss \cap {"half", "wiped"})
        /\ dir'.config = dir.config /\ dir'.admin = dir.admin /\ dir'.space = dir.space
      BY <1>3 DEF Start, StopServer
  <2> QED
      BY <2>1
<1>4. ASSUME NEW i \in DOMAIN install, SaveConfig(i)
      PROVE  Goal
    BY <1>4 DEF SaveConfig, Advance, NextStep
<1>5. ASSUME NEW i \in DOMAIN install, AddAdmin(i)
      PROVE  Goal
    BY <1>5 DEF AddAdmin, Advance, NextStep
<1>6. ASSUME NEW i \in DOMAIN install, CreateFirstSpace(i)
      PROVE  Goal
    BY <1>6 DEF CreateFirstSpace, Advance, NextStep
<1>7. ASSUME NEW i \in DOMAIN install, SecondInstall(i)
      PROVE  Goal
    BY <1>7 DEF SecondInstall
<1>8. ASSUME NEW i \in DOMAIN install, FailInstall(i)
      PROVE  Goal
    BY <1>8 DEF FailInstall
<1>9. ASSUME NEW i \in DOMAIN install, SwitchOver(i)
      PROVE  Goal
    BY <1>9 DEF SwitchOver, Advance, NextStep
<1>10. ASSUME NEW i \in DOMAIN install, invalidateHandler(i)
      PROVE  Goal
    BY <1>10 DEF invalidateHandler, Advance, NextStep
<1>11. ASSUME NEW p \in DOMAIN process, Kill(p) \/ gracefulStop(p)
      PROVE  Goal
  <2>1. CASE \E i \in DOMAIN install : install[i].by = p /\ install[i].at \in {"save", "user", "space"}
      BY <1>11, <2>1 DEF Kill, gracefulStop, CutShort
  <2>2. CASE ~\E i \in DOMAIN install : install[i].by = p /\ install[i].at \in {"save", "user", "space"}
    <3>1. /\ DOMAIN install' = DOMAIN install /\ amiss' = amiss
          /\ dir'.config = dir.config /\ dir'.admin = dir.admin /\ dir'.space = dir.space
        BY <1>11, <2>2 DEF Kill, gracefulStop, CutShort, LeaveDir
    <3>2. \A i \in DOMAIN install : /\ install'[i].at \in {"user", "space"} => install'[i] = install[i]
                                    /\ install[i].at \in {"user", "space"} => install'[i] = install[i]
      <4>1. CutShort(p)
          BY <1>11 DEF Kill, gracefulStop
      <4> QED
          BY <2>2, <4>1 DEF CutShort
    <3> QED
        BY <3>1, <3>2
  <2> QED
      BY <2>1, <2>2
<1>12. ASSUME NEW p \in DOMAIN process,
             \/ WritePid(p) \/ checkListenFree(p) \/ PortTaken(p) \/ ListenAndServe(p)
             \/ Shutdown(p) \/ ShutdownTimeout(p)
             \/ buildHandler(p) \/ Handler(p) \/ ArriveAt(p) \/ Leaves(p) \/ CloseStorage(p)
      PROVE  Goal
  <2>1. /\ install' = install /\ (amiss' \cap {"half", "wiped"} = amiss \cap {"half", "wiped"})
        /\ dir'.config = dir.config /\ dir'.admin = dir.admin /\ dir'.space = dir.space
      BY <1>12 DEF WritePid, checkListenFree, PortTaken, ListenAndServe, Shutdown, ShutdownTimeout,
                   buildHandler, Handler, ArriveAt, Leaves, CloseStorage, LeaveDir
  <2> QED
      BY <2>1
<1>13. CASE UNCHANGED lifeVars
    BY <1>13 DEF lifeVars
<1> HIDE DEF Goal
<1>14. CASE \E i \in DOMAIN install : \/ SaveConfig(i) \/ AddAdmin(i) \/ CreateFirstSpace(i)
                                      \/ SecondInstall(i) \/ FailInstall(i)
                                      \/ SwitchOver(i) \/ invalidateHandler(i)
    BY <1>4, <1>5, <1>6, <1>7, <1>8, <1>9, <1>10, <1>14 DEF Goal
<1>15. CASE \E p \in DOMAIN process : \/ buildHandler(p) \/ Handler(p) \/ WritePid(p)
                                      \/ checkListenFree(p) \/ PortTaken(p) \/ ListenAndServe(p)
                                      \/ ArriveAt(p) \/ Leaves(p) \/ Shutdown(p) \/ ShutdownTimeout(p)
                                      \/ CloseStorage(p) \/ gracefulStop(p) \/ Kill(p)
    BY <1>11, <1>12, <1>15 DEF Goal
<1> QED
    BY <1>1, <1>2, <1>3, <1>13, <1>14, <1>15 DEF LifecycleNext, Goal

LEMMA OneStep ==
    ASSUME LifeInv, LifeTyped', [LifecycleNext]_lifeVars
    PROVE  OneProcess'
<1> DEFINE Goal == OneProcess'
<1> USE DEF LifeInv, OneProcess, Alive
<1>1. CASE BeginInstall \/ ForceInstall
    BY <1>1 DEF BeginInstall, ForceInstall
<1>2. CASE Start
    BY <1>2 DEF Start
<1>3. CASE StopServer
  <2> DEFINE p == dir.pid
  <2>1. /\ p \in Alive /\ DOMAIN process' = DOMAIN process
        /\ \A q \in DOMAIN process : q # p => process'[q] = process[q]
      BY <1>3, Stopped
  <2>2. \/ process'[p].stage \in {"draining", "gone"}
        \/ process[p].stage = "spawned" /\ process'[p].stage = "spawned" /\ "early" \in amiss'
        \/ process[p].stage \notin {"named", "spawned", "serving"} /\ process'[p] = process[p]
    <3>1. process[p] \in Processes /\ p \in DOMAIN process
        BY <2>1 DEF LifeTyped
    <3> QED
        BY <1>3, <3>1 DEF StopServer, LifeTyped, Processes
  <2>3. amiss \subseteq amiss'
      BY <1>3 DEF StopServer
  <2> HIDE DEF p
  <2> QED
      BY <2>1, <2>2, <2>3
<1>4. ASSUME NEW i \in DOMAIN install,
             SaveConfig(i) \/ AddAdmin(i) \/ CreateFirstSpace(i) \/ SecondInstall(i) \/ FailInstall(i)
      PROVE  Goal
  <2>1. process' = process /\ amiss \subseteq amiss' /\ dir'.pid = dir.pid
      BY <1>4 DEF SaveConfig, AddAdmin, CreateFirstSpace, SecondInstall, FailInstall, LifeTyped
  <2> QED
      BY <2>1
<1>5. ASSUME NEW i \in DOMAIN install, SwitchOver(i) \/ invalidateHandler(i)
      PROVE  Goal
    BY <1>5, SwitchKeeps DEF Kept
<1>6. ASSUME NEW p \in DOMAIN process,
             \/ WritePid(p) \/ checkListenFree(p) \/ PortTaken(p) \/ ListenAndServe(p)
             \/ Shutdown(p) \/ ShutdownTimeout(p) \/ gracefulStop(p) \/ Kill(p)
      PROVE  Goal
  <2>1. PICK to \in LifeStages :
          /\ process' = [process EXCEPT ![p].stage = to] /\ amiss \subseteq amiss' /\ process[p].stage # "gone"
          /\ \/ to = "named" /\ dir'.pid = p
             \/ to \in {"spawned", "serving"} /\ process[p].stage \in {"named", "spawned"} /\ dir' = dir
             \/ to \in {"drained", "gone"}
      BY <1>6 DEF WritePid, checkListenFree, PortTaken, ListenAndServe, Shutdown, ShutdownTimeout, gracefulStop, Kill,
                  CutShort, Step, LeaveDir, LifeStages, LifeTyped
  <2>2. \A q \in DOMAIN process : process'[q].stage = IF q = p THEN to ELSE process[q].stage
      BY <2>1, Staged
  <2>3. DOMAIN process' = DOMAIN process
      BY <2>1
  <2> QED
      BY <2>1, <2>2, <2>3
<1>7. ASSUME NEW p \in DOMAIN process,
             buildHandler(p) \/ Handler(p) \/ ArriveAt(p) \/ Leaves(p) \/ CloseStorage(p)
      PROVE  Goal
  <2>1. CASE buildHandler(p) \/ Handler(p)
      BY <2>1, BuildKeeps DEF Kept
  <2>2. CASE ArriveAt(p) \/ Leaves(p)
    <3>1. \A q \in DOMAIN process : process[q] \in Processes
        BY DEF LifeTyped
    <3>2. /\ DOMAIN process' = DOMAIN process /\ UNCHANGED <<dir, amiss>>
          /\ \A q \in DOMAIN process : process'[q].stage = process[q].stage
      <4>1. CASE ArriveAt(p)
          BY <3>1, <4>1 DEF ArriveAt, Processes
      <4>2. CASE Leaves(p)
          BY <3>1, <4>2 DEF Leaves, Processes
      <4> QED
          BY <2>2, <4>1, <4>2
    <3> QED
        BY <3>2
  <2>3. CASE CloseStorage(p)
      BY SMTT(30), <2>3 DEF CloseStorage, LifeTyped, Processes
  <2> QED
      BY <1>7, <2>1, <2>2, <2>3
<1>8. CASE UNCHANGED lifeVars
    BY <1>8 DEF lifeVars
<1> HIDE DEF Goal
<1>9. CASE \E i \in DOMAIN install : \/ SaveConfig(i) \/ AddAdmin(i) \/ CreateFirstSpace(i)
                                      \/ SecondInstall(i) \/ FailInstall(i)
                                      \/ SwitchOver(i) \/ invalidateHandler(i)
    BY <1>4, <1>5, <1>9 DEF Goal
<1>10. CASE \E p \in DOMAIN process : \/ buildHandler(p) \/ Handler(p) \/ WritePid(p)
                                      \/ checkListenFree(p) \/ PortTaken(p) \/ ListenAndServe(p)
                                      \/ ArriveAt(p) \/ Leaves(p) \/ Shutdown(p) \/ ShutdownTimeout(p)
                                      \/ CloseStorage(p) \/ gracefulStop(p) \/ Kill(p)
    BY <1>6, <1>7, <1>10 DEF Goal
<1> QED
    BY <1>1, <1>2, <1>3, <1>8, <1>9, <1>10 DEF LifecycleNext, Goal

LEMMA LifeAlways == LifecycleSpec => []LifeInv
<1>1. LifecycleInit => LifeInv
    BY DEF LifecycleInit, LifeInv, LifeTyped, SetupOver, TreeFresh, ClosedLast, SomebodyAdds, OneProcess, EmptyDir, Alive
<1>2. LifeInv /\ [LifecycleNext]_lifeVars => LifeInv'
  <2> SUFFICES ASSUME LifeInv, [LifecycleNext]_lifeVars PROVE LifeInv'
      OBVIOUS
  <2>1. LifeTyped'
      BY LifeTypedStep DEF LifeInv
  <2> QED
      BY <2>1, SetupStep, ClosedStep, AddsStep, OneStep DEF LifeInv
<1> QED
    BY <1>1, <1>2, PTL DEF LifecycleSpec

\* Every request is served by the routes of the server as it is, and by storage that is open,
\* however installations, builds of the route tree and stops fall together.
THEOREM RequestsAreServed == LifecycleSpec => []RequestsServed
<1>1. LifeInv => RequestsServed
    BY DEF LifeInv, ClosedLast, RequestsServed, DrainedFirst, Alive
<1> QED
    BY <1>1, LifeAlways, PTL

\* The data directory of a server tells the truth: of its installation and of its process.
THEOREM DirectoryIsTrue == LifecycleSpec => []DirectoryTells
<1>1. LifeInv => DirectoryTells
    BY DEF LifeInv, SomebodyAdds, OneProcess, DirectoryTells, InstalledWhole, PidNamesServer
<1> QED
    BY <1>1, LifeAlways, PTL

-----------------------------------------------------------------------------
(* Daemon: one daemon for a directory *)

\* The delay between two polls is whatever it is.
Programs(delays) ==
    [by : {"start", "terminal", "daemon", "ui", ""}, stage : {"spawned", "running", "polling", "gone", "left"},
     told : BOOLEAN, delay : delays, interval : Nat, failures : Nat]
ShellAt(pids) == [at : {"none", "spawn", "write", "signal", "remove"}, pid : pids]
DaemonTyped ==
    /\ \E delays : daemon \in Seq(Programs(delays))
    /\ pidFile \in {0} \cup DOMAIN daemon
    /\ command \in [Shell -> ShellAt({0} \cup DOMAIN daemon)]
    /\ unwatched \in BOOLEAN

\* What a stop has signalled and not yet struck out knows of it, if it lives.
SignalledIsTold ==
    \A c \in Shell : command[c].at = "remove" /\ Lives(command[c].pid) => daemon[command[c].pid].told

\* A daemon that was not told to stop and is past its start is the one in the pid file; while
\* one is being started there is no other, nor another start.
Begins(c) == command[c].at \in {"spawn", "write"}
OneIsSeen ==
    ~unwatched =>
      /\ \A d, e \in Daemons : d = e
      /\ \A d \in Daemons : ~daemon[d].told /\ daemon[d].stage # "spawned" => pidFile = d
      /\ \A c \in Shell : /\ command[c].at = "spawn" => Daemons = {}
                          /\ command[c].at = "write" => Daemons \subseteq {command[c].pid}
      /\ \A b, c \in Shell : Begins(b) /\ Begins(c) => b = c
DaemonInv == DaemonTyped /\ SignalledIsTold /\ OneIsSeen

LEMMA DaemonDomain ==
    ASSUME DaemonTyped
    PROVE  /\ Len(daemon) \in Nat /\ DOMAIN daemon = 1..Len(daemon)
           /\ \A d \in DOMAIN daemon :
                 /\ DOMAIN daemon[d] = {"by", "stage", "told", "delay", "interval", "failures"}
                 /\ daemon[d].told \in BOOLEAN
                 /\ daemon[d].stage \in {"spawned", "running", "polling", "gone", "left"}
<1>1. PICK delays : daemon \in Seq(Programs(delays))
    BY DEF DaemonTyped
<1>2. Len(daemon) \in Nat /\ DOMAIN daemon = 1..Len(daemon)
    BY <1>1, LenProperties
<1>3. \A d \in DOMAIN daemon : daemon[d] \in Programs(delays)
    BY <1>1, <1>2
<1> QED
    BY <1>2, <1>3 DEF Programs

LEMMA ProcessesGrow ==
    ASSUME NEW fewer, NEW more, fewer \subseteq more, NEW r \in Programs(fewer)
    PROVE  r \in Programs(more)
BY DEF Programs

LEMMA OfProcesses ==
    ASSUME DaemonTyped, NEW d \in DOMAIN daemon
    PROVE  \E delays : daemon[d] \in Programs(delays)
BY DaemonDomain DEF DaemonTyped

\* A step in which no process comes to be.
LEMMA SameProcesses ==
    ASSUME DaemonTyped, daemon' = [d \in DOMAIN daemon |-> daemon'[d]], NEW delays,
           \A d \in DOMAIN daemon : daemon'[d] \in Programs(delays)
    PROVE  DOMAIN daemon' = DOMAIN daemon /\ \E more : daemon' \in Seq(Programs(more))
<1>1. Len(daemon) \in Nat /\ DOMAIN daemon = 1..Len(daemon) /\ DOMAIN daemon' = DOMAIN daemon
    BY DaemonDomain
<1>2. daemon' \in [1..Len(daemon) -> Programs(delays)]
    BY <1>1
<1> QED
    BY <1>1, <1>2

LEMMA OneProgram ==
    ASSUME DaemonTyped, NEW d \in DOMAIN daemon, NEW r, NEW delays, r \in Programs(delays),
           daemon' = [daemon EXCEPT ![d] = r]
    PROVE  /\ DOMAIN daemon' = DOMAIN daemon /\ daemon'[d] = r
           /\ \E more : daemon' \in Seq(Programs(more))
           /\ \A e \in DOMAIN daemon : e # d => daemon'[e] = daemon[e]
<1>1. PICK other : daemon \in Seq(Programs(other))
    BY DEF DaemonTyped
<1>2. Len(daemon) \in Nat /\ DOMAIN daemon = 1..Len(daemon)
    BY DaemonDomain
<1>3. DOMAIN daemon' = DOMAIN daemon /\ daemon'[d] = r
      /\ \A e \in DOMAIN daemon : e # d => daemon'[e] = daemon[e]
    BY <1>1, <1>2
<1>4. \A e \in DOMAIN daemon : daemon'[e] \in Programs(delays \cup other)
    <2>1. \A e \in DOMAIN daemon : daemon[e] \in Programs(other)
        BY <1>1, <1>2
    <2>2. /\ \A e \in DOMAIN daemon : daemon[e] \in Programs(delays \cup other)
          /\ r \in Programs(delays \cup other)
        BY <2>1, ProcessesGrow
    <2> QED
        BY <1>3, <2>2
<1>5. daemon' = [e \in DOMAIN daemon |-> daemon'[e]]
    BY <1>3
<1> QED
    BY <1>3, <1>4, <1>5, SameProcesses

\* A process that is launched.
LEMMA LaunchedProcess ==
    ASSUME DaemonTyped, NEW by \in {"start", "terminal", "daemon", "ui"},
           NEW stage \in {"spawned", "running"}, Launched(by, stage)
    PROVE  /\ Len(daemon') = Len(daemon) + 1 /\ \E more : daemon' \in Seq(Programs(more))
           /\ DOMAIN daemon' = DOMAIN daemon \cup {Len(daemon')} /\ Len(daemon') \notin DOMAIN daemon
           /\ \A d \in DOMAIN daemon : daemon'[d] = daemon[d]
           /\ daemon'[Len(daemon')].by = by /\ daemon'[Len(daemon')].stage = stage
<1>1. PICK other : daemon \in Seq(Programs(other))
    BY DEF DaemonTyped
<1>2. PICK i \in Interval :
         daemon' = Append(daemon, [by |-> by, stage |-> stage, told |-> FALSE, delay |-> i,
                                   interval |-> i, failures |-> 0])
    BY DEF Launched
<1> DEFINE r == [by |-> by, stage |-> stage, told |-> FALSE, delay |-> i, interval |-> i, failures |-> 0]
<1>3. r \in Programs({i}) /\ r.by = by /\ r.stage = stage
    BY DaemonAssumption DEF Programs
<1>4. daemon' = Append(daemon, r)
    BY <1>2
<1> HIDE DEF r
<1>5. daemon \in Seq(Programs(other \cup {i})) /\ r \in Programs(other \cup {i})
    <2>1. r \in Programs(other \cup {i})
        BY <1>3, ProcessesGrow
    <2>2. Programs(other) \subseteq Programs(other \cup {i})
        BY ProcessesGrow
    <2> QED
        BY <1>1, <2>1, <2>2, SeqMonotonic
<1>6. /\ daemon' \in Seq(Programs(other \cup {i})) /\ Len(daemon') = Len(daemon) + 1
      /\ daemon'[Len(daemon) + 1] = r /\ \A d \in 1..Len(daemon) : daemon'[d] = daemon[d]
      /\ DOMAIN daemon' = 1..Len(daemon') /\ DOMAIN daemon = 1..Len(daemon) /\ Len(daemon) \in Nat
    BY <1>4, <1>5, AppendProperties, LenProperties
<1> QED
    BY <1>3, <1>6

\* Pids are not given again: commands may keep theirs.
LEMMA MorePids ==
    ASSUME NEW few, NEW many, few \subseteq many, NEW f \in [Shell -> ShellAt(few)]
    PROVE  f \in [Shell -> ShellAt(many)]
BY DEF ShellAt

\* A step that begins no daemon keeps what is known of the one there is.
LEMMA NoneBegun ==
    ASSUME DaemonInv, unwatched => unwatched', DOMAIN daemon' = DOMAIN daemon,
           \A c \in Shell : command'[c].at \in {"spawn", "write"} => command'[c] = command[c],
           ~unwatched' => \A d \in Daemons' : /\ daemon[d].stage \notin {"gone", "left"}
                                              /\ daemon'[d].by = daemon[d].by,
           ~unwatched' => \A d \in Daemons' : ~daemon'[d].told /\ daemon'[d].stage # "spawned" =>
                                 \/ pidFile' = d
                                 \/ pidFile' = pidFile /\ ~daemon[d].told /\ daemon[d].stage # "spawned"
    PROVE  OneIsSeen'
<1> SUFFICES ASSUME ~unwatched'
             PROVE  /\ \A d, e \in Daemons' : d = e
                    /\ \A d \in Daemons' : ~daemon'[d].told /\ daemon'[d].stage # "spawned" => pidFile' = d
                    /\ \A c \in Shell : /\ command'[c].at = "spawn" => Daemons' = {}
                                        /\ command'[c].at = "write" => Daemons' \subseteq {command'[c].pid}
                    /\ \A b, c \in Shell : Begins(b)' /\ Begins(c)' => b = c
    BY DEF OneIsSeen, Begins
<1>1. Daemons' \subseteq Daemons
    BY DEF Daemons, Lives
<1>2. /\ \A d, e \in Daemons : d = e
      /\ \A d \in Daemons : ~daemon[d].told /\ daemon[d].stage # "spawned" => pidFile = d
      /\ \A c \in Shell : /\ command[c].at = "spawn" => Daemons = {}
                          /\ command[c].at = "write" => Daemons \subseteq {command[c].pid}
      /\ \A b, c \in Shell : Begins(b) /\ Begins(c) => b = c
    BY DEF DaemonInv, OneIsSeen
<1>3. \A d \in Daemons' : ~daemon'[d].told /\ daemon'[d].stage # "spawned" => pidFile' = d
    BY <1>1, <1>2
<1>4. \A b, c \in Shell : Begins(b)' /\ Begins(c)' => b = c
    BY <1>2 DEF Begins
<1> QED
    BY <1>1, <1>2, <1>3, <1>4

\* Nor does it make a process forget what it was told, or bring one back.
LEMMA ToldStays ==
    ASSUME DaemonInv,
           \A c \in Shell : command'[c].at = "remove" => command'[c] = command[c],
           \A d \in DOMAIN daemon : daemon'[d].stage \notin {"gone", "left"} =>
                                      /\ daemon[d].stage \notin {"gone", "left"}
                                      /\ daemon[d].told => daemon'[d].told
    PROVE  SignalledIsTold'
<1> SUFFICES ASSUME NEW c \in Shell, command'[c].at = "remove", command'[c].pid # 0,
                    daemon'[command'[c].pid].stage \notin {"gone", "left"}
             PROVE  daemon'[command'[c].pid].told
    BY DEF SignalledIsTold, Lives
<1>1. command'[c] = command[c] /\ command[c].at = "remove" /\ command[c].pid # 0
    OBVIOUS
<1>2. command[c].pid \in DOMAIN daemon
    BY <1>1 DEF DaemonInv, DaemonTyped, ShellAt
<1> QED
    BY <1>1, <1>2 DEF Lives, SignalledIsTold, DaemonInv

\* A process, in a step of it alone, goes on to another stage, or ends.
LEMMA OneMoves ==
    ASSUME DaemonInv, NEW d \in DOMAIN daemon, NEW r, NEW delays, r \in Programs(delays),
           daemon' = [daemon EXCEPT ![d] = r], UNCHANGED command, pidFile' \in {0} \cup DOMAIN daemon,
           unwatched' \in BOOLEAN, unwatched => unwatched',
           \/ r.stage \in {"gone", "left"}
           \/ /\ daemon[d].stage \notin {"gone", "left"} /\ r.by = daemon[d].by
              /\ daemon[d].told => r.told
              /\ ~unwatched' /\ ~r.told /\ r.stage # "spawned" /\ r.by # "ui" =>
                     \/ pidFile' = d
                     \/ pidFile' = pidFile /\ ~daemon[d].told /\ daemon[d].stage # "spawned",
           ~unwatched' => \A e \in Daemons : e # d => pidFile' \in {pidFile, e}
    PROVE  DaemonInv'
<1>1. DaemonTyped /\ command \in [Shell -> ShellAt({0} \cup DOMAIN daemon)]
    BY DEF DaemonInv, DaemonTyped
<1>2. /\ DOMAIN daemon' = DOMAIN daemon /\ daemon'[d] = r
      /\ \E more : daemon' \in Seq(Programs(more))
      /\ \A e \in DOMAIN daemon : e # d => daemon'[e] = daemon[e]
    BY <1>1, OneProgram
<1>3. DaemonTyped'
    BY <1>1, <1>2 DEF DaemonTyped
<1>4. SignalledIsTold'
    BY <1>2, ToldStays
<1>5. \A e \in Daemons' : daemon[e].stage \notin {"gone", "left"} /\ daemon'[e].by = daemon[e].by
    BY <1>2 DEF Daemons, Lives
<1>6. ASSUME ~unwatched', NEW e \in Daemons', ~daemon'[e].told, daemon'[e].stage # "spawned"
      PROVE  pidFile' = e \/ (pidFile' = pidFile /\ ~daemon[e].told /\ daemon[e].stage # "spawned")
    <2>1. e \in DOMAIN daemon /\ daemon'[e].stage \notin {"gone", "left"} /\ daemon'[e].by # "ui"
        BY <1>2 DEF Daemons, Lives
    <2>2. CASE e = d
        BY <1>2, <1>6, <2>1, <2>2
    <2>3. CASE e # d
        BY <1>2, <1>6, <2>1, <2>3, DaemonDomain, <1>1 DEF Daemons, Lives
    <2> QED
        BY <2>2, <2>3
<1>7. OneIsSeen'
    BY <1>2, <1>5, <1>6, NoneBegun
<1> QED
    BY <1>3, <1>4, <1>7 DEF DaemonInv

LEMMA StartKeeps ==
    ASSUME DaemonInv, NEW c \in Shell, DaemonStart(c)
    PROVE  DaemonInv'
<1>1. /\ DaemonTyped /\ ~Lives(pidFile) /\ command[c].at = "none"
      /\ UNCHANGED <<pidFile, daemon>> /\ unwatched' = (unwatched \/ Unseen)
      /\ command \in [Shell -> ShellAt({0} \cup DOMAIN daemon)]
    BY DEF DaemonStart, DaemonInv, DaemonTyped
<1>2. /\ command' \in [Shell -> ShellAt({0} \cup DOMAIN daemon)]
      /\ command'[c].at = "spawn" /\ \A b \in Shell : b # c => command'[b] = command[b]
    BY <1>1 DEF DaemonStart, Stage, ShellAt
<1>3. DaemonTyped' /\ SignalledIsTold'
    BY <1>1, <1>2, ToldStays DEF DaemonTyped
<1>4. ASSUME ~unwatched' PROVE Daemons' = {} /\ \A b \in Shell : Begins(b)' => b = c
    <2>1. /\ ~unwatched /\ \A b \in Shell : ~Begins(b)
          /\ \A d \in Daemons : ~daemon[d].told /\ daemon[d].stage # "spawned"
        BY <1>1, <1>4 DEF Unseen, Starting, Begins
    <2>2. Daemons = {}
        BY <1>1, <2>1 DEF DaemonInv, OneIsSeen, Daemons
    <2>3. Daemons' = Daemons
        BY <1>1 DEF Daemons, Lives
    <2> QED
        BY <1>2, <2>1, <2>2, <2>3 DEF Begins
<1>5. OneIsSeen'
    BY <1>4 DEF OneIsSeen
<1> QED
    BY <1>3, <1>5 DEF DaemonInv

LEMMA SpawnKeeps ==
    ASSUME DaemonInv, NEW c \in Shell, SpawnDaemon(c)
    PROVE  DaemonInv'
<1> DEFINE pids == {0} \cup DOMAIN daemon'
<1>1. /\ DaemonTyped /\ command[c].at = "spawn" /\ UNCHANGED <<pidFile, unwatched>>
      /\ Launched("start", "spawned") /\ Stage(c, "write", Len(daemon'))
      /\ command \in [Shell -> ShellAt({0} \cup DOMAIN daemon)]
    BY DEF SpawnDaemon, DaemonInv, DaemonTyped
<1>2. /\ \E more : daemon' \in Seq(Programs(more))
      /\ DOMAIN daemon' = DOMAIN daemon \cup {Len(daemon')} /\ Len(daemon') \notin DOMAIN daemon
      /\ \A d \in DOMAIN daemon : daemon'[d] = daemon[d]
      /\ daemon'[Len(daemon')].stage = "spawned"
    BY <1>1, LaunchedProcess
<1>3. command \in [Shell -> ShellAt(pids)]
    BY <1>1, <1>2, MorePids
<1>4. /\ command' \in [Shell -> ShellAt(pids)] /\ command'[c].at = "write" /\ command'[c].pid = Len(daemon')
      /\ \A b \in Shell : b # c => command'[b] = command[b]
    BY <1>1, <1>2, <1>3 DEF Stage, ShellAt
<1>5. DaemonTyped'
    BY <1>1, <1>2, <1>4 DEF DaemonTyped
<1>6. SignalledIsTold'
    BY <1>2, <1>4, ToldStays
<1>7. ASSUME ~unwatched' PROVE Daemons' \subseteq {Len(daemon')} /\ \A b \in Shell : Begins(b)' => b = c
    <2>1. Daemons = {} /\ \A b \in Shell : Begins(b) => b = c
        BY <1>1, <1>7 DEF DaemonInv, OneIsSeen, Begins
    <2>2. Daemons' \subseteq {Len(daemon')}
        BY <1>2, <2>1 DEF Daemons, Lives
    <2>3. \A b \in Shell : Begins(b)' => b = c
        BY <1>4, <2>1 DEF Begins
    <2> QED
        BY <2>2, <2>3
<1>8. OneIsSeen'
    BY <1>2, <1>4, <1>7 DEF OneIsSeen, Begins
<1> QED
    BY <1>5, <1>6, <1>8 DEF DaemonInv

\* The pid file, as a start or a stop leaves it, and a command that goes on with none started.
LEMMA WriteKeeps ==
    ASSUME DaemonInv, NEW c \in Shell, WriteStarted(c)
    PROVE  DaemonInv'
<1>1. /\ DaemonTyped /\ command[c].at = "write" /\ pidFile' = command[c].pid /\ UNCHANGED <<daemon, unwatched>>
      /\ command \in [Shell -> ShellAt({0} \cup DOMAIN daemon)]
    BY DEF WriteStarted, DaemonInv, DaemonTyped
<1>2. /\ command' \in [Shell -> ShellAt({0} \cup DOMAIN daemon)]
      /\ command'[c].at = "none" /\ \A b \in Shell : b # c => command'[b] = command[b]
    BY <1>1 DEF WriteStarted, Stage, ShellAt
<1>3. command[c].pid \in {0} \cup DOMAIN daemon
    BY <1>1 DEF ShellAt
<1>4. DaemonTyped' /\ SignalledIsTold'
    BY <1>1, <1>2, <1>3, ToldStays DEF DaemonTyped
<1>5. Daemons' = Daemons
    BY <1>1 DEF Daemons, Lives
<1>6. ASSUME ~unwatched PROVE \A d \in Daemons : pidFile' = d
    BY <1>1, <1>6 DEF DaemonInv, OneIsSeen
<1>7. OneIsSeen'
    BY <1>1, <1>2, <1>5, <1>6 DEF DaemonInv, OneIsSeen, Begins
<1> QED
    BY <1>4, <1>7 DEF DaemonInv

LEMMA StopKeeps ==
    ASSUME DaemonInv, NEW c \in Shell, DaemonStop(c) \/ AbandonCommand(c)
    PROVE  DaemonInv'
<1>1. /\ DaemonTyped /\ UNCHANGED <<pidFile, daemon, unwatched>>
      /\ command \in [Shell -> ShellAt({0} \cup DOMAIN daemon)]
      /\ 0 \in {0} \cup DOMAIN daemon /\ pidFile \in {0} \cup DOMAIN daemon
    BY DEF DaemonStop, AbandonCommand, DaemonInv, DaemonTyped
<1>2. /\ command' \in [Shell -> ShellAt({0} \cup DOMAIN daemon)]
      /\ command'[c].at \in {"none", "signal"} /\ \A b \in Shell : b # c => command'[b] = command[b]
    BY <1>1 DEF DaemonStop, AbandonCommand, Stage, ShellAt
<1>3. DaemonTyped' /\ SignalledIsTold'
    BY <1>1, <1>2, ToldStays DEF DaemonTyped
<1>4. Daemons' = Daemons
    BY <1>1 DEF Daemons, Lives
<1>5. OneIsSeen'
    BY <1>1, <1>2, <1>4 DEF DaemonInv, OneIsSeen, Begins
<1> QED
    BY <1>3, <1>5 DEF DaemonInv

\* What a process becomes that is terminated.
LEMMA TerminatedProgram ==
    ASSUME NEW d, NEW delays, daemon[d] \in Programs(delays)
    PROVE  /\ Terminated(d) \in Programs(delays \cup {0})
           /\ \/ Terminated(d).stage = "gone"
              \/ /\ Terminated(d).told /\ Terminated(d).stage = daemon[d].stage
                 /\ Terminated(d).by = daemon[d].by
<1>1. daemon[d] \in Programs(delays \cup {0})
    BY ProcessesGrow
<1>2. CASE daemon[d].stage = "spawned"
    <2>1. Terminated(d) = Gone(d)
        BY <1>2 DEF Terminated
    <2>2. Gone(d) \in Programs(delays \cup {0}) /\ Gone(d).stage = "gone"
        BY DEF Programs, Gone
    <2> QED
        BY <2>1, <2>2
<1>3. CASE daemon[d].stage # "spawned"
    <2> DEFINE r == [daemon[d] EXCEPT !.told = TRUE]
    <2>1. r \in Programs(delays \cup {0}) /\ r.by = daemon[d].by /\ r.told /\ r.stage = daemon[d].stage
        BY <1>1 DEF Programs
    <2>2. Terminated(d) = r
        BY <1>3 DEF Terminated
    <2> HIDE DEF r
    <2> QED
        BY <2>1, <2>2
<1> QED
    BY <1>2, <1>3

LEMMA SignalKeeps ==
    ASSUME DaemonInv, NEW c \in Shell, SignalDaemon(c)
    PROVE  DaemonInv'
<1>0. PICK d : d = command[c].pid
    OBVIOUS
<1>1. /\ DaemonTyped /\ command[c].at = "signal" /\ UNCHANGED <<pidFile, unwatched>>
      /\ daemon' = (IF Lives(d) THEN [daemon EXCEPT ![d] = Terminated(d)] ELSE daemon)
      /\ command \in [Shell -> ShellAt({0} \cup DOMAIN daemon)] /\ d \in {0} \cup DOMAIN daemon
    BY <1>0 DEF SignalDaemon, DaemonInv, DaemonTyped, ShellAt
<1>2. /\ command' \in [Shell -> ShellAt({0} \cup DOMAIN daemon)]
      /\ command'[c].at = "remove" /\ command'[c].pid = d
      /\ \A b \in Shell : b # c => command'[b] = command[b]
    BY <1>0, <1>1 DEF SignalDaemon, Stage, ShellAt
<1>3. /\ DOMAIN daemon' = DOMAIN daemon /\ \E more : daemon' \in Seq(Programs(more))
      /\ \A e \in DOMAIN daemon : e # d => daemon'[e] = daemon[e]
      /\ d \in DOMAIN daemon /\ daemon'[d].stage \notin {"gone", "left"} =>
            daemon[d].stage \notin {"gone", "left"} /\ daemon'[d].told /\ daemon'[d].by = daemon[d].by
    <2>1. CASE Lives(d)
        <3>1. d \in DOMAIN daemon
            BY <1>1, <2>1 DEF Lives
        <3>2. PICK delays : daemon[d] \in Programs(delays)
            BY <1>1, <3>1, OfProcesses
        <3>3. /\ DOMAIN daemon' = DOMAIN daemon /\ daemon'[d] = Terminated(d)
              /\ \E more : daemon' \in Seq(Programs(more))
              /\ \A e \in DOMAIN daemon : e # d => daemon'[e] = daemon[e]
            BY <1>1, <2>1, <3>1, <3>2, TerminatedProgram, OneProgram
        <3> QED
            BY <2>1, <3>2, <3>3, TerminatedProgram DEF Lives
    <2>2. CASE ~Lives(d)
        <3>1. daemon' = daemon
            BY <1>1, <2>2
        <3> QED
            BY <1>1, <2>2, <3>1, DaemonDomain DEF DaemonTyped, Lives
    <2> QED
        BY <2>1, <2>2
<1>4. DaemonTyped'
    BY <1>1, <1>2, <1>3 DEF DaemonTyped
<1>5. SignalledIsTold'
    <2> SUFFICES ASSUME NEW b \in Shell, command'[b].at = "remove", command'[b].pid # 0,
                        daemon'[command'[b].pid].stage \notin {"gone", "left"}
                 PROVE  daemon'[command'[b].pid].told
        BY DEF SignalledIsTold, Lives
    <2>1. command'[b].pid \in DOMAIN daemon
        BY <1>2 DEF ShellAt
    <2>2. CASE command'[b].pid = d
        BY <1>3, <2>1, <2>2
    <2>3. CASE command'[b].pid # d
        BY <1>1, <1>2, <1>3, <2>1, <2>3, DaemonDomain DEF DaemonInv, SignalledIsTold, Lives
    <2> QED
        BY <2>2, <2>3
<1>6. \A e \in Daemons' : /\ daemon[e].stage \notin {"gone", "left"} /\ daemon'[e].by = daemon[e].by
                          /\ ~daemon'[e].told => ~daemon[e].told /\ daemon'[e].stage = daemon[e].stage
    BY <1>3 DEF Daemons, Lives
<1>7. OneIsSeen'
    BY <1>1, <1>2, <1>3, <1>6, NoneBegun
<1> QED
    BY <1>4, <1>5, <1>7 DEF DaemonInv

LEMMA RemoveKeeps ==
    ASSUME DaemonInv, NEW c \in Shell, RemoveStopped(c)
    PROVE  DaemonInv'
<1>0. PICK meant : meant = command[c].pid
    OBVIOUS
<1>1. /\ DaemonTyped /\ command[c].at = "remove" /\ UNCHANGED daemon /\ pidFile' = 0
      /\ unwatched' = (unwatched \/ (pidFile # meant /\ Lives(pidFile)))
      /\ command \in [Shell -> ShellAt({0} \cup DOMAIN daemon)]
    BY <1>0 DEF RemoveStopped, RemovePid, DaemonInv, DaemonTyped
<1>2. /\ command' \in [Shell -> ShellAt({0} \cup DOMAIN daemon)]
      /\ command'[c].at = "none" /\ \A b \in Shell : b # c => command'[b] = command[b]
    BY <1>1 DEF RemoveStopped, Stage, ShellAt
<1>3. DaemonTyped' /\ SignalledIsTold'
    BY <1>1, <1>2, ToldStays DEF DaemonTyped
<1>4. Daemons' = Daemons
    BY <1>1 DEF Daemons, Lives
<1>5. ASSUME ~unwatched' PROVE \A d \in Daemons : ~(~daemon[d].told /\ daemon[d].stage # "spawned")
    <2> SUFFICES ASSUME NEW d \in Daemons, ~daemon[d].told, daemon[d].stage # "spawned" PROVE FALSE
        OBVIOUS
    <2>1. ~unwatched /\ (pidFile = meant \/ ~Lives(pidFile))
        BY <1>1, <1>5
    <2>2. pidFile = d /\ Lives(d)
        BY <2>1 DEF DaemonInv, OneIsSeen, Daemons
    <2>3. daemon[d].told
        BY <1>0, <1>1, <2>1, <2>2 DEF DaemonInv, SignalledIsTold
    <2> QED
        BY <2>3
<1>6. OneIsSeen'
    <2>1. CASE ~unwatched'
        <3>1. ~unwatched
            BY <1>1, <2>1
        <3> QED
            BY <1>1, <1>2, <1>4, <1>5, <2>1, <3>1 DEF DaemonInv, OneIsSeen, Begins
    <2>2. CASE unwatched'
        BY <2>2 DEF OneIsSeen
    <2> QED
        BY <2>1, <2>2
<1> QED
    BY <1>3, <1>6 DEF DaemonInv

\* What is begun beside the commands: by the session manager, or in a terminal.
LEMMA BesideKeeps ==
    ASSUME DaemonInv, StartForeground \/ \E s \in Service : Supervise(s)
    PROVE  DaemonInv'
<1>1. PICK by \in {"terminal", "daemon", "ui"}, stage \in {"spawned", "running"} :
         /\ Launched(by, stage) /\ UNCHANGED <<pidFile, command>>
         /\ ~unwatched' => ~unwatched /\ (by = "ui" \/ (stage = "spawned" /\ Daemons = {} /\ ~Starting))
    <2>1. CASE StartForeground
        BY <2>1 DEF StartForeground
    <2>2. ASSUME NEW s \in Service, Supervise(s)
          PROVE  /\ Launched(s, "spawned") /\ UNCHANGED <<pidFile, command>> /\ s \in {"daemon", "ui"}
                 /\ ~unwatched' => ~unwatched /\ (s = "ui" \/ (Daemons = {} /\ ~Starting))
        BY <2>2 DEF Supervise, Service
    <2> QED
        BY <2>1, <2>2
<1>2. DaemonTyped
    BY DEF DaemonInv
<1>3. /\ \E more : daemon' \in Seq(Programs(more))
      /\ DOMAIN daemon' = DOMAIN daemon \cup {Len(daemon')} /\ Len(daemon') \notin DOMAIN daemon
      /\ \A d \in DOMAIN daemon : daemon'[d] = daemon[d]
      /\ daemon'[Len(daemon')].by = by /\ daemon'[Len(daemon')].stage = stage
    BY <1>1, <1>2, LaunchedProcess
<1>4. DaemonTyped'
    <2>1. command \in [Shell -> ShellAt({0} \cup DOMAIN daemon)] /\ pidFile \in {0} \cup DOMAIN daemon
        BY <1>2 DEF DaemonTyped
    <2>2. command \in [Shell -> ShellAt({0} \cup DOMAIN daemon')]
        BY <1>3, <2>1, MorePids
    <2>3. unwatched' \in BOOLEAN
        BY <1>2 DEF DaemonTyped, StartForeground, Supervise
    <2> QED
        BY <1>1, <1>3, <2>1, <2>2, <2>3 DEF DaemonTyped
<1>5. SignalledIsTold'
    BY <1>1, <1>3, ToldStays
<1>6. CASE unwatched'
    BY <1>4, <1>5, <1>6 DEF DaemonInv, OneIsSeen
<1>7. CASE ~unwatched' /\ by = "ui"
    <2>1. Daemons' = Daemons /\ ~unwatched
        BY <1>1, <1>3, <1>7, DaemonDomain, <1>2 DEF Daemons, Lives
    <2>2. OneIsSeen'
        BY <1>1, <1>3, <1>7, <2>1 DEF DaemonInv, OneIsSeen, Daemons, Begins
    <2> QED
        BY <1>4, <1>5, <2>2 DEF DaemonInv
<1>8. CASE ~unwatched' /\ stage = "spawned" /\ Daemons = {} /\ ~Starting
    <2>1. Daemons' \subseteq {Len(daemon')}
        BY <1>3, <1>8 DEF Daemons, Lives
    <2>2. OneIsSeen'
        BY <1>1, <1>3, <1>8, <2>1 DEF OneIsSeen, Starting, Begins
    <2> QED
        BY <1>4, <1>5, <2>2 DEF DaemonInv
<1> QED
    BY <1>1, <1>6, <1>7, <1>8

\* The session manager turns a service off, or forgets how its last process went.
LEMMA ServicesKeep ==
    ASSUME DaemonInv, uninstallService \/ uninstallUIService \/ \E s \in Service : startService(s)
    PROVE  DaemonInv'
<1>1. /\ DaemonTyped /\ UNCHANGED <<pidFile, command, unwatched>>
      /\ \/ \E s : daemon' = [d \in DOMAIN daemon |-> IF Lives(d) /\ daemon[d].by = s THEN Terminated(d) ELSE daemon[d]]
         \/ \E s : daemon' = [d \in DOMAIN daemon |-> IF daemon[d].by = s /\ ~Lives(d) THEN Gone(d) ELSE daemon[d]]
    BY DEF uninstallService, uninstallUIService, Uninstalled, stopService, startService, DaemonInv
<1>2. PICK delays : daemon \in Seq(Programs(delays))
    BY <1>1 DEF DaemonTyped
<1>3. ASSUME NEW d \in DOMAIN daemon
      PROVE  /\ daemon[d] \in Programs(delays \cup {0})
             /\ Gone(d) \in Programs(delays \cup {0}) /\ Gone(d).stage = "gone"
             /\ Terminated(d) \in Programs(delays \cup {0})
             /\ \/ Terminated(d).stage = "gone"
                \/ /\ Terminated(d).told /\ Terminated(d).stage = daemon[d].stage
                   /\ Terminated(d).by = daemon[d].by
    <2>1. daemon[d] \in Programs(delays)
        BY <1>1, <1>2, DaemonDomain
    <2>2. daemon[d] \in Programs(delays \cup {0})
        BY <2>1, ProcessesGrow
    <2>3. Gone(d) \in Programs(delays \cup {0}) /\ Gone(d).stage = "gone"
        BY DEF Programs, Gone
    <2> QED
        BY <2>1, <2>2, <2>3, TerminatedProgram
<1>4. /\ DOMAIN daemon' = DOMAIN daemon /\ daemon' = [d \in DOMAIN daemon |-> daemon'[d]]
      /\ \A d \in DOMAIN daemon : daemon'[d] \in {daemon[d], Gone(d), Terminated(d)}
    BY <1>1
<1>5. DaemonTyped'
    BY <1>1, <1>3, <1>4, SameProcesses DEF DaemonTyped
<1>6. \A d \in DOMAIN daemon : daemon'[d].stage \notin {"gone", "left"} =>
          /\ daemon[d].stage \notin {"gone", "left"} /\ daemon'[d].by = daemon[d].by
          /\ daemon[d].told => daemon'[d].told
          /\ ~daemon'[d].told => ~daemon[d].told /\ daemon'[d].stage = daemon[d].stage
    <2> SUFFICES ASSUME NEW d \in DOMAIN daemon, daemon'[d].stage \notin {"gone", "left"}
                 PROVE  /\ daemon[d].stage \notin {"gone", "left"} /\ daemon'[d].by = daemon[d].by
                        /\ daemon[d].told => daemon'[d].told
                        /\ ~daemon'[d].told => ~daemon[d].told /\ daemon'[d].stage = daemon[d].stage
        OBVIOUS
    <2>1. CASE daemon'[d] = daemon[d]
        BY <2>1
    <2>2. CASE daemon'[d] = Gone(d)
        BY <1>3, <2>2
    <2>3. CASE daemon'[d] = Terminated(d)
        BY <1>3, <2>3
    <2> QED
        BY <1>4, <2>1, <2>2, <2>3
<1>7. SignalledIsTold'
    BY <1>1, <1>6, ToldStays
<1>8. OneIsSeen'
    <2>1. \A d \in Daemons' : d \in DOMAIN daemon /\ daemon'[d].stage \notin {"gone", "left"}
        BY <1>4 DEF Daemons, Lives
    <2> QED
        BY <1>1, <1>4, <1>6, <2>1, NoneBegun
<1> QED
    BY <1>5, <1>7, <1>8 DEF DaemonInv

LEMMA LogInKeeps ==
    ASSUME DaemonInv, LogIn
    PROVE  DaemonInv'
<1>1. /\ DaemonTyped /\ daemon' = [d \in DOMAIN daemon |-> Gone(d)] /\ UNCHANGED <<pidFile, unwatched>>
      /\ command' = [c \in Shell |-> NoCommand]
    BY DEF LogIn, DaemonInv
<1>2. \A d \in DOMAIN daemon : Gone(d) \in Programs({0}) /\ Gone(d).stage = "gone"
    BY DEF Programs, Gone
<1>3. DOMAIN daemon' = DOMAIN daemon /\ \E more : daemon' \in Seq(Programs(more))
    BY <1>1, <1>2, SameProcesses
<1>4. command' \in [Shell -> ShellAt({0} \cup DOMAIN daemon')] /\ \A c \in Shell : command'[c].at = "none"
    BY <1>1 DEF NoCommand, ShellAt
<1>5. DaemonTyped' /\ SignalledIsTold'
    BY <1>1, <1>3, <1>4 DEF DaemonTyped, SignalledIsTold
<1>6. Daemons' = {}
    BY <1>1, <1>2, <1>3 DEF Daemons, Lives
<1>7. OneIsSeen'
    BY <1>4, <1>6 DEF OneIsSeen, Begins
<1> QED
    BY <1>5, <1>7 DEF DaemonInv

LEMMA ProcessKeeps ==
    ASSUME DaemonInv, NEW d \in DOMAIN daemon,
           \/ DaemonRun(d) \/ PollBegins(d) \/ PollFails(d) \/ PollSucceeds(d)
           \/ DaemonLeaves(d) \/ KillDaemon(d) \/ ServeConsole(d)
    PROVE  DaemonInv'
<1>1. DaemonTyped /\ pidFile \in {0} \cup DOMAIN daemon /\ d # 0
    <2>1. DaemonTyped /\ pidFile \in {0} \cup DOMAIN daemon
        BY DEF DaemonInv, DaemonTyped
    <2> QED
        BY <2>1, DaemonDomain
<1>2. PICK delays : daemon[d] \in Programs(delays)
    BY <1>1, OfProcesses
<1>3. CASE DaemonRun(d)
    <2> DEFINE r == [daemon[d] EXCEPT !.stage = "running"]
    <2>1. r \in Programs(delays) /\ r.by = daemon[d].by /\ r.stage = "running" /\ r.told = daemon[d].told
        BY <1>2 DEF Programs
    <2>2. daemon' = [daemon EXCEPT ![d] = r] /\ daemon[d].by \in {"start", "daemon"}
          /\ daemon[d].stage = "spawned" /\ pidFile' = d /\ UNCHANGED <<command, unwatched>>
        BY <1>3 DEF DaemonRun, Became
    <2>3. ~unwatched => \A e \in Daemons : e = d
        BY <1>1, <2>2 DEF DaemonInv, OneIsSeen, Daemons, Lives
    <2> HIDE DEF r
    <2> QED
        BY <1>1, <2>1, <2>2, <2>3, OneMoves DEF DaemonTyped
<1>4. CASE PollBegins(d) \/ ServeConsole(d)
    <2>1. PICK st \in {"polling", "running"} : /\ daemon' = [daemon EXCEPT ![d].stage = st]
          /\ daemon[d].stage \in {"running", "spawned"} /\ (daemon[d].stage = "spawned" => daemon[d].by = "ui")
          /\ UNCHANGED <<pidFile, command, unwatched>>
        BY <1>4 DEF PollBegins, ServeConsole, Became
    <2> DEFINE r == [daemon[d] EXCEPT !.stage = st]
    <2>2. r \in Programs(delays) /\ r.by = daemon[d].by /\ r.stage = st /\ r.told = daemon[d].told
        BY <1>2 DEF Programs
    <2>3. daemon' = [daemon EXCEPT ![d] = r]
        BY <2>1
    <2> HIDE DEF r
    <2> QED
        BY <1>1, <2>1, <2>2, <2>3, OneMoves DEF DaemonTyped
<1>5. CASE PollFails(d) \/ PollSucceeds(d)
    <2>1. daemon[d].failures \in Nat /\ MaxFailures \in Nat
        BY <1>2, DaemonAssumption DEF Programs
    <2>2. PICK n \in Nat : \E x :
             /\ daemon' = [daemon EXCEPT ![d].stage = "running", ![d].failures = n, ![d].delay = x]
             /\ daemon[d].stage = "polling" /\ UNCHANGED <<pidFile, command, unwatched>>
        <3>1. CASE PollFails(d)
            <4> DEFINE n == IF daemon[d].failures < MaxFailures THEN daemon[d].failures + 1 ELSE MaxFailures
            <4>1. n \in Nat
                BY <2>1
            <4>2. /\ daemon' = [daemon EXCEPT ![d].stage = "running", ![d].failures = n,
                                              ![d].delay = backoffFor(daemon[d].interval, n)]
                  /\ daemon[d].stage = "polling" /\ UNCHANGED <<pidFile, command, unwatched>>
                BY <3>1 DEF PollFails
            <4> HIDE DEF n
            <4> QED
                BY <4>1, <4>2
        <3>2. CASE PollSucceeds(d)
            BY <3>2 DEF PollSucceeds
        <3> QED
            BY <1>5, <3>1, <3>2
    <2>3. PICK x : /\ daemon' = [daemon EXCEPT ![d].stage = "running", ![d].failures = n, ![d].delay = x]
                   /\ daemon[d].stage = "polling" /\ UNCHANGED <<pidFile, command, unwatched>>
        BY <2>2
    <2> DEFINE r == [daemon[d] EXCEPT !.stage = "running", !.failures = n, !.delay = x]
    <2>4. r \in Programs({x}) /\ r.by = daemon[d].by /\ r.stage = "running" /\ r.told = daemon[d].told
        BY <1>2 DEF Programs
    <2>5. daemon' = [daemon EXCEPT ![d] = r]
        BY <2>3
    <2> HIDE DEF r
    <2> QED
        BY <1>1, <2>3, <2>4, <2>5, OneMoves DEF DaemonTyped
<1>6. CASE KillDaemon(d)
    <2>1. daemon' = [daemon EXCEPT ![d] = Gone(d)] /\ UNCHANGED <<pidFile, command, unwatched>>
        BY <1>6 DEF KillDaemon, Ends
    <2>2. Gone(d) \in Programs({0}) /\ Gone(d).stage = "gone"
        BY DEF Programs, Gone
    <2> QED
        BY <1>1, <2>1, <2>2, OneMoves DEF DaemonTyped
<1>7. CASE DaemonLeaves(d)
    <2> DEFINE r == [Gone(d) EXCEPT !.stage = "left", !.by = daemon[d].by]
    <2>1. r \in Programs({0}) /\ r.stage = "left"
        BY <1>2 DEF Programs, Gone
    <2>2. /\ daemon' = [daemon EXCEPT ![d] = r] /\ UNCHANGED command /\ daemon[d].stage = "running"
          /\ pidFile' \in {0, pidFile} /\ (pidFile' # pidFile => daemon[d].by \in {"start", "daemon"})
          /\ unwatched => unwatched'
        BY <1>7 DEF DaemonLeaves, RemovePid
    <2>3. unwatched' \in BOOLEAN
        BY <1>1, <1>7 DEF DaemonLeaves, RemovePid, DaemonTyped
    <2>4. ~unwatched' /\ pidFile' # pidFile => \A e \in Daemons : e = d
        BY <1>1, <2>2 DEF DaemonInv, OneIsSeen, Daemons, Lives
    <2> HIDE DEF r
    <2> QED
        BY <1>1, <2>1, <2>2, <2>3, <2>4, OneMoves
<1> QED
    BY <1>3, <1>4, <1>5, <1>6, <1>7

LEMMA DaemonStep ==
    ASSUME DaemonInv, [DaemonNext]_daemonVars
    PROVE  DaemonInv'
<1>1. CASE DaemonInstall \/ wizardBackgroundSync \/ UIInstall \/ UNCHANGED daemonVars
    BY <1>1 DEF DaemonInstall, wizardBackgroundSync, UIInstall, daemonVars, DaemonInv, DaemonTyped,
                SignalledIsTold, OneIsSeen, Daemons, Lives, Begins
<1>2. CASE \E c \in Shell : \/ DaemonStart(c) \/ SpawnDaemon(c) \/ WriteStarted(c)
                            \/ DaemonStop(c) \/ SignalDaemon(c) \/ RemoveStopped(c) \/ AbandonCommand(c)
    BY <1>2, StartKeeps, SpawnKeeps, WriteKeeps, StopKeeps, SignalKeeps, RemoveKeeps
<1>3. CASE \/ StartForeground \/ \E s \in Service : Supervise(s)
    BY <1>3, BesideKeeps
<1>4. CASE uninstallService \/ uninstallUIService \/ \E s \in Service : startService(s)
    BY <1>4, ServicesKeep
<1>5. CASE \E d \in DOMAIN daemon : \/ DaemonRun(d) \/ PollBegins(d) \/ PollFails(d) \/ PollSucceeds(d)
                                    \/ DaemonLeaves(d) \/ KillDaemon(d) \/ ServeConsole(d)
    BY <1>5, ProcessKeeps
<1> QED
    BY <1>1, <1>2, <1>3, <1>4, <1>5, LogInKeeps DEF DaemonNext

\* At most one daemon keeps a directory current, through starts and stops whose steps the others'
\* come between, signals that wait for the end of a poll, crashes, logins and the session manager:
\* but for the ways that the property names.
THEOREM OneDaemon == DaemonSpec => []DaemonAlone
<1>1. DaemonInit => DaemonInv
    <2> SUFFICES ASSUME DaemonInit PROVE DaemonInv
        OBVIOUS
    <2>1. << >> \in Seq(Programs({})) /\ DOMAIN << >> = {}
        OBVIOUS
    <2>2. /\ command \in [Shell -> ShellAt({0} \cup DOMAIN daemon)]
          /\ \A c \in Shell : command[c].at = "none"
        BY DEF DaemonInit, NoCommand, ShellAt
    <2>3. daemon = << >> /\ pidFile = 0 /\ unwatched = FALSE
        BY DEF DaemonInit
    <2>4. Daemons = {}
        BY <2>1, <2>3 DEF Daemons
    <2>5. DaemonTyped
        BY <2>1, <2>2, <2>3 DEF DaemonTyped
    <2>6. SignalledIsTold /\ OneIsSeen
        BY <2>2, <2>4 DEF SignalledIsTold, OneIsSeen, Begins
    <2> QED
        BY <2>5, <2>6 DEF DaemonInv
<1>2. DaemonInv /\ [DaemonNext]_daemonVars => DaemonInv'
    BY DaemonStep
<1>3. DaemonInv => DaemonAlone
    <2>1. ASSUME DaemonInv, ~unwatched PROVE Cardinality(Daemons) <= 1
        <3>1. CASE Daemons = {}
            BY <3>1, FS_EmptySet
        <3>2. ASSUME NEW d \in Daemons PROVE Cardinality(Daemons) <= 1
            <4>1. Daemons = {d}
                BY <2>1 DEF DaemonInv, OneIsSeen
            <4> QED
                BY <4>1, FS_Singleton
        <3> QED
            BY <3>1, <3>2
    <2> QED
        BY <2>1 DEF DaemonAlone
<1> QED
    BY <1>1, <1>2, <1>3, PTL DEF DaemonSpec

-----------------------------------------------------------------------------
(* Screens: what is acted on is what is shown *)

ScreenFields == {"tab", "drill", "space", "files", "file", "versions", "busy", "picking"}
ScreensTyped == screen \in {"server", "client"} /\ DOMAIN m = ScreenFields /\ m.busy \in BOOLEAN

\* The client has one space, and lists nothing else.
OneSpace ==
    screen = "client" =>
      /\ m.space = Here /\ m.files \in {None, Here} /\ (m.picking # NoFile => m.picking[1] = Here)
      /\ \A e \in flight : e.kind \in {"files", "versions"} => e.space = Here

\* On the server the files that are listed, and the choice that is open, are of the space that is
\* shown; below the list of spaces that is the one asked for last.
ServerShows ==
    screen = "server" /\ "late" \notin oddly =>
      /\ m.files # None => m.files = m.space
      /\ m.drill # 0 => m.space = asked
      /\ m.picking # NoFile => m.picking[1] = m.space /\ m.space = asked

ScreensInv ==
    /\ ScreensTyped /\ OneSpace /\ ServerShows /\ BusyEnds
    /\ m.drill = 2 => m.versions = FileAt(m.space, m.file)

\* A key that leaves the listings as they are.
LEMMA KeyPressed ==
    ASSUME ScreensInv, DOMAIN m' = DOMAIN m, m'.busy \in BOOLEAN, UNCHANGED <<screen, asked>>,
           m'.space = m.space, m'.files = m.files, m'.file = m.file, m'.versions = m.versions,
           m'.drill \in {0, m.drill}, m'.picking \in {m.picking, NoFile},
           oddly \subseteq oddly',
           screen = "client" => \A e \in flight' \ flight : e.kind \in {"files", "versions"} => e.space = Here,
           m'.busy /\ "empty" \notin oddly' => flight' # {}
    PROVE  ScreensInv'
BY DEF ScreensInv, ScreensTyped, OneSpace, ServerShows, BusyEnds, FileAt

\* What a busy screen holds.
LEMMA Busily ==
    ASSUME DOMAIN m = ScreenFields
    PROVE  LET w == [m EXCEPT !.busy = TRUE]
           IN  /\ DOMAIN w = DOMAIN m /\ w.busy = TRUE /\ w.space = m.space /\ w.files = m.files /\ w.file = m.file
               /\ w.versions = m.versions /\ w.drill = m.drill /\ w.picking = m.picking
BY DEF ScreenFields

LEMMA MsgFields ==
    ASSUME NEW kind, NEW s, NEW p
    PROVE  Msg(kind, s, p).kind = kind /\ Msg(kind, s, p).space = s
BY DEF Msg

\* A command of the client that runs: it lists the client's space, or lists nothing.
LEMMA Commands ==
    ASSUME ScreensInv, NEW e, Awaiting({e}), e.kind \in {"files", "versions"} => e.space = Here,
           DOMAIN m' = DOMAIN m, m'.busy \in BOOLEAN,
           m'.space = m.space, m'.files = m.files, m'.file = m.file, m'.versions = m.versions,
           m'.drill = m.drill, m'.picking \in {m.picking, NoFile}
    PROVE  ScreensInv'
<1>1. UNCHANGED <<screen, asked, oddly>> /\ flight' = flight \cup {e}
    BY DEF Awaiting, Commanded
<1> QED
    BY <1>1, KeyPressed

LEMMA WorkingCommand ==
    ASSUME ScreensInv, NEW e, Awaiting({e}), e.kind \in {"files", "versions"} => e.space = Here, Working(m)
    PROVE  ScreensInv'
<1>1. m' = [m EXCEPT !.busy = TRUE] /\ DOMAIN m = ScreenFields
    BY DEF Working, ScreensInv, ScreensTyped
<1> QED
    BY <1>1, Commands, Busily

LEMMA ClientKeys ==
    ASSUME ScreensInv,
           RefreshKey \/ ActionKey \/ GraphKey \/ launchEdit \/ filesEnter \/ filesPreviewCurrent
             \/ filesPreview \/ filesRestore
    PROVE  ScreensInv'
<1>1. CASE RefreshKey
    <2>1. Working(m) /\ (\/ Awaiting({Msg("versions", Here, m.file)}) \/ Awaiting({Msg("files", Here, None)})
                         \/ Awaiting({Msg("refresh", None, None)}))
        BY <1>1 DEF RefreshKey
    <2> QED
        BY <2>1, WorkingCommand, MsgFields
<1>2. CASE ActionKey \/ filesPreview \/ filesRestore
    <2>1. Working(m) /\ \E s, p : Awaiting({Msg("done", s, p)})
        BY <1>2 DEF ActionKey, filesPreview, filesRestore
    <2> QED
        BY <2>1, WorkingCommand, MsgFields
<1>3. CASE filesEnter \/ filesPreviewCurrent
    <2>1. Working(m) /\ (\/ NothingThere \/ Awaiting({Msg("done", None, None)})
                         \/ \E p \in Listed : Awaiting({Msg("versions", Here, p)}))
        BY <1>3 DEF filesEnter, filesPreviewCurrent
    <2>2. CASE NothingThere
        <3>1. m' = [m EXCEPT !.busy = TRUE] /\ DOMAIN m = ScreenFields
            BY <2>1 DEF Working, ScreensInv, ScreensTyped
        <3> QED
            BY <2>2, <3>1, Busily, KeyPressed DEF NothingThere
    <2>3. ASSUME NEW e, Awaiting({e}), e.kind \in {"files", "versions"} => e.space = Here
          PROVE  ScreensInv'
        BY <2>1, <2>3, WorkingCommand
    <2>4. Msg("done", None, None).kind = "done" /\ \A p : Msg("versions", Here, p).space = Here
        BY MsgFields
    <2> QED
        BY <2>1, <2>2, <2>3, <2>4
<1>4. CASE GraphKey
    <2>1. Awaiting({Msg("graph", None, None)}) /\ m' = [[m EXCEPT !.tab = "graph"] EXCEPT !.busy = TRUE]
        BY <1>4 DEF GraphKey, Working
    <2>2. DOMAIN m = ScreenFields
        BY DEF ScreensInv, ScreensTyped
    <2>3. /\ DOMAIN m' = DOMAIN m /\ m'.busy = TRUE /\ m'.space = m.space /\ m'.files = m.files
          /\ m'.file = m.file /\ m'.versions = m.versions /\ m'.drill = m.drill /\ m'.picking = m.picking
        BY <2>1, <2>2 DEF ScreenFields
    <2>4. Msg("graph", None, None).kind = "graph"
        BY MsgFields
    <2> QED
        BY <2>1, <2>3, <2>4, Commands
<1>5. CASE launchEdit
    <2>1. Awaiting({Msg("saved", Here, m.picking[2])}) /\ m' = [m EXCEPT !.busy = TRUE, !.picking = NoFile]
        BY <1>5 DEF launchEdit
    <2>2. DOMAIN m = ScreenFields
        BY DEF ScreensInv, ScreensTyped
    <2>3. /\ DOMAIN m' = DOMAIN m /\ m'.busy = TRUE /\ m'.space = m.space /\ m'.files = m.files
          /\ m'.file = m.file /\ m'.versions = m.versions /\ m'.drill = m.drill /\ m'.picking = NoFile
        BY <2>1, <2>2 DEF ScreenFields
    <2>4. Msg("saved", Here, m.picking[2]).kind = "saved"
        BY MsgFields
    <2> QED
        BY <2>1, <2>3, <2>4, Commands
<1> QED
    BY <1>1, <1>2, <1>3, <1>4, <1>5

LEMMA ScreensStep ==
    ASSUME ScreensInv, [ScreensNext]_screenVars
    PROVE  ScreensInv'
<1> USE DEF ScreensInv, ScreensTyped, OneSpace, ServerShows, BusyEnds, ScreenFields, Idly, Awaiting, Commanded, Working,
            NothingThere, FileAt, Msg, OnServer, OnClient
<1>1. CASE KeyRefresh
    BY <1>1 DEF KeyRefresh
<1>2. CASE KeyAction
    BY <1>2 DEF KeyAction
<1>3. CASE spacePreview
    BY <1>3 DEF spacePreview
<1>4. CASE spaceRestore
    BY <1>4 DEF spaceRestore
<1>5. CASE KeyTab
    <2>1. /\ DOMAIN m' = DOMAIN m /\ m'.busy = m.busy /\ m'.space = m.space /\ m'.files = m.files
          /\ m'.file = m.file /\ m'.versions = m.versions /\ m'.drill \in {0, m.drill} /\ m'.picking = m.picking
        BY <1>5 DEF KeyTab
    <2>2. UNCHANGED <<screen, asked, oddly, flight>>
        BY <1>5 DEF KeyTab
    <2> QED
        BY <2>1, <2>2, KeyPressed
<1>6. CASE KeyEsc
    BY <1>6 DEF KeyEsc, Back, NoFile
<1>7. CASE spaceEnter
    BY <1>7 DEF spaceEnter
<1>8. CASE begin
    <2>1. CASE /\ m' = [m EXCEPT !.busy = TRUE] /\ UNCHANGED <<screen, asked, flight>>
               /\ oddly' = oddly \cup {"empty"}
        BY <2>1, Busily, KeyPressed
    <2>2. ASSUME NEW p \in Listed, m' = [m EXCEPT !.picking = <<m.files, p>>], Idly, screen = "server", m.drill = 1
          PROVE  ScreensInv'
        <3>1. /\ DOMAIN m' = DOMAIN m /\ m'.busy = m.busy /\ m'.space = m.space /\ m'.files = m.files
              /\ m'.file = m.file /\ m'.versions = m.versions /\ m'.drill = m.drill
              /\ m'.picking = <<m.files, p>> /\ m'.picking[1] = m.files
            BY <2>2
        <3>2. m.files # None
            BY <2>2 DEF Listed
        <3> QED
            BY <2>2, <3>1, <3>2
    <2> QED
        BY <1>8, <2>1, <2>2 DEF begin
<1>9. CASE KeyVersions
    BY <1>9 DEF KeyVersions
<1>10. CASE launchSpaceEdit
    BY <1>10 DEF launchSpaceEdit
<1>11. CASE RefreshKey \/ ActionKey \/ GraphKey \/ launchEdit \/ filesEnter \/ filesPreviewCurrent
             \/ filesPreview \/ filesRestore
    BY <1>11, ClientKeys
<1>14. CASE TabKey
    BY <1>14 DEF TabKey
<1>15. CASE FilesKey
    BY <1>15 DEF FilesKey
<1>16. CASE EscKey
    BY <1>16 DEF EscKey, NoFile
<1>17. CASE EnterKey
    BY <1>17 DEF EnterKey, Listed
<1>23. ASSUME NEW e \in flight, refreshMsg(e)
       PROVE  ScreensInv'
    BY <1>23 DEF refreshMsg, Arrives, Then
<1>24. ASSUME NEW e \in flight, actionDoneMsg(e)
       PROVE  ScreensInv'
    BY <1>24 DEF actionDoneMsg, Arrives, Then
<1>25. ASSUME NEW e \in flight, graphLoadedMsg(e)
       PROVE  ScreensInv'
    BY <1>25 DEF graphLoadedMsg, Arrives, Then
<1>26. ASSUME NEW e \in flight, spaceFilesMsg(e)
       PROVE  ScreensInv'
    BY <1>26 DEF spaceFilesMsg, Arrives, Then, Odd, Outdated, ShowFiles
<1>27. ASSUME NEW e \in flight, spaceVersionsMsg(e)
       PROVE  ScreensInv'
    BY <1>27 DEF spaceVersionsMsg, Arrives, Then, Odd, Outdated
<1>28. ASSUME NEW e \in flight, filesLoadedMsg(e)
       PROVE  ScreensInv'
    BY <1>28 DEF filesLoadedMsg, Arrives, Then
<1>29. ASSUME NEW e \in flight, fileVersionsMsg(e)
       PROVE  ScreensInv'
    BY <1>29 DEF fileVersionsMsg, Arrives, Then
<1>30. ASSUME NEW e \in flight, ListingFails(e)
       PROVE  ScreensInv'
    BY <1>30 DEF ListingFails, Then, Failed
<1>31. ASSUME NEW e \in flight, editSavedMsg(e)
       PROVE  ScreensInv'
    BY <1>31 DEF editSavedMsg, Arrives, Then, reloadSpaceFiles
<1>32. CASE UNCHANGED screenVars
    BY <1>32 DEF screenVars
<1> QED
    BY <1>1, <1>2, <1>3, <1>4, <1>5, <1>6, <1>7, <1>8, <1>9, <1>10, <1>11, <1>14, <1>15, <1>16, <1>17, <1>23, <1>24, <1>25, <1>26, <1>27, <1>28, <1>29, <1>30, <1>31, <1>32
    DEF ScreensNext

\* Both terminal screens act on the space and the file that they show, and never stay busy with no
\* command running, in whatever order the messages of the commands come.
THEOREM KeepsUp == ScreensSpec => []ScreenKeepsUp
<1>1. ScreensInit => ScreensInv
    BY DEF ScreensInit, newModel, ScreensInv, ScreensTyped, OneSpace, ServerShows, BusyEnds, ScreenFields, NoFile, FileAt
<1>2. ScreensInv => ScreenKeepsUp
    BY DEF ScreensInv, ScreensTyped, OneSpace, ServerShows, ScreenKeepsUp, ActsOnWhatIsShown
<1>3. ScreensInv /\ [ScreensNext]_screenVars => ScreensInv'
    BY ScreensStep
<1> QED
    BY <1>1, <1>2, <1>3, PTL DEF ScreensSpec

-----------------------------------------------------------------------------
(* Desk: an edit is kept *)

Bodies == Draft \cup {NoText}
Sessions == [at : {"editor", "finish", "commit", "mirror"}, shown : Bodies, over : Nat, text : Bodies,
             waits : BOOLEAN, mirror : BOOLEAN, wrote : Nat]
DeskTyped ==
    /\ version \in Seq(Bodies) /\ saved \in Seq(Bodies) /\ Len(saved) = Len(version)
    /\ live = Len(version) /\ tree \in Bodies
    /\ desk \in [Desk -> Sessions \cup {Closed}]

\* A session holds the version it was opened on, and, once it has saved, the one it wrote.
HoldsVersion ==
    \A d \in Desk : desk[d] # Closed =>
      /\ desk[d].over <= Len(version)
      /\ desk[d].shown = IF desk[d].over = 0 THEN NoText ELSE version[desk[d].over]
      /\ desk[d].at = "mirror" => desk[d].wrote \in DOMAIN version /\ version[desk[d].wrote] = desk[d].text

\* The tree is the current version, or the session that wrote that one is about to mirror it.
MirrorComing ==
    adrift = {} /\ live # 0 =>
      \/ tree = version[live]
      \/ \E d \in Desk : desk[d].at = "mirror" /\ desk[d].wrote = live

\* With editors that can be made to wait, every session's editor is waited for.
EditorsWait ==
    Environment \cup Installed \subseteq Terminal \cup Known =>
      /\ vanished = {} /\ remembered \in {"none"} \cup Environment \cup Installed
      /\ \A d \in Desk : desk[d] # Closed => desk[d].waits

DeskInv == DeskTyped /\ HoldsVersion /\ SavedOverOpened /\ MirrorComing /\ EditorsWait

EditorsKnown == Environment \cup Installed \subseteq Terminal \cup Known

LEMMA CurrentBody ==
    ASSUME DeskTyped
    PROVE  /\ live \in Nat /\ currentBody \in Bodies /\ (live # 0 => live \in DOMAIN version)
           /\ currentBody = IF live = 0 THEN NoText ELSE version[live]
<1>1. live \in Nat /\ (live # 0 => live \in DOMAIN version)
    BY DEF DeskTyped
<1>2. NoText \in Bodies
    BY DEF Bodies
<1> QED
    BY <1>1, <1>2 DEF DeskTyped, currentBody

\* A session that is opened, goes on or ends without touching the log or the tree.
LEMMA SessionGoesOn ==
    ASSUME DeskInv, NEW d \in Desk, NEW s \in Sessions \cup {Closed},
           desk' = [desk EXCEPT ![d] = s], UNCHANGED <<version, live, saved, tree>>,
           adrift \subseteq adrift',
           desk[d].at = "mirror" => adrift' # {},
           s # Closed => /\ s.over <= Len(version) /\ s.at # "mirror"
                         /\ s.shown = IF s.over = 0 THEN NoText ELSE version[s.over],
           EditorsKnown => /\ s # Closed => s.waits
                           /\ vanished' = {} /\ remembered' \in {"none"} \cup Environment \cup Installed
    PROVE  DeskInv'
<1> USE DEF DeskInv
<1>1. desk' \in [Desk -> Sessions \cup {Closed}] /\ \A c \in Desk : desk'[c] = IF c = d THEN s ELSE desk[c]
    BY DEF DeskTyped
<1>2. DeskTyped'
    BY <1>1 DEF DeskTyped
<1>3. HoldsVersion'
    BY <1>1 DEF HoldsVersion
<1>4. MirrorComing'
    BY <1>1 DEF MirrorComing
<1>5. SavedOverOpened'
    BY DEF SavedOverOpened
<1>6. EditorsWait'
  <2>1. CASE EditorsKnown
    <3>1. \A c \in Desk : desk'[c] # Closed => desk'[c].waits
        BY <1>1, <2>1 DEF EditorsWait, EditorsKnown
    <3> QED
        BY <2>1, <3>1 DEF EditorsWait, EditorsKnown
  <2> QED
      BY <2>1 DEF EditorsWait, EditorsKnown
<1> QED
    BY <1>2, <1>3, <1>4, <1>5, <1>6

\* Every editor that may be chosen is one that is known.
LEMMA Editors ==
    ASSUME EditorsWait, EditorsKnown
    PROVE  /\ \A e \in resolveEditor : e.waits
           /\ \A e \in editorsFor : e.waits /\ e.id \in Environment \cup Installed
<1> DEFINE Entry(x) == [id |-> x, waits |-> Waits(x)]
           Named == Environment \cup Installed
<1>1. \A x \in Named : Waits(x)
    BY DEF Waits, EditorsKnown
<1>2. \A x : Entry(x).id = x /\ (Entry(x).waits <=> Waits(x))
    OBVIOUS
<1>3. /\ \A e \in Detect : \E x \in Named : e = Entry(x)
      /\ \A e \in resolveEditor : \E x \in Named : e = Entry(x)
    BY DEF Detect, resolveEditor, FromEnvironment, Lookup
<1>4. remembered # "none" => remembered \in Named
    BY DEF EditorsWait, EditorsKnown
<1>5. \A e \in editorsFor : \E x \in Named : e = Entry(x)
    BY <1>3, <1>4 DEF editorsFor, Lookup
<1> HIDE DEF Entry, Named
<1>6. \A e : (\E x \in Named : e = Entry(x)) => e.waits /\ e.id \in Named
    BY <1>1, <1>2, Zenon
<1>7. /\ \A e \in resolveEditor : e.waits
      /\ \A e \in editorsFor : e.waits /\ e.id \in Named
    BY <1>3, <1>5, <1>6, Zenon
<1> QED
    BY <1>7 DEF Named

LEMMA EditorWaits == \A e \in resolveEditor \cup editorsFor : e.waits \in BOOLEAN
<1> DEFINE Entry(x) == [id |-> x, waits |-> Waits(x)]
<1>1. \A x : Entry(x).waits = Waits(x)
    OBVIOUS
<1>2. \A x : Waits(x) \in BOOLEAN
    BY DEF Waits
<1>3. \A e \in resolveEditor \cup editorsFor : \E x : e = Entry(x)
    BY DEF editorsFor, Detect, resolveEditor, FromEnvironment, Lookup
<1> HIDE DEF Entry
<1> QED
    BY <1>1, <1>2, <1>3, Zenon

LEMMA CheckoutKeeps ==
    ASSUME DeskInv, NEW d \in Desk, NEW e, Checkout(d, e), e.waits \in BOOLEAN,
           EditorsKnown => e.waits /\ remembered' \in {"none"} \cup Environment \cup Installed
    PROVE  DeskInv'
<1> DEFINE s == [at |-> "editor", shown |-> currentBody, over |-> live, text |-> currentBody,
                 waits |-> e.waits, mirror |-> TRUE, wrote |-> 0]
<1>1. /\ live \in Nat /\ live <= Len(version) /\ currentBody \in Bodies
      /\ currentBody = IF live = 0 THEN NoText ELSE version[live]
    BY CurrentBody DEF DeskInv, DeskTyped
<1>2. s \in Sessions
    BY <1>1 DEF Sessions
<1>3. desk' = [desk EXCEPT ![d] = s] /\ desk[d].at # "mirror"
      /\ UNCHANGED <<version, live, saved, tree, adrift, vanished>>
    BY DEF Checkout, AtStage, logged
<1>4. s.over = live /\ s.at # "mirror" /\ s.shown = currentBody /\ s.waits = e.waits
    OBVIOUS
<1>5. EditorsKnown => vanished' = {}
    BY <1>3 DEF DeskInv, EditorsWait, EditorsKnown
<1>6. s # Closed => /\ s.over <= Len(version) /\ s.at # "mirror"
                    /\ s.shown = IF s.over = 0 THEN NoText ELSE version[s.over]
    BY <1>1, <1>4
<1>7. EditorsKnown => /\ s # Closed => s.waits
                      /\ vanished' = {} /\ remembered' \in {"none"} \cup Environment \cup Installed
    BY <1>4, <1>5
<1> HIDE DEF s
<1> QED
    BY <1>2, <1>3, <1>6, <1>7, SessionGoesOn

LEMMA PutsKeeps ==
    ASSUME DeskInv, NEW d \in Desk, NEW text \in Bodies, Puts(d, text, TRUE)
    PROVE  DeskInv'
<1> DEFINE s == [at |-> "commit", shown |-> currentBody, over |-> live, text |-> text,
                 waits |-> TRUE, mirror |-> TRUE, wrote |-> 0]
<1>1. /\ live \in Nat /\ live <= Len(version) /\ currentBody \in Bodies
      /\ currentBody = IF live = 0 THEN NoText ELSE version[live]
    BY CurrentBody DEF DeskInv, DeskTyped
<1>2. s \in Sessions
    BY <1>1 DEF Sessions
<1>3. desk' = [desk EXCEPT ![d] = s] /\ desk[d].at # "mirror"
      /\ UNCHANGED <<version, live, saved, tree, adrift, vanished, remembered>>
    BY DEF Puts, AtStage, logged
<1>4. s.over = live /\ s.at # "mirror" /\ s.shown = currentBody /\ s.waits
    OBVIOUS
<1>5. s # Closed => /\ s.over <= Len(version) /\ s.at # "mirror"
                    /\ s.shown = IF s.over = 0 THEN NoText ELSE version[s.over]
    BY <1>1, <1>4
<1>6. EditorsKnown => /\ s # Closed => s.waits
                      /\ vanished' = {} /\ remembered' \in {"none"} \cup Environment \cup Installed
    BY <1>3, <1>4 DEF DeskInv, EditorsWait, EditorsKnown
<1> HIDE DEF s
<1> QED
    BY <1>2, <1>3, <1>5, <1>6, SessionGoesOn

\* A session that goes on is the same but for how far it is, what was typed, and whether it mirrors.
LEMMA MovesOn ==
    ASSUME DeskInv, NEW d \in Desk, desk[d].at \in {"editor", "finish"},
           NEW at \in {"finish", "commit"}, NEW text \in Bodies, NEW mirror \in BOOLEAN,
           desk' = [desk EXCEPT ![d] = [desk[d] EXCEPT !.at = at, !.text = text, !.mirror = mirror]],
           UNCHANGED <<version, live, saved, tree, adrift, remembered>>,
           EditorsKnown => vanished' = {}
    PROVE  DeskInv'
<1> DEFINE s == [desk[d] EXCEPT !.at = at, !.text = text, !.mirror = mirror]
<1>1. desk[d] # Closed /\ desk[d] \in Sessions
    BY DEF DeskInv, DeskTyped, Closed
<1>2. s \in Sessions
    BY <1>1 DEF Sessions
<1>3. s.at = at /\ s.over = desk[d].over /\ s.shown = desk[d].shown /\ s.waits = desk[d].waits
    BY <1>1 DEF Sessions
<1>4. s # Closed => /\ s.over <= Len(version) /\ s.at # "mirror"
                    /\ s.shown = IF s.over = 0 THEN NoText ELSE version[s.over]
    BY <1>1, <1>3 DEF DeskInv, HoldsVersion
<1>5. EditorsKnown => /\ s # Closed => s.waits
                      /\ vanished' = {} /\ remembered' \in {"none"} \cup Environment \cup Installed
    BY <1>1, <1>3 DEF DeskInv, EditorsWait, EditorsKnown
<1>6. desk[d].at # "mirror" /\ adrift \subseteq adrift'
    OBVIOUS
<1>7. desk' = [desk EXCEPT ![d] = s] /\ UNCHANGED <<version, live, saved, tree>>
    OBVIOUS
<1> HIDE DEF s
<1> QED
    BY <1>2, <1>4, <1>5, <1>6, <1>7, SessionGoesOn

LEMMA Closes ==
    ASSUME DeskInv, NEW d \in Desk, Close(d), UNCHANGED <<version, live, saved, tree, remembered, vanished>>,
           adrift \subseteq adrift', desk[d].at = "mirror" => adrift' # {}
    PROVE  DeskInv'
<1>1. EditorsKnown => vanished' = {} /\ remembered' \in {"none"} \cup Environment \cup Installed
    BY DEF DeskInv, EditorsWait, EditorsKnown
<1> QED
    BY <1>1, SessionGoesOn DEF Close

LEMMA Records ==
    ASSUME DeskInv, NEW d \in Desk, desk[d].at = "commit", desk[d].over = live,
           version' = Append(version, desk[d].text), live' = Len(version) + 1, saved' = Append(saved, desk[d].shown),
           \/ /\ desk' = [desk EXCEPT ![d] = [desk[d] EXCEPT !.at = "mirror", !.wrote = Len(version) + 1]]
              /\ UNCHANGED adrift
           \/ Close(d) /\ adrift' # {},
           UNCHANGED <<tree, remembered, vanished>>
    PROVE  DeskInv'
<1> DEFINE n == Len(version) + 1
           s == [desk[d] EXCEPT !.at = "mirror", !.wrote = n]
<1> USE DEF DeskInv
<1>1. desk[d] # Closed /\ desk[d] \in Sessions /\ Len(version) \in Nat
    BY DEF DeskTyped, Closed
<1>13. n \in Nat
    BY <1>1
<1>2. s \in Sessions
  <2> HIDE DEF n, DeskInv
  <2> QED
      BY <1>1, <1>13 DEF Sessions
<1>3. /\ s.at = "mirror" /\ s.wrote = n /\ s.text = desk[d].text
      /\ s.over = desk[d].over /\ s.shown = desk[d].shown /\ s.waits = desk[d].waits
    BY <1>1 DEF Sessions
<1>4. desk[d].text \in Bodies /\ desk[d].shown \in Bodies
    BY <1>1 DEF Sessions
<1>5. /\ version' \in Seq(Bodies) /\ saved' \in Seq(Bodies) /\ Len(version') = n /\ Len(saved') = n
      /\ \A k \in DOMAIN version : k \in DOMAIN version' /\ version'[k] = version[k] /\ saved'[k] = saved[k]
      /\ version'[n] = desk[d].text /\ saved'[n] = desk[d].shown /\ DOMAIN version' = 1..n
    BY <1>1, <1>4 DEF DeskTyped
<1>14. \/ desk' = [desk EXCEPT ![d] = s] /\ UNCHANGED adrift
       \/ desk' = [desk EXCEPT ![d] = Closed] /\ adrift' # {}
    BY DEF Close
<1>6. /\ \A c \in Desk : c # d => desk'[c] = desk[c]
      /\ \/ desk'[d] = s /\ UNCHANGED adrift
         \/ desk'[d] = Closed /\ adrift' # {}
  <2> HIDE DEF s
  <2> QED
      BY <1>14 DEF DeskTyped
<1>7. desk' \in [Desk -> Sessions \cup {Closed}]
  <2> HIDE DEF s
  <2> QED
      BY <1>2, <1>14 DEF DeskTyped
<1> HIDE DEF s
<1>8. DeskTyped'
    BY <1>5, <1>7 DEF DeskTyped
<1>9. HoldsVersion'
  <2>1. \A c \in Desk : desk[c] # Closed =>
          /\ desk[c].over \in Nat /\ desk[c].over <= Len(version) /\ desk[c].over <= Len(version')
          /\ desk[c].shown = IF desk[c].over = 0 THEN NoText ELSE version'[desk[c].over]
          /\ desk[c].at = "mirror" => desk[c].wrote \in DOMAIN version' /\ version'[desk[c].wrote] = desk[c].text
    <3> TAKE c \in Desk
    <3>1. desk[c] # Closed => desk[c] \in Sessions
        BY DEF DeskTyped
    <3>2. desk[c] # Closed => desk[c].over \in Nat
        BY <3>1 DEF Sessions
    <3>3. DOMAIN version = 1..Len(version)
        BY DEF DeskTyped
    <3> QED
        BY <1>1, <1>5, <3>2, <3>3 DEF HoldsVersion
  <2>2. /\ s.over <= Len(version') /\ s.wrote \in DOMAIN version' /\ version'[s.wrote] = s.text
        /\ s.shown = IF s.over = 0 THEN NoText ELSE version'[s.over]
      BY <1>1, <1>3, <1>5, <2>1
  <2> SUFFICES ASSUME NEW c \in Desk, desk'[c] # Closed
               PROVE  /\ desk'[c].over <= Len(version')
                      /\ desk'[c].shown = IF desk'[c].over = 0 THEN NoText ELSE version'[desk'[c].over]
                      /\ desk'[c].at = "mirror" =>
                            desk'[c].wrote \in DOMAIN version' /\ version'[desk'[c].wrote] = desk'[c].text
      BY DEF HoldsVersion
  <2>3. CASE c = d
      BY <1>6, <2>2, <2>3
  <2>4. CASE c # d
      BY <1>6, <2>1, <2>4
  <2> QED
      BY <2>3, <2>4
<1>10. SavedOverOpened'
  <2>1. n # 1 => desk[d].shown = version[Len(version)]
      BY <1>1 DEF HoldsVersion, DeskTyped
  <2>2. DOMAIN version = 1..Len(version)
      BY DEF DeskTyped
  <2>3. \A k \in 2..n : k - 1 \in DOMAIN version /\ version'[k - 1] = version[k - 1]
      BY <1>1, <1>5, <2>2
  <2> HIDE DEF DeskInv
  <2>5. ASSUME NEW k \in 2..Len(version) PROVE saved'[k] = version'[k - 1]
    <3>1. k \in DOMAIN version \ {1} /\ k - 1 \in DOMAIN version
        BY <1>1, <2>2
    <3>2. saved[k] = version[k - 1]
        BY <3>1 DEF DeskInv, SavedOverOpened
    <3> QED
        BY <1>5, <3>1, <3>2
  <2>6. ASSUME n # 1 PROVE saved'[n] = version'[n - 1]
    <3>1. Len(version) \in DOMAIN version /\ n - 1 = Len(version)
        BY <1>1, <2>2, <2>6
    <3> QED
        BY <1>5, <2>1, <2>6, <3>1
  <2>4. \A k \in 2..n : saved'[k] = version'[k - 1]
    <3> TAKE k \in 2..n
    <3>1. k \in 2..Len(version) \/ (k = n /\ n # 1)
        BY <1>1
    <3> QED
        BY <2>5, <2>6, <3>1
  <2> QED
      BY <1>1, <1>5, <2>4 DEF SavedOverOpened
<1>11. MirrorComing'
    BY <1>3, <1>6 DEF MirrorComing
<1>12. EditorsWait'
  <2>1. EditorsKnown => \A c \in Desk : desk'[c] # Closed => desk'[c].waits
      BY <1>1, <1>3, <1>6 DEF EditorsWait, EditorsKnown
  <2> QED
      BY <2>1 DEF EditorsWait, EditorsKnown
<1> QED
    BY <1>8, <1>9, <1>10, <1>11, <1>12

LEMMA DeskStep ==
    ASSUME DeskInv, [DeskNext]_deskVars
    PROVE  DeskInv'
<1>1. CASE handleAuth
    BY <1>1 DEF handleAuth, logged, DeskInv, DeskTyped, HoldsVersion, SavedOverOpened, MirrorComing, EditorsWait
<1>2. CASE seedFileLog
  <2>1. /\ version = <<>> /\ version' = <<tree>> /\ live' = 1 /\ saved' = <<tree>>
        /\ UNCHANGED <<tree, desk, remembered, vanished>>
      BY <1>2 DEF seedFileLog
  <2>2. tree \in Bodies /\ Len(version) = 0 /\ DOMAIN version = {}
      BY <2>1 DEF DeskInv, DeskTyped
  <2>3. DeskTyped'
      BY <2>1, <2>2 DEF DeskInv, DeskTyped
  <2>4. HoldsVersion'
    <3> SUFFICES ASSUME NEW d \in Desk, desk[d] # Closed
                 PROVE  /\ desk[d].over = 0 /\ desk[d].shown = NoText /\ desk[d].at # "mirror"
        BY <2>1 DEF HoldsVersion
    <3>1. desk[d] \in Sessions
        BY DEF DeskInv, DeskTyped
    <3>2. desk[d].over = 0
        BY <2>2, <3>1 DEF DeskInv, HoldsVersion, Sessions
    <3> QED
        BY <2>2, <3>2 DEF DeskInv, HoldsVersion
  <2>5. SavedOverOpened' /\ MirrorComing'
      BY <2>1 DEF SavedOverOpened, MirrorComing
  <2> QED
      BY <2>1, <2>3, <2>4, <2>5 DEF DeskInv, EditorsWait
<1>3. CASE EditDirectory
  <2>1. /\ UNCHANGED <<version, live, saved, desk, remembered, vanished>> /\ tree' \in Bodies /\ adrift' # {}
      BY <1>3 DEF EditDirectory, logged, Bodies
  <2> QED
      BY <2>1 DEF DeskInv, DeskTyped, HoldsVersion, SavedOverOpened, MirrorComing, EditorsWait
<1>4. ASSUME NEW d \in Desk, EditCommand(d)
      PROVE  DeskInv'
  <2>1. PICK e \in resolveEditor : Checkout(d, e)
      BY <1>4 DEF EditCommand
  <2>2. e.waits \in BOOLEAN
      BY EditorWaits
  <2>3. EditorsKnown => e.waits /\ remembered' \in {"none"} \cup Environment \cup Installed
    <3> SUFFICES ASSUME EditorsKnown PROVE e.waits /\ remembered' \in {"none"} \cup Environment \cup Installed
        OBVIOUS
    <3>1. EditorsWait
        BY DEF DeskInv
    <3>2. e.waits
        BY <3>1, Editors
    <3>3. remembered' = remembered
        BY <1>4 DEF EditCommand
    <3> QED
        BY <3>1, <3>2, <3>3 DEF EditorsWait, EditorsKnown
  <2> QED
      BY <2>1, <2>2, <2>3, CheckoutKeeps
<1>5. ASSUME NEW d \in Desk, launch(d)
      PROVE  DeskInv'
  <2>1. PICK e \in editorsFor : Checkout(d, e) /\ remembered' = e.id
      BY <1>5 DEF launch
  <2>2. e.waits \in BOOLEAN
      BY EditorWaits
  <2>3. EditorsKnown => e.waits /\ remembered' \in {"none"} \cup Environment \cup Installed
      BY <2>1, Editors DEF DeskInv
  <2> QED
      BY <2>1, <2>2, <2>3, CheckoutKeeps
<1>6. ASSUME NEW d \in Desk, renderFile(d)
      PROVE  DeskInv'
  <2> DEFINE e == [waits |-> TRUE]
  <2>1. Checkout(d, e) /\ remembered' = remembered
      BY <1>6 DEF renderFile
  <2>2. e.waits = TRUE
      OBVIOUS
  <2>3. EditorsKnown => e.waits /\ remembered' \in {"none"} \cup Environment \cup Installed
      BY <2>1, <2>2 DEF DeskInv, EditorsWait, EditorsKnown
  <2> HIDE DEF e
  <2> QED
      BY <2>1, <2>2, <2>3, CheckoutKeeps
<1>7. ASSUME NEW d \in Desk, Type(d)
      PROVE  DeskInv'
  <2>1. desk[d].at = "editor" /\ UNCHANGED <<version, live, saved, tree, adrift, remembered>>
      BY <1>7 DEF Type, AtStage, logged
  <2>2. desk[d] \in Sessions /\ desk[d] # Closed
      BY <2>1 DEF DeskInv, DeskTyped, Closed
  <2> DEFINE typed(t) == [desk[d] EXCEPT !.at = "finish", !.text = t]
             untyped == [desk[d] EXCEPT !.at = "finish"]
  <2>7. desk[d].shown \in Bodies /\ Draft \subseteq Bodies
      BY <2>2 DEF Sessions, Bodies
  <2>8. PICK t \in Draft \cup {desk[d].shown} :
          IF desk[d].waits
          THEN desk' = [desk EXCEPT ![d] = typed(t)] /\ UNCHANGED vanished
          ELSE desk' = [desk EXCEPT ![d] = untyped]
      BY <1>7 DEF Type
  <2>3. \/ /\ desk[d].waits /\ vanished' = vanished
           /\ desk' = [desk EXCEPT ![d] = [desk[d] EXCEPT !.at = "finish", !.text = t]]
        \/ ~desk[d].waits /\ desk' = [desk EXCEPT ![d] = [desk[d] EXCEPT !.at = "finish"]]
      BY <2>8
  <2>4. EditorsKnown => vanished' = {}
      BY <2>2, <2>3 DEF DeskInv, EditorsWait, EditorsKnown
  <2>9. t \in Bodies
      BY <2>7
  <2>5. PICK u \in Bodies : desk' = [desk EXCEPT ![d] = [desk[d] EXCEPT !.at = "finish", !.text = u,
                                                                          !.mirror = desk[d].mirror]]
    <3>1. CASE desk[d].waits
      <4>1. [desk[d] EXCEPT !.at = "finish", !.text = t]
            = [desk[d] EXCEPT !.at = "finish", !.text = t, !.mirror = desk[d].mirror]
          BY <2>2 DEF Sessions
      <4> QED
          BY <2>3, <2>9, <3>1, <4>1
    <3>2. CASE ~desk[d].waits
      <4>1. [desk[d] EXCEPT !.at = "finish"]
            = [desk[d] EXCEPT !.at = "finish", !.text = desk[d].text, !.mirror = desk[d].mirror]
          BY <2>2 DEF Sessions
      <4>2. desk[d].text \in Bodies
          BY <2>2 DEF Sessions
      <4> QED
          BY <2>3, <3>2, <4>1, <4>2
    <3> QED
        BY <3>1, <3>2
  <2>6. desk[d].mirror \in BOOLEAN
      BY <2>2 DEF Sessions
  <2> QED
      BY <2>1, <2>4, <2>5, <2>6, MovesOn
<1>8. ASSUME NEW d \in Desk, LeaveEditor(d)
      PROVE  DeskInv'
    BY <1>8, Closes DEF LeaveEditor, AtStage, logged
<1>9. ASSUME NEW d \in Desk, FinishEdit(d)
      PROVE  DeskInv'
  <2>1. /\ desk[d].at = "finish" /\ UNCHANGED <<version, live, saved, tree, adrift, remembered, vanished>>
        /\ Close(d) \/ Move(d, "commit")
      BY <1>9 DEF FinishEdit, AtStage, logged
  <2>2. CASE Close(d)
      BY <2>1, <2>2, Closes
  <2>3. CASE Move(d, "commit")
    <3>1. desk[d] \in Sessions
        BY <2>1 DEF DeskInv, DeskTyped, Closed
    <3>2. /\ desk[d].mirror \in BOOLEAN /\ desk[d].text \in Bodies
          /\ desk' = [desk EXCEPT ![d] = [desk[d] EXCEPT !.at = "commit", !.text = desk[d].text,
                                                          !.mirror = desk[d].mirror]]
        BY <2>3, <3>1 DEF Move, Sessions
    <3>3. EditorsKnown => vanished' = {}
        BY <2>1 DEF DeskInv, EditorsWait, EditorsKnown
    <3> QED
        BY <2>1, <3>2, <3>3, MovesOn
  <2> QED
      BY <2>1, <2>2, <2>3
<1>10. ASSUME NEW d \in Desk, PutCommand(d) \/ RevertCommand(d) \/ revertFileVersion(d)
      PROVE  DeskInv'
  <2>3. version \in Seq(Bodies) /\ Draft \subseteq Bodies
      BY DEF DeskInv, DeskTyped, Bodies
  <2>2. \A k \in DOMAIN version : version[k] \in Bodies
      BY <2>3
  <2>1. PICK t \in Bodies : Puts(d, t, TRUE)
      BY <1>10, <2>2, <2>3 DEF PutCommand, RevertCommand, revertFileVersion
  <2> QED
      BY <2>1, PutsKeeps
<1>11. ASSUME NEW d \in Desk, Restore(d)
      PROVE  DeskInv'
  <2>1. desk[d].at = "finish" /\ UNCHANGED <<version, live, saved, tree, adrift, remembered, vanished>>
      BY <1>11 DEF Restore, AtStage, logged
  <2>2. desk[d] \in Sessions
      BY <2>1 DEF DeskInv, DeskTyped, Closed
  <2> DEFINE back(k) == [desk[d] EXCEPT !.at = "commit", !.text = version[k], !.mirror = FALSE]
  <2>3. PICK k \in DOMAIN version : desk' = [desk EXCEPT ![d] = back(k)]
      BY <1>11 DEF Restore
  <2>4. version[k] \in Bodies /\ (EditorsKnown => vanished' = {})
      BY <2>1 DEF DeskInv, DeskTyped, EditorsWait, EditorsKnown
  <2> QED
      BY <2>1, <2>3, <2>4, MovesOn
<1>12. ASSUME NEW d \in Desk, commitBody(d)
      PROVE  DeskInv'
  <2>1. desk[d].at = "commit" /\ UNCHANGED <<tree, remembered, vanished>>
      BY <1>12 DEF commitBody, AtStage
  <2>2. CASE desk[d].over # live
      BY <1>12, <2>1, <2>2, Closes DEF commitBody
  <2>3. CASE desk[d].over = live
    <3>1. /\ version' = Append(version, desk[d].text) /\ live' = Len(version) + 1 /\ saved' = Append(saved, desk[d].shown)
          /\ \/ /\ desk' = [desk EXCEPT ![d] = [desk[d] EXCEPT !.at = "mirror", !.wrote = Len(version) + 1]]
                /\ UNCHANGED adrift
             \/ Close(d) /\ adrift' # {}
        BY <1>12, <2>3 DEF commitBody
    <3> QED
        BY <2>1, <2>3, <3>1, Records
  <2> QED
      BY <2>2, <2>3
<1>13. ASSUME NEW d \in Desk, writeTreeFile(d)
      PROVE  DeskInv'
  <2>1. /\ desk[d].at = "mirror" /\ Close(d) /\ tree' = desk[d].text
        /\ UNCHANGED <<version, live, saved, remembered, vanished>>
        /\ desk[d].wrote = live \/ adrift' # {}
      BY <1>13 DEF writeTreeFile, AtStage, logged
  <2>2. desk[d] \in Sessions /\ desk[d] # Closed
      BY <2>1 DEF DeskInv, DeskTyped, Closed
  <2>3. desk' \in [Desk -> Sessions \cup {Closed}] /\ \A c \in Desk : desk'[c] = IF c = d THEN Closed ELSE desk[c]
      BY <2>1 DEF Close, DeskInv, DeskTyped
  <2>4. tree' \in Bodies /\ (desk[d].wrote = live => tree' = version[live])
      BY <2>1, <2>2 DEF DeskInv, HoldsVersion, Sessions
  <2>5. DeskTyped' /\ HoldsVersion' /\ SavedOverOpened'
      BY <2>1, <2>3, <2>4 DEF DeskInv, DeskTyped, HoldsVersion, SavedOverOpened
  <2>6. MirrorComing'
      BY <2>1, <2>4 DEF MirrorComing
  <2>7. EditorsWait'
      BY <2>1, <2>3 DEF DeskInv, EditorsWait
  <2> QED
      BY <2>5, <2>6, <2>7 DEF DeskInv
<1>14. ASSUME NEW d \in Desk, writeTreeFails(d)
      PROVE  DeskInv'
    BY <1>14, Closes DEF writeTreeFails, AtStage, logged
<1>15. ASSUME NEW d \in Desk, DestroyCommand(d)
      PROVE  DeskInv'
    BY <1>15 DEF DestroyCommand, DeskInv, DeskTyped, HoldsVersion, SavedOverOpened, MirrorComing, EditorsWait
<1>16. CASE UNCHANGED deskVars
    BY <1>16 DEF deskVars, DeskInv, DeskTyped, HoldsVersion, SavedOverOpened, MirrorComing, EditorsWait
<1>17. ASSUME NEW d \in Desk, handleFileSave(d)
      PROVE  DeskInv'
    BY <1>12, <1>17 DEF handleFileSave
<1> QED
    BY <1>1, <1>2, <1>3, <1>4, <1>5, <1>6, <1>7, <1>8, <1>9, <1>10, <1>11, <1>12, <1>13, <1>14, <1>15, <1>16, <1>17
    DEF DeskNext

\* An edit is kept: no version is saved over one its writer has not been shown, the tree follows the
\* log, and nothing typed is lost while the editor is still at work.
THEOREM EditsAreKept == DeskSpec => []EditsKept
<1>1. DeskInit => DeskInv
  <2> SUFFICES ASSUME DeskInit PROVE DeskInv
      OBVIOUS
  <2>1. PICK t \in Draft : tree = t /\ version \in {<<t>>, <<>>}
      BY DEF DeskInit
  <2>2. DeskTyped
    <3>1. tree \in Bodies /\ <<t>> \in Seq(Bodies) /\ <<>> \in Seq(Bodies)
        BY <2>1 DEF Bodies
    <3> QED
        BY <2>1, <3>1 DEF DeskInit, DeskTyped
  <2>3. \A d \in Desk : desk[d] = Closed
      BY DEF DeskInit
  <2>4. SavedOverOpened /\ MirrorComing
      BY <2>1 DEF DeskInit, SavedOverOpened, MirrorComing
  <2> QED
      BY <2>2, <2>3, <2>4 DEF DeskInit, DeskInv, HoldsVersion, EditorsWait
<1>2. DeskInv => EditsKept
  <2> SUFFICES ASSUME DeskInv PROVE EditsKept
      OBVIOUS
  <2>1. TreeInStep
      BY DEF DeskInv, MirrorComing, TreeInStep, currentBody, Closed
  <2> QED
      BY <2>1 DEF DeskInv, EditsKept, EditorsWait, NothingVanishes
<1>3. DeskInv /\ [DeskNext]_deskVars => DeskInv'
    BY DeskStep
<1> QED
    BY <1>1, <1>2, <1>3, PTL DEF DeskSpec

-----------------------------------------------------------------------------
(* Events: the streams, and the webhooks *)

EmissionStage == {"publish", "send", "queued", "shed", "panicked", "lost"}
Emission == [topic : Topic, stage : EmissionStage, to : SUBSET (Follower \X Nat)]
StreamOf == [stage : {"away", "new", "live"}, visit : Nat, channel : Seq(Nat), last : Nat]
Published(i) == i \in DOMAIN emit /\ emit[i].stage # "publish"
InRing(i) == \E p \in DOMAIN ring : ring[p] = i
Later(i, j) == \E p, q \in DOMAIN ring : p < q /\ ring[p] = i /\ ring[q] = j
InChannel(c, i) == \E p \in DOMAIN stream[c].channel : stream[c].channel[p] = i
\* Being sent to the client, on the channel it has now.
Pending(c, i) == i \in DOMAIN emit /\ <<c, stream[c].visit>> \in emit[i].to
Reached(c, i) == i \in got[c] \/ InChannel(c, i) \/ Pending(c, i)

EventsTyped ==
    /\ emit \in Seq(Emission) /\ ring \in Seq(Nat)
    /\ stream \in [Follower -> StreamOf]
    /\ got \in [Follower -> SUBSET Nat] /\ owed \in [Follower -> SUBSET Nat]
    /\ \A i \in DOMAIN emit : emit[i].stage # "send" => emit[i].to = {}
\* Nothing is in the ring twice; what is there, in a channel, or sent and owed, was published.
RingTold ==
    /\ \A p, q \in DOMAIN ring : ring[p] = ring[q] => p = q
    /\ \A p \in DOMAIN ring : Published(ring[p])
    /\ \A c \in Follower : /\ \A p \in DOMAIN stream[c].channel : Published(stream[c].channel[p])
                           /\ stream[c].last # 0 => Published(stream[c].last)
                           /\ \A i \in owed[c] : i \in DOMAIN emit /\ Follows(c, i)
\* Only the newest event is being sent, to channels that do not hold it yet.
NewestSent ==
    \A i \in DOMAIN emit : emit[i].to # {} =>
      /\ ring # <<>> /\ ring[Len(ring)] = i
      /\ \A t \in emit[i].to : t[2] <= stream[t[1]].visit
      /\ \A c \in Follower : Pending(c, i) => ~InChannel(c, i)
\* A channel is in the order of the ring.
ChannelOrdered ==
    \A c \in Follower : \A p, q \in DOMAIN stream[c].channel :
      p < q /\ InRing(stream[c].channel[p]) => Later(stream[c].channel[p], stream[c].channel[q])
\* What a client lacks reaches it by its channel, or it can ask for it.
Missing ==
    \A c \in Follower : \A i \in owed[c] \ got[c] :
      /\ InRing(stream[c].last) /\ stream[c].last # 0 => Later(stream[c].last, i)
      /\ stream[c].stage = "live" \/ (stream[c].stage = "new" /\ stream[c].last = 0) => Reached(c, i)
      /\ ~(stream[c].stage = "away" /\ stream[c].last = 0)
StreamTold == RingTold /\ NewestSent /\ ChannelOrdered /\ Missing
StreamInv == EventsTyped /\ (upset = {} => StreamTold)


\* What an event is about does not change, nor who follows it.
LEMMA FollowsStays ==
    ASSUME NEW i, emit'[i].topic = emit[i].topic, NEW c
    PROVE  Follows(c, i)' = Follows(c, i)
BY DEF Follows

LEMMA StreamsInitially == EventsInit => StreamInv
<1> SUFFICES ASSUME EventsInit PROVE StreamInv
    OBVIOUS
<1>1. /\ emit = <<>> /\ ring = <<>> /\ stream = [c \in Follower |-> Away]
      /\ owed = [c \in Follower |-> {}] /\ got = [c \in Follower |-> {}]
    BY DEF EventsInit
<1>2. Away \in StreamOf /\ Away.channel = <<>> /\ Away.last = 0
    BY DEF Away, StreamOf
<1>3. EventsTyped
    BY <1>1, <1>2 DEF EventsTyped
<1>4. DOMAIN emit = {} /\ DOMAIN ring = {}
    BY <1>1
<1>5. \A c \in Follower : stream[c].channel = <<>> /\ stream[c].last = 0 /\ owed[c] = {}
    BY <1>1, <1>2
<1>6. RingTold /\ ChannelOrdered
    BY <1>4, <1>5 DEF RingTold, ChannelOrdered
<1>7. NewestSent
    BY <1>4 DEF NewestSent
<1>8. Missing
    BY <1>5 DEF Missing
<1> QED
    BY <1>3, <1>6, <1>7, <1>8 DEF StreamInv, StreamTold

\* The emissions go on: nothing is sent, and no client comes or goes.
LEMMA EmissionsOnly ==
    ASSUME StreamInv, UNCHANGED hubVars, upset \subseteq upset', EventsTyped',
           \A i \in DOMAIN emit : /\ i \in DOMAIN emit' /\ emit'[i].topic = emit[i].topic
                                  /\ emit[i].stage # "publish" => emit'[i].stage # "publish"
                                  /\ upset' = {} => emit'[i].to = emit[i].to,
           \A i \in DOMAIN emit' : i \notin DOMAIN emit => emit'[i].to = {}
    PROVE  StreamInv'
<1> SUFFICES ASSUME upset' = {} PROVE StreamTold'
    BY DEF StreamInv
<1>1. RingTold /\ NewestSent /\ ChannelOrdered /\ Missing
    BY DEF StreamInv, StreamTold
<1>2. ring' = ring /\ stream' = stream /\ got' = got /\ owed' = owed
    BY DEF hubVars
<1>3. \A i \in DOMAIN emit' : emit'[i].to # {} => i \in DOMAIN emit /\ emit'[i].to = emit[i].to
    OBVIOUS
<1>4. \A i : Published(i) => Published(i)'
    BY DEF Published
<1>5. \A c \in Follower, i \in DOMAIN emit : Follows(c, i)' = Follows(c, i)
    BY FollowsStays
<1>6. \A c, i : Pending(c, i)' = Pending(c, i)
    BY <1>2, <1>3 DEF Pending
<1>7. \A c, i : InChannel(c, i)' = InChannel(c, i)
    BY <1>2 DEF InChannel
<1>8. \A i, j : InRing(i)' = InRing(i) /\ Later(i, j)' = Later(i, j)
    BY <1>2 DEF InRing, Later
<1>9. RingTold'
    BY <1>1, <1>2, <1>4, <1>5 DEF RingTold
<1>10. NewestSent'
    BY <1>1, <1>2, <1>3, <1>6, <1>7 DEF NewestSent
<1>11. ChannelOrdered'
    BY <1>1, <1>2, <1>8 DEF ChannelOrdered
<1>12. \A c, i : Reached(c, i)' = Reached(c, i)
    BY <1>2, <1>6, <1>7 DEF Reached
<1>13. Missing'
    BY <1>1, <1>2, <1>8, <1>12 DEF Missing
<1> QED
    BY <1>9, <1>10, <1>11, <1>13 DEF StreamTold

LEMMA EmitKeeps ==
    ASSUME StreamInv, NEW topic \in Topic, Emit(topic)
    PROVE  StreamInv'
<1> DEFINE e == [topic |-> topic, stage |-> "publish", to |-> {}]
<1>1. emit' = Append(emit, e) /\ UNCHANGED <<hubVars, upset>>
    BY DEF Emit
<1>2. emit \in Seq(Emission) /\ e \in Emission
    <2>1. "publish" \in EmissionStage /\ {} \in SUBSET (Follower \X Nat)
        BY DEF EmissionStage
    <2>2. emit \in Seq(Emission)
        BY DEF StreamInv, EventsTyped
    <2> QED
        BY <2>1, <2>2 DEF Emission
<1>3. /\ emit' \in Seq(Emission) /\ DOMAIN emit = 1 .. Len(emit) /\ DOMAIN emit' = 1 .. Len(emit) + 1
      /\ emit'[Len(emit) + 1] = e /\ Len(emit) \in Nat
      /\ \A i \in DOMAIN emit : emit'[i] = emit[i]
    BY <1>1, <1>2, AppendProperties, LenProperties
<1>4. e.to = {}
    OBVIOUS
<1> HIDE DEF e
<1>5. \A i \in DOMAIN emit' : i \notin DOMAIN emit => emit'[i].to = {}
    BY <1>3, <1>4
<1>6. EventsTyped'
    BY <1>1, <1>3, <1>5 DEF StreamInv, EventsTyped, hubVars
<1> QED
    BY <1>1, <1>3, <1>5, <1>6, EmissionsOnly

\* One emission's stage and receivers change.
LEMMA EmissionSet ==
    ASSUME EventsTyped, NEW i \in DOMAIN emit, NEW stage \in EmissionStage, NEW to \in SUBSET (Follower \X Nat),
           emit' = [emit EXCEPT ![i].stage = stage, ![i].to = to]
    PROVE  /\ emit' \in Seq(Emission) /\ DOMAIN emit' = DOMAIN emit
           /\ emit'[i].stage = stage /\ emit'[i].to = to
           /\ \A j \in DOMAIN emit : emit'[j].topic = emit[j].topic
           /\ \A j \in DOMAIN emit : j # i => emit'[j] = emit[j]
<1>1. emit \in Seq(Emission) /\ DOMAIN emit = 1 .. Len(emit)
    BY LenProperties DEF EventsTyped
<1>2. emit[i] \in Emission
    BY <1>1, ElementOfSeq
<1> DEFINE e == [emit[i] EXCEPT !.stage = stage, !.to = to]
<1>3. /\ e \in Emission /\ e.stage = stage /\ e.to = to /\ e.topic = emit[i].topic
      /\ emit' = [emit EXCEPT ![i] = e]
    BY <1>2 DEF Emission
<1> HIDE DEF e
<1> QED
    <2>1. i \in 1 .. Len(emit)
        BY <1>1
    <2>2. /\ [emit EXCEPT ![i] = e] \in Seq(Emission)
          /\ Len([emit EXCEPT ![i] = e]) = Len(emit)
          /\ \A j \in 1 .. Len(emit) : [emit EXCEPT ![i] = e][j] = IF j = i THEN e ELSE emit[j]
        BY <2>1, <1>1, <1>3, ExceptSeq
    <2>3. DOMAIN [emit EXCEPT ![i] = e] = 1 .. Len([emit EXCEPT ![i] = e])
        BY <2>2, LenProperties
    <2> QED
        BY <1>1, <1>3, <2>2, <2>3


OneMore(r, s, i) ==
    \E n \in Nat, d \in Nat :
      /\ Len(r) = n + d /\ s \in Seq(Nat) /\ Len(s) = n + 1 /\ s[n + 1] = i
      /\ \A p \in 1 .. n : s[p] = r[p + d]

\* The ring with one more event: it is the last, and what is kept before it was there before it.
LEMMA KeepRing ==
    ASSUME NEW r \in Seq(Nat), NEW i \in Nat
    PROVE  OneMore(r, Keep(Append(r, i)), i)
<1> DEFINE a == Append(r, i)
<1>1. /\ Len(r) \in Nat /\ a \in Seq(Nat) /\ Len(a) = Len(r) + 1 /\ a[Len(r) + 1] = i
      /\ \A p \in 1 .. Len(r) : a[p] = r[p]
    BY AppendProperties, LenProperties
<1> HIDE DEF a
<1>2. RingSize \in Nat /\ RingSize >= 1
    BY EventsAssumption
<1>3. CASE Len(a) > RingSize
    <2> DEFINE d == Len(a) - RingSize
               n == RingSize - 1
    <2>1. Keep(a) = SubSeq(a, d + 1, Len(a))
        BY <1>3 DEF Keep
    <2>2. d \in Nat /\ n \in Nat /\ Len(r) = n + d /\ Len(a) = n + d + 1
        BY <1>1, <1>2, <1>3
    <2>3. \A p \in d + 1 .. Len(a) : a[p] \in Nat
        <3>1. \A p \in 1 .. Len(a) : a[p] \in Nat
            BY <1>1, ElementOfSeq
        <3>2. \A p \in d + 1 .. Len(a) : p \in 1 .. Len(a)
            BY <2>2
        <3> QED
            BY <3>1, <3>2
    <2> HIDE DEF d, n
    <2>4. /\ Keep(a) \in Seq(Nat) /\ Len(Keep(a)) = n + 1
          /\ \A p \in 1 .. n + 1 : Keep(a)[p] = a[p + d]
        <3>1. /\ SubSeq(a, d + 1, Len(a)) \in Seq(Nat)
              /\ Len(SubSeq(a, d + 1, Len(a))) = IF d + 1 <= Len(a) THEN Len(a) - (d + 1) + 1 ELSE 0
              /\ \A p \in 1 .. Len(a) - (d + 1) + 1 : SubSeq(a, d + 1, Len(a))[p] = a[(d + 1) + p - 1]
            <4>1. d + 1 \in Int /\ Len(a) \in Int
                BY <2>2
            <4> QED
                BY <4>1, <2>3, SubSeqProperties
        <3>2. \A p \in 1 .. n + 1 : (d + 1) + p - 1 = p + d
            BY <2>2
        <3> QED
            BY <2>1, <2>2, <3>1, <3>2
    <2>5. Keep(a)[n + 1] = i
        BY <1>1, <2>2, <2>4
    <2>6. \A p \in 1 .. n : Keep(a)[p] = r[p + d]
        <3> TAKE p \in 1 .. n
        <3>1. p \in 1 .. n + 1 /\ p + d \in 1 .. Len(r)
            BY <2>2
        <3> QED
            BY <3>1, <1>1, <2>4
    <2> QED
        BY <2>2, <2>4, <2>5, <2>6 DEF a, OneMore
<1>4. CASE ~(Len(a) > RingSize)
    <2>1. Keep(a) = a
        BY <1>4 DEF Keep
    <2>2. \A p \in 1 .. Len(r) : a[p] = r[p + 0]
        BY <1>1
    <2>3. Len(r) \in Nat /\ 0 \in Nat /\ Len(r) = Len(r) + 0
        BY <1>1
    <2>4. /\ Keep(a) \in Seq(Nat) /\ Len(Keep(a)) = Len(r) + 1 /\ Keep(a)[Len(r) + 1] = i
          /\ \A p \in 1 .. Len(r) : Keep(a)[p] = r[p + 0]
        BY <1>1, <2>1, <2>2
    <2> QED
        BY <2>3, <2>4 DEF a, OneMore
<1> QED
    BY <1>3, <1>4

LEMMA PublishKeeps ==
    ASSUME StreamInv, NEW i \in DOMAIN emit, Publish(i)
    PROVE  StreamInv'
<1> DEFINE to == {<<c, stream[c].visit>> : c \in {r \in Registered : Follows(r, i)}}
<1>1. /\ emit[i].stage = "publish" /\ ring' = Keep(Append(ring, i)) /\ UNCHANGED <<stream, got>>
      /\ emit' = [emit EXCEPT ![i].stage = "send", ![i].to = to]
      /\ owed' = Owing(i) /\ upset' = upset \cup IF Sending # {} THEN {"overlapping"} ELSE {}
    BY DEF Publish
<1>2. EventsTyped
    BY DEF StreamInv
<1>3. to \in SUBSET (Follower \X Nat)
    BY <1>2 DEF Registered, EventsTyped, StreamOf
<1>4. \A c \in Follower : /\ Follows(c, i) /\ c \in Registered => <<c, stream[c].visit>> \in to
                          /\ c \in Registered <=> stream[c].stage # "away"
    BY DEF Registered
<1>5. \A t \in to : t[2] <= stream[t[1]].visit
    BY <1>2 DEF EventsTyped, StreamOf, Registered
<1> HIDE DEF to
<1> "send" \in EmissionStage
    BY DEF EmissionStage
<1>6. /\ emit' \in Seq(Emission) /\ DOMAIN emit' = DOMAIN emit
      /\ emit'[i].stage = "send" /\ emit'[i].to = to
      /\ \A j \in DOMAIN emit : emit'[j].topic = emit[j].topic
      /\ \A j \in DOMAIN emit : j # i => emit'[j] = emit[j]
    BY <1>1, <1>2, <1>3, EmissionSet
<1>7. i \in Nat /\ ring \in Seq(Nat) /\ DOMAIN ring = 1 .. Len(ring) /\ Len(ring) \in Nat
    BY <1>2, LenProperties DEF EventsTyped
<1>8. PICK n \in Nat, d \in Nat :
             /\ Len(ring) = n + d /\ ring' \in Seq(Nat) /\ Len(ring') = n + 1 /\ ring'[n + 1] = i
             /\ \A p \in 1 .. n : ring'[p] = ring[p + d]
    <2>1. OneMore(ring, ring', i)
        BY <1>1, <1>7, KeepRing
    <2> QED
        BY <2>1 DEF OneMore
<1>9. DOMAIN ring' = 1 .. n + 1
    BY <1>8, LenProperties
<1>10. /\ \A c \in Follower : \A j : j \in owed'[c] <=>
             (j \in owed[c] \/ (j = i /\ Follows(c, i) /\ (c \in Registered \/ stream[c].last # 0)))
       /\ owed' \in [Follower -> SUBSET Nat]
    BY <1>1, <1>2, <1>7 DEF Owing, EventsTyped
<1>11. EventsTyped'
    BY <1>1, <1>2, <1>6, <1>8, <1>10 DEF EventsTyped
<1>12. ASSUME upset' = {} PROVE StreamTold'
    <2>1. /\ RingTold /\ NewestSent /\ ChannelOrdered /\ Missing
          /\ \A j \in DOMAIN emit : emit[j].to = {}
        BY <1>1, <1>2, <1>12 DEF StreamInv, StreamTold, Sending, EventsTyped
    <2>2. /\ \A j : Published(j) => j # i /\ Published(j)'
          /\ Published(i)'
        BY <1>1, <1>6 DEF Published
    <2>3. \A c \in Follower, j \in DOMAIN emit : Follows(c, j)' = Follows(c, j)
        BY <1>6, FollowsStays
    <2>4. \A c, j : InChannel(c, j)' = InChannel(c, j)
        BY <1>1 DEF InChannel
    <2>5. \A c \in Follower : \A j : InChannel(c, j) => Published(j)
        BY <2>1 DEF RingTold, InChannel
    \* What was in the ring and still is has what came after it.
    <2>6. ASSUME NEW j, InRing(j)', j # i
          PROVE  /\ Later(j, i)' /\ InRing(j)
                 /\ \A k : Later(j, k) => Later(j, k)'
        <3>1. PICK p \in DOMAIN ring' : ring'[p] = j
            BY <2>6 DEF InRing
        <3>2. p \in 1 .. n /\ ring[p + d] = j /\ p + d \in DOMAIN ring
            BY SMTT(30), <2>6, <3>1, <1>7, <1>8, <1>9
        <3>3. n + 1 \in DOMAIN ring' /\ p < n + 1
            BY <3>2, <1>7, <1>9
        <3>4. Later(j, i)' /\ InRing(j)
            BY <3>1, <3>2, <3>3, <1>8 DEF Later, InRing
        <3>5. ASSUME NEW k, Later(j, k) PROVE Later(j, k)'
            <4>1. PICK x, y \in DOMAIN ring : x < y /\ ring[x] = j /\ ring[y] = k
                BY <3>5 DEF Later
            <4>2. x = p + d
                BY <4>1, <3>2, <2>1 DEF RingTold
            <4>3. y - d \in 1 .. n /\ p < y - d
                <5>1. y \in Nat /\ y <= n + d /\ p + d < y
                    BY <4>1, <4>2, <1>7, <1>8
                <5>2. p \in Nat /\ p >= 1
                    BY <3>2
                <5> QED
                    BY <5>1, <5>2, <1>8
            <4>4. ring'[y - d] = k /\ y - d \in DOMAIN ring'
                BY <4>1, <4>3, <1>7, <1>8, <1>9
            <4> QED
                BY <3>1, <4>3, <4>4 DEF Later
        <3> QED
            BY <3>4, <3>5
    <2>7. RingTold'
        <3>1. ASSUME NEW p \in 1 .. n
              PROVE  p + d \in DOMAIN ring /\ ring'[p] = ring[p + d] /\ Published(ring'[p])
            <4>1. p + d \in 1 .. Len(ring)
                BY <1>7, <1>8
            <4> QED
                BY <4>1, <1>7, <1>8, <2>1 DEF RingTold
        <3>2. ASSUME NEW p \in DOMAIN ring', NEW q \in DOMAIN ring', ring'[p] = ring'[q]
              PROVE  p = q
            <4>1. CASE p \in 1 .. n /\ q \in 1 .. n
                <5>1. /\ p + d \in DOMAIN ring /\ q + d \in DOMAIN ring
                      /\ ring[p + d] = ring[q + d]
                    BY <4>1, <3>1, <3>2
                <5>2. p + d = q + d
                    BY <5>1, <2>1 DEF RingTold
                <5> QED
                    BY <4>1, <5>2
            <4>2. CASE p = n + 1 /\ q \in 1 .. n
                BY <4>2, <3>1, <3>2, <2>2, <1>8
            <4>3. CASE q = n + 1 /\ p \in 1 .. n
                BY <4>3, <3>1, <3>2, <2>2, <1>8
            <4>4. CASE p = n + 1 /\ q = n + 1
                BY <4>4
            <4> QED
                BY <4>1, <4>2, <4>3, <4>4, <1>7, <1>9
        <3>3. ASSUME NEW p \in DOMAIN ring'
              PROVE  Published(ring[p])'
            <4>1. CASE p \in 1 .. n
                <5>1. p + d \in DOMAIN ring /\ ring'[p] = ring[p + d]
                    BY <4>1, <3>1
                <5>2. ring[p + d] \in DOMAIN emit /\ emit[ring[p + d]].stage # "publish" /\ ring[p + d] # i
                    BY <5>1, <2>1, <2>2 DEF RingTold, Published
                <5> QED
                    BY <5>1, <5>2, <1>6 DEF Published
            <4>2. CASE p = n + 1
                BY <4>2, <1>8, <1>6 DEF Published
            <4> QED
                BY <4>1, <4>2, <1>7, <1>9
        <3>4. ASSUME NEW c \in Follower
              PROVE  (/\ \A p \in DOMAIN stream[c].channel : Published(stream[c].channel[p])
                      /\ stream[c].last # 0 => Published(stream[c].last)
                      /\ \A j \in owed[c] : j \in DOMAIN emit /\ Follows(c, j))'
            <4>1. \A j \in owed'[c] : j \in DOMAIN emit /\ Follows(c, j)
                BY <1>10, <2>1 DEF RingTold
            <4>2. \A p \in DOMAIN stream[c].channel : Published(stream[c].channel[p])
                BY <2>1 DEF RingTold
            <4>3. stream[c].last # 0 => Published(stream[c].last)
                BY <2>1 DEF RingTold
            <4> QED
                BY <4>1, <4>2, <4>3, <1>1, <1>6, <2>2, <2>3 DEF Published
        <3> QED
            BY <3>2, <3>3, <3>4 DEF RingTold
    <2>8. NewestSent'
        <3>1. ASSUME NEW j \in DOMAIN emit', emit'[j].to # {}
              PROVE  j = i
            BY <3>1, <1>6, <2>1
        <3>2. ring' # <<>> /\ ring'[Len(ring')] = i
            BY <1>7, <1>8, <1>9
        <3>3. \A c \in Follower : ~InChannel(c, i)'
            BY <2>2, <2>4, <2>5
        <3> QED
            BY <3>1, <3>2, <3>3, <1>1, <1>5, <1>6 DEF NewestSent
    <2>9. ChannelOrdered'
        BY <1>1, <2>1, <2>2, <2>6 DEF ChannelOrdered, RingTold
    <2>10. Missing'
        <3> SUFFICES ASSUME NEW c \in Follower, NEW j \in owed'[c], j \notin got[c]
                     PROVE  /\ InRing(stream[c].last)' /\ stream[c].last # 0 => Later(stream[c].last, j)'
                            /\ stream[c].stage = "live" \/ (stream[c].stage = "new" /\ stream[c].last = 0)
                                 => Reached(c, j)'
                            /\ ~(stream[c].stage = "away" /\ stream[c].last = 0)
            BY <1>1 DEF Missing
        <3>1. stream[c].last # 0 => Published(stream[c].last)
            BY <2>1 DEF RingTold
        <3>2. CASE j \in owed[c]
            <4>1. Reached(c, j) => Reached(c, j)'
                <5>1. ~Pending(c, j)
                    BY <2>1 DEF Pending
                <5> QED
                    BY <5>1, <1>1, <2>4 DEF Reached
            <4>2. InRing(stream[c].last)' /\ stream[c].last # 0 => Later(stream[c].last, j)'
                <5>1. ASSUME NEW x, x = stream[c].last, x # 0, InRing(x)'
                      PROVE  Later(x, j)'
                    <6>1. x # i /\ InRing(x)
                        BY <5>1, <2>2, <2>6, <3>1
                    <6>2. Later(x, j)
                        BY <5>1, <6>1, <3>2, <2>1 DEF Missing
                    <6> QED
                        BY <5>1, <6>1, <6>2, <2>6
                <5> QED
                    BY <5>1, <1>1 DEF InRing, Later
            <4> QED
                BY <3>2, <4>1, <4>2, <2>1 DEF Missing
        <3>3. CASE j = i /\ Follows(c, i) /\ (c \in Registered \/ stream[c].last # 0)
            <4>1. c \in Registered => Pending(c, j)'
                BY <3>3, <1>1, <1>4, <1>6 DEF Pending
            <4>2. stream[c].stage # "away" => Reached(c, j)'
                BY <4>1, <1>4 DEF Reached
            <4>3. InRing(stream[c].last)' /\ stream[c].last # 0 => Later(stream[c].last, j)'
                <5>1. ASSUME NEW x, x = stream[c].last, x # 0, InRing(x)'
                      PROVE  Later(x, j)'
                    BY <5>1, <2>2, <2>6, <3>1, <3>3
                <5> QED
                    BY <5>1, <1>1 DEF InRing, Later
            <4> QED
                BY <3>3, <4>2, <4>3, <1>4
        <3> QED
            BY <3>2, <3>3, <1>10
    <2> QED
        BY <2>7, <2>8, <2>9, <2>10 DEF StreamTold
<1> QED
    BY <1>11, <1>12 DEF StreamInv


\* One client's stream changes.
LEMMA StreamSet ==
    ASSUME EventsTyped, NEW c \in Follower, NEW s \in StreamOf, stream' = [stream EXCEPT ![c] = s]
    PROVE  /\ stream' \in [Follower -> StreamOf] /\ stream'[c] = s
           /\ \A o \in Follower : o # c => stream'[o] = stream[o]
BY DEF EventsTyped

LEMMA SendKeeps ==
    ASSUME StreamInv, NEW i \in DOMAIN emit, Send(i)
    PROVE  StreamInv'
<1>1. PICK t \in emit[i].to :
        /\ emit[i].stage = "send" /\ Connected(t[1], t[2])
        /\ emit' = [emit EXCEPT ![i].to = @ \ {t}]
        /\ IF Len(stream[t[1]].channel) < ChannelSize
           THEN stream' = [stream EXCEPT ![t[1]].channel = Append(@, i)] /\ UNCHANGED upset
           ELSE upset' = upset \cup {"dropped"} /\ UNCHANGED stream
        /\ UNCHANGED <<ring, got, owed>>
    BY DEF Send
<1>2. EventsTyped
    BY DEF StreamInv
<1>3. emit \in Seq(Emission) /\ DOMAIN emit = 1 .. Len(emit) /\ emit[i] \in Emission /\ i \in Nat
    BY <1>2, LenProperties, ElementOfSeq DEF EventsTyped
<1> DEFINE c == t[1]
           to == emit[i].to \ {t}
<1>4. c \in Follower /\ t = <<c, stream[c].visit>> /\ to \in SUBSET (Follower \X Nat)
    BY <1>1, <1>3 DEF Emission, Connected
<1>5. /\ emit' \in Seq(Emission) /\ DOMAIN emit' = DOMAIN emit
      /\ emit'[i].stage = "send" /\ emit'[i].to = to
      /\ \A j \in DOMAIN emit : emit'[j].topic = emit[j].topic
      /\ \A j \in DOMAIN emit : j # i => emit'[j] = emit[j]
    <2>1. emit' = [emit EXCEPT ![i].stage = emit[i].stage, ![i].to = to]
        BY <1>1, <1>3 DEF Emission
    <2>2. emit[i].stage \in EmissionStage
        BY <1>3 DEF Emission
    <2> QED
        <3> DEFINE stage == emit[i].stage
        <3>1. emit' = [emit EXCEPT ![i].stage = stage, ![i].to = to] /\ stage \in EmissionStage
            BY <2>1, <2>2
        <3>2. stage = "send"
            BY <1>1
        <3> HIDE DEF stage, to
        <3> QED
            BY <1>2, <1>4, <3>1, <3>2, EmissionSet
<1> DEFINE s == [stream[c] EXCEPT !.channel = Append(stream[c].channel, i)]
           there == Len(stream[c].channel) < ChannelSize
<1>6. stream[c] \in StreamOf /\ stream[c].channel \in Seq(Nat)
    BY <1>2, <1>4 DEF EventsTyped, StreamOf
<1>7. /\ Append(stream[c].channel, i) \in Seq(Nat) /\ Len(stream[c].channel) \in Nat
      /\ DOMAIN stream[c].channel = 1 .. Len(stream[c].channel)
      /\ DOMAIN Append(stream[c].channel, i) = 1 .. Len(stream[c].channel) + 1
      /\ Append(stream[c].channel, i)[Len(stream[c].channel) + 1] = i
      /\ \A p \in DOMAIN stream[c].channel : Append(stream[c].channel, i)[p] = stream[c].channel[p]
    <2> DEFINE ch == stream[c].channel
    <2>1. ch \in Seq(Nat)
        BY <1>6
    <2> HIDE DEF ch
    <2>2. /\ Append(ch, i) \in Seq(Nat) /\ Len(ch) \in Nat /\ DOMAIN ch = 1 .. Len(ch)
          /\ Len(Append(ch, i)) = Len(ch) + 1 /\ Append(ch, i)[Len(ch) + 1] = i
          /\ \A p \in 1 .. Len(ch) : Append(ch, i)[p] = ch[p]
        BY <1>3, <2>1, AppendProperties, LenProperties
    <2>3. DOMAIN Append(ch, i) = 1 .. Len(ch) + 1
        BY <2>2, LenProperties
    <2> QED
        BY <2>2, <2>3 DEF ch
<1>8. /\ s \in StreamOf /\ s.stage = stream[c].stage /\ s.visit = stream[c].visit
      /\ s.last = stream[c].last /\ s.channel = Append(stream[c].channel, i)
    BY <1>6, <1>7 DEF StreamOf
<1>9. there => stream' = [stream EXCEPT ![c] = s]
    BY <1>1
<1> HIDE DEF s
<1>10. there => /\ stream' \in [Follower -> StreamOf] /\ stream'[c] = s
                /\ \A o \in Follower : o # c => stream'[o] = stream[o]
    BY <1>2, <1>4, <1>8, <1>9, StreamSet
<1>11. EventsTyped'
    BY <1>1, <1>2, <1>5, <1>10 DEF EventsTyped
<1>12. ASSUME upset' = {} PROVE StreamTold'
    <2>1. RingTold /\ NewestSent /\ ChannelOrdered /\ Missing /\ there
        BY <1>1, <1>12 DEF StreamInv, StreamTold
    <2> HIDE DEF there, to, c
    <2>2. /\ stream'[c] = s /\ \A o \in Follower : o # c => stream'[o] = stream[o]
          /\ \A o \in Follower : /\ stream'[o].stage = stream[o].stage /\ stream'[o].visit = stream[o].visit
                                 /\ stream'[o].last = stream[o].last
        BY <1>8, <1>10, <2>1
    <2>3. \A j : Published(j) => Published(j)'
        BY <1>1, <1>5 DEF Published
    <2>4. Published(i)
        BY <1>1 DEF Published
    <2>5. \A o \in Follower, j \in DOMAIN emit : Follows(o, j)' = Follows(o, j)
        BY <1>5, FollowsStays
    <2>6. \A j, k : InRing(j)' = InRing(j) /\ Later(j, k)' = Later(j, k)
        BY <1>1 DEF InRing, Later
    <2>7. /\ ring # <<>> /\ ring[Len(ring)] = i
          /\ \A u \in emit[i].to : u[2] <= stream[u[1]].visit
          /\ \A o \in Follower : Pending(o, i) => ~InChannel(o, i)
          /\ \A j \in DOMAIN emit : emit[j].to # {} => j = i
        BY <1>1, <2>1 DEF NewestSent
    <2>8. Pending(c, i) /\ ~InChannel(c, i)
        BY <1>1, <1>4, <2>7 DEF Pending
    <2>9. \A j : InChannel(c, j)' <=> InChannel(c, j) \/ j = i
        <3> DEFINE ch == stream[c].channel
        <3>1. /\ stream'[c].channel = Append(ch, i) /\ DOMAIN ch = 1 .. Len(ch) /\ Len(ch) \in Nat
              /\ DOMAIN Append(ch, i) = 1 .. Len(ch) + 1 /\ Append(ch, i)[Len(ch) + 1] = i
              /\ \A p \in DOMAIN ch : Append(ch, i)[p] = ch[p]
            BY <1>7, <1>8, <2>2
        <3> HIDE DEF ch
        <3>2. \A j : (\E p \in DOMAIN Append(ch, i) : Append(ch, i)[p] = j)
                      <=> ((\E p \in DOMAIN ch : ch[p] = j) \/ j = i)
            BY <3>1
        <3> QED
            BY <3>1, <3>2 DEF InChannel, ch
    <2>10. \A o \in Follower : \A j :
             o # c => InChannel(o, j)' = InChannel(o, j) /\ Pending(o, j)' = Pending(o, j)
        <3>1. \A o \in Follower : \A j : o # c => InChannel(o, j)' = InChannel(o, j)
            BY <2>2 DEF InChannel
        <3>2. \A o \in Follower : o # c => (<<o, stream[o].visit>> \in to <=> <<o, stream[o].visit>> \in emit[i].to)
            BY <1>4 DEF to
        <3>3. \A o \in Follower : \A j : o # c => Pending(o, j)' = Pending(o, j)
            BY <1>5, <2>2, <3>2 DEF Pending
        <3> QED
            BY <3>1, <3>3
    <2>11. RingTold'
        <3>1. ASSUME NEW o \in Follower, NEW p \in DOMAIN stream'[o].channel
              PROVE  Published(stream[o].channel[p])'
            <4>1. CASE o # c
                BY <4>1, <2>1, <2>2, <2>3, <3>1 DEF RingTold
            <4>2. CASE o = c
                <5>1. CASE p = Len(stream[c].channel) + 1
                    BY <4>2, <5>1, <1>7, <1>8, <2>2, <2>3, <2>4
                <5>2. CASE p # Len(stream[c].channel) + 1
                    <6>1. p \in DOMAIN stream[c].channel /\ stream'[o].channel[p] = stream[c].channel[p]
                        BY SMTT(30), <3>1, <4>2, <5>2, <1>7, <1>8, <2>2
                    <6> QED
                        BY <6>1, <2>1, <2>3, <1>4 DEF RingTold
                <5> QED
                    BY <5>1, <5>2
            <4> QED
                BY <4>1, <4>2
        <3>2. \A p \in DOMAIN ring : Published(ring[p])
            BY <2>1 DEF RingTold
        <3>3. \A p \in DOMAIN ring' : Published(ring[p])'
            BY <1>1, <3>2, <2>3
        <3>4. ASSUME NEW o \in Follower
              PROVE  (/\ stream[o].last # 0 => Published(stream[o].last)
                      /\ \A j \in owed[o] : j \in DOMAIN emit /\ Follows(o, j))'
            <4>1. stream[o].last # 0 => Published(stream[o].last)
                BY <2>1 DEF RingTold
            <4>2. \A j \in owed[o] : j \in DOMAIN emit /\ Follows(o, j)
                BY <2>1 DEF RingTold
            <4> QED
                BY <4>1, <4>2, <1>1, <1>5, <2>2, <2>3, <2>5
        <3>5. \A p, q \in DOMAIN ring' : ring'[p] = ring'[q] => p = q
            BY <1>1, <2>1 DEF RingTold
        <3> QED
            BY <3>1, <3>3, <3>4, <3>5 DEF RingTold
    <2>12. NewestSent'
        <3>1. ASSUME NEW j \in DOMAIN emit', emit'[j].to # {}
              PROVE  j = i
            BY <3>1, <1>5, <2>7
        <3>2. ~Pending(c, i)'
            BY <1>4, <1>5, <2>2 DEF Pending, to
        <3>3. \A o \in Follower : Pending(o, i)' => ~InChannel(o, i)'
            BY <2>7, <2>10, <3>2
        <3>4. \A u \in emit'[i].to : u[1] \in Follower /\ u[2] <= stream'[u[1]].visit
            BY <1>4, <1>5, <2>2, <2>7 DEF to
        <3>5. ring' # <<>> /\ ring'[Len(ring')] = i
            BY <1>1, <2>7
        <3> QED
            BY <3>1, <3>3, <3>4, <3>5 DEF NewestSent
    <2>13. ChannelOrdered'
        <3> SUFFICES ASSUME NEW o \in Follower, NEW p \in DOMAIN stream'[o].channel,
                            NEW q \in DOMAIN stream'[o].channel, p < q, InRing(stream'[o].channel[p])
                     PROVE  Later(stream'[o].channel[p], stream'[o].channel[q])
            BY <2>6 DEF ChannelOrdered
        <3>1. CASE o # c
            BY <3>1, <2>1, <2>2 DEF ChannelOrdered
        <3>2. CASE o = c /\ q # Len(stream[c].channel) + 1
            <4>1. /\ p \in DOMAIN stream[c].channel /\ q \in DOMAIN stream[c].channel
                  /\ stream'[o].channel[p] = stream[c].channel[p] /\ stream'[o].channel[q] = stream[c].channel[q]
                <5>1. stream'[o].channel = Append(stream[c].channel, i)
                    BY <3>2, <1>8, <2>2
                <5>2. p \in 1 .. Len(stream[c].channel) + 1 /\ q \in 1 .. Len(stream[c].channel) + 1
                    BY <5>1, <1>7
                <5> QED
                    BY SMTT(30), <3>2, <5>1, <5>2, <1>7
            <4> QED
                BY <3>2, <4>1, <2>1, <1>4 DEF ChannelOrdered
        <3>3. CASE o = c /\ q = Len(stream[c].channel) + 1
            <4>1. /\ p \in DOMAIN stream[c].channel /\ stream'[o].channel[p] = stream[c].channel[p]
                  /\ stream'[o].channel[q] = i
                BY <3>3, <1>7, <1>8, <2>2
            <4>2. stream[c].channel[p] # i
                BY <4>1, <2>8 DEF InChannel
            <4>3. PICK x \in DOMAIN ring : ring[x] = stream[c].channel[p]
                BY <4>1 DEF InRing
            <4>4. DOMAIN ring = 1 .. Len(ring) /\ Len(ring) \in Nat
                BY <1>2, LenProperties DEF EventsTyped
            <4>5. x < Len(ring) /\ Len(ring) \in DOMAIN ring
                BY <4>2, <4>3, <4>4, <2>7
            <4> QED
                BY <4>1, <4>3, <4>5, <2>7 DEF Later
        <3> QED
            BY <3>1, <3>2, <3>3
    <2>14. \A o \in Follower : \A j : Reached(o, j) => Reached(o, j)'
        <3>1. \A j : Pending(c, j) => Pending(c, j)' \/ j = i
            <4>1. ASSUME NEW j \in DOMAIN emit, j # i, <<c, stream[c].visit>> \in emit[j].to
                  PROVE  j \in DOMAIN emit' /\ <<c, stream'[c].visit>> \in emit'[j].to
                BY <4>1, <1>4, <1>5, <2>2
            <4> QED
                BY <4>1 DEF Pending
        <3> QED
            BY <1>1, <2>9, <2>10, <3>1 DEF Reached
    <2>15. Missing'
        <3>1. ASSUME NEW o \in Follower, NEW j \in owed[o] \ got[o]
              PROVE  /\ InRing(stream[o].last) /\ stream[o].last # 0 => Later(stream[o].last, j)
                     /\ stream[o].stage = "live" \/ (stream[o].stage = "new" /\ stream[o].last = 0)
                          => Reached(o, j)
                     /\ ~(stream[o].stage = "away" /\ stream[o].last = 0)
            BY <2>1 DEF Missing
        <3> QED
            BY <3>1, <1>1, <2>2, <2>6, <2>14 DEF Missing
    <2> QED
        BY <2>11, <2>12, <2>13, <2>15 DEF StreamTold
<1> QED
    BY <1>11, <1>12 DEF StreamInv


EndsAs(some, all) == \E k \in Nat : \A p \in DOMAIN some : p + k \in DOMAIN all /\ some[p] = all[p + k]
ClientTold(c, s) ==
    upset' = {} =>
      /\ s.last # 0 => Published(s.last)
      /\ \A j \in owed'[c] \ got'[c] :
           /\ InRing(s.last) /\ s.last # 0 => Later(s.last, j)
           /\ s.stage = "live" \/ (s.stage = "new" /\ s.last = 0)
                => \/ \E p \in DOMAIN s.channel : s.channel[p] = j
                   \/ j \in DOMAIN emit /\ <<c, s.visit>> \in emit[j].to
           /\ ~(s.stage = "away" /\ s.last = 0)

\* A client comes, reads or goes: what its channel holds it held before, in the same order.
LEMMA ClientOnly ==
    ASSUME StreamInv, NEW c \in Follower, NEW s \in StreamOf,
           stream' = [stream EXCEPT ![c] = s], UNCHANGED <<ring, emit>>, upset \subseteq upset',
           got' \in [Follower -> SUBSET Nat], owed' \in [Follower -> SUBSET Nat],
           \A o \in Follower : o # c => got'[o] = got[o] /\ owed'[o] = owed[o],
           owed'[c] \subseteq owed[c],
           s.visit \in {stream[c].visit, stream[c].visit + 1},
           EndsAs(s.channel, stream[c].channel), ClientTold(c, s)
    PROVE  StreamInv'
<1>1. EventsTyped
    BY DEF StreamInv
<1>2. /\ stream' \in [Follower -> StreamOf] /\ stream'[c] = s
      /\ \A o \in Follower : o # c => stream'[o] = stream[o]
    BY <1>1, StreamSet
<1>3. EventsTyped'
    BY <1>1, <1>2 DEF EventsTyped
<1> SUFFICES ASSUME upset' = {} PROVE StreamTold'
    BY <1>3 DEF StreamInv
<1>0. /\ s.last # 0 => Published(s.last)
      /\ \A j \in owed'[c] \ got'[c] :
           /\ InRing(s.last) /\ s.last # 0 => Later(s.last, j)
           /\ s.stage = "live" \/ (s.stage = "new" /\ s.last = 0)
                => \/ \E p \in DOMAIN s.channel : s.channel[p] = j
                   \/ j \in DOMAIN emit /\ <<c, s.visit>> \in emit[j].to
           /\ ~(s.stage = "away" /\ s.last = 0)
    BY DEF ClientTold
<1>4. RingTold /\ NewestSent /\ ChannelOrdered /\ Missing
    BY DEF StreamInv, StreamTold
<1>5. PICK k \in Nat : \A p \in DOMAIN s.channel :
             p + k \in DOMAIN stream[c].channel /\ s.channel[p] = stream[c].channel[p + k]
    BY DEF EndsAs
<1>6. \A p \in DOMAIN s.channel : p \in Nat
    <2>1. s.channel \in Seq(Nat)
        BY DEF StreamOf
    <2> QED
        BY <2>1, LenProperties
<1>7. \A j : Published(j)' = Published(j)
    BY DEF Published
<1>8. \A j, i : InRing(j)' = InRing(j) /\ Later(j, i)' = Later(j, i)
    BY DEF InRing, Later
<1>9. \A o \in Follower, j \in DOMAIN emit : Follows(o, j)' = Follows(o, j)
    BY FollowsStays
<1>10. \A j : InChannel(c, j)' => InChannel(c, j)
    BY <1>2, <1>5 DEF InChannel
<1>11. \A o \in Follower : \A j : o # c => InChannel(o, j)' = InChannel(o, j) /\ Pending(o, j)' = Pending(o, j)
    BY <1>2 DEF InChannel, Pending
<1>12. \A j : Pending(c, j)' => Pending(c, j)
    <2>1. CASE s.visit = stream[c].visit
        BY <2>1, <1>2 DEF Pending
    <2>2. CASE s.visit = stream[c].visit + 1
        <3>1. ASSUME NEW j \in DOMAIN emit, <<c, s.visit>> \in emit[j].to PROVE FALSE
            <4>1. s.visit <= stream[c].visit
                BY <3>1, <1>4 DEF NewestSent
            <4>2. stream[c].visit \in Nat
                BY <1>1 DEF EventsTyped, StreamOf
            <4> QED
                BY <2>2, <4>1, <4>2
        <3> QED
            BY <3>1, <1>2 DEF Pending
    <2> QED
        BY <2>1, <2>2
<1>13. RingTold'
    <2>1. ASSUME NEW o \in Follower
          PROVE  (/\ \A p \in DOMAIN stream[o].channel : Published(stream[o].channel[p])
                  /\ stream[o].last # 0 => Published(stream[o].last)
                  /\ \A j \in owed[o] : j \in DOMAIN emit /\ Follows(o, j))'
        <3>1. /\ \A p \in DOMAIN stream[o].channel : Published(stream[o].channel[p])
              /\ stream[o].last # 0 => Published(stream[o].last)
              /\ \A j \in owed[o] : j \in DOMAIN emit /\ Follows(o, j)
            BY <1>4 DEF RingTold
        <3>2. CASE o # c
            BY <3>1, <3>2, <1>2, <1>7, <1>9
        <3>3. CASE o = c
            BY <3>1, <3>3, <1>0, <1>2, <1>5, <1>7, <1>9
        <3> QED
            BY <3>2, <3>3
    <2>2. (/\ \A p, q \in DOMAIN ring : ring[p] = ring[q] => p = q
           /\ \A p \in DOMAIN ring : Published(ring[p]))'
        BY <1>4, <1>7 DEF RingTold
    <2> QED
        BY <2>1, <2>2 DEF RingTold
<1>14. NewestSent'
    <2>1. ASSUME NEW i \in DOMAIN emit, emit[i].to # {}
          PROVE  (/\ ring # <<>> /\ ring[Len(ring)] = i
                  /\ \A t \in emit[i].to : t[2] <= stream[t[1]].visit
                  /\ \A o \in Follower : Pending(o, i) => ~InChannel(o, i))'
        <3>1. /\ ring # <<>> /\ ring[Len(ring)] = i
              /\ \A t \in emit[i].to : t[2] <= stream[t[1]].visit
              /\ \A o \in Follower : Pending(o, i) => ~InChannel(o, i)
            BY <2>1, <1>4 DEF NewestSent
        <3>2. \A o \in Follower : Pending(o, i)' => ~InChannel(o, i)'
            BY <3>1, <1>10, <1>11, <1>12
        <3>3. emit[i].to \subseteq Follower \X Nat
            <4>1. emit[i] \in Emission
                BY <2>1, <1>1, LenProperties, ElementOfSeq DEF EventsTyped
            <4> QED
                BY <4>1 DEF Emission
        <3>4. \A o \in Follower : stream[o].visit \in Nat /\ stream[o].visit <= stream'[o].visit
            BY <1>1, <1>2 DEF EventsTyped, StreamOf
        <3>5. ASSUME NEW t \in emit[i].to PROVE t[2] <= stream'[t[1]].visit
            <4>1. t[1] \in Follower /\ t[2] \in Nat /\ t[2] <= stream[t[1]].visit
                BY <3>1, <3>3
            <4>2. stream'[t[1]].visit \in Nat
                BY <4>1, <1>3 DEF EventsTyped, StreamOf
            <4> QED
                BY <4>1, <4>2, <3>4
        <3> QED
            BY <3>1, <3>2, <3>5
    <2> QED
        BY <2>1 DEF NewestSent
<1>15. ChannelOrdered'
    <2> SUFFICES ASSUME NEW o \in Follower, NEW p \in DOMAIN stream'[o].channel,
                        NEW q \in DOMAIN stream'[o].channel, p < q, InRing(stream'[o].channel[p])
                 PROVE  Later(stream'[o].channel[p], stream'[o].channel[q])
        BY <1>8 DEF ChannelOrdered
    <2>1. CASE o # c
        BY <2>1, <1>2, <1>4 DEF ChannelOrdered
    <2>2. CASE o = c
        <3>1. /\ p + k \in DOMAIN stream[c].channel /\ q + k \in DOMAIN stream[c].channel /\ p + k < q + k
              /\ stream'[o].channel[p] = stream[c].channel[p + k]
              /\ stream'[o].channel[q] = stream[c].channel[q + k]
            BY <2>2, <1>2, <1>5, <1>6
        <3> QED
            BY <3>1, <1>4 DEF ChannelOrdered
    <2> QED
        BY <2>1, <2>2
<1>16. Missing'
    <2> SUFFICES ASSUME NEW o \in Follower, NEW j \in owed'[o] \ got'[o]
                 PROVE  (/\ InRing(stream[o].last) /\ stream[o].last # 0 => Later(stream[o].last, j)
                         /\ stream[o].stage = "live" \/ (stream[o].stage = "new" /\ stream[o].last = 0)
                              => Reached(o, j)
                         /\ ~(stream[o].stage = "away" /\ stream[o].last = 0))'
        BY DEF Missing
    <2>1. CASE o # c
        <3>1. /\ InRing(stream[o].last) /\ stream[o].last # 0 => Later(stream[o].last, j)
              /\ stream[o].stage = "live" \/ (stream[o].stage = "new" /\ stream[o].last = 0)
                   => Reached(o, j)
              /\ ~(stream[o].stage = "away" /\ stream[o].last = 0)
            BY <2>1, <1>4 DEF Missing
        <3>2. Reached(o, j)' = Reached(o, j)
            BY <2>1, <1>11 DEF Reached
        <3> QED
            BY <2>1, <3>1, <3>2, <1>2, <1>8
    <2>2. CASE o = c
        <3>1. /\ InRing(s.last) /\ s.last # 0 => Later(s.last, j)
              /\ s.stage = "live" \/ (s.stage = "new" /\ s.last = 0)
                   => \/ \E p \in DOMAIN s.channel : s.channel[p] = j
                      \/ j \in DOMAIN emit /\ <<c, s.visit>> \in emit[j].to
              /\ ~(s.stage = "away" /\ s.last = 0)
            BY <2>2, <1>0
        <3>2. (\E p \in DOMAIN s.channel : s.channel[p] = j) => InChannel(c, j)'
            BY <1>2 DEF InChannel
        <3>3. j \in DOMAIN emit /\ <<c, s.visit>> \in emit[j].to => Pending(c, j)'
            BY <1>2 DEF Pending
        <3>4. s.stage = "live" \/ (s.stage = "new" /\ s.last = 0) => Reached(c, j)'
            BY <3>1, <3>2, <3>3 DEF Reached
        <3> QED
            BY <2>2, <3>1, <3>4, <1>2, <1>8
    <2> QED
        BY <2>1, <2>2
<1> QED
    BY <1>13, <1>14, <1>15, <1>16 DEF StreamTold


\* The empty channel of one who has just come, or gone.
LEMMA EmptyChannel ==
    ASSUME NEW c, NEW s, s.channel = <<>>
    PROVE  EndsAs(s.channel, stream[c].channel)
<1>1. DOMAIN s.channel = {} /\ 0 \in Nat
    OBVIOUS
<1> QED
    BY <1>1 DEF EndsAs

LEMMA SameChannel ==
    ASSUME EventsTyped, NEW c \in Follower, NEW s, s.channel = stream[c].channel
    PROVE  EndsAs(s.channel, stream[c].channel)
<1>1. stream[c].channel \in Seq(Nat)
    BY DEF EventsTyped, StreamOf
<1>2. \A p \in DOMAIN stream[c].channel : p + 0 = p
    BY <1>1, LenProperties
<1>3. 0 \in Nat
    OBVIOUS
<1> QED
    BY <1>2, <1>3 DEF EndsAs

LEMMA SubscribeKeeps ==
    ASSUME StreamInv, NEW c \in Follower, Subscribe(c)
    PROVE  StreamInv'
<1> DEFINE s == [stream[c] EXCEPT !.stage = "new", !.visit = stream[c].visit + 1, !.channel = <<>>]
<1>1. /\ stream[c].stage = "away" /\ UNCHANGED <<ring, emit, got, owed, upset>>
      /\ stream' = [stream EXCEPT ![c] = s]
    BY DEF Subscribe
<1>2. EventsTyped /\ stream[c] \in StreamOf
    BY DEF StreamInv, EventsTyped
<1>3. /\ s \in StreamOf /\ s.stage = "new" /\ s.visit = stream[c].visit + 1
      /\ s.last = stream[c].last /\ s.channel = <<>>
    <2>1. stream[c].visit + 1 \in Nat /\ <<>> \in Seq(Nat)
        BY <1>2 DEF StreamOf
    <2> QED
        BY <1>2, <2>1 DEF StreamOf
<1> HIDE DEF s
<1>4. upset' = {} => /\ s.last # 0 => Published(s.last)
                     /\ \A j \in owed[c] \ got[c] :
                          /\ InRing(s.last) /\ s.last # 0 => Later(s.last, j)
                          /\ s.last # 0
    BY <1>1, <1>3 DEF StreamInv, StreamTold, RingTold, Missing
<1>5. got' \in [Follower -> SUBSET Nat] /\ owed' \in [Follower -> SUBSET Nat]
    BY <1>1, <1>2 DEF EventsTyped
<1>6. EndsAs(s.channel, stream[c].channel)
    BY <1>3, EmptyChannel
<1>7. ClientTold(c, s)
    BY <1>1, <1>3, <1>4 DEF ClientTold
<1> QED
    BY <1>1, <1>3, <1>5, <1>6, <1>7, ClientOnly

LEMMA UnsubscribeKeeps ==
    ASSUME StreamInv, NEW c \in Follower, Unsubscribe(c)
    PROVE  StreamInv'
<1> DEFINE s == [stream[c] EXCEPT !.stage = "away", !.channel = <<>>]
<1>1. /\ UNCHANGED <<ring, emit, got, upset>> /\ stream' = [stream EXCEPT ![c] = s]
      /\ owed' = IF stream[c].last = 0 THEN [owed EXCEPT ![c] = {}] ELSE owed
    BY DEF Unsubscribe
<1>2. EventsTyped /\ stream[c] \in StreamOf
    BY DEF StreamInv, EventsTyped
<1>3. /\ s \in StreamOf /\ s.stage = "away" /\ s.visit = stream[c].visit
      /\ s.last = stream[c].last /\ s.channel = <<>>
    <2>1. <<>> \in Seq(Nat)
        OBVIOUS
    <2> QED
        BY <1>2, <2>1 DEF StreamOf
<1> HIDE DEF s
<1>4. /\ owed' \in [Follower -> SUBSET Nat] /\ got' \in [Follower -> SUBSET Nat]
      /\ \A o \in Follower : o # c => got'[o] = got[o] /\ owed'[o] = owed[o]
      /\ owed'[c] \subseteq owed[c]
      /\ stream[c].last = 0 => owed'[c] = {}
    BY <1>1, <1>2 DEF EventsTyped
<1>5. upset' = {} => /\ s.last # 0 => Published(s.last)
                     /\ \A j \in owed[c] \ got[c] : InRing(s.last) /\ s.last # 0 => Later(s.last, j)
    BY <1>1, <1>3 DEF StreamInv, StreamTold, RingTold, Missing
<1>6. EndsAs(s.channel, stream[c].channel)
    <2>1. s.channel = <<>>
        BY <1>3
    <2> QED
        BY <2>1, EmptyChannel
<1>7. ClientTold(c, s)
    BY <1>1, <1>3, <1>4, <1>5 DEF ClientTold
<1> QED
    BY <1>1, <1>3, <1>4, <1>5, <1>6, <1>7, ClientOnly

\* A set of numbers up to some n has a greatest one.
LEMMA GreatestIn ==
    ASSUME NEW n \in Nat, NEW S \in SUBSET (0 .. n), S # {}
    PROVE  Max(S) \in S /\ \A z \in S : z <= Max(S)
<1> DEFINE D == {n - x : x \in S}
<1>1. D \subseteq Nat /\ D # {}
    <2>1. \A x \in S : n - x \in Nat
        OBVIOUS
    <2> QED
        BY <2>1
<1>2. PICK least \in D : \A k \in D : ~(<<k, least>> \in OpToRel(<, Nat))
    <2> HIDE DEF D
    <2> QED
        BY <1>1, NatLessThanWellFounded, WFMin
<1>3. \A k \in D : ~(k < least)
    BY <1>1, <1>2 DEF OpToRel
<1>4. PICK y \in S : least = n - y
    OBVIOUS
<1>5. \A z \in S : y >= z
    <2> TAKE z \in S
    <2>1. ~(n - z < n - y)
        BY <1>3, <1>4
    <2> QED
        BY <2>1
<1>6. Max(S) \in S /\ \A z \in S : Max(S) >= z
    BY <1>5 DEF Max
<1> QED
    BY <1>6

\* A set of places has a last one.
LEMMA LastPlace ==
    ASSUME NEW n \in Nat, NEW S \in SUBSET (1 .. n), S # {}
    PROVE  Max(S) \in S
<1>1. S \in SUBSET (0 .. n)
    OBVIOUS
<1> QED
    BY <1>1, GreatestIn

LEMMA ReplayKeeps ==
    ASSUME StreamInv, NEW c \in Follower, ReplayAll(c)
    PROVE  StreamInv'
<1> DEFINE missed == IF stream[c].last = 0 THEN {} ELSE ReplaySince(stream[c].last, c)
           last == IF missed = {} THEN stream[c].last ELSE ring[Max(missed)]
           s == [stream[c] EXCEPT !.stage = "live", !.last = last]
           sent == {ring[p] : p \in missed}
<1>1. /\ stream[c].stage = "new" /\ UNCHANGED <<ring, emit, owed>>
      /\ got' = [got EXCEPT ![c] = @ \cup sent]
      /\ upset' = upset \cup IF stream[c].last # 0 /\ stream[c].last \notin ToSet(ring)
                             THEN {"unknown"} ELSE {}
    BY DEF ReplayAll
<1>2. stream' = [stream EXCEPT ![c] = s]
    BY DEF ReplayAll
<1>3. EventsTyped /\ stream[c] \in StreamOf
    BY DEF StreamInv, EventsTyped
<1>4. ring \in Seq(Nat) /\ DOMAIN ring = 1 .. Len(ring) /\ Len(ring) \in Nat
    BY <1>3, LenProperties DEF EventsTyped
<1>5. missed \subseteq DOMAIN ring
    BY DEF ReplaySince
<1>6. missed # {} => Max(missed) \in DOMAIN ring
    <2> HIDE DEF missed
    <2> QED
        BY <1>4, <1>5, LastPlace
<1>7. last \in Nat /\ sent \subseteq Nat
    <2>1. stream[c].last \in Nat
        BY <1>3 DEF StreamOf
    <2>2. \A p \in DOMAIN ring : ring[p] \in Nat
        BY <1>4
    <2> HIDE DEF missed
    <2> QED
        BY <1>5, <1>6, <2>1, <2>2
<1>8. last = stream[c].last \/ \E p \in DOMAIN ring : last = ring[p]
    <2> HIDE DEF missed
    <2> QED
        BY <1>6
<1>9. ASSUME stream[c].last # 0, NEW j, Later(stream[c].last, j), Follows(c, j)
      PROVE  j \in sent
    <2>1. PICK p, q \in DOMAIN ring : p < q /\ ring[p] = stream[c].last /\ ring[q] = j
        BY <1>9 DEF Later
    <2>2. p \in 1 .. q - 1
        BY <2>1, <1>4
    <2>3. q \in missed
        BY <1>9, <2>1, <2>2 DEF ReplaySince
    <2> HIDE DEF missed
    <2> QED
        BY <2>1, <2>3
<1> HIDE DEF missed, last, sent
<1>10. /\ s \in StreamOf /\ s.stage = "live" /\ s.visit = stream[c].visit
       /\ s.last = last /\ s.channel = stream[c].channel
    BY <1>3, <1>7 DEF StreamOf
<1> HIDE DEF s
<1>11. /\ got' \in [Follower -> SUBSET Nat] /\ owed' \in [Follower -> SUBSET Nat]
       /\ \A o \in Follower : o # c => got'[o] = got[o] /\ owed'[o] = owed[o]
       /\ got'[c] = got[c] \cup sent
    BY <1>1, <1>3, <1>7 DEF EventsTyped
<1>12. EndsAs(s.channel, stream[c].channel)
    BY <1>3, <1>10, SameChannel
<1>13. ASSUME upset' = {} PROVE s.last # 0 => Published(s.last)
    BY <1>1, <1>8, <1>10, <1>13 DEF StreamInv, StreamTold, RingTold
<1>14. ASSUME upset' = {}, NEW j \in owed'[c] \ got'[c]
       PROVE  /\ stream[c].last = 0
              /\ \/ \E p \in DOMAIN s.channel : s.channel[p] = j
                 \/ j \in DOMAIN emit /\ <<c, s.visit>> \in emit[j].to
    <2>1. RingTold /\ Missing /\ j \in owed[c] \ got[c] /\ j \notin sent
        BY <1>1, <1>11, <1>14 DEF StreamInv, StreamTold
    <2>2. Follows(c, j)
        BY <2>1 DEF RingTold
    <2>3. stream[c].last # 0 => InRing(stream[c].last)
        BY <1>1, <1>14 DEF InRing, ToSet
    <2>4. stream[c].last = 0
        BY <1>9, <2>1, <2>2, <2>3 DEF Missing
    <2>5. Reached(c, j)
        BY <1>1, <2>1, <2>4 DEF Missing
    <2> QED
        BY <1>10, <2>1, <2>4, <2>5 DEF Reached, InChannel, Pending
<1>15. stream[c].last = 0 => last = 0
    BY DEF last, missed
<1>16. ClientTold(c, s)
    BY <1>10, <1>13, <1>14, <1>15 DEF ClientTold
<1>17. upset \subseteq upset' /\ owed'[c] \subseteq owed[c]
    BY <1>1
<1> QED
    BY <1>1, <1>2, <1>10, <1>11, <1>12, <1>16, <1>17, ClientOnly

LEMMA ReceiveKeeps ==
    ASSUME StreamInv, NEW c \in Follower, Receive(c)
    PROVE  StreamInv'
<1> DEFINE ch == stream[c].channel
           i == Head(ch)
           s == [stream[c] EXCEPT !.channel = Tail(ch), !.last = i]
<1>1. /\ stream[c].stage = "live" /\ ch # <<>> /\ UNCHANGED <<ring, emit, owed, upset>>
      /\ got' = [got EXCEPT ![c] = @ \cup {i}] /\ stream' = [stream EXCEPT ![c] = s]
    BY DEF Receive
<1>2. EventsTyped /\ stream[c] \in StreamOf
    BY DEF StreamInv, EventsTyped
<1>3. ch \in Seq(Nat)
    BY <1>2 DEF StreamOf
<1>4. /\ i \in Nat /\ Tail(ch) \in Seq(Nat) /\ i = ch[1] /\ DOMAIN ch = 1 .. Len(ch) /\ Len(ch) \in Nat \ {0}
      /\ DOMAIN Tail(ch) = 1 .. Len(ch) - 1
      /\ \A p \in 1 .. Len(ch) - 1 : Tail(ch)[p] = ch[p + 1]
    <2> HIDE DEF ch
    <2>1. /\ Head(ch) \in Nat /\ Tail(ch) \in Seq(Nat) /\ Len(Tail(ch)) = Len(ch) - 1
          /\ \A p \in 1 .. Len(Tail(ch)) : Tail(ch)[p] = ch[p + 1]
        BY <1>1, <1>3, HeadTailProperties
    <2>2. Head(ch) = ch[1]
        BY <1>1, <1>3
    <2>3. Len(ch) \in Nat \ {0} /\ DOMAIN ch = 1 .. Len(ch)
        BY <1>1, <1>3, EmptySeq, LenProperties
    <2>4. DOMAIN Tail(ch) = 1 .. Len(Tail(ch))
        BY <2>1, LenProperties
    <2> QED
        BY <2>1, <2>2, <2>3, <2>4
<1>5. /\ s \in StreamOf /\ s.stage = "live" /\ s.visit = stream[c].visit
      /\ s.last = i /\ s.channel = Tail(ch)
    BY <1>1, <1>2, <1>4 DEF StreamOf
<1> HIDE DEF s, i, ch
<1>6. /\ got' \in [Follower -> SUBSET Nat] /\ owed' \in [Follower -> SUBSET Nat]
      /\ \A o \in Follower : o # c => got'[o] = got[o] /\ owed'[o] = owed[o]
      /\ got'[c] = got[c] \cup {i}
    BY <1>1, <1>2, <1>4 DEF EventsTyped
<1>7. \A p \in DOMAIN s.channel : p + 1 \in DOMAIN ch /\ s.channel[p] = ch[p + 1]
    BY <1>4, <1>5
<1>8. EndsAs(s.channel, stream[c].channel)
    <2>1. 1 \in Nat
        OBVIOUS
    <2> QED
        BY <1>7, <2>1 DEF ch, EndsAs
<1>9. 1 \in DOMAIN ch
    BY <1>4
<1>10. ASSUME upset' = {} PROVE Published(s.last)
    BY <1>1, <1>4, <1>5, <1>9, <1>10 DEF StreamInv, StreamTold, RingTold, ch
<1>11. ASSUME upset' = {}, NEW j \in owed'[c] \ got'[c]
       PROVE  /\ InRing(s.last) => Later(s.last, j)
              /\ \/ \E p \in DOMAIN s.channel : s.channel[p] = j
                 \/ j \in DOMAIN emit /\ <<c, s.visit>> \in emit[j].to
    <2>1. NewestSent /\ ChannelOrdered /\ Missing /\ j \in owed[c] \ got[c] /\ j # i
        BY <1>1, <1>6, <1>11 DEF StreamInv, StreamTold
    <2>2. InChannel(c, j) \/ Pending(c, j)
        BY <1>1, <2>1 DEF Missing, Reached
    <2>3. CASE InChannel(c, j)
        <3>1. PICK p \in DOMAIN ch : ch[p] = j
            BY <2>3 DEF InChannel, ch
        <3>2. p > 1 /\ p - 1 \in 1 .. Len(ch) - 1 /\ (p - 1) + 1 = p
            BY <3>1, <2>1, <1>4
        <3>3. p - 1 \in DOMAIN s.channel /\ s.channel[p - 1] = j
            BY <3>1, <3>2, <1>4, <1>5
        <3>4. InRing(ch[1]) => Later(ch[1], ch[p])
            BY <3>1, <3>2, <1>9, <2>1 DEF ChannelOrdered, ch
        <3> QED
            BY <3>1, <3>3, <3>4, <1>4, <1>5
    <2>4. CASE Pending(c, j)
        <3>1. j \in DOMAIN emit /\ <<c, s.visit>> \in emit[j].to
            BY <2>4, <1>5 DEF Pending
        <3>2. ring[Len(ring)] = j /\ ring # <<>>
            BY <3>1, <2>1 DEF NewestSent
        <3>3. ASSUME InRing(i) PROVE Later(i, j)
            <4>1. PICK p \in DOMAIN ring : ring[p] = i
                BY <3>3 DEF InRing
            <4>2. DOMAIN ring = 1 .. Len(ring) /\ Len(ring) \in Nat
                BY <1>2, LenProperties DEF EventsTyped
            <4>3. p < Len(ring) /\ Len(ring) \in DOMAIN ring
                BY <2>1, <3>2, <4>1, <4>2
            <4> QED
                BY <3>2, <4>1, <4>3 DEF Later
        <3> QED
            BY <3>1, <3>3, <1>5
    <2> QED
        BY <2>2, <2>3, <2>4
<1>12. ClientTold(c, s)
    BY <1>5, <1>10, <1>11 DEF ClientTold
<1>13. upset \subseteq upset' /\ owed'[c] \subseteq owed[c]
    BY <1>1
<1> QED
    BY <1>1, <1>5, <1>6, <1>8, <1>12, <1>13, ClientOnly


LEMMA CrashKeeps ==
    ASSUME StreamInv, Crash
    PROVE  StreamInv'
<1>1. EventsTyped /\ upset' # {}
    BY DEF StreamInv, Crash
<1>2. /\ ring' = <<>> /\ UNCHANGED got /\ owed' = [c \in Follower |-> {}]
      /\ stream' = [c \in Follower |-> [stream[c] EXCEPT !.stage = "away", !.channel = <<>>]]
      /\ emit' = [i \in DOMAIN emit |-> IF emit[i].stage \in {"publish", "send"}
                                        THEN [emit[i] EXCEPT !.stage = "lost", !.to = {}] ELSE emit[i]]
    BY DEF Crash
<1>3. emit \in Seq(Emission) /\ DOMAIN emit = 1 .. Len(emit) /\ Len(emit) \in Nat
    BY <1>1, LenProperties DEF EventsTyped
<1>4. ASSUME NEW i \in DOMAIN emit
      PROVE  /\ emit'[i] \in Emission
             /\ emit'[i].stage # "send" => emit'[i].to = {}
    <2>1. emit[i] \in Emission
        BY <1>3, ElementOfSeq
    <2>2. "lost" \in EmissionStage /\ {} \in SUBSET (Follower \X Nat)
        BY DEF EmissionStage
    <2>3. CASE emit[i].stage \in {"publish", "send"}
        <3>1. emit'[i] = [emit[i] EXCEPT !.stage = "lost", !.to = {}]
            BY <1>2, <2>3
        <3> QED
            BY <2>1, <2>2, <3>1 DEF Emission
    <2>4. CASE emit[i].stage \notin {"publish", "send"}
        BY <1>1, <1>2, <2>1, <2>4 DEF EventsTyped
    <2> QED
        BY <2>3, <2>4
<1>5. DOMAIN emit' = 1 .. Len(emit) /\ emit' \in Seq(Emission)
    <2>1. DOMAIN emit' = 1 .. Len(emit)
        BY <1>2, <1>3
    <2>2. emit' \in [1 .. Len(emit) -> Emission]
        BY <1>2, <1>3, <1>4
    <2> QED
        BY <1>3, <2>1, <2>2
<1>6. stream' \in [Follower -> StreamOf]
    <2>1. <<>> \in Seq(Nat)
        OBVIOUS
    <2>2. \A c \in Follower : [stream[c] EXCEPT !.stage = "away", !.channel = <<>>] \in StreamOf
        BY <1>1, <2>1 DEF EventsTyped, StreamOf
    <2> QED
        BY <1>2, <2>2
<1>7. ring' \in Seq(Nat)
    <2>1. <<>> \in Seq(Nat)
        OBVIOUS
    <2> QED
        BY <1>2, <2>1
<1>8. EventsTyped'
    BY <1>1, <1>2, <1>3, <1>4, <1>5, <1>6, <1>7 DEF EventsTyped
<1> QED
    BY <1>1, <1>8 DEF StreamInv

LEMMA SendOnClosedKeeps ==
    ASSUME StreamInv, NEW i \in DOMAIN emit, SendOnClosed(i)
    PROVE  StreamInv'
<1>1. /\ emit' = [emit EXCEPT ![i].stage = "panicked", ![i].to = {}]
      /\ upset' = upset \cup {"panicked"} /\ UNCHANGED hubVars /\ emit[i].stage = "send"
    BY DEF SendOnClosed
<1>2. EventsTyped /\ "panicked" \in EmissionStage /\ {} \in SUBSET (Follower \X Nat)
    BY DEF StreamInv, EmissionStage
<1>3. /\ emit' \in Seq(Emission) /\ DOMAIN emit' = DOMAIN emit
      /\ emit'[i].stage = "panicked" /\ emit'[i].to = {}
      /\ \A j \in DOMAIN emit : j # i => emit'[j] = emit[j]
    BY <1>1, <1>2, EmissionSet
<1>4. EventsTyped'
    BY <1>1, <1>2, <1>3 DEF EventsTyped, hubVars
<1> QED
    BY <1>1, <1>4 DEF StreamInv

LEMMA EnqueueKeeps ==
    ASSUME StreamInv, NEW i \in DOMAIN emit, Enqueue(i)
    PROVE  StreamInv'
<1>1. PICK stage \in {"queued", "shed"} : emit' = [emit EXCEPT ![i].stage = stage]
    BY DEF Enqueue
<1>2. UNCHANGED <<hubVars, upset>> /\ emit[i].to = {} /\ EventsTyped
    BY DEF Enqueue, StreamInv
<1>3. emit[i] \in Emission /\ emit \in Seq(Emission)
    BY <1>2, LenProperties, ElementOfSeq DEF EventsTyped
<1>4. emit' = [emit EXCEPT ![i].stage = stage, ![i].to = {}]
    BY <1>1, <1>2, <1>3 DEF Emission
<1>5. stage \in EmissionStage /\ {} \in SUBSET (Follower \X Nat)
    BY DEF EmissionStage
<1>6. /\ emit' \in Seq(Emission) /\ DOMAIN emit' = DOMAIN emit
      /\ emit'[i].stage = stage /\ emit'[i].to = {}
      /\ \A j \in DOMAIN emit : emit'[j].topic = emit[j].topic
      /\ \A j \in DOMAIN emit : j # i => emit'[j] = emit[j]
    BY <1>2, <1>4, <1>5, EmissionSet
<1>7. EventsTyped'
    BY <1>2, <1>6 DEF EventsTyped, hubVars
<1>8. \A j \in DOMAIN emit : emit'[j].to = emit[j].to /\ (emit[j].stage # "publish" => emit'[j].stage # "publish")
    BY <1>2, <1>6
<1> QED
    BY <1>2, <1>6, <1>7, <1>8, EmissionsOnly

\* What leaves the emissions and the streams alone.
LEMMA StreamsStay ==
    ASSUME StreamInv, UNCHANGED <<hubVars, emit>>, upset \subseteq upset'
    PROVE  StreamInv'
<1>1. EventsTyped'
    BY DEF StreamInv, EventsTyped, hubVars
<1> QED
    BY <1>1, EmissionsOnly

LEMMA StreamStep == StreamInv /\ [EventsNext]_eventVars => StreamInv'
<1> SUFFICES ASSUME StreamInv, [EventsNext]_eventVars PROVE StreamInv'
    OBVIOUS
<1>1. CASE Crash
    BY <1>1, CrashKeeps
<1>2. CASE Emitting
    BY <1>2, PublishKeeps, SendKeeps, SendOnClosedKeeps, EnqueueKeeps DEF Emitting
<1>3. CASE \E t \in Topic : Emit(t)
    BY <1>3, EmitKeeps
<1>4. CASE StreamNext
    BY <1>4, SubscribeKeeps, ReplayKeeps, ReceiveKeeps, UnsubscribeKeeps DEF StreamNext
<1>5. CASE HookNext
    <2>1. UNCHANGED <<hubVars, emit>> /\ upset \subseteq upset'
        BY <1>5 DEF HookNext, Delivering, TakeEvent, TakeUnlisted, postOnce, Retry, GiveUp,
                    GiveUpGarbled, LoseLetter, GiveUpUnrotated
    <2> QED
        BY <2>1, StreamsStay
<1>6. CASE UNCHANGED eventVars
    BY <1>6, StreamsStay DEF eventVars, hubVars
<1> QED
    BY <1>1, <1>2, <1>3, <1>4, <1>5, <1>6 DEF EventsNext, EmissionNext

LEMMA StreamsServed == StreamInv => NothingMissed
<1> SUFFICES ASSUME StreamInv, upset = {}, NEW c \in Follower, stream[c].stage = "live", NEW i \in owed[c]
             PROVE  i \in got[c] \cup ToSet(stream[c].channel)
                            \cup {j \in DOMAIN emit : <<c, stream[c].visit>> \in emit[j].to}
    BY DEF NothingMissed
<1>1. i \notin got[c] => Reached(c, i)
    BY DEF StreamInv, StreamTold, Missing
<1> QED
    BY <1>1 DEF Reached, InChannel, Pending, ToSet

\* A client that is connected and has been replayed what it missed has, or will be handed,
\* every event it follows since the first it saw: whatever the sizes of ring and channels.
THEOREM NothingIsMissed == EventsSpec => []NothingMissed
<1>1. EventsInit /\ [][EventsNext]_eventVars => []StreamInv
    BY StreamsInitially, StreamStep, PTL
<1> QED
    BY <1>1, StreamsServed, PTL DEF EventsSpec


\* The webhooks: what the queue and the workers have in hand was published.
WorkOf == [event : Nat, hooks : SUBSET DOMAIN Webhook, attempt : Nat]
HooksTyped ==
    /\ queue \in Seq(Nat) /\ worker \in [Worker -> WorkOf]
    /\ \A p \in DOMAIN queue : Published(queue[p])
    /\ \A w \in Worker : InWork(w) => Published(worker[w].event)
\* Of an event in hand every webhook it is for is left, or settled, or lost.
Settlement == settled \cup lost
WorkLeft ==
    \A w \in Worker : InWork(w) =>
      \A k \in DOMAIN Webhook : Takes(Webhook[k], emit[worker[w].event].topic) =>
        k \in worker[w].hooks \/ <<worker[w].event, Webhook[k].id>> \in Settlement
QueueTold ==
    upset \cap {"unlisted", "crashed"} = {} =>
      \A i \in DOMAIN emit : emit[i].stage = "queued" => InHand(i) \/ SettledFor(i)
\* The two files are the end of what was written off: all of it, or at least a file's worth.
IsEnd(end, all, n) ==
    /\ Len(all) = n + Len(end)
    /\ \A p \in 1 .. Len(end) : end[p] = all[n + p]
    /\ n # 0 => Len(end) >= LetterLimit
EndOf(files, all, pairs) ==
    /\ files \in [now : Seq(pairs), old : Seq(pairs), torn : BOOLEAN] /\ all \in Seq(pairs)
    /\ \E n \in Nat : IsEnd(files.old \o files.now, all, n)
LettersTold == EndOf(letters, buried, settled)
HookInv == HooksTyped /\ WorkLeft /\ QueueTold /\ LettersTold

LEMMA HooksInitially == EventsInit => HookInv
<1> SUFFICES ASSUME EventsInit PROVE HookInv
    OBVIOUS
<1>1. /\ queue = <<>> /\ worker = [w \in Worker |-> NoWork] /\ emit = <<>> /\ buried = <<>>
      /\ letters = [now |-> <<>>, old |-> <<>>, torn |-> FALSE]
    BY DEF EventsInit
<1>2. NoWork \in WorkOf /\ NoWork.hooks = {}
    BY DEF NoWork, WorkOf
<1>3. \A w \in Worker : ~InWork(w)
    BY <1>1, <1>2 DEF InWork
<1>4. DOMAIN queue = {} /\ DOMAIN emit = {} /\ queue \in Seq(Nat)
    <2>1. <<>> \in Seq(Nat)
        OBVIOUS
    <2> QED
        BY <1>1, <2>1
<1>5. HooksTyped /\ WorkLeft /\ QueueTold
    BY <1>1, <1>2, <1>3, <1>4 DEF HooksTyped, WorkLeft, QueueTold
<1>6. LettersTold
    <2>1. <<>> \in Seq(settled) /\ <<>> \o <<>> = <<>> /\ Len(<<>>) = 0 /\ 0 \in Nat /\ 0 = 0 + 0
        BY EmptySeq, ConcatEmptySeq
    <2>2. letters.now = <<>> /\ letters.old = <<>>
        BY <1>1
    <2>3. letters \in [now : Seq(settled), old : Seq(settled), torn : BOOLEAN] /\ buried \in Seq(settled)
        BY <1>1, <2>1
    <2>4. \A p \in 1 .. 0 : FALSE
        OBVIOUS
    <2>5. IsEnd(<<>>, <<>>, 0)
        BY <2>1, <2>4 DEF IsEnd
    <2>6. letters.old \o letters.now = <<>>
        BY <2>1, <2>2
    <2> QED
        BY <1>1, <2>3, <2>5, <2>6 DEF LettersTold, EndOf
<1> QED
    BY <1>5, <1>6 DEF HookInv

\* Emissions go on, and no webhook's affairs.
LEMMA HooksStay ==
    ASSUME HookInv, UNCHANGED hookVars, upset \subseteq upset',
           \A i \in DOMAIN emit : /\ i \in DOMAIN emit' /\ emit'[i].topic = emit[i].topic
                                  /\ emit[i].stage # "publish" => emit'[i].stage # "publish",
           \A i \in DOMAIN emit' : emit'[i].stage = "queued" => i \in DOMAIN emit /\ emit[i].stage = "queued"
    PROVE  HookInv'
<1>1. /\ queue' = queue /\ worker' = worker /\ settled' = settled /\ letters' = letters /\ buried' = buried
      /\ lost' = lost /\ Settlement' = Settlement
    BY DEF hookVars, Settlement
<1>2. \A w : InWork(w)' = InWork(w)
    BY <1>1 DEF InWork
<1>3. HooksTyped'
    BY <1>1, <1>2 DEF HookInv, HooksTyped, Published
<1>4. WorkLeft'
    <2>1. ASSUME NEW w \in Worker, InWork(w)
          PROVE  emit'[worker[w].event].topic = emit[worker[w].event].topic
        BY <2>1 DEF HookInv, HooksTyped, Published
    <2> QED
        BY <1>1, <1>2, <2>1 DEF HookInv, WorkLeft
<1>5. QueueTold'
    <2>1. ASSUME NEW i \in DOMAIN emit PROVE InHand(i)' = InHand(i) /\ (SettledFor(i) => SettledFor(i)')
        BY <1>1, <1>2 DEF InHand, SettledFor
    <2> QED
        BY <2>1 DEF HookInv, QueueTold
<1>6. LettersTold'
    BY <1>1 DEF HookInv, LettersTold
<1> QED
    BY <1>3, <1>4, <1>5, <1>6 DEF HookInv

LEMMA EmissionHooks ==
    ASSUME EventsTyped, HookInv, \/ \E t \in Topic : Emit(t)
                                 \/ \E i \in DOMAIN emit : Publish(i) \/ Send(i) \/ SendOnClosed(i)
    PROVE  HookInv'
<1>1. CASE \E t \in Topic : Emit(t)
    <2>1. PICK t \in Topic : emit' = Append(emit, [topic |-> t, stage |-> "publish", to |-> {}])
        BY <1>1 DEF Emit
    <2> DEFINE e == [topic |-> t, stage |-> "publish", to |-> {}]
    <2>2. e \in Emission /\ e.stage = "publish"
        <3>1. "publish" \in EmissionStage /\ {} \in SUBSET (Follower \X Nat)
            BY DEF EmissionStage
        <3> QED
            BY <3>1 DEF Emission
    <2> HIDE DEF e
    <2>3. emit' = Append(emit, e) /\ emit \in Seq(Emission)
        BY <2>1 DEF e, EventsTyped
    <2>4. /\ DOMAIN emit = 1 .. Len(emit) /\ DOMAIN emit' = 1 .. Len(emit) + 1 /\ Len(emit) \in Nat
          /\ emit'[Len(emit) + 1] = e /\ \A i \in DOMAIN emit : emit'[i] = emit[i]
        BY <2>2, <2>3, AppendProperties, LenProperties
    <2>5. UNCHANGED hookVars /\ upset' = upset
        BY <1>1 DEF Emit
    <2> QED
        BY <2>2, <2>4, <2>5, HooksStay
<1>2. ASSUME NEW i \in DOMAIN emit, Publish(i) \/ Send(i) \/ SendOnClosed(i)
      PROVE  HookInv'
    <2>1. emit \in Seq(Emission) /\ DOMAIN emit = 1 .. Len(emit) /\ emit[i] \in Emission
        BY LenProperties, ElementOfSeq DEF EventsTyped
    <2>2. \E stage \in {"send", "panicked"} :
            \E to : emit' = [emit EXCEPT ![i].stage = stage, ![i].to = to]
        <3>1. CASE Publish(i)
            BY <3>1 DEF Publish
        <3>2. CASE Send(i)
            <4>1. PICK t \in emit[i].to : emit[i].stage = "send" /\ emit' = [emit EXCEPT ![i].to = @ \ {t}]
                BY <3>2 DEF Send
            <4>2. emit' = [emit EXCEPT ![i].stage = "send", ![i].to = emit[i].to \ {t}]
                BY <2>1, <4>1 DEF Emission
            <4> QED
                BY <4>2
        <3>3. CASE SendOnClosed(i)
            BY <3>3 DEF SendOnClosed
        <3> QED
            BY <1>2, <3>1, <3>2, <3>3
    <2>3. /\ DOMAIN emit' = DOMAIN emit /\ emit'[i].stage \in {"send", "panicked"}
          /\ emit'[i].topic = emit[i].topic
          /\ \A j \in DOMAIN emit : j # i => emit'[j] = emit[j]
        BY <2>1, <2>2 DEF Emission
    <2>4. UNCHANGED hookVars /\ upset \subseteq upset'
        BY <1>2 DEF Publish, Send, SendOnClosed
    <2> QED
        BY <2>3, <2>4, HooksStay
<1> QED
    BY <1>1, <1>2

LEMMA EnqueueHooks ==
    ASSUME EventsTyped, HookInv, NEW i \in DOMAIN emit, Enqueue(i)
    PROVE  HookInv'
<1>1. emit \in Seq(Emission) /\ DOMAIN emit = 1 .. Len(emit) /\ emit[i] \in Emission /\ i \in Nat
    BY LenProperties, ElementOfSeq DEF EventsTyped
<1>2. emit[i].stage = "send" /\ UNCHANGED <<worker, settled, letters, buried, lost, upset, Settlement>>
    BY DEF Enqueue, Settlement
<1>3. CASE emit' = [emit EXCEPT ![i].stage = "shed"] /\ UNCHANGED queue
    <2>1. /\ DOMAIN emit' = DOMAIN emit /\ emit'[i].stage = "shed" /\ emit'[i].topic = emit[i].topic
          /\ \A j \in DOMAIN emit : j # i => emit'[j] = emit[j]
        BY <1>1, <1>3 DEF Emission
    <2>2. UNCHANGED hookVars
        BY <1>2, <1>3 DEF hookVars
    <2> QED
        BY <1>2, <2>1, <2>2, HooksStay
<1>4. CASE emit' = [emit EXCEPT ![i].stage = "queued"] /\ queue' = Append(queue, i)
    <2>1. /\ DOMAIN emit' = DOMAIN emit /\ emit'[i].stage = "queued" /\ emit'[i].topic = emit[i].topic
          /\ \A j \in DOMAIN emit : j # i => emit'[j] = emit[j]
        BY <1>1, <1>4 DEF Emission
    <2>2. /\ queue \in Seq(Nat) /\ DOMAIN queue = 1 .. Len(queue) /\ Len(queue) \in Nat
        BY LenProperties DEF HookInv, HooksTyped
    <2>3. /\ queue' \in Seq(Nat) /\ DOMAIN queue' = 1 .. Len(queue) + 1 /\ queue'[Len(queue) + 1] = i
          /\ \A p \in DOMAIN queue : queue'[p] = queue[p]
        BY <1>1, <1>4, <2>2, AppendProperties, LenProperties
    <2>4. \A j : Published(j) => j \in DOMAIN emit' /\ emit'[j].stage # "publish" /\ emit'[j].topic = emit[j].topic
        BY <1>2, <2>1 DEF Published
    <2>5. \A w : InWork(w)' = InWork(w)
        BY <1>2 DEF InWork
    <2>6. HooksTyped'
        <3>1. ASSUME NEW p \in DOMAIN queue' PROVE queue'[p] \in DOMAIN emit' /\ emit'[queue'[p]].stage # "publish"
            <4>1. CASE p = Len(queue) + 1
                BY <4>1, <2>1, <2>3
            <4>2. CASE p \in DOMAIN queue
                BY <4>2, <2>3, <2>4 DEF HookInv, HooksTyped
            <4> QED
                BY <4>1, <4>2, <2>2, <2>3
        <3>2. ASSUME NEW w \in Worker, InWork(w) PROVE Published(worker[w].event)
            BY <3>2 DEF HookInv, HooksTyped
        <3>3. worker' \in [Worker -> WorkOf]
            BY <1>2 DEF HookInv, HooksTyped
        <3> QED
            BY <1>2, <2>3, <2>4, <2>5, <3>1, <3>2, <3>3 DEF HooksTyped, Published
    <2>7. WorkLeft'
        <3>1. ASSUME NEW w \in Worker, InWork(w)
              PROVE  emit'[worker[w].event].topic = emit[worker[w].event].topic
            BY <3>1, <2>4 DEF HookInv, HooksTyped
        <3> QED
            BY <1>2, <2>5, <3>1 DEF HookInv, WorkLeft
    <2>8. QueueTold'
        <3>1. ASSUME NEW j \in DOMAIN emit, j # i, emit[j].stage = "queued",
                     upset \cap {"unlisted", "crashed"} = {}
              PROVE  InHand(j)' \/ SettledFor(j)'
            <4>1. InHand(j) \/ SettledFor(j)
                BY <3>1 DEF HookInv, QueueTold
            <4>2. \A x \in ToSet(queue) : x \in ToSet(queue')
                BY <2>2, <2>3 DEF ToSet
            <4>3. InHand(j) => InHand(j)'
                BY <1>2, <2>5, <4>2 DEF InHand
            <4>4. SettledFor(j) => SettledFor(j)'
                BY <1>2, <2>1 DEF SettledFor
            <4> QED
                BY <4>1, <4>3, <4>4
        <3>2. InHand(i)'
            BY <2>2, <2>3 DEF InHand, ToSet
        <3> QED
            BY <1>2, <2>1, <3>1, <3>2 DEF QueueTold
    <2>9. LettersTold'
        BY <1>2 DEF HookInv, LettersTold
    <2> QED
        BY <2>6, <2>7, <2>8, <2>9 DEF HookInv
<1> QED
    BY <1>3, <1>4 DEF Enqueue


\* The head of the queue leaves it.
LEMMA QueueHead ==
    ASSUME HooksTyped, queue # <<>>
    PROVE  /\ Tail(queue) \in Seq(Nat) /\ Published(Head(queue)) /\ Head(queue) \in Nat
           /\ \A p \in DOMAIN Tail(queue) : Published(Tail(queue)[p])
           /\ ToSet(queue) \subseteq {Head(queue)} \cup ToSet(Tail(queue))
<1>1. queue \in Seq(Nat)
    BY DEF HooksTyped
<1>2. /\ Head(queue) \in Nat /\ Tail(queue) \in Seq(Nat) /\ Len(Tail(queue)) = Len(queue) - 1
      /\ \A p \in 1 .. Len(Tail(queue)) : Tail(queue)[p] = queue[p + 1]
    BY <1>1, HeadTailProperties
<1>3. Len(queue) \in Nat \ {0} /\ DOMAIN queue = 1 .. Len(queue) /\ Head(queue) = queue[1]
    BY <1>1, EmptySeq, LenProperties
<1>4. DOMAIN Tail(queue) = 1 .. Len(queue) - 1
    BY <1>2, LenProperties
<1>5. \A p \in DOMAIN queue : Published(queue[p])
    BY DEF HooksTyped
<1>6. \A p \in DOMAIN Tail(queue) : p + 1 \in DOMAIN queue /\ Tail(queue)[p] = queue[p + 1]
    BY <1>2, <1>3, <1>4
<1>7. \A p \in DOMAIN queue : p = 1 \/ (p - 1 \in DOMAIN Tail(queue) /\ Tail(queue)[p - 1] = queue[p])
    <2> TAKE p \in DOMAIN queue
    <2>1. p # 1 => p - 1 \in 1 .. Len(queue) - 1 /\ (p - 1) + 1 = p
        BY <1>3
    <2> QED
        BY <2>1, <1>2, <1>4
<1>8. 1 \in DOMAIN queue
    BY <1>3
<1>9. \A p \in DOMAIN Tail(queue) : Published(Tail(queue)[p])
    BY <1>5, <1>6
<1>10. ToSet(queue) \subseteq {Head(queue)} \cup ToSet(Tail(queue))
    BY <1>3, <1>7 DEF ToSet
<1>11. Published(Head(queue))
    BY <1>3, <1>5, <1>8
<1> QED
    BY <1>2, <1>9, <1>10, <1>11

LEMMA TakeHooks ==
    ASSUME HookInv, NEW w \in Worker, TakeEvent(w) \/ TakeUnlisted(w)
    PROVE  HookInv'
<1> DEFINE i == Head(queue)
<1>1. /\ worker[w].hooks = {} /\ queue # <<>> /\ queue' = Tail(queue)
      /\ UNCHANGED <<emit, settled, letters, buried, lost, Settlement>> /\ HooksTyped
    BY DEF TakeEvent, TakeUnlisted, HookInv, Settlement
<1>2. /\ queue' \in Seq(Nat) /\ Published(i) /\ i \in Nat
      /\ \A p \in DOMAIN queue' : Published(queue'[p])
      /\ ToSet(queue) \subseteq {i} \cup ToSet(queue')
    BY <1>1, QueueHead
<1>3. ~InWork(w) /\ worker \in [Worker -> WorkOf]
    BY <1>1 DEF InWork, HooksTyped
<1>4. \A j : Published(j)' = Published(j)
    BY <1>1 DEF Published
<1>5. LettersTold'
    BY <1>1 DEF HookInv, LettersTold
<1>6. \A j : SettledFor(j)' = SettledFor(j)
    BY <1>1 DEF SettledFor
<1>7. CASE TakeUnlisted(w)
    <2>1. worker' = worker /\ upset' = upset \cup {"unlisted"}
        BY <1>7 DEF TakeUnlisted
    <2>2. \A v : InWork(v)' = InWork(v)
        BY <2>1 DEF InWork
    <2>3. HooksTyped'
        BY <1>1, <1>2, <1>4, <2>1, <2>2 DEF HooksTyped
    <2>4. WorkLeft'
        BY <1>1, <2>1, <2>2 DEF HookInv, WorkLeft
    <2>5. QueueTold'
        BY <2>1 DEF QueueTold
    <2> QED
        BY <1>5, <2>3, <2>4, <2>5 DEF HookInv
<1>8. CASE TakeEvent(w)
    <2> DEFINE takers == {k \in DOMAIN Webhook : Takes(Webhook[k], emit[i].topic)}
    <2>1. worker' = [worker EXCEPT ![w] = [event |-> i, hooks |-> takers, attempt |-> 1]] /\ upset' = upset
        BY <1>8 DEF TakeEvent, deliverAll
    <2>2. [event |-> i, hooks |-> takers, attempt |-> 1] \in WorkOf
        BY <1>2 DEF WorkOf
    <2> HIDE DEF i
    <2>3. /\ worker' \in [Worker -> WorkOf]
          /\ worker'[w].event = i /\ worker'[w].hooks = takers
          /\ \A v \in Worker : v # w => worker'[v] = worker[v]
        BY <1>3, <2>1, <2>2
    <2>4. \A v \in Worker : v # w => InWork(v)' = InWork(v)
        BY <2>3 DEF InWork
    <2>5. InWork(w)' <=> takers # {}
        BY <2>3 DEF InWork
    <2>6. HooksTyped'
        <3>1. \A v \in Worker : InWork(v)' => Published(worker'[v].event)
            BY <1>1, <1>2, <2>3, <2>4 DEF HooksTyped
        <3> QED
            BY <1>2, <1>4, <2>3, <3>1 DEF HooksTyped
    <2>7. WorkLeft'
        <3>1. ASSUME NEW v \in Worker, InWork(v)', NEW k \in DOMAIN Webhook,
                     Takes(Webhook[k], emit[worker'[v].event].topic)
              PROVE  k \in worker'[v].hooks \/ <<worker'[v].event, Webhook[k].id>> \in Settlement
            <4>1. CASE v = w
                BY <3>1, <4>1, <2>3
            <4>2. CASE v # w
                BY <3>1, <4>2, <2>3, <2>4 DEF HookInv, WorkLeft
            <4> QED
                BY <4>1, <4>2
        <3> QED
            BY <1>1, <3>1 DEF WorkLeft
    <2>8. QueueTold'
        <3> SUFFICES ASSUME upset \cap {"unlisted", "crashed"} = {}, NEW j \in DOMAIN emit, emit[j].stage = "queued"
                     PROVE  InHand(j)' \/ SettledFor(j)
            BY <1>1, <1>6, <2>1 DEF QueueTold
        <3>1. InHand(j) \/ SettledFor(j)
            BY DEF HookInv, QueueTold
        <3>2. CASE j \in ToSet(queue')
            BY <3>2 DEF InHand
        <3>3. CASE j = i /\ j \in ToSet(queue)
            <4>1. takers = {} => SettledFor(j)
                BY <3>3 DEF SettledFor
            <4>2. takers # {} => InHand(j)'
                BY <3>3, <2>3, <2>5 DEF InHand
            <4> QED
                BY <4>1, <4>2
        <3>4. CASE \E v \in Worker : InWork(v) /\ worker[v].event = j
            <4>1. PICK v \in Worker : InWork(v) /\ worker[v].event = j
                BY <3>4
            <4>2. v # w /\ InWork(v)' /\ worker'[v].event = j
                BY <4>1, <1>3, <2>3, <2>4
            <4> QED
                BY <4>2 DEF InHand
        <3> QED
            BY <3>1, <3>2, <3>3, <3>4, <1>2 DEF InHand
    <2> QED
        BY <1>5, <2>6, <2>7, <2>8 DEF HookInv
<1> QED
    BY <1>7, <1>8

\* One webhook's delivery is done with.
LEMMA WorkGoesOn ==
    ASSUME HookInv, NEW w \in Worker, InWork(w), UNCHANGED <<emit, queue, upset>>,
           worker' = NextHook(w), Settlement' = Settlement \cup {Pair(w)}
    PROVE  HooksTyped' /\ WorkLeft' /\ QueueTold'
<1> DEFINE first == Min(worker[w].hooks)
           i == worker[w].event
           rest == worker[w].hooks \ {first}
<1>1. HooksTyped /\ WorkLeft /\ QueueTold /\ worker \in [Worker -> WorkOf] /\ worker[w] \in WorkOf
    BY DEF HookInv, HooksTyped
<1>2. Settlement' = Settlement \cup {<<i, Webhook[first].id>>}
    BY DEF Pair
<1>3. worker' = [worker EXCEPT ![w].hooks = rest, ![w].attempt = 1]
    BY DEF NextHook
<1>4. rest \in SUBSET DOMAIN Webhook
    BY <1>1 DEF WorkOf
<1>5. \A k \in worker[w].hooks : k \in rest \/ k = first
    OBVIOUS
<1> HIDE DEF first, rest
<1>6. /\ worker' \in [Worker -> WorkOf]
      /\ worker'[w].event = i /\ worker'[w].hooks = rest
      /\ \A v \in Worker : v # w => worker'[v] = worker[v]
    <2> DEFINE next == [worker[w] EXCEPT !.hooks = rest, !.attempt = 1]
    <2>1. next \in WorkOf /\ next.event = i /\ next.hooks = rest
        BY <1>1, <1>4 DEF WorkOf
    <2>2. worker' = [worker EXCEPT ![w] = next]
        BY <1>3
    <2> HIDE DEF next
    <2> QED
        BY <1>1, <2>1, <2>2
<1>7. \A v \in Worker : worker'[v].event = worker[v].event /\ (InWork(v)' => InWork(v))
    BY <1>6 DEF InWork
<1>8. HooksTyped'
    <2>1. \A j : Published(j)' = Published(j)
        BY DEF Published
    <2> QED
        BY <1>1, <1>6, <1>7, <2>1 DEF HooksTyped
<1>9. ASSUME NEW v \in Worker, InWork(v), NEW k \in DOMAIN Webhook,
             Takes(Webhook[k], emit[worker[v].event].topic)
      PROVE  k \in worker'[v].hooks \/ <<worker[v].event, Webhook[k].id>> \in Settlement'
    <2>1. k \in worker[v].hooks \/ <<worker[v].event, Webhook[k].id>> \in Settlement
        BY <1>1, <1>9 DEF WorkLeft
    <2>2. CASE v = w
        BY <2>1, <2>2, <1>2, <1>5, <1>6
    <2>3. CASE v # w
        BY <2>1, <2>3, <1>2, <1>6
    <2> QED
        BY <2>2, <2>3
<1>10. WorkLeft'
    BY <1>7, <1>9 DEF WorkLeft
<1>11. QueueTold'
    <2> SUFFICES ASSUME upset \cap {"unlisted", "crashed"} = {}, NEW j \in DOMAIN emit, emit[j].stage = "queued"
                 PROVE  InHand(j)' \/ SettledFor(j)'
        BY DEF QueueTold
    <2>1. InHand(j) \/ SettledFor(j)
        BY <1>1 DEF QueueTold
    <2>2. CASE SettledFor(j)
        BY <2>2, <1>2 DEF SettledFor, Settlement
    <2>3. CASE j \in ToSet(queue)
        BY <2>3 DEF InHand
    <2>4. CASE \E v \in Worker : InWork(v) /\ worker[v].event = j
        <3>1. PICK v \in Worker : InWork(v) /\ worker[v].event = j
            BY <2>4
        <3>2. worker'[v].hooks # {} => InHand(j)'
            BY <3>1, <1>7 DEF InHand, InWork
        <3>3. worker'[v].hooks = {} => SettledFor(j)'
            BY <3>1, <1>9 DEF SettledFor, Settlement
        <3> QED
            BY <3>2, <3>3
    <2> QED
        BY <2>1, <2>2, <2>3, <2>4 DEF InHand
<1> QED
    BY <1>8, <1>10, <1>11

LEMMA EndOfMore ==
    ASSUME NEW S, NEW T, S \subseteq T, NEW l, NEW b, EndOf(l, b, S)
    PROVE  EndOf(l, b, T)
<1>1. \A q \in Seq(S) : q \in Seq(T)
    BY SeqMonotonic
<1>2. l \in [now : Seq(T), old : Seq(T), torn : BOOLEAN] /\ b \in Seq(T)
    BY <1>1 DEF EndOf
<1> QED
    BY <1>2 DEF EndOf

LEMMA PostHooks ==
    ASSUME HookInv, NEW w \in Worker, postOnce(w)
    PROVE  HookInv'
<1>1. /\ InWork(w) /\ UNCHANGED <<emit, queue, upset, letters, buried>>
      /\ worker' = NextHook(w) /\ settled' = settled \cup {Pair(w)}
      /\ Settlement' = Settlement \cup {Pair(w)}
    BY DEF postOnce, Settlement
<1>2. LettersTold'
    <2>1. settled \subseteq settled' /\ EndOf(letters, buried, settled)
        BY <1>1 DEF HookInv, LettersTold
    <2>2. EndOf(letters, buried, settled')
        BY <2>1, EndOfMore
    <2> QED
        BY <1>1, <2>2 DEF LettersTold
<1> QED
    BY <1>1, <1>2, WorkGoesOn DEF HookInv

LEMMA RetryHooks ==
    ASSUME HookInv, NEW w \in Worker, Retry(w)
    PROVE  HookInv'
<1>1. /\ UNCHANGED <<emit, queue, upset, letters, buried, settled, lost, Settlement>>
      /\ worker' = [worker EXCEPT ![w].attempt = @ + 1]
    BY DEF Retry, Settlement
<1>2. worker \in [Worker -> WorkOf] /\ HooksTyped
    BY DEF HookInv, HooksTyped
<1>3. /\ worker' \in [Worker -> WorkOf]
      /\ \A v \in Worker : worker'[v].event = worker[v].event /\ worker'[v].hooks = worker[v].hooks
    BY <1>1, <1>2 DEF WorkOf
<1>4. \A v \in Worker : InWork(v)' = InWork(v)
    BY <1>3 DEF InWork
<1>5. HooksTyped'
    BY <1>1, <1>2, <1>3, <1>4 DEF HooksTyped, Published
<1>6. WorkLeft'
    BY <1>1, <1>3, <1>4 DEF HookInv, WorkLeft
<1>7. QueueTold'
    <2>1. \A j : InHand(j)' = InHand(j) /\ SettledFor(j)' = SettledFor(j)
        BY <1>1, <1>3, <1>4 DEF InHand, SettledFor
    <2> QED
        BY <1>1, <2>1 DEF HookInv, QueueTold
<1>8. LettersTold'
    BY <1>1 DEF HookInv, LettersTold
<1> QED
    BY <1>5, <1>6, <1>7, <1>8 DEF HookInv

LEMMA EndGrows ==
    ASSUME NEW S, NEW old \in Seq(S), NEW now \in Seq(S), NEW b \in Seq(S), NEW pair \in S,
           NEW n \in Nat, IsEnd(old \o now, b, n), NEW now2, now2 = Append(now, pair)
    PROVE  /\ IsEnd(old \o now2, Append(b, pair), n)
           /\ Len(now2) > LetterLimit => IsEnd(now2, Append(b, pair), n + Len(old))
<1> DEFINE b2 == Append(b, pair)
           end == old \o now
           end2 == old \o now2
<1>1. /\ Len(old) \in Nat /\ Len(now) \in Nat /\ Len(b) \in Nat
      /\ now2 \in Seq(S) /\ Len(now2) = Len(now) + 1 /\ now2[Len(now) + 1] = pair
      /\ \A p \in 1 .. Len(now) : now2[p] = now[p]
    BY AppendProperties, LenProperties
<1>2. /\ Len(b2) = Len(b) + 1 /\ b2[Len(b) + 1] = pair
      /\ \A p \in 1 .. Len(b) : b2[p] = b[p]
    BY AppendProperties
<1>3. /\ Len(end) = Len(old) + Len(now)
      /\ \A p \in 1 .. Len(old) + Len(now) : end[p] = IF p <= Len(old) THEN old[p] ELSE now[p - Len(old)]
    BY ConcatProperties
<1>4. /\ Len(end2) = Len(old) + Len(now2)
      /\ \A p \in 1 .. Len(old) + Len(now2) : end2[p] = IF p <= Len(old) THEN old[p] ELSE now2[p - Len(old)]
    BY <1>1, ConcatProperties
<1>5. /\ Len(b) = n + Len(end) /\ \A p \in 1 .. Len(end) : end[p] = b[n + p]
      /\ n # 0 => Len(end) >= LetterLimit
    BY DEF IsEnd
<1>6. LetterLimit \in Nat
    BY EventsAssumption
<1> HIDE DEF b2, end, end2
<1>7. \A p \in 1 .. Len(old) + Len(now) : end2[p] = end[p]
    <2> TAKE p \in 1 .. Len(old) + Len(now)
    <2>1. p \in 1 .. Len(old) + Len(now2)
        BY <1>1
    <2>2. CASE p <= Len(old)
        BY <2>1, <2>2, <1>3, <1>4
    <2>3. CASE ~(p <= Len(old))
        <3>1. p - Len(old) \in 1 .. Len(now)
            BY <2>3, <1>1
        <3> QED
            BY <2>1, <2>3, <3>1, <1>1, <1>3, <1>4
    <2> QED
        BY <2>2, <2>3
<1>8. /\ Len(end2) = Len(end) + 1 /\ Len(end) \in Nat /\ Len(b2) = n + Len(end2)
      /\ Len(end) + 1 = Len(old) + Len(now2)
    BY <1>1, <1>2, <1>3, <1>4, <1>5
<1>9. end2[Len(end) + 1] = pair
    <2>1. /\ Len(end) + 1 \in 1 .. Len(old) + Len(now2) /\ ~(Len(end) + 1 <= Len(old))
          /\ (Len(end) + 1) - Len(old) = Len(now) + 1
        BY <1>1, <1>3
    <2> QED
        BY <2>1, <1>1, <1>4
<1>10. \A p \in 1 .. Len(end2) : end2[p] = b2[n + p]
    <2> TAKE p \in 1 .. Len(end2)
    <2>1. CASE p = Len(end) + 1
        <3>1. n + p = Len(b) + 1
            BY <2>1, <1>5, <1>8
        <3> QED
            BY <2>1, <3>1, <1>2, <1>9
    <2>2. CASE p # Len(end) + 1
        <3>1. p \in 1 .. Len(end) /\ n + p \in 1 .. Len(b)
            BY SMTT(30), <2>2, <1>5, <1>8
        <3>2. end2[p] = end[p]
            BY <3>1, <1>3, <1>7
        <3>3. b2[n + p] = b[n + p]
            BY <3>1, <1>2
        <3> QED
            BY <3>1, <3>2, <3>3, <1>5
    <2> QED
        BY <2>1, <2>2
<1>11. n # 0 => Len(end2) >= LetterLimit
    BY <1>5, <1>6, <1>8
<1>12. IsEnd(end2, b2, n)
    BY <1>8, <1>10, <1>11 DEF IsEnd
<1>13. ASSUME Len(now2) > LetterLimit PROVE IsEnd(now2, b2, n + Len(old))
    <2>1. Len(b2) = (n + Len(old)) + Len(now2)
        <3>1. Len(b2) = n + (Len(old) + Len(now2))
            BY <1>4, <1>8
        <3>2. Len(now2) \in Nat
            BY <1>1
        <3> QED
            BY <3>1, <3>2, <1>1
    <2>3. Len(now2) >= LetterLimit
        BY <1>1, <1>6, <1>13
    <2>2. ASSUME NEW p \in 1 .. Len(now2) PROVE now2[p] = b2[(n + Len(old)) + p]
        <3>1. /\ Len(old) + p \in 1 .. Len(end2) /\ Len(old) + p \in 1 .. Len(old) + Len(now2)
              /\ ~(Len(old) + p <= Len(old)) /\ (Len(old) + p) - Len(old) = p
              /\ n + (Len(old) + p) = (n + Len(old)) + p
            BY <1>1, <1>4
        <3>2. end2[Len(old) + p] = now2[p]
            BY <3>1, <1>4
        <3>3. end2[Len(old) + p] = b2[n + (Len(old) + p)]
            BY <3>1, <1>10
        <3> QED
            BY <3>1, <3>2, <3>3
    <2> QED
        BY <2>1, <2>2, <2>3 DEF IsEnd
<1> QED
    BY <1>12, <1>13 DEF b2, end2

\* A line is added, and the file rotated when it is over its limit, or not: the files stay
\* the end of what was written off.
Lengthened(l, now2) == [l EXCEPT !.now = now2]
Rotated(l, now2) == [l EXCEPT !.now = <<>>, !.old = now2]

LEMMA LettersGrow ==
    ASSUME NEW S, NEW l, NEW b, EndOf(l, b, S), NEW pair \in S,
           NEW after, NEW now2, now2 = Append(l.now, pair),
           \/ after = Lengthened(l, now2)
           \/ after = Rotated(l, now2) /\ Len(now2) > LetterLimit
    PROVE  EndOf(after, Append(b, pair), S)
<1> DEFINE b2 == Append(b, pair)
           Q == Seq(S)
<1>1. l \in [now : Q, old : Q, torn : BOOLEAN] /\ l.now \in Q /\ l.old \in Q /\ b \in Q
    BY DEF EndOf
<1>2. PICK n \in Nat : IsEnd(l.old \o l.now, b, n)
    BY DEF EndOf
<1>3. /\ IsEnd(l.old \o now2, b2, n)
      /\ Len(now2) > LetterLimit => IsEnd(now2, b2, n + Len(l.old))
    BY <1>1, <1>2, EndGrows
<1>4. now2 \in Q /\ b2 \in Q /\ l.old \in Q /\ Len(l.old) \in Nat
    BY <1>1, AppendProperties, LenProperties
<1>5. <<>> \in Q
    OBVIOUS
<1>6. now2 \o <<>> = now2
    BY <1>4, ConcatEmptySeq
<1> HIDE DEF b2, Q
<1>7. CASE after = Lengthened(l, now2)
    <2>1. after \in [now : Q, old : Q, torn : BOOLEAN] /\ after.old = l.old /\ after.now = now2
        BY <1>1, <1>4, <1>7 DEF Lengthened
    <2>2. EndOf(after, b2, S)
        BY <1>3, <1>4, <2>1 DEF EndOf, Q
    <2> QED
        BY <2>2 DEF b2
<1>8. CASE after = Rotated(l, now2) /\ Len(now2) > LetterLimit
    <2>1. after \in [now : Q, old : Q, torn : BOOLEAN] /\ after.old = now2 /\ after.now = <<>>
        BY <1>1, <1>4, <1>5, <1>8 DEF Rotated
    <2>2. after.old \o after.now = now2 /\ n + Len(l.old) \in Nat
        BY <1>4, <1>6, <2>1
    <2>3. EndOf(after, b2, S)
        BY <1>3, <1>4, <1>8, <2>1, <2>2 DEF EndOf, Q
    <2> QED
        BY <2>3 DEF b2
<1> QED
    BY <1>7, <1>8

LEMMA GiveUpHooks ==
    ASSUME HookInv, NEW w \in Worker, GiveUp(w) \/ GiveUpUnrotated(w)
    PROVE  HookInv'
<1> DEFINE pair == Pair(w)
           now2 == Append(letters.now, pair)
<1>1. /\ InWork(w) /\ UNCHANGED <<emit, queue, upset>>
      /\ worker' = NextHook(w) /\ settled' = settled \cup {Pair(w)} /\ lost' = lost
      /\ Settlement' = Settlement \cup {Pair(w)}
      /\ buried' = Append(buried, Pair(w))
    BY DEF GiveUp, GiveUpUnrotated, LastFailed, Settlement
<1>2. settled \subseteq settled' /\ pair \in settled'
    BY <1>1
<1>3. EndOf(letters, buried, settled')
    BY <1>2, EndOfMore DEF HookInv, LettersTold
<1>5. \/ letters' = Lengthened(letters, now2)
      \/ letters' = Rotated(letters, now2) /\ Len(now2) > LetterLimit
    <2>1. CASE GiveUp(w)
        BY <2>1 DEF GiveUp, appendDeadLetter, Lengthened, Rotated
    <2>2. CASE GiveUpUnrotated(w)
        BY <2>2 DEF GiveUpUnrotated, Lengthened
    <2> QED
        BY <2>1, <2>2
<1>6. EndOf(letters', Append(buried, pair), settled')
    <2> HIDE DEF pair
    <2>1. now2 = Append(letters.now, pair)
        OBVIOUS
    <2> HIDE DEF now2
    <2> QED
        BY <2>1, <1>2, <1>3, <1>5, LettersGrow
<1>7. LettersTold'
    BY <1>1, <1>6 DEF LettersTold
<1> QED
    BY <1>1, <1>7, WorkGoesOn DEF HookInv

\* A line that is not written, or not to be read: the lines that are stay as they were.
LEMMA LoseHooks ==
    ASSUME HookInv, NEW w \in Worker, GiveUpGarbled(w) \/ LoseLetter(w)
    PROVE  HookInv'
<1>1. /\ InWork(w) /\ UNCHANGED <<emit, queue, upset, settled, buried>>
      /\ worker' = NextHook(w) /\ Settlement' = Settlement \cup {Pair(w)}
    BY DEF GiveUpGarbled, LoseLetter, LastFailed, Settlement
<1>2. /\ letters \in [now : Seq(settled), old : Seq(settled), torn : BOOLEAN]
      /\ EndOf(letters, buried, settled)
    BY DEF HookInv, LettersTold, EndOf
<1>3. PICK torn \in BOOLEAN : letters' = [letters EXCEPT !.torn = torn]
    BY <1>2 DEF GiveUpGarbled, LoseLetter
<1>4. /\ letters' \in [now : Seq(settled), old : Seq(settled), torn : BOOLEAN]
      /\ letters'.now = letters.now /\ letters'.old = letters.old
    BY <1>2, <1>3
<1>5. EndOf(letters', buried, settled)
    BY <1>2, <1>4 DEF EndOf
<1>6. LettersTold'
    BY <1>1, <1>5 DEF LettersTold
<1> QED
    BY <1>1, <1>6, WorkGoesOn DEF HookInv

LEMMA CrashHooks ==
    ASSUME HookInv, Crash
    PROVE  HookInv'
<1>1. /\ queue' = <<>> /\ worker' = [w \in Worker |-> NoWork] /\ "crashed" \in upset'
      /\ UNCHANGED <<settled, letters, buried, lost>>
    BY DEF Crash
<1>2. NoWork \in WorkOf /\ NoWork.hooks = {}
    BY DEF NoWork, WorkOf
<1>3. \A w \in Worker : ~InWork(w)'
    BY <1>1, <1>2 DEF InWork
<1>4. queue' \in Seq(Nat) /\ DOMAIN queue' = {}
    <2>1. <<>> \in Seq(Nat)
        OBVIOUS
    <2> QED
        BY <1>1, <2>1
<1>5. HooksTyped' /\ WorkLeft' /\ QueueTold'
    BY <1>1, <1>2, <1>3, <1>4 DEF HooksTyped, WorkLeft, QueueTold
<1>6. LettersTold'
    BY <1>1 DEF HookInv, LettersTold
<1> QED
    BY <1>5, <1>6 DEF HookInv

LEMMA HookStep == EventsTyped /\ HookInv /\ [EventsNext]_eventVars => HookInv'
<1> SUFFICES ASSUME EventsTyped, HookInv, [EventsNext]_eventVars PROVE HookInv'
    OBVIOUS
<1>1. CASE Crash
    BY <1>1, CrashHooks
<1>2. CASE Emitting
    BY <1>2, EmissionHooks, EnqueueHooks DEF Emitting
<1>3. CASE \E t \in Topic : Emit(t)
    BY <1>3, EmissionHooks
<1>4. CASE StreamNext \/ UNCHANGED eventVars
    <2>1. UNCHANGED <<emit, hookVars>> /\ upset \subseteq upset'
        BY <1>4 DEF StreamNext, Subscribe, ReplayAll, Receive, Unsubscribe, eventVars, hookVars
    <2> QED
        BY <2>1, HooksStay
<1>5. CASE HookNext
    BY <1>5, TakeHooks, PostHooks, RetryHooks, GiveUpHooks, LoseHooks DEF HookNext, Delivering
<1> QED
    BY <1>1, <1>2, <1>3, <1>4, <1>5 DEF EventsNext, EmissionNext

\* Equal from the end on.
LEMMA SuffixByPlace ==
    ASSUME NEW S, NEW s \in Seq(S), NEW t \in Seq(S), Len(s) <= Len(t),
           \A i \in 1 .. Len(s) : s[Len(s) - i + 1] = t[Len(t) - i + 1]
    PROVE  IsSuffix(s, t)
<1>1. Len(s) \in Nat /\ Len(t) \in Nat
    BY LenProperties
<1> DEFINE r == Reverse(s)
           u == Reverse(t)
<1>2. /\ r = [i \in 1 .. Len(s) |-> s[Len(s) - i + 1]]
      /\ u = [i \in 1 .. Len(t) |-> t[Len(t) - i + 1]]
    BY DEF Reverse
<1>3. /\ \A i \in 1 .. Len(s) : s[Len(s) - i + 1] \in S
      /\ \A i \in 1 .. Len(t) : t[Len(t) - i + 1] \in S
    <2>1. \A i \in 1 .. Len(s) : Len(s) - i + 1 \in 1 .. Len(s)
        BY <1>1
    <2>2. \A i \in 1 .. Len(t) : Len(t) - i + 1 \in 1 .. Len(t)
        BY <1>1
    <2> QED
        BY <2>1, <2>2, ElementOfSeq
<1> HIDE DEF r, u
<1>4. r \in [1 .. Len(s) -> S] /\ u \in [1 .. Len(t) -> S]
    BY <1>2, <1>3
<1>5. r \in Seq(S) /\ u \in Seq(S) /\ Len(r) = Len(s) /\ Len(u) = Len(t)
    <2>1. ASSUME NEW f, NEW k \in Nat, f \in [1 .. k -> S] PROVE f \in Seq(S) /\ Len(f) = k
        <3>1. f \in Seq(S)
            BY <2>1, SeqDef
        <3>2. DOMAIN f = 1 .. Len(f) /\ Len(f) \in Nat /\ DOMAIN f = 1 .. k
            BY <2>1, <3>1, LenProperties
        <3>3. ~(k < Len(f)) /\ ~(Len(f) < k)
            <4>1. k < Len(f) => Len(f) \in 1 .. Len(f) /\ Len(f) \notin 1 .. k
                BY <3>2
            <4>2. Len(f) < k => k \in 1 .. k /\ k \notin 1 .. Len(f)
                BY <3>2
            <4> QED
                BY <3>2, <4>1, <4>2
        <3>4. Len(f) \in Nat
            BY <3>2
        <3> DEFINE long == Len(f)
        <3> HIDE DEF long
        <3>5. long \in Nat /\ ~(k < long) /\ ~(long < k)
            BY <3>3, <3>4 DEF long
        <3>6. long = k
            BY <3>5
        <3> QED
            BY <3>1, <3>6 DEF long
    <2> QED
        BY <1>1, <1>4, <2>1
<1>6. \A i \in 1 .. Len(s) : r[i] = u[i]
    BY <1>1, <1>2
<1> DEFINE n == Len(s)
<1>7. /\ SubSeq(r, 1, n) \in Seq(S) /\ Len(SubSeq(r, 1, n)) = IF 1 <= n THEN n - 1 + 1 ELSE 0
      /\ \A i \in 1 .. n - 1 + 1 : SubSeq(r, 1, n)[i] = r[1 + i - 1]
    <2>1. \A i \in 1 .. n : r[i] \in S
        BY <1>4
    <2>2. 1 \in Int /\ n \in Int
        BY <1>1
    <2> QED
        BY <2>1, <2>2, SubSeqProperties
<1>8. /\ SubSeq(u, 1, n) \in Seq(S) /\ Len(SubSeq(u, 1, n)) = IF 1 <= n THEN n - 1 + 1 ELSE 0
      /\ \A i \in 1 .. n - 1 + 1 : SubSeq(u, 1, n)[i] = u[1 + i - 1]
    <2>1. \A i \in 1 .. n : u[i] \in S
        <3>1. \A i \in 1 .. n : i \in 1 .. Len(t)
            BY <1>1
        <3> QED
            BY <3>1, <1>4
    <2>2. 1 \in Int /\ n \in Int
        BY <1>1
    <2> QED
        BY <2>1, <2>2, SubSeqProperties
<1> HIDE DEF n
<1>9. SubSeq(r, 1, n) = SubSeq(u, 1, n)
    <2>1. Len(SubSeq(r, 1, n)) = n /\ Len(SubSeq(u, 1, n)) = n
        BY <1>1, <1>7, <1>8 DEF n
    <2>2. ASSUME NEW i \in 1 .. n PROVE SubSeq(r, 1, n)[i] = SubSeq(u, 1, n)[i]
        <3>1. i \in 1 .. n - 1 + 1 /\ 1 + i - 1 = i
            BY <1>1 DEF n
        <3> QED
            BY <3>1, <1>6, <1>7, <1>8 DEF n
    <2> QED
        BY <2>1, <2>2, <1>7, <1>8, SeqEqual
<1> QED
    BY <1>1, <1>5, <1>9 DEF IsSuffix, IsPrefix, n, r, u

\* The end of a file.
LEMMA FileTail ==
    ASSUME NEW S, NEW file \in Seq(S)
    PROVE  LET end == readDeadLetterTail(file)
               held == IF Len(file) > TailLines THEN TailLines ELSE Len(file)
           IN /\ end \in Seq(S) /\ Len(end) = held /\ held \in Nat /\ held <= Len(file) /\ Len(file) \in Nat
              /\ \A i \in 1 .. held : end[i] = file[Len(file) - held + i]
<1> DEFINE n == Len(file)
           held == IF n > TailLines THEN TailLines ELSE n
           start == IF n > TailLines THEN n - TailLines + 1 ELSE 1
           end == SubSeq(file, start, n)
<1>1. n \in Nat /\ TailLines \in Nat \ {0} /\ \A i \in 1 .. n : file[i] \in S
    BY EventsAssumption, LenProperties, ElementOfSeq
<1>2. readDeadLetterTail(file) = end
    BY DEF readDeadLetterTail
<1> HIDE DEF n
<1>3. start \in Nat \ {0} /\ held \in Nat /\ held <= n /\ start = n - held + 1 /\ start <= n + 1
    BY <1>1
<1> HIDE DEF start, held
<1>4. \A i \in start .. n : file[i] \in S
    BY <1>1, <1>3
<1>5. /\ end \in Seq(S) /\ Len(end) = (IF start <= n THEN n - start + 1 ELSE 0)
      /\ \A i \in 1 .. n - start + 1 : end[i] = file[start + i - 1]
    <2>1. start \in Int /\ n \in Int
        BY <1>1, <1>3
    <2> QED
        BY <2>1, <1>4, SubSeqProperties DEF end
<1> HIDE DEF end
<1>6. Len(end) = held
    BY <1>1, <1>3, <1>5
<1>7. \A i \in 1 .. held : end[i] = file[n - held + i]
    <2> TAKE i \in 1 .. held
    <2>1. n - start + 1 = held /\ i \in Nat
        BY <1>1, <1>3
    <2>2. i \in 1 .. n - start + 1 /\ start + i - 1 = n - held + i
        BY <2>1, <1>1, <1>3
    <2> QED
        BY <2>2, <1>5
<1> QED
    BY <1>1, <1>2, <1>3, <1>5, <1>6, <1>7 DEF n, held

LEMMA LettersShown == LettersTold => LettersListed
<1> SUFFICES ASSUME LettersTold PROVE LettersListed
    OBVIOUS
<1> DEFINE old == letters.old
           now == letters.now
           all == old \o now
           oldEnd == readDeadLetterTail(old)
           nowEnd == readDeadLetterTail(now)
           list == oldEnd \o nowEnd
           newest == readDeadLetterTail(buried)
           a == IF Len(old) > TailLines THEN TailLines ELSE Len(old)
           c == IF Len(now) > TailLines THEN TailLines ELSE Len(now)
           shown == IF Len(buried) > TailLines THEN TailLines ELSE Len(buried)
<1>1. /\ old \in Seq(settled) /\ now \in Seq(settled) /\ buried \in Seq(settled)
      /\ TailLines \in Nat \ {0} /\ LetterLimit \in Nat /\ TailLines <= LetterLimit
    BY EventsAssumption DEF LettersTold, EndOf
<1>2. PICK k \in Nat : IsEnd(all, buried, k)
    BY DEF LettersTold, EndOf
<1>3. /\ Len(buried) = k + Len(all) /\ \A p \in 1 .. Len(all) : all[p] = buried[k + p]
      /\ k # 0 => Len(all) >= LetterLimit
    BY <1>2 DEF IsEnd
<1>4. /\ Len(all) = Len(old) + Len(now)
      /\ \A p \in 1 .. Len(old) + Len(now) : all[p] = IF p <= Len(old) THEN old[p] ELSE now[p - Len(old)]
    BY <1>1, ConcatProperties
<1>5. /\ oldEnd \in Seq(settled) /\ Len(oldEnd) = a /\ a \in Nat /\ a <= Len(old) /\ Len(old) \in Nat
      /\ \A i \in 1 .. a : oldEnd[i] = old[Len(old) - a + i]
    BY <1>1, FileTail
<1>6. /\ nowEnd \in Seq(settled) /\ Len(nowEnd) = c /\ c \in Nat /\ c <= Len(now) /\ Len(now) \in Nat
      /\ \A i \in 1 .. c : nowEnd[i] = now[Len(now) - c + i]
    BY <1>1, FileTail
<1>7. /\ newest \in Seq(settled) /\ Len(newest) = shown /\ shown \in Nat /\ shown <= Len(buried)
      /\ Len(buried) \in Nat /\ \A i \in 1 .. shown : newest[i] = buried[Len(buried) - shown + i]
    BY <1>1, FileTail
<1> HIDE DEF old, now, oldEnd, nowEnd, newest, a, c, shown
<1>8. /\ list \in Seq(settled) /\ Len(list) = a + c
      /\ \A p \in 1 .. a + c : list[p] = IF p <= a THEN oldEnd[p] ELSE nowEnd[p - a]
    <2>1. /\ list \in Seq(settled) /\ Len(list) = Len(oldEnd) + Len(nowEnd)
          /\ \A p \in 1 .. Len(oldEnd) + Len(nowEnd) :
               list[p] = IF p <= Len(oldEnd) THEN oldEnd[p] ELSE nowEnd[p - Len(oldEnd)]
        BY <1>5, <1>6, ConcatProperties
    <2> QED
        BY <2>1, <1>5, <1>6
<1>9. ListDeadLetter(0) = list
    BY DEF ListDeadLetter, oldEnd, nowEnd, old, now
\* What is left out of the current file is older than all that is asked for.
<1>10. shown <= a + c /\ (c < Len(now) => c = TailLines) /\ (a < Len(old) => a = TailLines) /\ shown <= TailLines
    <2>1. /\ c < Len(now) => c = TailLines
          /\ a < Len(old) => a = TailLines
          /\ shown <= TailLines
        BY <1>1, <1>5, <1>6, <1>7 DEF a, c, shown
    <2>2. c = Len(now) \/ c = TailLines
        BY <1>6, <2>1
    <2>3. a = Len(old) \/ a = TailLines
        BY <1>5, <2>1
    <2>4. CASE c = TailLines \/ a = TailLines
        BY <2>1, <2>4, <1>1, <1>5, <1>6, <1>7
    <2>5. CASE c = Len(now) /\ a = Len(old)
        <3>1. Len(all) = a + c
            BY <2>5, <1>4
        <3>2. k = 0 => Len(buried) = a + c
            BY <3>1, <1>3, <1>5, <1>6
        <3>3. k # 0 => TailLines <= a + c
            BY <3>1, <1>1, <1>3, <1>5, <1>6
        <3> QED
            BY <3>2, <3>3, <2>1, <1>1, <1>5, <1>6, <1>7
    <2> QED
        BY <2>1, <2>2, <2>3, <2>4, <2>5
<1> HIDE DEF all, list
<1>11. ASSUME NEW i \in 1 .. shown
       PROVE  newest[shown - i + 1] = list[(a + c) - i + 1]
    <2>1. shown - i + 1 \in 1 .. shown /\ i \in Nat \ {0} /\ i <= shown
        BY <1>7
    <2>2. newest[shown - i + 1] = buried[Len(buried) - i + 1]
        <3>1. newest[shown - i + 1] = buried[Len(buried) - shown + (shown - i + 1)]
            BY <2>1, <1>7
        <3>2. Len(buried) - shown + (shown - i + 1) = Len(buried) - i + 1
            BY <1>7, <2>1
        <3> QED
            BY <3>1, <3>2
    <2>3. Len(all) \in Nat /\ i <= Len(all) /\ i <= a + c
        <3>1. i <= a + c /\ a + c <= Len(old) + Len(now)
            BY <1>5, <1>6, <1>7, <1>10, <2>1
        <3> QED
            BY <3>1, <1>4, <1>5, <1>6, <2>1
    <2>4. buried[Len(buried) - i + 1] = all[Len(all) - i + 1]
        <3>1. Len(all) - i + 1 \in 1 .. Len(all) /\ k + (Len(all) - i + 1) = Len(buried) - i + 1
            BY <1>2, <1>3, <2>1, <2>3
        <3> QED
            BY <3>1, <1>3
    <2>5. CASE i <= c
        <3>1. /\ (a + c) - i + 1 \in 1 .. a + c /\ ~((a + c) - i + 1 <= a)
              /\ ((a + c) - i + 1) - a = c - i + 1 /\ c - i + 1 \in 1 .. c
            <4>1. a \in Nat /\ c \in Nat /\ i \in Nat \ {0} /\ i <= c
                BY <2>5, <2>1, <1>5, <1>6
            <4> QED
                BY <4>1
        <3>2. list[(a + c) - i + 1] = nowEnd[c - i + 1]
            BY <3>1, <1>8
        <3>3. nowEnd[c - i + 1] = now[Len(now) - c + (c - i + 1)] /\ Len(now) - c + (c - i + 1) = Len(now) - i + 1
            BY <3>1, <2>1, <1>6
        <3>4. /\ Len(all) - i + 1 \in 1 .. Len(old) + Len(now) /\ ~(Len(all) - i + 1 <= Len(old))
              /\ (Len(all) - i + 1) - Len(old) = Len(now) - i + 1
            BY <2>5, <2>1, <2>3, <1>4, <1>5, <1>6
        <3>5. all[Len(all) - i + 1] = now[Len(now) - i + 1]
            BY <3>4, <1>4
        <3> QED
            BY <2>2, <2>4, <3>2, <3>3, <3>5
    <2>6. CASE ~(i <= c)
        <3>1. c = Len(now)
            BY <2>6, <2>1, <1>1, <1>6, <1>7, <1>10
        <3>2. (a + c) - i + 1 \in 1 .. a + c /\ (a + c) - i + 1 <= a /\ (a + c) - i + 1 \in 1 .. a
            BY <2>6, <2>1, <2>3, <1>5, <1>6
        <3>3. list[(a + c) - i + 1] = oldEnd[(a + c) - i + 1]
            BY <3>2, <1>8
        <3>4. /\ oldEnd[(a + c) - i + 1] = old[Len(old) - a + ((a + c) - i + 1)]
              /\ Len(old) - a + ((a + c) - i + 1) = Len(all) - i + 1
            BY <3>1, <3>2, <2>1, <1>4, <1>5, <1>6
        <3>5. Len(all) - i + 1 \in 1 .. Len(old) + Len(now) /\ Len(all) - i + 1 <= Len(old)
            BY <2>6, <3>1, <2>1, <2>3, <1>4, <1>5, <1>6
        <3>6. all[Len(all) - i + 1] = old[Len(all) - i + 1]
            BY <3>5, <1>4
        <3> QED
            BY <2>2, <2>4, <3>3, <3>4, <3>6
    <2> QED
        BY <2>5, <2>6
<1>12. IsSuffix(newest, list)
    <2>1. Len(newest) <= Len(list)
        BY <1>7, <1>8, <1>10
    <2>2. \A i \in 1 .. Len(newest) : newest[Len(newest) - i + 1] = list[Len(list) - i + 1]
        BY <1>7, <1>8, <1>11
    <2> QED
        BY <2>1, <2>2, <1>7, <1>8, SuffixByPlace
<1> QED
    BY <1>9, <1>12 DEF LettersListed, readDeadLetterTail, newest

LEMMA HooksHold == HookInv => HooksServed
<1> SUFFICES ASSUME HookInv PROVE Settled /\ LettersListed
    BY DEF HooksServed
<1>1. Settled
    BY DEF HookInv, QueueTold, Settled
<1> QED
    BY <1>1, LettersShown DEF HookInv

\* An event the queue took is delivered to every webhook it is for, written off or lost with
\* its line before it leaves the workers' hands, and as many of the lines written last as the
\* tail of a file holds are listed, whatever writes and renames failed: for every size.
THEOREM HooksAreServed == EventsSpec => []HooksServed
<1>1. EventsInit /\ [][EventsNext]_eventVars => [](StreamInv /\ HookInv)
    <2>1. StreamInv => EventsTyped
        BY DEF StreamInv
    <2> QED
        BY <2>1, StreamsInitially, StreamStep, HooksInitially, HookStep, PTL
<1> QED
    BY <1>1, HooksHold, PTL DEF EventsSpec

-----------------------------------------------------------------------------
(* AuditLog: an auditor may trust the log *)

AuditLine == [id : Nat, at : Nat, prev : Int]
AuditTyped ==
    /\ time \in Nat /\ started \in Nat
    /\ \A e \in waiting : e.id \in Nat \ {0} /\ e.at \in Nat
    /\ head \in Nat
    /\ \E n \in Nat : DOMAIN dayFile \subseteq 0 .. n
    /\ \A d \in DOMAIN dayFile : dayFile[d] \in Seq(AuditLine)
\* An entry is in the file of its day.
FiledByDay == \A p \in Entries : Day(EntryAt(p).at) = p[1]
\* The head names the last entry there is.
IsLastEntry(p) == p \in Entries /\ \A q \in Entries : ~Before(p, q)
HeadIsLast ==
    \/ Entries = {} /\ head = 0
    \/ \E p \in Entries : IsLastEntry(p) /\ head = EntryAt(p).id
NothingTorn == \A d \in DOMAIN dayFile : \A i \in DOMAIN dayFile[d] : IsEntry(dayFile[d][i])
Chained == Verify /\ HeadIsLast /\ NothingTorn
AuditInv == AuditTyped /\ FiledByDay /\ (marred = {} => Chained)

LEMMA PlacesOfEntries ==
    ASSUME AuditTyped
    PROVE  /\ DOMAIN dayFile \subseteq Nat
           /\ \A d \in DOMAIN dayFile : Len(dayFile[d]) \in Nat /\ DOMAIN dayFile[d] = 1 .. Len(dayFile[d])
           /\ \A p \in Entries : /\ p = <<p[1], p[2]>> /\ p[1] \in DOMAIN dayFile /\ p[2] \in readFile(p[1])
                                 /\ p[1] \in Nat /\ p[2] \in Nat /\ EntryAt(p) \in AuditLine
           /\ \A d \in DOMAIN dayFile : \A i \in readFile(d) : <<d, i>> \in Entries
<1>1. DOMAIN dayFile \subseteq Nat
    BY DEF AuditTyped
<1>2. \A d \in DOMAIN dayFile : Len(dayFile[d]) \in Nat /\ DOMAIN dayFile[d] = 1 .. Len(dayFile[d])
    BY DEF AuditTyped
<1>3. \A d \in DOMAIN dayFile : \A i \in DOMAIN dayFile[d] : dayFile[d][i] \in AuditLine
    BY DEF AuditTyped
<1>4. \A p \in Entries : p = <<p[1], p[2]>> /\ p[1] \in DOMAIN dayFile /\ p[2] \in readFile(p[1])
    BY DEF Entries
<1>5. \A p \in Entries : p[1] \in Nat /\ p[2] \in Nat /\ EntryAt(p) \in AuditLine
    BY <1>1, <1>2, <1>3, <1>4 DEF readFile, EntryAt
<1>6. \A d \in DOMAIN dayFile : \A i \in readFile(d) : <<d, i>> \in Entries
    BY DEF Entries
<1> QED
    BY <1>1, <1>2, <1>4, <1>5, <1>6

\* A step that leaves the files' entries and their places alone.
LEMMA SameEntries ==
    ASSUME AuditTyped, Entries' = Entries, \A p \in Entries : EntryAt(p)' = EntryAt(p)
    PROVE  /\ FiledByDay => FiledByDay'
           /\ Verify => Verify'
           /\ HeadIsLast /\ head' = head => HeadIsLast'
<1>1. ASSUME FiledByDay PROVE FiledByDay'
    BY <1>1 DEF FiledByDay, Day
<1>2. ASSUME Verify PROVE Verify'
    <2>1. \A p, q : Before(p, q)' <=> Before(p, q)
        BY DEF Before
    <2> SUFFICES ASSUME NEW p \in Entries
                 PROVE  \/ {q \in Entries : Before(q, p)} = {} /\ EntryAt(p).prev' = 0
                        \/ \E q \in {r \in Entries : Before(r, p)} :
                             EntryAt(p).prev' = EntryAt(q).id' /\ \A r \in {s \in Entries : Before(s, p)} : ~Before(q, r)
        BY <2>1 DEF Verify
    <2> QED
        BY <1>2 DEF Verify
<1>3. ASSUME HeadIsLast, head' = head PROVE HeadIsLast'
    BY <1>3 DEF HeadIsLast, IsLastEntry, Before
<1> QED
    BY <1>1, <1>2, <1>3

\* A file that is written leaves the others as they were.
LEMMA FileWritten ==
    ASSUME AuditTyped, NEW d \in Nat, NEW lines \in Seq(AuditLine), dayFile' = WithFile(d, lines)
    PROVE  /\ DOMAIN dayFile' = DOMAIN dayFile \cup {d}
           /\ dayFile'[d] = lines
           /\ \A x \in DOMAIN dayFile \ {d} : dayFile'[x] = dayFile[x]
           /\ \E n \in Nat : DOMAIN dayFile' \subseteq 0 .. n
           /\ \A x \in DOMAIN dayFile' : dayFile'[x] \in Seq(AuditLine)
<1>1. /\ DOMAIN dayFile' = DOMAIN dayFile \cup {d} /\ dayFile'[d] = lines
      /\ \A x \in DOMAIN dayFile \ {d} : dayFile'[x] = dayFile[x]
    BY DEF WithFile
<1>2. PICK n \in Nat : DOMAIN dayFile \subseteq 0 .. n
    BY DEF AuditTyped
<1>3. n + d \in Nat /\ DOMAIN dayFile' \subseteq 0 .. n + d
    BY <1>1, <1>2
<1>4. \A x \in DOMAIN dayFile' : dayFile'[x] \in Seq(AuditLine)
    BY <1>1 DEF AuditTyped
<1> QED
    BY <1>1, <1>3, <1>4

LEMMA OldLines ==
    ASSUME AuditTyped, NEW d \in Nat
    PROVE  /\ LinesOf(d) \in Seq(AuditLine) /\ Len(LinesOf(d)) \in Nat
           /\ DOMAIN LinesOf(d) = 1 .. Len(LinesOf(d))
           /\ \A i : <<d, i>> \in Entries <=> i \in DOMAIN LinesOf(d) /\ IsEntry(LinesOf(d)[i])
           /\ \A i : <<d, i>> \in Entries => EntryAt(<<d, i>>) = LinesOf(d)[i]
<1>1. CASE d \in DOMAIN dayFile
  <2>1. LinesOf(d) = dayFile[d] /\ dayFile[d] \in Seq(AuditLine)
      BY <1>1 DEF LinesOf, AuditTyped
  <2>2. \A i : <<d, i>> \in Entries <=> i \in readFile(d)
      BY <1>1 DEF Entries
  <2> QED
      BY <2>1, <2>2 DEF readFile, EntryAt
<1>2. CASE d \notin DOMAIN dayFile
  <2>1. LinesOf(d) = <<>>
      BY <1>2 DEF LinesOf
  <2>2. <<>> \in Seq(AuditLine) /\ Len(<<>>) = 0
      OBVIOUS
  <2>3. \A i : <<d, i>> \notin Entries
      BY <1>2 DEF Entries
  <2> QED
      BY <2>1, <2>2, <2>3
<1> QED
    BY <1>1, <1>2

\* The entries after a file is written: those of other days, and those of its lines.
LEMMA EntriesAfter ==
    ASSUME AuditTyped, NEW d \in Nat, NEW lines \in Seq(AuditLine), dayFile' = WithFile(d, lines)
    PROVE  /\ \A x, i : x # d => (<<x, i>> \in Entries' <=> <<x, i>> \in Entries)
           /\ \A x, i : x # d /\ <<x, i>> \in Entries => EntryAt(<<x, i>>)' = EntryAt(<<x, i>>)
           /\ \A i : <<d, i>> \in Entries' <=> i \in DOMAIN lines /\ IsEntry(lines[i])
           /\ \A i : EntryAt(<<d, i>>)' = lines[i]
           /\ \A p \in Entries' \cup Entries : p = <<p[1], p[2]>>
<1>1. /\ DOMAIN dayFile' = DOMAIN dayFile \cup {d} /\ dayFile'[d] = lines
      /\ \A x \in DOMAIN dayFile \ {d} : dayFile'[x] = dayFile[x]
    BY FileWritten
<1>2. \A x, i : <<x, i>> \in Entries <=> x \in DOMAIN dayFile /\ i \in DOMAIN dayFile[x] /\ IsEntry(dayFile[x][i])
    BY DEF Entries, readFile
<1>3. \A x, i : <<x, i>> \in Entries' <=> x \in DOMAIN dayFile' /\ i \in DOMAIN dayFile'[x] /\ IsEntry(dayFile'[x][i])
    BY DEF Entries, readFile, IsEntry
<1>4. \A x, i : EntryAt(<<x, i>>)' = dayFile'[x][i] /\ EntryAt(<<x, i>>) = dayFile[x][i]
    BY DEF EntryAt
<1>5. \A p \in Entries' \cup Entries : p = <<p[1], p[2]>>
    BY DEF Entries
<1> QED
    BY <1>1, <1>2, <1>3, <1>4, <1>5

\* A file whose entries stay where they are.
LEMMA EntriesKept ==
    ASSUME AuditTyped, NEW d \in Nat, NEW lines \in Seq(AuditLine), dayFile' = WithFile(d, lines),
           \A i : /\ (i \in DOMAIN lines /\ IsEntry(lines[i])) <=> <<d, i>> \in Entries
                  /\ <<d, i>> \in Entries => lines[i] = LinesOf(d)[i]
    PROVE  Entries' = Entries /\ \A p \in Entries : EntryAt(p)' = EntryAt(p)
<1>1. \A x, i : <<x, i>> \in Entries' <=> <<x, i>> \in Entries
    BY EntriesAfter
<1>2. \A x, i : <<x, i>> \in Entries => EntryAt(<<x, i>>)' = EntryAt(<<x, i>>)
  <2> SUFFICES ASSUME NEW x, NEW i, <<x, i>> \in Entries
               PROVE  EntryAt(<<x, i>>)' = EntryAt(<<x, i>>)
      OBVIOUS
  <2>1. CASE x = d
      BY <2>1, EntriesAfter, OldLines
  <2>2. CASE x # d
      BY <2>2, EntriesAfter
  <2> QED
      BY <2>1, <2>2
<1>3. \A p \in Entries' \cup Entries : p = <<p[1], p[2]>>
    BY EntriesAfter
<1> QED
    BY <1>1, <1>2, <1>3

LEMMA DayOfEntry ==
    ASSUME AuditTyped, NEW e \in waiting
    PROVE  Day(e.at) \in Nat /\ e.id \in Nat \ {0} /\ e.at \in Nat
<1>1. e.id \in Nat \ {0} /\ e.at \in Nat /\ DayLength \in Nat \ {0}
    BY AuditLogAssumption DEF AuditTyped
<1> QED
    BY <1>1 DEF Day

LEMMA LoseLineKeeps ==
    ASSUME AuditInv, NEW e \in waiting, LoseLine(e)
    PROVE  AuditInv'
<1> DEFINE d == Day(e.at)
           old == LinesOf(d)
<1>1. AuditTyped /\ d \in Nat
    BY DayOfEntry DEF AuditInv
<1>2. dayFile' = WithFile(d, old) /\ UNCHANGED <<head, time, started, marred>> /\ waiting' \subseteq waiting
    BY DEF LoseLine
<1> HIDE DEF d
<1>3. old \in Seq(AuditLine)
    BY <1>1, OldLines
<1>4. Entries' = Entries /\ \A p \in Entries : EntryAt(p)' = EntryAt(p)
    BY <1>1, <1>2, <1>3, OldLines, EntriesKept
<1>5. /\ FiledByDay => FiledByDay'
      /\ Verify => Verify'
      /\ HeadIsLast => HeadIsLast'
    BY <1>1, <1>2, <1>4, SameEntries
<1>6. AuditTyped'
    BY <1>1, <1>2, <1>3, FileWritten DEF AuditTyped
<1>7. NothingTorn => NothingTorn'
  <2> SUFFICES ASSUME NothingTorn, NEW x \in DOMAIN dayFile', NEW i \in DOMAIN dayFile'[x]
               PROVE  IsEntry(dayFile'[x][i])
      BY DEF NothingTorn, IsEntry
  <2>1. CASE x = d /\ d \notin DOMAIN dayFile
    <3>1. dayFile'[x] = <<>>
        BY <1>1, <1>2, <1>3, <2>1, FileWritten DEF LinesOf
    <3> QED
        BY <3>1
  <2>2. CASE x \in DOMAIN dayFile
    <3>1. dayFile'[x] = dayFile[x]
        BY <1>1, <1>2, <1>3, <2>2, FileWritten DEF LinesOf
    <3> QED
        BY <2>2, <3>1 DEF NothingTorn
  <2> QED
      BY <1>1, <1>2, <1>3, <2>1, <2>2, FileWritten
<1> QED
    BY <1>2, <1>5, <1>6, <1>7 DEF AuditInv, Chained

LEMMA TearLineKeeps ==
    ASSUME AuditInv, NEW e \in waiting, TearLine(e)
    PROVE  AuditInv'
<1> DEFINE d == Day(e.at)
           old == LinesOf(d)
           lines == IF EndsInHalf(old) THEN old ELSE Append(old, Half)
<1>1. AuditTyped /\ d \in Nat
    BY DayOfEntry DEF AuditInv
<1>2. /\ dayFile' = WithFile(d, lines) /\ UNCHANGED <<head, time, started>>
      /\ waiting' \subseteq waiting /\ marred' # {}
    BY DEF TearLine
<1>3. /\ old \in Seq(AuditLine) /\ Len(old) \in Nat /\ DOMAIN old = 1 .. Len(old)
      /\ \A i : <<d, i>> \in Entries <=> i \in DOMAIN old /\ IsEntry(old[i])
    BY <1>1, OldLines
<1> HIDE DEF d, old
<1>4. Half \in AuditLine /\ ~IsEntry(Half)
    BY DEF Half, Line, AuditLine, IsEntry
<1>5. /\ lines \in Seq(AuditLine)
      /\ \A i : (i \in DOMAIN lines /\ IsEntry(lines[i])) <=> (i \in DOMAIN old /\ IsEntry(old[i]))
      /\ \A i \in DOMAIN old : lines[i] = old[i]
  <2>1. CASE EndsInHalf(old)
      BY <1>3, <2>1
  <2>2. CASE ~EndsInHalf(old)
    <3>1. /\ lines \in Seq(AuditLine) /\ DOMAIN lines = 1 .. Len(old) + 1
          /\ \A i \in DOMAIN old : lines[i] = old[i]
          /\ lines[Len(old) + 1] = Half
        BY <1>3, <1>4, <2>2
    <3> QED
        BY <1>3, <1>4, <3>1
  <2> QED
      BY <2>1, <2>2
<1> HIDE DEF lines
<1>6. Entries' = Entries /\ \A p \in Entries : EntryAt(p)' = EntryAt(p)
    BY <1>1, <1>2, <1>3, <1>5, EntriesKept DEF old
<1>7. FiledByDay => FiledByDay'
    BY <1>1, <1>6, SameEntries
<1>8. AuditTyped'
    BY <1>1, <1>2, <1>5, FileWritten DEF AuditTyped
<1> QED
    BY <1>2, <1>7, <1>8 DEF AuditInv

LEMMA WriteLineKeeps ==
    ASSUME AuditInv, NEW e \in waiting, WriteLine(e)
    PROVE  AuditInv'
<1> DEFINE d == Day(e.at)
           old == LinesOf(d)
           line == LinkLine(e)
           lines == Glued(d, line)
<1>1. AuditTyped /\ d \in Nat /\ e.id \in Nat \ {0} /\ e.at \in Nat /\ head \in Nat
    BY DayOfEntry DEF AuditInv, AuditTyped
<1>2. /\ dayFile' = WithFile(d, lines) /\ UNCHANGED <<time, started>>
      /\ waiting' \subseteq waiting /\ head' = e.id
      /\ marred' = {} => marred = {} /\ ~Late(e)
    BY DEF WriteLine
<1>3. /\ old \in Seq(AuditLine) /\ Len(old) \in Nat /\ DOMAIN old = 1 .. Len(old)
      /\ \A i : <<d, i>> \in Entries <=> i \in DOMAIN old /\ IsEntry(old[i])
      /\ \A i : <<d, i>> \in Entries => EntryAt(<<d, i>>) = old[i]
    BY <1>1, OldLines
<1>4. /\ line \in AuditLine /\ IsEntry(line) /\ line.id = e.id /\ line.at = e.at /\ line.prev = head
      /\ Junk \in AuditLine /\ ~IsEntry(Junk) /\ ~IsEntry(Half)
    BY <1>1 DEF LinkLine, Line, AuditLine, IsEntry, Junk, Half
<1>5. lines = IF EndsInHalf(old) THEN [old EXCEPT ![Len(old)] = Junk] ELSE Append(old, line)
    BY DEF Glued
<1>6. Day(e.at) = d
    OBVIOUS
<1> HIDE DEF d, old, line, lines
<1>7. CASE EndsInHalf(old)
  <2>1. /\ old # <<>> /\ old[Len(old)] = Half /\ Len(old) \in DOMAIN old
      BY <1>3, <1>7 DEF EndsInHalf
  <2>2. lines = [old EXCEPT ![Len(old)] = Junk]
      BY <1>5, <1>7
  <2>3. lines \in Seq(AuditLine) /\ DOMAIN lines = DOMAIN old
      BY <1>3, <1>4, <2>1, <2>2
  <2>4. \A i \in DOMAIN old : lines[i] = IF i = Len(old) THEN Junk ELSE old[i]
      BY <1>3, <2>2
  <2>5. \A i : (i \in DOMAIN lines /\ IsEntry(lines[i])) <=> (i \in DOMAIN old /\ IsEntry(old[i]))
      BY <1>4, <2>1, <2>3, <2>4
  <2>6. \A i : i \in DOMAIN old /\ IsEntry(old[i]) => lines[i] = old[i]
      BY <1>4, <2>1, <2>4
  <2>7. Entries' = Entries /\ \A p \in Entries : EntryAt(p)' = EntryAt(p)
      BY <1>1, <1>2, <1>3, <2>3, <2>5, <2>6, EntriesKept DEF old
  <2>8. FiledByDay => FiledByDay'
      BY <1>1, <2>7, SameEntries
  <2>9. AuditTyped'
      BY <1>1, <1>2, <2>3, FileWritten DEF AuditTyped
  <2>10. ~NothingTorn
    <3>1. d \in DOMAIN dayFile /\ old = dayFile[d]
        BY <2>1 DEF old, LinesOf
    <3> QED
        BY <1>4, <2>1, <3>1 DEF NothingTorn
  <2>11. marred' # {}
      BY <1>2, <2>10 DEF AuditInv, Chained
  <2> QED
      BY <2>8, <2>9, <2>11 DEF AuditInv
<1>8. CASE ~EndsInHalf(old)
  <2>0. PICK n \in Nat : n = Len(old) + 1
      BY <1>3
  <2> DEFINE top == <<d, n>>
  <2>1. lines = Append(old, line)
      BY <1>5, <1>8
  <2>2. /\ lines \in Seq(AuditLine) /\ DOMAIN lines = DOMAIN old \cup {n} /\ n \notin DOMAIN old
        /\ \A i \in DOMAIN old : lines[i] = old[i]
        /\ lines[n] = line
    <3>1. Len(lines) = Len(old) + 1 /\ lines \in Seq(AuditLine)
        BY <1>3, <1>4, <2>1
    <3>2. DOMAIN lines = 1 .. Len(old) + 1
        BY <3>1
    <3>3. (\A i \in DOMAIN old : lines[i] = old[i]) /\ lines[n] = line
        BY <1>3, <2>0, <2>1
    <3> QED
        BY <1>3, <2>0, <3>1, <3>2, <3>3
  <2>3. /\ \A x, i : x # d => (<<x, i>> \in Entries' <=> <<x, i>> \in Entries)
        /\ \A x, i : x # d /\ <<x, i>> \in Entries => EntryAt(<<x, i>>)' = EntryAt(<<x, i>>)
        /\ \A i : <<d, i>> \in Entries' <=> i \in DOMAIN lines /\ IsEntry(lines[i])
        /\ \A i : EntryAt(<<d, i>>)' = lines[i]
        /\ \A p \in Entries' \cup Entries : p = <<p[1], p[2]>>
      BY <1>1, <1>2, <2>2, EntriesAfter
  <2>4. \A x, i : <<x, i>> \in Entries' <=> <<x, i>> \in Entries \/ <<x, i>> = top
      BY <1>3, <1>4, <2>2, <2>3
  <2>5. \A x, i : <<x, i>> \in Entries => EntryAt(<<x, i>>)' = EntryAt(<<x, i>>)
    <3> SUFFICES ASSUME NEW x, NEW i, <<x, i>> \in Entries
                 PROVE  EntryAt(<<x, i>>)' = EntryAt(<<x, i>>)
        OBVIOUS
    <3>1. CASE x = d
        BY <1>3, <2>2, <2>3, <3>1
    <3>2. CASE x # d
        BY <2>3, <3>2
    <3> QED
        BY <3>1, <3>2
  <2>6. /\ Entries' = Entries \cup {top} /\ top \notin Entries
        /\ \A p \in Entries : EntryAt(p)' = EntryAt(p)
        /\ EntryAt(top)' = line /\ top[1] = d /\ top[2] = n
      BY <1>3, <2>2, <2>3, <2>4, <2>5
  <2>7. AuditTyped'
      BY <1>1, <1>2, <2>2, FileWritten DEF AuditTyped
  <2> HIDE DEF top
  <2>8. FiledByDay => FiledByDay'
      BY <1>4, <1>6, <2>6 DEF FiledByDay, Day
  <2>9. ASSUME marred' = {} PROVE Chained'
    <3>1. Chained /\ ~Late(e)
        BY <1>2, <2>9 DEF AuditInv
    <3>2. \A q \in Entries : Before(q, top) /\ ~Before(top, q)
      <4> SUFFICES ASSUME NEW q \in Entries PROVE Before(q, top) /\ ~Before(top, q)
          OBVIOUS
      <4>1. q[1] \in DOMAIN dayFile /\ q[2] \in readFile(q[1]) /\ q[1] \in Nat /\ q[2] \in Nat
          BY <1>1, PlacesOfEntries
      <4>2. q[1] <= d
          BY <1>1, <1>6, <3>1, <4>1 DEF Late
      <4>3. q[1] = d => q[2] < n
        <5>1. q = <<q[1], q[2]>>
            BY <2>3
        <5>2. q[1] = d => q[2] \in DOMAIN old
            BY <1>3, <5>1
        <5> QED
            BY <1>3, <2>0, <5>2
      <4> QED
          BY <1>1, <2>6, <4>1, <4>2, <4>3 DEF Before
    <3>3. ~Before(top, top)
        BY <1>1, <2>6 DEF Before
    <3>4. \A p, q : Before(p, q)' <=> Before(p, q)
        BY DEF Before
    <3>5. HeadIsLast'
      <4>1. EntryAt(top).id' = head'
          BY <1>2, <1>4, <2>6
      <4>2. top \in Entries' /\ \A q \in Entries' : ~Before(top, q)
          BY <2>6, <3>2, <3>3
      <4> QED
          BY <3>4, <4>1, <4>2 DEF HeadIsLast, IsLastEntry
    <3>6. NothingTorn'
      <4> SUFFICES ASSUME NEW x \in DOMAIN dayFile', NEW i \in DOMAIN dayFile'[x]
                   PROVE  IsEntry(dayFile'[x][i])
          BY DEF NothingTorn, IsEntry
      <4>1. CASE x = d
        <5>1. dayFile'[x] = lines
            BY <1>1, <1>2, <2>2, <4>1, FileWritten
        <5>2. i \in DOMAIN old => IsEntry(old[i])
            BY <3>1 DEF Chained, NothingTorn, old, LinesOf
        <5> QED
            BY <1>4, <2>2, <5>1, <5>2
      <4>2. CASE x # d
        <5>1. x \in DOMAIN dayFile /\ dayFile'[x] = dayFile[x]
            BY <1>1, <1>2, <2>2, <4>2, FileWritten
        <5> QED
            BY <3>1, <5>1 DEF Chained, NothingTorn
      <4> QED
          BY <4>1, <4>2
    <3>7. Verify'
      <4> SUFFICES ASSUME NEW p \in Entries'
                   PROVE  \/ {q \in Entries' : Before(q, p)} = {} /\ EntryAt(p).prev' = 0
                          \/ \E q \in {r \in Entries' : Before(r, p)} :
                               EntryAt(p).prev' = EntryAt(q).id' /\ \A r \in {s \in Entries' : Before(s, p)} : ~Before(q, r)
          BY <3>4 DEF Verify
      <4>1. CASE p = top
        <5>1. {q \in Entries' : Before(q, p)} = Entries
            BY <2>6, <3>2, <3>3, <4>1
        <5>2. EntryAt(p).prev' = head
            BY <1>4, <2>6, <4>1
        <5>3. CASE Entries = {} /\ head = 0
            BY <5>1, <5>2, <5>3
        <5>4. CASE \E q \in Entries : IsLastEntry(q) /\ head = EntryAt(q).id
            BY <2>6, <5>1, <5>2, <5>4 DEF IsLastEntry
        <5> QED
            BY <3>1, <5>3, <5>4 DEF Chained, HeadIsLast
      <4>2. CASE p \in Entries
        <5>1. {q \in Entries' : Before(q, p)} = {q \in Entries : Before(q, p)}
            BY <2>6, <3>2, <4>2
        <5>2. \/ {q \in Entries : Before(q, p)} = {} /\ EntryAt(p).prev = 0
              \/ \E q \in {r \in Entries : Before(r, p)} :
                   EntryAt(p).prev = EntryAt(q).id /\ \A r \in {s \in Entries : Before(s, p)} : ~Before(q, r)
            BY <3>1, <4>2 DEF Chained, Verify
        <5>3. EntryAt(p).prev' = EntryAt(p).prev /\ \A q \in Entries : EntryAt(q).id' = EntryAt(q).id
            BY <2>6, <4>2
        <5> QED
            BY <5>1, <5>2, <5>3
      <4> QED
          BY <2>6, <4>1, <4>2
    <3> QED
        BY <3>5, <3>6, <3>7 DEF Chained
  <2> QED
      BY <2>7, <2>8, <2>9 DEF AuditInv
<1> QED
    BY <1>7, <1>8

\* What a restart finds: the last entry, unless the newest file has none.
LEMMA loadHeadFinds ==
    ASSUME AuditTyped
    PROVE  /\ loadHead \in Nat
           /\ Entries = {} => loadHead = 0
           /\ Entries # {} /\ readFile(NewestDay) # {} =>
                \E p \in Entries : IsLastEntry(p) /\ loadHead = EntryAt(p).id
<1>0. PICK n \in Nat : DOMAIN dayFile \subseteq 0 .. n
    BY DEF AuditTyped
<1>1. CASE DOMAIN dayFile = {}
  <2>1. Entries = {} /\ loadHead = 0
      BY <1>1 DEF Entries, loadHead
  <2> QED
      BY <2>1
<1>2. CASE DOMAIN dayFile # {}
  <2> DEFINE d == NewestDay
             i == Max(readFile(d))
             last == <<d, i>>
  <2>1. d \in DOMAIN dayFile /\ d \in Nat /\ \A x \in DOMAIN dayFile : x <= d
    <3>1. Max(DOMAIN dayFile) \in DOMAIN dayFile /\ \A x \in DOMAIN dayFile : x <= Max(DOMAIN dayFile)
        BY <1>0, <1>2, GreatestIn
    <3> QED
        BY <1>0, <3>1 DEF NewestDay
  <2>2. CASE readFile(d) = {}
    <3>1. loadHead = 0
        BY <2>2 DEF loadHead
    <3> QED
        BY <2>2, <3>1
  <2>3. CASE readFile(d) # {}
    <3>1. Len(dayFile[d]) \in Nat /\ readFile(d) \subseteq 0 .. Len(dayFile[d])
        BY <2>1, PlacesOfEntries DEF readFile
    <3>2. i \in readFile(d) /\ \A j \in readFile(d) : j <= i
        BY <2>3, <3>1, GreatestIn
    <3>3. last \in Entries /\ last[1] = d /\ last[2] = i
        BY <2>1, <3>2, PlacesOfEntries
    <3>4. loadHead = EntryAt(last).id
        BY <1>2, <2>3 DEF loadHead
    <3>5. EntryAt(last) \in AuditLine /\ i \in Nat
        BY <3>3, PlacesOfEntries
    <3>6. \A q \in Entries : ~Before(last, q)
      <4> SUFFICES ASSUME NEW q \in Entries PROVE ~Before(last, q)
          OBVIOUS
      <4>1. q[1] \in DOMAIN dayFile /\ q[2] \in readFile(q[1]) /\ q[1] \in Nat /\ q[2] \in Nat
          BY PlacesOfEntries
      <4>2. q[1] <= d /\ (q[1] = d => q[2] <= i)
          BY <2>1, <3>2, <4>1
      <4> HIDE DEF last, d, i
      <4> QED
          BY <2>1, <3>3, <3>5, <4>1, <4>2 DEF Before
    <3>7. loadHead \in Nat
        BY <3>4, <3>5 DEF AuditLine
    <3> QED
        BY <3>3, <3>4, <3>6, <3>7 DEF IsLastEntry
  <2> QED
      BY <2>2, <2>3
<1> QED
    BY <1>1, <1>2

LEMMA OpenLogKeeps ==
    ASSUME AuditInv, OpenLog
    PROVE  AuditInv'
<1>1. /\ UNCHANGED <<dayFile, time, started>> /\ waiting' = {} /\ head' = loadHead
      /\ marred' = {} => marred = {} /\ (Entries = {} \/ readFile(NewestDay) # {})
    BY DEF OpenLog
<1>2. AuditTyped
    BY DEF AuditInv
<1>3. Entries' = Entries /\ \A p \in Entries : EntryAt(p)' = EntryAt(p)
    BY <1>1 DEF Entries, EntryAt, readFile, IsEntry
<1>4. (FiledByDay => FiledByDay') /\ (Verify => Verify')
    BY <1>2, <1>3, SameEntries
<1>5. AuditTyped'
    BY <1>1, <1>2, loadHeadFinds DEF AuditTyped
<1>6. ASSUME marred' = {} PROVE Chained'
  <2>1. Verify' /\ NothingTorn'
      BY <1>1, <1>4, <1>6 DEF AuditInv, Chained, NothingTorn, IsEntry
  <2>2. CASE Entries = {}
    <3>1. Entries' = {} /\ head' = 0
        BY <1>1, <1>2, <1>3, <2>2, loadHeadFinds
    <3> QED
        BY <2>1, <3>1 DEF Chained, HeadIsLast
  <2>3. CASE Entries # {}
    <3>1. PICK p \in Entries : IsLastEntry(p) /\ head' = EntryAt(p).id
        BY <1>1, <1>2, <1>6, <2>3, loadHeadFinds
    <3>2. IsLastEntry(p)' /\ EntryAt(p).id' = head'
        BY <1>3, <3>1 DEF IsLastEntry, Before
    <3>3. HeadIsLast'
        BY <1>3, <3>2 DEF HeadIsLast
    <3> QED
        BY <2>1, <3>3 DEF Chained
  <2> QED
      BY <2>2, <2>3
<1> QED
    BY <1>4, <1>5, <1>6 DEF AuditInv

\* The steps that touch no file.
LEMMA ClockAndStampKeep ==
    ASSUME AuditInv, Elapse \/ Stamp \/ UNCHANGED auditVars
    PROVE  AuditInv'
<1>1. UNCHANGED <<dayFile, head, marred>>
    BY DEF Elapse, Stamp, auditVars
<1>2. AuditTyped
    BY DEF AuditInv
<1>3. Entries' = Entries /\ \A p \in Entries : EntryAt(p)' = EntryAt(p)
    BY <1>1 DEF Entries, EntryAt, readFile, IsEntry
<1>4. (FiledByDay => FiledByDay') /\ (Verify => Verify') /\ (HeadIsLast => HeadIsLast')
    BY <1>1, <1>2, <1>3, SameEntries
<1>5. NothingTorn => NothingTorn'
    BY <1>1 DEF NothingTorn, IsEntry
<1>6. time' \in Nat /\ started' \in Nat /\ \A e \in waiting' : e.id \in Nat \ {0} /\ e.at \in Nat
    BY <1>2 DEF AuditTyped, Elapse, Stamp, auditVars
<1>7. AuditTyped'
    BY <1>1, <1>2, <1>6 DEF AuditTyped
<1> QED
    BY <1>1, <1>4, <1>5, <1>7 DEF AuditInv, Chained

LEMMA AuditStarts == AuditInit => AuditInv
<1> SUFFICES ASSUME AuditInit PROVE AuditInv
    OBVIOUS
<1>1. /\ dayFile = <<>> /\ head = 0 /\ time = 0 /\ waiting = {} /\ started = 0
    BY DEF AuditInit
<1>2. DOMAIN dayFile = {}
    BY <1>1
<1>3. Entries = {}
    BY <1>2 DEF Entries
<1>4. AuditTyped
    BY <1>1, <1>2 DEF AuditTyped
<1>5. FiledByDay /\ Verify /\ HeadIsLast /\ NothingTorn
    BY <1>1, <1>2, <1>3 DEF FiledByDay, Verify, HeadIsLast, NothingTorn
<1> QED
    BY <1>4, <1>5 DEF AuditInv, Chained

LEMMA AuditStep == AuditInv /\ [AuditNext]_auditVars => AuditInv'
<1> SUFFICES ASSUME AuditInv, [AuditNext]_auditVars PROVE AuditInv'
    OBVIOUS
<1>1. CASE Elapse \/ Stamp \/ UNCHANGED auditVars
    BY <1>1, ClockAndStampKeep
<1>2. CASE OpenLog
    BY <1>2, OpenLogKeeps
<1>3. ASSUME NEW e \in waiting, WriteLine(e) PROVE AuditInv'
    BY <1>3, WriteLineKeeps
<1>4. ASSUME NEW e \in waiting, LoseLine(e) PROVE AuditInv'
    BY <1>4, LoseLineKeeps
<1>5. ASSUME NEW e \in waiting, TearLine(e) PROVE AuditInv'
    BY <1>5, TearLineKeeps
<1> QED
    BY <1>1, <1>2, <1>3, <1>4, <1>5 DEF AuditNext

\* A day's file holds entries of that day only, so a file passed over by its name has none that
\* the filter asks for.
LEMMA SkippedHasNone ==
    ASSUME AuditInv, NEW p \in Entries, NEW f, f.since \in Nat, f.until \in Nat, match(EntryAt(p), f)
    PROVE  ~Skipped(p[1], f)
<1> DEFINE at == EntryAt(p).at
           d == p[1]
<1>1. at \in Nat /\ d \in Nat /\ Day(at) = d /\ DayLength \in Nat \ {0}
    BY PlacesOfEntries, AuditLogAssumption DEF AuditInv, FiledByDay, AuditLine
<1>2. (f.since # 0 => at >= f.since) /\ (f.until # 0 => at <= f.until)
    BY DEF match
<1> HIDE DEF at, d
<1>3. d = at \div DayLength
    BY <1>1 DEF Day
<1>4. d * DayLength <= at /\ at < (d + 1) * DayLength
  <2>1. at = DayLength * (at \div DayLength) + (at % DayLength) /\ 0 <= at % DayLength /\ at % DayLength < DayLength
      BY <1>1
  <2>2. d * DayLength = DayLength * d /\ (d + 1) * DayLength = DayLength * d + DayLength
      BY <1>1
  <2> QED
      BY <1>1, <1>3, <2>1, <2>2
<1>5. d * DayLength \in Nat /\ (d + 1) * DayLength \in Nat
    BY <1>1
<1> QED
    BY <1>1, <1>2, <1>4, <1>5 DEF Skipped, d

LEMMA QueryFindsAll == AuditInv => QueryMissesNothing
<1> SUFFICES ASSUME AuditInv, NEW since \in 0 .. LastTime, NEW until \in 0 .. LastTime
             PROVE  Export(Filter(since, until, -1)) = {p \in Entries : match(EntryAt(p), Filter(since, until, -1))}
    BY DEF QueryMissesNothing
<1> DEFINE f == Filter(since, until, -1)
<1>1. f.since \in Nat /\ f.until \in Nat /\ f.limit = -1 /\ [f EXCEPT !.limit = -1] = f
    BY AuditLogAssumption DEF Filter
<1> HIDE DEF f
<1>2. Export(f) = {p \in Entries : ~Skipped(p[1], f) /\ match(EntryAt(p), f)}
  <2>1. Export(f) = Query(f)
      BY <1>1 DEF Export
  <2>2. f.limit < 0
      BY <1>1
  <2> QED
      BY <2>1, <2>2 DEF Query
<1>3. \A p \in Entries : match(EntryAt(p), f) => ~Skipped(p[1], f)
    BY <1>1, SkippedHasNone
<1> QED
    BY <1>2, <1>3 DEF f

\* However many entries are under way around however many midnights, whatever writes fail and
\* whenever the server restarts: the chain adds up unless one of the three named things
\* happened, and no filter misses an entry (Append, Verify and Query of the audit log).
THEOREM AuditorMayTrust == AuditSpec => []LogTrusted
<1>1. AuditInv => LogTrusted
    BY QueryFindsAll DEF LogTrusted, ChainHolds, AuditInv, Chained
<1> QED
    BY <1>1, AuditStarts, AuditStep, PTL DEF AuditSpec
=============================================================================
