------------------------------- MODULE Stores --------------------------------
(***************************************************************************)
(* The storage drivers behind the Backend interface, and the pool that     *)
(* hands them out: one file and one head in one store, and callers that    *)
(* compare and swap them. Each driver has its own way to make the          *)
(* comparison and the write one: a file lock, a mutex of the handle, a row *)
(* lock, a conditional request. Old is the key the S3 driver used before.  *)
(***************************************************************************)
EXTENDS Integers, Sequences, FiniteSets

CONSTANTS
    Driver,                \* drivers of this build
    Content, Absent,       \* contents, which stand for their versions too; no object
    StoreCaller,
    MaxStoreCalls, MaxStoreFaults    \* bounds

ASSUME StoresAssumption == /\ Driver \subseteq {"local", "git", "sql", "s3"} /\ Absent \notin Content
                           /\ {MaxStoreCalls, MaxStoreFaults} \subseteq Nat

VARIABLES
    driver,         \* the driver in use
    object,         \* the objects: the file under its key and under its old key, the head
    committed,      \* git: the file and the head as last committed
    locks,          \* who holds which lock
    pool,           \* the pool: the handle it has published, 0 for none, and whether it is closed
    handle,         \* the handles opened so far: "open" or "closed"
    aside,          \* those of them that were opened beside the pool
    access,         \* access[c]: how far a call is
    accesses, storeFaults,
    astray          \* history: a space was deleted or the pool closed, so that one store has two handles

storeVars == <<driver, object, committed, locks, pool, handle, aside, access, accesses, storeFaults, astray>>

Idle == [stage |-> "idle"]
StoresInit ==
    /\ driver \in Driver
    /\ object \in {[file |-> Absent, old |-> o, head |-> Absent] :
                     o \in IF driver = "s3" THEN Content \cup {Absent} ELSE {Absent}}
    /\ committed = [file |-> Absent, head |-> Absent]
    /\ locks = {} /\ pool = [published |-> 0, closed |-> FALSE] /\ handle = <<>> /\ aside = {}
    /\ access = [c \in StoreCaller |-> Idle] /\ accesses = 0 /\ storeFaults = 0 /\ astray = FALSE

In(c, drivers, stage) == driver \in drivers /\ access[c].stage = stage
Reach(c, stage) == access' = [access EXCEPT ![c].stage = stage]
Done(c) == access' = [access EXCEPT ![c] = Idle] /\ locks' = {l \in locks : l.by # c}
StoreFault == storeFaults < MaxStoreFaults /\ storeFaults' = storeFaults + 1
inStore == <<driver, object, committed>>
counts == <<accesses, storeFaults, astray>>

(***************************************************************************)
(* The pool.                                                               *)
(***************************************************************************)
\* What a caller will do with the backend it asks for.
Jobs == [op : {"put"}, target : {"file", "head"}, data : Content, expected : Content \cup {Absent}]
        \cup [op : {"delete"}, target : {"file"}, data : {Absent}, expected : Content]
Asking(job, stage, h) ==
    [op |-> job.op, target |-> job.target, data |-> job.data, expected |-> job.expected,
     stage |-> stage, handle |-> h, actual |-> Absent, found |-> "file"]
Ask(c) ==
    /\ access[c].stage = "idle" /\ accesses < MaxStoreCalls /\ accesses' = accesses + 1
    /\ \E job \in Jobs :
         access' = [access EXCEPT ![c] =
           IF pool.published # 0 /\ ~pool.closed THEN Asking(job, "ready", pool.published)
                                                ELSE Asking(job, "open", 0)]
    /\ UNCHANGED <<inStore, locks, pool, handle, aside, storeFaults, astray>>

\* Opened without the pool's lock: directories, repository, bucket or tables are made if
\* they are not there, which changes nothing a caller can see.
OpenLocal(c) == In(c, {"local"}, "open")
OpenGit(c) == In(c, {"git"}, "open")
OpenS3(c) == In(c, {"s3"}, "open")
OpenSQL(c) == In(c, {"sql"}, "open")
OpenStore(c) ==
    /\ OpenLocal(c) \/ OpenGit(c) \/ OpenS3(c) \/ OpenSQL(c)
    /\ handle' = Append(handle, "open")
    /\ access' = [access EXCEPT ![c].stage = "publish", ![c].handle = Len(handle) + 1]
    /\ UNCHANGED <<inStore, locks, pool, aside, counts>>

\* The console's page of backends, a change of backend, its test and a migration open the store
\* without the pool, use it or only look whether it answers, and close nothing.
OpenAside ==
    /\ accesses < MaxStoreCalls /\ accesses' = accesses + 1
    /\ handle' = Append(handle, "open") /\ aside' = aside \cup {Len(handle) + 1}
    /\ UNCHANGED <<inStore, locks, pool, access, storeFaults, astray>>

\* Only the database driver has something to close.
closeBackend(h) == handle' = IF driver = "sql" /\ h # 0 THEN [handle EXCEPT ![h] = "closed"] ELSE handle
\* Mutant for SwapsWhatItCompared: who loses the race to publish keeps what it has opened.
PublishOwn(c) ==
    IF pool.published # 0 \/ pool.closed THEN Reach(c, "ready") /\ UNCHANGED <<pool, handle>>
    ELSE pool' = [pool EXCEPT !.published = access[c].handle] /\ Reach(c, "ready") /\ UNCHANGED handle
\* Mutant for ConnectionsOwned: what lost the race is not closed.
PublishLeaking(c) ==
    IF pool.published # 0 /\ ~pool.closed
    THEN access' = [access EXCEPT ![c].stage = "ready", ![c].handle = pool.published] /\ UNCHANGED <<pool, handle>>
    ELSE pool' = [pool EXCEPT !.published = access[c].handle] /\ Reach(c, "ready") /\ UNCHANGED handle
openPerSpace(c) ==
    CASE pool.closed -> Reach(c, "ready") /\ closeBackend(0) /\ UNCHANGED pool
      [] pool.published # 0 /\ ~pool.closed ->
           /\ access' = [access EXCEPT ![c].stage = "ready", ![c].handle = pool.published]
           /\ closeBackend(access[c].handle) /\ UNCHANGED pool
      [] OTHER -> Reach(c, "ready") /\ pool' = [pool EXCEPT !.published = access[c].handle] /\ UNCHANGED handle
\* The connection to a database is shared by every space; with the pool closed, the caller's
\* own stays open.
openSQL(c) == driver = "sql" /\ openPerSpace(c)
PublishStore(c) ==
    /\ access[c].stage = "publish"
    /\ openSQL(c) \/ (driver # "sql" /\ openPerSpace(c))
    /\ UNCHANGED <<inStore, locks, aside, counts>>

\* The space is deleted: its handle is dropped, then its directory; what a shared store holds stays.
Evict ==
    /\ driver # "sql" /\ pool.published # 0 /\ StoreFault
    /\ pool' = [pool EXCEPT !.published = 0] /\ closeBackend(pool.published) /\ astray' = TRUE
    /\ UNCHANGED <<inStore, locks, aside, access, accesses>>
RemoveSpace ==
    /\ astray /\ driver \in {"local", "git"} /\ ~pool.closed
    /\ object' = [object EXCEPT !.file = Absent, !.head = Absent]
    /\ committed' = [file |-> Absent, head |-> Absent]
    /\ UNCHANGED <<driver, locks, pool, handle, aside, access, counts>>
ClosePool ==
    /\ ~pool.closed /\ StoreFault
    /\ pool' = [published |-> 0, closed |-> TRUE] /\ closeBackend(pool.published) /\ astray' = TRUE
    /\ UNCHANGED <<inStore, locks, aside, access, accesses>>

(***************************************************************************)
(* Locks, reads and comparisons.                                           *)
(***************************************************************************)
\* The local driver's lock is a file, so any process's handle takes the same one; the git
\* driver's is a mutex of the handle; a row of the database is locked when it is read, if there is one.
Lock(c) == CASE driver = "local" -> <<"store">>
             [] driver = "git" -> <<"handle", access[c].handle>>
             [] OTHER -> <<"row", access[c].target>>
Take(c) == (\A l \in locks : l.on # Lock(c)) /\ locks' = locks \cup {[on |-> Lock(c), by |-> c]}
withLock(c) == In(c, {"local"}, "ready") /\ Take(c)
gitLock(c) == In(c, {"git"}, "ready") /\ Take(c)
LockStore(c) ==
    /\ withLock(c) \/ gitLock(c)
    /\ Reach(c, "read")
    /\ UNCHANGED <<inStore, pool, handle, aside, counts>>

Saw(c, actual, found) ==
    access' = [access EXCEPT ![c].stage = "compare", ![c].actual = actual, ![c].found = found]
readRecord(c) == In(c, {"local", "git"}, "read") /\ Saw(c, object[access[c].target], "file") /\ UNCHANGED locks
selectForUpdate(c) ==
    /\ In(c, {"sql"}, "ready") /\ Saw(c, object[access[c].target], "file")
    /\ IF object[access[c].target] = Absent THEN (\A l \in locks : l.on # Lock(c)) /\ UNCHANGED locks ELSE Take(c)
\* S3 looks under the current key first, then, for a file, under the old one.
getRecord(c) ==
    /\ In(c, {"s3"}, "ready") /\ UNCHANGED locks
    /\ IF object[access[c].target] = Absent /\ access[c].target = "file"
       THEN Reach(c, "read old")
       ELSE Saw(c, object[access[c].target], "file")
getLegacy(c) ==
    /\ In(c, {"s3"}, "read old") /\ UNCHANGED locks
    /\ Saw(c, object.old, IF object.old = Absent THEN "file" ELSE "old")
ReadStore(c) ==
    /\ readRecord(c) \/ selectForUpdate(c) \/ getRecord(c) \/ getLegacy(c)
    /\ UNCHANGED <<inStore, pool, handle, aside, counts>>

\* A version other than the expected one is a conflict; what is not there cannot be deleted.
CompareStore(c) ==
    /\ access[c].stage = "compare"
    /\ IF access[c].actual = access[c].expected THEN Reach(c, "write") /\ UNCHANGED locks ELSE Done(c)
    /\ UNCHANGED <<inStore, pool, handle, aside, counts>>

(***************************************************************************)
(* Writes.                                                                 *)
(***************************************************************************)
Does(c, drivers, op, target) == In(c, drivers, "write") /\ access[c].op = op /\ access[c].target = target
Set(c, place) == object' = [object EXCEPT ![place] = access[c].data]
Spare == UNCHANGED <<driver, committed, pool, handle, aside, counts>>

LocalPut(c) == Does(c, {"local"}, "put", "file") /\ Set(c, "file") /\ Done(c) /\ Spare
LocalDelete(c) == Does(c, {"local"}, "delete", "file") /\ Set(c, "file") /\ Done(c) /\ Spare
LocalSetHead(c) == Does(c, {"local"}, "put", "head") /\ Set(c, "head") /\ Done(c) /\ Spare

\* An update names the version it replaces; an insert of a row that came in between fails on the key.
SQLPut(c) ==
    /\ Does(c, {"sql"}, "put", "file") /\ Done(c) /\ Spare
    /\ IF object.file = access[c].actual THEN Set(c, "file") ELSE UNCHANGED object
SQLDelete(c) == Does(c, {"sql"}, "delete", "file") /\ Set(c, "file") /\ Done(c) /\ Spare
SQLSetHead(c) ==
    /\ Does(c, {"sql"}, "put", "head") /\ Done(c) /\ Spare
    /\ IF object.head = access[c].actual THEN Set(c, "head") ELSE UNCHANGED object

\* The file is replaced first, then committed, then pushed: a commit or a push that fails is
\* an error whose effect stays.
GitPut(c) == Does(c, {"git"}, "put", "file") /\ Set(c, "file") /\ Reach(c, "commit") /\ UNCHANGED locks /\ Spare
GitDelete(c) == Does(c, {"git"}, "delete", "file") /\ Set(c, "file") /\ Reach(c, "commit") /\ UNCHANGED locks /\ Spare
GitSetHead(c) == Does(c, {"git"}, "put", "head") /\ Set(c, "head") /\ Reach(c, "commit") /\ UNCHANGED locks /\ Spare
commit(c) ==
    /\ In(c, {"git"}, "commit") /\ Reach(c, "push")
    /\ committed' = [committed EXCEPT ![access[c].target] = object[access[c].target]]
    /\ UNCHANGED <<driver, object, locks, pool, handle, aside, counts>>
maybePush(c) == In(c, {"git"}, "push") /\ Done(c) /\ UNCHANGED object /\ Spare

\* A put carries the version it replaces, or that there is none: a file read under its old key
\* is put under its new one, and the old object is deleted afterwards.
S3Put(c) ==
    /\ Does(c, {"s3"}, "put", "file") /\ Spare
    /\ LET migrating == access[c].found = "old"
           IfMatch == object.file = IF migrating THEN Absent ELSE access[c].actual
       IN /\ IF IfMatch THEN Set(c, "file") ELSE UNCHANGED object
          /\ IF IfMatch /\ migrating THEN Reach(c, "clean") /\ UNCHANGED locks ELSE Done(c)
S3Clean(c) == In(c, {"s3"}, "clean") /\ object' = [object EXCEPT !.old = Absent] /\ Done(c) /\ Spare
\* The delete carries no condition.
S3Delete(c) == Does(c, {"s3"}, "delete", "file") /\ Set(c, access[c].found) /\ Done(c) /\ Spare
S3SetHead(c) ==
    /\ Does(c, {"s3"}, "put", "head") /\ Done(c) /\ Spare
    /\ IF object.head = access[c].actual THEN Set(c, "head") ELSE UNCHANGED object

WriteStore(c) ==
    \/ LocalPut(c) \/ LocalDelete(c) \/ LocalSetHead(c)
    \/ SQLPut(c) \/ SQLDelete(c) \/ SQLSetHead(c)
    \/ GitPut(c) \/ GitDelete(c) \/ GitSetHead(c) \/ commit(c) \/ maybePush(c)
    \/ S3Put(c) \/ S3Clean(c) \/ S3Delete(c) \/ S3SetHead(c)

\* A request is cancelled, waits too long for the lock, or the store answers with an error: the
\* caller gets an error and the lock is free again. A connection only half made is dropped.
FailStore(c) ==
    /\ access[c].stage \notin {"idle", "publish"} /\ StoreFault /\ Done(c)
    /\ UNCHANGED <<inStore, pool, handle, aside, accesses, astray>>

StoresNext ==
    \/ OpenAside \/ Evict \/ RemoveSpace \/ ClosePool
    \/ \E c \in StoreCaller : \/ Ask(c) \/ OpenStore(c) \/ PublishStore(c) \/ LockStore(c) \/ ReadStore(c)
                              \/ CompareStore(c) \/ WriteStore(c) \/ FailStore(c)
StoresSpec == StoresInit /\ [][StoresNext]_storeVars

(***************************************************************************)
(* Properties.                                                             *)
(***************************************************************************)
Visible(o, target) == IF o[target] = Absent /\ target = "file" THEN o.old ELSE o[target]
Moved(c) == access'[c] # access[c]

\* What a caller replaces or deletes is what it expected, whatever other callers do, with every
\* driver. Not so for an S3 delete, which carries no condition, nor for a file under its old S3
\* key, which two requests move; nor with two git handles on one repository.
SwapsWhatItCompared ==
    [][\A target \in {"file", "head"} : Visible(object', target) # Visible(object, target) =>
         \/ astray
         \/ \E c \in StoreCaller : /\ Moved(c) /\ access[c].target = target
                                   /\ \/ Visible(object, target) = access[c].expected
                                      \/ driver = "s3" /\ (access[c].op = "delete" \/ access[c].found = "old")]_storeVars

\* Every open connection to the database is the pool's or about to be offered to it, unless it
\* was opened when the pool was closed, or beside the pool: the pool leaves none that nobody closes.
ConnectionsOwned ==
    driver = "sql" /\ ~pool.closed =>
      \A h \in DOMAIN handle \ aside : handle[h] = "open" =>
        h = pool.published \/ \E c \in StoreCaller : access[c].stage = "publish" /\ access[c].handle = h
===============================================================================
