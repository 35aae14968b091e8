------------------------------- MODULE History -------------------------------
(***************************************************************************)
(* What is done with a whole space's store while others go on writing to   *)
(* it: snapshots of the working tree into it, restores of the tree out of  *)
(* it, and the migration to another driver, which ends with the switch of  *)
(* the configuration. Each driver lists in its own way.                    *)
(***************************************************************************)
EXTENDS Integers, Sequences, FiniteSets, TLC, SequencesExt

CONSTANTS
    From,                       \* the drivers a space may be kept with
    Name,                       \* paths of the space, in their order
    Foreign,                    \* paths of a space whose name this one's begins, in the same database
    Text, Nothing,              \* contents, which stand for their versions; no file
    MaxJobs, MaxUpsets          \* bounds: operations; writes of others and faults

ASSUME HistoryAssumption == /\ From \subseteq {"local", "git", "s3", "sql"} /\ Nothing \notin Text
                            /\ {MaxJobs, MaxUpsets} \subseteq Nat

VARIABLES
    from,           \* the driver the space is kept with until it is switched
    spaceTree,           \* the working tree
    kept, keptHead, \* the store: files and head
    moved, movedHead,   \* the store of the other driver
    snapshot,       \* the manifests
    job, jobs,      \* the operation under way, and how many were begun
    upsets,
    excuse          \* history, of the migration under way: what it may be held to

historyVars == <<from, spaceTree, kept, keptHead, moved, movedHead, snapshot, job, jobs, upsets, excuse>>

HeldNames == Range(Name)
Empty == [p \in HeldNames |-> Nothing]
Resting == [kind |-> "none"]
HistoryInit ==
    /\ from \in From
    /\ spaceTree \in [HeldNames -> Text \cup {Nothing}] /\ kept \in {Empty, spaceTree}
    /\ keptHead = 0 /\ moved \in {Empty, [Empty EXCEPT ![Head(Name)] = CHOOSE t \in Text : TRUE]} /\ movedHead = 0
    /\ snapshot = <<>> /\ job = Resting /\ jobs = 0 /\ upsets = 0 /\ excuse = {}

BeginJob(j) == job = Resting /\ from # "moved" /\ jobs < MaxJobs /\ jobs' = jobs + 1 /\ job' = j
Upset == upsets < MaxUpsets /\ upsets' = upsets + 1
stores == <<from, kept, keptHead, moved, movedHead>>

(***************************************************************************)
(* What others do meanwhile. A write of theirs moves the head too.         *)
(***************************************************************************)
EditSpace == \E p \in HeldNames, t \in Text :
    /\ Upset /\ t # spaceTree[p] /\ spaceTree' = [spaceTree EXCEPT ![p] = t]
    /\ UNCHANGED <<stores, snapshot, job, jobs, excuse>>
WriteKept == \E p \in HeldNames, t \in Text \cup {Nothing} :
    /\ Upset /\ t # kept[p] /\ kept' = [kept EXCEPT ![p] = t] /\ excuse' = excuse \cup {"written"}
    /\ keptHead' = 0 - upsets'
    /\ UNCHANGED <<from, moved, movedHead, spaceTree, snapshot, job, jobs>>
\* Any call of the operation under way fails, and the operation with it: what is done stays.
FailJob ==
    /\ job # Resting /\ Upset /\ job' = Resting
    /\ UNCHANGED <<stores, spaceTree, snapshot, jobs, excuse>>

(***************************************************************************)
(* Snapshots: the tree is read, then each file is put over the version the *)
(* store holds, then the manifest, then the head.                          *)
(***************************************************************************)
SnapshotSpace ==
    /\ BeginJob([kind |-> "snapshot", at |-> "put", data |-> spaceTree, todo |-> SelectSeq(Name, LAMBDA p : spaceTree[p] # Nothing),
              over |-> Nothing, version |-> Empty])
    /\ UNCHANGED <<stores, spaceTree, snapshot, upsets, excuse>>
SnapshotGet ==
    /\ job.kind = "snapshot" /\ job.at = "put" /\ job.todo # <<>>
    /\ job' = [job EXCEPT !.at = "swap", !.over = kept[Head(job.todo)]]
    /\ UNCHANGED <<stores, spaceTree, snapshot, jobs, upsets, excuse>>
\* A file somebody else has written since is a conflict: the snapshot is not made.
SnapshotPut ==
    /\ job.kind = "snapshot" /\ job.at = "swap"
    /\ LET p == Head(job.todo)
       IN IF job.over = job.data[p] \/ job.over = kept[p]
          THEN /\ kept' = IF job.over = job.data[p] THEN kept ELSE [kept EXCEPT ![p] = job.data[p]]
               /\ job' = [job EXCEPT !.at = "put", !.todo = Tail(@), !.version[p] = job.data[p]]
          ELSE job' = Resting /\ UNCHANGED kept
    /\ UNCHANGED <<from, keptHead, moved, movedHead, spaceTree, snapshot, jobs, upsets, excuse>>
SnapshotManifest ==
    /\ job.kind = "snapshot" /\ job.at = "put" /\ job.todo = <<>>
    /\ snapshot' = Append(snapshot, job.version)
    /\ job' = [kind |-> "head", next |-> Len(snapshot) + 1, expected |-> keptHead]
    /\ UNCHANGED <<stores, spaceTree, jobs, upsets, excuse>>
AdvanceHead ==
    /\ job.kind = "head" /\ job' = Resting
    /\ keptHead' = IF keptHead = job.expected THEN job.next ELSE keptHead
    /\ UNCHANGED <<from, kept, moved, movedHead, spaceTree, snapshot, jobs, upsets, excuse>>

ListSnapshots == DOMAIN snapshot
GetSnapshot(id) == snapshot[id]
\* What comes back is what the store holds now for the paths of the manifest, not the versions
\* it names; a path the store no longer holds ends the restore.
RestoreSpace == \E id \in ListSnapshots :
    /\ BeginJob([kind |-> "restore", id |-> id, todo |-> {p \in HeldNames : GetSnapshot(id)[p] # Nothing}])
    /\ UNCHANGED <<stores, spaceTree, snapshot, upsets, excuse>>
RestoreFile ==
    /\ job.kind = "restore"
    /\ \E p \in job.todo :
         IF kept[p] = Nothing THEN job' = Resting /\ UNCHANGED spaceTree
         ELSE spaceTree' = [spaceTree EXCEPT ![p] = kept[p]] /\ job' = [job EXCEPT !.todo = @ \ {p}]
    /\ UNCHANGED <<stores, snapshot, jobs, upsets, excuse>>
RestoreHead ==
    /\ job.kind = "restore" /\ job.todo = {}
    /\ job' = [kind |-> "head", next |-> job.id, expected |-> keptHead]
    /\ UNCHANGED <<stores, spaceTree, snapshot, jobs, upsets, excuse>>

(***************************************************************************)
(* Migration.                                                              *)
(***************************************************************************)
\* What is listed; each driver lists in an order of its own.
Held == {p \in HeldNames : kept[p] # Nothing}
\* An unreadable file fails the whole listing of a local or a git store.
LocalList == from = "local" /\ job' = [job EXCEPT !.at = "get", !.todo = Held] /\ UNCHANGED <<upsets, excuse>>
GitList == from = "git" /\ job' = [job EXCEPT !.at = "get", !.todo = Held] /\ UNCHANGED <<upsets, excuse>>
\* S3 answers for every object by itself, and leaves out what it cannot read just then.
S3List ==
    /\ from = "s3"
    /\ \/ job' = [job EXCEPT !.at = "get", !.todo = Held] /\ UNCHANGED <<upsets, excuse>>
       \/ \E p \in Held : /\ Upset /\ excuse' = excuse \cup {"unread"}
                          /\ job' = [job EXCEPT !.at = "get", !.todo = Held \ {p}]
\* A space's prefix has no separator at its end: a name that goes on from it is listed with it.
SQLList ==
    /\ from = "sql" /\ UNCHANGED <<upsets, excuse>>
    /\ \E f \in {{}, Foreign} : job' = [job EXCEPT !.at = "get", !.todo = Held \cup f]

Migrate ==
    /\ BeginJob([kind |-> "migrate", at |-> "list", todo |-> {}, path |-> Nothing, data |-> Nothing])
    /\ excuse' = {}
    /\ UNCHANGED <<stores, spaceTree, snapshot, upsets>>
MigrateList ==
    /\ job.kind = "migrate" /\ job.at = "list"
    /\ LocalList \/ GitList \/ S3List \/ SQLList
    /\ UNCHANGED <<stores, spaceTree, snapshot, jobs>>
MigrateGet ==
    /\ job.kind = "migrate" /\ job.at = "get"
    /\ \E p \in job.todo :
         job' = IF p \notin HeldNames \/ kept[p] = Nothing THEN Resting
                ELSE [job EXCEPT !.at = "clear", !.path = p, !.data = kept[p]]
    /\ UNCHANGED <<stores, spaceTree, snapshot, jobs, upsets, excuse>>
MigrateClear ==
    /\ job.kind = "migrate" /\ job.at = "clear" /\ job' = [job EXCEPT !.at = "put"]
    /\ moved' = [moved EXCEPT ![job.path] = Nothing]
    /\ UNCHANGED <<from, kept, keptHead, movedHead, spaceTree, snapshot, jobs, upsets, excuse>>
\* What arrives may be something else.
MigratePut ==
    /\ job.kind = "migrate" /\ job.at = "put" /\ job' = [job EXCEPT !.at = "verify"]
    /\ \E t \in Text : /\ moved' = [moved EXCEPT ![job.path] = t]
                       /\ IF t = job.data THEN UNCHANGED upsets ELSE Upset
    /\ UNCHANGED <<from, kept, keptHead, movedHead, spaceTree, snapshot, jobs, excuse>>
Migrated == [job EXCEPT !.at = "get", !.todo = @ \ {job.path}]
\* Mutant for MigratedWhole: what was read back is not looked at.
MigrateTrusting ==
    /\ job.kind = "migrate" /\ job.at = "verify" /\ job' = Migrated
    /\ UNCHANGED <<stores, spaceTree, snapshot, jobs, upsets, excuse>>
MigrateVerify ==
    /\ job.kind = "migrate" /\ job.at = "verify"
    /\ job' = IF moved[job.path] = job.data THEN Migrated ELSE Resting
    /\ UNCHANGED <<stores, spaceTree, snapshot, jobs, upsets, excuse>>
MigrateHead ==
    /\ job.kind = "migrate" /\ job.at = "get" /\ job.todo = {}
    /\ movedHead' = IF keptHead = 0 THEN movedHead ELSE keptHead
    /\ job' = [kind |-> "switch"]
    /\ UNCHANGED <<from, kept, keptHead, moved, spaceTree, snapshot, jobs, upsets, excuse>>
\* The configuration is saved: from here on the other store is the space's.
SwitchStore ==
    /\ job.kind = "switch" /\ job' = Resting /\ from' = "moved"
    /\ UNCHANGED <<kept, keptHead, moved, movedHead, spaceTree, snapshot, jobs, upsets, excuse>>

HistoryNext ==
    \/ EditSpace \/ (from # "moved" /\ WriteKept) \/ FailJob
    \/ SnapshotSpace \/ SnapshotGet \/ SnapshotPut \/ SnapshotManifest \/ AdvanceHead
    \/ RestoreSpace \/ RestoreFile \/ RestoreHead
    \/ Migrate \/ MigrateList \/ MigrateGet \/ MigrateClear \/ MigratePut \/ MigrateVerify \/ MigrateHead \/ SwitchStore
HistorySpec == HistoryInit /\ [][HistoryNext]_historyVars

(***************************************************************************)
(* Properties.                                                             *)
(***************************************************************************)
\* A space that was switched to another store finds every file and the head there, as they were,
\* unless somebody wrote to the old store while it was copied, or a listing left a file out.
MigratedWhole ==
    from = "moved" /\ excuse = {} =>
      /\ \A p \in HeldNames : kept[p] # Nothing => moved[p] = kept[p]
      /\ keptHead # 0 => movedHead = keptHead
===============================================================================
