------------------------------ MODULE Lifecycle ------------------------------
(*****************************************************************************)
(* How a server comes to be and ends: its installation into a data           *)
(* directory, by the command or by the setup page of a server that has no    *)
(* configuration yet; processes started on that directory, the pid file and  *)
(* the port they compete for; the route tree a process builds once and drops *)
(* when setup turns it into a running server; and the stop, which lets the   *)
(* requests finish before it closes the storage.                             *)
(*****************************************************************************)
EXTENDS Integers, Sequences, FiniteSets

CONSTANTS
    MaxBegun,       \* bound: processes and installations that are begun
    MaxTroubles     \* bound: steps that fail, kills, and installations by force

ASSUME LifecycleAssumption == {MaxBegun, MaxTroubles} \subseteq Nat

VARIABLES
    dir,        \* the data directory: config, admin, space, pid (0: no pid file)
    port,       \* the process that listens on the port, 0 for none
    process,    \* the processes so far
    install,    \* the installations so far: by (a process, 0 for the command), at
    troubles,   \* troubles so far
    amiss       \* history: what happened that the code has no answer to

lifeVars == <<dir, port, process, install, troubles, amiss>>

EmptyDir == [config |-> FALSE, admin |-> FALSE, space |-> FALSE, pid |-> 0]
LifecycleInit ==
    /\ dir = EmptyDir /\ port = 0 /\ process = <<>> /\ install = <<>> /\ troubles = 0 /\ amiss = {}

Alive == {p \in DOMAIN process : process[p].stage # "gone"}
Room == Len(process) + Len(install) < MaxBegun
Trouble == troubles < MaxTroubles /\ troubles' = troubles + 1
Step(p, from, to) == process[p].stage = from /\ process' = [process EXCEPT ![p].stage = to]

(***************************************************************************)
(* Installation.                                                           *)
(***************************************************************************)
\* The setup page is posted to a process that needs setup; the command needs none.
SetupPages == {p \in DOMAIN process : process[p].stage = "serving" /\ process[p].tree = "setup"}
BeginInstall == \E by \in SetupPages \cup {0} :
    /\ Room /\ ~dir.config
    /\ install' = Append(install, [by |-> by, at |-> "save"])
    /\ UNCHANGED <<dir, port, process, troubles, amiss>>

\* The command with --force removes the directory first, whoever works in it.
ForceInstall ==
    /\ Room /\ Trouble
    /\ install' = Append(install, [by |-> 0, at |-> "save"])
    /\ dir' = EmptyDir /\ amiss' = amiss \cup {"wiped"}
    /\ UNCHANGED <<port, process>>


\* Mutant for DirectoryTells: the setup is over before there is a space.
NextStepShort(i) ==
    CASE install[i].at = "save" -> "user"
      [] install[i].at = "user" -> IF install[i].by = 0 THEN "space" ELSE "switch"
      [] install[i].at = "space" -> "done"
      [] install[i].at = "switch" -> "drop"
      [] OTHER -> "done"

\* Mutant for RequestsServed: the tree is dropped first, and may be built again before the switch.
NextStepDropFirst(i) ==
    CASE install[i].at = "save" -> "user"
      [] install[i].at = "user" -> "space"
      [] install[i].at = "space" -> IF install[i].by = 0 THEN "done" ELSE "drop"
      [] install[i].at = "drop" -> "switch"
      [] OTHER -> "done"
\* The configuration, the administrator and its token, the space; then a setup page turns
\* its process into a running server.
NextStep(i) ==
    CASE install[i].at = "save" -> "user"
      [] install[i].at = "user" -> "space"
      [] install[i].at = "space" -> IF install[i].by = 0 THEN "done" ELSE "switch"
      [] install[i].at = "switch" -> "drop"
      [] OTHER -> "done"
Advance(i) == install' = [install EXCEPT ![i].at = NextStep(i)]

SaveConfig(i) ==
    /\ install[i].at = "save" /\ Advance(i)
    /\ dir' = [dir EXCEPT !.config = TRUE]
    /\ UNCHANGED <<port, process, troubles, amiss>>
AddAdmin(i) ==
    /\ install[i].at = "user" /\ ~dir.admin /\ Advance(i)
    /\ dir' = [dir EXCEPT !.admin = TRUE]
    /\ UNCHANGED <<port, process, troubles, amiss>>
CreateFirstSpace(i) ==
    /\ install[i].at = "space" /\ ~dir.space /\ Advance(i)
    /\ dir' = [dir EXCEPT !.space = TRUE]
    /\ UNCHANGED <<port, process, troubles, amiss>>

\* A step finds its work done by another installation, and ends there.
SecondInstall(i) ==
    /\ \/ install[i].at = "user" /\ dir.admin
       \/ install[i].at = "space" /\ dir.space
    /\ install' = [install EXCEPT ![i].at = "failed"]
    /\ UNCHANGED <<dir, port, process, troubles, amiss>>

\* A step fails: what was done stays, and the next attempt finds a server installed.
FailInstall(i) ==
    /\ install[i].at \in {"save", "user", "space"} /\ Trouble
    /\ install' = [install EXCEPT ![i].at = "failed"]
    /\ amiss' = amiss \cup {"half"}
    /\ UNCHANGED <<dir, port, process>>

\* The switch waits for the mutex a request holds while it builds the route tree;
SwitchOver(i) ==
    LET p == install[i].by IN
    /\ install[i].at = "switch" /\ process[p].stage # "gone" /\ process[p].building = "no"
    /\ process' = [process EXCEPT ![p].mode = "run"] /\ Advance(i)
    /\ UNCHANGED <<dir, port, troubles, amiss>>
\* the tree is dropped after it, without the mutex.
invalidateHandler(i) ==
    LET p == install[i].by IN
    /\ install[i].at = "drop" /\ process[p].stage # "gone" /\ Advance(i)
    /\ process' = [process EXCEPT ![p].tree = "none"]
    /\ UNCHANGED <<dir, port, troubles, amiss>>

(***************************************************************************)
(* The route tree, built at most once between two drops.                   *)
(***************************************************************************)
buildHandler(p) ==
    /\ process[p].stage = "serving" /\ process[p].tree = "none" /\ process[p].building = "no"
    /\ process' = [process EXCEPT ![p].building = process[p].mode]
    /\ UNCHANGED <<dir, port, install, troubles, amiss>>
Handler(p) ==
    /\ process[p].stage # "gone" /\ process[p].building # "no"
    /\ process' = [process EXCEPT ![p].tree = process[p].building, ![p].building = "no"]
    /\ UNCHANGED <<dir, port, install, troubles, amiss>>

(***************************************************************************)
(* A process: start, serve, stop.                                          *)
(***************************************************************************)
\* It reads whether there is a configuration, and opens the stores by it or sets up.
Start ==
    /\ Room
    /\ process' = Append(process, [stage |-> "new", mode |-> IF dir.config THEN "run" ELSE "setup",
                                   tree |-> "none", building |-> "no", busy |-> 0, storage |-> "open"])
    /\ amiss' = amiss \cup IF Alive # {} THEN {"second"} ELSE {}
    /\ UNCHANGED <<dir, port, install, troubles>>


\* The pid file is its own before it knows that the port is free,
WritePid(p) ==
    /\ Step(p, "new", "named")
    /\ dir' = [dir EXCEPT !.pid = p]
    /\ UNCHANGED <<port, install, troubles, amiss>>

\* and removed again when it leaves: whose ever it is by then.
LeaveDir(p) ==
    /\ process' = [process EXCEPT ![p].stage = "gone"]
    /\ dir' = [dir EXCEPT !.pid = 0]
    /\ port' = IF port = p THEN 0 ELSE port

checkListenFree(p) == /\ port = 0 /\ Step(p, "named", "spawned")
                      /\ UNCHANGED <<dir, port, install, troubles, amiss>>
PortTaken(p) == /\ process[p].stage \in {"named", "spawned"} /\ port # 0 /\ LeaveDir(p)
                /\ UNCHANGED <<install, troubles, amiss>>
ListenAndServe(p) ==
    /\ port = 0 /\ Step(p, "spawned", "serving") /\ port' = p
    /\ UNCHANGED <<dir, install, troubles, amiss>>

ArriveAt(p) ==
    /\ process[p].stage = "serving" /\ process[p].tree # "none" /\ process[p].busy < 1
    /\ process' = [process EXCEPT ![p].busy = @ + 1]
    /\ UNCHANGED <<dir, port, install, troubles, amiss>>
Leaves(p) ==
    /\ process[p].stage # "gone" /\ process[p].busy > 0
    /\ process' = [process EXCEPT ![p].busy = @ - 1]
    /\ UNCHANGED <<dir, port, install, troubles, amiss>>

\* The stop command signals the process the pid file names, and removes the file.  A process
\* without a handler for the signal dies of it; one that has not made its listener yet finds
\* nothing to shut down, closes the storage, and serves on.
StopServer ==
    LET p == dir.pid IN
    /\ p \in Alive
    /\ dir' = [dir EXCEPT !.pid = 0]
    /\ CASE process[p].stage = "serving" ->
              /\ process' = [process EXCEPT ![p].stage = "draining"]
              /\ port' = IF port = p THEN 0 ELSE port
              /\ UNCHANGED amiss
         [] process[p].stage = "spawned" ->
              /\ process' = [process EXCEPT ![p].storage = "closed"]
              /\ amiss' = amiss \cup {"early"} /\ UNCHANGED port
         [] process[p].stage = "named" ->
              /\ process' = [process EXCEPT ![p].stage = "gone"] /\ UNCHANGED <<port, amiss>>
         [] OTHER -> UNCHANGED <<process, port, amiss>>
    /\ UNCHANGED <<install, troubles>>


\* Requests finish, a posted setup page among them, within a time limit: a stream that stays
\* open runs into it.
Serves(p) == process[p].busy > 0
             \/ \E i \in DOMAIN install : install[i].by = p /\ install[i].at \notin {"done", "failed"}
Shutdown(p) ==
    /\ ~Serves(p) /\ Step(p, "draining", "drained")
    /\ UNCHANGED <<dir, port, install, troubles, amiss>>
ShutdownTimeout(p) ==
    /\ Serves(p) /\ Step(p, "draining", "drained")
    /\ amiss' = amiss \cup {"timeout"}
    /\ UNCHANGED <<dir, port, install, troubles>>
CloseStorage(p) ==
    /\ process[p].stage = "drained"
    /\ process' = [process EXCEPT ![p].stage = "closed", ![p].storage = "closed"]
    /\ UNCHANGED <<dir, port, install, troubles, amiss>>
\* An installation from the page of a process that is gone ends where it is.
CutShort(p) ==
    /\ amiss' = amiss \cup IF \E i \in DOMAIN install : /\ install[i].by = p
                                                       /\ install[i].at \in {"save", "user", "space"}
                           THEN {"half"} ELSE {}
    /\ install' = [i \in DOMAIN install |-> IF install[i].by = p /\ install[i].at # "done"
                                            THEN [install[i] EXCEPT !.at = "failed"] ELSE install[i]]
gracefulStop(p) == process[p].stage = "closed" /\ LeaveDir(p) /\ CutShort(p) /\ UNCHANGED troubles

\* Killed: the pid file stays.
Kill(p) ==
    /\ p \in Alive /\ Trouble
    /\ process' = [process EXCEPT ![p].stage = "gone"]
    /\ port' = IF port = p THEN 0 ELSE port
    /\ CutShort(p) /\ UNCHANGED dir

\* What status and health report.
status == IF dir.config THEN <<"pid", dir.pid>> ELSE <<"no config", 0>>
health == port # 0

LifecycleNext ==
    \/ BeginInstall \/ ForceInstall \/ Start \/ StopServer
    \/ \E i \in DOMAIN install : \/ SaveConfig(i) \/ AddAdmin(i) \/ CreateFirstSpace(i)
                                 \/ SecondInstall(i) \/ FailInstall(i)
                                 \/ SwitchOver(i) \/ invalidateHandler(i)
    \/ \E p \in DOMAIN process : \/ buildHandler(p) \/ Handler(p) \/ WritePid(p)
                                 \/ checkListenFree(p) \/ PortTaken(p) \/ ListenAndServe(p)
                                 \/ ArriveAt(p) \/ Leaves(p) \/ Shutdown(p) \/ ShutdownTimeout(p)
                                 \/ CloseStorage(p) \/ gracefulStop(p) \/ Kill(p)

LifecycleSpec == LifecycleInit /\ [][LifecycleNext]_lifeVars

(***************************************************************************)
(* Properties.                                                             *)
(***************************************************************************)
\* After the setup of a process is over, no request is served by the setup's routes: they
\* would let anybody who comes set the server up again.
TreeFresh ==
    \A i \in DOMAIN install :
      (install[i].by # 0 /\ install[i].at = "done") => process[install[i].by].tree # "setup"

\* A data directory with a configuration has its administrator and its space, or is being
\* installed: a server that only its configuration says is installed has nobody who may
\* log in, and refuses to be installed.  Unless an installation failed or was cut short.
InstalledWhole ==
    (dir.config /\ amiss \cap {"half", "wiped"} = {}) =>
      \/ dir.admin /\ dir.space
      \/ \E i \in DOMAIN install : install[i].at \in {"user", "space"}

\* The pid file names the process that serves, so that it can be stopped: unless a second
\* one was started beside it, which takes the file and removes it, the directory was
\* removed, or the stop came before it was listening.
PidNamesServer ==
    amiss \cap {"second", "wiped", "early"} = {} =>
      \A p \in DOMAIN process : process[p].stage = "serving" => dir.pid = p

\* The storage is closed only when no request works on it: unless they did not finish in
\* time, or the stop came before the listener.
DrainedFirst ==
    amiss \cap {"timeout", "early"} = {} =>
      \A p \in Alive : process[p].storage = "closed" => process[p].busy = 0

\* The data directory tells the truth of the server: whole when it says it is installed, and
\* the process it names is the one that serves.
DirectoryTells == InstalledWhole /\ PidNamesServer

\* Every request is served by the routes of the server's present state, and by storage that
\* is still open.
RequestsServed == TreeFresh /\ DrainedFirst
===============================================================================
