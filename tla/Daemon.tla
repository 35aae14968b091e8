------------------------------- MODULE Daemon -------------------------------
(****************************************************************************)
(* The processes that keep one client directory current in the background:  *)
(* daemons started by command, in a terminal or by the session manager of   *)
(* the system, the pid file through which they are found and stopped, the   *)
(* interval they poll at, and the per-user services that the daemon and the *)
(* local console are installed as.  What a poll does is SyncClient's.       *)
(****************************************************************************)
EXTENDS Integers, Sequences, FiniteSets

CONSTANTS
    Platform,       \* "linux" (systemd --user) or "darwin" (launchd)
    Interval,       \* the polling intervals a daemon may be given
    MaxBackoff,     \* the widest gap between two polls
    Shell,        \* the `daemon start` and `daemon stop` that may be under way at once
    MaxFailures,    \* bound: failures in a row that are told apart
    MaxLaunched     \* bound: processes

ASSUME DaemonAssumption ==
    /\ Platform \in {"linux", "darwin"}
    /\ Interval \subseteq Nat \ {0} /\ {MaxBackoff, MaxFailures, MaxLaunched} \subseteq Nat \ {0}

VARIABLES
    pidFile,    \* the process the pid file names, 0 when there is none
    daemon,     \* the processes so far
    command,    \* per command: how far it is, and the process it has begun or read of
    agent,      \* per service: whether its unit file is there, what the manager was told
    unwatched      \* history: whether a second daemon may have come to be, in one of DaemonAlone's ways

daemonVars == <<pidFile, daemon, command, agent, unwatched>>

Service == {"daemon", "ui"}
NoCommand == [at |-> "none", pid |-> 0]
DaemonInit ==
    /\ pidFile = 0 /\ daemon = <<>> /\ command = [c \in Shell |-> NoCommand] /\ unwatched = FALSE
    /\ agent = [s \in Service |-> [unit |-> FALSE, told |-> "never"]]

Lives(d) == d # 0 /\ daemon[d].stage \notin {"gone", "left"}
Daemons == {d \in DOMAIN daemon : Lives(d) /\ daemon[d].by # "ui"}
Launched(by, stage) ==
    /\ Len(daemon) < MaxLaunched
    /\ \E i \in Interval :
         daemon' = Append(daemon, [by |-> by, stage |-> stage, told |-> FALSE, delay |-> i,
                                   interval |-> i, failures |-> 0])
Gone(d) == [by |-> "", stage |-> "gone", told |-> FALSE, delay |-> 0, interval |-> 0, failures |-> 0]
Became(d, stage) == daemon' = [daemon EXCEPT ![d].stage = stage]
Ends(d) == daemon' = [daemon EXCEPT ![d] = Gone(d)]

(***************************************************************************)
(* By command.                                                             *)
(***************************************************************************)
Stage(c, at, pid) == command' = [command EXCEPT ![c] = [at |-> at, pid |-> pid]]
Starting == \E c \in Shell : command[c].at \in {"spawn", "write"}
\* What a start cannot see in the pid file: another start that has not written it yet, a daemon
\* that has not either, and one that was told to stop and still polls.
Unseen == Starting \/ \E d \in Daemons : daemon[d].told \/ daemon[d].stage = "spawned"
\* Mutant for DaemonAlone: any process the pid file names counts as gone.
DaemonStartAnyway(c) ==
    /\ command[c].at = "none" /\ Stage(c, "spawn", 0)
    /\ unwatched' = (unwatched \/ Unseen)
    /\ UNCHANGED <<pidFile, daemon, agent>>
\* `daemon start` refuses while the process the pid file names lives, and takes no lock until
\* it has begun its own and written that down.
DaemonStart(c) ==
    /\ command[c].at = "none" /\ ~Lives(pidFile) /\ Stage(c, "spawn", 0)
    /\ unwatched' = (unwatched \/ Unseen)
    /\ UNCHANGED <<pidFile, daemon, agent>>
SpawnDaemon(c) ==
    /\ command[c].at = "spawn" /\ Launched("start", "spawned") /\ Stage(c, "write", Len(daemon'))
    /\ UNCHANGED <<pidFile, agent, unwatched>>
WriteStarted(c) ==
    /\ command[c].at = "write" /\ Stage(c, "none", 0)
    /\ pidFile' = command[c].pid
    /\ UNCHANGED <<daemon, agent, unwatched>>

\* `daemon start --foreground` asks no pid file and writes none.
StartForeground ==
    /\ Launched("terminal", "running")
    /\ unwatched' = TRUE
    /\ UNCHANGED <<pidFile, command, agent>>

\* `daemon run`, which start and the service execute: the file is this process's now.
DaemonRun(d) ==
    /\ daemon[d].by \in {"start", "daemon"} /\ daemon[d].stage = "spawned" /\ Became(d, "running")
    /\ pidFile' = d
    /\ UNCHANGED <<command, agent, unwatched>>

\* The loop: it sees a signal only between two polls, and a poll may take 45 seconds.
PollBegins(d) ==
    /\ daemon[d].stage = "running" /\ daemon[d].by # "ui" /\ Became(d, "polling")
    /\ UNCHANGED <<pidFile, command, agent, unwatched>>
\* The first failure retries at the interval; each one after it doubles the gap, up to the
\* widest: which an interval longer than that is cut to.
backoffFor(base, failures) ==
    IF failures <= 1 THEN base
    ELSE LET d == base * 2 ^ (failures - 1) IN IF d >= MaxBackoff THEN MaxBackoff ELSE d
PollFails(d) ==
    /\ daemon[d].stage = "polling"
    /\ LET n == IF daemon[d].failures < MaxFailures THEN daemon[d].failures + 1 ELSE MaxFailures
       IN  daemon' = [daemon EXCEPT ![d].stage = "running", ![d].failures = n,
                                    ![d].delay = backoffFor(daemon[d].interval, n)]
    /\ UNCHANGED <<pidFile, command, agent, unwatched>>
PollSucceeds(d) ==
    /\ daemon[d].stage = "polling"
    /\ daemon' = [daemon EXCEPT ![d].stage = "running", ![d].failures = 0,
                                ![d].delay = daemon[d].interval]
    /\ UNCHANGED <<pidFile, command, agent, unwatched>>
\* The file goes; it may name a daemon that lives and was not meant.
RemovePid(meant) ==
    /\ pidFile' = 0
    /\ unwatched' = (unwatched \/ (pidFile # meant /\ Lives(pidFile)))
\* The process leaves, and takes the pid file with it: whose ever it is by now.
DaemonLeaves(d) ==
    /\ daemon[d].stage = "running" /\ daemon[d].told
    /\ daemon' = [daemon EXCEPT ![d] = [Gone(d) EXCEPT !.stage = "left", !.by = daemon[d].by]]
    /\ IF daemon[d].by \in {"start", "daemon"} THEN RemovePid(d) ELSE UNCHANGED <<pidFile, unwatched>>
    /\ UNCHANGED <<command, agent>>

\* A process that has not asked for the signal yet dies of it.
Terminated(d) == IF daemon[d].stage = "spawned" THEN Gone(d)
                 ELSE [daemon[d] EXCEPT !.told = TRUE]
\* `daemon stop` reads the file, signals the process, if it still lives, without waiting for
\* it, and removes the file either way.
DaemonStop(c) ==
    /\ command[c].at = "none" /\ pidFile # 0 /\ Stage(c, "signal", pidFile)
    /\ UNCHANGED <<pidFile, daemon, agent, unwatched>>
SignalDaemon(c) ==
    /\ command[c].at = "signal" /\ Stage(c, "remove", command[c].pid)
    /\ LET d == command[c].pid
       IN daemon' = IF Lives(d) THEN [daemon EXCEPT ![d] = Terminated(d)] ELSE daemon
    /\ UNCHANGED <<pidFile, agent, unwatched>>
RemoveStopped(c) ==
    /\ command[c].at = "remove" /\ Stage(c, "none", 0)
    /\ RemovePid(command[c].pid)
    /\ UNCHANGED <<daemon, agent>>
\* A command is interrupted; a process it has begun goes on.
AbandonCommand(c) ==
    /\ command[c].at # "none" /\ Stage(c, "none", 0)
    /\ UNCHANGED <<pidFile, daemon, agent, unwatched>>
KillDaemon(d) ==
    /\ Lives(d) /\ Ends(d)
    /\ UNCHANGED <<pidFile, command, agent, unwatched>>

\* What `daemon status` says.
DaemonStatus == [state |-> IF pidFile = 0 THEN "stopped"
                           ELSE IF Lives(pidFile) THEN "running" ELSE "stale",
                 managed |-> agent["daemon"].unit]

(****************************************************************************)
(* As services.  The session manager keeps a service up, and starts at      *)
(* login what it was told to; launchd also what has a unit file and was not *)
(* turned off.                                                              *)
(****************************************************************************)
installService == [agent EXCEPT !["daemon"].unit = TRUE]
installUIService == [agent EXCEPT !["ui"].unit = TRUE]

\* `daemon install` also starts the service, unless it is told not to or that fails.
DaemonInstall ==
    /\ \/ agent' = installService
       \/ agent' = [installService EXCEPT !["daemon"].told = "on"]
    /\ UNCHANGED <<pidFile, daemon, command, unwatched>>
\* The wizard's offer is the same installation, or nothing.
wizardBackgroundSync == DaemonInstall
\* `ui install`, once the standing console is agreed to, starts nothing.
UIInstall ==
    /\ agent' = installUIService
    /\ UNCHANGED <<pidFile, daemon, command, unwatched>>

\* By hand, as the hint of the installation says.
startService(s) ==
    /\ agent[s].unit /\ agent' = [agent EXCEPT ![s].told = "on"]
    /\ daemon' = [d \in DOMAIN daemon |-> IF daemon[d].by = s /\ ~Lives(d) THEN Gone(d) ELSE daemon[d]]
    /\ UNCHANGED <<pidFile, command, unwatched>>

\* The manager turns the service off, and its process with it, before the file goes.
stopService(s) ==
    daemon' = [d \in DOMAIN daemon |-> IF Lives(d) /\ daemon[d].by = s THEN Terminated(d) ELSE daemon[d]]
Uninstalled(s) ==
    /\ agent[s].unit /\ stopService(s)
    /\ agent' = [agent EXCEPT ![s] = [unit |-> FALSE, told |-> "off"]]
    /\ UNCHANGED <<pidFile, command, unwatched>>
uninstallService == Uninstalled("daemon")
uninstallUIService == Uninstalled("ui")

\* Restart=always brings it back however it went; KeepAlive only when it did not leave in
\* good order.
systemdUserUnit(s) == agent[s].told = "on"
launchdPlist(s) ==
    agent[s].told = "on" /\ \A d \in DOMAIN daemon : daemon[d].by = s => daemon[d].stage # "left"
Supervise(s) ==
    /\ IF Platform = "linux" THEN systemdUserUnit(s) ELSE launchdPlist(s)
    /\ \A d \in DOMAIN daemon : Lives(d) => daemon[d].by # s
    /\ Launched(s, "spawned")
    /\ unwatched' = (unwatched \/ (s = "daemon" /\ (Daemons # {} \/ Starting)))
    /\ UNCHANGED <<pidFile, command, agent>>
\* The console serves from the moment it is up, and until it is told to stop.
ServeConsole(d) ==
    /\ daemon[d].by = "ui" /\ daemon[d].stage = "spawned" /\ Became(d, "running")
    /\ UNCHANGED <<pidFile, command, agent, unwatched>>

\* Nothing survives a reboot but the files, and what the manager was told.
LogIn ==
    /\ daemon' = [d \in DOMAIN daemon |-> Gone(d)]
    /\ agent' = [s \in Service |-> IF Platform = "darwin" /\ agent[s].unit /\ agent[s].told = "never"
                                   THEN [agent[s] EXCEPT !.told = "on"] ELSE agent[s]]
    /\ command' = [c \in Shell |-> NoCommand]
    /\ UNCHANGED <<pidFile, unwatched>>

DaemonNext ==
    \/ StartForeground \/ LogIn
    \/ \E c \in Shell : \/ DaemonStart(c) \/ SpawnDaemon(c) \/ WriteStarted(c)
                          \/ DaemonStop(c) \/ SignalDaemon(c) \/ RemoveStopped(c) \/ AbandonCommand(c)
    \/ DaemonInstall \/ wizardBackgroundSync \/ UIInstall \/ uninstallService \/ uninstallUIService
    \/ \E s \in Service : startService(s) \/ Supervise(s)
    \/ \E d \in DOMAIN daemon : \/ DaemonRun(d) \/ PollBegins(d) \/ PollFails(d) \/ PollSucceeds(d)
                                \/ DaemonLeaves(d) \/ KillDaemon(d) \/ ServeConsole(d)

DaemonSpec == DaemonInit /\ [][DaemonNext]_daemonVars

(***************************************************************************)
(* Properties.                                                             *)
(***************************************************************************)
\* Two daemons on one directory overwrite each other's state and last head, so at most one
\* runs: unless one was begun beside another by the service or in a terminal, two starts
\* overlapped, one began while a daemon had yet to write the pid file or to notice that it was
\* told to stop, or the file of a daemon was struck out by the stop or the end of another.
DaemonAlone == ~unwatched => Cardinality(Daemons) <= 1
=============================================================================
