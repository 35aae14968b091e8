-------------------------------- MODULE MCHost --------------------------------
(******************************************************************************)
(* The instance that TLC checks of the parts beside the file log, the space   *)
(* service and the sync client.  They share no state in the model, so each    *)
(* behaviour picks one part, runs it and leaves the others as they start: one *)
(* search explores every part from its own initial states.                    *)
(******************************************************************************)
EXTENDS Server, TokenCache, RateLimiter, Lockout, AuditLog, Events, Lifecycle,
        Stores, History, Desk, Daemon, Screens

CONSTANT Parts      \* the parts that the run explores
VARIABLE part

\* The event hub's streams and the webhooks have their emissions in common, and run apart.
Frozen ==
    /\ IF part = "server" THEN TRUE ELSE UNCHANGED serverVars
    /\ IF part = "tokens" THEN TRUE ELSE UNCHANGED credentialVars
    /\ IF part = "rates" THEN TRUE ELSE UNCHANGED rateVars
    /\ IF part = "lockout" THEN TRUE ELSE UNCHANGED lockoutVars
    /\ IF part = "audit" THEN TRUE ELSE UNCHANGED auditVars
    /\ IF part \in {"streams", "hooks"} THEN TRUE ELSE UNCHANGED eventVars
    /\ IF part = "lifecycle" THEN TRUE ELSE UNCHANGED lifeVars
    /\ IF part = "stores" THEN TRUE ELSE UNCHANGED storeVars
    /\ IF part = "history" THEN TRUE ELSE UNCHANGED historyVars
    /\ IF part = "desks" THEN TRUE ELSE UNCHANGED deskVars
    /\ IF part = "daemons" THEN TRUE ELSE UNCHANGED daemonVars
    /\ IF part = "screens" THEN TRUE ELSE UNCHANGED screenVars
    /\ UNCHANGED part

\* A part that does not run is pinned to one of its initial states.
ServerAtRest == part = "server" \/ focus = "accounts"
\* (Contents are interchangeable, so an object under an old key can be taken to be the first.)
StoresAtRest == IF part = "stores" THEN object.old # "b" ELSE driver = "local" /\ object.old = Absent
HistoryAtRest == part = "history" \/ (from = "local" /\ kept = Empty /\ spaceTree = Empty /\ moved = Empty)
DeskAtRest == part = "desks" \/ (tree = "a" /\ version = <<>>)
ScreensAtRest == part = "screens" \/ screen = "server"

HostInit ==
    /\ part \in Parts
    /\ ServerInit /\ ServerAtRest
    /\ StoresInit /\ StoresAtRest
    /\ HistoryInit /\ HistoryAtRest
    /\ DeskInit /\ DeskAtRest
    /\ ScreensInit /\ ScreensAtRest
    /\ CredentialInit /\ RateInit /\ LockoutInit /\ AuditInit /\ EventsInit /\ LifecycleInit /\ DaemonInit

HostNext ==
    \/ part = "server" /\ ServerNext /\ Frozen
    \/ part = "tokens" /\ CredentialNext /\ Frozen
    \/ part = "rates" /\ RateNext /\ Frozen
    \/ part = "lockout" /\ LockoutNext /\ Frozen
    \/ part = "audit" /\ AuditNext /\ Frozen
    \/ part = "streams" /\ (EmissionNext \/ StreamNext) /\ Frozen
    \/ part = "hooks" /\ (EmissionNext \/ HookNext) /\ Frozen
    \/ part = "lifecycle" /\ LifecycleNext /\ Frozen
    \/ part = "stores" /\ StoresNext /\ Frozen
    \/ part = "history" /\ HistoryNext /\ Frozen
    \/ part = "desks" /\ DeskNext /\ Frozen
    \/ part = "daemons" /\ DaemonNext /\ Frozen
    \/ part = "screens" /\ ScreensNext /\ Frozen

hostVars == <<part, serverVars, credentialVars, rateVars, lockoutVars, auditVars, eventVars, lifeVars,
              storeVars, historyVars, deskVars, daemonVars, screenVars>>

\* The workers of the dispatcher are goroutines that nothing stops while the process lives;
\* nothing else is assumed to happen.
HostSpec ==
    HostInit /\ [][HostNext]_hostVars /\ \A w \in Worker : WF_hostVars(part = "hooks" /\ Delivering(w) /\ Frozen)

\* The workers deliver in the run of the webhooks only.
HooksDrain == part = "hooks" => QueueDrains

\* Requests between their lookup and their spending are interchangeable.
Visitors == Permutations(Visitor)
\* A daemon that may be the second of two claims nothing any more, and no later state will.
StillAlone == ~unwatched
EveryTeam == [f \in Follower |-> {"team"}]
EveryScope == [f \in Follower |-> {}]
TwoHooks == <<[id |-> "h1", events |-> {<<"file", "*">>}, space |-> "", enabled |-> TRUE],
              [id |-> "h2", events |-> {}, space |-> "team", enabled |-> TRUE]>>
Topics == {[type |-> <<"file", "write">>, space |-> "team", scope |-> <<>>]}
Sheets == [s \in Shelf |-> {"p"}]
Ordered == <<"p", "q">>
===============================================================================
