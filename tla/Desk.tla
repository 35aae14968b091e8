-------------------------------- MODULE Desk ---------------------------------
(***************************************************************************)
(* One file of a local space, in its version log and in the working tree,  *)
(* and the desks it is worked on from: the file commands, the terminal UI  *)
(* and the local console. An edit checks the file out, waits for an editor *)
(* or a form, and saves over the version it was opened on; every save is   *)
(* then mirrored into the tree, where agents and people edit it directly.  *)
(***************************************************************************)
EXTENDS Integers, Sequences, FiniteSets, TLC, SequencesExt

CONSTANTS
    Cli, Tui, Console,          \* the desks: commands, terminal UIs, pages of the console
    Environment, Installed,     \* what the editor variables may name, and the editors found
    Terminal, Known,            \* editors that run in the terminal; those a wait flag is known for
    Draft, NoText,              \* what is typed; no text
    MaxOpened, MaxDirect        \* bounds: sessions; edits made directly in the tree

ASSUME DeskAssumption == NoText \notin Draft /\ {MaxOpened, MaxDirect} \subseteq Nat

VARIABLES
    version,    \* the version log: the bodies, in order
    live, destroyed,    \* the current version, 0 for none; the versions destroyed
    tree,       \* the working tree
    desk,       \* desk[d]: how far a session is
    session,    \* whether the browser has the console's session
    opened, direct,
    remembered, \* the editor the configuration remembers
    saved,      \* history: for each version, the one its writer had opened
    adrift,     \* history: why the tree may differ from the log
    vanished    \* history: what was typed and went nowhere without a word

deskVars == <<version, live, destroyed, tree, desk, session, opened, direct, remembered, saved, adrift, vanished>>

Desk == Cli \cup Tui \cup Console
Closed == [at |-> "closed"]
\* A space has its files in the log from the start, or, made by an earlier build, only in the tree.
DeskInit ==
    /\ \E d \in Draft, tracked \in BOOLEAN :
         /\ tree = d /\ version = (IF tracked THEN <<d>> ELSE <<>>) /\ live = Len(version)
    /\ destroyed = {} /\ desk = [d \in Desk |-> Closed] /\ session = FALSE
    /\ opened = 0 /\ direct = 0 /\ remembered = "none"
    /\ saved = version /\ adrift = {} /\ vanished = {}

logged == <<version, live, destroyed>>
AtStage(d, stage) == desk[d].at = stage
Move(d, stage) == desk' = [desk EXCEPT ![d].at = stage]
Close(d) == desk' = [desk EXCEPT ![d] = Closed]
Readable(n) == n \in DOMAIN version \ destroyed
currentBody == IF live = 0 THEN NoText ELSE version[live]
\* What a listing shows: what the log knows and what the tree holds.
List == live # 0 \/ tree # NoText

(***************************************************************************)
(* Editors. One that opens a window and is not told to wait gives the file *)
(* back before it was edited.                                              *)
(***************************************************************************)
Waits(e) == e \in Terminal \cup Known
FromEnvironment == {[id |-> e, waits |-> Waits(e)] : e \in Environment}
Lookup(ids) == {[id |-> e, waits |-> Waits(e)] : e \in ids}
Detect == FromEnvironment \cup Lookup(Installed)
resolveEditor == IF FromEnvironment # {} THEN FromEnvironment \cup Lookup(Installed) ELSE Detect
\* The picker of the terminal UI puts the remembered editor first; any may be chosen.
editorsFor == Detect \cup (IF remembered = "none" THEN {} ELSE Lookup({remembered}))

(***************************************************************************)
(* Sessions.                                                               *)
(***************************************************************************)
Checkout(d, e) ==
    /\ AtStage(d, "closed") /\ opened < MaxOpened /\ opened' = opened + 1
    /\ desk' = [desk EXCEPT ![d] = [at |-> "editor", shown |-> currentBody, over |-> live, text |-> currentBody,
                                    waits |-> e.waits, mirror |-> TRUE, wrote |-> 0]]
    /\ UNCHANGED <<logged, tree, session, direct, saved, adrift, vanished>>
EditCommand(d) == d \in Cli /\ UNCHANGED remembered /\ \E e \in resolveEditor : Checkout(d, e)
launch(d) == d \in Tui /\ List /\ \E e \in editorsFor : Checkout(d, e) /\ remembered' = e.id

\* The console answers a browser that shows its session, and a form that carries its token.
handleAuth ==
    /\ ~session /\ session' = TRUE
    /\ UNCHANGED <<logged, tree, desk, opened, direct, remembered, saved, adrift, vanished>>
secure(host, origin) == host = "localhost" /\ origin \in {"none", "localhost"}
guard(method, csrf) == session /\ (method = "POST" => csrf = "ours")
renderFile(d) ==
    /\ d \in Console /\ secure("localhost", "none") /\ guard("GET", "none")
    /\ Checkout(d, [waits |-> TRUE]) /\ UNCHANGED remembered

\* Something is typed and saved, in the scratch file or the form; or nothing is.
Type(d) ==
    /\ AtStage(d, "editor")
    /\ \E t \in Draft \cup {desk[d].shown} :
         IF desk[d].waits
         THEN desk' = [desk EXCEPT ![d].at = "finish", ![d].text = t] /\ UNCHANGED vanished
         ELSE /\ desk' = [desk EXCEPT ![d].at = "finish"]
              /\ vanished' = IF t = desk[d].shown THEN vanished ELSE vanished \cup {"unwaited"}
    /\ UNCHANGED <<logged, tree, session, opened, direct, remembered, saved, adrift>>
\* The editor fails, the picker is left, or the page is closed: the user sees it.
LeaveEditor(d) ==
    /\ AtStage(d, "editor") /\ Close(d)
    /\ UNCHANGED <<logged, tree, session, opened, direct, remembered, saved, adrift, vanished>>
\* What did not change is not saved; a form is saved as it is.
FinishEdit(d) ==
    /\ AtStage(d, "finish")
    /\ IF desk[d].text = desk[d].shown /\ d \notin Console THEN Close(d) ELSE Move(d, "commit")
    /\ UNCHANGED <<logged, tree, session, opened, direct, remembered, saved, adrift, vanished>>

\* Mutant for EditsKept: the version is read again before the save.
commitBodyReread(d) ==
    /\ AtStage(d, "commit")
    /\ version' = Append(version, desk[d].text) /\ live' = Len(version) + 1 /\ saved' = Append(saved, desk[d].shown)
    /\ desk' = [desk EXCEPT ![d].at = "mirror", ![d].wrote = Len(version) + 1]
    /\ UNCHANGED <<destroyed, tree, session, opened, direct, remembered, adrift, vanished>>
\* A conflict is reported and the save is not made: the scratch file is gone by then.
commitBody(d) ==
    /\ AtStage(d, "commit")
    /\ IF desk[d].over # live THEN Close(d) /\ UNCHANGED <<version, live, saved, adrift>>
       ELSE /\ version' = Append(version, desk[d].text) /\ live' = Len(version) + 1
            /\ saved' = Append(saved, desk[d].shown)
            /\ IF desk[d].mirror
               THEN desk' = [desk EXCEPT ![d].at = "mirror", ![d].wrote = Len(version) + 1] /\ UNCHANGED adrift
               ELSE Close(d) /\ adrift' = adrift \cup {"restored by the console"}
    /\ UNCHANGED <<destroyed, tree, session, opened, direct, remembered, vanished>>

Puts(d, text, mirror) ==
    /\ AtStage(d, "closed") /\ opened < MaxOpened /\ opened' = opened + 1
    /\ desk' = [desk EXCEPT ![d] = [at |-> "commit", shown |-> currentBody, over |-> live, text |-> text,
                                    waits |-> TRUE, mirror |-> mirror, wrote |-> 0]]
    /\ UNCHANGED <<logged, tree, session, direct, remembered, saved, adrift, vanished>>
PutCommand(d) == d \in Cli /\ \E t \in Draft : Puts(d, t, TRUE)
RevertCommand(d) == d \in Cli /\ \E n \in DOMAIN version : Readable(n) /\ Puts(d, version[n], TRUE)
revertFileVersion(d) == d \in Tui /\ \E n \in DOMAIN version : Readable(n) /\ Puts(d, version[n], TRUE)
\* The console restores over the version its page was rendered with, and does not mirror.
Restore(d) ==
    /\ d \in Console /\ AtStage(d, "finish") /\ guard("POST", "ours")
    /\ \E n \in DOMAIN version : Readable(n) /\
         desk' = [desk EXCEPT ![d].at = "commit", ![d].text = version[n], ![d].mirror = FALSE]
    /\ UNCHANGED <<logged, tree, session, opened, direct, remembered, saved, adrift, vanished>>
handleFileSave(d) == d \in Console /\ guard("POST", "ours") /\ commitBody(d)

\* The mirror of a version that another has followed in the meantime takes the tree back.
writeTreeFile(d) ==
    /\ AtStage(d, "mirror") /\ Close(d)
    /\ tree' = desk[d].text
    /\ adrift' = IF desk[d].wrote = live THEN {} ELSE adrift \cup {"overtaken"}
    /\ UNCHANGED <<logged, session, opened, direct, remembered, saved, vanished>>
writeTreeFails(d) ==
    /\ AtStage(d, "mirror") /\ direct < MaxDirect /\ direct' = direct + 1 /\ Close(d)
    /\ adrift' = adrift \cup {"not written"}
    /\ UNCHANGED <<logged, tree, session, opened, remembered, saved, vanished>>

DestroyCommand(d) ==
    /\ d \in Cli /\ AtStage(d, "closed") /\ opened < MaxOpened /\ opened' = opened + 1
    /\ \E n \in DOMAIN version \ {live} : destroyed' = destroyed \cup {n}
    /\ UNCHANGED <<version, live, tree, desk, session, direct, remembered, saved, adrift, vanished>>
\* A file the log does not know is recorded as it is in the tree, by the command or when a
\* space is activated and its log is empty.
seedFileLog ==
    /\ live = 0 /\ version = <<>> /\ tree # NoText
    /\ version' = <<tree>> /\ live' = 1 /\ saved' = <<tree>> /\ adrift' = {}
    /\ UNCHANGED <<destroyed, tree, desk, session, opened, direct, remembered, vanished>>

EditDirectory ==
    /\ direct < MaxDirect /\ direct' = direct + 1
    /\ \E t \in Draft : t # tree /\ tree' = t
    /\ adrift' = adrift \cup {"edited"}
    /\ UNCHANGED <<logged, desk, session, opened, remembered, saved, vanished>>

DeskNext ==
    \/ handleAuth \/ seedFileLog \/ EditDirectory
    \/ \E d \in Desk :
         \/ EditCommand(d) \/ launch(d) \/ renderFile(d) \/ Type(d) \/ LeaveEditor(d) \/ FinishEdit(d)
         \/ PutCommand(d) \/ RevertCommand(d) \/ revertFileVersion(d) \/ Restore(d)
         \/ (d \notin Console /\ commitBody(d)) \/ handleFileSave(d)
         \/ writeTreeFile(d) \/ writeTreeFails(d) \/ DestroyCommand(d)
DeskSpec == DeskInit /\ [][DeskNext]_deskVars

(***************************************************************************)
(* Properties.                                                             *)
(***************************************************************************)
\* Whoever saves a version has been shown the one before it: no desk overwrites what another
\* saved after it had opened the file.
SavedOverOpened == \A n \in DOMAIN version \ {1} : saved[n] = version[n - 1]

\* With no session open the tree is the current version, unless somebody edited it directly, a
\* mirror failed or came late, or the console restored a version.
TreeInStep == (\A d \in Desk : desk[d] = Closed) /\ adrift = {} /\ live # 0 => tree = currentBody

\* What was typed into an editor is saved or refused aloud, whichever editor the variables or
\* the configuration name, as long as it is one that can be made to wait.
NothingVanishes == Environment \cup Installed \subseteq Terminal \cup Known => vanished = {}

\* An edit is kept: saved over what was opened, in the tree as in the log, and not lost
\* while the editor is still at work.
EditsKept == SavedOverOpened /\ TreeInStep /\ NothingVanishes
===============================================================================
