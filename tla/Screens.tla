------------------------------- MODULE Screens -------------------------------
(*********************************************************************************)
(* The two terminal screens: the server's, which drills from its spaces into     *)
(* the files of one and the versions of one file, and the client's, which has    *)
(* one directory.  A screen is a loop over keys and messages.  A key may begin   *)
(* a command, which runs on its own and answers with a message; while `busy` the *)
(* loop takes no key, but messages come in any order and each of them clears it. *)
(*********************************************************************************)
EXTENDS Naturals, FiniteSets

CONSTANTS
    Shelf,      \* the spaces a server has
    Sheet,      \* the paths of files
    OnShelf,    \* per space, its files
    MaxAtOnce   \* bound: commands that run at once

ASSUME ScreensAssumption == OnShelf \in [Shelf -> SUBSET Sheet]

VARIABLES
    screen,     \* "server" or "client"
    m,          \* the model the loop updates
    flight,     \* the messages of the commands that run
    asked,      \* history: the space whose listing was asked for last
    oddly       \* history: a key on an empty list, a listing of a space no longer asked for

screenVars == <<screen, m, flight, asked, oddly>>

Here == CHOOSE s \in Shelf : TRUE       \* the client's only space
None == "none"
FileAt(s, p) == <<s, p>>
NoFile == FileAt(None, None)
newModel == [tab |-> "overview", drill |-> 0, space |-> None, files |-> None, file |-> None,
             versions |-> NoFile, busy |-> FALSE, picking |-> NoFile]
ScreensInit ==
    /\ screen \in {"server", "client"} /\ flight = {} /\ asked = None /\ oddly = {}
    /\ m = [newModel EXCEPT !.space = IF screen = "client" THEN Here ELSE None]

Msg(kind, s, p) == [kind |-> kind, space |-> s, path |-> p]
Commanded(msgs) == flight' = flight \cup msgs /\ Cardinality(flight') <= MaxAtOnce
Idly == UNCHANGED <<screen, flight, asked, oddly>>
Awaiting(msgs) == Commanded(msgs) /\ UNCHANGED <<screen, asked, oddly>>
\* A key that finds nothing under the cursor makes the screen busy with no command.
NothingThere == oddly' = oddly \cup {"empty"} /\ UNCHANGED <<screen, flight, asked>>
Working(a) == m' = [a EXCEPT !.busy = TRUE]

(***************************************************************************)
(* The keys of the server's screen.                                        *)
(***************************************************************************)
OnServer(tabs) == screen = "server" /\ ~m.busy /\ m.tab \in tabs
Tabs == {"overview", "spaces", "output"}

KeyRefresh == OnServer(Tabs) /\ Working(m) /\ Awaiting({Msg("refresh", None, None)})
KeyAction == OnServer(Tabs) /\ Working(m) /\ Awaiting({Msg("done", None, None)})
KeyTab == /\ OnServer(Tabs) /\ Idly
          /\ \/ m' = [m EXCEPT !.tab = "overview", !.drill = 0]
             \/ m' = [m EXCEPT !.tab = "spaces", !.drill = 0]
             \/ m' = [m EXCEPT !.tab = "output"]
Back == CASE m.drill = 1 -> [m EXCEPT !.drill = 0, !.space = None, !.files = None,
                                      !.file = None, !.versions = NoFile]
          [] OTHER -> [m EXCEPT !.drill = 1, !.file = None, !.versions = NoFile]
KeyEsc == /\ OnServer(Tabs) /\ Idly
          /\ m' = IF m.picking # NoFile THEN [m EXCEPT !.picking = NoFile]
                  ELSE IF m.tab = "spaces" /\ m.drill > 0 THEN Back
                  ELSE [m EXCEPT !.tab = "overview", !.drill = 0]

\* Enter on a space lists its files.
spaceEnter ==
    /\ OnServer({"spaces"}) /\ m.drill = 0 /\ m.picking = NoFile
    /\ Working(m)
    /\ IF Shelf = {} THEN NothingThere
       ELSE \E s \in Shelf : /\ Commanded({Msg("files", s, None)}) /\ asked' = s
                             /\ UNCHANGED <<screen, oddly>>
\* Enter on a file opens the choice of editors, where a host shell is allowed.
Listed == IF m.files = None THEN {} ELSE OnShelf[m.files]
begin ==
    /\ OnServer({"spaces"}) /\ m.drill = 1 /\ m.picking = NoFile
    /\ \/ Listed = {} /\ Working(m) /\ NothingThere
       \/ Idly /\ \E p \in Listed : m' = [m EXCEPT !.picking = FileAt(m.files, p)]
\* V on a file lists its versions.
KeyVersions ==
    /\ OnServer({"spaces"}) /\ m.drill = 1 /\ m.picking = NoFile /\ Working(m)
    /\ IF Listed = {} THEN NothingThere
       ELSE \E p \in Listed : /\ Commanded({Msg("versions", m.space, p)})
                              /\ asked' = m.space /\ UNCHANGED <<screen, oddly>>
\* Enter and v preview a version, R restores it.
spacePreview == OnServer({"spaces"}) /\ m.drill = 2 /\ Working(m) /\ Awaiting({Msg("done", None, None)})
spaceRestore == OnServer({"spaces"}) /\ m.drill = 2 /\ Working(m)
                /\ Awaiting({Msg("done", m.space, m.file)})
\* Enter with the choice open edits the path that was picked, in the space that is shown: at
\* whatever depth the screen is.
launchSpaceEdit ==
    /\ OnServer({"spaces"}) /\ m.picking # NoFile
    /\ m' = [m EXCEPT !.busy = TRUE, !.picking = NoFile]
    /\ Awaiting({Msg("saved", m.space, m.picking[2])})

(***************************************************************************)
(* The keys of the client's screen.                                        *)
(***************************************************************************)
OnClient(tabs) == screen = "client" /\ ~m.busy /\ m.tab \in tabs
ClientTabs == {"overview", "files", "output", "graph"}
RefreshKey ==
    /\ OnClient(ClientTabs) /\ Working(m)
    /\ Awaiting({CASE m.tab = "files" /\ m.drill = 2 -> Msg("versions", Here, m.file)
                   [] m.tab = "files" /\ m.drill # 2 -> Msg("files", Here, None)
                   [] OTHER -> Msg("refresh", None, None)})
\* activate, plugin install, status, and a client's pull and push
ActionKey == OnClient(ClientTabs) /\ Working(m) /\ Awaiting({Msg("done", None, None)})
GraphKey == /\ OnClient(ClientTabs) /\ Working([m EXCEPT !.tab = "graph"])
            /\ Awaiting({Msg("graph", None, None)})
TabKey == OnClient(ClientTabs) /\ Idly /\ \E t \in {"overview", "output"} : m' = [m EXCEPT !.tab = t]
\* The files are listed without making the screen busy.
FilesKey == /\ OnClient(ClientTabs) /\ Awaiting({Msg("files", Here, None)})
            /\ m' = [m EXCEPT !.tab = "files", !.drill = 1, !.file = None]
EscKey == /\ OnClient(ClientTabs) /\ Idly
          /\ m' = IF m.picking # NoFile THEN [m EXCEPT !.picking = NoFile]
                  ELSE IF m.tab = "files" /\ m.drill = 2
                       THEN [m EXCEPT !.drill = 1, !.file = None, !.versions = NoFile]
                  ELSE [m EXCEPT !.tab = "overview"]
EnterKey ==
    /\ OnClient({"files"}) /\ m.drill = 1 /\ m.picking = NoFile /\ Idly
    /\ \E p \in Listed : m' = [m EXCEPT !.picking = FileAt(m.files, p)]
launchEdit ==
    /\ OnClient({"files"}) /\ m.picking # NoFile
    /\ m' = [m EXCEPT !.busy = TRUE, !.picking = NoFile]
    /\ Awaiting({Msg("saved", Here, m.picking[2])})
filesEnter ==
    /\ OnClient({"files"}) /\ m.drill = 1 /\ m.picking = NoFile /\ Working(m)
    /\ IF Listed = {} THEN NothingThere
       ELSE \E p \in Listed : Awaiting({Msg("versions", Here, p)})
filesPreviewCurrent ==
    /\ OnClient({"files"}) /\ m.drill = 1 /\ m.picking = NoFile /\ Working(m)
    /\ IF Listed = {} THEN NothingThere ELSE Awaiting({Msg("done", None, None)})
filesPreview == OnClient({"files"}) /\ m.drill = 2 /\ Working(m) /\ Awaiting({Msg("done", None, None)})
filesRestore == OnClient({"files"}) /\ m.drill = 2 /\ Working(m)
                /\ Awaiting({Msg("done", Here, m.file)})

(***************************************************************************)
(* The messages.                                                           *)
(***************************************************************************)
Arrives(kind, e) == e.kind = kind /\ e \in flight /\ UNCHANGED <<screen, asked>>
Then(e, msgs) == flight' = (flight \ {e}) \cup msgs
\* A listing of a space that was left meanwhile: another was asked for since, or is shown.
Outdated(e) == e.space # asked \/ (e.kind = "versions" /\ e.space # m.space)
Odd(e) == oddly' = oddly \cup IF screen = "server" /\ Outdated(e) THEN {"late"} ELSE {}

refreshMsg(e) ==
    /\ Arrives("refresh", e) /\ Then(e, {}) /\ UNCHANGED oddly
    /\ m' = [m EXCEPT !.busy = FALSE]
\* The outcome is shown, and what the screen knows is read again.
actionDoneMsg(e) ==
    /\ Arrives("done", e) /\ Then(e, {Msg("refresh", None, None)}) /\ UNCHANGED oddly
    /\ m' = [m EXCEPT !.busy = FALSE, !.tab = "output"]
graphLoadedMsg(e) ==
    /\ Arrives("graph", e) /\ Then(e, {}) /\ UNCHANGED oddly
    /\ m' = [m EXCEPT !.busy = FALSE]

\* Mutant for ScreenKeepsUp: the files are shown under the space that was shown before.
ShowFilesUnnamed(e) == [m EXCEPT !.busy = FALSE, !.files = e.space, !.drill = 1,
                                 !.file = None, !.versions = NoFile]
\* A listing takes the screen to what it lists, wherever it is.
ShowFiles(e) == [m EXCEPT !.busy = FALSE, !.space = e.space, !.files = e.space, !.drill = 1,
                          !.file = None, !.versions = NoFile]
spaceFilesMsg(e) == screen = "server" /\ Arrives("files", e) /\ Then(e, {}) /\ Odd(e) /\ m' = ShowFiles(e)
spaceVersionsMsg(e) ==
    /\ screen = "server" /\ Arrives("versions", e) /\ Then(e, {}) /\ Odd(e)
    /\ m' = [m EXCEPT !.busy = FALSE, !.space = e.space, !.file = e.path, !.drill = 2,
                      !.versions = FileAt(e.space, e.path)]
\* The client's listing leaves its depth alone; its versions do not.
filesLoadedMsg(e) ==
    /\ screen = "client" /\ Arrives("files", e) /\ Then(e, {}) /\ UNCHANGED oddly
    /\ m' = [m EXCEPT !.busy = FALSE, !.files = e.space]
fileVersionsMsg(e) ==
    /\ screen = "client" /\ Arrives("versions", e) /\ Then(e, {}) /\ UNCHANGED oddly
    /\ m' = [m EXCEPT !.busy = FALSE, !.file = e.path, !.drill = 2, !.versions = FileAt(e.space, e.path)]

\* A listing that fails shows why; the server's list of files is empty then.
Failed(e) == IF screen = "server" /\ e.kind = "files" THEN [m EXCEPT !.busy = FALSE, !.files = None]
             ELSE [m EXCEPT !.busy = FALSE]
ListingFails(e) ==
    /\ e \in flight /\ e.kind \in {"files", "versions", "graph"} /\ Then(e, {})
    /\ m' = Failed(e) /\ UNCHANGED <<screen, asked, oddly>>

\* The editor is left.  A saved file is listed again, in the space that is shown by now.
reloadSpaceFiles ==
    IF screen = "client" THEN {Msg("files", Here, None)}
    ELSE IF m.space = None THEN {} ELSE {Msg("files", m.space, None)}
editSavedMsg(e) ==
    /\ Arrives("saved", e) /\ UNCHANGED oddly
    /\ m' = [m EXCEPT !.busy = FALSE]
    /\ \/ Then(e, {})       \* not changed, or not saved
       \/ Then(e, reloadSpaceFiles \cup {Msg("refresh", None, None)})

ScreensNext ==
    \/ KeyRefresh \/ KeyAction \/ KeyTab \/ KeyEsc \/ spaceEnter \/ begin \/ KeyVersions
    \/ spacePreview \/ spaceRestore \/ launchSpaceEdit
    \/ RefreshKey \/ ActionKey \/ GraphKey \/ TabKey \/ FilesKey \/ EscKey \/ EnterKey
    \/ launchEdit \/ filesEnter \/ filesPreviewCurrent \/ filesPreview \/ filesRestore
    \/ \E e \in flight : \/ refreshMsg(e) \/ actionDoneMsg(e) \/ graphLoadedMsg(e)
                         \/ spaceFilesMsg(e) \/ spaceVersionsMsg(e) \/ filesLoadedMsg(e)
                         \/ fileVersionsMsg(e) \/ ListingFails(e) \/ editSavedMsg(e)

ScreensSpec == ScreensInit /\ [][ScreensNext]_screenVars

(***************************************************************************)
(* Properties.                                                             *)
(***************************************************************************)
\* A picked path is edited in the space it was picked from, and a version is restored to the
\* file it is a version of: unless a listing of a space that was left meanwhile came late,
\* which renames the space under an open choice, or under the files of another.
ActsOnWhatIsShown ==
    /\ (m.picking # NoFile /\ "late" \notin oddly) => m.picking[1] = m.space
    /\ m.drill = 2 => m.versions = FileAt(m.space, m.file)

\* A busy screen takes no key but the one that quits, so a command that will free it is
\* running: unless the key had nothing under the cursor, which leaves the screen busy for good.
BusyEnds == (m.busy /\ "empty" \notin oddly) => flight # {}

\* The screen keeps up with what its user sees: a key acts on it, and is listened to again.
ScreenKeepsUp == ActsOnWhatIsShown /\ BusyEnds
=============================================================================
