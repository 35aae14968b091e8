-------------------------------- MODULE Server --------------------------------
(*****************************************************************************)
(* The HTTP server's handlers, the administration commands that work on the  *)
(* same data directory, and the stores they change: users and tokens,        *)
(* policies and per-user rules, webhooks, spaces, the backend's              *)
(* configuration.                                                            *)
(*                                                                           *)
(* A handler is a small program: what it needs (any one of some capabilities *)
(* on paths), the operations it calls in order, and what it writes to the    *)
(* audit log once they have succeeded.  Requests run concurrently, one store *)
(* operation at a time; a command is a program of another process, with      *)
(* locks and a policy engine of its own and no audit log.  An operation on   *)
(* a file reads the file and writes all of it back, in two steps: inside the *)
(* server a mutex keeps them together, between processes nothing does.       *)
(* What space operations do to files is SpaceService's subject: here they    *)
(* happen or are refused.                                                    *)
(*****************************************************************************)
EXTENDS Policy, TLC

CONSTANTS
    NewUser,        \* the name given to users that are added
    User,           \* the users there are at first
    Admin,          \* the one of them who is an administrator
    Space, Path,    \* names of spaces, and of files
    MaxRequests,    \* bound: requests and commands in a behaviour
    MaxFaults       \* bound: operations that fail although they are legal

ASSUME ServerAssumption ==
    /\ Admin \in User /\ NewUser \notin User
    /\ MaxRequests \in Nat /\ MaxFaults \in Nat

VARIABLES
    disk,       \* the data directory: users, tokens, policies, acl, hooks, spaces, backend
    memory,     \* the running server: engine, userACL, backend
    request,    \* the requests and commands so far, and how far each is
    journal,    \* the audit log: entries [by, action, success]
    focus,      \* which family of requests this behaviour sends
    faults,     \* faults so far
    lastWriter, \* the kind of process that wrote users.yaml last
    cut,        \* history: users whose refusal was acknowledged and not lifted since
    spared,     \* history: users whose tokens a refusal failed to remove
    excuses     \* history: what happened that the code has no answer to

serverVars == <<disk, memory, request, journal, focus, faults, lastWriter, cut, spared, excuses>>

(***************************************************************************)
(* Operations.                                                             *)
(***************************************************************************)
Op(do, name, to, path) == [do |-> do, name |-> name, to |-> to, path |-> path, must |-> TRUE]
Do(do, name) == Op(do, name, {}, <<>>)
Try(op) == [op EXCEPT !.must = FALSE]      \* the handler ignores its error

Yes(content) == [ok |-> TRUE, to |-> content]
No(content) == [ok |-> FALSE, to |-> content]
With(f, name, value) == [x \in DOMAIN f \cup {name} |-> IF x = name THEN value ELSE f[x]]
Found(content, name, new) == IF name \in DOMAIN content THEN Yes(new) ELSE No(content)

\* auth.Store: each reads users.yaml and writes it back whole.
AddUser(us, op) ==
    IF op.name \in DOMAIN us THEN No(us)
    ELSE Yes(With(us, op.name, [policies |-> op.to, disabled |-> FALSE, password |-> FALSE]))
SetRole(us, op) == Found(us, op.name, [us EXCEPT ![op.name].policies = op.to])
SetPolicies(us, op) == Found(us, op.name, [us EXCEPT ![op.name].policies = op.to])
SetDisabled(us, op, b) == Found(us, op.name, [us EXCEPT ![op.name].disabled = b])
RemoveUser(us, op) == Found(us, op.name, [u \in DOMAIN us \ {op.name} |-> us[u]])
SetPassword(us, op) == Found(us, op.name, [us EXCEPT ![op.name].password = TRUE])


\* Creating a token reads users.yaml only to see that the user may have one.
CreateToken(us, op) ==
    IF op.name \in DOMAIN us /\ ~us[op.name].disabled THEN Yes(us) ELSE No(us)

\* A login's first half: the user is there, enabled, has a password, and it matches.
PasswordFits(us, op) ==
    op.name \in DOMAIN us /\ ~us[op.name].disabled /\ us[op.name].password

\* authz.Engine: per-user rules, kept in acl.yaml by the commands.
AddUserRule(acl, op) == Yes([acl EXCEPT ![op.name] = Append(@, Exact(op.path, op.to))])
SetUserRules(acl, op) == Yes([acl EXCEPT ![op.name] = <<>>])
RemoveUserRulePath(acl, op) ==
    Yes([acl EXCEPT ![op.name] = SelectSeq(@, LAMBDA r : r.segs # op.path)])

\* webhooks.Store
Upsert(hooks, op) == Yes(hooks \cup {op.name})
DeleteHook(hooks, op) == Yes(hooks \ {op.name})

UsersOps == {"AddUser", "SetRole", "SetPolicies", "Disable", "Enable", "RemoveUser", "SetPassword",
             "CreateToken"}
AclOps == {"AddUserRule", "SetUserRules", "RemoveUserRulePath"}
HookOps == {"Upsert", "DeleteHook"}
FileOps == UsersOps \cup AclOps \cup HookOps
FileOf(op) == CASE op.do \in UsersOps -> "users" [] op.do \in AclOps -> "acl" [] OTHER -> "hooks"

Edited(op, content) ==
    CASE op.do = "AddUser" -> AddUser(content, op)
      [] op.do = "SetRole" -> SetRole(content, op)
      [] op.do = "SetPolicies" -> SetPolicies(content, op)
      [] op.do = "Disable" -> SetDisabled(content, op, TRUE)
      [] op.do = "Enable" -> SetDisabled(content, op, FALSE)
      [] op.do = "RemoveUser" -> RemoveUser(content, op)
      [] op.do = "SetPassword" -> SetPassword(content, op)
      [] op.do = "CreateToken" -> CreateToken(content, op)
      [] op.do = "AddUserRule" -> AddUserRule(content, op)
      [] op.do = "SetUserRules" -> SetUserRules(content, op)
      [] op.do = "RemoveUserRulePath" -> RemoveUserRulePath(content, op)
      [] op.do = "Upsert" -> Upsert(content, op)
      [] op.do = "DeleteHook" -> DeleteHook(content, op)

\* What an operation does to the token files, once it has written its file.
TokensOf(u) == {t \in disk.tokens : t.user = u}
revokeUserTokens(u) == disk.tokens \ TokensOf(u)
TokensAfter(op, i) ==
    CASE op.do = "CreateToken" -> disk.tokens \cup {[id |-> ToString(i), user |-> op.name]}
      [] op.do \in {"Disable", "RemoveUser"} -> revokeUserTokens(op.name)
      [] OTHER -> disk.tokens

(***************************************************************************)
(* Handlers.  Paths the handlers ask about:                                *)
(***************************************************************************)
Spaces == <<"spaces">>
OfSpace(s) == <<"spaces", s>>
Files(s) == <<"spaces", s, "files">>
File(s, p) == <<"spaces", s, "files", p>>
HeadOf(s) == <<"spaces", s, "head">>
PushTo(s) == <<"spaces", s, "push">>
History(s) == <<"spaces", s, "history">>
Users == <<"sys", "auth", "users">>
Policies == <<"sys", "auth", "policies">>
Webhooks == <<"sys", "webhooks">>
Backends == <<"sys", "backends">>
Audit == <<"sys", "audit">>

\* A program: any one of these capabilities is enough ({} is nobody's business), a refusal
\* is noted in the audit log or not, then the operations, then the entry.  tells: the
\* failures that are audited as refusals, under their own name.
Program(via, any, noted, ops, says, tells) ==
    [via |-> via, any |-> any, noted |-> noted, ops |-> ops, says |-> says, tells |-> tells]
requireCap(path, cap, ops, says) == Program("api", {<<path, cap>>}, TRUE, ops, says, {})
requireCapUI(path, cap, ops, says) == Program("ui", {<<path, cap>>}, TRUE, ops, says, {})
requireFileWrite(s, p, ops, says) ==
    Program("api", {<<File(s, p), "create">>, <<File(s, p), "update">>}, FALSE, ops, says, {})
requireUIAdmin(ops, says) ==
    Program("ui", {<<Backends, "update">>, <<Users, "update">>}, FALSE, ops, says, {})
canAuditRead(ops) == Program("ui", {<<Audit, "list">>, <<Audit, "read">>}, FALSE, ops, "", {})
visibleSpaces(via, names, ops) ==
    Program(via, {<<Spaces, "list">>} \cup {<<OfSpace(n), "read">> : n \in names}
                                     \cup {<<Files(n), "list">> : n \in names}, FALSE, ops, "", {})
Authenticated(via, ops, says) == Program(via, {}, FALSE, ops, says, {})
Unauthenticated(ops, says, tells) == Program("open", {}, FALSE, ops, says, tells)
Telling(program, tells) == [program EXCEPT !.tells = tells]
Seen(s) == <<Do("LookUp", s)>>            \* a read of a space: 404 when it is not there

\* The API's reads
handleListSpaces(names) == visibleSpaces("api", names, <<>>)
handleGetSpace(s) == requireCap(OfSpace(s), "read", Seen(s), "")
handleTree(s) == requireCap(Files(s), "list", Seen(s), "")
handleGetFile(s, p) == requireCap(File(s, p), "read", Seen(s), "")
handleListFileVersions(s, p) == requireCap(File(s, p), "read", Seen(s), "")
handleHead(s) == requireCap(HeadOf(s), "read", Seen(s), "")
handleChanges(s) == requireCap(Files(s), "list", Seen(s), "")
handleListSnapshots(s) == requireCap(History(s), "list", Seen(s), "")
handleFreshness(s) == requireCap(Files(s), "list", Seen(s), "")
handleAuditList == requireCap(Audit, "list", <<>>, "")
handleAuditExport == requireCap(Audit, "read", <<>>, "")
handleAuditStats == requireCap(Audit, "read", <<>>, "")
handleListUsers == requireCap(Users, "list", <<>>, "")
handleWebhooksList == requireCap(Webhooks, "list", <<>>, "")
handleWebhooksGet(h) == requireCap(Webhooks, "read", <<Do("FindHook", h)>>, "")
handleWebhooksDeadLetter == requireCap(Webhooks, "list", <<>>, "")
handleWhoAmI == Authenticated("api", <<>>, "")

\* The API's changes to spaces and files
handleCreateSpace(s) == requireCap(Spaces, "create", <<Do("CreateSpace", s)>>, "space.create")
handleDeleteSpace(s) == requireCap(OfSpace(s), "delete", <<Do("DeleteSpace", s)>>, "space.delete")
handlePutSpaceQuotas(s) ==
    requireCap(OfSpace(s), "update", <<Do("LookUp", s), Do("SaveMeta", s)>>, "space.quotas")
handlePutFile(s, p) ==
    Telling(requireFileWrite(s, p, <<Do("PutFile", s), Try(Do("bumpHead", s))>>, "file.write"),
            {"secret.blocked", "quota.exceeded"})
handleDeleteFile(s, p) ==
    requireCap(File(s, p), "delete", <<Do("DeleteFile", s), Try(Do("bumpHead", s))>>, "file.delete")
handleUndeleteFile(s, p) ==
    requireFileWrite(s, p, <<Do("UndeleteFile", s), Try(Do("bumpHead", s))>>, "file.undelete")
handleDestroyFileVersion(s, p) ==
    requireCap(File(s, p), "delete", <<Do("DestroyFileVersion", s)>>, "file.version.destroy")
handlePush(s) == Telling(requireCap(PushTo(s), "update", <<Do("Push", s)>>, "space.push"),
                         {"secret.blocked", "quota.exceeded"})
handleTakeSnapshot(s) ==
    requireCap(History(s), "create", <<Do("LookUp", s), Do("SnapshotSpace", s)>>, "space.snapshot")

\* The API's changes to users, tokens, policies and webhooks
handleUserpassLogin(u) ==
    Unauthenticated(<<Do("Login", u), Do("CreateToken", u)>>, "auth.login", {"auth.login"})
handleRevokeToken(id) == Authenticated("api", <<Do("RevokeToken", id)>>, "")
handleCreateUser(u, role, pols, issue) ==
    requireCap(Users, "create",
               <<Op("AddUser", u, {role}, <<>>)>>
               \o (IF pols = {} THEN <<>> ELSE <<Op("SetPolicies", u, pols, <<>>)>>)
               \o (IF issue THEN <<Do("CreateToken", u)>> ELSE <<>>), "user.add")

handleCreateUserToken(u) == requireCap(Users, "update", <<Do("CreateToken", u)>>, "token.create")
handleRevokeUserTokens(u) ==
    requireCap(Users, "update", <<Do("RevokeUserTokens", u)>>, "token.revoke_all")
handleDisableUser(u) == requireCap(Users, "update", <<Do("Disable", u)>>, "user.disable")
handleEnableUser(u) == requireCap(Users, "update", <<Do("Enable", u)>>, "user.enable")
handlePutPolicy(n, c) == requireCap(Policies, "update", <<Op("WritePolicy", n, c, <<>>)>>, "policy.write")
handleWebhooksCreate(h) == requireCap(Webhooks, "create", <<Do("Upsert", h)>>, "webhook.create")

\* Mutant for JournalTrue: the API's deletion as careless as the console's.
handleWebhooksDeleteTry(h) == requireCap(Webhooks, "delete", <<Try(Do("DeleteHook", h))>>, "webhook.delete")
handleWebhooksDelete(h) == requireCap(Webhooks, "delete", <<Do("DeleteHook", h)>>, "webhook.delete")
handleWebhooksTest(h) == requireCap(Webhooks, "update", <<Do("FindHook", h), Do("TestHook", h)>>, "webhook.test")

\* The console
handleUIHome == Authenticated("ui", <<>>, "")
handleLogout == Unauthenticated(<<>>, "", {})
handleLoginPost(u) ==
    Unauthenticated(<<Do("Login", u), Do("CreateToken", u), Do("Authenticate", u)>>, "", {"auth.login"})
handleUISpaces(names) == visibleSpaces("ui", names, <<>>)
handleUICreateSpace(s) == requireCapUI(Spaces, "create", <<Do("CreateSpace", s)>>, "")
handleUISpace(s) == requireCapUI(OfSpace(s), "read", Seen(s), "")
renderUIFile(s, p) == requireCapUI(File(s, p), "read", Seen(s), "")
handleUIFileSave(s, p) ==
    [Telling(requireFileWrite(s, p, <<Do("PutFile", s), Try(Do("bumpHead", s))>>, "file.write"),
             {"secret.blocked"}) EXCEPT !.via = "ui"]
handleUIFileRestore(s, p) ==
    [requireFileWrite(s, p, <<Do("LookUp", s), Do("PutFile", s), Try(Do("bumpHead", s))>>, "file.write")
       EXCEPT !.via = "ui"]
handleUIUsers == requireCapUI(Users, "list", <<>>, "")
handleUIAddUser(u, role) ==
    requireCapUI(Users, "create", <<Op("AddUser", u, {role}, <<>>), Try(Do("CreateToken", u))>>, "user.add")
handleUITokenRevoke(id) == requireCapUI(Users, "update", <<Do("RevokeToken", id)>>, "token.revoke")
handleUIFreshness == Authenticated("ui", <<>>, "")
handleUIFreshnessNag == requireCapUI(Webhooks, "update", <<Do("EmitStale", "")>>, "freshness.nag")
handleUIBackends == requireCapUI(Backends, "read", <<>>, "")
handleUIBackendSet(b) == requireUIAdmin(<<Do("applyBackend", b)>>, "backend.set")
handleUIBackendTest == requireUIAdmin(<<Do("testBackendCAS", "")>>, "")
handleUIBackendMigrate(b) == requireUIAdmin(<<Do("migrateAllSpaces", b)>>, "backend.migrate")
handleUIPolicies == requireCapUI(Policies, "list", <<>>, "")
handleUIPolicyShow(n) == requireCapUI(Policies, "read", <<Do("GetPolicy", n)>>, "")
handleUIPolicyWrite(n, c) == requireUIAdmin(<<Op("WritePolicy", n, c, <<>>)>>, "policy.write")
handleUIAudit == canAuditRead(<<>>)
handleUIAuditExport == canAuditRead(<<>>)
handleUIWebhooks == requireUIAdmin(<<>>, "")
handleUIWebhooksCreate(h) == requireUIAdmin(<<Do("Upsert", h)>>, "webhook.create")
handleUIWebhooksTest(h) == requireUIAdmin(<<Do("FindHook", h), Do("TestHook", h)>>, "webhook.test")
handleUIWebhooksDelete(h) == requireUIAdmin(<<Try(Do("DeleteHook", h))>>, "webhook.delete")

\* The commands on the server's host: no principal, no audit log.
Command(ops) == Program("cli", {}, FALSE, ops, "", {})
userAddCmd(u, role) == Command(<<Op("AddUser", u, {role}, <<>>), Do("CreateToken", u)>>)
userRoleCmd(u, role) == Command(<<Op("SetRole", u, {role}, <<>>)>>)
userPolicyCmd(u, pols) == Command(<<Op("SetPolicies", u, pols, <<>>)>>)
userDisableCmd(u) == Command(<<Do("Disable", u)>>)
userEnableCmd(u) == Command(<<Do("Enable", u)>>)
userRemoveCmd(u) == Command(<<Do("RemoveUser", u)>>)
userResetTokenCmd(u) == Command(<<Do("CreateToken", u)>>)
authTokenCreateCmd(u) == Command(<<Do("CreateToken", u)>>)
authTokenRevokeCmd(id) == Command(<<Do("RevokeToken", id)>>)
authLoginCmd(u) == Command(<<Do("Login", u), Do("CreateToken", u)>>)
authPasswordSetCmd(u) == Command(<<Do("SetPassword", u)>>)
newACLAllowCmd(u, path, caps) == Command(<<Op("AddUserRule", u, caps, path)>>)
newACLDenyCmd(u, path) == Command(<<Op("AddUserRule", u, {"deny"}, path)>>)
newACLUnsetCmd(u, path) == Command(<<IF path = <<>> THEN Do("SetUserRules", u)
                                                    ELSE Op("RemoveUserRulePath", u, {}, path)>>)
policyWriteCmd(n, c) == Command(<<Op("WritePolicy", n, c, <<>>)>>)
newWebhooksAddCmd(h) == Command(<<Do("Upsert", h)>>)
newWebhooksDeleteCmd(h) == Command(<<Do("DeleteHook", h)>>)

(***************************************************************************)
(* What each behaviour may send.                                           *)
(***************************************************************************)
Hook == {"hook", "new"}
Anyone == User \cup {NewUser}
Names == disk.spaces
AccountRequests ==
    (UNION {{handleCreateUserToken(u), handleRevokeUserTokens(u), handleDisableUser(u), handleEnableUser(u),
            handleUserpassLogin(u), handleLoginPost(u)} : u \in User \ {Admin}})
    \cup {handleCreateUser(NewUser, "viewer", pols, b) : pols \in {{}, {"auditor"}}, b \in BOOLEAN}
    \cup {handleUIAddUser(NewUser, "viewer"), handleUITokenRevoke("1")}
    \cup UNION {{userDisableCmd(u), userEnableCmd(u), userRemoveCmd(u), userRoleCmd(u, "viewer"),
                 authTokenCreateCmd(u)} : u \in User \ {Admin}}
CommandRequests ==
    (UNION {{userResetTokenCmd(u), userPolicyCmd(u, {"viewer", "auditor"}), authLoginCmd(u),
            authPasswordSetCmd(u), authTokenRevokeCmd(u), handleRevokeToken(u)} : u \in User})
    \cup {userAddCmd(NewUser, "viewer"), userRemoveCmd(NewUser), handleUserpassLogin(Admin),
          handleEnableUser(NewUser), handleWhoAmI}
PolicyRequests ==
    {handlePutPolicy(n, c) : n \in {"custom", "viewer"}, c \in {{"read"}, {"deny"}}}
    \cup {handleUIPolicyWrite("custom", {"list"}), policyWriteCmd("custom", {"update"}), handleUIPolicies,
          handleUIPolicyShow("custom"), handleListUsers, handleUIUsers, handleAuditList, handleAuditExport,
          handleAuditStats, handleUIAudit, handleUIAuditExport}
HookRequests ==
    (UNION {{handleWebhooksCreate(h), handleWebhooksDelete(h), handleWebhooksTest(h), handleWebhooksGet(h),
            handleUIWebhooksCreate(h), handleUIWebhooksDelete(h), handleUIWebhooksTest(h),
            newWebhooksAddCmd(h), newWebhooksDeleteCmd(h)} : h \in Hook})
    \cup {handleWebhooksList, handleWebhooksDeadLetter, handleUIWebhooks, handleUIFreshnessNag}
BackendRequests ==
    {handleUIBackendSet("git"), handleUIBackendSet("local"), handleUIBackendMigrate("git"),
     handleUIBackendTest, handleUIBackends}
SpaceRequests ==
    (UNION {{handleCreateSpace(s), handleUICreateSpace(s), handleDeleteSpace(s)} : s \in Space})
    \cup (UNION {{handlePutSpaceQuotas(s), handlePush(s), handleTakeSnapshot(s), handleGetSpace(s), handleHead(s),
                 handleChanges(s), handleTree(s), handleFreshness(s), handleListSnapshots(s), handleUISpace(s)} : s \in {DefaultSpace}})
    \cup (UNION {{handlePutFile(s, p), handleDeleteFile(s, p), handleUndeleteFile(s, p), handleGetFile(s, p),
                 handleDestroyFileVersion(s, p), handleListFileVersions(s, p), handleUIFileSave(s, p),
                 handleUIFileRestore(s, p), renderUIFile(s, p)} : s \in {DefaultSpace}, p \in Path})
    \cup {handleListSpaces(Names), handleUISpaces(Names), handleUIHome, handleUIFreshness, handleLogout}
DenyRequests ==
    UNION {{newACLDenyCmd(u, File(s, p)), newACLAllowCmd(u, File(s, p), {"read"}),
            newACLUnsetCmd(u, File(s, p)), newACLUnsetCmd(u, <<>>), handleGetFile(s, p), handlePutFile(s, p)}
             : u \in User \ {Admin}, s \in Space, p \in Path}

Family == {"accounts", "commands", "policies", "hooks", "backends", "spaces", "rules"}
RequestsOf(family) ==
    CASE family = "accounts" -> AccountRequests [] family = "commands" -> CommandRequests
      [] family = "policies" -> PolicyRequests  [] family = "hooks" -> HookRequests
      [] family = "backends" -> BackendRequests [] family = "spaces" -> SpaceRequests
      [] family = "rules" -> DenyRequests

(***************************************************************************)
(* The running of a request.                                               *)
(***************************************************************************)
Serving == {i \in DOMAIN request : request[i].stage # "done"}
Inside(i) == request[i].prog.via # "cli"
Now(i) == request[i].prog.ops[request[i].at]

\* Mutant for RefusedStaysOut: a file is read before the mutex is taken.
NeverLocked(file) == FALSE
\* A store's mutex is held while a request of the server is between reading its file and
\* writing it.  Every command is a process of its own, which no mutex stops.
Locked(file) ==
    \E j \in Serving : Inside(j) /\ request[j].stage = "mid" /\ Now(j).do \in FileOps /\ FileOf(Now(j)) = file
Free(i, file) == Inside(i) => ~Locked(file)

ServerInit ==
    /\ disk = [users |-> [u \in User |-> [policies |-> IF u = Admin THEN {"admin"} ELSE {"contributor"},
                                          disabled |-> FALSE, password |-> TRUE]],
               tokens |-> {[id |-> u, user |-> u] : u \in User},
               policies |-> BuiltinPolicies, acl |-> [u \in Anyone |-> <<>>], hooks |-> {"hook"},
               spaces |-> {DefaultSpace}, backend |-> "local"]
    /\ memory = [engine |-> BuiltinPolicies, userACL |-> [u \in Anyone |-> <<>>], backend |-> "local"]
    /\ request = <<>> /\ journal = {} /\ focus \in Family
    /\ faults = 0 /\ lastWriter = "none" /\ cut = {} /\ spared = {} /\ excuses = {}

\* A token lets a request in while its user is there and enabled; the principal carries the
\* policies the user has at that moment.
Authenticate(u) == u \in DOMAIN disk.users /\ ~disk.users[u].disabled /\ TokensOf(u) # {}
Principals(prog) == IF prog.via \in {"cli", "open"} THEN {""} ELSE {u \in DOMAIN disk.users : Authenticate(u)}

Arrive(prog, u) ==
    /\ Len(request) < MaxRequests
    /\ u \in Principals(prog)
    /\ u # "" => ~Locked("users")
    /\ request' = Append(request,
                         [prog |-> prog, user |-> u, pols |-> IF u = "" THEN {} ELSE disk.users[u].policies,
                          at |-> 1, stage |-> "check", mid |-> <<>>, failed |-> {}, answer |-> "none"])
    /\ UNCHANGED <<disk, memory, journal, focus, faults, lastWriter, cut, spared, excuses>>

allow(r, path, cap) == AllowUser(memory.engine, r.pols, memory.userACL[r.user], path, cap)
Allowed(r) == r.prog.any = {} \/ \E need \in r.prog.any : allow(r, need[1], need[2])

\* The audit line, which may be lost (the request goes on), and the event after a success.
auditWrite(i, action, success) ==
    \/ journal' = journal \cup {[by |-> i, action |-> action, success |-> success]} /\ UNCHANGED <<faults, excuses>>
    \/ /\ faults < MaxFaults /\ faults' = faults + 1
       /\ excuses' = excuses \cup {"unaudited"} /\ UNCHANGED journal

Answer(i, answer) == request' = [request EXCEPT ![i].stage = "done", ![i].answer = answer, ![i].mid = <<>>]

Check(i) ==
    /\ request[i].stage = "check"
    /\ IF Allowed(request[i])
       THEN request' = [request EXCEPT ![i].stage = "run"] /\ UNCHANGED <<journal, faults, excuses>>
       ELSE /\ Answer(i, "denied")
            /\ IF request[i].prog.noted THEN auditWrite(i, "authz.deny", FALSE)
                                        ELSE UNCHANGED <<journal, faults, excuses>>
    /\ UNCHANGED <<disk, memory, focus, lastWriter, cut, spared>>

\* The handler goes on to its next operation, or stops at a failure it does not ignore,
\* which some handlers write to the audit log.
Onward(i, ok, why) ==
    LET r == request[i]
    IN IF ok \/ ~Now(i).must
       THEN /\ request' = [request EXCEPT ![i].stage = "run", ![i].at = r.at + 1, ![i].mid = <<>>,
                                          ![i].failed = IF ok THEN @ ELSE @ \cup {Now(i).do}]
            /\ UNCHANGED journal
       ELSE /\ request' = [request EXCEPT ![i].stage = "done", ![i].answer = "failed", ![i].mid = <<>>,
                                          ![i].failed = @ \cup {Now(i).do}]
            /\ journal' = IF why \in r.prog.tells
                          THEN journal \cup {[by |-> i, action |-> why, success |-> FALSE]} ELSE journal

Running(i) == request[i].stage = "run" /\ request[i].at <= Len(request[i].prog.ops)

\* What an operation that is one step answers: <<ok, why, the disk after it>>.
Did(d) == {<<TRUE, "", d>>}
Didnt(why) == {<<FALSE, why, disk>>}
IfThere(b, d) == IF b THEN Did(d) ELSE Didnt("missing")
Outcomes(op) ==
    CASE op.do \in {"LookUp", "SaveMeta", "SnapshotSpace", "DestroyFileVersion"} -> IfThere(op.name \in disk.spaces, disk)
      [] op.do \in {"DeleteFile", "UndeleteFile", "bumpHead"} ->
           IfThere(op.name \in disk.spaces, disk) \cup Didnt("conflict")
      [] op.do \in {"PutFile", "Push"} ->
           IfThere(op.name \in disk.spaces, disk)
           \cup UNION {Didnt(why) : why \in {"conflict", "secret.blocked", "quota.exceeded"}}
      [] op.do = "CreateSpace" -> IfThere(op.name \notin disk.spaces, [disk EXCEPT !.spaces = @ \cup {op.name}])
      [] op.do = "DeleteSpace" -> IfThere(op.name \in disk.spaces, [disk EXCEPT !.spaces = @ \ {op.name}])
      [] op.do = "FindHook" -> IfThere(op.name \in disk.hooks, disk)
      [] op.do = "GetPolicy" -> IfThere(op.name \in DOMAIN memory.engine, disk)
      [] op.do = "Login" -> Didnt("auth.login") \cup IF PasswordFits(disk.users, op) THEN Did(disk) ELSE {}
      [] op.do = "Authenticate" -> IfThere(Authenticate(op.name), disk)
      [] op.do = "RevokeToken" -> IfThere(\E t \in disk.tokens : t.id = op.name,
                                          [disk EXCEPT !.tokens = {t \in @ : t.id # op.name}])
      [] op.do = "RevokeUserTokens" -> Did([disk EXCEPT !.tokens = revokeUserTokens(op.name)])
      [] op.do \in {"TestHook", "testBackendCAS"} -> Did(disk) \cup Didnt("unreachable")
      [] op.do = "EmitStale" -> Did(disk)

Wide == FileOps \cup {"WritePolicy", "applyBackend", "migrateAllSpaces"}   \* more than one step
OfUsers == {"Login", "Authenticate", "RevokeToken", "RevokeUserTokens"}    \* under auth.Store's mutex

Act(i) ==
    /\ Running(i) /\ Now(i).do \notin Wide
    /\ Now(i).do \in OfUsers => Free(i, "users")
    /\ \E out \in Outcomes(Now(i)) : disk' = out[3] /\ Onward(i, out[1], out[2])
    /\ UNCHANGED <<memory, focus, faults, lastWriter, cut, spared, excuses>>

\* An operation on a file: read it, ...
Load(i) ==
    /\ Running(i) /\ Now(i).do \in FileOps /\ Free(i, FileOf(Now(i)))
    /\ request' = [request EXCEPT ![i].stage = "mid", ![i].mid = disk[FileOf(Now(i))]]
    /\ UNCHANGED <<disk, memory, journal, focus, faults, lastWriter, cut, spared, excuses>>

\* ... and write all of it.
Overlapped(i) ==
    /\ FileOf(Now(i)) = "users" /\ request[i].mid # disk.users
    /\ ~Inside(i) \/ lastWriter = "cli"
Cut(op) == CASE op.do \in {"Disable", "RemoveUser"} -> cut \cup {op.name}
             [] op.do \in {"Enable", "AddUser"} -> cut \ {op.name}
             [] OTHER -> cut
Save(i) ==
    /\ request[i].stage = "mid" /\ Now(i).do \in FileOps
    /\ LET op == Now(i)  out == Edited(op, request[i].mid)
       IN /\ Onward(i, out.ok, "auth.login")
          /\ disk' = IF out.ok THEN [disk EXCEPT ![FileOf(op)] = IF op.do = "CreateToken" THEN @ ELSE out.to,
                                                 !.tokens = TokensAfter(op, i)]
                               ELSE disk
          /\ cut' = IF out.ok THEN Cut(op) ELSE cut
          /\ lastWriter' = IF out.ok /\ FileOf(op) = "users" /\ op.do # "CreateToken"
                           THEN IF Inside(i) THEN "server" ELSE "cli" ELSE lastWriter
          /\ excuses' = IF out.ok /\ Overlapped(i) THEN excuses \cup {"crossed"} ELSE excuses
    /\ UNCHANGED <<memory, focus, faults, spared>>

\* A refusal that stops halfway: the user is refused, the tokens stay, and the caller is
\* told of an error; or it is told of none, when it is the removal of a token file that
\* failed.
SaveHalf(i) ==
    /\ request[i].stage = "mid" /\ Now(i).do \in {"Disable", "RemoveUser"} /\ faults < MaxFaults
    /\ LET op == Now(i)  out == Edited(op, request[i].mid)
       IN /\ out.ok
          /\ \E told \in BOOLEAN : Onward(i, ~told, "")
          /\ disk' = [disk EXCEPT !.users = out.to]
          /\ cut' = Cut(op) /\ spared' = spared \cup {op.name}
          /\ lastWriter' = IF Inside(i) THEN "server" ELSE "cli"
          /\ excuses' = IF Overlapped(i) THEN excuses \cup {"crossed"} ELSE excuses
    /\ faults' = faults + 1
    /\ UNCHANGED <<memory, focus>>

\* An operation that could not be done: nothing of it is.
Fail(i) ==
    /\ Running(i) /\ faults < MaxFaults /\ faults' = faults + 1
    /\ Onward(i, FALSE, IF Now(i).do = "CreateToken" THEN "auth.login" ELSE "")
    /\ UNCHANGED <<disk, memory, focus, lastWriter, cut, spared, excuses>>


\* Mutant for MemoryFollowsDisk: the directory read before the new file is in place.
WritePolicyLate(i) ==
    /\ Running(i) /\ Now(i).do = "WritePolicy"
    /\ disk' = [disk EXCEPT !.policies = With(@, Now(i).name, <<Rule(<<>>, "all", Now(i).to)>>)]
    /\ request' = [request EXCEPT ![i].stage = "mid", ![i].mid = disk.policies]
    /\ UNCHANGED <<memory, journal, focus, faults, lastWriter, cut, spared, excuses>>
\* Writing a policy: its file is put in place and the directory read again, without a lock;
WritePolicy(i) ==
    /\ Running(i) /\ Now(i).do = "WritePolicy"
    /\ LET op == Now(i)
           after == With(disk.policies, op.name, <<Rule(<<>>, "all", op.to)>>)
       IN disk' = [disk EXCEPT !.policies = after]
          /\ request' = [request EXCEPT ![i].stage = "mid", ![i].mid = after]
    /\ excuses' = IF ~Inside(i) THEN excuses \cup {"foreign"}
                  ELSE IF \E j \in Serving \ {i} : Inside(j) /\ request[j].stage = "mid" /\ Now(j).do = "WritePolicy"
                       THEN excuses \cup {"overlapped"} ELSE excuses
    /\ UNCHANGED <<memory, journal, focus, faults, lastWriter, cut, spared>>

\* then the engine, the command's own or the server's, is what was read.
Reload(i) ==
    /\ request[i].stage = "mid" /\ Now(i).do = "WritePolicy"
    /\ \/ /\ memory' = IF Inside(i) THEN [memory EXCEPT !.engine = request[i].mid] ELSE memory
          /\ Onward(i, TRUE, "") /\ UNCHANGED <<faults, excuses>>
       \/ /\ faults < MaxFaults /\ faults' = faults + 1
          /\ excuses' = excuses \cup {"unread"}
          /\ Onward(i, FALSE, "") /\ UNCHANGED memory
    /\ UNCHANGED <<disk, focus, lastWriter, cut, spared>>


\* Switching the backend: the running server first, then config.yaml.
Switch(i) ==
    /\ Running(i) /\ Now(i).do \in {"applyBackend", "migrateAllSpaces"}
    /\ IF Now(i).do = "migrateAllSpaces" /\ memory.backend = Now(i).name
       THEN Onward(i, FALSE, "") /\ UNCHANGED <<memory, excuses>>
       ELSE /\ memory' = [memory EXCEPT !.backend = Now(i).name]
            /\ request' = [request EXCEPT ![i].stage = "mid", ![i].mid = <<Now(i).name>>]
            /\ excuses' = IF \E j \in Serving \ {i} : request[j].stage = "mid"
                          THEN excuses \cup {"overlapped"} ELSE excuses
            /\ UNCHANGED journal
    /\ UNCHANGED <<disk, focus, faults, lastWriter, cut, spared>>
SaveServer(i) ==
    /\ request[i].stage = "mid" /\ Now(i).do \in {"applyBackend", "migrateAllSpaces"}
    /\ \/ /\ disk' = [disk EXCEPT !.backend = request[i].mid[1]]
          /\ Onward(i, TRUE, "") /\ UNCHANGED <<faults, excuses>>
       \/ /\ faults < MaxFaults /\ faults' = faults + 1
          /\ excuses' = excuses \cup {"unsaved"}
          /\ Onward(i, FALSE, "") /\ UNCHANGED disk
    /\ UNCHANGED <<memory, focus, lastWriter, cut, spared>>

\* Every operation is done: the entry, then the answer.
Finish(i) ==
    /\ request[i].stage = "run" /\ request[i].at > Len(request[i].prog.ops)
    /\ Answer(i, "ok")
    /\ IF request[i].prog.says = "" THEN UNCHANGED <<journal, faults, excuses>>
                                    ELSE auditWrite(i, request[i].prog.says, TRUE)
    /\ UNCHANGED <<disk, memory, focus, lastWriter, cut, spared>>

\* The server stops dead and starts again: its requests are gone, and it reads everything.
Restart ==
    /\ faults < MaxFaults /\ faults' = faults + 1
    /\ \E i \in Serving : Inside(i)
    /\ request' = [i \in DOMAIN request |->
                     IF i \in Serving /\ Inside(i)
                     THEN [request[i] EXCEPT !.stage = "done", !.answer = "lost", !.mid = <<>>] ELSE request[i]]
    /\ memory' = [engine |-> disk.policies, userACL |-> disk.acl, backend |-> disk.backend]
    /\ excuses' = excuses \ {"foreign", "overlapped", "unread", "unsaved"}
    /\ UNCHANGED <<disk, journal, focus, lastWriter, cut, spared>>

ServerNext ==
    \/ \E prog \in RequestsOf(focus) : \E u \in Principals(prog) : Arrive(prog, u)
    \/ \E i \in Serving : \/ Check(i) \/ Act(i) \/ Load(i) \/ Save(i) \/ SaveHalf(i) \/ Fail(i)
                          \/ WritePolicy(i) \/ Reload(i) \/ Switch(i) \/ SaveServer(i) \/ Finish(i)
    \/ Restart

ServerSpec == ServerInit /\ [][ServerNext]_serverVars

(***************************************************************************)
(* Properties.                                                             *)
(***************************************************************************)
\* A user whose refusal (disable, remove) was acknowledged stays refused until somebody
\* enables or adds it: no other write of users.yaml brings it back, unless one of another
\* process overlapped.
CutStaysCut ==
    "crossed" \notin excuses => \A u \in cut \cap DOMAIN disk.users : disk.users[u].disabled

\* No token outlives its user's refusal, to work again when the user is enabled or the name
\* is used again: there is no token of a user who is disabled or gone, unless the refusal
\* failed halfway or another process's write overlapped.
NoTokenForRefused ==
    "crossed" \notin excuses =>
      \A t \in disk.tokens : \/ t.user \in DOMAIN disk.users /\ ~disk.users[t.user].disabled
                             \/ t.user \in spared

\* What the audit log and the subscribers are told succeeded did succeed, every operation
\* of it: but the console's deletion of a webhook and its token for a new user, and the
\* bump of the head after a write, whose errors are dropped.
Announced ==
    \A e \in journal : e.success =>
      request[e.by].failed \subseteq
        {"bumpHead"} \cup IF request[e.by].prog.via = "ui" THEN {"DeleteHook", "CreateToken"} ELSE {}

\* Every change a request made and was answered "ok" for has its line in the audit log, if
\* the log could be written: but a space created from the console, a token given back, and
\* the console's logins, which are never recorded.
Unrecorded == {"CreateSpace", "RevokeToken", "Authenticate"}
Changing == {"LookUp", "FindHook", "GetPolicy", "testBackendCAS", "bumpHead"}
Recorded ==
    \A i \in DOMAIN request :
      LET r == request[i]
      IN (r.answer = "ok" /\ Inside(i) /\ "unaudited" \notin excuses)
         => \/ \E e \in journal : e.by = i /\ e.success
            \/ \A k \in DOMAIN r.prog.ops : r.prog.ops[k].do \in Changing
            \/ \E k \in DOMAIN r.prog.ops : r.prog.ops[k].do \in Unrecorded

\* The policies the server decides by are those of its directory whenever no write is half
\* done: unless two writes overlapped, a read failed, or a command wrote one.
EngineFollowsDisk ==
    \/ excuses \cap {"foreign", "overlapped", "unread"} # {}
    \/ \E i \in Serving : request[i].stage = "mid" /\ Now(i).do = "WritePolicy"
    \/ memory.engine = disk.policies

\* The backend the server works with is the one config.yaml names, or the next start would
\* look for its files elsewhere: unless two switches overlapped or the save failed.
BackendAgrees ==
    \/ excuses \cap {"overlapped", "unsaved"} # {}
    \/ \E i \in Serving : request[i].stage = "mid"
    \/ memory.backend = disk.backend

\* The audit log is true: what it and the subscribers are told succeeded did, and what
\* succeeded is told.
JournalTrue == Announced /\ Recorded

\* The server works by what its data directory says, so that a restart changes nothing.
MemoryFollowsDisk == EngineFollowsDisk /\ BackendAgrees

\* A refused user stays out: no other write lets the user back in, and no token is left over
\* for the day the name is used again.
RefusedStaysOut == CutStaysCut /\ NoTokenForRefused
===============================================================================
