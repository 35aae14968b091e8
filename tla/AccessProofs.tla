---------------------------- MODULE AccessProofs ----------------------------
(*****************************************************************************)
(* Proofs about what stands between a request and a space: the server's      *)
(* handlers, the commands and the stores they change, the caches that answer *)
(* for credentials, the rate limiter and the lockout.                        *)
(*****************************************************************************)
EXTENDS Server, TokenCache, RateLimiter, Lockout, SequenceTheorems, FiniteSetTheorems, TLAPS

-----------------------------------------------------------------------------
(* Server: what every handler and command is made of *)

StepOps == {"LookUp", "SaveMeta", "SnapshotSpace", "DestroyFileVersion", "DeleteFile", "UndeleteFile", "bumpHead",
            "PutFile", "Push", "CreateSpace", "DeleteSpace", "FindHook", "GetPolicy", "Login", "Authenticate",
            "RevokeToken", "RevokeUserTokens", "TestHook", "testBackendCAS", "EmitStale"}
SwitchOps == {"applyBackend", "migrateAllSpaces"}

\* The failures a request is not stopped by: those it may announce a success after.
Forgiven(via) == {"bumpHead"} \cup IF via = "ui" THEN {"DeleteHook", "CreateToken"} ELSE {}
GoodOp(op, via) ==
    /\ op.do \in StepOps \cup Wide
    /\ op.must \in BOOLEAN /\ (~op.must => op.do \in Forgiven(via))
    /\ op.do \in SwitchOps => via # "cli"
GoodProgram(p) ==
    /\ DOMAIN p = {"via", "any", "noted", "ops", "says", "tells"}
    /\ Len(p.ops) \in Nat /\ DOMAIN p.ops = 1..Len(p.ops)
    /\ \A k \in DOMAIN p.ops : GoodOp(p.ops[k], p.via)
    /\ \/ p.via = "cli" \/ p.says # ""
       \/ \A k \in DOMAIN p.ops : p.ops[k].do \in Changing
       \/ \E k \in DOMAIN p.ops : p.ops[k].do \in Unrecorded

LEMMA GoodOps ==
    ASSUME NEW do, NEW name, NEW to, NEW path, NEW via, do \in StepOps \cup Wide,
           do \in SwitchOps => via # "cli"
    PROVE  /\ GoodOp(Op(do, name, to, path), via) /\ Op(do, name, to, path).do = do
           /\ GoodOp(Do(do, name), via) /\ Do(do, name).do = do
           /\ do \in Forgiven(via) => GoodOp(Try(Do(do, name)), via) /\ Try(Do(do, name)).do = do
BY DEF Op, Do, Try, GoodOp

\* A program without operations, and of one, two or three.
LEMMA OpsMakeProgram ==
    ASSUME NEW via, NEW any, NEW noted, NEW says, NEW tells, NEW ops,
           Len(ops) \in Nat, DOMAIN ops = 1..Len(ops), \A k \in DOMAIN ops : GoodOp(ops[k], via),
           \/ via = "cli" \/ says # ""
           \/ \A k \in DOMAIN ops : ops[k].do \in Changing
           \/ \E k \in DOMAIN ops : ops[k].do \in Unrecorded
    PROVE  GoodProgram(Program(via, any, noted, ops, says, tells))
<1> DEFINE p == Program(via, any, noted, ops, says, tells)
<1>1. /\ DOMAIN p = {"via", "any", "noted", "ops", "says", "tells"}
      /\ p.via = via /\ p.ops = ops /\ p.says = says
    BY DEF Program
<1> HIDE DEF p
<1>2. GoodProgram(p)
    BY <1>1 DEF GoodProgram
<1> QED
    BY <1>2 DEF p

LEMMA TuplesOf ==
    ASSUME NEW a, NEW b, NEW c
    PROVE  /\ DOMAIN <<a>> = {1} /\ DOMAIN <<a, b>> = {1, 2} /\ DOMAIN <<a, b, c>> = {1, 2, 3}
           /\ DOMAIN <<a>> = 1..1 /\ DOMAIN <<a, b>> = 1..2 /\ DOMAIN <<a, b, c>> = 1..3
OBVIOUS

LEMMA NoOps ==
    ASSUME NEW via, NEW any, NEW noted, NEW says, NEW tells
    PROVE  GoodProgram(Program(via, any, noted, <<>>, says, tells))
<1> DEFINE ops == <<>>
<1>1. Len(ops) = 0 /\ Len(ops) \in Nat
    OBVIOUS
<1>2. DOMAIN ops = 1..0
    OBVIOUS
<1> HIDE DEF ops
<1>4. \A k \in DOMAIN ops : GoodOp(ops[k], via)
    BY <1>1, <1>2
<1>5. \/ via = "cli" \/ says # ""
      \/ \A k \in DOMAIN ops : ops[k].do \in Changing
      \/ \E k \in DOMAIN ops : ops[k].do \in Unrecorded
    BY <1>1, <1>2
<1>6. GoodProgram(Program(via, any, noted, ops, says, tells))
    BY <1>1, <1>2, <1>4, <1>5, OpsMakeProgram
<1> QED
    BY <1>6 DEF ops

LEMMA OneOp ==
    ASSUME NEW via, NEW any, NEW noted, NEW says, NEW tells, NEW a,
           GoodOp(a, via),
           via = "cli" \/ says # "" \/ a.do \in Changing \cup Unrecorded
    PROVE  GoodProgram(Program(via, any, noted, <<a>>, says, tells))
<1> DEFINE ops == <<a>>
<1>1. Len(ops) = 1 /\ Len(ops) \in Nat
    OBVIOUS
<1>2. DOMAIN ops = 1..1 /\ DOMAIN ops = {1}
    BY TuplesOf
<1>3. ops[1] = a
    OBVIOUS
<1> HIDE DEF ops
<1>4. \A k \in DOMAIN ops : GoodOp(ops[k], via)
    BY <1>1, <1>2, <1>3
<1>5. \/ via = "cli" \/ says # ""
      \/ \A k \in DOMAIN ops : ops[k].do \in Changing
      \/ \E k \in DOMAIN ops : ops[k].do \in Unrecorded
    BY <1>1, <1>2, <1>3
<1>6. GoodProgram(Program(via, any, noted, ops, says, tells))
    BY <1>1, <1>2, <1>4, <1>5, OpsMakeProgram
<1> QED
    BY <1>6 DEF ops

LEMMA TwoOps ==
    ASSUME NEW via, NEW any, NEW noted, NEW says, NEW tells, NEW a, NEW b,
           GoodOp(a, via), GoodOp(b, via),
           via = "cli" \/ says # ""
    PROVE  GoodProgram(Program(via, any, noted, <<a, b>>, says, tells))
<1> DEFINE ops == <<a, b>>
<1>1. Len(ops) = 2 /\ Len(ops) \in Nat
    OBVIOUS
<1>2. DOMAIN ops = 1..2 /\ DOMAIN ops = {1, 2}
    BY TuplesOf
<1>3. ops[1] = a /\ ops[2] = b
    OBVIOUS
<1> HIDE DEF ops
<1>4. \A k \in DOMAIN ops : GoodOp(ops[k], via)
    BY <1>1, <1>2, <1>3
<1>5. \/ via = "cli" \/ says # ""
      \/ \A k \in DOMAIN ops : ops[k].do \in Changing
      \/ \E k \in DOMAIN ops : ops[k].do \in Unrecorded
    BY <1>1, <1>2, <1>3
<1>6. GoodProgram(Program(via, any, noted, ops, says, tells))
    BY <1>1, <1>2, <1>4, <1>5, OpsMakeProgram
<1> QED
    BY <1>6 DEF ops

LEMMA ThreeOps ==
    ASSUME NEW via, NEW any, NEW noted, NEW says, NEW tells, NEW a, NEW b, NEW c,
           GoodOp(a, via), GoodOp(b, via), GoodOp(c, via),
           via = "cli" \/ says # "" \/ c.do \in Unrecorded
    PROVE  GoodProgram(Program(via, any, noted, <<a, b, c>>, says, tells))
<1> DEFINE ops == <<a, b, c>>
<1>1. Len(ops) = 3 /\ Len(ops) \in Nat
    OBVIOUS
<1>2. DOMAIN ops = 1..3 /\ DOMAIN ops = {1, 2, 3}
    BY TuplesOf
<1>3. ops[1] = a /\ ops[2] = b /\ ops[3] = c
    OBVIOUS
<1> HIDE DEF ops
<1>4. \A k \in DOMAIN ops : GoodOp(ops[k], via)
    BY <1>1, <1>2, <1>3
<1>5. \/ via = "cli" \/ says # ""
      \/ \A k \in DOMAIN ops : ops[k].do \in Changing
      \/ \E k \in DOMAIN ops : ops[k].do \in Unrecorded
    BY <1>1, <1>2, <1>3
<1>6. GoodProgram(Program(via, any, noted, ops, says, tells))
    BY <1>1, <1>2, <1>4, <1>5, OpsMakeProgram
<1> QED
    BY <1>6 DEF ops

LEMMA HookPrograms ==
    ASSUME NEW prog \in HookRequests
    PROVE  GoodProgram(prog)
<1> USE DEF StepOps, SwitchOps, Wide, FileOps, UsersOps, AclOps, HookOps, Forgiven, Changing, Unrecorded
<1>1. ASSUME NEW h \in Hook
      PROVE  \A p \in {handleWebhooksCreate(h), handleWebhooksDelete(h), handleWebhooksTest(h), handleWebhooksGet(h),
                       handleUIWebhooksCreate(h), handleUIWebhooksDelete(h), handleUIWebhooksTest(h),
                       newWebhooksAddCmd(h), newWebhooksDeleteCmd(h)} : GoodProgram(p)
  <2>1. GoodProgram(handleWebhooksCreate(h)) /\ GoodProgram(handleWebhooksDelete(h))
      BY GoodOps, OneOp DEF handleWebhooksCreate, handleWebhooksDelete, requireCap
  <2>2. GoodProgram(handleWebhooksTest(h))
      BY GoodOps, TwoOps DEF handleWebhooksTest, requireCap
  <2>3. GoodProgram(handleWebhooksGet(h))
      BY GoodOps, OneOp DEF handleWebhooksGet, requireCap
  <2>4. GoodProgram(handleUIWebhooksCreate(h)) /\ GoodProgram(handleUIWebhooksDelete(h))
      BY GoodOps, OneOp DEF handleUIWebhooksCreate, handleUIWebhooksDelete, requireUIAdmin
  <2>5. GoodProgram(handleUIWebhooksTest(h))
      BY GoodOps, TwoOps DEF handleUIWebhooksTest, requireUIAdmin
  <2>6. GoodProgram(newWebhooksAddCmd(h)) /\ GoodProgram(newWebhooksDeleteCmd(h))
      BY GoodOps, OneOp DEF newWebhooksAddCmd, newWebhooksDeleteCmd, Command
  <2> QED
      BY <2>1, <2>2, <2>3, <2>4, <2>5, <2>6
<1>2. \A p \in {handleWebhooksList, handleWebhooksDeadLetter, handleUIWebhooks, handleUIFreshnessNag} : GoodProgram(p)
  <2>1. /\ GoodProgram(handleWebhooksList) /\ GoodProgram(handleWebhooksDeadLetter)
        /\ GoodProgram(handleUIWebhooks)
      BY NoOps DEF handleWebhooksList, handleWebhooksDeadLetter, handleUIWebhooks, requireCap, requireUIAdmin
  <2>2. GoodProgram(handleUIFreshnessNag)
      BY GoodOps, OneOp DEF handleUIFreshnessNag, requireCapUI
  <2> QED
      BY <2>1, <2>2
<1> DEFINE ofHook(h) == {handleWebhooksCreate(h), handleWebhooksDelete(h), handleWebhooksTest(h), handleWebhooksGet(h),
                         handleUIWebhooksCreate(h), handleUIWebhooksDelete(h), handleUIWebhooksTest(h),
                         newWebhooksAddCmd(h), newWebhooksDeleteCmd(h)}
           others == {handleWebhooksList, handleWebhooksDeadLetter, handleUIWebhooks, handleUIFreshnessNag}
<1>3. prog \in (UNION {ofHook(h) : h \in Hook}) \cup others
    BY DEF HookRequests
<1>4. \A h \in Hook : \A p \in ofHook(h) : GoodProgram(p)
    BY <1>1
<1>5. \A p \in others : GoodProgram(p)
    BY <1>2
<1> HIDE DEF ofHook, others
<1> QED
    BY <1>3, <1>4, <1>5
\* An audited refusal, and a console page that does what the API does, are as good.
LEMMA Variants ==
    ASSUME NEW p, NEW tells, GoodProgram(p)
    PROVE  /\ GoodProgram(Telling(p, tells)) /\ Telling(p, tells).via = p.via
           /\ p.via = "api" => GoodProgram([p EXCEPT !.via = "ui"])
<1>1. GoodProgram(Telling(p, tells)) /\ Telling(p, tells).via = p.via
    BY DEF GoodProgram, Telling
<1>2. ASSUME p.via = "api" PROVE GoodProgram([p EXCEPT !.via = "ui"])
  <2> DEFINE b == [p EXCEPT !.via = "ui"]
  <2>1. /\ DOMAIN b = {"via", "any", "noted", "ops", "says", "tells"}
        /\ b.via = "ui" /\ b.ops = p.ops /\ b.says = p.says
      BY DEF GoodProgram
  <2> HIDE DEF b
  <2>2. \A k \in DOMAIN p.ops : GoodOp(p.ops[k], "ui")
      BY <1>2 DEF GoodProgram, GoodOp, Forgiven
  <2>3. GoodProgram(b)
      BY <1>2, <2>1, <2>2 DEF GoodProgram
  <2> QED
      BY <2>3 DEF b
<1> QED
    BY <1>1, <1>2

\* Tuples put one after the other.
LEMMA Joined ==
    ASSUME NEW a, NEW b, NEW c
    PROVE  /\ <<a>> \o <<>> = <<a>> /\ <<a, b>> \o <<>> = <<a, b>>
           /\ <<a>> \o <<b>> = <<a, b>> /\ <<a, b>> \o <<c>> = <<a, b, c>>
<1>1. <<a>> \o <<>> = <<a>>
    OBVIOUS
<1>2. <<a, b>> \o <<>> = <<a, b>>
    OBVIOUS
<1>3. <<a>> \o <<b>> = <<a, b>>
  <2> DEFINE s == <<a>> \o <<b>>
             t == <<a, b>>
  <2>1. /\ <<a>> \in Seq({a, b}) /\ <<b>> \in Seq({a, b})
        /\ Len(<<a>>) = 1 /\ Len(<<b>>) = 1 /\ <<a>>[1] = a /\ <<b>>[1] = b
      OBVIOUS
  <2>2. s \in Seq({a, b}) /\ Len(s) = 2 /\ s[1] = a /\ s[2] = b
      BY <2>1, ConcatProperties
  <2>3. t \in Seq({a, b}) /\ Len(t) = 2 /\ t[1] = a /\ t[2] = b
      OBVIOUS
  <2> HIDE DEF s, t
  <2>4. s = t
      BY <2>2, <2>3, SeqEqual
  <2> QED
      BY <2>4 DEF s, t
<1>4. <<a, b>> \o <<c>> = <<a, b, c>>
  <2> DEFINE s == <<a, b>> \o <<c>>
             t == <<a, b, c>>
  <2>1. /\ <<a, b>> \in Seq({a, b, c}) /\ <<c>> \in Seq({a, b, c})
        /\ Len(<<a, b>>) = 2 /\ Len(<<c>>) = 1 /\ <<a, b>>[1] = a /\ <<a, b>>[2] = b /\ <<c>>[1] = c
      OBVIOUS
  <2>2. s \in Seq({a, b, c}) /\ Len(s) = 3 /\ s[1] = a /\ s[2] = b /\ s[3] = c
      BY <2>1, ConcatProperties
  <2>3. t \in Seq({a, b, c}) /\ Len(t) = 3 /\ t[1] = a /\ t[2] = b /\ t[3] = c
      OBVIOUS
  <2> HIDE DEF s, t
  <2>4. s = t
      BY <2>2, <2>3, SeqEqual
  <2> QED
      BY <2>4 DEF s, t
<1> QED
    BY <1>1, <1>2, <1>3, <1>4

LEMMA CreateUserProgram ==
    ASSUME NEW u, NEW role, NEW pols, NEW issue \in BOOLEAN
    PROVE  GoodProgram(handleCreateUser(u, role, pols, issue))
<1> USE DEF StepOps, SwitchOps, Wide, FileOps, UsersOps, AclOps, HookOps, Forgiven, Changing, Unrecorded
<1> DEFINE add == Op("AddUser", u, {role}, <<>>)
           set == Op("SetPolicies", u, pols, <<>>)
           given == Do("CreateToken", u)
           ops == <<add>> \o (IF pols = {} THEN <<>> ELSE <<set>>) \o (IF issue THEN <<given>> ELSE <<>>)
<1>1. GoodOp(add, "api") /\ GoodOp(set, "api") /\ GoodOp(given, "api")
    BY GoodOps
<1> HIDE DEF add, set, given
<1>2. ops \in {<<add>>, <<add, set>>, <<add, given>>, <<add, set, given>>}
  <2>1. CASE pols = {} /\ ~issue
      BY <2>1, Joined
  <2>2. CASE pols = {} /\ issue
    <3>1. <<add>> \o <<>> = <<add>> /\ <<add>> \o <<given>> = <<add, given>>
        BY Joined
    <3>2. ops = (<<add>> \o <<>>) \o <<given>>
        BY <2>2
    <3> QED
        BY <3>1, <3>2
  <2>3. CASE pols # {} /\ ~issue
      BY <2>3, Joined
  <2>4. CASE pols # {} /\ issue
      BY <2>4, Joined
  <2> QED
      BY <2>1, <2>2, <2>3, <2>4
<1> HIDE DEF ops
<1>3. GoodProgram(requireCap(Users, "create", ops, "user.add"))
  <2>1. CASE ops = <<add>>
      BY <1>1, <2>1, OneOp DEF requireCap
  <2>2. CASE ops = <<add, set>>
      BY <1>1, <2>2, TwoOps DEF requireCap
  <2>3. CASE ops = <<add, given>>
      BY <1>1, <2>3, TwoOps DEF requireCap
  <2>4. CASE ops = <<add, set, given>>
      BY <1>1, <2>4, ThreeOps DEF requireCap
  <2> QED
      BY <1>2, <2>1, <2>2, <2>3, <2>4
<1> QED
    BY <1>3 DEF handleCreateUser, ops, add, set, given

LEMMA AccountPrograms ==
    ASSUME NEW prog \in AccountRequests
    PROVE  GoodProgram(prog)
<1> USE DEF StepOps, SwitchOps, Wide, FileOps, UsersOps, AclOps, HookOps, Forgiven, Changing, Unrecorded
<1> DEFINE calls(u) == {handleCreateUserToken(u), handleRevokeUserTokens(u), handleDisableUser(u), handleEnableUser(u),
                        handleUserpassLogin(u), handleLoginPost(u)}
           commands(u) == {userDisableCmd(u), userEnableCmd(u), userRemoveCmd(u), userRoleCmd(u, "viewer"),
                           authTokenCreateCmd(u)}
           added == {handleCreateUser(NewUser, "viewer", pols, b) : pols \in {{}, {"auditor"}}, b \in BOOLEAN}
           others == {handleUIAddUser(NewUser, "viewer"), handleUITokenRevoke("1")}
<1>1. \A u \in User : \A p \in calls(u) : GoodProgram(p)
  <2> TAKE u \in User
  <2>1. /\ GoodProgram(handleCreateUserToken(u)) /\ GoodProgram(handleRevokeUserTokens(u))
        /\ GoodProgram(handleDisableUser(u)) /\ GoodProgram(handleEnableUser(u))
      BY GoodOps, OneOp DEF handleCreateUserToken, handleRevokeUserTokens, handleDisableUser, handleEnableUser, requireCap
  <2>2. GoodProgram(handleUserpassLogin(u))
      BY GoodOps, TwoOps DEF handleUserpassLogin, Unauthenticated
  <2>3. GoodProgram(handleLoginPost(u))
      BY GoodOps, ThreeOps DEF handleLoginPost, Unauthenticated
  <2> QED
      BY <2>1, <2>2, <2>3
<1>2. \A u \in User : \A p \in commands(u) : GoodProgram(p)
  <2> TAKE u \in User
  <2>1. /\ GoodProgram(userDisableCmd(u)) /\ GoodProgram(userEnableCmd(u)) /\ GoodProgram(userRemoveCmd(u))
        /\ GoodProgram(userRoleCmd(u, "viewer")) /\ GoodProgram(authTokenCreateCmd(u))
      BY GoodOps, OneOp DEF userDisableCmd, userEnableCmd, userRemoveCmd, userRoleCmd, authTokenCreateCmd, Command
  <2> QED
      BY <2>1
<1>3. \A p \in added : GoodProgram(p)
    BY CreateUserProgram
<1>4. \A p \in others : GoodProgram(p)
  <2>1. GoodProgram(handleUIAddUser(NewUser, "viewer"))
      BY GoodOps, TwoOps DEF handleUIAddUser, requireCapUI
  <2>2. GoodProgram(handleUITokenRevoke("1"))
      BY GoodOps, OneOp DEF handleUITokenRevoke, requireCapUI
  <2> QED
      BY <2>1, <2>2
<1>5. prog \in (UNION {calls(u) : u \in User \ {Admin}}) \cup added \cup others
               \cup (UNION {commands(u) : u \in User \ {Admin}})
    BY DEF AccountRequests
<1> HIDE DEF calls, commands, added, others
<1> QED
    BY <1>1, <1>2, <1>3, <1>4, <1>5

LEMMA CommandPrograms ==
    ASSUME NEW prog \in CommandRequests
    PROVE  GoodProgram(prog)
<1> USE DEF StepOps, SwitchOps, Wide, FileOps, UsersOps, AclOps, HookOps, Forgiven, Changing, Unrecorded
<1> DEFINE calls(u) == {userResetTokenCmd(u), userPolicyCmd(u, {"viewer", "auditor"}), authLoginCmd(u),
                        authPasswordSetCmd(u), authTokenRevokeCmd(u), handleRevokeToken(u)}
           others == {userAddCmd(NewUser, "viewer"), userRemoveCmd(NewUser), handleUserpassLogin(Admin),
                      handleEnableUser(NewUser), handleWhoAmI}
<1>1. \A u \in User : \A p \in calls(u) : GoodProgram(p)
  <2> TAKE u \in User
  <2>1. /\ GoodProgram(userResetTokenCmd(u)) /\ GoodProgram(userPolicyCmd(u, {"viewer", "auditor"}))
        /\ GoodProgram(authPasswordSetCmd(u)) /\ GoodProgram(authTokenRevokeCmd(u))
      BY GoodOps, OneOp DEF userResetTokenCmd, userPolicyCmd, authPasswordSetCmd, authTokenRevokeCmd, Command
  <2>2. GoodProgram(authLoginCmd(u))
      BY GoodOps, TwoOps DEF authLoginCmd, Command
  <2>3. GoodProgram(handleRevokeToken(u))
      BY GoodOps, OneOp DEF handleRevokeToken, Authenticated
  <2> QED
      BY <2>1, <2>2, <2>3
<1>2. \A p \in others : GoodProgram(p)
  <2>1. GoodProgram(userAddCmd(NewUser, "viewer"))
      BY GoodOps, TwoOps DEF userAddCmd, Command
  <2>2. GoodProgram(userRemoveCmd(NewUser))
      BY GoodOps, OneOp DEF userRemoveCmd, Command
  <2>3. GoodProgram(handleUserpassLogin(Admin))
      BY GoodOps, TwoOps DEF handleUserpassLogin, Unauthenticated
  <2>4. GoodProgram(handleEnableUser(NewUser))
      BY GoodOps, OneOp DEF handleEnableUser, requireCap
  <2>5. GoodProgram(handleWhoAmI)
      BY NoOps DEF handleWhoAmI, Authenticated
  <2> QED
      BY <2>1, <2>2, <2>3, <2>4, <2>5
<1>3. prog \in (UNION {calls(u) : u \in User}) \cup others
    BY DEF CommandRequests
<1> HIDE DEF calls, others
<1> QED
    BY <1>1, <1>2, <1>3

LEMMA PolicyPrograms ==
    ASSUME NEW prog \in PolicyRequests
    PROVE  GoodProgram(prog)
<1> USE DEF StepOps, SwitchOps, Wide, FileOps, UsersOps, AclOps, HookOps, Forgiven, Changing, Unrecorded
<1> DEFINE written == {handlePutPolicy(n, c) : n \in {"custom", "viewer"}, c \in {{"read"}, {"deny"}}}
           others == {handleUIPolicyWrite("custom", {"list"}), policyWriteCmd("custom", {"update"}), handleUIPolicies,
                      handleUIPolicyShow("custom"), handleListUsers, handleUIUsers, handleAuditList, handleAuditExport,
                      handleAuditStats, handleUIAudit, handleUIAuditExport}
<1>1. \A p \in written : GoodProgram(p)
  <2>1. \A n, c : GoodProgram(handlePutPolicy(n, c))
      BY GoodOps, OneOp DEF handlePutPolicy, requireCap
  <2> QED
      BY <2>1
<1>2. \A p \in others : GoodProgram(p)
  <2>1. GoodProgram(handleUIPolicyWrite("custom", {"list"}))
      BY GoodOps, OneOp DEF handleUIPolicyWrite, requireUIAdmin
  <2>2. GoodProgram(policyWriteCmd("custom", {"update"}))
      BY GoodOps, OneOp DEF policyWriteCmd, Command
  <2>3. GoodProgram(handleUIPolicyShow("custom"))
      BY GoodOps, OneOp DEF handleUIPolicyShow, requireCapUI
  <2>4. GoodProgram(handleUIPolicies) /\ GoodProgram(handleUIUsers)
      BY NoOps DEF handleUIPolicies, handleUIUsers, requireCapUI
  <2>5. /\ GoodProgram(handleListUsers) /\ GoodProgram(handleAuditList)
        /\ GoodProgram(handleAuditExport) /\ GoodProgram(handleAuditStats)
      BY NoOps DEF handleListUsers, handleAuditList, handleAuditExport, handleAuditStats, requireCap
  <2>6. GoodProgram(handleUIAudit) /\ GoodProgram(handleUIAuditExport)
      BY NoOps DEF handleUIAudit, handleUIAuditExport, canAuditRead
  <2> QED
      BY <2>1, <2>2, <2>3, <2>4, <2>5, <2>6
<1>3. prog \in written \cup others
    BY DEF PolicyRequests
<1> HIDE DEF written, others
<1> QED
    BY <1>1, <1>2, <1>3

LEMMA BackendPrograms ==
    ASSUME NEW prog \in BackendRequests
    PROVE  GoodProgram(prog)
<1> USE DEF StepOps, SwitchOps, Wide, FileOps, UsersOps, AclOps, HookOps, Forgiven, Changing, Unrecorded
<1>1. /\ GoodProgram(handleUIBackendSet("git")) /\ GoodProgram(handleUIBackendSet("local"))
      /\ GoodProgram(handleUIBackendMigrate("git")) /\ GoodProgram(handleUIBackendTest)
    BY GoodOps, OneOp DEF handleUIBackendSet, handleUIBackendMigrate, handleUIBackendTest, requireUIAdmin
<1>2. GoodProgram(handleUIBackends)
    BY NoOps DEF handleUIBackends, requireCapUI
<1> QED
    BY <1>1, <1>2 DEF BackendRequests

LEMMA SpacePrograms ==
    ASSUME NEW prog \in SpaceRequests
    PROVE  GoodProgram(prog)
<1> USE DEF StepOps, SwitchOps, Wide, FileOps, UsersOps, AclOps, HookOps, Forgiven, Changing, Unrecorded
<1> DEFINE ofSpaces(s) == {handleCreateSpace(s), handleUICreateSpace(s), handleDeleteSpace(s)}
           calls(s) == {handlePutSpaceQuotas(s), handlePush(s), handleTakeSnapshot(s), handleGetSpace(s), handleHead(s),
                        handleChanges(s), handleTree(s), handleFreshness(s), handleListSnapshots(s), handleUISpace(s)}
           files(s, p) == {handlePutFile(s, p), handleDeleteFile(s, p), handleUndeleteFile(s, p), handleGetFile(s, p),
                           handleDestroyFileVersion(s, p), handleListFileVersions(s, p), handleUIFileSave(s, p),
                           handleUIFileRestore(s, p), renderUIFile(s, p)}
           others == {handleListSpaces(Names), handleUISpaces(Names), handleUIHome, handleUIFreshness, handleLogout}
<1>1. \A s \in Space : \A p \in ofSpaces(s) : GoodProgram(p)
  <2> TAKE s \in Space
  <2>1. GoodProgram(handleCreateSpace(s)) /\ GoodProgram(handleDeleteSpace(s))
      BY GoodOps, OneOp DEF handleCreateSpace, handleDeleteSpace, requireCap
  <2>2. GoodProgram(handleUICreateSpace(s))
      BY GoodOps, OneOp DEF handleUICreateSpace, requireCapUI
  <2> QED
      BY <2>1, <2>2
<1>2. \A s \in {DefaultSpace} : \A p \in calls(s) : GoodProgram(p)
  <2> TAKE s \in {DefaultSpace}
  <2>1. GoodProgram(handlePutSpaceQuotas(s)) /\ GoodProgram(handleTakeSnapshot(s))
      BY GoodOps, TwoOps DEF handlePutSpaceQuotas, handleTakeSnapshot, requireCap
  <2>2. GoodProgram(handlePush(s))
    <3>1. GoodProgram(requireCap(PushTo(s), "update", <<Do("Push", s)>>, "space.push"))
        BY GoodOps, OneOp DEF requireCap
    <3> QED
        BY <3>1, Variants DEF handlePush
  <2>3. /\ GoodProgram(handleGetSpace(s)) /\ GoodProgram(handleHead(s)) /\ GoodProgram(handleChanges(s))
        /\ GoodProgram(handleTree(s)) /\ GoodProgram(handleFreshness(s)) /\ GoodProgram(handleListSnapshots(s))
      BY GoodOps, OneOp DEF handleGetSpace, handleHead, handleChanges, handleTree, handleFreshness,
                            handleListSnapshots, Seen, requireCap
  <2>4. GoodProgram(handleUISpace(s))
      BY GoodOps, OneOp DEF handleUISpace, Seen, requireCapUI
  <2> QED
      BY <2>1, <2>2, <2>3, <2>4
<1>3. \A s \in {DefaultSpace}, p \in Path : \A q \in files(s, p) : GoodProgram(q)
  <2> TAKE s \in {DefaultSpace}, p \in Path
  <2> DEFINE put == requireFileWrite(s, p, <<Do("PutFile", s), Try(Do("bumpHead", s))>>, "file.write")
             back == requireFileWrite(s, p, <<Do("LookUp", s), Do("PutFile", s), Try(Do("bumpHead", s))>>, "file.write")
  <2>1. GoodProgram(put) /\ put.via = "api"
      BY GoodOps, TwoOps DEF requireFileWrite, Program
  <2>2. GoodProgram(back) /\ back.via = "api"
    <3>1. GoodProgram(back)
        BY GoodOps, ThreeOps DEF requireFileWrite
    <3>2. back.via = "api"
        BY DEF requireFileWrite, Program
    <3> QED
        BY <3>1, <3>2
  <2> HIDE DEF put, back
  <2>3. GoodProgram(handlePutFile(s, p)) /\ GoodProgram(handleUIFileSave(s, p)) /\ GoodProgram(handleUIFileRestore(s, p))
      BY <2>1, <2>2, Variants DEF handlePutFile, handleUIFileSave, handleUIFileRestore, put, back
  <2>4. GoodProgram(handleDeleteFile(s, p))
      BY GoodOps, TwoOps DEF handleDeleteFile, requireCap
  <2>5. GoodProgram(handleUndeleteFile(s, p))
      BY GoodOps, TwoOps DEF handleUndeleteFile, requireFileWrite
  <2>6. GoodProgram(handleDestroyFileVersion(s, p))
      BY GoodOps, OneOp DEF handleDestroyFileVersion, requireCap
  <2>7. GoodProgram(handleGetFile(s, p)) /\ GoodProgram(handleListFileVersions(s, p))
      BY GoodOps, OneOp DEF handleGetFile, handleListFileVersions, Seen, requireCap
  <2>8. GoodProgram(renderUIFile(s, p))
      BY GoodOps, OneOp DEF renderUIFile, Seen, requireCapUI
  <2> QED
      BY <2>3, <2>4, <2>5, <2>6, <2>7, <2>8
<1>4. \A p \in others : GoodProgram(p)
    BY NoOps DEF handleListSpaces, handleUISpaces, handleUIHome, handleUIFreshness, handleLogout,
                 visibleSpaces, Authenticated, Unauthenticated
<1>5. prog \in (UNION {ofSpaces(s) : s \in Space}) \cup (UNION {calls(s) : s \in {DefaultSpace}})
               \cup (UNION {files(s, p) : s \in {DefaultSpace}, p \in Path}) \cup others
    BY DEF SpaceRequests
<1> HIDE DEF ofSpaces, calls, files, others
<1> QED
    BY <1>1, <1>2, <1>3, <1>4, <1>5

LEMMA DenyPrograms ==
    ASSUME NEW prog \in DenyRequests
    PROVE  GoodProgram(prog)
<1> USE DEF StepOps, SwitchOps, Wide, FileOps, UsersOps, AclOps, HookOps, Forgiven, Changing, Unrecorded
<1> DEFINE calls(u, s, p) == {newACLDenyCmd(u, File(s, p)), newACLAllowCmd(u, File(s, p), {"read"}),
                              newACLUnsetCmd(u, File(s, p)), newACLUnsetCmd(u, <<>>), handleGetFile(s, p), handlePutFile(s, p)}
<1>1. \A u \in User, s \in Space, p \in Path : \A q \in calls(u, s, p) : GoodProgram(q)
  <2> TAKE u \in User, s \in Space, p \in Path
  <2>1. GoodProgram(newACLDenyCmd(u, File(s, p))) /\ GoodProgram(newACLAllowCmd(u, File(s, p), {"read"}))
      BY GoodOps, OneOp DEF newACLDenyCmd, newACLAllowCmd, Command
  <2>2. \A path : GoodProgram(newACLUnsetCmd(u, path))
    <3> TAKE path
    <3>1. CASE path = <<>>
        BY <3>1, GoodOps, OneOp DEF newACLUnsetCmd, Command
    <3>2. CASE path # <<>>
        BY <3>2, GoodOps, OneOp DEF newACLUnsetCmd, Command
    <3> QED
        BY <3>1, <3>2
  <2>3. GoodProgram(handleGetFile(s, p))
      BY GoodOps, OneOp DEF handleGetFile, Seen, requireCap
  <2>4. GoodProgram(handlePutFile(s, p))
    <3>1. GoodProgram(requireFileWrite(s, p, <<Do("PutFile", s), Try(Do("bumpHead", s))>>, "file.write"))
        BY GoodOps, TwoOps DEF requireFileWrite
    <3> QED
        BY <3>1, Variants DEF handlePutFile
  <2> QED
      BY <2>1, <2>2, <2>3, <2>4
<1>2. prog \in UNION {calls(u, s, p) : u \in User \ {Admin}, s \in Space, p \in Path}
    BY DEF DenyRequests
<1> HIDE DEF calls
<1> QED
    BY <1>1, <1>2

LEMMA GoodPrograms ==
    ASSUME NEW f \in Family, NEW prog \in RequestsOf(f)
    PROVE  GoodProgram(prog)
BY AccountPrograms, CommandPrograms, PolicyPrograms, HookPrograms, BackendPrograms, SpacePrograms, DenyPrograms
   DEF Family, RequestsOf


-----------------------------------------------------------------------------
(* Server: what holds between the steps of requests *)

Fields == {"prog", "user", "pols", "at", "stage", "mid", "failed", "answer"}
DiskParts == {"users", "tokens", "policies", "acl", "hooks", "spaces", "backend"}
MemoryParts == {"engine", "userACL", "backend"}

\* A request: it is at one of its operations when it is in the middle of one, and as long
\* as it is under way nothing failed but what its handler forgives.
GoodRequest(r) ==
    /\ DOMAIN r = Fields /\ GoodProgram(r.prog)
    /\ r.at \in Nat \ {0} /\ r.stage \in {"check", "run", "mid", "done"}
    /\ r.stage = "mid" => r.at \in DOMAIN r.prog.ops
    /\ r.stage # "done" => r.failed \subseteq Forgiven(r.prog.via) /\ r.answer = "none"
GoodRequests == \A i \in DOMAIN request : GoodRequest(request[i])
IsSequence(s) == \E S : s \in Seq(S)
WellFormed == IsSequence(request) /\ DOMAIN disk = DiskParts /\ DOMAIN memory = MemoryParts /\ focus \in Family

\* A request of the server between the two steps of one of these operations.
Amid(r, ops) == r.prog.via # "cli" /\ r.stage = "mid" /\ r.prog.ops[r.at].do \in ops
AtMostOne(ops) == \A i, j \in DOMAIN request : Amid(request[i], ops) /\ Amid(request[j], ops) => i = j
NobodyAmid(ops) == \A i \in DOMAIN request : ~Amid(request[i], ops)

\* The users as a file holds them.
UsersTyped(us) == \A u \in DOMAIN us : DOMAIN us[u] = {"policies", "disabled", "password"} /\ us[u].disabled \in BOOLEAN

\* One request of the server at a time works on users.yaml, and what it read is what is
\* there, unless a command has written since.
UsersInv ==
    /\ AtMostOne(UsersOps) /\ RefusedStaysOut
    /\ "crossed" \notin excuses =>
         /\ UsersTyped(disk.users)
         /\ \A i \in DOMAIN request :
              Amid(request[i], UsersOps) => request[i].mid = disk.users \/ lastWriter = "cli"

\* A policy write under way has read what is there, and is the only reason for the engine
\* to be behind; likewise a switch of the backend and config.yaml.
EngineInv ==
    excuses \cap {"foreign", "overlapped", "unread"} = {} =>
      /\ AtMostOne({"WritePolicy"})
      /\ \A i \in DOMAIN request : Amid(request[i], {"WritePolicy"}) => request[i].mid = disk.policies
      /\ NobodyAmid({"WritePolicy"}) => memory.engine = disk.policies
BackendInv ==
    excuses \cap {"overlapped", "unsaved"} = {} =>
      /\ AtMostOne(SwitchOps)
      /\ \A i \in DOMAIN request : Amid(request[i], SwitchOps) => request[i].mid = <<memory.backend>>
      /\ NobodyAmid(SwitchOps) => memory.backend = disk.backend

\* An entry is of a request there is; a success is of one that is over.
JournalInv ==
    /\ \A e \in journal :
         /\ e.by \in DOMAIN request /\ e.success \in BOOLEAN
         /\ e.success => /\ request[e.by].stage = "done"
                         /\ request[e.by].failed \subseteq Forgiven(request[e.by].prog.via)
    /\ Recorded

\* A sequence that grows, or one of whose elements changes.
LEMMA Grown ==
    ASSUME NEW s, IsSequence(s), NEW r
    PROVE  /\ IsSequence(Append(s, r)) /\ Len(s) + 1 \notin DOMAIN s
           /\ DOMAIN Append(s, r) = DOMAIN s \cup {Len(s) + 1}
           /\ \A i \in DOMAIN s : Append(s, r)[i] = s[i]
           /\ Append(s, r)[Len(s) + 1] = r
<1>1. PICK S : s \in Seq(S)
    BY DEF IsSequence
<1> DEFINE T == S \cup {r}
<1>2. s \in Seq(T)
    BY <1>1
<1>3. /\ Append(s, r) \in Seq(T) /\ Len(Append(s, r)) = Len(s) + 1
      /\ \A i \in 1..Len(s) : Append(s, r)[i] = s[i]
      /\ Append(s, r)[Len(s) + 1] = r
    BY <1>2, AppendProperties
<1>4. Len(s) \in Nat /\ DOMAIN s = 1..Len(s)
    BY <1>1
<1>5. DOMAIN Append(s, r) = 1..(Len(s) + 1)
    BY <1>3, <1>4
<1>6. 1..(Len(s) + 1) = 1..Len(s) \cup {Len(s) + 1} /\ Len(s) + 1 \notin 1..Len(s)
    BY <1>4
<1>7. IsSequence(Append(s, r))
    BY <1>3 DEF IsSequence
<1> QED
    BY <1>3, <1>4, <1>5, <1>6, <1>7

LEMMA Replaced ==
    ASSUME NEW s, IsSequence(s), NEW t, DOMAIN t = DOMAIN s, t = [i \in DOMAIN s |-> t[i]]
    PROVE  IsSequence(t)
<1>1. PICK S : s \in Seq(S)
    BY DEF IsSequence
<1>2. Len(s) \in Nat /\ DOMAIN s = 1..Len(s)
    BY <1>1
<1> DEFINE T == {t[i] : i \in DOMAIN s}
<1>3. t \in [1..Len(s) -> T]
    BY <1>2
<1>4. t \in Seq(T)
    BY <1>2, <1>3
<1> QED
    BY <1>4 DEF IsSequence

\* A step of request i, which goes on to be r.
Becomes(i, r) ==
    /\ IsSequence(request') /\ DOMAIN request' = DOMAIN request
    /\ request'[i] = r /\ \A j \in DOMAIN request : j # i => request'[j] = request[j]

LEMMA OneChanges ==
    ASSUME WellFormed, NEW i \in DOMAIN request, NEW r, request' = [request EXCEPT ![i] = r]
    PROVE  Becomes(i, r)
<1>1. /\ DOMAIN request' = DOMAIN request /\ request'[i] = r
      /\ \A j \in DOMAIN request : j # i => request'[j] = request[j]
    OBVIOUS
<1>2. request' = [j \in DOMAIN request |-> request'[j]]
    OBVIOUS
<1>3. IsSequence(request')
    BY <1>1, <1>2, Replaced DEF WellFormed
<1> QED
    BY <1>1, <1>3 DEF Becomes

\* What a request that takes a step keeps, and what it has instead.
Follows(r, s, stage, at, mid, failed, answer) ==
    /\ DOMAIN s = Fields /\ s.prog = r.prog /\ s.user = r.user /\ s.pols = r.pols
    /\ s.stage = stage /\ s.at = at /\ s.mid = mid /\ s.failed = failed /\ s.answer = answer

LEMMA Answers ==
    ASSUME WellFormed, GoodRequests, NEW i \in Serving, NEW answer, Answer(i, answer)
    PROVE  /\ Becomes(i, request'[i])
           /\ Follows(request[i], request'[i], "done", request[i].at, <<>>, request[i].failed, answer)
<1>1. i \in DOMAIN request /\ DOMAIN request[i] = Fields
    BY DEF Serving, GoodRequests, GoodRequest
<1> DEFINE r == [request[i] EXCEPT !.stage = "done", !.answer = answer, !.mid = <<>>]
<1>2. request' = [request EXCEPT ![i] = r]
    BY <1>1 DEF Answer
<1>3. Follows(request[i], r, "done", request[i].at, <<>>, request[i].failed, answer)
    BY <1>1 DEF Follows, Fields
<1> HIDE DEF r
<1>4. Becomes(i, r) /\ request'[i] = r
    BY <1>1, <1>2, OneChanges DEF Becomes
<1> QED
    BY <1>3, <1>4

LEMMA Starts ==
    ASSUME WellFormed, GoodRequests, NEW i \in Serving, request' = [request EXCEPT ![i].stage = "run"]
    PROVE  /\ Becomes(i, request'[i])
           /\ Follows(request[i], request'[i], "run", request[i].at, request[i].mid, request[i].failed, request[i].answer)
<1>1. i \in DOMAIN request /\ DOMAIN request[i] = Fields
    BY DEF Serving, GoodRequests, GoodRequest
<1> DEFINE r == [request[i] EXCEPT !.stage = "run"]
<1>2. request' = [request EXCEPT ![i] = r]
    BY <1>1
<1>3. Follows(request[i], r, "run", request[i].at, request[i].mid, request[i].failed, request[i].answer)
    BY <1>1 DEF Follows, Fields
<1> HIDE DEF r
<1>4. Becomes(i, r) /\ request'[i] = r
    BY <1>1, <1>2, OneChanges DEF Becomes
<1> QED
    BY <1>3, <1>4

LEMMA Pauses ==
    ASSUME WellFormed, GoodRequests, NEW i \in Serving, NEW mid,
           request' = [request EXCEPT ![i].stage = "mid", ![i].mid = mid]
    PROVE  /\ Becomes(i, request'[i])
           /\ Follows(request[i], request'[i], "mid", request[i].at, mid, request[i].failed, request[i].answer)
<1>1. i \in DOMAIN request /\ DOMAIN request[i] = Fields
    BY DEF Serving, GoodRequests, GoodRequest
<1> DEFINE r == [request[i] EXCEPT !.stage = "mid", !.mid = mid]
<1>2. request' = [request EXCEPT ![i] = r]
    BY <1>1
<1>3. Follows(request[i], r, "mid", request[i].at, mid, request[i].failed, request[i].answer)
    BY <1>1 DEF Follows, Fields
<1> HIDE DEF r
<1>4. Becomes(i, r) /\ request'[i] = r
    BY <1>1, <1>2, OneChanges DEF Becomes
<1> QED
    BY <1>3, <1>4

\* After an operation: on to the next one, or the end.
LEMMA GoesOn ==
    ASSUME WellFormed, GoodRequests, NEW i \in Serving, NEW ok \in BOOLEAN, NEW why, Onward(i, ok, why),
           request[i].at \in DOMAIN request[i].prog.ops
    PROVE  /\ Becomes(i, request'[i]) /\ GoodRequest(request'[i])
           /\ request'[i].prog = request[i].prog /\ request'[i].stage \in {"run", "done"}
           /\ request'[i].answer # "ok"
           /\ request'[i].stage = "run" => journal' = journal
           /\ request'[i].stage = "done" =>
                \/ journal' = journal
                \/ journal' = journal \cup {[by |-> i, action |-> why, success |-> FALSE]}
<1>1. /\ i \in DOMAIN request /\ DOMAIN request[i] = Fields /\ GoodProgram(request[i].prog)
      /\ request[i].at \in Nat \ {0} /\ request[i].failed \subseteq Forgiven(request[i].prog.via)
      /\ request[i].answer = "none" /\ request[i].stage # "done"
    BY DEF Serving, GoodRequests, GoodRequest
<1>2. GoodOp(Now(i), request[i].prog.via)
    BY <1>1 DEF GoodProgram, Now
<1>3. CASE ok \/ ~Now(i).must
  <2> DEFINE failed == IF ok THEN request[i].failed ELSE request[i].failed \cup {Now(i).do}
             r == [request[i] EXCEPT !.stage = "run", !.at = request[i].at + 1, !.mid = <<>>, !.failed = failed]
  <2>1. request' = [request EXCEPT ![i] = r] /\ journal' = journal
      BY <1>1, <1>3 DEF Onward
  <2>2. Follows(request[i], r, "run", request[i].at + 1, <<>>, failed, "none")
      BY <1>1 DEF Follows, Fields
  <2>3. failed \subseteq Forgiven(request[i].prog.via)
      BY <1>1, <1>2, <1>3 DEF GoodOp
  <2> HIDE DEF r, failed
  <2>4. GoodRequest(r)
      BY <1>1, <2>2, <2>3 DEF GoodRequest, Follows
  <2>5. Becomes(i, r) /\ request'[i] = r
      BY <1>1, <2>1, OneChanges DEF Becomes
  <2> QED
      BY <2>1, <2>2, <2>4, <2>5 DEF Follows
<1>4. CASE ~(ok \/ ~Now(i).must)
  <2> DEFINE failed == request[i].failed \cup {Now(i).do}
             r == [request[i] EXCEPT !.stage = "done", !.answer = "failed", !.mid = <<>>, !.failed = failed]
  <2>1. request' = [request EXCEPT ![i] = r]
      BY <1>1, <1>4 DEF Onward
  <2>2. Follows(request[i], r, "done", request[i].at, <<>>, failed, "failed")
      BY <1>1 DEF Follows, Fields
  <2>3. \/ journal' = journal
        \/ journal' = journal \cup {[by |-> i, action |-> why, success |-> FALSE]}
      BY <1>4 DEF Onward
  <2> HIDE DEF r, failed
  <2>4. GoodRequest(r)
      BY <1>1, <2>2 DEF GoodRequest, Follows
  <2>5. Becomes(i, r) /\ request'[i] = r
      BY <1>1, <2>1, OneChanges DEF Becomes
  <2> QED
      BY <2>2, <2>3, <2>4, <2>5 DEF Follows
<1> QED
    BY <1>3, <1>4

\* What a step of request i does to what every request needs, and whom it leaves alone.
Advances(i) ==
    /\ Becomes(i, request'[i]) /\ GoodRequest(request'[i]) /\ request'[i].prog = request[i].prog
    /\ DOMAIN disk' = DiskParts /\ DOMAIN memory' = MemoryParts /\ focus' = focus
SameAmid(ops) ==
    \A j \in DOMAIN request' :
      Amid(request'[j], ops) => j \in DOMAIN request /\ Amid(request[j], ops) /\ request'[j].mid = request[j].mid
StillAmid(ops) == \A j \in DOMAIN request : Amid(request[j], ops) => j \in DOMAIN request' /\ Amid(request'[j], ops)
Stops(r) == r.stage \in {"run", "done"}

LEMMA AdvanceKeeps ==
    ASSUME WellFormed, GoodRequests, NEW i \in DOMAIN request, Advances(i)
    PROVE  WellFormed' /\ GoodRequests'
<1>1. GoodRequests'
    BY DEF Advances, Becomes, GoodRequests
<1>2. WellFormed'
    BY DEF Advances, Becomes, WellFormed
<1> QED
    BY <1>1, <1>2

LEMMA OthersStay ==
    ASSUME NEW i \in DOMAIN request, Becomes(i, request'[i]), NEW ops, ~Amid(request'[i], ops)
    PROVE  /\ SameAmid(ops)
           /\ ~Amid(request[i], ops) => StillAmid(ops)
           /\ \A j \in DOMAIN request : j # i /\ Amid(request[j], ops) => j \in DOMAIN request' /\ Amid(request'[j], ops)
BY DEF Becomes, SameAmid, StillAmid

\* The operation a request is at.
LEMMA AtOperation ==
    ASSUME WellFormed, GoodRequests, NEW i \in Serving, Running(i) \/ request[i].stage = "mid"
    PROVE  /\ i \in DOMAIN request /\ request[i].at \in DOMAIN request[i].prog.ops
           /\ GoodOp(Now(i), request[i].prog.via) /\ Now(i).do \in StepOps \cup Wide
<1>1. i \in DOMAIN request /\ GoodProgram(request[i].prog) /\ request[i].at \in Nat \ {0}
    BY DEF Serving, GoodRequests, GoodRequest
<1>2. request[i].at \in DOMAIN request[i].prog.ops
  <2>1. CASE Running(i)
    <3>1. Len(request[i].prog.ops) \in Nat /\ DOMAIN request[i].prog.ops = 1..Len(request[i].prog.ops)
        BY <1>1 DEF GoodProgram
    <3>2. request[i].at <= Len(request[i].prog.ops)
        BY <2>1 DEF Running
    <3> QED
        BY <1>1, <3>1, <3>2
  <2>2. CASE request[i].stage = "mid"
      BY <1>1, <2>2 DEF GoodRequests, GoodRequest
  <2> QED
      BY <2>1, <2>2
<1> QED
    BY <1>1, <1>2 DEF GoodProgram, GoodOp, Now

\* An operation that is one step leaves users, policies and the backend's choice alone, and
\* makes no tokens.
Harmless(d) ==
    /\ DOMAIN d = DiskParts /\ d.users = disk.users /\ d.tokens \subseteq disk.tokens
    /\ d.policies = disk.policies /\ d.backend = disk.backend
LEMMA StepIsHarmless ==
    ASSUME WellFormed, NEW op, op.do \in StepOps, NEW out \in Outcomes(op)
    PROVE  out[1] \in BOOLEAN /\ Harmless(out[3])
<1> DEFINE fine(o) == o[1] \in BOOLEAN /\ Harmless(o[3])
<1>0. DOMAIN disk = DiskParts /\ Harmless(disk)
    BY DEF WellFormed, Harmless
<1>1. ASSUME NEW d, Harmless(d), NEW o \in Did(d) PROVE fine(o)
  <2>1. o = <<TRUE, "", d>>
      BY <1>1 DEF Did
  <2>2. o[1] = TRUE /\ o[3] = d
      BY <2>1
  <2> QED
      BY <2>2, <1>1
<1>2. ASSUME NEW why, NEW o \in Didnt(why) PROVE fine(o)
  <2>1. o = <<FALSE, why, disk>>
      BY <1>2 DEF Didnt
  <2>2. o[1] = FALSE /\ o[3] = disk
      BY <2>1
  <2> QED
      BY <2>2, <1>0
<1>3. \A b, d : Harmless(d) => \A o \in IfThere(b, d) : fine(o)
    BY <1>1, <1>2 DEF IfThere
<1>4. \A names : Harmless([disk EXCEPT !.spaces = names])
    BY <1>0 DEF Harmless, DiskParts
<1>5. \A T \in SUBSET disk.tokens : Harmless([disk EXCEPT !.tokens = T])
    BY <1>0 DEF Harmless, DiskParts
<1> SUFFICES fine(out)
    OBVIOUS
<1> HIDE DEF fine
<1>6. CASE op.do \in {"LookUp", "SaveMeta", "SnapshotSpace", "DestroyFileVersion"}
    BY <1>0, <1>3, <1>6 DEF Outcomes
<1>7. CASE op.do \in {"DeleteFile", "UndeleteFile", "bumpHead"}
  <2>1. Outcomes(op) = IfThere(op.name \in disk.spaces, disk) \cup Didnt("conflict")
      BY <1>7 DEF Outcomes
  <2> QED
      BY <2>1, <1>0, <1>2, <1>3
<1>8. CASE op.do \in {"PutFile", "Push"}
  <2>1. Outcomes(op) = IfThere(op.name \in disk.spaces, disk)
                       \cup UNION {Didnt(why) : why \in {"conflict", "secret.blocked", "quota.exceeded"}}
      BY <1>8 DEF Outcomes
  <2> QED
      BY <2>1, <1>0, <1>2, <1>3
<1>9. CASE op.do \in {"CreateSpace", "DeleteSpace"}
  <2>1. \/ out \in IfThere(op.name \notin disk.spaces, [disk EXCEPT !.spaces = @ \cup {op.name}])
        \/ out \in IfThere(op.name \in disk.spaces, [disk EXCEPT !.spaces = @ \ {op.name}])
      BY <1>9 DEF Outcomes
  <2> QED
      BY <2>1, <1>3, <1>4
<1>10. CASE op.do \in {"FindHook", "GetPolicy", "Authenticate"}
  <2>1. \E b : out \in IfThere(b, disk)
      BY <1>10 DEF Outcomes
  <2> QED
      BY <2>1, <1>0, <1>3
<1>11. CASE op.do = "Login"
  <2>1. out \in Didnt("auth.login") \/ out \in Did(disk)
      BY <1>11 DEF Outcomes
  <2> QED
      BY <2>1, <1>0, <1>1, <1>2
<1>12. CASE op.do = "RevokeToken"
  <2> DEFINE T == {t \in disk.tokens : t.id # op.name}
  <2>1. out \in IfThere(\E t \in disk.tokens : t.id = op.name, [disk EXCEPT !.tokens = T])
      BY <1>12 DEF Outcomes
  <2>2. T \in SUBSET disk.tokens
      OBVIOUS
  <2> HIDE DEF T
  <2> QED
      BY <2>1, <2>2, <1>3, <1>5
<1>13. CASE op.do = "RevokeUserTokens"
  <2>1. out \in Did([disk EXCEPT !.tokens = revokeUserTokens(op.name)])
      BY <1>13 DEF Outcomes
  <2>2. revokeUserTokens(op.name) \in SUBSET disk.tokens
      BY DEF revokeUserTokens
  <2> QED
      BY <2>1, <2>2, <1>1, <1>5
<1>14. CASE op.do \in {"TestHook", "testBackendCAS"}
  <2>1. Outcomes(op) = Did(disk) \cup Didnt("unreachable")
      BY <1>14 DEF Outcomes
  <2> QED
      BY <2>1, <1>0, <1>1, <1>2
<1>15. CASE op.do = "EmitStale"
    BY <1>0, <1>1, <1>15 DEF Outcomes
<1> QED
    BY <1>6, <1>7, <1>8, <1>9, <1>10, <1>11, <1>12, <1>13, <1>14, <1>15 DEF fine, StepOps

\* What an operation on users.yaml makes of what it read.
LEMMA EditIsTold ==
    ASSUME NEW op, op.do \in FileOps, NEW content
    PROVE  Edited(op, content).ok \in BOOLEAN
<1>1. \A c : Yes(c).ok = TRUE /\ No(c).ok = FALSE
    BY DEF Yes, No
<1> HIDE DEF Yes, No
<1>2. \A new : Found(content, op.name, new).ok \in BOOLEAN
    BY <1>1 DEF Found
<1>3. /\ AddUser(content, op).ok \in BOOLEAN /\ CreateToken(content, op).ok \in BOOLEAN
    BY <1>1 DEF AddUser, CreateToken
<1>4. /\ SetRole(content, op).ok \in BOOLEAN /\ SetPolicies(content, op).ok \in BOOLEAN
      /\ \A b : SetDisabled(content, op, b).ok \in BOOLEAN
      /\ RemoveUser(content, op).ok \in BOOLEAN /\ SetPassword(content, op).ok \in BOOLEAN
    BY <1>2 DEF SetRole, SetPolicies, SetDisabled, RemoveUser, SetPassword
<1>5. /\ AddUserRule(content, op).ok \in BOOLEAN /\ SetUserRules(content, op).ok \in BOOLEAN
      /\ RemoveUserRulePath(content, op).ok \in BOOLEAN
      /\ Upsert(content, op).ok \in BOOLEAN /\ DeleteHook(content, op).ok \in BOOLEAN
    BY <1>1 DEF AddUserRule, SetUserRules, RemoveUserRulePath, Upsert, DeleteHook
<1> QED
    BY <1>3, <1>4, <1>5 DEF Edited, FileOps, UsersOps, AclOps, HookOps

\* Nobody but the user it names comes, goes, or is refused or let in.
Elsewhere(us, to, name) ==
    \A u : u # name => /\ u \in DOMAIN us <=> u \in DOMAIN to
                       /\ u \in DOMAIN us => to[u].disabled = us[u].disabled

LEMMA UserIsEdited ==
    ASSUME NEW op, op.do \in UsersOps, NEW us, UsersTyped(us), NEW to, Edited(op, us).ok, to = Edited(op, us).to
    PROVE  /\ UsersTyped(to) /\ Elsewhere(us, to, op.name)
           /\ op.do = "AddUser" => op.name \notin DOMAIN us /\ op.name \in DOMAIN to /\ to[op.name].disabled = FALSE
           /\ op.do \in {"SetRole", "SetPolicies", "SetPassword"} =>
                op.name \in DOMAIN us /\ op.name \in DOMAIN to /\ to[op.name].disabled = us[op.name].disabled
           /\ op.do = "Disable" => op.name \in DOMAIN to /\ to[op.name].disabled = TRUE
           /\ op.do = "Enable" => op.name \in DOMAIN to /\ to[op.name].disabled = FALSE
           /\ op.do = "RemoveUser" => op.name \notin DOMAIN to
           /\ op.do = "CreateToken" => to = us /\ op.name \in DOMAIN us /\ us[op.name].disabled = FALSE
<1>0. \A c : Yes(c).ok = TRUE /\ No(c).ok = FALSE /\ Yes(c).to = c
    BY DEF Yes, No
<1> DEFINE n == op.name
<1>1. CASE op.do = "AddUser"
  <2> DEFINE new == [policies |-> op.to, disabled |-> FALSE, password |-> FALSE]
  <2>1. n \notin DOMAIN us /\ to = With(us, n, new)
      BY <1>0, <1>1 DEF Edited, AddUser
  <2>2. DOMAIN new = {"policies", "disabled", "password"} /\ new.disabled = FALSE
      OBVIOUS
  <2> HIDE DEF new
  <2>3. /\ DOMAIN to = DOMAIN us \cup {n} /\ to[n] = new
        /\ \A u \in DOMAIN us : u # n => to[u] = us[u]
      BY <2>1 DEF With
  <2>4. UsersTyped(to)
      BY <2>1, <2>2, <2>3 DEF UsersTyped
  <2>5. Elsewhere(us, to, n)
      BY <2>3 DEF Elsewhere
  <2> QED
      BY <1>1, <2>1, <2>2, <2>3, <2>4, <2>5
<1>2. ASSUME NEW r, n \in DOMAIN us, to = [us EXCEPT ![n] = r], DOMAIN r = {"policies", "disabled", "password"},
             r.disabled \in BOOLEAN
      PROVE  UsersTyped(to) /\ Elsewhere(us, to, n) /\ n \in DOMAIN to /\ to[n].disabled = r.disabled
  <2>1. /\ DOMAIN to = DOMAIN us /\ to[n] = r
        /\ \A u \in DOMAIN us : u # n => to[u] = us[u]
      BY <1>2
  <2>2. UsersTyped(to)
      BY <1>2, <2>1 DEF UsersTyped
  <2>3. Elsewhere(us, to, n)
      BY <2>1 DEF Elsewhere
  <2> QED
      BY <1>2, <2>1, <2>2, <2>3
<1>3. ASSUME NEW new, Found(us, n, new).ok, to = Found(us, n, new).to
      PROVE  n \in DOMAIN us /\ to = new
    BY <1>0, <1>3 DEF Found
<1>4. n \in DOMAIN us => DOMAIN us[n] = {"policies", "disabled", "password"} /\ us[n].disabled \in BOOLEAN
    BY DEF UsersTyped
<1>5. CASE op.do \in {"SetRole", "SetPolicies"}
  <2> DEFINE r == [us[n] EXCEPT !.policies = op.to]
  <2>1. n \in DOMAIN us /\ to = [us EXCEPT ![n].policies = op.to]
      BY <1>3, <1>5 DEF Edited, SetRole, SetPolicies
  <2>2. DOMAIN r = {"policies", "disabled", "password"} /\ r.disabled = us[n].disabled
      BY <1>4, <2>1
  <2>3. to = [us EXCEPT ![n] = r]
      BY <2>1
  <2> HIDE DEF r
  <2>4. UsersTyped(to) /\ Elsewhere(us, to, n) /\ n \in DOMAIN to /\ to[n].disabled = us[n].disabled
      BY <1>2, <1>4, <2>1, <2>2, <2>3
  <2> QED
      BY <1>5, <2>1, <2>4
<1>6. CASE op.do = "SetPassword"
  <2> DEFINE r == [us[n] EXCEPT !.password = TRUE]
  <2>1. n \in DOMAIN us /\ to = [us EXCEPT ![n].password = TRUE]
      BY <1>3, <1>6 DEF Edited, SetPassword
  <2>2. DOMAIN r = {"policies", "disabled", "password"} /\ r.disabled = us[n].disabled
      BY <1>4, <2>1
  <2>3. to = [us EXCEPT ![n] = r]
      BY <2>1
  <2> HIDE DEF r
  <2>4. UsersTyped(to) /\ Elsewhere(us, to, n) /\ n \in DOMAIN to /\ to[n].disabled = us[n].disabled
      BY <1>2, <1>4, <2>1, <2>2, <2>3
  <2> QED
      BY <1>6, <2>1, <2>4
<1>7. ASSUME NEW b \in BOOLEAN, SetDisabled(us, op, b).ok, to = SetDisabled(us, op, b).to
      PROVE  UsersTyped(to) /\ Elsewhere(us, to, n) /\ n \in DOMAIN to /\ to[n].disabled = b
  <2> DEFINE r == [us[n] EXCEPT !.disabled = b]
  <2>1. n \in DOMAIN us /\ to = [us EXCEPT ![n].disabled = b]
      BY <1>3, <1>7 DEF SetDisabled
  <2>2. DOMAIN r = {"policies", "disabled", "password"} /\ r.disabled = b
      BY <1>4, <2>1
  <2>3. to = [us EXCEPT ![n] = r]
      BY <2>1
  <2> HIDE DEF r
  <2> QED
      BY <1>2, <2>1, <2>2, <2>3
<1>8. CASE op.do = "Disable"
  <2>1. SetDisabled(us, op, TRUE).ok /\ to = SetDisabled(us, op, TRUE).to
      BY <1>8 DEF Edited
  <2> QED
      BY <1>7, <1>8, <2>1
<1>9. CASE op.do = "Enable"
  <2>1. SetDisabled(us, op, FALSE).ok /\ to = SetDisabled(us, op, FALSE).to
      BY <1>9 DEF Edited
  <2> QED
      BY <1>7, <1>9, <2>1
<1>10. CASE op.do = "RemoveUser"
  <2>1. to = [u \in DOMAIN us \ {n} |-> us[u]]
      BY <1>3, <1>10 DEF Edited, RemoveUser
  <2>2. DOMAIN to = DOMAIN us \ {n} /\ \A u \in DOMAIN to : to[u] = us[u]
      BY <2>1
  <2>3. UsersTyped(to) /\ Elsewhere(us, to, n)
      BY <2>2 DEF UsersTyped, Elsewhere
  <2> QED
      BY <1>10, <2>2, <2>3
<1>11. CASE op.do = "CreateToken"
  <2>1. n \in DOMAIN us /\ ~us[n].disabled /\ to = us
      BY <1>0, <1>11 DEF Edited, CreateToken
  <2>2. us[n].disabled = FALSE
      BY <2>1, <1>4
  <2>3. Elsewhere(us, to, n)
      BY <2>1 DEF Elsewhere
  <2> QED
      BY <1>11, <2>1, <2>2, <2>3
<1> QED
    BY <1>1, <1>5, <1>6, <1>8, <1>9, <1>10, <1>11 DEF UsersOps

\* What a step leaves alone: the users, the policies, the backend; and the audit log, but
\* for a line that says something failed.
UsersAlone ==
    /\ disk'.users = disk.users /\ disk'.tokens \subseteq disk.tokens
    /\ cut' = cut /\ spared' = spared /\ lastWriter' = lastWriter
    /\ "crossed" \in excuses' <=> "crossed" \in excuses
PoliciesAlone ==
    /\ disk'.policies = disk.policies /\ memory'.engine = memory.engine
    /\ excuses \cap {"foreign", "overlapped", "unread"} \subseteq excuses'
BackendAlone ==
    /\ disk'.backend = disk.backend /\ memory'.backend = memory.backend
    /\ excuses \cap {"overlapped", "unsaved"} \subseteq excuses'
JournalAlone(i) ==
    /\ journal \subseteq journal' /\ \A e \in journal' \ journal : e.by = i /\ e.success = FALSE
    /\ "unaudited" \in excuses => "unaudited" \in excuses'
    /\ request'[i].answer # "ok"

LEMMA UsersAloneKeep ==
    ASSUME UsersInv, UsersAlone, SameAmid(UsersOps)
    PROVE  UsersInv'
<1>1. AtMostOne(UsersOps)'
    BY DEF UsersInv, AtMostOne, SameAmid
<1>2. RefusedStaysOut'
    BY DEF UsersInv, UsersAlone, RefusedStaysOut, CutStaysCut, NoTokenForRefused
<1>3. ASSUME "crossed" \notin excuses'
      PROVE  /\ UsersTyped(disk'.users)
             /\ \A i \in DOMAIN request' :
                  Amid(request'[i], UsersOps) => request'[i].mid = disk'.users \/ lastWriter' = "cli"
    BY <1>3 DEF UsersInv, UsersAlone, SameAmid
<1> QED
    BY <1>1, <1>2, <1>3 DEF UsersInv

LEMMA PoliciesAloneKeep ==
    ASSUME EngineInv, PoliciesAlone, SameAmid({"WritePolicy"}), StillAmid({"WritePolicy"})
    PROVE  EngineInv'
<1> SUFFICES ASSUME excuses' \cap {"foreign", "overlapped", "unread"} = {}
             PROVE  /\ AtMostOne({"WritePolicy"})'
                    /\ \A i \in DOMAIN request' : Amid(request'[i], {"WritePolicy"}) => request'[i].mid = disk'.policies
                    /\ NobodyAmid({"WritePolicy"})' => memory'.engine = disk'.policies
    BY DEF EngineInv
<1>1. excuses \cap {"foreign", "overlapped", "unread"} = {}
    BY DEF PoliciesAlone
<1> QED
    BY <1>1 DEF EngineInv, PoliciesAlone, SameAmid, StillAmid, AtMostOne, NobodyAmid

LEMMA BackendAloneKeeps ==
    ASSUME BackendInv, BackendAlone, SameAmid(SwitchOps), StillAmid(SwitchOps)
    PROVE  BackendInv'
<1> SUFFICES ASSUME excuses' \cap {"overlapped", "unsaved"} = {}
             PROVE  /\ AtMostOne(SwitchOps)'
                    /\ \A i \in DOMAIN request' : Amid(request'[i], SwitchOps) => request'[i].mid = <<memory'.backend>>
                    /\ NobodyAmid(SwitchOps)' => memory'.backend = disk'.backend
    BY DEF BackendInv
<1>1. excuses \cap {"overlapped", "unsaved"} = {}
    BY DEF BackendAlone
<1> QED
    BY <1>1 DEF BackendInv, BackendAlone, SameAmid, StillAmid, AtMostOne, NobodyAmid

\* Every request is answered at most once, and nothing happens to it afterwards.
Recall(i) ==
    (request[i].answer = "ok" /\ Inside(i) /\ "unaudited" \notin excuses)
     => \/ \E e \in journal : e.by = i /\ e.success
        \/ \A k \in DOMAIN request[i].prog.ops : request[i].prog.ops[k].do \in Changing
        \/ \E k \in DOMAIN request[i].prog.ops : request[i].prog.ops[k].do \in Unrecorded
Sound(e) ==
    /\ e.by \in DOMAIN request /\ e.success \in BOOLEAN
    /\ e.success => request[e.by].stage = "done" /\ request[e.by].failed \subseteq Forgiven(request[e.by].prog.via)

LEMMA JournalParts == JournalInv <=> (\A e \in journal : Sound(e)) /\ (\A i \in DOMAIN request : Recall(i))
BY DEF JournalInv, Recorded, Recall, Sound

LEMMA JournalAloneKeeps ==
    ASSUME JournalInv, NEW i \in Serving, Becomes(i, request'[i]), JournalAlone(i)
    PROVE  JournalInv'
<1>0. i \in DOMAIN request /\ request[i].stage # "done"
    BY DEF Serving
<1>1. ASSUME NEW e \in journal' PROVE Sound(e)'
  <2>1. CASE e \in journal
    <3>1. Sound(e)
        BY <2>1, JournalParts
    <3>2. e.success => e.by # i
        BY <1>0, <3>1 DEF Sound
    <3> QED
        BY <3>1, <3>2 DEF Sound, Becomes
  <2>2. CASE e \notin journal
    <3>1. e.by = i /\ e.success = FALSE
        BY <1>1, <2>2 DEF JournalAlone
    <3> QED
        BY <3>1, <1>0 DEF Sound, Becomes
  <2> QED
      BY <2>1, <2>2
<1>2. ASSUME NEW j \in DOMAIN request' PROVE Recall(j)'
  <2>1. CASE j = i
      BY <2>1 DEF Recall, JournalAlone
  <2>2. CASE j # i
    <3>1. Recall(j) /\ request'[j] = request[j]
        BY <1>2, <2>2, JournalParts DEF Becomes
    <3> QED
        BY <3>1 DEF Recall, JournalAlone, Inside
  <2> QED
      BY <2>1, <2>2
<1>3. JournalInv' <=> (\A e \in journal' : Sound(e)') /\ (\A j \in DOMAIN request' : Recall(j)')
    BY DEF JournalInv, Recorded, Recall, Sound
<1> QED
    BY <1>1, <1>2, <1>3

Calm(i) ==
    /\ Advances(i) /\ UsersAlone /\ PoliciesAlone /\ BackendAlone
    /\ request[i].stage # "mid" /\ Stops(request'[i])

LEMMA FollowsGood ==
    ASSUME NEW r, NEW s, GoodRequest(r), NEW stage, NEW at \in Nat \ {0}, NEW mid, NEW failed, NEW answer,
           Follows(r, s, stage, at, mid, failed, answer),
           stage \in {"check", "run", "mid", "done"}, stage = "mid" => at \in DOMAIN r.prog.ops,
           stage # "done" => failed \subseteq Forgiven(r.prog.via) /\ answer = "none"
    PROVE  GoodRequest(s)
BY DEF Follows, GoodRequest

\* A line of the audit log, or none.
LEMMA Audited ==
    ASSUME NEW i, NEW action, NEW success \in BOOLEAN, auditWrite(i, action, success)
    PROVE  /\ \/ journal' = journal \cup {[by |-> i, action |-> action, success |-> success]}
              \/ journal' = journal /\ "unaudited" \in excuses'
           /\ excuses' = excuses \/ excuses' = excuses \cup {"unaudited"}
<1> DEFINE entry == [by |-> i, action |-> action, success |-> success]
<1>1. \/ journal' = journal \cup {entry} /\ excuses' = excuses
      \/ journal' = journal /\ excuses' = excuses \cup {"unaudited"}
    BY DEF auditWrite
<1> HIDE DEF entry
<1> QED
    BY <1>1 DEF entry

LEMMA CheckStep ==
    ASSUME WellFormed, GoodRequests, NEW i \in Serving, Check(i)
    PROVE  Calm(i) /\ JournalAlone(i)
<1>1. /\ i \in DOMAIN request /\ GoodRequest(request[i]) /\ request[i].stage = "check"
      /\ request[i].at \in Nat \ {0} /\ request[i].answer = "none"
      /\ request[i].failed \subseteq Forgiven(request[i].prog.via)
    BY DEF Serving, GoodRequests, GoodRequest, Check
<1>2. /\ UNCHANGED <<disk, memory, focus, lastWriter, cut, spared>>
    BY DEF Check
<1>3. CASE Allowed(request[i])
  <2>1. request' = [request EXCEPT ![i].stage = "run"] /\ UNCHANGED <<journal, faults, excuses>>
      BY <1>3 DEF Check
  <2>2. /\ Becomes(i, request'[i])
        /\ Follows(request[i], request'[i], "run", request[i].at, request[i].mid, request[i].failed, request[i].answer)
      BY <2>1, Starts
  <2>3. GoodRequest(request'[i])
      BY <1>1, <2>2, FollowsGood
  <2> QED
      BY <1>1, <1>2, <2>1, <2>2, <2>3 DEF Calm, Advances, UsersAlone, PoliciesAlone, BackendAlone, JournalAlone, Stops,
                                         Follows, WellFormed
<1>4. CASE ~Allowed(request[i])
  <2>1. Answer(i, "denied")
      BY <1>4 DEF Check
  <2>2. /\ Becomes(i, request'[i])
        /\ Follows(request[i], request'[i], "done", request[i].at, <<>>, request[i].failed, "denied")
      BY <2>1, Answers
  <2>3. GoodRequest(request'[i])
      BY <1>1, <2>2, FollowsGood
  <2>4. \/ UNCHANGED <<journal, excuses>>
        \/ auditWrite(i, "authz.deny", FALSE)
      BY <1>4 DEF Check
  <2>5. /\ journal' = journal \cup {[by |-> i, action |-> "authz.deny", success |-> FALSE]} \/ journal' = journal
        /\ excuses' = excuses \/ excuses' = excuses \cup {"unaudited"}
      BY <2>4, Audited
  <2>6. JournalAlone(i)
      BY <2>2, <2>5 DEF JournalAlone, Follows
  <2>7. UsersAlone /\ PoliciesAlone /\ BackendAlone
      BY <1>2, <2>5 DEF UsersAlone, PoliciesAlone, BackendAlone
  <2> QED
      BY <1>1, <1>2, <2>2, <2>3, <2>6, <2>7 DEF Calm, Advances, Stops, Follows, WellFormed
<1> QED
    BY <1>3, <1>4

LEMMA FinishStep ==
    ASSUME WellFormed, GoodRequests, JournalInv, NEW i \in Serving, Finish(i)
    PROVE  Calm(i) /\ JournalInv'
<1>1. /\ i \in DOMAIN request /\ GoodRequest(request[i]) /\ request[i].stage = "run"
      /\ request[i].at \in Nat \ {0} /\ request[i].answer = "none" /\ GoodProgram(request[i].prog)
      /\ request[i].failed \subseteq Forgiven(request[i].prog.via)
    BY DEF Serving, GoodRequests, GoodRequest, Finish
<1>2. /\ UNCHANGED <<disk, memory, focus, lastWriter, cut, spared>>
      /\ Answer(i, "ok")
    BY DEF Finish
<1>3. /\ Becomes(i, request'[i])
      /\ Follows(request[i], request'[i], "done", request[i].at, <<>>, request[i].failed, "ok")
    BY <1>2, Answers
<1>4. GoodRequest(request'[i])
    BY <1>1, <1>3, FollowsGood
<1> DEFINE entry == [by |-> i, action |-> request[i].prog.says, success |-> TRUE]
<1>6. /\ excuses' = excuses \/ excuses' = excuses \cup {"unaudited"}
      /\ \/ request[i].prog.says = "" /\ journal' = journal
         \/ journal' = journal \cup {entry}
         \/ journal' = journal /\ "unaudited" \in excuses'
  <2>1. CASE request[i].prog.says = ""
      BY <2>1 DEF Finish
  <2>2. CASE request[i].prog.says # ""
    <3>1. auditWrite(i, request[i].prog.says, TRUE)
        BY <2>2 DEF Finish
    <3> QED
        BY <3>1, Audited
  <2> QED
      BY <2>1, <2>2
<1>7. entry.by = i /\ entry.success = TRUE
    OBVIOUS
<1> HIDE DEF entry
<1>8. ASSUME NEW e \in journal' PROVE Sound(e)'
  <2>1. CASE e \in journal
    <3>1. Sound(e)
        BY <2>1, JournalParts
    <3>2. e.success => e.by # i
        BY <1>1, <3>1 DEF Sound
    <3> QED
        BY <3>1, <3>2, <1>3 DEF Sound, Becomes
  <2>2. CASE e = entry
      BY <2>2, <1>7, <1>1, <1>3 DEF Sound, Becomes, Follows
  <2> QED
      BY <2>1, <2>2, <1>6
<1>9. ASSUME NEW j \in DOMAIN request' PROVE Recall(j)'
  <2>1. CASE j # i
    <3>1. Recall(j) /\ request'[j] = request[j]
        BY <1>3, <1>9, <2>1, JournalParts DEF Becomes
    <3>2. journal \subseteq journal' /\ "unaudited" \in excuses => "unaudited" \in excuses'
        BY <1>6
    <3> QED
        BY <3>1, <3>2, <1>6 DEF Recall, Inside
  <2>2. CASE j = i
    <3> SUFFICES ASSUME request[i].prog.via # "cli", "unaudited" \notin excuses'
                 PROVE  Recall(i)'
        BY <2>2, <1>3 DEF Recall, Inside, Follows
    <3>1. CASE request[i].prog.says # ""
      <4>1. entry \in journal'
          BY <3>1, <1>6
      <4> QED
          BY <4>1, <1>7 DEF Recall
    <3>2. CASE request[i].prog.says = ""
        BY <3>2, <1>1, <1>3 DEF Recall, GoodProgram, Follows
    <3> QED
        BY <3>1, <3>2
  <2> QED
      BY <2>1, <2>2
<1>10. JournalInv' <=> (\A e \in journal' : Sound(e)') /\ (\A j \in DOMAIN request' : Recall(j)')
    BY DEF JournalInv, Recorded, Recall, Sound
<1>11. UsersAlone /\ PoliciesAlone /\ BackendAlone
    BY <1>2, <1>6 DEF UsersAlone, PoliciesAlone, BackendAlone
<1>12. Calm(i)
    BY <1>1, <1>2, <1>3, <1>4, <1>11 DEF Calm, Advances, Stops, Follows, WellFormed
<1> QED
    BY <1>8, <1>9, <1>10, <1>12

\* What Onward makes of the request and of the audit log.
LEMMA GoneOn ==
    ASSUME WellFormed, GoodRequests, NEW i \in Serving, NEW ok \in BOOLEAN, NEW why, Onward(i, ok, why),
           Running(i) \/ request[i].stage = "mid", "unaudited" \in excuses => "unaudited" \in excuses'
    PROVE  /\ Becomes(i, request'[i]) /\ GoodRequest(request'[i]) /\ request'[i].prog = request[i].prog
           /\ Stops(request'[i]) /\ JournalAlone(i)
<1>1. request[i].at \in DOMAIN request[i].prog.ops
    BY AtOperation
<1>2. /\ Becomes(i, request'[i]) /\ GoodRequest(request'[i]) /\ request'[i].prog = request[i].prog
      /\ request'[i].stage \in {"run", "done"} /\ request'[i].answer # "ok"
      /\ \/ journal' = journal
         \/ journal' = journal \cup {[by |-> i, action |-> why, success |-> FALSE]}
    BY <1>1, GoesOn
<1> QED
    BY <1>2 DEF Stops, JournalAlone

LEMMA ActStep ==
    ASSUME WellFormed, GoodRequests, NEW i \in Serving, Act(i)
    PROVE  Calm(i) /\ JournalAlone(i)
<1>1. Running(i) /\ Now(i).do \in StepOps
    BY AtOperation DEF Act
<1>2. PICK out \in Outcomes(Now(i)) : disk' = out[3] /\ Onward(i, out[1], out[2])
    BY DEF Act
<1>3. out[1] \in BOOLEAN /\ Harmless(disk')
    BY <1>1, <1>2, StepIsHarmless
<1>4. UNCHANGED <<memory, focus, faults, lastWriter, cut, spared, excuses>>
    BY DEF Act
<1>5. /\ Becomes(i, request'[i]) /\ GoodRequest(request'[i]) /\ request'[i].prog = request[i].prog
      /\ Stops(request'[i]) /\ JournalAlone(i)
    BY <1>1, <1>2, <1>3, <1>4, GoneOn
<1> QED
    BY <1>1, <1>3, <1>4, <1>5 DEF Calm, Advances, UsersAlone, PoliciesAlone, BackendAlone, Harmless, WellFormed, Running

LEMMA FailStep ==
    ASSUME WellFormed, GoodRequests, NEW i \in Serving, Fail(i)
    PROVE  Calm(i) /\ JournalAlone(i)
<1>1. Running(i) /\ \E why : Onward(i, FALSE, why)
    BY DEF Fail
<1>4. UNCHANGED <<disk, memory, focus, lastWriter, cut, spared, excuses>>
    BY DEF Fail
<1>5. /\ Becomes(i, request'[i]) /\ GoodRequest(request'[i]) /\ request'[i].prog = request[i].prog
      /\ Stops(request'[i]) /\ JournalAlone(i)
    BY <1>1, <1>4, GoneOn
<1> QED
    BY <1>1, <1>4, <1>5 DEF Calm, Advances, UsersAlone, PoliciesAlone, BackendAlone, WellFormed, Running

\* The operations of one kind are not of another.
LEMMA Kinds ==
    /\ UsersOps \subseteq FileOps /\ SwitchOps \subseteq Wide /\ "WritePolicy" \in Wide /\ FileOps \subseteq Wide
    /\ SwitchOps \cap FileOps = {} /\ "WritePolicy" \notin FileOps /\ "WritePolicy" \notin SwitchOps
    /\ \A op : op.do \in FileOps => (FileOf(op) = "users" <=> op.do \in UsersOps)
    /\ \A op : op.do \in FileOps => FileOf(op) \in {"users", "acl", "hooks"}
<1>1. \A op : op.do \in FileOps => /\ FileOf(op) = "users" <=> op.do \in UsersOps
                                   /\ FileOf(op) \in {"users", "acl", "hooks"}
    BY DEF FileOf, FileOps, UsersOps, AclOps, HookOps
<1>2. /\ UsersOps \subseteq FileOps /\ SwitchOps \subseteq Wide /\ "WritePolicy" \in Wide /\ FileOps \subseteq Wide
      /\ SwitchOps \cap FileOps = {} /\ "WritePolicy" \notin FileOps /\ "WritePolicy" \notin SwitchOps
    BY DEF FileOps, UsersOps, AclOps, HookOps, SwitchOps, Wide
<1> QED
    BY <1>1, <1>2

LEMMA LoadStep ==
    ASSUME WellFormed, GoodRequests, UsersInv, NEW i \in Serving, Load(i)
    PROVE  /\ Advances(i) /\ UsersInv' /\ PoliciesAlone /\ BackendAlone /\ JournalAlone(i)
           /\ request[i].stage # "mid" /\ ~Amid(request'[i], {"WritePolicy"}) /\ ~Amid(request'[i], SwitchOps)
<1> DEFINE mid == disk[FileOf(Now(i))]
<1>1. /\ i \in DOMAIN request /\ GoodRequest(request[i]) /\ request[i].stage = "run"
      /\ request[i].at \in Nat \ {0} /\ request[i].answer = "none"
      /\ request[i].failed \subseteq Forgiven(request[i].prog.via)
    BY DEF Serving, GoodRequests, GoodRequest, Load, Running
<1>2. /\ Running(i) /\ Now(i).do \in FileOps /\ Free(i, FileOf(Now(i)))
      /\ UNCHANGED <<disk, memory, journal, focus, faults, lastWriter, cut, spared, excuses>>
    BY DEF Load
<1>3. request[i].at \in DOMAIN request[i].prog.ops
    BY <1>2, AtOperation
<1>4. /\ Becomes(i, request'[i])
      /\ Follows(request[i], request'[i], "mid", request[i].at, mid, request[i].failed, request[i].answer)
  <2>1. request' = [request EXCEPT ![i].stage = "mid", ![i].mid = mid]
      BY DEF Load
  <2> HIDE DEF mid
  <2> QED
      BY <2>1, Pauses
<1>5. GoodRequest(request'[i])
    BY <1>1, <1>3, <1>4, FollowsGood
<1>6. request'[i].prog.ops[request'[i].at] = Now(i)
    BY <1>4 DEF Follows, Now
<1>7. UsersInv'
  <2>1. ASSUME Amid(request'[i], UsersOps)
        PROVE  mid = disk.users /\ NobodyAmid(UsersOps)
    <3>1. Inside(i) /\ Now(i).do \in UsersOps
        BY <1>4, <1>6, <2>1 DEF Amid, Follows, Inside
    <3>2. FileOf(Now(i)) = "users"
        BY <3>1, <1>2, Kinds
    <3>3. ~Locked("users")
        BY <3>1, <3>2, <1>2 DEF Free
    <3>4. NobodyAmid(UsersOps)
        BY <3>3, Kinds DEF NobodyAmid, Amid, Locked, Serving, Inside, Now
    <3> QED
        BY <3>2, <3>4
  <2>2. AtMostOne(UsersOps)'
      BY <1>4, <2>1 DEF UsersInv, AtMostOne, NobodyAmid, Becomes
  <2>3. RefusedStaysOut'
      BY <1>2 DEF UsersInv, RefusedStaysOut, CutStaysCut, NoTokenForRefused
  <2>4. ASSUME "crossed" \notin excuses
        PROVE  /\ UsersTyped(disk.users)
               /\ \A j \in DOMAIN request' : Amid(request'[j], UsersOps) =>
                    request'[j].mid = disk.users \/ lastWriter = "cli"
    <3>1. UsersTyped(disk.users)
        BY <2>4 DEF UsersInv
    <3>2. request'[i].mid = mid
        BY <1>4 DEF Follows
    <3> HIDE DEF mid
    <3> QED
        BY <3>1, <3>2, <1>4, <2>1, <2>4 DEF UsersInv, Becomes
  <2> QED
      BY <1>2, <2>2, <2>3, <2>4 DEF UsersInv
<1>8. ~Amid(request'[i], {"WritePolicy"}) /\ ~Amid(request'[i], SwitchOps)
    BY <1>2, <1>6, Kinds DEF Amid
<1>9. UsersAlone /\ PoliciesAlone /\ BackendAlone /\ JournalAlone(i)
    BY <1>1, <1>2, <1>4 DEF UsersAlone, PoliciesAlone, BackendAlone, JournalAlone, Follows
<1> QED
    BY <1>1, <1>2, <1>4, <1>5, <1>7, <1>8, <1>9 DEF Advances, Follows, WellFormed

\* The users after a write of what was read, if nobody else wrote in between.
LEMMA UsersAfter ==
    ASSUME RefusedStaysOut, UsersTyped(disk.users), "crossed" \notin excuses,
           NEW op, op.do \in UsersOps, NEW i, NEW to, NEW T, NEW C, NEW S,
           Edited(op, disk.users).ok, to = Edited(op, disk.users).to,
           \/ T = TokensAfter(op, i) /\ S = spared
           \/ T = disk.tokens /\ S = spared \cup {op.name} /\ op.do \in {"Disable", "RemoveUser"},
           C = Cut(op)
    PROVE  /\ \A u \in C \cap DOMAIN to : to[u].disabled
           /\ \A t \in T : \/ t.user \in DOMAIN to /\ ~to[t.user].disabled
                           \/ t.user \in S
<1> DEFINE us == disk.users
           n == op.name
<1>1. /\ UsersTyped(to) /\ Elsewhere(us, to, n)
      /\ op.do = "AddUser" => n \notin DOMAIN us /\ n \in DOMAIN to /\ to[n].disabled = FALSE
      /\ op.do \in {"SetRole", "SetPolicies", "SetPassword"} =>
           n \in DOMAIN us /\ n \in DOMAIN to /\ to[n].disabled = us[n].disabled
      /\ op.do = "Disable" => n \in DOMAIN to /\ to[n].disabled = TRUE
      /\ op.do = "Enable" => n \in DOMAIN to /\ to[n].disabled = FALSE
      /\ op.do = "RemoveUser" => n \notin DOMAIN to
      /\ op.do = "CreateToken" => to = us /\ n \in DOMAIN us /\ us[n].disabled = FALSE
    BY UserIsEdited, ZenonT(60)
<1>2. /\ \A u \in cut \cap DOMAIN us : us[u].disabled
      /\ \A t \in disk.tokens : (t.user \in DOMAIN us /\ ~us[t.user].disabled) \/ t.user \in spared
    BY DEF RefusedStaysOut, CutStaysCut, NoTokenForRefused
<1> HIDE DEF us
<1>3. \A u : u # n /\ u \in C => u \in cut
    BY DEF Cut
<1>4. ASSUME NEW u \in C \cap DOMAIN to PROVE to[u].disabled
  <2>1. CASE u # n
      BY <1>1, <1>2, <1>3, <1>4, <2>1 DEF Elsewhere
  <2>2. CASE u = n
    <3>1. op.do \notin {"Enable", "AddUser"}
        BY <1>4, <2>2 DEF Cut
    <3>2. CASE op.do = "Disable"
        BY <1>1, <2>2, <3>2
    <3>3. CASE op.do = "RemoveUser"
        BY <1>1, <1>4, <2>2, <3>3
    <3>4. CASE op.do \in {"SetRole", "SetPolicies", "SetPassword", "CreateToken"}
      <4>1. n \in cut
          BY <1>4, <2>2, <3>4 DEF Cut
      <4>2. n \in DOMAIN us /\ to[n].disabled = us[n].disabled
          BY <1>1, <3>4
      <4> QED
          BY <4>1, <4>2, <1>2, <2>2
    <3> QED
        BY <3>1, <3>2, <3>3, <3>4 DEF UsersOps
  <2> QED
      BY <2>1, <2>2
<1>5. ASSUME NEW t \in T, t.user \notin S PROVE t.user \in DOMAIN to /\ ~to[t.user].disabled
  <2>0. spared \subseteq S
      OBVIOUS
  <2>1. CASE t.user # n
    <3>1. t \in disk.tokens
        BY <1>5, <2>1 DEF TokensAfter, revokeUserTokens
    <3> QED
        BY <3>1, <1>1, <1>2, <1>5, <2>0, <2>1 DEF Elsewhere
  <2>2. CASE t.user = n
    <3>1. op.do \notin {"Disable", "RemoveUser"}
        BY <1>5, <2>2 DEF TokensAfter, revokeUserTokens, TokensOf
    <3>2. CASE op.do \in {"AddUser", "Enable"}
        BY <1>1, <2>2, <3>2
    <3>3. CASE op.do = "CreateToken"
        BY <1>1, <2>2, <3>3
    <3>4. CASE op.do \in {"SetRole", "SetPolicies", "SetPassword"}
      <4>1. t \in disk.tokens
          BY <1>5, <3>4 DEF TokensAfter
      <4> QED
          BY <4>1, <1>1, <1>2, <1>5, <2>0, <2>2, <3>4
    <3> QED
        BY <3>1, <3>2, <3>3, <3>4 DEF UsersOps
  <2> QED
      BY <2>1, <2>2
<1> QED
    BY <1>4, <1>5

\* A write of users.yaml by request i, which then stops or goes on.
LEMMA UsersWritten ==
    ASSUME WellFormed, GoodRequests, UsersInv, NEW i \in Serving, request[i].stage = "mid", Now(i).do \in UsersOps,
           Becomes(i, request'[i]), Stops(request'[i]),
           Edited(Now(i), request[i].mid).ok,
           disk'.users = IF Now(i).do = "CreateToken" THEN disk.users ELSE Edited(Now(i), request[i].mid).to,
           \/ disk'.tokens = TokensAfter(Now(i), i) /\ spared' = spared
           \/ /\ disk'.tokens = disk.tokens /\ spared' = spared \cup {Now(i).name}
              /\ Now(i).do \in {"Disable", "RemoveUser"},
           cut' = Cut(Now(i)),
           lastWriter' = IF Now(i).do # "CreateToken" THEN IF Inside(i) THEN "server" ELSE "cli" ELSE lastWriter,
           excuses' = IF Overlapped(i) THEN excuses \cup {"crossed"} ELSE excuses
    PROVE  UsersInv'
<1> DEFINE op == Now(i)
           to == Edited(op, request[i].mid).to
<1>1. i \in DOMAIN request /\ ~Amid(request'[i], UsersOps)
    BY DEF Serving, Stops, Amid
<1>2. AtMostOne(UsersOps)'
    BY <1>1, OthersStay DEF UsersInv, AtMostOne, SameAmid
<1>3. ASSUME "crossed" \notin excuses'
      PROVE  /\ \A u \in cut' \cap DOMAIN disk'.users : disk'.users[u].disabled
             /\ \A t \in disk'.tokens : \/ t.user \in DOMAIN disk'.users /\ ~disk'.users[t.user].disabled
                                        \/ t.user \in spared'
             /\ UsersTyped(disk'.users)
             /\ \A j \in DOMAIN request' :
                  Amid(request'[j], UsersOps) => request'[j].mid = disk'.users \/ lastWriter' = "cli"
  <2>1. "crossed" \notin excuses /\ ~Overlapped(i)
      BY <1>3
  <2>2. FileOf(op) = "users"
      BY Kinds
  <2>3. request[i].mid = disk.users
    <3>1. CASE Inside(i)
      <4>1. Amid(request[i], UsersOps)
          BY <3>1 DEF Amid, Inside, Now
      <4> QED
          BY <4>1, <3>1, <1>1, <2>1, <2>2 DEF UsersInv, Overlapped
    <3>2. CASE ~Inside(i)
        BY <3>2, <2>1, <2>2 DEF Overlapped
    <3> QED
        BY <3>1, <3>2
  <2>4. UsersTyped(disk.users) /\ RefusedStaysOut
      BY <2>1 DEF UsersInv
  <2>5. /\ Edited(op, disk.users).ok /\ to = Edited(op, disk.users).to
      BY <2>3
  <2> HIDE DEF to, op
  <2>6. op.do \in UsersOps /\ op = Now(i)
      BY DEF op
  <2>7. UsersTyped(to) /\ (op.do = "CreateToken" => to = disk.users)
      BY <2>4, <2>5, <2>6, UserIsEdited
  <2>8. disk'.users = to
      BY <2>7 DEF op, to
  <2>9. /\ \A u \in cut' \cap DOMAIN to : to[u].disabled
        /\ \A t \in disk'.tokens : \/ t.user \in DOMAIN to /\ ~to[t.user].disabled
                                   \/ t.user \in spared'
    <3> DEFINE T == disk'.tokens
               S == spared'
               C == cut'
    <3>1. \/ T = TokensAfter(op, i) /\ S = spared
          \/ T = disk.tokens /\ S = spared \cup {op.name} /\ op.do \in {"Disable", "RemoveUser"}
        BY <2>6
    <3>2. C = Cut(op)
        BY <2>6
    <3> HIDE DEF T, S, C
    <3>3. /\ \A u \in C \cap DOMAIN to : to[u].disabled
          /\ \A t \in T : \/ t.user \in DOMAIN to /\ ~to[t.user].disabled
                          \/ t.user \in S
        BY SMTT(30), <3>1, <3>2, <2>1, <2>4, <2>5, <2>6, UsersAfter
    <3> QED
        BY <3>3 DEF T, S, C
  <2>10. ASSUME NEW j \in DOMAIN request', Amid(request'[j], UsersOps)
         PROVE  request'[j].mid = disk'.users \/ lastWriter' = "cli"
    <3>1. j \in DOMAIN request /\ j # i /\ Amid(request[j], UsersOps) /\ request'[j] = request[j]
        BY <2>10, <1>1 DEF Becomes
    <3>2. ~Inside(i)
        BY <3>1, <1>1, <2>6 DEF UsersInv, AtMostOne, Amid, Inside, Now
    <3>3. CASE op.do = "CreateToken"
        BY <3>1, <3>3, <2>1, <2>6, <2>7, <2>8 DEF UsersInv
    <3>4. CASE op.do # "CreateToken"
        BY <3>2, <3>4, <2>6
    <3> QED
        BY <3>3, <3>4
  <2> QED
      BY <2>7, <2>8, <2>9, <2>10
<1>4. RefusedStaysOut'
    BY <1>3 DEF RefusedStaysOut, CutStaysCut, NoTokenForRefused
<1> QED
    BY <1>2, <1>3, <1>4 DEF UsersInv

LEMMA SaveStep ==
    ASSUME WellFormed, GoodRequests, UsersInv, NEW i \in Serving, Save(i)
    PROVE  /\ Advances(i) /\ UsersInv' /\ PoliciesAlone /\ BackendAlone /\ JournalAlone(i)
           /\ Stops(request'[i]) /\ ~Amid(request[i], {"WritePolicy"}) /\ ~Amid(request[i], SwitchOps)
<1> DEFINE op == Now(i)
           out == Edited(op, request[i].mid)
           file == FileOf(op)
<1>1. /\ i \in DOMAIN request /\ request[i].stage = "mid" /\ op.do \in FileOps
      /\ Onward(i, out.ok, "auth.login")
      /\ UNCHANGED <<memory, focus, faults, spared>>
      /\ excuses' = IF out.ok /\ Overlapped(i) THEN excuses \cup {"crossed"} ELSE excuses
    BY DEF Save, Serving
<1>2. out.ok \in BOOLEAN
    BY <1>1, EditIsTold
<1>3. disk' = IF out.ok THEN [disk EXCEPT ![file] = IF op.do = "CreateToken" THEN @ ELSE out.to,
                                          !.tokens = TokensAfter(op, i)]
                        ELSE disk
    BY DEF Save
<1>4. /\ cut' = IF out.ok THEN Cut(op) ELSE cut
      /\ lastWriter' = IF out.ok /\ file = "users" /\ op.do # "CreateToken"
                       THEN IF Inside(i) THEN "server" ELSE "cli" ELSE lastWriter
    BY DEF Save
<1>5. file \in {"users", "acl", "hooks"} /\ (file = "users" <=> op.do \in UsersOps)
    BY <1>1, Kinds
<1>6. DOMAIN disk = DiskParts
    BY DEF WellFormed
<1>a. op = Now(i)
    OBVIOUS
<1>b. file # "users" => TokensAfter(op, i) = disk.tokens /\ Cut(op) = cut
    BY <1>5 DEF TokensAfter, Cut, UsersOps
<1>c. "unaudited" \in excuses => "unaudited" \in excuses'
    BY <1>1
<1>7. /\ Becomes(i, request'[i]) /\ GoodRequest(request'[i]) /\ request'[i].prog = request[i].prog
      /\ Stops(request'[i]) /\ JournalAlone(i)
  <2> DEFINE ok == out.ok
  <2>1. ok \in BOOLEAN /\ Onward(i, ok, "auth.login")
      BY <1>1, <1>2
  <2> HIDE DEF ok
  <2> QED
      BY <1>1, <1>c, <2>1, GoneOn
<1> HIDE DEF op, out, file
<1>8. /\ DOMAIN disk' = DiskParts /\ disk'.policies = disk.policies /\ disk'.backend = disk.backend
      /\ out.ok => /\ disk'.tokens = TokensAfter(op, i)
                   /\ file = "users" => disk'.users = IF op.do = "CreateToken" THEN disk.users ELSE out.to
                   /\ file # "users" => disk'.users = disk.users
    BY <1>3, <1>5, <1>6 DEF DiskParts
<1>9. PoliciesAlone /\ BackendAlone /\ Advances(i)
    BY <1>1, <1>7, <1>8 DEF PoliciesAlone, BackendAlone, Advances, WellFormed
<1>10. ~Amid(request[i], {"WritePolicy"}) /\ ~Amid(request[i], SwitchOps)
    BY <1>1, <1>a, Kinds DEF Amid, Now
<1>11. UsersInv'
  <2>1. CASE out.ok /\ file = "users"
    <3> USE DEF op, out
    <3>1. /\ disk'.tokens = TokensAfter(Now(i), i) /\ spared' = spared /\ cut' = Cut(Now(i))
          /\ disk'.users = IF Now(i).do = "CreateToken" THEN disk.users ELSE Edited(Now(i), request[i].mid).to
          /\ excuses' = IF Overlapped(i) THEN excuses \cup {"crossed"} ELSE excuses
          /\ lastWriter' = IF Now(i).do # "CreateToken" THEN IF Inside(i) THEN "server" ELSE "cli" ELSE lastWriter
        BY <2>1, <1>1, <1>4, <1>8
    <3>2. Now(i).do \in UsersOps /\ Edited(Now(i), request[i].mid).ok
        BY <2>1, <1>5
    <3> QED
        BY <3>1, <3>2, <1>1, <1>7, UsersWritten
  <2>2. CASE ~(out.ok /\ file = "users")
    <3>1. UsersAlone
      <4>1. excuses' = excuses
          BY <2>2, <1>1, <1>a DEF Overlapped, file
      <4>2. disk'.users = disk.users /\ disk'.tokens = disk.tokens /\ cut' = cut /\ lastWriter' = lastWriter
          BY <2>2, <1>2, <1>3, <1>4, <1>8, <1>b
      <4> QED
          BY <4>1, <4>2, <1>1 DEF UsersAlone
    <3>2. SameAmid(UsersOps)
      <4>1. ~Amid(request'[i], UsersOps)
          BY <1>7 DEF Stops, Amid
      <4> QED
          BY <4>1, <1>1, <1>7, OthersStay
    <3> QED
        BY <3>1, <3>2, UsersAloneKeep
  <2> QED
      BY <2>1, <2>2
<1> QED
    BY <1>7, <1>9, <1>10, <1>11

LEMMA SaveHalfStep ==
    ASSUME WellFormed, GoodRequests, UsersInv, NEW i \in Serving, SaveHalf(i)
    PROVE  /\ Advances(i) /\ UsersInv' /\ PoliciesAlone /\ BackendAlone /\ JournalAlone(i)
           /\ Stops(request'[i]) /\ ~Amid(request[i], {"WritePolicy"}) /\ ~Amid(request[i], SwitchOps)
<1>1. /\ i \in DOMAIN request /\ request[i].stage = "mid" /\ Now(i).do \in {"Disable", "RemoveUser"}
      /\ \E told \in BOOLEAN : Onward(i, ~told, "")
      /\ UNCHANGED <<memory, focus>>
      /\ Edited(Now(i), request[i].mid).ok
      /\ disk' = [disk EXCEPT !.users = Edited(Now(i), request[i].mid).to]
      /\ cut' = Cut(Now(i)) /\ spared' = spared \cup {Now(i).name}
      /\ lastWriter' = IF Inside(i) THEN "server" ELSE "cli"
      /\ excuses' = IF Overlapped(i) THEN excuses \cup {"crossed"} ELSE excuses
    BY DEF SaveHalf, Serving
<1>2. Now(i).do \in UsersOps /\ Now(i).do \in FileOps /\ Now(i).do # "CreateToken"
    BY <1>1 DEF UsersOps, FileOps
<1>3. /\ Becomes(i, request'[i]) /\ GoodRequest(request'[i]) /\ request'[i].prog = request[i].prog
      /\ Stops(request'[i]) /\ JournalAlone(i)
  <2>1. PICK told \in BOOLEAN : Onward(i, ~told, "")
      BY <1>1
  <2>2. (~told) \in BOOLEAN
      OBVIOUS
  <2>3. "unaudited" \in excuses => "unaudited" \in excuses'
      BY <1>1
  <2> DEFINE ok == ~told
  <2>4. ok \in BOOLEAN /\ Onward(i, ok, "")
      BY <2>1, <2>2
  <2> HIDE DEF ok
  <2> QED
      BY <2>3, <2>4, <1>1, GoneOn
<1>4. /\ DOMAIN disk' = DiskParts /\ disk'.policies = disk.policies /\ disk'.backend = disk.backend
      /\ disk'.users = Edited(Now(i), request[i].mid).to /\ disk'.tokens = disk.tokens
    BY <1>1 DEF WellFormed, DiskParts
<1>5. PoliciesAlone /\ BackendAlone /\ Advances(i)
    BY <1>1, <1>3, <1>4 DEF PoliciesAlone, BackendAlone, Advances, WellFormed
<1>6. ~Amid(request[i], {"WritePolicy"}) /\ ~Amid(request[i], SwitchOps)
    BY <1>2, Kinds DEF Amid, Now
<1>7. UsersInv'
    BY <1>1, <1>2, <1>3, <1>4, UsersWritten
<1> QED
    BY <1>3, <1>5, <1>6, <1>7

LEMMA WritePolicyStep ==
    ASSUME WellFormed, GoodRequests, EngineInv, NEW i \in Serving, WritePolicy(i)
    PROVE  /\ Advances(i) /\ UsersAlone /\ EngineInv' /\ BackendAlone /\ JournalAlone(i)
           /\ request[i].stage # "mid" /\ ~Amid(request'[i], UsersOps) /\ ~Amid(request'[i], SwitchOps)
<1> DEFINE after == With(disk.policies, Now(i).name, <<Rule(<<>>, "all", Now(i).to)>>)
<1>1. /\ i \in DOMAIN request /\ GoodRequest(request[i]) /\ request[i].stage = "run"
      /\ request[i].at \in Nat \ {0} /\ request[i].answer = "none"
      /\ request[i].failed \subseteq Forgiven(request[i].prog.via)
    BY DEF Serving, GoodRequests, GoodRequest, WritePolicy, Running
<1>2. /\ Running(i) /\ Now(i).do = "WritePolicy"
      /\ UNCHANGED <<memory, journal, focus, faults, lastWriter, cut, spared>>
      /\ disk' = [disk EXCEPT !.policies = after]
      /\ request' = [request EXCEPT ![i].stage = "mid", ![i].mid = after]
    BY DEF WritePolicy
<1>3. excuses' = IF ~Inside(i) THEN excuses \cup {"foreign"}
                 ELSE IF \E j \in Serving \ {i} : Inside(j) /\ request[j].stage = "mid" /\ Now(j).do = "WritePolicy"
                      THEN excuses \cup {"overlapped"} ELSE excuses
    BY DEF WritePolicy
<1> HIDE DEF after
<1>4. request[i].at \in DOMAIN request[i].prog.ops
    BY <1>2, AtOperation
<1>5. /\ Becomes(i, request'[i])
      /\ Follows(request[i], request'[i], "mid", request[i].at, after, request[i].failed, request[i].answer)
    BY <1>2, Pauses
<1>6. GoodRequest(request'[i])
    BY <1>1, <1>4, <1>5, FollowsGood
<1>7. request'[i].prog.ops[request'[i].at] = Now(i)
    BY <1>5 DEF Follows, Now
<1>8. /\ DOMAIN disk' = DiskParts /\ disk'.users = disk.users /\ disk'.tokens = disk.tokens
      /\ disk'.policies = after /\ disk'.backend = disk.backend
    BY <1>2 DEF WellFormed, DiskParts
<1>9. UsersAlone /\ BackendAlone /\ JournalAlone(i)
    BY <1>1, <1>2, <1>3, <1>5, <1>8 DEF UsersAlone, BackendAlone, JournalAlone, Follows
<1>10. ~Amid(request'[i], UsersOps) /\ ~Amid(request'[i], SwitchOps)
    BY <1>2, <1>7, Kinds DEF Amid
<1>11. EngineInv'
  <2> SUFFICES ASSUME excuses' \cap {"foreign", "overlapped", "unread"} = {}
               PROVE  /\ AtMostOne({"WritePolicy"})'
                      /\ \A j \in DOMAIN request' : Amid(request'[j], {"WritePolicy"}) => request'[j].mid = disk'.policies
                      /\ NobodyAmid({"WritePolicy"})' => memory'.engine = disk'.policies
      BY DEF EngineInv
  <2>1. /\ Inside(i)
        /\ ~\E j \in Serving \ {i} : Inside(j) /\ request[j].stage = "mid" /\ Now(j).do = "WritePolicy"
      BY <1>3
  <2>2. \A j \in DOMAIN request : j # i => ~Amid(request[j], {"WritePolicy"})
      BY <2>1 DEF Serving, Amid, Inside, Now
  <2>3. \A j \in DOMAIN request' : j # i => ~Amid(request'[j], {"WritePolicy"})
      BY <2>2, <1>5 DEF Becomes
  <2>4. Amid(request'[i], {"WritePolicy"}) /\ request'[i].mid = disk'.policies
      BY <2>1, <1>2, <1>5, <1>7, <1>8 DEF Amid, Follows, Inside
  <2> QED
      BY <2>3, <2>4, <1>1, <1>5 DEF AtMostOne, NobodyAmid, Becomes
<1> QED
    BY <1>1, <1>2, <1>5, <1>6, <1>8, <1>9, <1>10, <1>11 DEF Advances, Follows, WellFormed

LEMMA ReloadStep ==
    ASSUME WellFormed, GoodRequests, EngineInv, NEW i \in Serving, Reload(i)
    PROVE  /\ Advances(i) /\ UsersAlone /\ EngineInv' /\ BackendAlone /\ JournalAlone(i)
           /\ Stops(request'[i]) /\ ~Amid(request[i], UsersOps) /\ ~Amid(request[i], SwitchOps)
<1>1. /\ i \in DOMAIN request /\ request[i].stage = "mid" /\ Now(i).do = "WritePolicy"
      /\ UNCHANGED <<disk, focus, lastWriter, cut, spared>>
    BY DEF Reload, Serving
<1>2. \/ /\ memory' = IF Inside(i) THEN [memory EXCEPT !.engine = request[i].mid] ELSE memory
         /\ Onward(i, TRUE, "") /\ UNCHANGED <<faults, excuses>>
      \/ /\ excuses' = excuses \cup {"unread"}
         /\ Onward(i, FALSE, "") /\ UNCHANGED memory
    BY DEF Reload
<1>3. "unaudited" \in excuses => "unaudited" \in excuses'
    BY <1>2
<1>4. /\ Becomes(i, request'[i]) /\ GoodRequest(request'[i]) /\ request'[i].prog = request[i].prog
      /\ Stops(request'[i]) /\ JournalAlone(i)
  <2>1. PICK ok \in BOOLEAN : Onward(i, ok, "")
      BY <1>2
  <2> QED
      BY <2>1, <1>1, <1>3, GoneOn
<1>5. DOMAIN memory' = MemoryParts /\ memory'.backend = memory.backend
    BY <1>2 DEF WellFormed, MemoryParts
<1>6. UsersAlone /\ BackendAlone
    BY <1>1, <1>2, <1>5 DEF UsersAlone, BackendAlone
<1>7. ~Amid(request[i], UsersOps) /\ ~Amid(request[i], SwitchOps)
    BY <1>1, Kinds DEF Amid, Now
<1>8. /\ ~Amid(request'[i], {"WritePolicy"}) /\ SameAmid({"WritePolicy"})
      /\ \A j \in DOMAIN request : j # i /\ Amid(request[j], {"WritePolicy"}) =>
           j \in DOMAIN request' /\ Amid(request'[j], {"WritePolicy"})
  <2>1. ~Amid(request'[i], {"WritePolicy"})
      BY <1>4 DEF Stops, Amid
  <2> QED
      BY <2>1, <1>1, <1>4, OthersStay
<1>9. EngineInv'
  <2> SUFFICES ASSUME excuses' \cap {"foreign", "overlapped", "unread"} = {}
               PROVE  /\ AtMostOne({"WritePolicy"})'
                      /\ \A j \in DOMAIN request' : Amid(request'[j], {"WritePolicy"}) => request'[j].mid = disk'.policies
                      /\ NobodyAmid({"WritePolicy"})' => memory'.engine = disk'.policies
      BY DEF EngineInv
  <2>1. /\ excuses \cap {"foreign", "overlapped", "unread"} = {}
        /\ memory' = IF Inside(i) THEN [memory EXCEPT !.engine = request[i].mid] ELSE memory
      BY <1>2
  <2>2. /\ AtMostOne({"WritePolicy"})
        /\ \A j \in DOMAIN request : Amid(request[j], {"WritePolicy"}) => request[j].mid = disk.policies
        /\ NobodyAmid({"WritePolicy"}) => memory.engine = disk.policies
      BY <2>1 DEF EngineInv
  <2>3. AtMostOne({"WritePolicy"})'
      BY <1>8, <2>2 DEF AtMostOne, SameAmid
  <2>4. \A j \in DOMAIN request' : Amid(request'[j], {"WritePolicy"}) => request'[j].mid = disk'.policies
      BY <1>1, <1>8, <2>2 DEF SameAmid
  <2>5. ASSUME NobodyAmid({"WritePolicy"})' PROVE memory'.engine = disk'.policies
    <3>1. CASE Inside(i)
      <4>1. Amid(request[i], {"WritePolicy"})
          BY <3>1, <1>1 DEF Amid, Inside, Now
      <4>2. memory'.engine = request[i].mid
          BY <3>1, <2>1 DEF WellFormed, MemoryParts
      <4> QED
          BY <4>1, <4>2, <1>1, <2>2
    <3>2. CASE ~Inside(i)
      <4>1. NobodyAmid({"WritePolicy"})
          BY <3>2, <2>5, <1>8 DEF NobodyAmid, Amid, Inside
      <4> QED
          BY <4>1, <3>2, <1>1, <2>1, <2>2
    <3> QED
        BY <3>1, <3>2
  <2> QED
      BY <2>3, <2>4, <2>5
<1> QED
    BY <1>1, <1>4, <1>5, <1>6, <1>7, <1>9 DEF Advances, WellFormed

LEMMA SwitchStep ==
    ASSUME WellFormed, GoodRequests, BackendInv, NEW i \in Serving, Switch(i)
    PROVE  /\ Advances(i) /\ UsersAlone /\ PoliciesAlone /\ BackendInv' /\ JournalAlone(i)
           /\ request[i].stage # "mid" /\ ~Amid(request'[i], UsersOps) /\ ~Amid(request'[i], {"WritePolicy"})
<1>1. /\ i \in DOMAIN request /\ GoodRequest(request[i]) /\ request[i].stage = "run"
      /\ request[i].at \in Nat \ {0} /\ request[i].answer = "none"
      /\ request[i].failed \subseteq Forgiven(request[i].prog.via)
    BY DEF Serving, GoodRequests, GoodRequest, Switch, Running
<1>2. /\ Running(i) /\ Now(i).do \in SwitchOps
      /\ UNCHANGED <<disk, focus, faults, lastWriter, cut, spared>>
    BY DEF Switch, SwitchOps
<1>3. request[i].at \in DOMAIN request[i].prog.ops /\ request[i].prog.via # "cli"
    BY <1>2, AtOperation DEF GoodOp
<1>4. CASE Now(i).do = "migrateAllSpaces" /\ memory.backend = Now(i).name
  <2>1. Onward(i, FALSE, "") /\ UNCHANGED <<memory, excuses>>
      BY <1>4 DEF Switch
  <2>2. /\ Becomes(i, request'[i]) /\ GoodRequest(request'[i]) /\ request'[i].prog = request[i].prog
        /\ Stops(request'[i]) /\ JournalAlone(i)
      BY <2>1, <1>2, GoneOn
  <2>3. UsersAlone /\ PoliciesAlone /\ BackendAlone
      BY <2>1, <1>2 DEF UsersAlone, PoliciesAlone, BackendAlone
  <2>4. \A ops : ~Amid(request'[i], ops) /\ ~Amid(request[i], ops)
      BY <2>2, <1>1 DEF Stops, Amid
  <2>5. BackendInv'
      BY <2>2, <2>3, <2>4, <1>1, OthersStay, BackendAloneKeeps
  <2> QED
      BY <2>1, <2>2, <2>3, <2>4, <2>5, <1>1, <1>2 DEF Advances, WellFormed
<1>5. CASE ~(Now(i).do = "migrateAllSpaces" /\ memory.backend = Now(i).name)
  <2> DEFINE mid == <<Now(i).name>>
  <2>1. /\ memory' = [memory EXCEPT !.backend = Now(i).name]
        /\ request' = [request EXCEPT ![i].stage = "mid", ![i].mid = mid]
        /\ excuses' = IF \E j \in Serving \ {i} : request[j].stage = "mid"
                      THEN excuses \cup {"overlapped"} ELSE excuses
        /\ UNCHANGED journal
      BY <1>5 DEF Switch
  <2>2. /\ DOMAIN memory' = MemoryParts /\ memory'.engine = memory.engine
        /\ memory'.backend = Now(i).name /\ mid = <<memory'.backend>>
      BY <2>1 DEF WellFormed, MemoryParts
  <2> HIDE DEF mid
  <2>3. /\ Becomes(i, request'[i])
        /\ Follows(request[i], request'[i], "mid", request[i].at, mid, request[i].failed, request[i].answer)
      BY <2>1, Pauses
  <2>4. GoodRequest(request'[i])
      BY <1>1, <1>3, <2>3, FollowsGood
  <2>5. request'[i].prog.ops[request'[i].at] = Now(i)
      BY <2>3 DEF Follows, Now
  <2>6. UsersAlone /\ PoliciesAlone /\ JournalAlone(i)
      BY <1>1, <1>2, <2>1, <2>2, <2>3 DEF UsersAlone, PoliciesAlone, JournalAlone, Follows
  <2>7. ~Amid(request'[i], UsersOps) /\ ~Amid(request'[i], {"WritePolicy"})
      BY <1>2, <2>5, Kinds DEF Amid
  <2>8. BackendInv'
    <3> SUFFICES ASSUME excuses' \cap {"overlapped", "unsaved"} = {}
                 PROVE  /\ AtMostOne(SwitchOps)'
                        /\ \A j \in DOMAIN request' : Amid(request'[j], SwitchOps) => request'[j].mid = <<memory'.backend>>
                        /\ NobodyAmid(SwitchOps)' => memory'.backend = disk'.backend
        BY DEF BackendInv
    <3>1. ~\E j \in Serving \ {i} : request[j].stage = "mid"
        BY <2>1
    <3>2. \A j \in DOMAIN request : j # i => ~Amid(request[j], SwitchOps)
        BY <3>1 DEF Serving, Amid
    <3>3. \A j \in DOMAIN request' : j # i => ~Amid(request'[j], SwitchOps)
        BY <3>2, <2>3 DEF Becomes
    <3>4. Amid(request'[i], SwitchOps) /\ request'[i].mid = <<memory'.backend>>
        BY <1>2, <1>3, <2>2, <2>3, <2>5 DEF Amid, Follows
    <3> QED
        BY <3>3, <3>4, <1>1, <2>3 DEF AtMostOne, NobodyAmid, Becomes
  <2> QED
      BY <1>1, <1>2, <2>2, <2>3, <2>4, <2>6, <2>7, <2>8 DEF Advances, Follows, WellFormed
<1> QED
    BY <1>4, <1>5

LEMMA SaveServerStep ==
    ASSUME WellFormed, GoodRequests, BackendInv, NEW i \in Serving, SaveServer(i)
    PROVE  /\ Advances(i) /\ UsersAlone /\ PoliciesAlone /\ BackendInv' /\ JournalAlone(i)
           /\ Stops(request'[i]) /\ ~Amid(request[i], UsersOps) /\ ~Amid(request[i], {"WritePolicy"})
<1>1. /\ i \in DOMAIN request /\ request[i].stage = "mid" /\ Now(i).do \in SwitchOps
      /\ UNCHANGED <<memory, focus, lastWriter, cut, spared>>
    BY DEF SaveServer, Serving, SwitchOps
<1>2. \/ /\ disk' = [disk EXCEPT !.backend = request[i].mid[1]]
         /\ Onward(i, TRUE, "") /\ UNCHANGED <<faults, excuses>>
      \/ /\ excuses' = excuses \cup {"unsaved"}
         /\ Onward(i, FALSE, "") /\ UNCHANGED disk
    BY DEF SaveServer
<1>3. "unaudited" \in excuses => "unaudited" \in excuses'
    BY <1>2
<1>4. /\ Becomes(i, request'[i]) /\ GoodRequest(request'[i]) /\ request'[i].prog = request[i].prog
      /\ Stops(request'[i]) /\ JournalAlone(i)
  <2>1. PICK ok \in BOOLEAN : Onward(i, ok, "")
      BY <1>2
  <2> QED
      BY <2>1, <1>1, <1>3, GoneOn
<1>5. /\ DOMAIN disk' = DiskParts /\ disk'.users = disk.users /\ disk'.tokens = disk.tokens
      /\ disk'.policies = disk.policies
    BY <1>2 DEF WellFormed, DiskParts
<1>6. UsersAlone /\ PoliciesAlone
    BY <1>1, <1>2, <1>5 DEF UsersAlone, PoliciesAlone
<1>7. ~Amid(request[i], UsersOps) /\ ~Amid(request[i], {"WritePolicy"})
    BY <1>1, Kinds DEF Amid, Now
<1>8. ~Amid(request'[i], SwitchOps) /\ SameAmid(SwitchOps)
  <2>1. ~Amid(request'[i], SwitchOps)
      BY <1>4 DEF Stops, Amid
  <2> QED
      BY <2>1, <1>1, <1>4, OthersStay
<1>9. BackendInv'
  <2> SUFFICES ASSUME excuses' \cap {"overlapped", "unsaved"} = {}
               PROVE  /\ AtMostOne(SwitchOps)'
                      /\ \A j \in DOMAIN request' : Amid(request'[j], SwitchOps) => request'[j].mid = <<memory'.backend>>
                      /\ NobodyAmid(SwitchOps)' => memory'.backend = disk'.backend
      BY DEF BackendInv
  <2>1. /\ excuses \cap {"overlapped", "unsaved"} = {}
        /\ disk' = [disk EXCEPT !.backend = request[i].mid[1]]
      BY <1>2
  <2>2. /\ AtMostOne(SwitchOps)
        /\ \A j \in DOMAIN request : Amid(request[j], SwitchOps) => request[j].mid = <<memory.backend>>
      BY <2>1 DEF BackendInv
  <2>3. Amid(request[i], SwitchOps)
    <3>1. request[i].prog.via # "cli"
        BY <1>1, AtOperation DEF GoodOp
    <3> QED
        BY <3>1, <1>1 DEF Amid, Now
  <2>4. request[i].mid[1] = memory.backend
    <3>1. request[i].mid = <<memory.backend>>
        BY <2>2, <2>3, <1>1
    <3> QED
        BY <3>1
  <2>5. disk'.backend = memory'.backend
      BY <2>1, <2>4, <1>1 DEF WellFormed, DiskParts
  <2>6. AtMostOne(SwitchOps)'
      BY <1>8, <2>2 DEF AtMostOne, SameAmid
  <2>7. \A j \in DOMAIN request' : Amid(request'[j], SwitchOps) => request'[j].mid = <<memory'.backend>>
      BY <1>1, <1>8, <2>2 DEF SameAmid
  <2> QED
      BY <2>5, <2>6, <2>7
<1> QED
    BY <1>1, <1>4, <1>5, <1>6, <1>7, <1>9 DEF Advances, WellFormed

ServerInv == WellFormed /\ GoodRequests /\ UsersInv /\ EngineInv /\ BackendInv /\ JournalInv

LEMMA ServerInitially == ServerInit => ServerInv
<1> SUFFICES ASSUME ServerInit PROVE ServerInv
    OBVIOUS
<1>1. request = <<>> /\ journal = {} /\ focus \in Family /\ cut = {} /\ spared = {} /\ excuses = {}
    BY DEF ServerInit
<1>2. /\ disk = [users |-> [u \in User |-> [policies |-> IF u = Admin THEN {"admin"} ELSE {"contributor"},
                                            disabled |-> FALSE, password |-> TRUE]],
                 tokens |-> {[id |-> u, user |-> u] : u \in User},
                 policies |-> BuiltinPolicies, acl |-> [u \in Anyone |-> <<>>], hooks |-> {"hook"},
                 spaces |-> {DefaultSpace}, backend |-> "local"]
      /\ memory = [engine |-> BuiltinPolicies, userACL |-> [u \in Anyone |-> <<>>], backend |-> "local"]
    BY DEF ServerInit
<1>3. /\ DOMAIN disk = DiskParts /\ DOMAIN memory = MemoryParts
      /\ disk.policies = memory.engine /\ disk.backend = memory.backend
    BY <1>2 DEF DiskParts, MemoryParts
<1>4. IsSequence(request) /\ DOMAIN request = {}
  <2>1. <<>> \in Seq({}) /\ DOMAIN <<>> = {}
      OBVIOUS
  <2> QED
      BY <2>1, <1>1 DEF IsSequence
<1>5. /\ DOMAIN disk.users = User
      /\ \A u \in User : DOMAIN disk.users[u] = {"policies", "disabled", "password"} /\ disk.users[u].disabled = FALSE
      /\ \A t \in disk.tokens : t.user \in User
    BY <1>2
<1>6. UsersTyped(disk.users) /\ RefusedStaysOut
    BY <1>1, <1>5 DEF UsersTyped, RefusedStaysOut, CutStaysCut, NoTokenForRefused
<1>7. WellFormed /\ GoodRequests
    BY <1>1, <1>3, <1>4 DEF WellFormed, GoodRequests
<1>8. UsersInv /\ EngineInv /\ BackendInv
    BY <1>3, <1>4, <1>6 DEF UsersInv, EngineInv, BackendInv, AtMostOne, NobodyAmid
<1>9. JournalInv
    BY <1>1, <1>4 DEF JournalInv, Recorded
<1> QED
    BY <1>7, <1>8, <1>9 DEF ServerInv

LEMMA ArriveStep ==
    ASSUME ServerInv, NEW prog \in RequestsOf(focus), NEW u, Arrive(prog, u)
    PROVE  ServerInv'
<1> DEFINE pols == IF u = "" THEN {} ELSE disk.users[u].policies
           r == [prog |-> prog, user |-> u, pols |-> pols, at |-> 1, stage |-> "check", mid |-> <<>>,
                 failed |-> {}, answer |-> "none"]
           new == Len(request) + 1
<1>1. /\ request' = Append(request, r)
      /\ UNCHANGED <<disk, memory, journal, focus, faults, lastWriter, cut, spared, excuses>>
    BY DEF Arrive
<1>2. GoodProgram(prog)
    BY GoodPrograms DEF ServerInv, WellFormed
<1> HIDE DEF pols
<1>3. GoodRequest(r) /\ r.stage = "check" /\ r.answer = "none"
    BY <1>2 DEF GoodRequest, Fields
<1> HIDE DEF r
<1>4. /\ IsSequence(request') /\ new \notin DOMAIN request /\ DOMAIN request' = DOMAIN request \cup {new}
      /\ \A i \in DOMAIN request : request'[i] = request[i]
      /\ request'[new] = r
    BY <1>1, Grown DEF ServerInv, WellFormed
<1> HIDE DEF new
<1>5. WellFormed' /\ GoodRequests'
    BY <1>1, <1>3, <1>4 DEF ServerInv, WellFormed, GoodRequests
<1>6. \A ops : SameAmid(ops) /\ StillAmid(ops)
    BY <1>3, <1>4 DEF SameAmid, StillAmid, Amid
<1>7. UsersAlone /\ PoliciesAlone /\ BackendAlone
    BY <1>1 DEF UsersAlone, PoliciesAlone, BackendAlone
<1>8. UsersInv' /\ EngineInv' /\ BackendInv'
    BY <1>6, <1>7, UsersAloneKeep, PoliciesAloneKeep, BackendAloneKeeps DEF ServerInv
<1>9. JournalInv'
  <2>1. ASSUME NEW e \in journal' PROVE Sound(e)'
    <3>1. Sound(e)
        BY <1>1, <2>1, JournalParts DEF ServerInv
    <3> QED
        BY <3>1, <1>4 DEF Sound
  <2>2. ASSUME NEW j \in DOMAIN request' PROVE Recall(j)'
    <3>1. CASE j \in DOMAIN request
      <4>1. Recall(j) /\ request'[j] = request[j]
          BY <3>1, <1>4, JournalParts DEF ServerInv
      <4> QED
          BY <4>1, <1>1 DEF Recall, Inside
    <3>2. CASE j = new
        BY <3>2, <1>3, <1>4 DEF Recall
    <3> QED
        BY <3>1, <3>2, <2>2, <1>4
  <2>3. JournalInv' <=> (\A e \in journal' : Sound(e)') /\ (\A j \in DOMAIN request' : Recall(j)')
      BY DEF JournalInv, Recorded, Recall, Sound
  <2> QED
      BY <2>1, <2>2, <2>3
<1> QED
    BY <1>5, <1>8, <1>9 DEF ServerInv

LEMMA RestartStep ==
    ASSUME ServerInv, Restart
    PROVE  ServerInv'
<1> DEFINE lost(r) == [r EXCEPT !.stage = "done", !.answer = "lost", !.mid = <<>>]
<1>1. /\ request' = [i \in DOMAIN request |->
                       IF i \in Serving /\ Inside(i) THEN lost(request[i]) ELSE request[i]]
      /\ memory' = [engine |-> disk.policies, userACL |-> disk.acl, backend |-> disk.backend]
      /\ excuses' = excuses \ {"foreign", "overlapped", "unread", "unsaved"}
      /\ UNCHANGED <<disk, journal, focus, lastWriter, cut, spared>>
    BY DEF Restart
<1>2. ASSUME NEW r, GoodRequest(r)
      PROVE  /\ Follows(r, lost(r), "done", r.at, <<>>, r.failed, "lost") /\ GoodRequest(lost(r))
  <2>1. DOMAIN r = Fields /\ r.at \in Nat \ {0}
      BY <1>2 DEF GoodRequest
  <2>2. Follows(r, lost(r), "done", r.at, <<>>, r.failed, "lost")
      BY <2>1 DEF Follows, Fields
  <2> HIDE DEF lost
  <2>3. GoodRequest(lost(r))
      BY <1>2, <2>1, <2>2, FollowsGood
  <2> QED
      BY <2>2, <2>3
<1> HIDE DEF lost
<1>3. DOMAIN request' = DOMAIN request /\ IsSequence(request')
  <2>1. DOMAIN request' = DOMAIN request
      BY <1>1
  <2>2. request' = [i \in DOMAIN request |-> request'[i]]
      BY <1>1
  <2> QED
      BY <2>1, <2>2, Replaced DEF ServerInv, WellFormed
<1>4. \A i \in DOMAIN request : GoodRequest(request[i])
    BY DEF ServerInv, GoodRequests
<1>5. ASSUME NEW i \in DOMAIN request
      PROVE  /\ GoodRequest(request'[i]) /\ request'[i].prog = request[i].prog /\ request'[i].failed = request[i].failed
             /\ request[i].stage = "done" => request'[i] = request[i]
             /\ request'[i].answer = "ok" => request'[i] = request[i]
             /\ request'[i].stage = "mid" => request[i].prog.via = "cli"
  <2>1. CASE i \in Serving /\ Inside(i)
    <3>1. request'[i] = lost(request[i])
        BY <1>1, <2>1
    <3>2. GoodRequest(request'[i]) /\ Follows(request[i], request'[i], "done", request[i].at, <<>>, request[i].failed, "lost")
        BY <1>2, <1>4, <3>1
    <3> QED
        BY <3>2, <2>1 DEF Follows, Serving
  <2>2. CASE ~(i \in Serving /\ Inside(i))
    <3>1. request'[i] = request[i]
        BY <1>1, <2>2
    <3> QED
        BY <3>1, <1>4, <2>2 DEF Serving, Inside
  <2> QED
      BY <2>1, <2>2
<1>6. \A ops : \A i \in DOMAIN request' : ~Amid(request'[i], ops)
    BY <1>3, <1>5 DEF Amid
<1>7. DOMAIN memory' = MemoryParts /\ memory'.engine = disk.policies /\ memory'.backend = disk.backend
    BY <1>1 DEF MemoryParts
<1>8. WellFormed' /\ GoodRequests'
    BY <1>1, <1>3, <1>5, <1>7 DEF ServerInv, WellFormed, GoodRequests
<1>9. UsersInv'
  <2>1. UsersAlone
      BY <1>1 DEF UsersAlone
  <2>2. SameAmid(UsersOps)
      BY <1>6 DEF SameAmid
  <2> QED
      BY <2>1, <2>2, UsersAloneKeep DEF ServerInv
<1>10. EngineInv' /\ BackendInv'
    BY <1>1, <1>6, <1>7 DEF EngineInv, BackendInv, AtMostOne
<1>11. JournalInv'
  <2>1. ASSUME NEW e \in journal' PROVE Sound(e)'
    <3>1. Sound(e)
        BY <1>1, <2>1, JournalParts DEF ServerInv
    <3> QED
        BY <3>1, <1>3, <1>5 DEF Sound
  <2>2. ASSUME NEW j \in DOMAIN request' PROVE Recall(j)'
    <3>1. Recall(j)
        BY <1>3, <2>2, JournalParts DEF ServerInv
    <3>2. "unaudited" \in excuses => "unaudited" \in excuses'
        BY <1>1
    <3> QED
        BY <3>1, <3>2, <1>1, <1>3, <1>5, <2>2 DEF Recall, Inside
  <2>3. JournalInv' <=> (\A e \in journal' : Sound(e)') /\ (\A j \in DOMAIN request' : Recall(j)')
      BY DEF JournalInv, Recorded, Recall, Sound
  <2> QED
      BY <2>1, <2>2, <2>3
<1> QED
    BY <1>8, <1>9, <1>10, <1>11 DEF ServerInv

\* A step of a request keeps what it leaves alone.
LEMMA AloneKeep ==
    ASSUME ServerInv, NEW i \in Serving, Advances(i)
    PROVE  /\ WellFormed' /\ GoodRequests'
           /\ UsersAlone /\ ~Amid(request'[i], UsersOps) => UsersInv'
           /\ PoliciesAlone /\ ~Amid(request[i], {"WritePolicy"}) /\ ~Amid(request'[i], {"WritePolicy"}) => EngineInv'
           /\ BackendAlone /\ ~Amid(request[i], SwitchOps) /\ ~Amid(request'[i], SwitchOps) => BackendInv'
           /\ JournalAlone(i) => JournalInv'
<1>1. i \in DOMAIN request /\ Becomes(i, request'[i])
    BY DEF Serving, Advances
<1>2. WellFormed' /\ GoodRequests'
    BY <1>1, AdvanceKeeps DEF ServerInv
<1>3. UsersAlone /\ ~Amid(request'[i], UsersOps) => UsersInv'
    BY <1>1, OthersStay, UsersAloneKeep DEF ServerInv
<1>4. PoliciesAlone /\ ~Amid(request[i], {"WritePolicy"}) /\ ~Amid(request'[i], {"WritePolicy"}) => EngineInv'
    BY <1>1, OthersStay, PoliciesAloneKeep DEF ServerInv
<1>5. BackendAlone /\ ~Amid(request[i], SwitchOps) /\ ~Amid(request'[i], SwitchOps) => BackendInv'
    BY <1>1, OthersStay, BackendAloneKeeps DEF ServerInv
<1>6. JournalAlone(i) => JournalInv'
    BY <1>1, JournalAloneKeeps DEF ServerInv
<1> QED
    BY <1>2, <1>3, <1>4, <1>5, <1>6

LEMMA RequestStep ==
    ASSUME ServerInv, NEW i \in Serving,
           \/ Check(i) \/ Act(i) \/ Load(i) \/ Save(i) \/ SaveHalf(i) \/ Fail(i)
           \/ WritePolicy(i) \/ Reload(i) \/ Switch(i) \/ SaveServer(i) \/ Finish(i)
    PROVE  ServerInv'
<1> USE DEF ServerInv
<1>0. /\ request[i].stage # "mid" => \A ops : ~Amid(request[i], ops)
      /\ Stops(request'[i]) => \A ops : ~Amid(request'[i], ops)
    BY DEF Stops, Amid
<1>1. CASE Check(i) \/ Act(i) \/ Fail(i)
  <2>1. Calm(i) /\ JournalAlone(i)
      BY <1>1, CheckStep, ActStep, FailStep
  <2> QED
      BY <2>1, <1>0, AloneKeep DEF Calm
<1>2. CASE Finish(i)
  <2>1. Calm(i) /\ JournalInv'
      BY <1>2, FinishStep
  <2> QED
      BY <2>1, <1>0, AloneKeep DEF Calm
<1>3. CASE Load(i)
    BY <1>3, <1>0, LoadStep, AloneKeep
<1>4. CASE Save(i)
    BY <1>4, <1>0, SaveStep, AloneKeep
<1>5. CASE SaveHalf(i)
    BY <1>5, <1>0, SaveHalfStep, AloneKeep
<1>6. CASE WritePolicy(i)
    BY <1>6, <1>0, WritePolicyStep, AloneKeep
<1>7. CASE Reload(i)
    BY <1>7, <1>0, ReloadStep, AloneKeep
<1>8. CASE Switch(i)
    BY <1>8, <1>0, SwitchStep, AloneKeep
<1>9. CASE SaveServer(i)
    BY <1>9, <1>0, SaveServerStep, AloneKeep
<1> QED
    BY <1>1, <1>2, <1>3, <1>4, <1>5, <1>6, <1>7, <1>8, <1>9

LEMMA ServerStays == ServerInv /\ [ServerNext]_serverVars => ServerInv'
<1> SUFFICES ASSUME ServerInv, [ServerNext]_serverVars PROVE ServerInv'
    OBVIOUS
<1>1. CASE \E prog \in RequestsOf(focus) : \E u \in Principals(prog) : Arrive(prog, u)
    BY <1>1, ArriveStep
<1>2. CASE \E i \in Serving : \/ Check(i) \/ Act(i) \/ Load(i) \/ Save(i) \/ SaveHalf(i) \/ Fail(i)
                              \/ WritePolicy(i) \/ Reload(i) \/ Switch(i) \/ SaveServer(i) \/ Finish(i)
    BY <1>2, RequestStep
<1>3. CASE Restart
    BY <1>3, RestartStep
<1>4. CASE UNCHANGED serverVars
    BY <1>4 DEF serverVars, ServerInv, WellFormed, GoodRequests, UsersInv, EngineInv, BackendInv, JournalInv,
                AtMostOne, NobodyAmid, RefusedStaysOut, CutStaysCut, NoTokenForRefused, Recorded, Inside
<1> QED
    BY <1>1, <1>2, <1>3, <1>4 DEF ServerNext

LEMMA ServerAlways == ServerSpec => []ServerInv
BY ServerInitially, ServerStays, PTL DEF ServerSpec

\* A refused user stays out: whatever requests and commands run at the same time, no write
\* of users.yaml brings back a user whose refusal was acknowledged, and no token outlives
\* the refusal, unless another process's write overlapped or the refusal failed halfway
\* (auth.Store, the handlers and commands that call it).
THEOREM RefusedUsersStayOut == ServerSpec => []RefusedStaysOut
<1>1. ServerInv => RefusedStaysOut
    BY DEF ServerInv, UsersInv
<1> QED
    BY <1>1, ServerAlways, PTL

\* The server works by what its data directory says (the policies, the backend), unless
\* two writes overlapped, one was not read or saved, or a command wrote a policy.
THEOREM ServerFollowsDisk == ServerSpec => []MemoryFollowsDisk
<1>1. ServerInv => MemoryFollowsDisk
  <2> SUFFICES ASSUME ServerInv PROVE EngineFollowsDisk /\ BackendAgrees
      BY DEF MemoryFollowsDisk
  <2>1. EngineFollowsDisk
      BY DEF ServerInv, EngineInv, EngineFollowsDisk, NobodyAmid, Amid, Serving, Now
  <2>2. BackendAgrees
      BY DEF ServerInv, BackendInv, BackendAgrees, NobodyAmid, Amid, Serving
  <2> QED
      BY <2>1, <2>2
<1> QED
    BY <1>1, ServerAlways, PTL

\* The audit log is true, for every handler there is: what it says succeeded did succeed,
\* every operation of it but those whose errors the handler drops, and every change that
\* was answered "ok" has its line, if the log could be written.
THEOREM JournalIsTrue == ServerSpec => []JournalTrue
<1>1. ServerInv => JournalTrue
    BY DEF ServerInv, JournalInv, JournalTrue, Announced, Forgiven
<1> QED
    BY <1>1, ServerAlways, PTL

-----------------------------------------------------------------------------
(* TokenCache: an answer is what the files said *)

CallStages == {"idle", "done", "stat", "read", "settle", "ustat", "uread"}
Calls == [stage : CallStages, mod : Int, wait : Nat,
          tokens : SUBSET BOOLEAN, users : SUBSET BOOLEAN, found : BOOLEAN, enabled : BOOLEAN]
CredentialTyped ==
    /\ tick \in Nat
    /\ token \in [there : BOOLEAN, mod : Int] /\ usersFile \in [enabled : BOOLEAN, mod : Int]
    /\ tokenCache \in [scanned : BOOLEAN, known : BOOLEAN, mod : Int, uncertain : BOOLEAN]
    /\ usersCache \in [loaded : BOOLEAN, enabled : BOOLEAN, mod : Int]
    /\ call \in [Caller -> Calls] /\ twice \in BOOLEAN

\* Stamps are of the past, and a call has remembered what the files say now.
StampsOld == token.mod <= Clock /\ usersFile.mod <= Clock
Remembers ==
    \A c \in Caller :
      /\ call[c].stage \in {"stat", "read", "settle"} => token.there \in call[c].tokens
      /\ call[c].stage \in {"stat", "read", "settle", "ustat", "uread"} => usersFile.enabled \in call[c].users

\* One call scans the directory at a time, in no more than the time allowed.
OneScan == \A c, d \in Caller : call[c].stage \in {"read", "settle"} /\ d # c => call[d].stage \notin {"read", "settle"}
\* What it read is what is there, if the stamp it took before was old enough to tell.
ScanGood ==
    \A c \in Caller :
      /\ call[c].stage \in {"read", "settle"} => call[c].wait <= SlowScan /\ call[c].mod <= tick - call[c].wait
      /\ call[c].stage = "settle" =>
           /\ tokenCache.known \in call[c].tokens
           /\ call[c].mod + Grain <= tick - call[c].wait /\ token.mod = call[c].mod => tokenCache.known = token.there

\* A cache that is trusted and has the directory's stamp has its contents.
TokenCacheGood ==
    tokenCache.scanned /\ ~tokenCache.uncertain =>
      /\ tokenCache.mod + Grain <= tick
      /\ token.mod = tokenCache.mod => tokenCache.known = token.there
UsersCacheGood ==
    /\ \A c \in Caller : call[c].stage = "uread" => call[c].mod <= usersFile.mod
    /\ usersCache.loaded => usersCache.mod <= usersFile.mod
    /\ ~twice /\ usersCache.loaded /\ usersCache.mod = usersFile.mod => usersCache.enabled = usersFile.enabled

CredentialInv ==
    /\ CredentialTyped /\ StampsOld /\ Remembers /\ OneScan /\ ScanGood /\ TokenCacheGood /\ UsersCacheGood
    /\ TokensFresh /\ UsersFresh

\* Stamps never go back.
LEMMA ClockFacts ==
    ASSUME NEW t \in Nat
    PROVE  /\ t - (t % Grain) \in Int /\ t - (t % Grain) <= t /\ t < t - (t % Grain) + Grain
           /\ t - (t % Grain) <= (t + 1) - ((t + 1) % Grain)
<1> DEFINE q == t \div Grain
           p == (t + 1) \div Grain
           r == t % Grain
           s == (t + 1) % Grain
<1>1. Grain \in Int /\ Grain > 0
    BY TokenCacheAssumption
<1>2. r \in 0..(Grain - 1) /\ s \in 0..(Grain - 1)
    BY <1>1
<1>3. q \in Int
    BY <1>1
<1>4. p \in Int
    BY <1>1
<1>5. t = Grain * q + r
    BY <1>1
<1>6. t + 1 = Grain * p + s
    BY <1>1
<1> HIDE DEF q, p, r, s
<1>7. q - p \in Int /\ s - r - 1 = Grain * (q - p)
    BY <1>1, <1>2, <1>3, <1>4, <1>5, <1>6
<1>8. q - p >= 1 => Grain * (q - p) >= Grain
    BY <1>1, <1>7
<1>9. q - p <= 0 => Grain * (q - p) <= 0
    BY <1>1, <1>7
<1>10. s <= r + 1
    BY <1>1, <1>2, <1>7, <1>8, <1>9
<1>11. t - r \in Int /\ t - r <= t /\ t < t - r + Grain /\ t - r <= (t + 1) - s
    BY <1>1, <1>2, <1>10
<1> QED
    BY <1>11 DEF r, s

LEMMA StampFacts ==
    ASSUME tick \in Nat
    PROVE  Clock \in Int /\ Clock <= tick /\ tick < Clock + Grain
BY ClockFacts DEF Clock

\* What a change of the files adds to the calls.
LEMMA WitnessedFields ==
    ASSUME CredentialTyped, NEW there \in BOOLEAN, NEW enabled \in BOOLEAN,
           call' = Witnessed(there, enabled)
    PROVE  /\ call' \in [Caller -> Calls]
           /\ \A c \in Caller :
                /\ call'[c].stage = call[c].stage /\ call'[c].mod = call[c].mod /\ call'[c].wait = call[c].wait
                /\ call'[c].found = call[c].found /\ call'[c].enabled = call[c].enabled
                /\ call[c].tokens \subseteq call'[c].tokens /\ call[c].users \subseteq call'[c].users
                /\ call[c].stage \in {"stat", "read", "settle"} => there \in call'[c].tokens
                /\ call[c].stage \in {"stat", "read", "settle", "ustat", "uread"} => enabled \in call'[c].users
<1> DEFINE b(c) == [call[c] EXCEPT !.tokens = IF c \in Scanning THEN @ \cup {there} ELSE @,
                                   !.users = @ \cup {enabled}]
           a(c) == IF c \in Checking THEN b(c) ELSE call[c]
<1>1. call' = [c \in Caller |-> a(c)]
    BY DEF Witnessed
<1>2. ASSUME NEW c \in Caller
      PROVE  /\ a(c) \in Calls
             /\ a(c).stage = call[c].stage /\ a(c).mod = call[c].mod /\ a(c).wait = call[c].wait
             /\ a(c).found = call[c].found /\ a(c).enabled = call[c].enabled
             /\ call[c].tokens \subseteq a(c).tokens /\ call[c].users \subseteq a(c).users
             /\ call[c].stage \in {"stat", "read", "settle"} => there \in a(c).tokens
             /\ call[c].stage \in {"stat", "read", "settle", "ustat", "uread"} => enabled \in a(c).users
  <2>1. call[c] \in Calls
      BY DEF CredentialTyped
  <2>2. CASE c \notin Checking
      BY <2>1, <2>2 DEF Checking, Calls
  <2>3. CASE c \in Checking
    <3> DEFINE ts == IF c \in Scanning THEN call[c].tokens \cup {there} ELSE call[c].tokens
               us == call[c].users \cup {enabled}
    <3>1. a(c) = [call[c] EXCEPT !.tokens = ts, !.users = us]
        BY <2>1, <2>3 DEF Calls, CallStages
    <3>2. /\ ts \in SUBSET BOOLEAN /\ us \in SUBSET BOOLEAN
          /\ call[c].tokens \subseteq ts /\ call[c].users \subseteq us /\ enabled \in us
          /\ call[c].stage \in {"stat", "read", "settle"} => there \in ts
        BY <2>1 DEF Calls, CallStages, Scanning
    <3> HIDE DEF a, b, ts, us
    <3>3. a(c) \in Calls
        BY ZenonT(60), <2>1, <3>1, <3>2 DEF Calls, CallStages
    <3>4. /\ a(c).stage = call[c].stage /\ a(c).mod = call[c].mod /\ a(c).wait = call[c].wait
          /\ a(c).tokens = ts /\ a(c).users = us
        BY <2>1, <3>1 DEF Calls, CallStages
    <3>5. a(c).found = call[c].found /\ a(c).enabled = call[c].enabled
        BY <2>1, <3>1 DEF Calls, CallStages
    <3> QED
        BY <3>2, <3>3, <3>4, <3>5
  <2> QED
      BY <2>2, <2>3
<1> HIDE DEF a
<1> QED
    BY <1>1, <1>2

\* A change of the token directory by somebody else, while calls are under way.
LEMMA OutsideKeeps ==
    ASSUME CredentialInv, TokenOutside
    PROVE  CredentialInv'
<1> DEFINE there == ~token.there
<1>1. /\ token' = [there |-> there, mod |-> Clock] /\ call' = Witnessed(there, usersFile.enabled)
      /\ UNCHANGED <<tick, usersFile, tokenCache, usersCache, twice>>
    BY DEF TokenOutside
<1>2. CredentialTyped
    BY DEF CredentialInv
<1>3. there \in BOOLEAN /\ usersFile.enabled \in BOOLEAN /\ token.mod \in Int
    BY <1>2 DEF CredentialTyped
<1>4. Clock \in Int /\ Clock <= tick /\ tick < Clock + Grain /\ Grain \in Nat /\ tick \in Nat
    BY <1>2, StampFacts, TokenCacheAssumption DEF CredentialTyped
<1>5. token'.there = there /\ token'.mod = Clock /\ token' \in [there : BOOLEAN, mod : Int]
    BY <1>1, <1>3, <1>4
<1> HIDE DEF there
<1>6. /\ call' \in [Caller -> Calls]
      /\ \A c \in Caller :
           /\ call'[c].stage = call[c].stage /\ call'[c].mod = call[c].mod /\ call'[c].wait = call[c].wait
           /\ call'[c].found = call[c].found /\ call'[c].enabled = call[c].enabled
           /\ call[c].tokens \subseteq call'[c].tokens /\ call[c].users \subseteq call'[c].users
           /\ call[c].stage \in {"stat", "read", "settle"} => there \in call'[c].tokens
           /\ call[c].stage \in {"stat", "read", "settle", "ustat", "uread"} => usersFile.enabled \in call'[c].users
    BY <1>1, <1>2, <1>3, WitnessedFields
<1>7. CredentialTyped'
    BY <1>1, <1>2, <1>5, <1>6 DEF CredentialTyped
<1>8. StampsOld' /\ Remembers' /\ OneScan'
    BY <1>1, <1>4, <1>5, <1>6 DEF CredentialInv, StampsOld, Remembers, OneScan, Clock
<1>9. ScanGood'
    BY <1>1, <1>2, <1>4, <1>5, <1>6 DEF CredentialInv, ScanGood, CredentialTyped, Calls, CallStages
<1>10. TokenCacheGood' /\ UsersCacheGood'
    BY <1>1, <1>2, <1>4, <1>5, <1>6 DEF CredentialInv, TokenCacheGood, UsersCacheGood, CredentialTyped
<1>11. TokensFresh' /\ UsersFresh'
    BY <1>1, <1>6 DEF CredentialInv, TokensFresh, UsersFresh
<1> QED
    BY <1>7, <1>8, <1>9, <1>10, <1>11 DEF CredentialInv

LEMMA UsersOutsideKeeps ==
    ASSUME CredentialInv, UsersOutside
    PROVE  CredentialInv'
<1> DEFINE enabled == ~usersFile.enabled
<1>1. /\ usersFile' = [enabled |-> enabled, mod |-> Clock] /\ call' = Witnessed(token.there, enabled)
      /\ UNCHANGED <<tick, token, tokenCache, usersCache>>
      /\ twice' = (twice \/ usersFile.mod = Clock)
    BY DEF UsersOutside, WriteUsers
<1>2. CredentialTyped
    BY DEF CredentialInv
<1>3. enabled \in BOOLEAN /\ token.there \in BOOLEAN /\ usersFile.mod \in Int
    BY <1>2 DEF CredentialTyped
<1>4. Clock \in Int /\ Clock <= tick /\ tick < Clock + Grain /\ Grain \in Nat /\ tick \in Nat
    BY <1>2, StampFacts, TokenCacheAssumption DEF CredentialTyped
<1>5. usersFile'.enabled = enabled /\ usersFile'.mod = Clock /\ usersFile' \in [enabled : BOOLEAN, mod : Int]
    BY <1>1, <1>3, <1>4
<1> HIDE DEF enabled
<1>6. /\ call' \in [Caller -> Calls]
      /\ \A c \in Caller :
           /\ call'[c].stage = call[c].stage /\ call'[c].mod = call[c].mod /\ call'[c].wait = call[c].wait
           /\ call'[c].found = call[c].found /\ call'[c].enabled = call[c].enabled
           /\ call[c].tokens \subseteq call'[c].tokens /\ call[c].users \subseteq call'[c].users
           /\ call[c].stage \in {"stat", "read", "settle"} => token.there \in call'[c].tokens
           /\ call[c].stage \in {"stat", "read", "settle", "ustat", "uread"} => enabled \in call'[c].users
    BY <1>1, <1>2, <1>3, WitnessedFields
<1>12. twice' \in BOOLEAN /\ (~twice' => ~twice /\ usersFile.mod # Clock)
    BY <1>1
<1>7. CredentialTyped'
    BY <1>1, <1>2, <1>5, <1>6, <1>12 DEF CredentialTyped
<1>8. StampsOld' /\ Remembers' /\ OneScan'
    BY <1>1, <1>4, <1>5, <1>6 DEF CredentialInv, StampsOld, Remembers, OneScan, Clock
<1>9. ScanGood'
    BY <1>1, <1>2, <1>4, <1>5, <1>6 DEF CredentialInv, ScanGood, CredentialTyped, Calls, CallStages
<1>10. TokenCacheGood' /\ UsersCacheGood'
  <2>1. TokenCacheGood'
      BY <1>1 DEF CredentialInv, TokenCacheGood
  <2>2. \A c \in Caller : call[c].mod \in Int
      BY <1>2 DEF CredentialTyped, Calls
  <2>3. usersCache.mod \in Int
      BY <1>2 DEF CredentialTyped
  <2>4. UsersCacheGood'
      BY <1>1, <1>3, <1>4, <1>5, <1>6, <1>12, <2>2, <2>3 DEF CredentialInv, UsersCacheGood, StampsOld
  <2> QED
      BY <2>1, <2>4
<1>11. TokensFresh' /\ UsersFresh'
    BY <1>1, <1>6, <1>12 DEF CredentialInv, TokensFresh, UsersFresh
<1> QED
    BY <1>7, <1>8, <1>9, <1>10, <1>11 DEF CredentialInv

\* The server's own changes: nobody is being authenticated meanwhile.
LEMMA InsideKeeps ==
    ASSUME CredentialInv, CreateInside \/ RevokeInside \/ UsersInside
    PROVE  CredentialInv'
<1>1. CredentialTyped /\ UNCHANGED <<tick, call, twice>>
    BY DEF CredentialInv, CreateInside, RevokeInside, UsersInside
<1>2. \A c \in Caller : call[c].stage \in {"idle", "done"}
    BY DEF CreateInside, RevokeInside, UsersInside, Checking
<1>3. Clock \in Int /\ Clock <= tick /\ tick < Clock + Grain /\ Grain \in Nat /\ tick \in Nat
    BY <1>1, StampFacts, TokenCacheAssumption DEF CredentialTyped
<1>4. Remembers' /\ OneScan' /\ ScanGood' /\ TokensFresh' /\ UsersFresh'
    BY <1>1, <1>2 DEF CredentialInv, Remembers, OneScan, ScanGood, TokensFresh, UsersFresh
<1>5. CASE CreateInside
  <2>1. /\ token' = [there |-> TRUE, mod |-> Clock] /\ UNCHANGED <<usersFile, tokenCache, usersCache>>
      BY <1>5 DEF CreateInside
  <2>2. token'.mod = Clock /\ token' \in [there : BOOLEAN, mod : Int]
      BY <1>3, <2>1
  <2>3. CredentialTyped'
      BY <1>1, <2>1, <2>2 DEF CredentialTyped
  <2>4. StampsOld'
      BY <1>1, <1>3, <2>1, <2>2 DEF CredentialInv, StampsOld, Clock
  <2>5. TokenCacheGood'
    <3>1. tokenCache.mod \in Int
        BY <1>1 DEF CredentialTyped
    <3>2. tokenCache.mod + Grain <= tick => token'.mod # tokenCache.mod
        BY <1>3, <2>2, <3>1
    <3> QED
        BY <1>1, <2>1, <3>2 DEF CredentialInv, TokenCacheGood
  <2>6. UsersCacheGood'
      BY <1>1, <2>1 DEF CredentialInv, UsersCacheGood
  <2> QED
      BY <1>4, <2>3, <2>4, <2>5, <2>6 DEF CredentialInv
<1>6. CASE RevokeInside
  <2>1. /\ token' = [there |-> FALSE, mod |-> Clock] /\ UNCHANGED <<usersFile, usersCache>>
        /\ tokenCache' = [tokenCache EXCEPT !.scanned = FALSE, !.known = FALSE]
      BY <1>6 DEF RevokeInside, dropTokens
  <2>2. token'.mod = Clock /\ token' \in [there : BOOLEAN, mod : Int]
      BY <1>3, <2>1
  <2>3. tokenCache' \in [scanned : BOOLEAN, known : BOOLEAN, mod : Int, uncertain : BOOLEAN]
      BY <1>1, <2>1 DEF CredentialTyped
  <2>4. ~tokenCache'.scanned
      BY <1>1, <2>1 DEF CredentialTyped
  <2>5. CredentialTyped'
      BY <1>1, <2>1, <2>2, <2>3 DEF CredentialTyped
  <2>6. StampsOld'
      BY <1>1, <1>3, <2>1, <2>2 DEF CredentialInv, StampsOld, Clock
  <2>7. TokenCacheGood'
      BY <2>4 DEF TokenCacheGood
  <2>8. UsersCacheGood'
      BY <1>1, <2>1 DEF CredentialInv, UsersCacheGood
  <2> QED
      BY <1>4, <2>5, <2>6, <2>7, <2>8 DEF CredentialInv
<1>7. CASE UsersInside
  <2>1. /\ usersFile' = [enabled |-> ~usersFile.enabled, mod |-> Clock] /\ UNCHANGED <<token, tokenCache>>
        /\ usersCache' = [usersCache EXCEPT !.loaded = FALSE]
      BY <1>7 DEF UsersInside, WriteUsers, dropUsers
  <2>2. usersFile'.mod = Clock /\ usersFile' \in [enabled : BOOLEAN, mod : Int]
      BY <1>3, <2>1
  <2>3. usersCache' \in [loaded : BOOLEAN, enabled : BOOLEAN, mod : Int] /\ ~usersCache'.loaded
      BY <1>1, <2>1 DEF CredentialTyped
  <2>4. CredentialTyped'
      BY <1>1, <2>1, <2>2, <2>3 DEF CredentialTyped
  <2>5. StampsOld'
      BY <1>1, <1>3, <2>1, <2>2 DEF CredentialInv, StampsOld, Clock
  <2>6. TokenCacheGood'
      BY <1>1, <2>1 DEF CredentialInv, TokenCacheGood
  <2>7. UsersCacheGood'
      BY <1>1, <1>2, <2>3 DEF UsersCacheGood
  <2> QED
      BY <1>4, <2>4, <2>5, <2>6, <2>7 DEF CredentialInv
<1> QED
    BY <1>5, <1>6, <1>7

\* A step of one call: it alone changes.
LEMMA OneCall ==
    ASSUME CredentialTyped, NEW c \in Caller, NEW a \in Calls, call' = [call EXCEPT ![c] = a]
    PROVE  /\ call' \in [Caller -> Calls]
           /\ \A d \in Caller : call'[d] = IF d = c THEN a ELSE call[d]
BY DEF CredentialTyped

LEMMA BeginKeeps ==
    ASSUME CredentialInv, NEW c \in Caller, BeginCheck(c)
    PROVE  CredentialInv'
<1> DEFINE a == [NotChecking EXCEPT !.stage = "stat", !.tokens = {token.there}, !.users = {usersFile.enabled}]
<1>1. call' = [call EXCEPT ![c] = a] /\ UNCHANGED <<tick, token, usersFile, tokenCache, usersCache, twice>>
    BY DEF BeginCheck
<1>2. CredentialTyped
    BY DEF CredentialInv
<1>3. token.there \in BOOLEAN /\ usersFile.enabled \in BOOLEAN
    BY <1>2 DEF CredentialTyped
<1>4. a.stage = "stat" /\ a.tokens = {token.there} /\ a.users = {usersFile.enabled}
    BY DEF NotChecking
<1>5. a \in Calls
  <2>1. NotChecking \in Calls
      BY DEF NotChecking, Calls, CallStages
  <2>2. {token.there} \in SUBSET BOOLEAN /\ {usersFile.enabled} \in SUBSET BOOLEAN
      BY <1>3
  <2> QED
      BY <2>1, <2>2 DEF Calls, CallStages
<1> HIDE DEF a
<1>6. call' \in [Caller -> Calls] /\ \A d \in Caller : call'[d] = IF d = c THEN a ELSE call[d]
    BY <1>1, <1>2, <1>5, OneCall
<1>7. CredentialTyped' /\ StampsOld'
    BY <1>1, <1>2, <1>6 DEF CredentialInv, CredentialTyped, StampsOld, Clock
<1>8. Remembers'
    BY <1>1, <1>4, <1>6 DEF CredentialInv, Remembers
<1>9. OneScan' /\ ScanGood'
    BY <1>1, <1>4, <1>6 DEF CredentialInv, OneScan, ScanGood
<1>10. TokenCacheGood' /\ UsersCacheGood'
    BY <1>1, <1>4, <1>6 DEF CredentialInv, TokenCacheGood, UsersCacheGood
<1>11. TokensFresh' /\ UsersFresh'
    BY <1>1, <1>4, <1>6 DEF CredentialInv, TokensFresh, UsersFresh
<1> QED
    BY <1>7, <1>8, <1>9, <1>10, <1>11 DEF CredentialInv

LEMMA Decided ==
    ASSUME NEW a \in Calls, NEW known \in BOOLEAN, NEW st \in CallStages, NEW m \in Int, NEW w \in Nat
    PROVE  [a EXCEPT !.found = known, !.wait = w, !.mod = m, !.stage = st] \in Calls
BY DEF Calls

LEMMA Accepted ==
    ASSUME NEW a \in Calls, NEW enabled \in BOOLEAN, NEW st \in CallStages, NEW m \in Int
    PROVE  [a EXCEPT !.enabled = enabled, !.stage = st, !.mod = m] \in Calls
BY DEF Calls

LEMMA StatTokensKeeps ==
    ASSUME CredentialInv, NEW c \in Caller, StatTokens(c)
    PROVE  CredentialInv'
<1> DEFINE hit == [call[c] EXCEPT !.found = tokenCache.known, !.wait = 0, !.mod = 0,
                                  !.stage = IF tokenCache.known THEN "ustat" ELSE "done"]
           miss == [call[c] EXCEPT !.stage = "read", !.mod = token.mod, !.wait = 0]
<1>1. /\ call[c].stage = "stat" /\ \A d \in Scanning \ {c} : call[d].stage = "stat"
      /\ UNCHANGED <<tick, token, usersFile, tokenCache, usersCache, twice>>
    BY DEF StatTokens
<1>2. CredentialTyped /\ call[c] \in Calls
    BY DEF CredentialInv, CredentialTyped
<1>3. \A d \in Caller : d # c => call[d].stage \notin {"read", "settle"}
    BY <1>1 DEF Scanning
<1>4. tokenCache.known \in BOOLEAN /\ token.mod \in Int /\ token.mod <= tick /\ SlowScan \in Nat /\ tick \in Nat
  <2>1. tokenCache.known \in BOOLEAN
      BY <1>2 DEF CredentialTyped
  <2>2. tick \in Nat /\ token.mod \in Int
      BY <1>2 DEF CredentialTyped
  <2> QED
      BY <2>1, <2>2, StampFacts, TokenCacheAssumption DEF CredentialInv, StampsOld
<1>5. \/ tokenCache.known = token.there /\ call' = [call EXCEPT ![c] = hit]
      \/ call' = [call EXCEPT ![c] = miss]
    BY DEF StatTokens, Decide, CredentialInv, TokenCacheGood
<1>6. hit \in Calls /\ miss \in Calls
  <2> DEFINE st == IF tokenCache.known THEN "ustat" ELSE "done"
             known == tokenCache.known
  <2>1. st \in CallStages /\ known \in BOOLEAN /\ 0 \in Int /\ 0 \in Nat
      BY <1>4 DEF CallStages
  <2>2. hit = [call[c] EXCEPT !.found = known, !.wait = 0, !.mod = 0, !.stage = st]
      OBVIOUS
  <2> HIDE DEF st, hit, known
  <2>5. [call[c] EXCEPT !.found = known, !.wait = 0, !.mod = 0, !.stage = st] \in Calls
      BY <1>2, <2>1, Decided
  <2>3. hit \in Calls
      BY <2>2, <2>5
  <2>4. miss \in Calls
      BY <1>2, <1>4 DEF Calls, CallStages
  <2> QED
      BY <2>3, <2>4
<1>7. /\ hit.stage = IF tokenCache.known THEN "ustat" ELSE "done"
      /\ hit.tokens = call[c].tokens /\ hit.users = call[c].users /\ hit.mod = 0
      /\ hit.found = tokenCache.known
    BY <1>2 DEF Calls, CallStages
<1>8. /\ miss.stage = "read" /\ miss.mod = token.mod /\ miss.wait = 0
      /\ miss.tokens = call[c].tokens /\ miss.users = call[c].users
    BY <1>2 DEF Calls, CallStages
<1> HIDE DEF hit, miss
<1>9. PICK a \in Calls :
        /\ call' = [call EXCEPT ![c] = a]
        /\ (tokenCache.known = token.there /\ a = hit) \/ a = miss
    BY <1>5, <1>6
<1>10. call' \in [Caller -> Calls] /\ \A d \in Caller : call'[d] = IF d = c THEN a ELSE call[d]
    BY <1>2, <1>9, OneCall
<1>11. CredentialTyped' /\ StampsOld'
    BY <1>1, <1>2, <1>10 DEF CredentialInv, CredentialTyped, StampsOld, Clock
<1>12. a.tokens = call[c].tokens /\ a.users = call[c].users /\ a.stage \in {"ustat", "done", "read"}
    BY <1>7, <1>8, <1>9
<1>13. Remembers'
    BY <1>1, <1>10, <1>12 DEF CredentialInv, Remembers
<1>14. OneScan'
    BY <1>3, <1>10 DEF OneScan
<1>15. a.stage = "read" => a.wait = 0 /\ a.mod = token.mod
    BY <1>7, <1>8, <1>9
<1>16. ScanGood'
    BY <1>1, <1>4, <1>10, <1>12, <1>15 DEF CredentialInv, ScanGood
<1>17. TokenCacheGood' /\ UsersCacheGood'
    BY <1>1, <1>10, <1>12 DEF CredentialInv, TokenCacheGood, UsersCacheGood
<1>18. a.stage # "read" => a.found = token.there
    BY <1>7, <1>8, <1>9
<1>19. TokensFresh'
    BY <1>1, <1>10, <1>12, <1>18 DEF CredentialInv, TokensFresh, Remembers
<1>20. a.stage = "done" => ~a.found
  <2>1. CASE tokenCache.known
      BY <1>7, <1>8, <1>9, <2>1
  <2>2. CASE ~tokenCache.known
      BY <1>7, <1>8, <1>9, <2>2
  <2> QED
      BY <2>1, <2>2
<1>21. UsersFresh'
    BY <1>1, <1>10, <1>12, <1>20 DEF CredentialInv, UsersFresh
<1> QED
    BY <1>11, <1>13, <1>14, <1>16, <1>17, <1>19, <1>21 DEF CredentialInv

LEMMA ReadTokensKeeps ==
    ASSUME CredentialInv, NEW c \in Caller, ReadTokens(c)
    PROVE  CredentialInv'
<1> DEFINE a == [call[c] EXCEPT !.stage = "settle"]
<1>1. /\ call[c].stage = "read" /\ call' = [call EXCEPT ![c] = a]
      /\ tokenCache' = [tokenCache EXCEPT !.known = token.there]
      /\ UNCHANGED <<tick, token, usersFile, usersCache, twice>>
    BY DEF ReadTokens
<1>2. CredentialTyped /\ call[c] \in Calls
    BY DEF CredentialInv, CredentialTyped
<1>3. token.there \in BOOLEAN
    BY <1>2 DEF CredentialTyped
<1>4. /\ tokenCache' \in [scanned : BOOLEAN, known : BOOLEAN, mod : Int, uncertain : BOOLEAN]
      /\ tokenCache'.known = token.there /\ tokenCache'.mod = tokenCache.mod
      /\ tokenCache'.scanned = tokenCache.scanned /\ tokenCache'.uncertain = tokenCache.uncertain
    BY <1>1, <1>2, <1>3 DEF CredentialTyped
<1>5. a \in Calls
    BY <1>2 DEF Calls, CallStages
<1>6. /\ a.stage = "settle" /\ a.mod = call[c].mod /\ a.wait = call[c].wait
      /\ a.tokens = call[c].tokens /\ a.users = call[c].users
    BY <1>2 DEF Calls
<1> HIDE DEF a
<1>7. call' \in [Caller -> Calls] /\ \A d \in Caller : call'[d] = IF d = c THEN a ELSE call[d]
    BY <1>1, <1>2, <1>5, OneCall
<1>8. \A d \in Caller : d # c => call[d].stage \notin {"read", "settle"}
    BY <1>1 DEF CredentialInv, OneScan
<1>9. CredentialTyped' /\ StampsOld'
    BY <1>1, <1>2, <1>4, <1>7 DEF CredentialInv, CredentialTyped, StampsOld, Clock
<1>10. Remembers' /\ OneScan'
    BY <1>1, <1>6, <1>7, <1>8 DEF CredentialInv, Remembers, OneScan
<1>11. ScanGood'
    BY <1>1, <1>4, <1>6, <1>7, <1>8 DEF CredentialInv, ScanGood, Remembers
<1>12. TokenCacheGood'
    BY <1>1, <1>4 DEF CredentialInv, TokenCacheGood
<1>13. UsersCacheGood'
    BY <1>1, <1>6, <1>7 DEF CredentialInv, UsersCacheGood
<1>14. TokensFresh' /\ UsersFresh'
    BY <1>1, <1>6, <1>7 DEF CredentialInv, TokensFresh, UsersFresh
<1> QED
    BY <1>9, <1>10, <1>11, <1>12, <1>13, <1>14 DEF CredentialInv

LEMMA SettleKeeps ==
    ASSUME CredentialInv, NEW c \in Caller, Settle(c)
    PROVE  CredentialInv'
<1> DEFINE known == tokenCache.known
           st == IF known THEN "ustat" ELSE "done"
           a == [call[c] EXCEPT !.found = known, !.wait = 0, !.mod = 0, !.stage = st]
           old == tick - call[c].mod < Margin
<1>1. /\ call[c].stage = "settle" /\ call' = [call EXCEPT ![c] = a]
      /\ tokenCache' = [tokenCache EXCEPT !.scanned = TRUE, !.mod = call[c].mod, !.uncertain = old]
      /\ UNCHANGED <<tick, token, usersFile, usersCache, twice>>
    BY DEF Settle, Decide
<1>2. CredentialTyped /\ call[c] \in Calls
    BY DEF CredentialInv, CredentialTyped
<1>3. known \in BOOLEAN /\ st \in CallStages /\ (st = "ustat" \/ (st = "done" /\ ~known))
    BY <1>2 DEF CredentialTyped, CallStages
<1>4. call[c].mod \in Int /\ call[c].wait \in Nat /\ tick \in Nat
    BY <1>2 DEF CredentialTyped, Calls
<1>5. old \in BOOLEAN /\ (~old => call[c].mod + Grain <= tick - call[c].wait)
  <2>1. call[c].wait <= SlowScan
      BY <1>1 DEF CredentialInv, ScanGood
  <2> QED
      BY <1>4, <2>1, TokenCacheAssumption
<1>6. a \in Calls
  <2> HIDE DEF known, st
  <2>1. 0 \in Int /\ 0 \in Nat
      OBVIOUS
  <2>2. [call[c] EXCEPT !.found = known, !.wait = 0, !.mod = 0, !.stage = st] \in Calls
      BY <1>2, <1>3, <2>1, Decided
  <2> QED
      BY <2>2
<1>7. a.stage = st /\ a.tokens = call[c].tokens /\ a.users = call[c].users
    BY <1>2 DEF Calls
<1>8. a.found = known
    BY <1>2 DEF Calls
<1>9. known \in call[c].tokens /\ (call[c].mod + Grain <= tick - call[c].wait /\ token.mod = call[c].mod => known = token.there)
    BY <1>1 DEF CredentialInv, ScanGood
<1> HIDE DEF a, known, st, old
<1>10. /\ tokenCache' \in [scanned : BOOLEAN, known : BOOLEAN, mod : Int, uncertain : BOOLEAN]
       /\ tokenCache'.known = known /\ tokenCache'.mod = call[c].mod /\ tokenCache'.uncertain = old
    BY <1>1, <1>2, <1>4, <1>5 DEF CredentialTyped, known
<1>11. call' \in [Caller -> Calls] /\ \A d \in Caller : call'[d] = IF d = c THEN a ELSE call[d]
    BY <1>1, <1>2, <1>6, OneCall
<1>12. \A d \in Caller : d # c => call[d].stage \notin {"read", "settle"}
    BY <1>1 DEF CredentialInv, OneScan
<1>13. CredentialTyped' /\ StampsOld'
    BY <1>1, <1>2, <1>10, <1>11 DEF CredentialInv, CredentialTyped, StampsOld, Clock
<1>14. Remembers' /\ OneScan'
    BY <1>1, <1>3, <1>7, <1>11, <1>12 DEF CredentialInv, Remembers, OneScan
<1>15. ScanGood'
    BY <1>1, <1>3, <1>7, <1>11, <1>12 DEF CredentialInv, ScanGood
<1>16. TokenCacheGood'
  <2>1. ~old => call[c].mod + Grain <= tick /\ (token.mod = call[c].mod => known = token.there)
    <3>1. Grain \in Int
        BY TokenCacheAssumption
    <3> QED
        BY <1>4, <1>5, <1>9, <3>1
  <2> QED
      BY <1>1, <1>10, <2>1 DEF TokenCacheGood
<1>17. UsersCacheGood'
    BY <1>1, <1>3, <1>7, <1>11 DEF CredentialInv, UsersCacheGood
<1>18. TokensFresh'
    BY <1>1, <1>7, <1>8, <1>9, <1>11 DEF CredentialInv, TokensFresh
<1>19. a.stage = "done" => ~a.found
    BY <1>3, <1>7, <1>8
<1>20. UsersFresh'
    BY <1>1, <1>11, <1>19 DEF CredentialInv, UsersFresh
<1> QED
    BY <1>13, <1>14, <1>15, <1>16, <1>17, <1>18, <1>20 DEF CredentialInv

LEMMA StatUsersKeeps ==
    ASSUME CredentialInv, NEW c \in Caller, StatUsers(c)
    PROVE  CredentialInv'
<1> DEFINE hit == [call[c] EXCEPT !.enabled = usersCache.enabled, !.stage = "done", !.mod = 0]
           miss == [call[c] EXCEPT !.stage = "uread", !.mod = usersFile.mod]
<1>1. /\ call[c].stage = "ustat"
      /\ UNCHANGED <<tick, token, usersFile, tokenCache, usersCache, twice>>
      /\ \/ call' = [call EXCEPT ![c] = hit] /\ usersCache.loaded /\ usersCache.mod = usersFile.mod
         \/ call' = [call EXCEPT ![c] = miss]
    BY DEF StatUsers, Accept
<1>2. CredentialTyped /\ call[c] \in Calls
    BY DEF CredentialInv, CredentialTyped
<1>3. usersCache.enabled \in BOOLEAN /\ usersFile.mod \in Int
    BY <1>2 DEF CredentialTyped
<1>4. hit \in Calls
  <2>1. "done" \in CallStages /\ 0 \in Int
      BY DEF CallStages
  <2> QED
      BY <1>2, <1>3, <2>1, Accepted
<1>5. miss \in Calls
    BY <1>2, <1>3 DEF Calls, CallStages
<1>6. hit.stage = "done" /\ hit.tokens = call[c].tokens /\ hit.users = call[c].users
    BY <1>2 DEF Calls
<1>7. hit.enabled = usersCache.enabled /\ hit.found = call[c].found
    BY <1>2 DEF Calls
<1>8. /\ miss.stage = "uread" /\ miss.tokens = call[c].tokens /\ miss.users = call[c].users
      /\ miss.mod = usersFile.mod /\ miss.found = call[c].found
    BY <1>2 DEF Calls
<1> HIDE DEF hit, miss
<1>9. PICK a \in Calls :
        /\ call' = [call EXCEPT ![c] = a]
        /\ \/ a = hit /\ usersCache.loaded /\ usersCache.mod = usersFile.mod
           \/ a = miss
    BY <1>1, <1>4, <1>5
<1>10. call' \in [Caller -> Calls] /\ \A d \in Caller : call'[d] = IF d = c THEN a ELSE call[d]
    BY <1>2, <1>9, OneCall
<1>11. a.stage \in {"done", "uread"} /\ a.tokens = call[c].tokens /\ a.users = call[c].users
    BY <1>6, <1>8, <1>9
<1>12. a.found = call[c].found
    BY <1>7, <1>8, <1>9
<1>13. a.stage = "uread" => a.mod = usersFile.mod
    BY <1>6, <1>8, <1>9
<1>14. a.stage = "done" /\ ~twice => a.enabled = usersFile.enabled
    BY <1>7, <1>8, <1>9 DEF CredentialInv, UsersCacheGood
<1>15. CredentialTyped' /\ StampsOld'
    BY <1>1, <1>2, <1>10 DEF CredentialInv, CredentialTyped, StampsOld, Clock
<1>16. Remembers' /\ OneScan' /\ ScanGood' /\ TokenCacheGood'
    BY <1>1, <1>10, <1>11 DEF CredentialInv, Remembers, OneScan, ScanGood, TokenCacheGood
<1>17. UsersCacheGood'
    BY <1>1, <1>3, <1>10, <1>11, <1>13 DEF CredentialInv, UsersCacheGood
<1>18. TokensFresh'
    BY <1>1, <1>10, <1>11, <1>12 DEF CredentialInv, TokensFresh
<1>19. UsersFresh'
    BY <1>1, <1>10, <1>11, <1>14 DEF CredentialInv, UsersFresh, Remembers
<1> QED
    BY <1>15, <1>16, <1>17, <1>18, <1>19 DEF CredentialInv

LEMMA ReadUsersKeeps ==
    ASSUME CredentialInv, NEW c \in Caller, ReadUsers(c)
    PROVE  CredentialInv'
<1> DEFINE a == [call[c] EXCEPT !.enabled = usersFile.enabled, !.stage = "done", !.mod = 0]
<1>1. /\ call[c].stage = "uread" /\ call' = [call EXCEPT ![c] = a]
      /\ usersCache' = [loaded |-> TRUE, enabled |-> usersFile.enabled, mod |-> call[c].mod]
      /\ UNCHANGED <<tick, token, usersFile, tokenCache, twice>>
    BY DEF ReadUsers, Accept
<1>2. CredentialTyped /\ call[c] \in Calls
    BY DEF CredentialInv, CredentialTyped
<1>3. usersFile.enabled \in BOOLEAN
    BY <1>2 DEF CredentialTyped
<1>4. call[c].mod \in Int
    BY <1>2 DEF Calls
<1>5. a \in Calls
  <2>1. "done" \in CallStages /\ 0 \in Int
      BY DEF CallStages
  <2> QED
      BY <1>2, <1>3, <2>1, Accepted
<1>6. a.stage = "done" /\ a.tokens = call[c].tokens /\ a.users = call[c].users
    BY <1>2 DEF Calls
<1>7. a.enabled = usersFile.enabled /\ a.found = call[c].found
    BY <1>2 DEF Calls
<1>8. usersCache' \in [loaded : BOOLEAN, enabled : BOOLEAN, mod : Int]
    BY <1>1, <1>3, <1>4
<1>9. usersCache'.enabled = usersFile.enabled /\ usersCache'.mod = call[c].mod
    BY <1>1
<1> HIDE DEF a
<1>10. call' \in [Caller -> Calls] /\ \A d \in Caller : call'[d] = IF d = c THEN a ELSE call[d]
    BY <1>1, <1>2, <1>5, OneCall
<1>11. CredentialTyped' /\ StampsOld'
    BY <1>1, <1>2, <1>8, <1>10 DEF CredentialInv, CredentialTyped, StampsOld, Clock
<1>12. Remembers' /\ OneScan' /\ ScanGood' /\ TokenCacheGood'
    BY <1>1, <1>6, <1>10 DEF CredentialInv, Remembers, OneScan, ScanGood, TokenCacheGood
<1>13. UsersCacheGood'
    BY <1>1, <1>6, <1>9, <1>10 DEF CredentialInv, UsersCacheGood
<1>14. TokensFresh'
    BY <1>1, <1>6, <1>7, <1>10 DEF CredentialInv, TokensFresh
<1>15. UsersFresh'
    BY <1>1, <1>6, <1>7, <1>10 DEF CredentialInv, UsersFresh, Remembers
<1> QED
    BY <1>11, <1>12, <1>13, <1>14, <1>15 DEF CredentialInv

LEMMA TickKeeps ==
    ASSUME CredentialInv, Tick
    PROVE  CredentialInv'
<1> DEFINE b(d) == [call[d] EXCEPT !.wait = @ + 1]
           a(d) == IF call[d].stage \in {"read", "settle"} THEN b(d) ELSE call[d]
<1>1. /\ tick' = tick + 1 /\ call' = [d \in Caller |-> a(d)]
      /\ \A d \in Caller : call[d].stage \in {"read", "settle"} => call[d].wait < SlowScan
      /\ UNCHANGED <<token, usersFile, tokenCache, usersCache, twice>>
    BY DEF Tick
<1>2. CredentialTyped /\ tick \in Nat
    BY DEF CredentialInv, CredentialTyped
<1>3. ASSUME NEW d \in Caller
      PROVE  /\ a(d) \in Calls /\ a(d).stage = call[d].stage /\ a(d).mod = call[d].mod
             /\ a(d).tokens = call[d].tokens /\ a(d).users = call[d].users
             /\ a(d).wait = IF call[d].stage \in {"read", "settle"} THEN call[d].wait + 1 ELSE call[d].wait
             /\ call[d].wait \in Nat /\ call[d].mod \in Int
  <2>1. call[d] \in Calls
      BY <1>2 DEF CredentialTyped
  <2>2. b(d) \in Calls
      BY <2>1 DEF Calls
  <2>3. /\ b(d).stage = call[d].stage /\ b(d).mod = call[d].mod /\ b(d).wait = call[d].wait + 1
        /\ b(d).tokens = call[d].tokens /\ b(d).users = call[d].users
        /\ call[d].wait \in Nat /\ call[d].mod \in Int
      BY <2>1 DEF Calls
  <2> HIDE DEF b
  <2> QED
      BY <2>1, <2>2, <2>3
<1>4. \A d \in Caller : a(d).found = call[d].found /\ a(d).enabled = call[d].enabled
  <2> TAKE d \in Caller
  <2>1. call[d] \in Calls
      BY <1>2 DEF CredentialTyped
  <2>2. b(d).found = call[d].found /\ b(d).enabled = call[d].enabled
      BY <2>1 DEF Calls
  <2> QED
      BY <2>2
<1> HIDE DEF a
<1>5. call' \in [Caller -> Calls] /\ \A d \in Caller : call'[d] = a(d)
    BY <1>1, <1>3
<1>6. CredentialTyped'
    BY <1>1, <1>2, <1>5 DEF CredentialTyped
<1>7. StampsOld'
  <2>1. Clock' = (tick + 1) - ((tick + 1) % Grain) /\ Clock = tick - (tick % Grain)
      BY <1>1 DEF Clock
  <2>2. Clock \in Int /\ Clock' \in Int /\ Clock <= Clock'
      BY <1>2, <2>1, ClockFacts
  <2>3. token.mod \in Int /\ usersFile.mod \in Int
      BY <1>2 DEF CredentialTyped
  <2> QED
      BY <1>1, <2>2, <2>3 DEF CredentialInv, StampsOld
<1>8. Remembers' /\ OneScan'
    BY <1>1, <1>3, <1>5 DEF CredentialInv, Remembers, OneScan
<1>9. ScanGood'
  <2> SUFFICES ASSUME NEW d \in Caller
               PROVE  /\ call'[d].stage \in {"read", "settle"} =>
                           call'[d].wait <= SlowScan /\ call'[d].mod <= tick' - call'[d].wait
                      /\ call'[d].stage = "settle" =>
                           /\ tokenCache.known \in call'[d].tokens
                           /\ call'[d].mod + Grain <= tick' - call'[d].wait /\ token.mod = call'[d].mod =>
                                tokenCache.known = token.there
      BY <1>1 DEF ScanGood
  <2>1. SlowScan \in Nat /\ Grain \in Nat
      BY TokenCacheAssumption
  <2>2. call[d].stage \in {"read", "settle"} => tick' - call'[d].wait = tick - call[d].wait /\ call'[d].wait <= SlowScan
      BY <1>1, <1>2, <1>3, <1>5, <2>1
  <2>3. call'[d].stage = call[d].stage /\ call'[d].mod = call[d].mod /\ call'[d].tokens = call[d].tokens
      BY <1>3, <1>5
  <2> HIDE DEF a
  <2> QED
      BY <2>2, <2>3 DEF CredentialInv, ScanGood
<1>10. TokenCacheGood'
  <2>1. tokenCache.mod \in Int /\ Grain \in Nat
      BY <1>2, TokenCacheAssumption DEF CredentialTyped
  <2>2. tokenCache.mod + Grain <= tick => tokenCache.mod + Grain <= tick'
      BY <1>1, <1>2, <2>1
  <2> QED
      BY <1>1, <2>2 DEF CredentialInv, TokenCacheGood
<1>11. UsersCacheGood'
    BY <1>1, <1>3, <1>5 DEF CredentialInv, UsersCacheGood
<1>12. TokensFresh' /\ UsersFresh'
    BY <1>1, <1>3, <1>4, <1>5 DEF CredentialInv, TokensFresh, UsersFresh
<1> QED
    BY <1>6, <1>7, <1>8, <1>9, <1>10, <1>11, <1>12 DEF CredentialInv

LEMMA CredentialInit0 == CredentialInit => CredentialInv
<1> SUFFICES ASSUME CredentialInit PROVE CredentialInv
    OBVIOUS
<1>1. Grain \in Nat /\ tick = 0 /\ tick \in Nat /\ -Grain \in Int /\ -Grain <= 0
    BY TokenCacheAssumption DEF CredentialInit
<1>2. NotChecking \in Calls /\ NotChecking.stage = "idle"
    BY DEF NotChecking, Calls, CallStages
<1>3. \A c \in Caller : call[c].stage = "idle"
    BY <1>2 DEF CredentialInit
<1>4. CredentialTyped
  <2>1. token \in [there : BOOLEAN, mod : Int] /\ usersFile \in [enabled : BOOLEAN, mod : Int]
      BY <1>1 DEF CredentialInit
  <2>2. tokenCache \in [scanned : BOOLEAN, known : BOOLEAN, mod : Int, uncertain : BOOLEAN]
      BY DEF CredentialInit
  <2>3. usersCache \in [loaded : BOOLEAN, enabled : BOOLEAN, mod : Int]
      BY DEF CredentialInit
  <2>4. call \in [Caller -> Calls] /\ twice \in BOOLEAN
      BY <1>2 DEF CredentialInit
  <2> QED
      BY <1>1, <2>1, <2>2, <2>3, <2>4 DEF CredentialTyped
<1>5. StampsOld
  <2>1. 0 % Grain = 0
      BY TokenCacheAssumption
  <2> QED
      BY <1>1, <2>1 DEF CredentialInit, StampsOld, Clock
<1>6. TokenCacheGood /\ UsersCacheGood
    BY <1>3 DEF CredentialInit, TokenCacheGood, UsersCacheGood
<1> QED
    BY <1>3, <1>4, <1>5, <1>6 DEF CredentialInv, Remembers, OneScan, ScanGood, TokensFresh, UsersFresh

\* What the caches answer a request with is what the files said at some moment of it: a token
\* revoked or made, and a grant changed, by any process counts from the next request on.
THEOREM CredentialsAreFresh == CredentialSpec => []CredentialsFresh
<1>1. CredentialInit => CredentialInv
    BY CredentialInit0
<1>2. CredentialInv /\ [CredentialNext]_credentialVars => CredentialInv'
  <2> SUFFICES ASSUME CredentialInv, [CredentialNext]_credentialVars PROVE CredentialInv'
      OBVIOUS
  <2>1. CASE UNCHANGED credentialVars
      BY <2>1 DEF credentialVars, CredentialInv, CredentialTyped, StampsOld, Remembers, OneScan, ScanGood,
                  TokenCacheGood, UsersCacheGood, TokensFresh, UsersFresh, Clock
  <2>2. CASE TokenOutside \/ UsersOutside \/ CreateInside \/ RevokeInside \/ UsersInside \/ Tick
      BY <2>2, OutsideKeeps, UsersOutsideKeeps, InsideKeeps, TickKeeps
  <2>3. CASE \E c \in Caller : \/ BeginCheck(c) \/ StatTokens(c) \/ ReadTokens(c) \/ Settle(c)
                               \/ StatUsers(c) \/ ReadUsers(c)
      BY <2>3, BeginKeeps, StatTokensKeeps, ReadTokensKeeps, SettleKeeps, StatUsersKeeps, ReadUsersKeeps
  <2> QED
      BY <2>1, <2>2, <2>3 DEF CredentialNext
<1>3. CredentialInv => CredentialsFresh
    BY DEF CredentialInv, CredentialsFresh
<1> QED
    BY <1>1, <1>2, <1>3, PTL DEF CredentialSpec

-----------------------------------------------------------------------------
(* RateLimiter: what a bucket lets through *)

IpKey(a) == <<"ip", a>>
Keys == {rateLimitKey(r) : r \in WebRequest}
Bucket == [key : Keys, parts : Nat, last : Nat, capacity : Nat \ {0}]
Asks == [bucket : Nat, from : Peer \cup {""}, fit : BOOLEAN]
\* Requests let through by a bucket since some time.
SpentSince(n, t) == {e \in passed : e.bucket = n /\ e.at >= t}
Elapsed(from, to) == IF to > from THEN to - from ELSE 0

RateTyped ==
    /\ second \in Nat /\ made \in Seq(Bucket)
    /\ asking \in [Visitor -> Asks]
\* The requests counted are of the last minute, and told apart.
PassedTyped ==
    /\ IsFiniteSet(passed) /\ second \in Nat
    /\ \A e \in passed : /\ e.at \in Nat /\ e.at <= second /\ second - e.at < PerMinute
                         /\ e.key[1] = "ip" => e.key = IpKey(e.from)
                         /\ e.at = second => e.nth < Cardinality({f \in passed : f.bucket = e.bucket /\ f.at = second})
                         /\ e.nth \in Nat
\* A bucket that let a request through has not been idle since; it is its key's still, unless it
\* was no longer when the request came.
InBucket ==
    \A e \in passed : /\ e.bucket \in DOMAIN made
                      /\ made[e.bucket].key = e.key /\ e.at <= made[e.bucket].last
                      /\ ~e.late => e.key \in DOMAIN bucket /\ bucket[e.key] = e.bucket
BucketsGood == \A k \in DOMAIN bucket : bucket[k] \in DOMAIN made /\ made[bucket[k]].key = k
\* A request past its lookup has a bucket of its address, swept or not.
AskingGood ==
    \A v \in Visitor : asking[v].bucket # 0 =>
        LET n == asking[v].bucket
        IN n \in DOMAIN made /\ (made[n].key[1] = "ip" => made[n].key = IpKey(asking[v].from))
\* What a bucket holds and what it has given since any time is no more than it held when
\* full and has refilled.
WithinBudget(n) ==
    LET b == made[n] IN
    /\ b.last <= second /\ b.parts <= b.capacity * PerMinute
    /\ b.capacity = AuthPerMinute \/ (b.capacity = RequestsPerMinute /\ b.key \in wide)
    /\ \A t \in Nat : Cardinality(SpentSince(n, t)) * PerMinute + b.parts
                        <= b.capacity * PerMinute + Elapsed(t, b.last) * b.capacity
RateInv ==
    /\ RateTyped /\ PassedTyped /\ InBucket /\ BucketsGood /\ AskingGood
    /\ \A n \in DOMAIN made : WithinBudget(n)

\* Products of numbers that the prover has no values for.
LEMMA Products ==
    ASSUME NEW a \in Nat, NEW b \in Nat, NEW c \in Nat
    PROVE  /\ a * b \in Nat /\ a * (b + c) = a * b + a * c /\ (b + c) * a = b * a + c * a
           /\ b <= c => b * a <= c * a
OBVIOUS

\* Time passes and a bucket refills: its balance is kept.
LEMMA RefillKeeps ==
    ASSUME NEW spent \in Nat, NEW parts \in Nat, NEW full \in Nat, NEW rate \in Nat,
           NEW last \in Nat, NEW now \in Nat, NEW t \in Nat, last <= now, parts <= full,
           t > last => spent = 0,
           spent + parts <= full + Elapsed(t, last) * rate
    PROVE  /\ parts + (now - last) * rate \in Nat
           /\ LesserOf(parts + (now - last) * rate, full) \in Nat
           /\ LesserOf(parts + (now - last) * rate, full) <= full
           /\ spent + LesserOf(parts + (now - last) * rate, full) <= full + Elapsed(t, now) * rate
<1>1. now - last \in Nat /\ (now - last) * rate \in Nat
    BY Products
<1>2. CASE t <= last
    <2>1. last - t \in Nat /\ now - t = (last - t) + (now - last)
        BY <1>2
    <2>2. (now - t) * rate = (last - t) * rate + (now - last) * rate
        BY <1>1, <2>1, Products
    <2>3. Elapsed(t, last) = last - t /\ Elapsed(t, now) = now - t
        BY <1>2 DEF Elapsed
    <2>4. (last - t) * rate \in Nat /\ (now - t) * rate \in Nat
        BY <1>1, <2>1, <2>2, Products
    <2> QED
        BY <1>1, <2>2, <2>3, <2>4 DEF LesserOf
<1>3. CASE t > last
    <2>1. Elapsed(t, now) \in Nat
        BY DEF Elapsed
    <2>2. Elapsed(t, now) * rate \in Nat
        BY <2>1, Products
    <2> QED
        BY <1>1, <1>3, <2>2 DEF LesserOf
<1> QED
    BY <1>2, <1>3

LEMMA MadeIsTyped ==
    ASSUME RateTyped, NEW n \in DOMAIN made
    PROVE  made[n] \in Bucket /\ made[n].last \in Nat /\ made[n].capacity \in Nat
<1>1. made[n] \in Bucket
    BY ElementOfSeq DEF RateTyped
<1> QED
    BY <1>1 DEF Bucket

LEMMA SpentFinite ==
    ASSUME PassedTyped, NEW n, NEW t
    PROVE  /\ IsFiniteSet(SpentSince(n, t)) /\ Cardinality(SpentSince(n, t)) \in Nat
<1>1. SpentSince(n, t) \subseteq passed /\ IsFiniteSet(passed)
    BY DEF SpentSince, PassedTyped
<1> QED
    BY <1>1, FS_Subset, FS_CardinalityType

\* Fewer requests counted, fewer spent.
LEMMA FewerSpent ==
    ASSUME PassedTyped, NEW S, S \subseteq passed, NEW n, NEW t
    PROVE  LET s == {e \in S : e.bucket = n /\ e.at >= t} IN
           Cardinality(s) \in Nat /\ Cardinality(s) <= Cardinality(SpentSince(n, t))
<1>1. {e \in S : e.bucket = n /\ e.at >= t} \subseteq SpentSince(n, t)
    BY DEF SpentSince
<1> QED
    BY <1>1, SpentFinite, FS_Subset, FS_CardinalityType

LEMMA KindOfKey ==
    ASSUME NEW r \in WebRequest
    PROVE  /\ rateLimitKey(r) \in Keys /\ Origin(r) \in Peer \cup {""}
           /\ rateLimitKey(r)[1] = "ip" => rateLimitKey(r) = IpKey(Origin(r))
<1>1. rateLimitKey(r) \in Keys
    BY DEF Keys
<1>2. Origin(r) \in Peer \cup {""}
    BY DEF Origin, WebRequest
<1>3. rateLimitKey(r)[1] = "ip" => rateLimitKey(r) = IpKey(Origin(r))
    BY DEF rateLimitKey, clientIP, trusts, Origin, IpKey
<1> QED
    BY <1>1, <1>2, <1>3

LEMMA RateInitially == RateInit => RateInv
<1> SUFFICES ASSUME RateInit PROVE RateInv
    OBVIOUS
<1>1. passed = {} /\ second = 0 /\ DOMAIN bucket = {} /\ made = <<>> /\ asking = [v \in Visitor |-> Nobody]
    BY DEF RateInit
<1>2. IsFiniteSet(passed)
    BY <1>1, FS_EmptySet
<1>3. <<>> \in Seq(Bucket)
    OBVIOUS
<1>4. Nobody \in Asks /\ Nobody.bucket = 0
    BY DEF Nobody, Asks
<1>5. RateTyped
    BY <1>1, <1>3, <1>4 DEF RateTyped
<1>6. PassedTyped /\ InBucket /\ BucketsGood /\ AskingGood
    BY <1>1, <1>2, <1>4 DEF PassedTyped, InBucket, BucketsGood, AskingGood
<1>7. DOMAIN made = {}
    BY <1>1
<1> QED
    BY <1>5, <1>6, <1>7 DEF RateInv

LEMMA WaitKeeps ==
    ASSUME RateInv, Wait
    PROVE  RateInv'
<1> USE RateLimiterAssumption
<1>1. /\ second \in Nat /\ second' = second + 1 /\ UNCHANGED <<made, bucket, asking, wide>>
      /\ passed' = {e \in passed : second' - e.at < PerMinute} /\ passed' \subseteq passed
    BY DEF Wait, RateInv, PassedTyped
<1>2. PassedTyped'
    <2>1. IsFiniteSet(passed')
        BY <1>1, FS_Subset DEF RateInv, PassedTyped
    <2>2. ASSUME NEW e \in passed
          PROVE  /\ e.at \in Nat /\ e.at <= second /\ e.nth \in Nat
                 /\ e.key[1] = "ip" => e.key = IpKey(e.from)
        BY DEF RateInv, PassedTyped
    <2>3. ASSUME NEW e \in passed'
          PROVE  e \in passed /\ second' - e.at < PerMinute
        BY <1>1
    <2>4. ASSUME NEW e \in passed'
          PROVE  /\ e.at \in Nat /\ e.at <= second' /\ e.at # second' /\ e.nth \in Nat
                 /\ second' - e.at < PerMinute
                 /\ e.key[1] = "ip" => e.key = IpKey(e.from)
        <3>1. e \in passed /\ second' - e.at < PerMinute
            BY <2>3
        <3>2. /\ e.at \in Nat /\ e.at <= second /\ e.nth \in Nat
              /\ e.key[1] = "ip" => e.key = IpKey(e.from)
            BY <3>1, <2>2
        <3> QED
            BY <1>1, <3>1, <3>2
    <2>5. second' \in Nat
        BY <1>1
    <2> QED
        BY <2>1, <2>4, <2>5 DEF PassedTyped
<1>3. InBucket' /\ BucketsGood' /\ AskingGood' /\ RateTyped'
    BY <1>1 DEF RateInv, InBucket, BucketsGood, AskingGood, RateTyped
<1>4. ASSUME NEW n \in DOMAIN made PROVE WithinBudget(n)'
    <2>1. WithinBudget(n) /\ PassedTyped
        BY DEF RateInv
    <2>2. ASSUME NEW t \in Nat
          PROVE  /\ Cardinality(SpentSince(n, t)) \in Nat /\ Cardinality(SpentSince(n, t)') \in Nat
                 /\ Cardinality(SpentSince(n, t)') <= Cardinality(SpentSince(n, t))
        <3>1. SpentSince(n, t)' = {e \in passed' : e.bucket = n /\ e.at >= t}
            BY DEF SpentSince
        <3>2. Cardinality(SpentSince(n, t)) \in Nat
            BY <2>1, SpentFinite
        <3>3. LET s == {e \in passed' : e.bucket = n /\ e.at >= t} IN
              Cardinality(s) \in Nat /\ Cardinality(s) <= Cardinality(SpentSince(n, t))
            BY <1>1, <2>1, FewerSpent
        <3> QED
            BY <3>1, <3>2, <3>3
    <2>3. ASSUME NEW t \in Nat
          PROVE  Cardinality(SpentSince(n, t)') * PerMinute <= Cardinality(SpentSince(n, t)) * PerMinute
        BY <2>2, Products
    <2> DEFINE b == made[n]
    <2>4. /\ b \in Bucket /\ b.last <= second /\ b.parts <= b.capacity * PerMinute
          /\ b.capacity = AuthPerMinute \/ (b.capacity = RequestsPerMinute /\ b.key \in wide)
        BY <2>1 DEF WithinBudget, RateInv, RateTyped
    <2>5. ASSUME NEW t \in Nat
          PROVE  Cardinality(SpentSince(n, t)') * PerMinute + b.parts
                    <= b.capacity * PerMinute + Elapsed(t, b.last) * b.capacity
        <3>1. Cardinality(SpentSince(n, t)) * PerMinute + b.parts
                    <= b.capacity * PerMinute + Elapsed(t, b.last) * b.capacity
            BY <2>1 DEF WithinBudget
        <3>2. /\ Cardinality(SpentSince(n, t)) * PerMinute \in Nat
              /\ Cardinality(SpentSince(n, t)') * PerMinute \in Nat
              /\ b.parts \in Nat /\ b.capacity * PerMinute \in Nat
            BY <2>2, <2>4, Products DEF Bucket
        <3>3. Elapsed(t, b.last) \in Nat /\ b.capacity \in Nat
            BY <2>4 DEF Elapsed, Bucket
        <3>4. Elapsed(t, b.last) * b.capacity \in Nat
            BY <3>3, Products
        <3> QED
            BY <2>3, <3>1, <3>2, <3>4
    <2>6. made'[n] = b /\ b.last <= second'
        BY <1>1, <2>4 DEF Bucket
    <2> HIDE DEF b
    <2> QED
        BY <1>1, <2>4, <2>5, <2>6 DEF WithinBudget
<1> QED
    BY <1>1, <1>2, <1>3, <1>4 DEF RateInv

\* Sweeping keeps the buckets that let a request through in the last minute, but those that were
\* swept before, and changes none.
LEMMA SweepKeeps ==
    ASSUME RateInv
    PROVE  /\ DOMAIN sweep(bucket) \subseteq DOMAIN bucket
           /\ \A k \in DOMAIN sweep(bucket) : sweep(bucket)[k] = bucket[k]
           /\ \A e \in passed : ~e.late => e.key \in DOMAIN sweep(bucket)
<1> DEFINE kept == {j \in DOMAIN bucket : second - made[bucket[j]].last <= IdleAfter}
<1>1. sweep(bucket) = IF Crowded(bucket) THEN [k \in kept |-> bucket[k]] ELSE bucket
    BY DEF sweep
<1>2. ASSUME NEW e \in passed, ~e.late
      PROVE  e.key \in DOMAIN bucket /\ e.key \in kept
    <2>1. e.at \in Nat /\ second - e.at < PerMinute /\ second \in Nat
        BY DEF RateInv, PassedTyped
    <2>2. /\ e.bucket \in DOMAIN made /\ e.at <= made[e.bucket].last
          /\ e.key \in DOMAIN bucket /\ bucket[e.key] = e.bucket
        BY <1>2 DEF RateInv, InBucket
    <2>3. made[e.bucket].last \in Nat
        BY <2>2, MadeIsTyped DEF RateInv
    <2>4. PerMinute \in Nat /\ IdleAfter \in Nat /\ PerMinute <= IdleAfter
        BY RateLimiterAssumption
    <2> QED
        BY <2>1, <2>2, <2>3, <2>4
<1>3. CASE ~Crowded(bucket)
    BY <1>1, <1>2, <1>3
<1>4. CASE Crowded(bucket)
    <2>1. sweep(bucket) = [k \in kept |-> bucket[k]]
        BY <1>1, <1>4
    <2> QED
        BY <2>1, <1>2
<1> QED
    BY <1>3, <1>4

\* A lookup spends nothing: a bucket it makes is full, and nobody has spent from it.
LEMMA GetKeeps ==
    ASSUME RateInv, NEW v \in Visitor, NEW r \in WebRequest, get(v, r)
    PROVE  RateInv'
<1> DEFINE key == rateLimitKey(r)
           rpm == IF authEndpoint(r) THEN AuthPerMinute ELSE RequestsPerMinute
           found == key \in DOMAIN bucket
<1>0. PICK place : place = IF found THEN bucket[key] ELSE Len(made) + 1
    OBVIOUS
<1> DEFINE mine == [bucket |-> place, from |-> Origin(r), fit |-> withBodyLimit(r) /\ withCSRF(r)]
<1>1. /\ RateTyped /\ PassedTyped /\ InBucket /\ BucketsGood /\ AskingGood
      /\ \A n \in DOMAIN made : WithinBudget(n)
      /\ made \in Seq(Bucket) /\ second \in Nat
    BY DEF RateInv, RateTyped
<1>2. /\ asking' = [asking EXCEPT ![v] = mine] /\ second' = second /\ passed' = passed
      /\ \/ found /\ UNCHANGED <<made, bucket, lastSweep, wide>>
         \/ /\ ~found
            /\ made' = Append(made, newBucket(key, rpm))
            /\ bucket' = [k \in {key} \cup DOMAIN sweep(bucket) |-> IF k = key THEN place ELSE sweep(bucket)[k]]
            /\ wide' = IF authEndpoint(r) THEN wide ELSE wide \cup {key}
    BY <1>0 DEF get
<1>3. /\ key \in Keys /\ Origin(r) \in Peer \cup {""}
      /\ key[1] = "ip" => key = IpKey(Origin(r))
    BY KindOfKey
<1>4. mine \in Asks /\ mine.bucket = place /\ mine.from = Origin(r)
    <2>1. place \in Nat
        BY <1>0, <1>1 DEF BucketsGood
    <2>2. (withBodyLimit(r) /\ withCSRF(r)) \in BOOLEAN
        OBVIOUS
    <2> QED
        BY <2>1, <2>2, <1>3 DEF Asks
<1> HIDE DEF mine
<1>5. /\ asking' \in [Visitor -> Asks] /\ asking'[v] = mine
      /\ \A w \in Visitor : w # v => asking'[w] = asking[w]
    BY <1>1, <1>2, <1>4 DEF RateTyped
<1>6. PassedTyped'
    BY <1>1, <1>2 DEF PassedTyped
<1>7. ASSUME NEW n, NEW t PROVE SpentSince(n, t)' = SpentSince(n, t)
    BY <1>2 DEF SpentSince
<1>8. CASE found /\ UNCHANGED <<made, bucket, wide>>
    <2>1. place = bucket[key] /\ place \in DOMAIN made /\ made[place].key = key
        BY <1>0, <1>1, <1>8 DEF BucketsGood
    <2>2. RateTyped' /\ InBucket' /\ BucketsGood'
        BY <1>1, <1>2, <1>5, <1>8 DEF RateTyped, InBucket, BucketsGood
    <2> HIDE DEF key
    <2>3. ASSUME NEW w \in Visitor, asking'[w].bucket # 0
          PROVE  LET n == asking'[w].bucket
                 IN n \in DOMAIN made /\ (made[n].key[1] = "ip" => made[n].key = IpKey(asking'[w].from))
        BY <2>1, <2>3, <1>1, <1>3, <1>4, <1>5 DEF AskingGood
    <2>4. AskingGood'
        BY <2>3, <1>8 DEF AskingGood
    <2>5. ASSUME NEW n \in DOMAIN made PROVE WithinBudget(n)'
        <3>1. WithinBudget(n)
            BY <1>1
        <3> QED
            BY <3>1, <1>2, <1>7, <1>8 DEF WithinBudget
    <2> QED
        BY <2>2, <2>4, <2>5, <1>6, <1>8 DEF RateInv
<1>9. CASE /\ ~found
           /\ made' = Append(made, newBucket(key, rpm))
           /\ bucket' = [k \in {key} \cup DOMAIN sweep(bucket) |-> IF k = key THEN place ELSE sweep(bucket)[k]]
           /\ wide' = IF authEndpoint(r) THEN wide ELSE wide \cup {key}
    <2> DEFINE new == newBucket(key, rpm)
    <2>1. PerMinute \in Nat \ {0} /\ rpm \in Nat \ {0} /\ rpm * PerMinute \in Nat
        <3>1. PerMinute \in Nat \ {0} /\ rpm \in Nat \ {0}
            BY RateLimiterAssumption
        <3> QED
            BY <3>1, Products
    <2>2. rpm = AuthPerMinute \/ (rpm = RequestsPerMinute /\ key \in wide')
        BY <1>9
    <2>3. wide \subseteq wide'
        BY <1>9
    <2>4. place = Len(made) + 1 /\ place \notin DOMAIN made /\ place # 0
        BY <1>0, <1>1, <1>9
    <2> HIDE DEF rpm, key
    <2>5. new = [key |-> key, parts |-> rpm * PerMinute, last |-> second, capacity |-> rpm] /\ new \in Bucket
        BY <2>1, <1>1, <1>3 DEF newBucket, Bucket
    <2>6. /\ made' \in Seq(Bucket) /\ DOMAIN made' = DOMAIN made \cup {place} /\ made'[place] = new
          /\ \A n \in DOMAIN made : made'[n] = made[n] /\ n # place
        BY <1>1, <1>9, <2>4, <2>5
    <2> HIDE DEF new
    <2>7. /\ key \in DOMAIN bucket' /\ bucket'[key] = place
          /\ \A k \in DOMAIN bucket' : k = key \/ (k \in DOMAIN bucket /\ bucket'[k] = bucket[k])
          /\ \A e \in passed : ~e.late => e.key \in DOMAIN bucket' /\ bucket'[e.key] = bucket[e.key]
        <3>1. \A e \in passed : ~e.late => e.key # key
            BY <1>1, <1>9 DEF InBucket
        <3> QED
            BY <3>1, <1>9, SweepKeeps
    <2>8. RateTyped'
        BY <1>2, <1>5, <2>6, <1>1 DEF RateTyped
    <2>9. InBucket'
        BY <1>1, <1>2, <2>6, <2>7 DEF InBucket
    <2>10. BucketsGood'
        BY <1>1, <2>5, <2>6, <2>7 DEF BucketsGood
    <2>11. ASSUME NEW w \in Visitor, asking'[w].bucket # 0
           PROVE  LET n == asking'[w].bucket
                  IN n \in DOMAIN made' /\ (made'[n].key[1] = "ip" => made'[n].key = IpKey(asking'[w].from))
        <3>1. CASE w = v
            <4>1. asking'[w].bucket = place /\ asking'[w].from = Origin(r) /\ made'[place].key = key
                BY <3>1, <1>4, <1>5, <2>5, <2>6
            <4> QED
                BY <4>1, <1>3, <2>6
        <3>2. CASE w # v
            BY <3>2, <2>11, <1>1, <1>5, <2>6 DEF AskingGood
        <3> QED
            BY <3>1, <3>2
    <2>12. AskingGood'
        BY <2>11 DEF AskingGood
    <2>13. ASSUME NEW n \in DOMAIN made PROVE WithinBudget(n)'
        <3>1. WithinBudget(n)
            BY <1>1
        <3> QED
            BY <3>1, <1>2, <1>7, <2>3, <2>6 DEF WithinBudget
    <2>14. WithinBudget(place)'
        <3>1. ASSUME NEW t \in Nat
              PROVE  Cardinality(SpentSince(place, t)') * PerMinute + new.parts
                       <= new.capacity * PerMinute + Elapsed(t, new.last) * new.capacity
            <4>1. SpentSince(place, t)' = {}
                <5>1. \A e \in passed : e.bucket # place
                    BY <1>1, <2>4 DEF InBucket
                <5> QED
                    BY <5>1, <1>2 DEF SpentSince
            <4>2. Cardinality(SpentSince(place, t)') = 0 /\ 0 * PerMinute = 0
                BY <4>1, <2>1, FS_EmptySet
            <4>3. Elapsed(t, second) \in Nat
                BY <1>1 DEF Elapsed
            <4>4. Elapsed(t, second) * rpm \in Nat
                BY <4>3, <2>1, Products
            <4> QED
                BY <2>5, <2>1, <4>2, <4>4
        <3>2. new.last <= second' /\ new.parts <= new.capacity * PerMinute /\ new.key = key /\ new.capacity = rpm
            BY <1>1, <1>2, <2>1, <2>5
        <3> QED
            BY <3>1, <3>2, <2>2, <2>6 DEF WithinBudget
    <2> QED
        BY <1>6, <2>6, <2>8, <2>9, <2>10, <2>12, <2>13, <2>14 DEF RateInv
<1> QED
    BY <1>2, <1>8, <1>9

LEMMA AllowKeeps ==
    ASSUME RateInv, NEW v \in Visitor, Allow(v)
    PROVE  RateInv'
<1>0. PICK place : place = asking[v].bucket
    OBVIOUS
<1> DEFINE c == made[place]
           b == refilled(c)
           ok == b.parts >= PerMinute
           left == IF ok THEN [b EXCEPT !.parts = @ - PerMinute] ELSE b
           now == {e \in passed : e.bucket = place /\ e.at = second}
           nth == Cardinality(now)
           late == \A k \in DOMAIN bucket : bucket[k] # place
           new == [from |-> asking[v].from, key |-> b.key, bucket |-> place, late |-> late,
                   at |-> second, nth |-> nth]
<1>1. /\ RateTyped /\ PassedTyped /\ InBucket /\ BucketsGood /\ AskingGood
      /\ \A n \in DOMAIN made : WithinBudget(n)
      /\ second \in Nat /\ IsFiniteSet(passed) /\ made \in Seq(Bucket)
    BY DEF RateInv, PassedTyped, RateTyped
<1>2. /\ place # 0 /\ asking' = [asking EXCEPT ![v] = Nobody]
      /\ made' = [made EXCEPT ![place] = left] /\ second' = second /\ UNCHANGED <<bucket, wide>>
      /\ passed' = passed \/ (ok /\ passed' = passed \cup {new})
    BY <1>0 DEF Allow
<1>3. PerMinute \in Nat \ {0}
    BY RateLimiterAssumption
<1>4. /\ place \in DOMAIN made
      /\ c.key[1] = "ip" => c.key = IpKey(asking[v].from)
      /\ WithinBudget(place)
    BY <1>0, <1>1, <1>2 DEF AskingGood
<1>5. /\ asking' \in [Visitor -> Asks] /\ asking'[v].bucket = 0
      /\ \A w \in Visitor : w # v => asking'[w] = asking[w]
    <2>1. Nobody \in Asks /\ Nobody.bucket = 0
        BY DEF Nobody, Asks
    <2> QED
        BY <2>1, <1>1, <1>2 DEF RateTyped
<1>6. /\ c \in Bucket /\ c.last <= second /\ c.parts <= c.capacity * PerMinute
      /\ c.capacity = AuthPerMinute \/ (c.capacity = RequestsPerMinute /\ c.key \in wide)
      /\ \A e \in passed : e.bucket = place => e.at <= c.last
      /\ \A t \in Nat : Cardinality(SpentSince(place, t)) * PerMinute + c.parts
                          <= c.capacity * PerMinute + Elapsed(t, c.last) * c.capacity
    <2>1. c \in Bucket
        BY <1>1, <1>4, MadeIsTyped
    <2>2. \A e \in passed : e.bucket = place => e.at <= c.last
        BY <1>1 DEF InBucket
    <2> QED
        BY <2>1, <2>2, <1>4 DEF WithinBudget
<1>7. /\ c.parts \in Nat /\ c.last \in Nat /\ c.capacity \in Nat \ {0} /\ c.key \in Keys
      /\ c.capacity * PerMinute \in Nat
    BY <1>3, <1>6, Products DEF Bucket
<1>8. b = [key |-> c.key, parts |-> LesserOf(c.parts + (second - c.last) * c.capacity, c.capacity * PerMinute),
           last |-> second, capacity |-> c.capacity]
    <2> HIDE DEF c
    <2>1. c = [key |-> c.key, parts |-> c.parts, last |-> c.last, capacity |-> c.capacity]
        BY <1>6 DEF Bucket
    <2>2. b = [c EXCEPT !.parts = LesserOf(c.parts + (second - c.last) * c.capacity, c.capacity * PerMinute),
                        !.last = second]
        BY DEF refilled, c
    <2> QED
        BY <2>1, <2>2
<1> HIDE DEF c, b
<1>9. ASSUME NEW t \in Nat
      PROVE  /\ b.parts \in Nat /\ b.parts <= c.capacity * PerMinute
             /\ Cardinality(SpentSince(place, t)) \in Nat
             /\ Cardinality(SpentSince(place, t)) * PerMinute \in Nat
             /\ Cardinality(SpentSince(place, t)) * PerMinute + b.parts
                  <= c.capacity * PerMinute + Elapsed(t, second) * c.capacity
    <2> DEFINE n == Cardinality(SpentSince(place, t))
               spent == n * PerMinute
    <2>1. n \in Nat
        BY <1>1, SpentFinite
    <2>2. spent \in Nat
        BY <2>1, <1>3, Products
    <2>3. t > c.last => spent = 0
        <3>1. ASSUME t > c.last PROVE SpentSince(place, t) = {}
            <4>1. ASSUME NEW e \in passed, e.bucket = place, e.at >= t PROVE FALSE
                <5>1. e.at \in Nat /\ e.at <= c.last
                    BY <4>1, <1>1, <1>6 DEF PassedTyped
                <5> QED
                    BY <5>1, <4>1, <3>1, <1>7
            <4> QED
                BY <4>1 DEF SpentSince
        <3>2. t > c.last => n = 0
            BY <3>1, FS_EmptySet
        <3> QED
            BY <3>2, <1>3
    <2>4. spent + c.parts <= c.capacity * PerMinute + Elapsed(t, c.last) * c.capacity
        BY <1>6
    <2> HIDE DEF n, spent
    <2>5. /\ LesserOf(c.parts + (second - c.last) * c.capacity, c.capacity * PerMinute) \in Nat
          /\ LesserOf(c.parts + (second - c.last) * c.capacity, c.capacity * PerMinute) <= c.capacity * PerMinute
          /\ spent + LesserOf(c.parts + (second - c.last) * c.capacity, c.capacity * PerMinute)
               <= c.capacity * PerMinute + Elapsed(t, second) * c.capacity
        <3> DEFINE full == c.capacity * PerMinute
        <3>1. full \in Nat /\ c.parts <= full /\ c.last <= second
              /\ spent + c.parts <= full + Elapsed(t, c.last) * c.capacity
            BY <1>6, <1>7, <2>4
        <3> HIDE DEF full
        <3>2. /\ LesserOf(c.parts + (second - c.last) * c.capacity, full) \in Nat
              /\ LesserOf(c.parts + (second - c.last) * c.capacity, full) <= full
              /\ spent + LesserOf(c.parts + (second - c.last) * c.capacity, full)
                   <= full + Elapsed(t, second) * c.capacity
            BY <3>1, <2>2, <2>3, <1>1, <1>7, RefillKeeps
        <3> QED
            BY <3>2 DEF full
    <2>6. b.parts = LesserOf(c.parts + (second - c.last) * c.capacity, c.capacity * PerMinute)
        BY <1>8
    <2> QED
        BY <2>1, <2>2, <2>5, <2>6 DEF n, spent
<1>10. b.parts \in Nat /\ b.parts <= c.capacity * PerMinute
    <2>1. 0 \in Nat
        OBVIOUS
    <2> QED
        BY <2>1, <1>9
\* What is left in it.
<1>11. /\ left \in Bucket /\ left.last = second /\ left.capacity = c.capacity /\ left.key = c.key
       /\ left.parts = IF ok THEN b.parts - PerMinute ELSE b.parts
    <2>1. b = [key |-> c.key, parts |-> b.parts, last |-> second, capacity |-> c.capacity]
        BY <1>8
    <2>2. CASE ok
        <3>1. left = [key |-> c.key, parts |-> b.parts - PerMinute, last |-> second, capacity |-> c.capacity]
            BY <2>1, <2>2
        <3>2. b.parts - PerMinute \in Nat
            BY <2>2, <1>3, <1>10
        <3> QED
            BY <2>2, <3>1, <3>2, <1>1, <1>7 DEF Bucket
    <2>3. CASE ~ok
        <3>1. left = b
            BY <2>3
        <3> HIDE DEF left
        <3> QED
            BY <2>1, <2>3, <3>1, <1>1, <1>7, <1>10 DEF Bucket
    <2> QED
        BY <2>2, <2>3
<1> HIDE DEF left
<1>12. left.parts \in Nat /\ left.parts <= c.capacity * PerMinute
    BY <1>3, <1>7, <1>10, <1>11
<1>13. /\ made' \in Seq(Bucket) /\ DOMAIN made' = DOMAIN made /\ made'[place] = left
       /\ \A n \in DOMAIN made : n # place => made'[n] = made[n]
    BY <1>1, <1>2, <1>4, <1>11, ExceptSeq
<1>14. nth \in Nat /\ IsFiniteSet(now)
    <2>1. now \subseteq passed
        OBVIOUS
    <2> QED
        BY <2>1, <1>1, FS_Subset, FS_CardinalityType
<1>15. new \notin passed
    BY <1>1, <1>14 DEF PassedTyped
<1>16. /\ b.key = c.key /\ (c.key[1] = "ip" => c.key = IpKey(asking[v].from))
    BY <1>4, <1>8 DEF c
<1> HIDE DEF nth
<1>17. /\ new.key = c.key /\ new.at = second /\ new.nth = nth /\ new.bucket = place
       /\ new.late = late /\ new.from = asking[v].from
    BY <1>16
<1> HIDE DEF new
\* What the bucket has spent.
<1>18. ASSUME NEW t \in Nat
       PROVE  /\ Cardinality(SpentSince(place, t)') \in Nat
              /\ Cardinality(SpentSince(place, t)') * PerMinute + left.parts
                   <= Cardinality(SpentSince(place, t)) * PerMinute + b.parts
    <2> DEFINE S == SpentSince(place, t)
    <2>1. IsFiniteSet(S) /\ Cardinality(S) \in Nat /\ S \subseteq passed
        BY <1>1, SpentFinite DEF SpentSince
    <2>2. CASE passed' = passed
        <3>1. SpentSince(place, t)' = S
            BY <2>2 DEF SpentSince
        <3>2. left.parts <= b.parts
            BY <1>3, <1>10, <1>11
        <3>3. Cardinality(S) * PerMinute \in Nat
            BY <2>1, <1>3, Products
        <3> HIDE DEF S
        <3> QED
            BY <2>1, <3>1, <3>2, <3>3, <1>10, <1>12 DEF S
    <2>3. CASE ok /\ passed' = passed \cup {new}
        <3>1. SpentSince(place, t)' = S \/ SpentSince(place, t)' = S \cup {new}
            BY <2>3, <1>17 DEF SpentSince
        <3>2. Cardinality(S \cup {new}) = Cardinality(S) + 1
            BY <2>1, <1>15, FS_AddElement
        <3>3. Cardinality(SpentSince(place, t)') \in Nat
              /\ Cardinality(SpentSince(place, t)') <= Cardinality(S) + 1
            <4>1. CASE SpentSince(place, t)' = S
                BY <2>1, <4>1
            <4>2. CASE SpentSince(place, t)' = S \cup {new}
                BY <2>1, <3>2, <4>2
            <4> QED
                BY <3>1, <4>1, <4>2
        <3>4. left.parts = b.parts - PerMinute
            BY <2>3, <1>11
        <3> DEFINE x == Cardinality(S)
                   y == Cardinality(SpentSince(place, t)')
        <3>5. x \in Nat /\ y \in Nat /\ y <= x + 1 /\ PerMinute \in Nat
            BY <2>1, <3>3, <1>3
        <3> HIDE DEF x, y
        <3>6. y * PerMinute <= (x + 1) * PerMinute /\ (x + 1) * PerMinute = x * PerMinute + PerMinute
              /\ x * PerMinute \in Nat /\ y * PerMinute \in Nat
            BY <3>5, Products
        <3>7. y * PerMinute + left.parts <= x * PerMinute + b.parts
            BY <3>4, <3>5, <3>6, <1>10
        <3> QED
            BY <3>3, <3>7 DEF x, y
    <2> QED
        BY <1>2, <2>2, <2>3
<1>19. WithinBudget(place)'
    <2>1. ASSUME NEW t \in Nat
          PROVE  Cardinality(SpentSince(place, t)') * PerMinute + left.parts
                   <= c.capacity * PerMinute + Elapsed(t, second) * c.capacity
        <3> DEFINE x == Cardinality(SpentSince(place, t)) * PerMinute
                   y == Cardinality(SpentSince(place, t)') * PerMinute
                   z == c.capacity * PerMinute
                   u == Elapsed(t, second) * c.capacity
        <3>1. x \in Nat /\ z \in Nat /\ x + b.parts <= z + u
            BY <1>7, <1>9
        <3>2. Elapsed(t, second) \in Nat
            BY <1>1 DEF Elapsed
        <3>3. u \in Nat
            BY <3>2, <1>7, Products
        <3>4. y \in Nat /\ y + left.parts <= x + b.parts
            BY <1>3, <1>18, Products
        <3> HIDE DEF x, y, z, u
        <3>5. y + left.parts <= z + u
            BY <3>1, <3>3, <3>4, <1>10, <1>12
        <3> QED
            BY <3>5 DEF y, z, u
    <2>2. c.capacity = AuthPerMinute \/ (c.capacity = RequestsPerMinute /\ c.key \in wide')
        BY <1>2, <1>6
    <2>3. second <= second
        BY <1>1
    <2> QED
        BY <2>1, <2>2, <2>3, <1>2, <1>11, <1>12, <1>13 DEF WithinBudget
<1>20. ASSUME NEW n \in DOMAIN made, n # place
       PROVE  WithinBudget(n)'
    <2>1. WithinBudget(n) /\ made'[n] = made[n] /\ second' = second /\ wide' = wide
        BY <1>1, <1>2, <1>13, <1>20
    <2>2. ASSUME NEW t
          PROVE  SpentSince(n, t)' = SpentSince(n, t)
        BY <1>2, <1>17, <1>20 DEF SpentSince
    <2> QED
        BY <2>1, <2>2 DEF WithinBudget
<1>21. \A n \in DOMAIN made : made'[n].key = made[n].key
    BY <1>11, <1>13 DEF c
<1>22. ASSUME NEW e \in passed'
       PROVE  /\ e.bucket \in DOMAIN made' /\ made'[e.bucket].key = e.key /\ e.at <= made'[e.bucket].last
              /\ ~e.late => e.key \in DOMAIN bucket' /\ bucket'[e.key] = e.bucket
    <2>1. CASE e \in passed
        <3>1. /\ e.bucket \in DOMAIN made /\ made[e.bucket].key = e.key /\ e.at <= made[e.bucket].last
              /\ e.at \in Nat /\ e.at <= second
              /\ ~e.late => e.key \in DOMAIN bucket /\ bucket[e.key] = e.bucket
            BY <2>1, <1>1 DEF InBucket, PassedTyped
        <3>2. e.at <= made'[e.bucket].last
            BY <3>1, <1>11, <1>13
        <3> QED
            BY <3>1, <3>2, <1>2, <1>13, <1>21
    <2>2. CASE e = new
        <3>1. ~late => c.key \in DOMAIN bucket /\ bucket[c.key] = place
            BY <1>1 DEF BucketsGood, c
        <3>2. second <= second
            BY <1>1
        <3> HIDE DEF late
        <3> QED
            BY <2>2, <3>1, <3>2, <1>2, <1>4, <1>11, <1>13, <1>17
    <2> QED
        BY <1>2, <2>1, <2>2
<1>23. InBucket' /\ BucketsGood' /\ AskingGood' /\ RateTyped'
    <2>1. InBucket'
        BY <1>22 DEF InBucket
    <2>2. BucketsGood'
        BY <1>1, <1>2, <1>13, <1>21 DEF BucketsGood
    <2>3. AskingGood'
        BY <1>1, <1>5, <1>13, <1>21 DEF AskingGood
    <2> QED
        BY <2>1, <2>2, <2>3, <1>1, <1>2, <1>5, <1>13 DEF RateTyped
<1>24. PassedTyped'
    <2>1. IsFiniteSet(passed')
        BY <1>1, <1>2, FS_AddElement
    <2>2. CASE passed' = passed
        BY <2>2, <1>1, <1>2 DEF PassedTyped
    <2>3. CASE passed' = passed \cup {new}
        <3>1. {e \in passed' : e.bucket = place /\ e.at = second'} = now \cup {new}
            BY <2>3, <1>2, <1>17
        <3>2. new \notin now /\ IsFiniteSet(now)
            BY <1>14, <1>15
        <3>3. Cardinality(now \cup {new}) = nth + 1
            BY <3>2, FS_AddElement DEF nth
        <3>4. ASSUME NEW n, n # place
              PROVE  {f \in passed' : f.bucket = n /\ f.at = second'} = {f \in passed : f.bucket = n /\ f.at = second}
            BY <2>3, <3>4, <1>2, <1>17
        <3>5. ASSUME NEW e \in passed
              PROVE  /\ e.at \in Nat /\ e.at <= second /\ second - e.at < PerMinute /\ e.nth \in Nat
                     /\ e.key[1] = "ip" => e.key = IpKey(e.from)
                     /\ e.at = second /\ e.bucket = place => e.nth < nth + 1
                     /\ e.at = second => e.nth < Cardinality({f \in passed : f.bucket = e.bucket /\ f.at = second})
            BY <1>1, <1>14 DEF PassedTyped, nth
        <3>6. /\ new.at \in Nat /\ new.at <= second /\ second - new.at < PerMinute /\ new.nth \in Nat
              /\ new.key[1] = "ip" => new.key = IpKey(new.from)
              /\ new.nth < nth + 1
            BY <1>1, <1>3, <1>14, <1>16, <1>17
        <3> HIDE DEF now
        <3>7. ASSUME NEW e \in passed'
              PROVE  /\ e.at \in Nat /\ e.at <= second /\ second - e.at < PerMinute /\ e.nth \in Nat
                     /\ e.key[1] = "ip" => e.key = IpKey(e.from)
                     /\ e.at = second =>
                          e.nth < Cardinality({f \in passed' : f.bucket = e.bucket /\ f.at = second'})
            <4>1. CASE e.bucket = place
                BY <2>3, <3>1, <3>3, <3>5, <3>6, <4>1
            <4>2. CASE e.bucket # place
                BY <2>3, <3>4, <3>5, <4>2, <1>17
            <4> QED
                BY <4>1, <4>2
        <3> QED
            BY <2>1, <3>7, <1>1, <1>2 DEF PassedTyped
    <2> QED
        BY <1>2, <2>2, <2>3
<1> QED
    BY <1>13, <1>19, <1>20, <1>23, <1>24 DEF RateInv

LEMMA RateStep == RateInv /\ [RateNext]_rateVars => RateInv'
<1> SUFFICES ASSUME RateInv, [RateNext]_rateVars PROVE RateInv'
    OBVIOUS
<1>1. CASE Pass
    BY <1>1, GetKeeps, AllowKeeps DEF Pass
<1>2. CASE Wait
    BY <1>2, WaitKeeps
<1>3. CASE UNCHANGED rateVars
    BY <1>3 DEF RateInv, RateTyped, PassedTyped, InBucket, BucketsGood, AskingGood, WithinBudget,
                SpentSince, rateVars
<1> QED
    BY <1>1, <1>2, <1>3 DEF RateNext

\* What a bucket has let through in the last minute is at most twice what it holds.
LEMMA TwiceAtMost ==
    ASSUME RateInv, NEW place \in DOMAIN made, NEW mine, mine \subseteq passed,
           \A f \in mine : f.bucket = place
    PROVE  /\ made[place].capacity \in Nat /\ Cardinality(mine) \in Nat
           /\ Cardinality(mine) <= 2 * made[place].capacity
<1> DEFINE b == made[place]
           t == IF second < PerMinute THEN 0 ELSE second - PerMinute + 1
           n == Cardinality(SpentSince(place, t))
<1>1. /\ PassedTyped /\ second \in Nat /\ PerMinute \in Nat \ {0} /\ t \in Nat
    <2>1. PassedTyped /\ second \in Nat
        BY DEF RateInv, PassedTyped
    <2>2. PerMinute \in Nat \ {0}
        BY RateLimiterAssumption
    <2> QED
        BY <2>1, <2>2
<1>2. mine \subseteq SpentSince(place, t)
    <2>1. ASSUME NEW f \in mine
          PROVE  f \in passed /\ f.bucket = place /\ f.at >= t
        <3>1. f \in passed /\ f.at \in Nat /\ second - f.at < PerMinute
            BY <2>1, <1>1 DEF PassedTyped
        <3> QED
            BY <3>1, <1>1
    <2> QED
        BY <2>1 DEF SpentSince
<1>3. n \in Nat /\ Cardinality(mine) \in Nat /\ Cardinality(mine) <= n
    BY <1>1, <1>2, SpentFinite, FS_Subset, FS_CardinalityType
<1>4. /\ b \in Bucket /\ b.last <= second
      /\ n * PerMinute + b.parts <= b.capacity * PerMinute + Elapsed(t, b.last) * b.capacity
    BY <1>1 DEF WithinBudget, RateInv, RateTyped
<1>5. b.capacity \in Nat /\ b.parts \in Nat /\ b.last \in Nat
    BY <1>4 DEF Bucket
<1>6. Elapsed(t, b.last) \in Nat /\ Elapsed(t, b.last) <= PerMinute
    BY <1>1, <1>4, <1>5 DEF Elapsed
<1> HIDE DEF n, b, t
<1>7. n <= 2 * b.capacity
    <2> DEFINE cap == b.capacity
               x == Elapsed(t, b.last)
    <2>1. cap \in Nat /\ x \in Nat /\ x <= PerMinute
        BY <1>5, <1>6
    <2> HIDE DEF cap, x
    <2>2. x * cap <= PerMinute * cap
        BY <2>1, <1>1, Products
    <2>3. n * PerMinute + b.parts <= cap * PerMinute + x * cap
        BY <1>4 DEF cap, x
    <2>4. /\ n * PerMinute \in Nat /\ cap * PerMinute \in Nat /\ x * cap \in Nat
          /\ PerMinute * cap = cap * PerMinute
        BY <2>1, <1>1, <1>3, Products
    <2>5. n * PerMinute <= cap * PerMinute + cap * PerMinute
        BY <2>2, <2>3, <2>4, <1>5
    <2>6. ASSUME n > 2 * cap PROVE FALSE
        <3>1. (cap + cap) + 1 <= n /\ cap + cap \in Nat
            BY <2>1, <2>6, <1>3
        <3>2. ((cap + cap) + 1) * PerMinute <= n * PerMinute
            BY <3>1, <1>1, <1>3, Products
        <3>3. /\ ((cap + cap) + 1) * PerMinute = (cap + cap) * PerMinute + PerMinute
              /\ (cap + cap) * PerMinute = cap * PerMinute + cap * PerMinute
            BY <3>1, <2>1, <1>1, Products
        <3> QED
            BY <3>2, <3>3, <2>4, <2>5, <1>1
    <2>7. n <= 2 * cap
        BY <2>6, <2>1, <1>3
    <2> QED
        BY <2>7 DEF cap
<1>8. Cardinality(mine) <= 2 * b.capacity
    BY <1>3, <1>5, <1>7
<1> QED
    BY <1>3, <1>5, <1>8 DEF b

LEMMA RateHolds == RateInv => RateBound
<1> SUFFICES ASSUME RateInv, NEW e \in passed, e.key[1] = "ip"
             PROVE  LET prompt == {f \in passed : f.from = e.from /\ f.key[1] = "ip" /\ ~f.late}
                        shared == {f \in passed : f.bucket = e.bucket}
                        budget == IF <<"ip", e.from>> \in wide
                                  THEN LargerOf(RequestsPerMinute, AuthPerMinute) ELSE AuthPerMinute
                    IN Cardinality(prompt) <= 2 * budget /\ Cardinality(shared) <= 2 * budget
    BY DEF RateBound
<1> DEFINE prompt == {f \in passed : f.from = e.from /\ f.key[1] = "ip" /\ ~f.late}
           shared == {f \in passed : f.bucket = e.bucket}
           budget == IF <<"ip", e.from>> \in wide
                     THEN LargerOf(RequestsPerMinute, AuthPerMinute) ELSE AuthPerMinute
<1>1. RequestsPerMinute \in Nat /\ AuthPerMinute \in Nat
    BY RateLimiterAssumption
<1>2. ASSUME NEW f \in passed, f.from = e.from, f.key[1] = "ip"
      PROVE  f.key = IpKey(e.from) /\ f.bucket \in DOMAIN made /\ made[f.bucket].key = f.key
    BY <1>2 DEF RateInv, PassedTyped, InBucket
<1>3. ASSUME NEW n \in DOMAIN made, made[n].key = IpKey(e.from)
      PROVE  budget \in Nat /\ (made[n].capacity \in Nat => made[n].capacity <= budget)
    <2>1. \/ made[n].capacity = AuthPerMinute
          \/ made[n].capacity = RequestsPerMinute /\ made[n].key \in wide
        BY DEF RateInv, WithinBudget
    <2> QED
        BY <2>1, <1>1, <1>3 DEF LargerOf, IpKey
<1>4. Cardinality(shared) <= 2 * budget
    <2>1. /\ made[e.bucket].capacity \in Nat /\ Cardinality(shared) \in Nat
          /\ Cardinality(shared) <= 2 * made[e.bucket].capacity
        BY <1>2, TwiceAtMost
    <2>2. budget \in Nat /\ made[e.bucket].capacity <= budget
        BY <2>1, <1>2, <1>3
    <2> HIDE DEF budget, shared
    <2> QED
        BY <2>1, <2>2
<1>5. Cardinality(prompt) <= 2 * budget
    <2>1. CASE prompt = {}
        <3>1. Cardinality(prompt) = 0
            BY <2>1, FS_EmptySet
        <3>2. budget \in Nat
            BY <1>2, <1>3
        <3> HIDE DEF budget, prompt
        <3> QED
            BY <3>1, <3>2
    <2>2. CASE prompt # {}
        <3>1. PICK d \in prompt : TRUE
            BY <2>2
        <3>2. ASSUME NEW f \in prompt
              PROVE  f.bucket = bucket[IpKey(e.from)]
            <4>1. f \in passed /\ f.key = IpKey(e.from) /\ ~f.late
                BY <1>2
            <4> QED
                BY <4>1 DEF RateInv, InBucket
        <3>3. /\ d.bucket \in DOMAIN made /\ made[d.bucket].key = IpKey(e.from)
              /\ \A f \in prompt : f.bucket = d.bucket
            BY <1>2, <3>2
        <3>4. /\ made[d.bucket].capacity \in Nat /\ Cardinality(prompt) \in Nat
              /\ Cardinality(prompt) <= 2 * made[d.bucket].capacity
            <4>1. prompt \subseteq passed
                OBVIOUS
            <4> HIDE DEF prompt
            <4> QED
                BY <3>3, <4>1, TwiceAtMost
        <3>5. budget \in Nat /\ made[d.bucket].capacity <= budget
            BY <3>3, <3>4, <1>3
        <3> HIDE DEF budget, prompt
        <3> QED
            BY <3>4, <3>5
    <2> QED
        BY <2>1, <2>2
<1> QED
    BY <1>4, <1>5

\* In any minute a caller without a token gets at most two buckets' worth of requests handled,
\* beside those whose bucket was swept between their lookup and their spending, and no bucket
\* gives more, whatever the budgets, the addresses claimed, the sweeps and the clock.
THEOREM RateIsBound == RateSpec => []RateBound
<1>1. RateSpec => []RateInv
    BY RateInitially, RateStep, PTL DEF RateSpec
<1> QED
    BY <1>1, RateHolds, PTL

-----------------------------------------------------------------------------
(*****************************************************************************)
(* Lockout: an address's budget and an account's                             *)
(*****************************************************************************)
LoginStages == {"address", "account", "compare", "fail", "fail address"}
LoginRecord == [stage : LoginStages, account : Account, addr : Address, now : Nat, nth : Nat]
Guesses == [account : Account, addr : Address, at : Nat]
FailState == [count : Nat, first : Nat, blocked : Nat \cup {Never}]
LockTyped ==
    /\ minute \in Nat
    /\ guess \in Seq(Guesses)
    /\ login \in [Login -> [stage : {"idle"}] \cup LoginRecord]
    /\ by \in [DOMAIN by -> FailState]

\* A login past the comparison has a guess of its own, not yet counted everywhere.
Flies(l) == login[l].stage \in {"fail", "fail address"}
OwnGuess(l) ==
    /\ login[l].nth \in DOMAIN guess
    /\ guess[login[l].nth].account = login[l].account
    /\ guess[login[l].nth].addr = login[l].addr
    /\ guess[login[l].nth].at = login[l].now
LoginsGood ==
    /\ \A l \in Login : login[l].stage # "idle" => login[l].now \in {minute - 1, minute}
    /\ \A l \in Login : Flies(l) => OwnGuess(l)
    /\ \A l, k \in Login : Flies(l) /\ Flies(k) /\ login[l].nth = login[k].nth => l = k
    /\ \A j \in DOMAIN guess : guess[j].at <= minute

\* The logins from an address: all of them, those the address's lock let by, those to be counted.
Active(a) == {l \in Login : login[l].stage # "idle" /\ login[l].addr = a}
Admitted(a) == {l \in Active(a) : login[l].stage # "address"}
Flying(a) == {l \in Active(a) : Flies(l)}
Early(a, t) == {l \in Active(a) : login[l].now = t}
Mine(a) == {j \in DOMAIN guess : guess[j].addr = a}
Uncounted(a) == {login[l].nth : l \in Flying(a)}
Counted(a) == Mine(a) \ Uncounted(a)

\* One full count, and one for every other login.
Full == MaxLoginFailures + Cardinality(Login) - 1
At(S, t) == {j \in S : guess[j].at = t}
Within(S, t) == {j \in S : t <= guess[j].at /\ guess[j].at <= t + LockoutWindow}

\* The guesses counted in entries that are gone, the last of them at minute b.
Past(P, b) ==
    /\ \A j \in P : guess[j].at <= b - 1
    /\ \A t \in Int : t + LockoutWindow >= b => Cardinality(Within(P, t)) <= Full
    /\ Cardinality(At(P, b - 1)) <= MaxLoginFailures - 1
    /\ Cardinality(Within(P, b - 1 - LockoutWindow)) <= Full + MaxLoginFailures - 1
\* Those counted in the entry there is.
Locks(e, a, Q, b) ==
    /\ e.count >= MaxLoginFailures
    /\ b <= e.blocked - LockoutDuration /\ e.blocked - LockoutDuration <= minute
    /\ \A j \in Q : guess[j].at <= e.blocked - LockoutDuration
    /\ Cardinality(Q) + Cardinality(Admitted(a)) <= Full
Entered(e, a, Q, b) ==
    /\ e.first >= b - 1
    /\ \A j \in Q : guess[j].at <= e.first + LockoutWindow
    /\ Cardinality(Q) <= e.count
    /\ e.blocked = Never => e.count <= MaxLoginFailures - 1
    /\ e.blocked # Never => Locks(e, a, Q, b)
Present(a, Q, b) ==
    /\ \A j \in Q : guess[j].at >= b - 1
    /\ Cardinality(At(Q, b - 1)) + Cardinality(Early(a, b - 1)) <= Cardinality(Login)
    /\ addressKey(a) \notin DOMAIN by => Q = {}
    /\ addressKey(a) \in DOMAIN by => Entered(by[addressKey(a)], a, Q, b)
Life(a, Q, b) ==
    /\ Q \subseteq Counted(a) /\ b \in Nat /\ b <= minute
    /\ Past(Counted(a) \ Q, b)
    /\ Present(a, Q, b)
HasLife(a) == \E Q, b : Life(a, Q, b)
Spread(a) == \A t \in Int : Cardinality(Within(Mine(a), t)) <= 2 * Full

\* An account's entry counts guesses against it, of its window and of the minute before.
Pending(u, t) == {l \in Login : login[l].stage \notin {"idle", "fail address"} /\ login[l].account = u /\ login[l].now = t}
Tally(u, R) ==
    LET e == by[accountKey(u)]
    IN  /\ R \subseteq DOMAIN guess
        /\ \A j \in R : guess[j].account = u /\ e.first - 1 <= guess[j].at /\ guess[j].at <= e.first + LockoutWindow
        /\ \A l \in Login : login[l].stage = "fail" => login[l].nth \notin R
        /\ e.count <= Cardinality(R)
        /\ e.first <= minute
        /\ Cardinality(At(R, e.first - 1)) + Cardinality(Pending(u, e.first - 1)) <= Cardinality(Login) - 1
        /\ e.blocked # Never => e.count >= MaxAccountFailures
HasTally(u) == accountKey(u) \in DOMAIN by => \E R : Tally(u, R)

LockoutInv ==
    /\ LockTyped /\ LoginsGood
    /\ \A a \in Address : addressKey(a) \in shortened \/ (HasLife(a) /\ Spread(a))
    /\ \A u \in Account : HasTally(u)

\* What the counting rests on: a part of a finite set, the parts of one, an image.
LEMMA Covered ==
    ASSUME NEW U, NEW S, NEW T, IsFiniteSet(S), IsFiniteSet(T), U \subseteq S \cup T
    PROVE  /\ IsFiniteSet(U) /\ Cardinality(U) \in Nat
           /\ Cardinality(S) \in Nat /\ Cardinality(T) \in Nat
           /\ Cardinality(U) <= Cardinality(S) + Cardinality(T)
<1>1. /\ IsFiniteSet(S \cup T)
      /\ Cardinality(S \cup T) = Cardinality(S) + Cardinality(T) - Cardinality(S \cap T)
    BY FS_Union
<1>2. IsFiniteSet(S \cap T)
    BY FS_Intersection
<1>3. /\ Cardinality(S \cup T) \in Nat /\ Cardinality(S) \in Nat /\ Cardinality(T) \in Nat
      /\ Cardinality(S \cap T) \in Nat
    BY <1>1, <1>2, FS_CardinalityType
<1>4. IsFiniteSet(U) /\ Cardinality(U) <= Cardinality(S \cup T)
    BY <1>1, FS_Subset
<1>5. Cardinality(U) \in Nat
    BY <1>4, FS_CardinalityType
<1> QED
    BY <1>1, <1>3, <1>4, <1>5

LEMMA Fewer ==
    ASSUME NEW U, NEW S, IsFiniteSet(S), U \subseteq S
    PROVE  /\ IsFiniteSet(U) /\ Cardinality(U) \in Nat /\ Cardinality(S) \in Nat
           /\ Cardinality(U) <= Cardinality(S)
BY FS_Subset, FS_CardinalityType

LEMMA OneMoreAtMost ==
    ASSUME NEW S, NEW i, IsFiniteSet(S)
    PROVE  /\ IsFiniteSet(S \cup {i}) /\ Cardinality(S) \in Nat /\ Cardinality(S \cup {i}) \in Nat
           /\ Cardinality(S \cup {i}) <= Cardinality(S) + 1
           /\ i \notin S => Cardinality(S \cup {i}) = Cardinality(S) + 1
<1>1. Cardinality(S) \in Nat
    BY FS_CardinalityType
<1>2. IsFiniteSet(S \cup {i}) /\ Cardinality(S \cup {i}) = IF i \in S THEN Cardinality(S) ELSE Cardinality(S) + 1
    BY FS_AddElement
<1> QED
    BY <1>1, <1>2

LEMMA OneFewer ==
    ASSUME NEW S, NEW i \in S, NEW U, IsFiniteSet(S), U \subseteq S \ {i}
    PROVE  /\ IsFiniteSet(U) /\ Cardinality(U) \in Nat /\ Cardinality(S) \in Nat
           /\ Cardinality(U) + 1 <= Cardinality(S)
<1>1. IsFiniteSet(S \ {i}) /\ Cardinality(S \ {i}) = Cardinality(S) - 1
    BY FS_RemoveElement
<1>2. IsFiniteSet(U) /\ Cardinality(U) <= Cardinality(S \ {i})
    BY <1>1, FS_Subset
<1>3. Cardinality(U) \in Nat /\ Cardinality(S) \in Nat
    BY <1>2, FS_CardinalityType
<1> QED
    BY <1>1, <1>2, <1>3

LEMMA NoMoreNamed ==
    ASSUME NEW S, NEW f, IsFiniteSet(S)
    PROVE  /\ IsFiniteSet({f[l].nth : l \in S})
           /\ Cardinality({f[l].nth : l \in S}) \in Nat /\ Cardinality(S) \in Nat
           /\ Cardinality({f[l].nth : l \in S}) <= Cardinality(S)
<1> DEFINE T == {f[l].nth : l \in S}
           g == [l \in S |-> f[l].nth]
<1>1. g \in Surjection(S, T)
    BY DEF Surjection
<1>2. IsFiniteSet(T) /\ Cardinality(T) <= Cardinality(S)
    BY <1>1, FS_Surjection
<1>3. Cardinality(T) \in Nat /\ Cardinality(S) \in Nat
    BY <1>2, FS_CardinalityType
<1> QED
    BY <1>2, <1>3

LEMMA LockoutNumbers ==
    /\ IsFiniteSet(Login) /\ Cardinality(Login) \in Nat
    /\ MaxLoginFailures \in Nat /\ MaxLoginFailures >= 2
    /\ MaxAccountFailures \in Nat /\ MaxAccountFailures >= 2
    /\ LockoutWindow \in Nat /\ LockoutWindow >= 1
    /\ LockoutDuration \in Nat /\ LockoutDuration >= 2 /\ LockoutDuration >= LockoutWindow
    /\ Full \in Int
<1>1. IsFiniteSet(Login)
    BY LockoutAssumption
<1>2. Cardinality(Login) \in Nat
    BY <1>1, FS_CardinalityType
<1> QED
    BY <1>1, <1>2, LockoutAssumption DEF Full

LEMMA LockKeysDiffer ==
    ASSUME NEW a, NEW u
    PROVE  /\ addressKey(a) # accountKey(u)
           /\ \A c : addressKey(a) = addressKey(c) => a = c
           /\ \A c : accountKey(u) = accountKey(c) => u = c
BY DEF addressKey, accountKey

LEMMA LocksFinite ==
    ASSUME LockTyped
    PROVE  /\ IsFiniteSet(DOMAIN guess) /\ Len(guess) \in Nat /\ DOMAIN guess = 1..Len(guess)
           /\ \A S : S \subseteq DOMAIN guess => IsFiniteSet(S) /\ Cardinality(S) \in Nat
           /\ \A S : S \subseteq Login => IsFiniteSet(S) /\ Cardinality(S) \in Nat /\ Cardinality(S) <= Cardinality(Login)
<1>1. Len(guess) \in Nat /\ DOMAIN guess = 1..Len(guess)
    BY DEF LockTyped
<1>2. IsFiniteSet(DOMAIN guess)
    BY <1>1, FS_Interval
<1>3. ASSUME NEW S, S \subseteq DOMAIN guess
      PROVE  IsFiniteSet(S) /\ Cardinality(S) \in Nat
    BY <1>2, <1>3, Fewer
<1>4. ASSUME NEW S, S \subseteq Login
      PROVE  IsFiniteSet(S) /\ Cardinality(S) \in Nat /\ Cardinality(S) <= Cardinality(Login)
    BY <1>4, Fewer, LockoutNumbers
<1> QED
    BY <1>1, <1>2, <1>3, <1>4

\* What a failure does to the entries: its own grows or starts afresh, the others may be evicted.
Evicted(key, now) ==
    /\ now - by[key].first > LockoutWindow
    /\ by[key].blocked = Never \/ now > by[key].blocked
Grows(key, now, max) ==
    /\ key \in DOMAIN by /\ ~(now - by[key].first > LockoutWindow)
    /\ key \in DOMAIN by' /\ by'[key].first = by[key].first /\ by'[key].count = by[key].count + 1
    /\ by'[key].blocked = BlockedFrom(by[key].count + 1, max, now, by[key].blocked)
BeginsAnew(key, now) ==
    /\ key \notin DOMAIN by \/ now - by[key].first > LockoutWindow
    /\ key \in DOMAIN by' /\ by'[key].first = now /\ by'[key].count = 1 /\ by'[key].blocked = Never
LEMMA FailEffect ==
    ASSUME NEW key, NEW now \in Nat, NEW max \in Nat, by \in [DOMAIN by -> FailState], fail(key, now, max)
    PROVE  /\ by' \in [DOMAIN by' -> FailState]
           /\ key \in DOMAIN by' /\ DOMAIN by' \subseteq DOMAIN by \cup {key}
           /\ \A k \in DOMAIN by' \ {key} : k \in DOMAIN by /\ by'[k] = by[k]
           /\ \A k \in DOMAIN by \ {key} : k \notin DOMAIN by' => Evicted(k, now)
           /\ Grows(key, now, max) \/ BeginsAnew(key, now)
<1> DEFINE fresh == key \notin DOMAIN by \/ now - by[key].first > LockoutWindow
<1>0. LockoutDuration \in Nat /\ LockoutWindow \in Nat
    BY LockoutNumbers
<1>1. CASE fresh
  <2>1. by' = Afresh(key, now)
      BY <1>1 DEF fail
  <2>2. DOMAIN by' = {key} \cup DOMAIN by /\ by'[key] = [count |-> 1, first |-> now, blocked |-> Never]
      BY <2>1 DEF Afresh
  <2>3. \A k \in DOMAIN by' \ {key} : k \in DOMAIN by /\ by'[k] = by[k]
      BY <2>1 DEF Afresh
  <2>4. [count |-> 1, first |-> now, blocked |-> Never] \in FailState
      BY DEF FailState
  <2>5. \A k \in DOMAIN by : by[k] \in FailState
      OBVIOUS
  <2>6. by' \in [{key} \cup DOMAIN by -> FailState]
      BY <2>1, <2>4, <2>5 DEF Afresh
  <2>7. BeginsAnew(key, now)
      BY <1>1, <2>2 DEF BeginsAnew
  <2> QED
      BY <2>2, <2>3, <2>6, <2>7
<1>2. CASE ~fresh
  <2> DEFINE e == by[key]
             c == e.count + 1
             b == BlockedFrom(c, max, now, e.blocked)
             g == [e EXCEPT !.count = c, !.blocked = b]
             m == [k \in DOMAIN by |-> IF k = key THEN g ELSE by[k]]
  <2>1. key \in DOMAIN by /\ e \in FailState
      BY <1>2
  <2>2. c \in Nat /\ b \in Nat \cup {Never}
      BY <2>1, <1>0 DEF BlockedFrom, FailState
  <2>4. [by EXCEPT ![key].count = @ + 1, ![key].blocked = BlockedFrom(by[key].count + 1, max, now, @)] = m
      BY <2>1 DEF FailState
  <2>5. by' = evict(m, now)
      BY <1>2, <2>4 DEF fail
  <2> HIDE DEF e, c, b
  <2>7. g \in FailState /\ g.first = e.first /\ g.count = c /\ g.blocked = b
      BY <2>1, <2>2 DEF FailState
  <2>6. m \in [DOMAIN by -> FailState] /\ m[key] = g /\ \A k \in DOMAIN by \ {key} : m[k] = by[k]
      BY <2>1, <2>7
  <2> USE DEF e, c, b
  <2> HIDE DEF m, g
  <2> DEFINE out == {k \in DOMAIN by : /\ now - m[k].first > LockoutWindow
                                       /\ m[k].blocked = Never \/ now > m[k].blocked}
  <2>8. by' = m \/ by' = [k \in DOMAIN by \ out |-> m[k]]
      BY <2>5, <2>6 DEF evict
  <2>9. key \notin out
      BY <1>2, <2>6, <2>7
  <2>10. \A k \in out : Evicted(k, now)
      BY <2>6, <2>9 DEF Evicted
  <2> HIDE DEF out
  <2>11. DOMAIN m = DOMAIN by
      BY <2>6
  <2>12. /\ DOMAIN by' = DOMAIN by \/ DOMAIN by' = DOMAIN by \ out
         /\ \A k \in DOMAIN by' : by'[k] = m[k]
      BY <2>8, <2>11
  <2>13. by' \in [DOMAIN by' -> FailState]
      BY <2>6, <2>8
  <2>14. Grows(key, now, max)
      BY <1>2, <2>1, <2>6, <2>7, <2>9, <2>12 DEF Grows
  <2> QED
      BY <2>1, <2>6, <2>9, <2>10, <2>12, <2>13, <2>14
<1> QED
    BY <1>1, <1>2

\* An entry that is dropped with its window over, or with its lock over, leaves a past as good.
LEMMA PartsOfPast ==
    ASSUME LockTyped, NEW P, P \subseteq DOMAIN guess
    PROVE  /\ \A j \in P : guess[j].at \in Nat
           /\ IsFiniteSet(P) /\ Cardinality(P) \in Nat
           /\ \A t : /\ IsFiniteSet(At(P, t)) /\ Cardinality(At(P, t)) \in Nat
                     /\ Cardinality(At(P, t)) <= Cardinality(P)
                     /\ IsFiniteSet(Within(P, t)) /\ Cardinality(Within(P, t)) \in Nat
                     /\ Cardinality(Within(P, t)) <= Cardinality(P)
<1>0. \A j \in DOMAIN guess : guess[j] \in Guesses
    BY DEF LockTyped
<1>1. \A j \in P : guess[j].at \in Nat
    BY <1>0 DEF Guesses
<1>2. IsFiniteSet(P) /\ Cardinality(P) \in Nat
    BY LocksFinite
<1>3. \A t : At(P, t) \subseteq P /\ Within(P, t) \subseteq P
    BY DEF At, Within
<1> QED
    BY <1>1, <1>2, <1>3, Fewer

LEMMA PastForgets ==
    ASSUME LockTyped, NEW P, NEW Q, NEW b \in Nat, NEW n \in Nat, NEW f \in Nat,
           P \subseteq DOMAIN guess, Q \subseteq DOMAIN guess, Past(P, b),
           f >= b - 1, n - f > LockoutWindow,
           \A j \in Q : guess[j].at <= f + LockoutWindow, Cardinality(Q) <= MaxLoginFailures - 1
    PROVE  Past(P \cup Q, n)
<1>1. \A j \in P \cup Q : guess[j].at \in Nat
    BY PartsOfPast
<1>2. \A j \in P : guess[j].at <= b - 1
    BY DEF Past
<1>3. /\ LockoutWindow \in Nat /\ LockoutWindow >= 1 /\ MaxLoginFailures \in Nat /\ Full \in Int
      /\ MaxLoginFailures - 1 <= Full
    BY LockoutNumbers DEF Full
<1>4. IsFiniteSet(P) /\ IsFiniteSet(Q) /\ Cardinality(Q) \in Nat
    BY PartsOfPast
<1>5. \A j \in P \cup Q : guess[j].at <= n - 1
    BY <1>1, <1>2, <1>3
<1>6. ASSUME NEW t \in Int, t + LockoutWindow >= n
      PROVE  Cardinality(Within(P \cup Q, t)) <= Full
  <2>1. Within(P \cup Q, t) \subseteq Q
      BY <1>1, <1>2, <1>3, <1>6 DEF Within
  <2>2. Cardinality(Within(P \cup Q, t)) \in Nat /\ Cardinality(Within(P \cup Q, t)) <= Cardinality(Q)
      BY <2>1, <1>4, Fewer
  <2> QED
      BY <2>2, <1>3, <1>4
<1>7. Cardinality(At(P \cup Q, n - 1)) <= MaxLoginFailures - 1
  <2>1. At(P \cup Q, n - 1) \subseteq Q
      BY <1>1, <1>2, <1>3 DEF At
  <2>2. Cardinality(At(P \cup Q, n - 1)) \in Nat /\ Cardinality(At(P \cup Q, n - 1)) <= Cardinality(Q)
      BY <2>1, <1>4, Fewer
  <2> QED
      BY <2>2, <1>3, <1>4
<1>8. Cardinality(Within(P \cup Q, n - 1 - LockoutWindow)) <= Full + MaxLoginFailures - 1
  <2> DEFINE t == n - 1 - LockoutWindow
  <2>1. t \in Int /\ t + LockoutWindow >= b
      BY <1>3
  <2>2. Cardinality(Within(P, t)) <= Full
      BY <2>1 DEF Past
  <2>3. Within(P \cup Q, t) \subseteq Within(P, t) \cup Q
      BY DEF Within
  <2>4. IsFiniteSet(Within(P, t)) /\ Cardinality(Within(P, t)) \in Nat
      BY PartsOfPast
  <2> HIDE DEF t
  <2>5. Cardinality(Within(P \cup Q, t)) \in Nat /\ Cardinality(Within(P \cup Q, t)) <= Cardinality(Within(P, t)) + Cardinality(Q)
      BY <2>3, <2>4, <1>4, Covered
  <2>6. Cardinality(Within(P \cup Q, t)) <= Full + MaxLoginFailures - 1
      BY <2>2, <2>4, <2>5, <1>3, <1>4
  <2> QED
      BY <2>6 DEF t
<1> QED
    BY <1>5, <1>6, <1>7, <1>8 DEF Past

LEMMA PastUnlocks ==
    ASSUME LockTyped, NEW P, NEW Q, NEW b \in Nat, NEW n \in Nat, NEW m \in Int,
           P \subseteq DOMAIN guess, Q \subseteq DOMAIN guess, Past(P, b),
           b <= m, m + LockoutDuration <= n,
           \A j \in Q : guess[j].at <= m, Cardinality(Q) <= Full
    PROVE  Past(P \cup Q, n)
<1>1. \A j \in P \cup Q : guess[j].at \in Nat
    BY PartsOfPast
<1>2. \A j \in P : guess[j].at <= b - 1
    BY DEF Past
<1>3. /\ LockoutWindow \in Nat /\ LockoutWindow >= 1 /\ MaxLoginFailures \in Nat /\ MaxLoginFailures >= 2
      /\ Full \in Int
      /\ LockoutDuration \in Nat /\ LockoutDuration >= 2 /\ LockoutDuration >= LockoutWindow
    BY LockoutNumbers
<1>4. IsFiniteSet(P) /\ IsFiniteSet(Q) /\ Cardinality(Q) \in Nat
    BY PartsOfPast
<1>5. \A j \in P \cup Q : guess[j].at <= n - 1
    BY <1>1, <1>2, <1>3
<1>6. ASSUME NEW t \in Int, t + LockoutWindow >= n
      PROVE  Cardinality(Within(P \cup Q, t)) <= Full
  <2>1. Within(P \cup Q, t) \subseteq Q
      BY <1>1, <1>2, <1>3, <1>6 DEF Within
  <2>2. Cardinality(Within(P \cup Q, t)) \in Nat /\ Cardinality(Within(P \cup Q, t)) <= Cardinality(Q)
      BY <2>1, <1>4, Fewer
  <2> QED
      BY <2>2, <1>3, <1>4
<1>7. Cardinality(At(P \cup Q, n - 1)) <= MaxLoginFailures - 1
  <2>1. At(P \cup Q, n - 1) = {}
      BY <1>1, <1>2, <1>3 DEF At
  <2>2. Cardinality(At(P \cup Q, n - 1)) = 0
      BY <2>1, FS_EmptySet
  <2> QED
      BY <2>2, <1>3
<1>8. Cardinality(Within(P \cup Q, n - 1 - LockoutWindow)) <= Full + MaxLoginFailures - 1
  <2> DEFINE t == n - 1 - LockoutWindow
  <2>3. Within(P \cup Q, t) \subseteq At(P, b - 1) \cup Q
      BY <1>1, <1>2, <1>3 DEF Within, At
  <2>4. IsFiniteSet(At(P, b - 1)) /\ Cardinality(At(P, b - 1)) \in Nat
      BY PartsOfPast
  <2>2. Cardinality(At(P, b - 1)) <= MaxLoginFailures - 1
      BY DEF Past
  <2> HIDE DEF t
  <2>5. Cardinality(Within(P \cup Q, t)) \in Nat /\ Cardinality(Within(P \cup Q, t)) <= Cardinality(At(P, b - 1)) + Cardinality(Q)
      BY <2>3, <2>4, <1>4, Covered
  <2>6. Cardinality(Within(P \cup Q, t)) <= Full + MaxLoginFailures - 1
      BY <2>2, <2>4, <2>5, <1>3, <1>4
  <2> QED
      BY <2>6 DEF t
<1> QED
    BY <1>5, <1>6, <1>7, <1>8 DEF Past

\* An entry goes when its window or its lock is over.
Gone(e, t) ==
    \/ e.blocked = Never /\ t - e.first > LockoutWindow
    \/ e.blocked # Never /\ e.blocked <= t
LEMMA PastEnds ==
    ASSUME LockTyped, NEW a, NEW Q, NEW b, Life(a, Q, b), addressKey(a) \in DOMAIN by,
           NEW t \in Nat, t <= minute, Gone(by[addressKey(a)], t)
    PROVE  Past(Counted(a), minute)
<1> DEFINE P == Counted(a) \ Q
           e == by[addressKey(a)]
<1>1. /\ P \subseteq DOMAIN guess /\ Q \subseteq DOMAIN guess /\ P \cup Q = Counted(a)
      /\ b \in Nat /\ Past(P, b) /\ Entered(e, a, Q, b)
    BY DEF Life, Present, Counted, Mine
<1>2. e.count \in Nat /\ e.first \in Nat /\ e.blocked \in Nat \cup {Never} /\ minute \in Nat
    BY DEF LockTyped, FailState
<1>3. MaxLoginFailures \in Nat /\ LockoutDuration \in Nat /\ LockoutWindow \in Nat
    BY LockoutNumbers
<1>4. IsFiniteSet(Q) /\ Cardinality(Q) \in Nat
    BY <1>1, PartsOfPast
<1> HIDE DEF P, e
<1>5. CASE e.blocked = Never
  <2>1. minute - e.first > LockoutWindow
      BY <1>2, <1>3, <1>5 DEF Gone, e
  <2>2. /\ e.first >= b - 1 /\ \A j \in Q : guess[j].at <= e.first + LockoutWindow
        /\ Cardinality(Q) <= e.count /\ e.count <= MaxLoginFailures - 1
      BY <1>1, <1>5 DEF Entered
  <2>3. Cardinality(Q) <= MaxLoginFailures - 1
      BY <2>2, <1>2, <1>3, <1>4
  <2> QED
      BY <1>1, <1>2, <2>1, <2>2, <2>3, PastForgets
<1>6. CASE e.blocked # Never
  <2> DEFINE m == e.blocked - LockoutDuration
  <2>1. m \in Int /\ m + LockoutDuration <= minute
      BY <1>2, <1>3, <1>6 DEF Gone, e, Never
  <2>2. b <= m /\ (\A j \in Q : guess[j].at <= m) /\ Cardinality(Q) + Cardinality(Admitted(a)) <= Full
      BY <1>1, <1>6 DEF Entered, Locks
  <2>3. Cardinality(Admitted(a)) \in Nat /\ Full \in Int
      BY LocksFinite, LockoutNumbers DEF Admitted, Active
  <2>4. Cardinality(Q) <= Full
      BY <2>2, <2>3, <1>4
  <2> HIDE DEF m
  <2> QED
      BY <1>1, <1>2, <2>1, <2>2, <2>4, PastUnlocks
<1> QED
    BY <1>5, <1>6

LEMMA PastStays ==
    ASSUME NEW P, NEW b, Past(P, b), \A j \in P : guess'[j] = guess[j]
    PROVE  Past(P, b)'
<1>1. \A t : At(P, t)' = At(P, t) /\ Within(P, t)' = Within(P, t)
    BY DEF At, Within
<1> QED
    BY <1>1 DEF Past, Full

\* Nothing is counted against address c: its entry stays as it is, or goes.
Quiet(c) ==
    /\ minute <= minute'
    /\ Counted(c)' = Counted(c)
    /\ \A j \in DOMAIN guess : guess'[j] = guess[j]
    /\ \A t \in Int : t < minute => Early(c, t)' \subseteq Early(c, t)
    /\ LET k == addressKey(c)
       IN  \/ /\ k \in DOMAIN by' <=> k \in DOMAIN by
              /\ k \in DOMAIN by => by'[k] = by[k]
              /\ k \in DOMAIN by /\ by[k].blocked # Never => Admitted(c)' \subseteq Admitted(c)
           \/ /\ minute' = minute /\ k \in DOMAIN by /\ k \notin DOMAIN by'
              /\ \E t \in Nat : t <= minute /\ Gone(by[k], t)
LEMMA QuietKeeps ==
    ASSUME LockTyped, LockTyped', NEW c, Quiet(c), HasLife(c)
    PROVE  HasLife(c)'
<1> DEFINE k == addressKey(c)
<1>1. PICK Q, b : Life(c, Q, b)
    BY DEF HasLife
<1>2. /\ Q \subseteq Counted(c) /\ b \in Nat /\ b <= minute /\ minute \in Nat /\ minute' \in Nat /\ minute <= minute'
      /\ Counted(c) \subseteq DOMAIN guess
    BY <1>1 DEF Life, LockTyped, Counted, Mine, Quiet
<1>3. \A j \in Counted(c) : guess'[j] = guess[j]
    BY <1>2 DEF Quiet
<1>4. CASE /\ k \in DOMAIN by' <=> k \in DOMAIN by
           /\ k \in DOMAIN by => by'[k] = by[k]
           /\ k \in DOMAIN by /\ by[k].blocked # Never => Admitted(c)' \subseteq Admitted(c)
  <2>1. Past(Counted(c) \ Q, b)'
    <3>1. Past(Counted(c) \ Q, b) /\ Counted(c)' = Counted(c)
        BY <1>1 DEF Life, Quiet
    <3> DEFINE P == Counted(c) \ Q
    <3>2. P = (Counted(c) \ Q)'
        BY <3>1
    <3> SUFFICES ASSUME NEW R, R = P PROVE Past(R, b)'
        BY <3>2
    <3> QED
        BY <1>3, <3>1, PastStays
  <2>2. (\A j \in Q : guess[j].at >= b - 1)'
      BY <1>1, <1>2, <1>3 DEF Life, Present
  <2>3. Cardinality(At(Q, b - 1))' + Cardinality(Early(c, b - 1))' <= Cardinality(Login)
    <3>1. At(Q, b - 1)' = At(Q, b - 1)
        BY <1>2, <1>3 DEF At
    <3>2. Early(c, b - 1)' \subseteq Early(c, b - 1)
        BY <1>2 DEF Quiet
    <3>3. Early(c, b - 1) \subseteq Login
        BY DEF Early, Active
    <3>4. IsFiniteSet(Early(c, b - 1)) /\ Cardinality(At(Q, b - 1)) \in Nat
        BY <3>3, <1>2, LocksFinite, PartsOfPast
    <3>5. /\ Cardinality(Early(c, b - 1)') \in Nat /\ Cardinality(Early(c, b - 1)) \in Nat
          /\ Cardinality(Early(c, b - 1)') <= Cardinality(Early(c, b - 1))
        BY <3>2, <3>4, Fewer
    <3>6. Cardinality(At(Q, b - 1)) + Cardinality(Early(c, b - 1)) <= Cardinality(Login)
        BY <1>1 DEF Life, Present
    <3>7. Cardinality(Login) \in Nat
        BY LockoutNumbers
    <3> QED
        BY <3>1, <3>4, <3>5, <3>6, <3>7
  <2>4. k \notin DOMAIN by' => Q = {}
      BY <1>1, <1>4 DEF Life, Present
  <2>5. ASSUME k \in DOMAIN by'
        PROVE  Entered(by[k], c, Q, b)'
    <3>1. k \in DOMAIN by /\ by'[k] = by[k] /\ Entered(by[k], c, Q, b)
        BY <1>1, <1>4, <2>5 DEF Life, Present
    <3>2. \A j \in Q : guess'[j] = guess[j]
        BY <1>2, <1>3
    <3>3. ASSUME by[k].blocked # Never
          PROVE  Locks(by[k], c, Q, b)'
      <4>1. Locks(by[k], c, Q, b)
          BY <3>1, <3>3 DEF Entered
      <4>2. Admitted(c)' \subseteq Admitted(c) /\ Admitted(c) \subseteq Login
          BY <1>4, <3>1, <3>3 DEF Admitted, Active
      <4>3. IsFiniteSet(Admitted(c))
          BY <4>2, LocksFinite
      <4>4. /\ Cardinality(Admitted(c)') \in Nat /\ Cardinality(Admitted(c)) \in Nat
            /\ Cardinality(Admitted(c)') <= Cardinality(Admitted(c))
          BY <4>2, <4>3, Fewer
      <4>5. Cardinality(Q) \in Nat /\ Full \in Int /\ by[k].blocked \in Nat \cup {Never} /\ LockoutDuration \in Nat
          BY <1>2, <3>1, PartsOfPast, LockoutNumbers DEF LockTyped, FailState
      <4>6. Cardinality(Q) + Cardinality(Admitted(c)') <= Full
          BY <4>1, <4>4, <4>5 DEF Locks
      <4>7. by[k].blocked - LockoutDuration <= minute'
          BY <4>1, <4>5, <1>2 DEF Locks, Never
      <4> QED
          BY <3>1, <3>2, <4>1, <4>6, <4>7 DEF Locks, Full
    <3> QED
        BY <3>1, <3>2, <3>3 DEF Entered
  <2>6. (Q \subseteq Counted(c))' /\ (b <= minute)'
      BY <1>2 DEF Quiet
  <2>7. Life(c, Q, b)'
      BY <2>1, <2>2, <2>3, <2>4, <2>5, <2>6, <1>2 DEF Life, Present
  <2> QED
      BY <2>7 DEF HasLife
<1>5. CASE /\ minute' = minute /\ k \in DOMAIN by /\ k \notin DOMAIN by'
           /\ \E t \in Nat : t <= minute /\ Gone(by[k], t)
  <2> DEFINE n == minute
  <2>1. Past(Counted(c), minute)
      BY <1>1, <1>5, PastEnds
  <2>2. Past(Counted(c) \ {}, minute)'
    <3> SUFFICES ASSUME NEW R, R = Counted(c), NEW o, o = minute PROVE Past(R, o)'
      <4>1. Counted(c) = (Counted(c) \ {})' /\ minute = minute'
          BY <1>5 DEF Quiet
      <4> QED
          BY <4>1
    <3> QED
        BY <1>3, <2>1, PastStays
  <2>3. (Cardinality(At({}, minute - 1)) + Cardinality(Early(c, minute - 1)) <= Cardinality(Login))'
    <3>1. At({}, minute - 1)' = {}
        BY DEF At
    <3>2. Early(c, minute - 1)' \subseteq Login
        BY DEF Early, Active
    <3>3. /\ Cardinality(Early(c, minute - 1)') \in Nat
          /\ Cardinality(Early(c, minute - 1)') <= Cardinality(Login)
        BY <3>2, Fewer, LockoutNumbers
    <3>4. Cardinality(At({}, minute - 1)') = 0
        BY <3>1, FS_EmptySet
    <3> QED
        BY <3>3, <3>4, LockoutNumbers
  <2>4. Present(c, {}, minute)'
      BY <1>5, <2>3 DEF Present
  <2>5. Life(c, {}, minute)'
      BY <1>2, <2>2, <2>4 DEF Life
  <2> QED
      BY <2>5 DEF HasLife
<1> QED
    BY <1>4, <1>5 DEF Quiet

\* Login l of address a counts guess i, of minute n, in the entry of its address.
CountsOne(a, l, i, n) ==
    /\ minute' = minute /\ guess' = guess
    /\ i \in DOMAIN guess /\ i \notin Counted(a) /\ Counted(a)' = Counted(a) \cup {i}
    /\ guess[i].at = n /\ n \in {minute - 1, minute}
    /\ l \in Admitted(a) /\ login[l].now = n
    /\ Active(a)' \subseteq Active(a) \ {l} /\ Admitted(a)' \subseteq Admitted(a) \ {l}
    /\ \A t : Early(a, t)' \subseteq Early(a, t) \ {l}
    /\ Grows(addressKey(a), n, MaxLoginFailures) \/ BeginsAnew(addressKey(a), n)
    /\ ~(addressKey(a) \in DOMAIN by /\ Predates(addressKey(a), n, MaxLoginFailures))

\* The guess may be of the minute the past ends with: it takes the place of its login.
LEMMA EarlyOnes ==
    ASSUME LockTyped, NEW a, NEW l, NEW i, NEW n \in Nat, CountsOne(a, l, i, n), NEW Q, NEW b \in Nat,
           Q \subseteq DOMAIN guess,
           Cardinality(At(Q, b - 1)) + Cardinality(Early(a, b - 1)) <= Cardinality(Login)
    PROVE  Cardinality(At(Q \cup {i}, b - 1))' + Cardinality(Early(a, b - 1))' <= Cardinality(Login)
<1>1. At(Q \cup {i}, b - 1)' = At(Q \cup {i}, b - 1)
    BY DEF CountsOne, At
<1>2. /\ IsFiniteSet(At(Q, b - 1)) /\ Cardinality(At(Q, b - 1)) \in Nat
      /\ IsFiniteSet(At(Q \cup {i}, b - 1)) /\ Cardinality(At(Q \cup {i}, b - 1)) \in Nat
    BY PartsOfPast DEF CountsOne
<1>3. Early(a, b - 1) \subseteq Login /\ IsFiniteSet(Early(a, b - 1))
    BY LocksFinite DEF Early, Active
<1>4. Cardinality(Login) \in Nat
    BY LockoutNumbers
<1>5. CASE n = b - 1
  <2>1. l \in Early(a, b - 1) /\ Early(a, b - 1)' \subseteq Early(a, b - 1) \ {l}
      BY <1>5 DEF CountsOne, Early, Admitted
  <2>2. /\ Cardinality(Early(a, b - 1)') \in Nat /\ Cardinality(Early(a, b - 1)) \in Nat
        /\ Cardinality(Early(a, b - 1)') + 1 <= Cardinality(Early(a, b - 1))
      BY <2>1, <1>3, OneFewer
  <2>3. At(Q \cup {i}, b - 1) \subseteq At(Q, b - 1) \cup {i}
      BY DEF At
  <2>4. /\ IsFiniteSet(At(Q, b - 1) \cup {i}) /\ Cardinality(At(Q, b - 1) \cup {i}) \in Nat
        /\ Cardinality(At(Q, b - 1) \cup {i}) <= Cardinality(At(Q, b - 1)) + 1
      BY <1>2, OneMoreAtMost
  <2>5. Cardinality(At(Q \cup {i}, b - 1)) <= Cardinality(At(Q, b - 1) \cup {i})
      BY <2>3, <2>4, Fewer
  <2> QED
      BY <1>1, <1>2, <1>4, <2>2, <2>4, <2>5
<1>6. CASE n # b - 1
  <2>1. At(Q \cup {i}, b - 1) = At(Q, b - 1)
      BY <1>6 DEF At, CountsOne
  <2>2. Early(a, b - 1)' \subseteq Early(a, b - 1)
      BY DEF CountsOne
  <2>3. /\ Cardinality(Early(a, b - 1)') \in Nat /\ Cardinality(Early(a, b - 1)) \in Nat
        /\ Cardinality(Early(a, b - 1)') <= Cardinality(Early(a, b - 1))
      BY <2>2, <1>3, Fewer
  <2> QED
      BY <1>1, <1>2, <1>4, <2>1, <2>3
<1> QED
    BY <1>5, <1>6

LEMMA CountGrows ==
    ASSUME LockTyped, LoginsGood, NEW a, NEW l, NEW i, NEW n \in Nat, CountsOne(a, l, i, n),
           NEW Q, NEW b, Life(a, Q, b), Grows(addressKey(a), n, MaxLoginFailures)
    PROVE  Life(a, Q \cup {i}, b)'
<1> DEFINE k == addressKey(a)
           e == by[k]
<1>1. /\ Q \subseteq Counted(a) /\ b \in Nat /\ b <= minute /\ minute \in Nat /\ Counted(a) \subseteq DOMAIN guess
      /\ guess' = guess /\ minute' = minute /\ n <= minute /\ b - 1 <= n
      /\ i \in DOMAIN guess /\ guess[i].at = n
    BY DEF Life, LockTyped, Counted, Mine, CountsOne
<1>2. (Q \cup {i} \subseteq Counted(a))' /\ (b <= minute)'
    BY <1>1 DEF CountsOne
<1>3. Past(Counted(a) \ (Q \cup {i}), b)'
  <2>1. Past(Counted(a) \ Q, b)
      BY DEF Life
  <2>2. (Counted(a) \ (Q \cup {i}))' = Counted(a) \ Q
      BY <1>1 DEF CountsOne
  <2> SUFFICES ASSUME NEW R, R = Counted(a) \ Q PROVE Past(R, b)'
      BY <2>2
  <2> QED
      BY <1>1, <2>1, PastStays
<1>4. (\A j \in Q \cup {i} : guess[j].at >= b - 1)'
    BY <1>1 DEF Life, Present
<1>5. Cardinality(At(Q \cup {i}, b - 1))' + Cardinality(Early(a, b - 1))' <= Cardinality(Login)
  <2>1. Cardinality(At(Q, b - 1)) + Cardinality(Early(a, b - 1)) <= Cardinality(Login)
      BY DEF Life, Present
  <2> QED
      BY <1>1, <2>1, EarlyOnes
<1>6. /\ k \in DOMAIN by /\ n <= e.first + LockoutWindow
      /\ by'[k].first = e.first /\ by'[k].count = e.count + 1
      /\ by'[k].blocked = BlockedFrom(e.count + 1, MaxLoginFailures, n, e.blocked)
      /\ e.count \in Nat /\ e.first \in Nat /\ e.blocked \in Nat \cup {Never}
  <2>1. k \in DOMAIN by /\ by[k] \in FailState
      BY DEF Grows, LockTyped
  <2>2. n <= e.first + LockoutWindow
      BY <2>1, LockoutNumbers DEF Grows, FailState
  <2> QED
      BY <2>1, <2>2 DEF Grows, FailState
<1>7. Entered(e, a, Q, b)
    BY <1>6 DEF Life, Present
<1>8. IsFiniteSet(Q) /\ Cardinality(Q) \in Nat /\ Cardinality(Q \cup {i}) \in Nat /\ Cardinality(Q \cup {i}) <= Cardinality(Q) + 1
  <2>1. IsFiniteSet(Q)
      BY <1>1, PartsOfPast
  <2> QED
      BY <2>1, OneMoreAtMost
<1>9. /\ Cardinality(Admitted(a)) \in Nat /\ Cardinality(Admitted(a)') \in Nat /\ Cardinality(Login) \in Nat
      /\ Cardinality(Admitted(a)') + 1 <= Cardinality(Admitted(a)) /\ Cardinality(Admitted(a)) <= Cardinality(Login)
  <2>1. l \in Admitted(a) /\ Admitted(a)' \subseteq Admitted(a) \ {l}
      BY DEF CountsOne
  <2>2. Admitted(a) \subseteq Login
      BY DEF Admitted, Active
  <2>3. IsFiniteSet(Admitted(a)) /\ Cardinality(Admitted(a)) <= Cardinality(Login)
      BY <2>2, LocksFinite
  <2> QED
      BY <2>1, <2>3, OneFewer, LockoutNumbers
<1>10. /\ MaxLoginFailures \in Nat /\ MaxLoginFailures >= 2 /\ LockoutDuration \in Nat
       /\ Full \in Int /\ Full = MaxLoginFailures + Cardinality(Login) - 1
    BY LockoutNumbers DEF Full
<1>11. /\ Cardinality(Q) <= e.count
       /\ e.blocked = Never => e.count <= MaxLoginFailures - 1
       /\ e.blocked # Never => e.count >= MaxLoginFailures /\ Cardinality(Q) + Cardinality(Admitted(a)) <= Full
    BY <1>7 DEF Entered, Locks
<1>12. Cardinality(Q \cup {i}) + Cardinality(Admitted(a)') <= Full
    BY <1>6, <1>8, <1>9, <1>10, <1>11
<1>13. by'[k].blocked # Never => Locks(by[k], a, Q \cup {i}, b)'
  <2> SUFFICES ASSUME by'[k].blocked # Never PROVE Locks(by[k], a, Q \cup {i}, b)'
      OBVIOUS
  <2>1. e.count + 1 >= MaxLoginFailures
      BY <1>6, <1>10, <1>11 DEF BlockedFrom
  <2>2. n = minute /\ by'[k].blocked = n + LockoutDuration
    <3>1. by'[k].blocked = n + LockoutDuration
        BY <2>1, <1>6 DEF BlockedFrom
    <3>2. ~(n < minute)
        BY <2>1, <1>6 DEF CountsOne, Predates
    <3> QED
        BY <3>1, <3>2, <1>1
  <2>3. by'[k].blocked - LockoutDuration = minute
      BY <2>2, <1>1, <1>10
  <2>4. \A j \in Q \cup {i} : guess[j].at <= minute
      BY <1>1 DEF LoginsGood
  <2> QED
      BY <1>1, <1>6, <1>12, <2>1, <2>3, <2>4 DEF Locks, Full
<1>14. by'[k].blocked = Never => by'[k].count <= MaxLoginFailures - 1
    BY <1>6, <1>10 DEF BlockedFrom, Never
<1>15. \A j \in Q \cup {i} : guess'[j].at <= by'[k].first + LockoutWindow
    BY <1>1, <1>6, <1>7 DEF Entered
<1>16. Cardinality(Q \cup {i}) <= by'[k].count
    BY <1>6, <1>8, <1>11
<1>17. Entered(by[k], a, Q \cup {i}, b)'
    BY <1>1, <1>6, <1>7, <1>13, <1>14, <1>15, <1>16 DEF Entered
<1>18. k \in DOMAIN by'
    BY DEF Grows
<1> QED
    BY <1>1, <1>2, <1>3, <1>4, <1>5, <1>17, <1>18 DEF Life, Present

LEMMA CountBegins ==
    ASSUME LockTyped, LoginsGood, NEW a, NEW l, NEW i, NEW n \in Nat, CountsOne(a, l, i, n),
           HasLife(a), BeginsAnew(addressKey(a), n)
    PROVE  HasLife(a)'
<1> DEFINE k == addressKey(a)
<1>1. /\ minute \in Nat /\ Counted(a) \subseteq DOMAIN guess /\ guess' = guess /\ minute' = minute
      /\ n <= minute /\ minute - 1 <= n /\ i \in DOMAIN guess /\ guess[i].at = n
    BY DEF LockTyped, Counted, Mine, CountsOne
<1>2. PICK b \in Nat : b <= minute /\ Past(Counted(a), b)
  <2>1. PICK Q, b : Life(a, Q, b)
      BY DEF HasLife
  <2>2. CASE k \notin DOMAIN by
    <3>1. Q = {} /\ Counted(a) \ Q = Counted(a)
        BY <2>1, <2>2 DEF Life, Present
    <3> QED
        BY <2>1, <3>1 DEF Life
  <2>3. CASE k \in DOMAIN by
    <3>1. by[k].blocked \in Nat \cup {Never} /\ by[k].first \in Nat
        BY <2>3 DEF LockTyped, FailState
    <3>2. n - by[k].first > LockoutWindow
        BY <2>3 DEF BeginsAnew
    <3>3. ~(by[k].blocked > n)
        BY <2>3, <3>2 DEF CountsOne, Predates
    <3>4. Gone(by[k], n)
        BY <3>1, <3>2, <3>3 DEF Gone, Never
    <3>5. Past(Counted(a), minute)
        BY <2>1, <2>3, <3>4, <1>1, PastEnds
    <3> QED
        BY <3>5, <1>1
  <2> QED
      BY <2>2, <2>3
<1>3. ({i} \subseteq Counted(a))' /\ (b <= minute)' /\ (Counted(a) \ {i})' = Counted(a)
    BY <1>1, <1>2 DEF CountsOne
<1>4. Past(Counted(a) \ {i}, b)'
  <2> SUFFICES ASSUME NEW R, R = Counted(a) PROVE Past(R, b)'
      BY <1>3
  <2> QED
      BY <1>1, <1>2, PastStays
<1>5. Cardinality(At({} \cup {i}, b - 1))' + Cardinality(Early(a, b - 1))' <= Cardinality(Login)
  <2>1. At({}, b - 1) = {}
      BY DEF At
  <2>2. Early(a, b - 1) \subseteq Login
      BY DEF Early, Active
  <2>3. Cardinality(Early(a, b - 1)) \in Nat /\ Cardinality(Early(a, b - 1)) <= Cardinality(Login)
      BY <2>2, LocksFinite
  <2>4. Cardinality(At({}, b - 1)) = 0
      BY <2>1, FS_EmptySet
  <2>5. Cardinality(At({}, b - 1)) + Cardinality(Early(a, b - 1)) <= Cardinality(Login)
      BY <2>3, <2>4, LockoutNumbers
  <2> QED
      BY <1>1, <1>2, <2>5, EarlyOnes
<1>6. Cardinality({i}) = 1
    BY FS_Singleton
<1>7. /\ k \in DOMAIN by' /\ by'[k].first = n /\ by'[k].count = 1 /\ by'[k].blocked = Never
      /\ MaxLoginFailures \in Nat /\ MaxLoginFailures >= 2 /\ LockoutWindow \in Nat
    BY LockoutNumbers DEF BeginsAnew
<1>8. Entered(by[k], a, {i}, b)'
    BY <1>1, <1>2, <1>6, <1>7 DEF Entered
<1>9. (\A j \in {i} : guess[j].at >= b - 1)'
    BY <1>1, <1>2
<1>10. {} \cup {i} = {i}
    OBVIOUS
<1>11. Present(a, {i}, b)'
    BY <1>5, <1>7, <1>8, <1>9, <1>10 DEF Present
<1>12. Life(a, {i}, b)'
    BY <1>2, <1>3, <1>4, <1>11 DEF Life
<1> QED
    BY <1>12 DEF HasLife

LEMMA CountKeeps ==
    ASSUME LockTyped, LoginsGood, NEW a, NEW l, NEW i, NEW n \in Nat, CountsOne(a, l, i, n), HasLife(a)
    PROVE  HasLife(a)'
<1>1. CASE Grows(addressKey(a), n, MaxLoginFailures)
  <2>1. PICK Q, b : Life(a, Q, b)
      BY DEF HasLife
  <2>2. Life(a, Q \cup {i}, b)'
      BY <1>1, <2>1, CountGrows
  <2> QED
      BY <2>2 DEF HasLife
<1>2. CASE BeginsAnew(addressKey(a), n)
    BY <1>2, CountBegins
<1> QED
    BY <1>1, <1>2 DEF CountsOne

\* Login l of address a, let by its lock, compares a wrong password: guess i, of minute n.
ComparesOne(a, l, i, n) ==
    /\ DOMAIN guess' = DOMAIN guess \cup {i} /\ i \notin DOMAIN guess
    /\ \A j \in DOMAIN guess : guess'[j] = guess[j]
    /\ guess'[i].at = n /\ guess'[i].addr = a /\ n \in {minute - 1, minute}
    /\ l \in Admitted(a) \ Flying(a) /\ login[l].now = n

\* What is not in the past: the entry's guesses and those still to be counted.
LEMMA UncountedFew ==
    ASSUME LockTyped, NEW a, NEW F, F \subseteq Flying(a)
    PROVE  LET U == {login[l].nth : l \in F}
           IN  IsFiniteSet(U) /\ Cardinality(U) \in Nat /\ Cardinality(F) \in Nat /\ Cardinality(U) <= Cardinality(F)
<1>1. F \subseteq Login
    BY DEF Flying, Active
<1>2. IsFiniteSet(F)
    BY <1>1, LocksFinite
<1> QED
    BY <1>2, NoMoreNamed

LEMMA SpreadGrows ==
    ASSUME LockTyped, LockTyped', LoginsGood, NEW a, NEW l, NEW i, NEW n \in Nat, ComparesOne(a, l, i, n),
           HasLife(a), Spread(a)
    PROVE  Spread(a)'
<1> SUFFICES ASSUME NEW t \in Int PROVE Cardinality(Within(Mine(a), t)') <= 2 * Full
    BY DEF Spread, Full
<1>1. Mine(a)' = Mine(a) \cup {i} /\ Mine(a) \subseteq DOMAIN guess /\ \A j \in Mine(a) : guess'[j] = guess[j]
    BY DEF ComparesOne, Mine
<1>2. Full \in Int /\ MaxLoginFailures \in Nat /\ LockoutWindow \in Nat /\ LockoutWindow >= 1 /\ Cardinality(Login) \in Nat
      /\ Full = MaxLoginFailures + Cardinality(Login) - 1 /\ minute \in Nat /\ MaxLoginFailures >= 2
    BY LockoutNumbers DEF Full, LockTyped
<1>3. CASE ~(t <= n /\ n <= t + LockoutWindow)
  <2>1. Within(Mine(a), t)' = Within(Mine(a), t)
      BY <1>1, <1>3 DEF Within, ComparesOne
  <2> QED
      BY <2>1 DEF Spread
<1>4. CASE t <= n /\ n <= t + LockoutWindow
  <2>1. PICK Q, b : Life(a, Q, b)
      BY DEF HasLife
  <2> DEFINE P == Counted(a) \ Q
             U == Uncounted(a)
  <2>2. /\ Q \subseteq Counted(a) /\ b \in Nat /\ b <= minute /\ Past(P, b) /\ Present(a, Q, b)
        /\ P \subseteq DOMAIN guess /\ Q \subseteq DOMAIN guess
      BY <2>1 DEF Life, Counted, Mine
  <2>3. Mine(a)' \subseteq P \cup Q \cup U \cup {i}
      BY <1>1 DEF Counted
  <2>4. \A j \in P \cup Q : guess'[j] = guess[j]
      BY <2>2 DEF ComparesOne
  <2>5. IsFiniteSet(Q) /\ Cardinality(Q) \in Nat
      BY <2>2, PartsOfPast
  <2>6. CASE t + LockoutWindow >= b
    <3>1. Within(Mine(a), t)' \subseteq Within(P, t) \cup (Q \cup (U \cup {i}))
        BY <2>3, <2>4 DEF Within
    <3>2. Cardinality(Within(P, t)) <= Full /\ IsFiniteSet(Within(P, t)) /\ Cardinality(Within(P, t)) \in Nat
        BY <2>2, <2>6, PartsOfPast DEF Past
    <3>3. IsFiniteSet(U) /\ Cardinality(U) \in Nat /\ Cardinality(U) <= Cardinality(Flying(a)) /\ Cardinality(Flying(a)) \in Nat
        BY UncountedFew DEF Uncounted
    <3>4. Flying(a) \subseteq Admitted(a) \ {l} /\ l \in Admitted(a) /\ Admitted(a) \subseteq Login
        BY DEF ComparesOne, Flying, Flies, Admitted, Active
    <3>5. IsFiniteSet(Admitted(a)) /\ Cardinality(Admitted(a)) \in Nat /\ Cardinality(Admitted(a)) <= Cardinality(Login)
        BY <3>4, LocksFinite
    <3>6. Cardinality(Flying(a)) + 1 <= Cardinality(Admitted(a))
        BY <3>4, <3>5, OneFewer
    <3>7. /\ IsFiniteSet(U \cup {i}) /\ Cardinality(U \cup {i}) \in Nat
          /\ Cardinality(U \cup {i}) <= Cardinality(U) + 1
        BY <3>3, OneMoreAtMost
    <3> HIDE DEF P, U
    <3>8. /\ IsFiniteSet(Q \cup (U \cup {i})) /\ Cardinality(Q \cup (U \cup {i})) \in Nat
          /\ Cardinality(Q \cup (U \cup {i})) <= Cardinality(Q) + Cardinality(U \cup {i})
        BY <2>5, <3>7, Covered
    <3>9. /\ Cardinality(Within(Mine(a), t)') \in Nat
          /\ Cardinality(Within(Mine(a), t)') <= Cardinality(Within(P, t)) + Cardinality(Q \cup (U \cup {i}))
        BY <3>1, <3>2, <3>8, Covered
    <3>10. Cardinality(Q) + Cardinality(Admitted(a)) <= Full
      <4>1. CASE addressKey(a) \notin DOMAIN by
        <5>1. Cardinality(Q) = 0
            BY <2>2, <4>1, FS_EmptySet DEF Present
        <5> QED
            BY <5>1, <3>5, <1>2
      <4>2. CASE addressKey(a) \in DOMAIN by
        <5> DEFINE e == by[addressKey(a)]
        <5>1. e.count \in Nat /\ Entered(e, a, Q, b)
            BY <2>2, <4>2 DEF Present, LockTyped, FailState
        <5>2. CASE e.blocked = Never
          <6>1. Cardinality(Q) <= e.count /\ e.count <= MaxLoginFailures - 1
              BY <5>1, <5>2 DEF Entered
          <6> QED
              BY <6>1, <5>1, <2>5, <3>5, <1>2
        <5>3. CASE e.blocked # Never
            BY <5>1, <5>3 DEF Entered, Locks
        <5> QED
            BY <5>2, <5>3
      <4> QED
          BY <4>1, <4>2
    <3> QED
        BY <2>5, <3>2, <3>3, <3>5, <3>6, <3>7, <3>8, <3>9, <3>10, <1>2
  <2>7. CASE ~(t + LockoutWindow >= b)
    <3> DEFINE E == Flying(a) \cap Early(a, b - 1)
               V == {login[k].nth : k \in E}
    <3>1. n = b - 1 /\ t = b - 1 - LockoutWindow /\ minute = b
        BY <1>2, <1>4, <2>2, <2>7 DEF ComparesOne
    <3>2. ASSUME NEW j \in Within(Mine(a), t)', j \notin Within(P, t), j # i
          PROVE  j \in At(Q, b - 1) \cup V
      <4>1. j \in P \cup Q \cup U /\ t <= guess'[j].at /\ guess'[j].at <= t + LockoutWindow /\ j \in Mine(a)
          BY <2>3, <3>2, <1>1 DEF Within
      <4>2. guess'[j] = guess[j] /\ guess[j].at \in Nat
          BY <4>1, <1>1, PartsOfPast
      <4>3. j \notin P
          BY <4>1, <4>2, <3>2 DEF Within
      <4>4. CASE j \in Q
        <5>1. guess[j].at >= b - 1
            BY <2>2, <4>4 DEF Present
        <5> QED
            BY <5>1, <4>1, <4>2, <4>4, <3>1, <2>2, <1>2 DEF At
      <4>5. CASE j \in U
        <5>1. PICK k \in Flying(a) : j = login[k].nth
            BY <4>5 DEF Uncounted
        <5>2. k \in Login /\ Flies(k) /\ login[k].stage # "idle" /\ k \in Active(a)
            BY <5>1 DEF Flying, Active
        <5>3. guess[j].at = login[k].now /\ login[k].now \in {minute - 1, minute}
            BY <5>1, <5>2 DEF LoginsGood, OwnGuess
        <5>4. login[k].now = b - 1
            BY <5>3, <4>1, <4>2, <3>1, <1>2, <2>2
        <5> QED
            BY <5>1, <5>2, <5>4 DEF Early
      <4> QED
          BY <4>1, <4>3, <4>4, <4>5
    <3>3. Within(Mine(a), t)' \subseteq Within(P, t) \cup (At(Q, b - 1) \cup (V \cup {i}))
        BY <3>2
    <3>4. /\ Cardinality(Within(P, t)) <= Full + MaxLoginFailures - 1
          /\ IsFiniteSet(Within(P, t)) /\ Cardinality(Within(P, t)) \in Nat
        BY <2>2, <3>1, PartsOfPast DEF Past
    <3>5. IsFiniteSet(V) /\ Cardinality(V) \in Nat /\ Cardinality(V) <= Cardinality(E) /\ Cardinality(E) \in Nat
        BY UncountedFew
    <3>6. E \subseteq Early(a, b - 1) \ {l} /\ l \in Early(a, b - 1) /\ Early(a, b - 1) \subseteq Login
        BY <3>1 DEF ComparesOne, Early, Admitted, Active
    <3>7. IsFiniteSet(Early(a, b - 1)) /\ Cardinality(Early(a, b - 1)) \in Nat
        BY <3>6, LocksFinite
    <3>8. Cardinality(E) + 1 <= Cardinality(Early(a, b - 1))
        BY <3>6, <3>7, OneFewer
    <3>9. /\ IsFiniteSet(V \cup {i}) /\ Cardinality(V \cup {i}) \in Nat
          /\ Cardinality(V \cup {i}) <= Cardinality(V) + 1
        BY <3>5, OneMoreAtMost
    <3>10. IsFiniteSet(At(Q, b - 1)) /\ Cardinality(At(Q, b - 1)) \in Nat
        BY <2>2, PartsOfPast
    <3>11. Cardinality(At(Q, b - 1)) + Cardinality(Early(a, b - 1)) <= Cardinality(Login)
        BY <2>2 DEF Present
    <3> HIDE DEF P, V, E
    <3>12. /\ IsFiniteSet(At(Q, b - 1) \cup (V \cup {i})) /\ Cardinality(At(Q, b - 1) \cup (V \cup {i})) \in Nat
           /\ Cardinality(At(Q, b - 1) \cup (V \cup {i})) <= Cardinality(At(Q, b - 1)) + Cardinality(V \cup {i})
        BY <3>9, <3>10, Covered
    <3>13. /\ Cardinality(Within(Mine(a), t)') \in Nat
           /\ Cardinality(Within(Mine(a), t)') <= Cardinality(Within(P, t)) + Cardinality(At(Q, b - 1) \cup (V \cup {i}))
        BY <3>3, <3>4, <3>12, Covered
    <3> QED
        BY <3>4, <3>5, <3>7, <3>8, <3>9, <3>10, <3>11, <3>12, <3>13, <1>2
  <2> QED
      BY <2>6, <2>7
<1> QED
    BY <1>3, <1>4

\* Nothing is counted against account u.
Unmoved(u) ==
    /\ minute <= minute' /\ DOMAIN guess \subseteq DOMAIN guess'
    /\ \A j \in DOMAIN guess : guess'[j] = guess[j]
    /\ \A t \in Int : t < minute => Pending(u, t)' \subseteq Pending(u, t)
    /\ \A l \in Login : login'[l].stage = "fail" =>
         \/ login[l].stage = "fail" /\ login'[l].nth = login[l].nth
         \/ login'[l].nth \notin DOMAIN guess
    /\ accountKey(u) \in DOMAIN by' => accountKey(u) \in DOMAIN by /\ by'[accountKey(u)] = by[accountKey(u)]
LEMMA UnmovedKeeps ==
    ASSUME LockTyped, LockTyped', NEW u, Unmoved(u), HasTally(u)
    PROVE  HasTally(u)'
<1> DEFINE k == accountKey(u)
<1> SUFFICES ASSUME k \in DOMAIN by' PROVE \E R : Tally(u, R)'
    BY DEF HasTally
<1>1. k \in DOMAIN by /\ by'[k] = by[k]
    BY DEF Unmoved
<1>2. PICK R : Tally(u, R)
    BY <1>1 DEF HasTally
<1>3. by[k].first \in Nat /\ by[k].count \in Nat /\ minute \in Nat /\ minute' \in Nat /\ minute <= minute'
    BY <1>1 DEF LockTyped, FailState, Unmoved
<1>4. R \subseteq DOMAIN guess /\ R \subseteq DOMAIN guess' /\ by[k].first <= minute /\ \A j \in R : guess'[j] = guess[j]
    BY <1>2 DEF Tally, Unmoved
<1>5. (Cardinality(At(R, by[k].first - 1)) + Cardinality(Pending(u, by[k].first - 1)) <= Cardinality(Login) - 1)'
  <2> DEFINE s == by[k].first - 1
  <2>1. s \in Int /\ s < minute /\ by'[k].first - 1 = s
      BY <1>1, <1>3, <1>4
  <2>2. At(R, by[k].first - 1)' = At(R, s)
      BY <1>4, <2>1 DEF At
  <2>3. Pending(u, by[k].first - 1)' \subseteq Pending(u, s) /\ Pending(u, s) \subseteq Login
    <3> HIDE DEF s
    <3> SUFFICES ASSUME NEW t \in Int, t = s
                 PROVE  Pending(u, by[k].first - 1)' \subseteq Pending(u, t) /\ Pending(u, t) \subseteq Login
        BY <2>1
    <3>1. Pending(u, by[k].first - 1)' = Pending(u, t)'
        BY <2>1 DEF Pending
    <3> QED
        BY <2>1, <3>1 DEF Unmoved, Pending
  <2>4. IsFiniteSet(Pending(u, s))
      BY <2>3, LocksFinite
  <2>5. /\ Cardinality(Pending(u, by[k].first - 1)') \in Nat /\ Cardinality(Pending(u, s)) \in Nat
        /\ Cardinality(Pending(u, by[k].first - 1)') <= Cardinality(Pending(u, s))
      BY <2>3, <2>4, Fewer
  <2>6. Cardinality(At(R, s)) \in Nat /\ Cardinality(Login) \in Nat
      BY <1>4, PartsOfPast, LockoutNumbers
  <2>7. Cardinality(At(R, s)) + Cardinality(Pending(u, s)) <= Cardinality(Login) - 1
      BY <1>2 DEF Tally
  <2> QED
      BY <2>2, <2>5, <2>6, <2>7
<1>6. \A l \in Login : login'[l].stage = "fail" => login'[l].nth \notin R
    BY <1>2, <1>4 DEF Unmoved, Tally
<1>7. Tally(u, R)'
    BY <1>1, <1>2, <1>3, <1>4, <1>5, <1>6 DEF Tally
<1> QED
    BY <1>7

\* Login l counts guess i, of minute n, against account u.
ChargesOne(u, l, i, n) ==
    /\ minute' = minute /\ guess' = guess
    /\ i \in DOMAIN guess /\ guess[i].account = u /\ guess[i].at = n /\ n \in {minute - 1, minute}
    /\ l \in Pending(u, n) /\ login[l].stage = "fail" /\ login[l].nth = i
    /\ \A t : Pending(u, t)' \subseteq Pending(u, t) \ {l}
    /\ \A k \in Login : login'[k].stage = "fail" => k # l /\ login[k].stage = "fail" /\ login'[k].nth = login[k].nth
    /\ Grows(accountKey(u), n, MaxAccountFailures) \/ BeginsAnew(accountKey(u), n)
LEMMA ChargeKeeps ==
    ASSUME LockTyped, LoginsGood, NEW u, NEW l, NEW i, NEW n \in Nat, ChargesOne(u, l, i, n), HasTally(u)
    PROVE  HasTally(u)'
<1> DEFINE k == accountKey(u)
<1>1. /\ guess' = guess /\ minute' = minute /\ minute \in Nat /\ n <= minute /\ minute - 1 <= n
      /\ i \in DOMAIN guess /\ guess[i].at = n /\ guess[i].account = u
    BY DEF ChargesOne, LockTyped
<1>2. \A j \in Login : login'[j].stage = "fail" => login'[j].nth # i
  <2> SUFFICES ASSUME NEW j \in Login, login'[j].stage = "fail", login'[j].nth = i PROVE FALSE
      OBVIOUS
  <2>1. j # l /\ login[j].stage = "fail" /\ login[j].nth = i
      BY DEF ChargesOne
  <2>2. l \in Login /\ login[l].stage = "fail" /\ login[l].nth = i
      BY DEF ChargesOne, Pending
  <2> QED
      BY <2>1, <2>2 DEF LoginsGood, Flies
<1>3. MaxAccountFailures \in Nat /\ LockoutWindow \in Nat /\ LockoutDuration \in Nat /\ Cardinality(Login) \in Nat
    BY LockoutNumbers
<1>4. CASE Grows(k, n, MaxAccountFailures)
  <2> DEFINE e == by[k]
             f == e.first
  <2>1. k \in DOMAIN by /\ e \in FailState
      BY <1>4 DEF Grows, LockTyped
  <2>2. e.count \in Nat /\ f \in Nat /\ e.blocked \in Nat \cup {Never}
      BY <2>1 DEF FailState
  <2>3. /\ k \in DOMAIN by' /\ by'[k].first = f /\ by'[k].count = e.count + 1 /\ n <= f + LockoutWindow
        /\ by'[k].blocked = BlockedFrom(e.count + 1, MaxAccountFailures, n, e.blocked)
      BY <1>3, <1>4, <2>2 DEF Grows
  <2>4. PICK R : Tally(u, R)
      BY <2>1 DEF HasTally
  <2>5. R \subseteq DOMAIN guess /\ i \notin R /\ f <= minute /\ e.count <= Cardinality(R)
      BY <2>4 DEF Tally, ChargesOne, Pending
  <2>6. Cardinality(R) \in Nat /\ Cardinality(R \cup {i}) = Cardinality(R) + 1
    <3>1. IsFiniteSet(R)
        BY <2>5, PartsOfPast
    <3> QED
        BY <2>5, <3>1, OneMoreAtMost
  <2>7. \A j \in R \cup {i} : guess[j].account = u /\ f - 1 <= guess[j].at /\ guess[j].at <= f + LockoutWindow
      BY <1>1, <2>2, <2>3, <2>4, <2>5 DEF Tally
  <2>8. \A s : s = f - 1 => Cardinality(At(R \cup {i}, s)') + Cardinality(Pending(u, s)') <= Cardinality(Login) - 1
    <3> SUFFICES ASSUME NEW s, s = f - 1
                 PROVE  Cardinality(At(R \cup {i}, s)') + Cardinality(Pending(u, s)') <= Cardinality(Login) - 1
        OBVIOUS
    <3>1. Cardinality(At(R, s)) + Cardinality(Pending(u, s)) <= Cardinality(Login) - 1
        BY <2>4 DEF Tally
    <3>2. At(R \cup {i}, s)' = At(R \cup {i}, s)
        BY <1>1 DEF At
    <3>7. IsFiniteSet(At(R, s)) /\ Cardinality(At(R, s)) \in Nat
        BY <2>5, PartsOfPast
    <3>8. Cardinality(At(R \cup {i}, s)) \in Nat
      <4>1. R \cup {i} \subseteq DOMAIN guess
          BY <1>1, <2>5
      <4> QED
          BY <4>1, PartsOfPast
    <3>9. Pending(u, s) \subseteq Login
        BY DEF Pending
    <3>10. Pending(u, s)' \subseteq Pending(u, s) \ {l}
        BY DEF ChargesOne
    <3>3. /\ IsFiniteSet(At(R, s)) /\ Cardinality(At(R, s)) \in Nat /\ Cardinality(At(R \cup {i}, s)) \in Nat
          /\ Pending(u, s) \subseteq Login /\ Pending(u, s)' \subseteq Pending(u, s) \ {l}
        BY <3>7, <3>8, <3>9, <3>10
    <3>4. IsFiniteSet(Pending(u, s))
        BY <3>3, LocksFinite
    <3>5. CASE n = s
      <4>1. l \in Pending(u, s)
          BY <3>5 DEF ChargesOne
      <4>2. /\ Cardinality(Pending(u, s)') \in Nat /\ Cardinality(Pending(u, s)) \in Nat
            /\ Cardinality(Pending(u, s)') + 1 <= Cardinality(Pending(u, s))
          BY <3>3, <3>4, <4>1, OneFewer
      <4>3. At(R \cup {i}, s) \subseteq At(R, s) \cup {i}
          BY DEF At
      <4>4. /\ IsFiniteSet(At(R, s) \cup {i}) /\ Cardinality(At(R, s) \cup {i}) \in Nat
            /\ Cardinality(At(R, s) \cup {i}) <= Cardinality(At(R, s)) + 1
          BY <3>3, OneMoreAtMost
      <4>5. Cardinality(At(R \cup {i}, s)) <= Cardinality(At(R, s) \cup {i})
          BY <4>3, <4>4, Fewer
      <4> QED
          BY <3>1, <3>2, <3>3, <4>2, <4>4, <4>5, <1>3
    <3>6. CASE n # s
      <4>1. At(R \cup {i}, s) = At(R, s)
          BY <1>1, <3>6 DEF At
      <4>2. /\ Cardinality(Pending(u, s)') \in Nat /\ Cardinality(Pending(u, s)) \in Nat
            /\ Cardinality(Pending(u, s)') <= Cardinality(Pending(u, s))
          BY <3>3, <3>4, Fewer
      <4> QED
          BY <3>1, <3>2, <3>3, <4>1, <4>2, <1>3
    <3> QED
        BY <3>5, <3>6
  <2>9. by'[k].blocked # Never => by'[k].count >= MaxAccountFailures
      BY <2>2, <2>3, <2>4, <1>3 DEF BlockedFrom, Tally
  <2>10. \A j \in Login : login'[j].stage = "fail" => login'[j].nth \notin R \cup {i}
      BY <1>2, <2>4 DEF Tally, ChargesOne
  <2>12. (Cardinality(At(R \cup {i}, by[k].first - 1)) + Cardinality(Pending(u, by[k].first - 1)) <= Cardinality(Login) - 1)'
    <3> HIDE DEF f
    <3> SUFFICES ASSUME NEW s, s = f - 1
                 PROVE  Cardinality(At(R \cup {i}, by[k].first - 1)') + Cardinality(Pending(u, by[k].first - 1)') <= Cardinality(Login) - 1
        OBVIOUS
    <3>1. At(R \cup {i}, by[k].first - 1)' = At(R \cup {i}, s)' /\ Pending(u, by[k].first - 1)' = Pending(u, s)'
        BY <2>3 DEF At, Pending
    <3> QED
        BY <2>8, <3>1
  <2> HIDE DEF e, f
  <2>11. Tally(u, R \cup {i})'
      BY <1>1, <2>2, <2>3, <2>5, <2>6, <2>7, <2>9, <2>10, <2>12 DEF Tally
  <2> QED
      BY <2>11 DEF HasTally
<1>5. CASE BeginsAnew(k, n)
  <2>1. k \in DOMAIN by' /\ by'[k].first = n /\ by'[k].count = 1 /\ by'[k].blocked = Never
      BY <1>5 DEF BeginsAnew
  <2>2. Cardinality({i}) = 1
      BY FS_Singleton
  <2>3. \A s : s = n - 1 => Cardinality(At({i}, s)') + Cardinality(Pending(u, s)') <= Cardinality(Login) - 1
    <3> SUFFICES ASSUME NEW s, s = n - 1
                 PROVE  Cardinality(At({i}, s)') + Cardinality(Pending(u, s)') <= Cardinality(Login) - 1
        OBVIOUS
    <3>1. At({i}, s)' = {}
        BY <1>1 DEF At
    <3>2. Cardinality(At({i}, s)') = 0
        BY <3>1, FS_EmptySet
    <3>3. l \in Login /\ Pending(u, s)' \subseteq Login \ {l}
        BY DEF ChargesOne, Pending
    <3>4. Cardinality(Pending(u, s)') \in Nat /\ Cardinality(Pending(u, s)') + 1 <= Cardinality(Login)
        BY <3>3, OneFewer, LockoutNumbers
    <3> QED
        BY <3>2, <3>4, <1>3
  <2>4. \A j \in {i} : guess[j].account = u /\ n - 1 <= guess[j].at /\ guess[j].at <= n + LockoutWindow
      BY <1>1, <1>3
  <2>6. (Cardinality(At({i}, by[k].first - 1)) + Cardinality(Pending(u, by[k].first - 1)) <= Cardinality(Login) - 1)'
    <3> SUFFICES ASSUME NEW s, s = n - 1
                 PROVE  Cardinality(At({i}, by[k].first - 1)') + Cardinality(Pending(u, by[k].first - 1)') <= Cardinality(Login) - 1
        OBVIOUS
    <3>1. At({i}, by[k].first - 1)' = At({i}, s)' /\ Pending(u, by[k].first - 1)' = Pending(u, s)'
        BY <2>1 DEF At, Pending
    <3> QED
        BY <2>3, <3>1
  <2>5. Tally(u, {i})'
      BY <1>1, <1>2, <2>1, <2>2, <2>4, <2>6 DEF Tally
  <2> QED
      BY <2>5 DEF HasTally
<1> QED
    BY <1>4, <1>5 DEF ChargesOne

\* No guess is compared and none counted for its address: logins begin, go on or end.
CarriesOn(k) ==
    \/ /\ login[k].stage # "idle" /\ login'[k].account = login[k].account /\ login'[k].addr = login[k].addr
       /\ login'[k].now = login[k].now /\ login'[k].nth = login[k].nth
    \/ login'[k].stage = "address" /\ login'[k].now = minute
SameLogins ==
    /\ minute <= minute' /\ guess' = guess
    /\ \A k \in Login : login'[k].stage # "idle" => CarriesOn(k) /\ login'[k].now \in {minute' - 1, minute'}
    /\ \A k \in Login : Flies(k)' <=> Flies(k)
    /\ \A k \in Login : login'[k].stage = "fail" => login[k].stage = "fail"
    /\ \A k \in Login : login[k].stage = "fail address" => login'[k].stage \in {"idle", "fail address"}
LEMMA SameLoginsKeep ==
    ASSUME LockTyped, LockTyped', LoginsGood, SameLogins
    PROVE  /\ LoginsGood'
           /\ \A c : Mine(c)' = Mine(c) /\ Counted(c)' = Counted(c)
           /\ \A c : \A t \in Int : t < minute => Early(c, t)' \subseteq Early(c, t)
           /\ \A u : \A t \in Int : t < minute => Pending(u, t)' \subseteq Pending(u, t)
           /\ \A k \in Login : login'[k].stage = "fail" => login[k].stage = "fail" /\ login'[k].nth = login[k].nth
<1>0. minute \in Nat /\ minute' \in Nat /\ minute <= minute'
    BY DEF LockTyped, SameLogins
<1>1. ASSUME NEW k \in Login, Flies(k)'
      PROVE  /\ Flies(k) /\ login[k].stage # "idle"
             /\ login'[k].account = login[k].account /\ login'[k].addr = login[k].addr
             /\ login'[k].now = login[k].now /\ login'[k].nth = login[k].nth
    BY <1>1 DEF SameLogins, CarriesOn, Flies
<1>2. LoginsGood'
  <2>1. \A k \in Login : Flies(k)' => OwnGuess(k)'
    <3> SUFFICES ASSUME NEW k \in Login, Flies(k)' PROVE OwnGuess(k)'
        OBVIOUS
    <3>1. OwnGuess(k)
        BY <1>1 DEF LoginsGood
    <3>2. guess' = guess
        BY DEF SameLogins
    <3> QED
        BY <1>1, <3>1, <3>2 DEF OwnGuess
  <2>2. \A l, k \in Login : Flies(l)' /\ Flies(k)' /\ login'[l].nth = login'[k].nth => l = k
      BY <1>1 DEF LoginsGood
  <2>3. \A j \in DOMAIN guess' : guess'[j].at <= minute'
    <3>1. \A j \in DOMAIN guess : guess[j].at \in Nat
        BY PartsOfPast
    <3>2. guess' = guess /\ \A j \in DOMAIN guess : guess[j].at <= minute
        BY DEF LoginsGood, SameLogins
    <3> QED
        BY <3>1, <3>2, <1>0
  <2>4. \A k \in Login : login'[k].stage # "idle" => login'[k].now \in {minute' - 1, minute'}
      BY DEF SameLogins
  <2> QED
      BY <2>1, <2>2, <2>3, <2>4 DEF LoginsGood
<1>3. ASSUME NEW c
      PROVE  Mine(c)' = Mine(c) /\ Counted(c)' = Counted(c)
  <2>1. Mine(c)' = Mine(c)
      BY DEF SameLogins, Mine
  <2>2. \A k \in Login : Flies(k) => Flies(k)' /\ login'[k].stage # "idle" /\ login[k].stage # "idle"
      BY DEF SameLogins, Flies
  <2>3. Flying(c)' = Flying(c)
      BY <1>1, <2>2 DEF Flying, Active
  <2>4. \A k \in Flying(c) : login'[k].nth = login[k].nth
      BY <1>1, <2>3, <2>2 DEF Flying, Active
  <2>5. Uncounted(c)' = Uncounted(c)
      BY <2>3, <2>4 DEF Uncounted
  <2> QED
      BY <2>1, <2>5 DEF Counted
<1>4. ASSUME NEW c, NEW t \in Int, t < minute
      PROVE  Early(c, t)' \subseteq Early(c, t)
  <2> SUFFICES ASSUME NEW k \in Early(c, t)' PROVE k \in Early(c, t)
      OBVIOUS
  <2>1. k \in Login /\ login'[k].stage # "idle" /\ login'[k].addr = c /\ login'[k].now = t
      BY DEF Early, Active
  <2>3. t # minute
      BY <1>0, <1>4
  <2>2. CarriesOn(k)
      BY <2>1 DEF SameLogins
  <2> QED
      BY <2>1, <2>2, <2>3 DEF CarriesOn, Early, Active
<1>5. ASSUME NEW u, NEW t \in Int, t < minute
      PROVE  Pending(u, t)' \subseteq Pending(u, t)
  <2> SUFFICES ASSUME NEW k \in Pending(u, t)' PROVE k \in Pending(u, t)
      OBVIOUS
  <2>1. /\ k \in Login /\ login'[k].stage # "idle" /\ login'[k].stage # "fail address"
        /\ login'[k].account = u /\ login'[k].now = t
      BY DEF Pending
  <2>3. t # minute
      BY <1>0, <1>5
  <2>2. CarriesOn(k) /\ login[k].stage # "fail address"
      BY <2>1 DEF SameLogins
  <2> QED
      BY <2>1, <2>2, <2>3 DEF CarriesOn, Pending
<1>6. \A k \in Login : login'[k].stage = "fail" => login[k].stage = "fail" /\ login'[k].nth = login[k].nth
    BY <1>1 DEF SameLogins, Flies
<1> QED
    BY <1>2, <1>3, <1>4, <1>5, <1>6

EntryKept(k, n) ==
    \/ /\ k \in DOMAIN by' <=> k \in DOMAIN by
       /\ k \in DOMAIN by => by'[k] = by[k]
    \/ k \in DOMAIN by /\ k \notin DOMAIN by' /\ minute' = minute /\ Gone(by[k], n)
LEMMA SameLoginsLives ==
    ASSUME LockTyped, LockTyped', LoginsGood, SameLogins, NEW n \in Nat, n <= minute, NEW c,
           EntryKept(addressKey(c), n), HasLife(c), Spread(c),
           addressKey(c) \in DOMAIN by' /\ by'[addressKey(c)].blocked # Never => Admitted(c)' \subseteq Admitted(c)
    PROVE  HasLife(c)' /\ Spread(c)'
<1>1. /\ Mine(c)' = Mine(c) /\ Counted(c)' = Counted(c) /\ guess' = guess /\ minute <= minute'
      /\ \A t \in Int : t < minute => Early(c, t)' \subseteq Early(c, t)
    BY SameLoginsKeep DEF SameLogins
<1>2. Quiet(c)
    BY <1>1 DEF Quiet, EntryKept
<1>3. HasLife(c)'
    BY <1>2, QuietKeeps
<1>4. \A t : Within(Mine(c), t)' = Within(Mine(c), t)
    BY <1>1 DEF Within
<1>5. Spread(c)'
    BY <1>4 DEF Spread, Full
<1> QED
    BY <1>3, <1>5

LEMMA SameLoginsTally ==
    ASSUME LockTyped, LockTyped', LoginsGood, SameLogins, NEW u, HasTally(u),
           accountKey(u) \in DOMAIN by' => accountKey(u) \in DOMAIN by /\ by'[accountKey(u)] = by[accountKey(u)]
    PROVE  HasTally(u)'
<1>1. Unmoved(u)
    BY SameLoginsKeep DEF Unmoved, SameLogins
<1> QED
    BY <1>1, UnmovedKeeps

\* What the functions on the entries do.
LEMMA FailKeepsOthers ==
    ASSUME NEW key, NEW now \in Nat, NEW max \in Nat, by \in [DOMAIN by -> FailState], fail(key, now, max),
           minute' = minute, NEW k, k # key
    PROVE  /\ EntryKept(k, now)
           /\ k \in DOMAIN by' => k \in DOMAIN by /\ by'[k] = by[k]
<1>1. /\ DOMAIN by' \subseteq DOMAIN by \cup {key}
      /\ k \in DOMAIN by' => k \in DOMAIN by /\ by'[k] = by[k]
      /\ k \in DOMAIN by /\ k \notin DOMAIN by' => Evicted(k, now)
    BY FailEffect
<1>2. k \in DOMAIN by => by[k].blocked \in Nat \cup {Never}
    BY DEF FailState
<1>3. k \in DOMAIN by /\ k \notin DOMAIN by' => Gone(by[k], now)
    BY <1>1, <1>2 DEF Evicted, Gone, Never
<1> QED
    BY <1>1, <1>3 DEF EntryKept

LEMMA WithoutEffect ==
    ASSUME NEW key, by \in [DOMAIN by -> FailState], by' = Without(key)
    PROVE  /\ by' \in [DOMAIN by' -> FailState] /\ DOMAIN by' = DOMAIN by \ {key}
           /\ \A k \in DOMAIN by' : by'[k] = by[k]
           /\ \A k, n : k # key => EntryKept(k, n)
BY DEF Without, EntryKept

LEMMA LockedEffect ==
    ASSUME NEW key, NEW now \in Nat, by \in [DOMAIN by -> FailState], locked(key, now), minute' = minute
    PROVE  /\ by' \in [DOMAIN by' -> FailState]
           /\ \A k : EntryKept(k, now)
           /\ \A k \in DOMAIN by' : k \in DOMAIN by /\ by'[k] = by[k]
           /\ key \in DOMAIN by' /\ by'[key].blocked # Never => lockedNow(key, now)
<1> DEFINE over == key \in DOMAIN by /\ by[key].blocked # Never /\ now >= by[key].blocked
<1>1. CASE over
  <2>1. by' = Without(key)
      BY <1>1 DEF locked
  <2>2. Gone(by[key], now)
      BY <1>1 DEF Gone
  <2>3. EntryKept(key, now)
      BY <1>1, <2>1, <2>2, WithoutEffect DEF EntryKept
  <2>4. \A k : k # key => EntryKept(k, now)
      BY <2>1, WithoutEffect
  <2>5. /\ by' \in [DOMAIN by' -> FailState] /\ DOMAIN by' = DOMAIN by \ {key}
        /\ \A k \in DOMAIN by' : by'[k] = by[k]
      BY <2>1, WithoutEffect
  <2> QED
      BY <2>3, <2>4, <2>5
<1>2. CASE ~over
  <2>1. by' = by
      BY <1>2 DEF locked
  <2>2. key \in DOMAIN by /\ by[key].blocked # Never => by[key].blocked \in Nat
      BY DEF FailState
  <2>3. key \in DOMAIN by /\ by[key].blocked # Never => lockedNow(key, now)
      BY <1>2, <2>2 DEF lockedNow
  <2> QED
      BY <2>1, <2>3 DEF EntryKept
<1> QED
    BY <1>1, <1>2

\* What the logins' own steps do to them.
LEMMA GotoEffect ==
    ASSUME LockTyped, NEW l \in Login, login[l].stage # "idle", NEW s \in LoginStages, Goto(l, s)
    PROVE  /\ login' \in [Login -> [stage : {"idle"}] \cup LoginRecord]
           /\ \A k \in Login : k # l => login'[k] = login[k]
           /\ login'[l].stage = s
           /\ login'[l].account = login[l].account /\ login'[l].addr = login[l].addr
           /\ login'[l].now = login[l].now /\ login'[l].nth = login[l].nth
<1> DEFINE r == [login[l] EXCEPT !.stage = s]
<1>1. login[l] \in LoginRecord
    BY DEF LockTyped
<1>2. /\ r \in LoginRecord /\ r.stage = s /\ r.account = login[l].account /\ r.addr = login[l].addr
      /\ r.now = login[l].now /\ r.nth = login[l].nth
    BY <1>1 DEF LoginRecord
<1>3. login' = [login EXCEPT ![l] = r]
    BY DEF Goto
<1> HIDE DEF r
<1> QED
    BY <1>2, <1>3 DEF LockTyped

LEMMA EndEffect ==
    ASSUME LockTyped, NEW l \in Login, End(l)
    PROVE  /\ login' \in [Login -> [stage : {"idle"}] \cup LoginRecord]
           /\ \A k \in Login : k # l => login'[k] = login[k]
           /\ login'[l].stage = "idle"
<1> DEFINE r == [stage |-> "idle"]
<1>1. r \in [stage : {"idle"}] /\ r.stage = "idle"
    OBVIOUS
<1>2. login' = [login EXCEPT ![l] = r]
    BY DEF End
<1> HIDE DEF r
<1> QED
    BY <1>1, <1>2 DEF LockTyped

LEMMA TypedLogin ==
    ASSUME LockTyped, LoginsGood, NEW l \in Login, login[l].stage # "idle"
    PROVE  /\ login[l].account \in Account /\ login[l].addr \in Address /\ login[l].now \in Nat /\ login[l].nth \in Nat
           /\ login[l].now \in {minute - 1, minute} /\ login[l].now <= minute /\ minute \in Nat
<1>1. login[l] \in LoginRecord /\ minute \in Nat
    BY DEF LockTyped
<1>2. login[l].account \in Account /\ login[l].addr \in Address /\ login[l].now \in Nat /\ login[l].nth \in Nat
    BY <1>1 DEF LoginRecord
<1>3. login[l].now \in {minute - 1, minute}
    BY DEF LoginsGood
<1> QED
    BY <1>1, <1>2, <1>3

AddressesGood == \A a \in Address : addressKey(a) \in shortened \/ (HasLife(a) /\ Spread(a))
AccountsGood == \A u \in Account : HasTally(u)
LEMMA SameLoginsAddresses ==
    ASSUME LockoutInv, LockTyped', SameLogins, shortened \subseteq shortened', NEW n \in Nat, n <= minute,
           \A c \in Address : EntryKept(addressKey(c), n),
           \A c \in Address : addressKey(c) \in DOMAIN by' /\ by'[addressKey(c)].blocked # Never
                                => Admitted(c)' \subseteq Admitted(c)
    PROVE  LoginsGood' /\ AddressesGood'
<1>1. LockTyped /\ LoginsGood
    BY DEF LockoutInv
<1>2. ASSUME NEW c \in Address, addressKey(c) \notin shortened'
      PROVE  HasLife(c)' /\ Spread(c)'
  <2>1. HasLife(c) /\ Spread(c)
      BY <1>2 DEF LockoutInv
  <2>2. EntryKept(addressKey(c), n)
      OBVIOUS
  <2> QED
      BY <1>1, <2>1, <2>2, SameLoginsLives
<1> QED
    BY <1>1, <1>2, SameLoginsKeep DEF AddressesGood

LEMMA SameLoginsAccounts ==
    ASSUME LockoutInv, LockTyped', SameLogins,
           \A u \in Account : accountKey(u) \in DOMAIN by' =>
             accountKey(u) \in DOMAIN by /\ by'[accountKey(u)] = by[accountKey(u)]
    PROVE  AccountsGood'
<1>1. LockTyped /\ LoginsGood /\ \A u \in Account : HasTally(u)
    BY DEF LockoutInv
<1> QED
    BY <1>1, SameLoginsTally DEF AccountsGood

LEMMA LockoutParts == (LockTyped /\ LoginsGood /\ AddressesGood /\ AccountsGood) <=> LockoutInv
BY DEF LockoutInv, AddressesGood, AccountsGood

\* A login begins.
LEMMA LoginUserpassKeeps ==
    ASSUME LockoutInv, NEW l \in Login, LoginUserpass(l)
    PROVE  LockoutInv'
<1>1. LockTyped /\ LoginsGood /\ minute \in Nat
    BY DEF LockoutInv, LockTyped
<1>2. login[l].stage = "idle" /\ minute' = minute /\ by' = by /\ guess' = guess /\ shortened' = shortened
    BY DEF LoginUserpass
<1>3. PICK u \in Account, a \in Address :
        login' = [login EXCEPT ![l] = [stage |-> "address", account |-> u, addr |-> a, now |-> minute, nth |-> 0]]
    BY DEF LoginUserpass
<1> DEFINE r == [stage |-> "address", account |-> u, addr |-> a, now |-> minute, nth |-> 0]
<1>4. r \in LoginRecord /\ r.stage = "address" /\ r.now = minute
    BY <1>1 DEF LoginRecord, LoginStages
<1>5. login' = [login EXCEPT ![l] = r]
    BY <1>3
<1> HIDE DEF r
<1>6. /\ login' \in [Login -> [stage : {"idle"}] \cup LoginRecord]
      /\ login'[l] = r /\ \A k \in Login : k # l => login'[k] = login[k]
    BY <1>1, <1>4, <1>5 DEF LockTyped
<1>7. LockTyped'
    BY <1>1, <1>2, <1>6 DEF LockTyped
<1>8. SameLogins
  <2>1. \A k \in Login : login'[k].stage # "idle" => CarriesOn(k) /\ login'[k].now \in {minute' - 1, minute'}
      BY <1>1, <1>2, <1>4, <1>6 DEF CarriesOn, LoginsGood
  <2>2. \A k \in Login : Flies(k)' <=> Flies(k)
      BY <1>2, <1>4, <1>6 DEF Flies
  <2>3. \A k \in Login : login'[k].stage = "fail" => login[k].stage = "fail"
      BY <1>2, <1>4, <1>6
  <2>4. \A k \in Login : login[k].stage = "fail address" => login'[k].stage \in {"idle", "fail address"}
      BY <1>2, <1>4, <1>6
  <2>5. minute <= minute' /\ guess' = guess
      BY <1>1, <1>2
  <2> QED
      BY <2>1, <2>2, <2>3, <2>4, <2>5 DEF SameLogins
<1>9. \A c \in Address : Admitted(c)' \subseteq Admitted(c)
    BY <1>4, <1>6 DEF Admitted, Active
<1>10. \A c \in Address : EntryKept(addressKey(c), minute)
    BY <1>2 DEF EntryKept
<1>11. LoginsGood' /\ AddressesGood'
    BY <1>1, <1>2, <1>7, <1>8, <1>9, <1>10, SameLoginsAddresses
<1>12. AccountsGood'
    BY <1>2, <1>7, <1>8, SameLoginsAccounts
<1>13. (LockTyped /\ LoginsGood /\ AddressesGood /\ AccountsGood)'
    BY <1>7, <1>11, <1>12
<1> QED
    BY <1>13 DEF LockoutInv, AddressesGood, AccountsGood

\* A login goes on or ends.
Proceeds(l, s, from) ==
    /\ \/ from \in {"address", "account", "compare"} /\ s \in {"account", "compare"}
       \/ from = "fail" /\ s = "fail address" /\ login'[l].stage = s
    /\ login[l].stage = from
    /\ \A k \in Login : k # l => login'[k] = login[k]
    /\ \/ login'[l].stage = "idle"
       \/ /\ login'[l].stage = s
          /\ login'[l].account = login[l].account /\ login'[l].addr = login[l].addr
          /\ login'[l].now = login[l].now /\ login'[l].nth = login[l].nth
LEMMA ProceedsSame ==
    ASSUME LockTyped, LoginsGood, NEW l \in Login, minute' = minute, guess' = guess,
           NEW s, NEW from, Proceeds(l, s, from)
    PROVE  /\ SameLogins
           /\ \A c : from # "address" => Admitted(c)' \subseteq Admitted(c)
           /\ \A c : login'[l].stage = "idle" => Admitted(c)' \subseteq Admitted(c)
           /\ \A c : c # login[l].addr => Admitted(c)' \subseteq Admitted(c)
<1>1. minute \in Nat
    BY DEF LockTyped
<1>2. \A k \in Login : login'[k].stage # "idle" =>
        /\ login[k].stage # "idle" /\ login'[k].account = login[k].account /\ login'[k].addr = login[k].addr
        /\ login'[k].now = login[k].now /\ login'[k].nth = login[k].nth
    BY DEF Proceeds
<1>3. \A k \in Login : login'[k].stage # "idle" => CarriesOn(k) /\ login'[k].now \in {minute' - 1, minute'}
    BY <1>2 DEF CarriesOn, LoginsGood
<1>4. \A k \in Login : Flies(k)' <=> Flies(k)
    BY DEF Proceeds, Flies
<1>5. \A k \in Login : login'[k].stage = "fail" => login[k].stage = "fail"
    BY DEF Proceeds
<1>6. \A k \in Login : login[k].stage = "fail address" => login'[k].stage \in {"idle", "fail address"}
    BY DEF Proceeds
<1>7. SameLogins
  <2>1. minute <= minute' /\ guess' = guess
      BY <1>1
  <2> QED
      BY <2>1, <1>3, <1>4, <1>5, <1>6 DEF SameLogins
<1>8. ASSUME NEW c, NEW k \in Admitted(c)', k \notin Admitted(c)
      PROVE  k = l /\ from = "address" /\ login'[l].stage # "idle" /\ c = login[l].addr
  <2>1. k \in Login /\ login'[k].stage # "idle" /\ login'[k].stage # "address" /\ login'[k].addr = c
      BY <1>8 DEF Admitted, Active
  <2>2. login[k].stage # "idle" /\ login[k].addr = c /\ login[k].stage = "address"
      BY <1>2, <1>8, <2>1 DEF Admitted, Active
  <2>3. k = l
      BY <2>1, <2>2 DEF Proceeds
  <2> QED
      BY <2>1, <2>2, <2>3 DEF Proceeds
<1> QED
    BY <1>7, <1>8

\* A login looks at its address's lock, and at its account's.
LEMMA CheckAddressKeeps ==
    ASSUME LockoutInv, NEW l \in Login, CheckAddress(l)
    PROVE  LockoutInv'
<1> DEFINE key == addressKey(login[l].addr)
<1>1. /\ LockTyped /\ LoginsGood /\ login[l].stage = "address" /\ minute' = minute /\ guess' = guess /\ shortened' = shortened
      /\ by \in [DOMAIN by -> FailState]
    BY DEF LockoutInv, CheckAddress, LockTyped
<1>2. /\ login[l].addr \in Address /\ login[l].now \in Nat /\ login[l].now <= minute
    BY <1>1, TypedLogin
<1>3. /\ by' \in [DOMAIN by' -> FailState]
      /\ \A k : EntryKept(k, login[l].now)
      /\ \A k \in DOMAIN by' : k \in DOMAIN by /\ by'[k] = by[k]
      /\ key \in DOMAIN by' /\ by'[key].blocked # Never => lockedNow(key, login[l].now)
  <2> SUFFICES ASSUME NEW q, q = key, NEW n, n = login[l].now
               PROVE  /\ by' \in [DOMAIN by' -> FailState]
                      /\ \A k : EntryKept(k, n)
                      /\ \A k \in DOMAIN by' : k \in DOMAIN by /\ by'[k] = by[k]
                      /\ q \in DOMAIN by' /\ by'[q].blocked # Never => lockedNow(q, n)
      OBVIOUS
  <2>1. locked(q, n)
      BY DEF CheckAddress
  <2> QED
      BY <1>1, <1>2, <2>1, LockedEffect
<1>4. /\ login' \in [Login -> [stage : {"idle"}] \cup LoginRecord]
      /\ Proceeds(l, "account", "address")
      /\ lockedNow(key, login[l].now) => login'[l].stage = "idle"
  <2>1. CASE lockedNow(key, login[l].now)
    <3>1. End(l)
        BY <2>1 DEF CheckAddress
    <3> QED
        BY <1>1, <3>1, EndEffect DEF Proceeds
  <2>2. CASE ~lockedNow(key, login[l].now)
    <3>1. Goto(l, "account")
        BY <2>2 DEF CheckAddress
    <3>2. "account" \in LoginStages
        BY DEF LoginStages
    <3> QED
        BY <1>1, <2>2, <3>1, <3>2, GotoEffect DEF Proceeds
  <2> QED
      BY <2>1, <2>2
<1>5. LockTyped'
    BY <1>1, <1>3, <1>4 DEF LockTyped
<1>6. /\ SameLogins
      /\ \A c : login'[l].stage = "idle" => Admitted(c)' \subseteq Admitted(c)
      /\ \A c : c # login[l].addr => Admitted(c)' \subseteq Admitted(c)
    BY <1>1, <1>4, ProceedsSame
<1>7. \A c \in Address : addressKey(c) \in DOMAIN by' /\ by'[addressKey(c)].blocked # Never
                           => Admitted(c)' \subseteq Admitted(c)
    BY <1>3, <1>4, <1>6
<1>8. LoginsGood' /\ AddressesGood'
  <2> SUFFICES ASSUME NEW n, n = login[l].now PROVE LoginsGood' /\ AddressesGood'
      OBVIOUS
  <2>1. n \in Nat /\ n <= minute /\ shortened \subseteq shortened' /\ \A c \in Address : EntryKept(addressKey(c), n)
      BY <1>1, <1>2, <1>3
  <2> QED
      BY <1>5, <1>6, <1>7, <2>1, SameLoginsAddresses
<1>9. AccountsGood'
    BY <1>3, <1>5, <1>6, SameLoginsAccounts
<1>10. (LockTyped /\ LoginsGood /\ AddressesGood /\ AccountsGood)'
    BY <1>5, <1>8, <1>9
<1> QED
    BY <1>10 DEF LockoutInv, AddressesGood, AccountsGood

LEMMA CheckAccountKeeps ==
    ASSUME LockoutInv, NEW l \in Login, CheckAccount(l)
    PROVE  LockoutInv'
<1> DEFINE key == accountKey(login[l].account)
<1>1. /\ LockTyped /\ LoginsGood /\ login[l].stage = "account" /\ minute' = minute /\ guess' = guess /\ shortened' = shortened
      /\ by \in [DOMAIN by -> FailState]
    BY DEF LockoutInv, CheckAccount, LockTyped
<1>2. /\ login[l].addr \in Address /\ login[l].now \in Nat /\ login[l].now <= minute
    BY <1>1, TypedLogin
<1>3. /\ by' \in [DOMAIN by' -> FailState]
      /\ \A k : EntryKept(k, login[l].now)
      /\ \A k \in DOMAIN by' : k \in DOMAIN by /\ by'[k] = by[k]
  <2> SUFFICES ASSUME NEW q, q = key, NEW n, n = login[l].now
               PROVE  /\ by' \in [DOMAIN by' -> FailState]
                      /\ \A k : EntryKept(k, n)
                      /\ \A k \in DOMAIN by' : k \in DOMAIN by /\ by'[k] = by[k]
      OBVIOUS
  <2>1. locked(q, n)
      BY DEF CheckAccount
  <2> QED
      BY <1>1, <1>2, <2>1, LockedEffect
<1>4. /\ login' \in [Login -> [stage : {"idle"}] \cup LoginRecord]
      /\ Proceeds(l, "compare", "account")
  <2>1. CASE End(l)
      BY <1>1, <2>1, EndEffect DEF Proceeds
  <2>2. CASE Goto(l, "compare")
    <3>1. "compare" \in LoginStages
        BY DEF LoginStages
    <3> QED
        BY <1>1, <2>2, <3>1, GotoEffect DEF Proceeds
  <2> QED
      BY <2>1, <2>2 DEF CheckAccount
<1>5. LockTyped'
    BY <1>1, <1>3, <1>4 DEF LockTyped
<1>6. SameLogins /\ \A c : Admitted(c)' \subseteq Admitted(c)
    BY <1>1, <1>4, ProceedsSame
<1>7. LoginsGood' /\ AddressesGood'
  <2> SUFFICES ASSUME NEW n, n = login[l].now PROVE LoginsGood' /\ AddressesGood'
      OBVIOUS
  <2>1. n \in Nat /\ n <= minute /\ shortened \subseteq shortened' /\ \A c \in Address : EntryKept(addressKey(c), n)
      BY <1>1, <1>2, <1>3
  <2> QED
      BY <1>5, <1>6, <2>1, SameLoginsAddresses
<1>8. AccountsGood'
    BY <1>3, <1>5, <1>6, SameLoginsAccounts
<1>9. (LockTyped /\ LoginsGood /\ AddressesGood /\ AccountsGood)'
    BY <1>5, <1>7, <1>8
<1> QED
    BY <1>9 DEF LockoutInv, AddressesGood, AccountsGood

\* A right password.
LEMMA MatchKeeps ==
    ASSUME LockoutInv, NEW l \in Login, Match(l)
    PROVE  LockoutInv'
<1> DEFINE key == accountKey(login[l].account)
<1>1. /\ LockTyped /\ LoginsGood /\ login[l].stage = "compare" /\ minute' = minute /\ guess' = guess /\ shortened' = shortened
      /\ by \in [DOMAIN by -> FailState] /\ by' = Without(key) /\ End(l) /\ minute \in Nat
    BY DEF LockoutInv, Match, LockTyped, reset
<1>2. /\ by' \in [DOMAIN by' -> FailState] /\ DOMAIN by' = DOMAIN by \ {key}
      /\ \A k \in DOMAIN by' : by'[k] = by[k]
      /\ \A k : k # key => EntryKept(k, minute)
  <2> SUFFICES ASSUME NEW q, q = key
               PROVE  /\ by' \in [DOMAIN by' -> FailState] /\ DOMAIN by' = DOMAIN by \ {q}
                      /\ \A k \in DOMAIN by' : by'[k] = by[k]
                      /\ \A k : k # q => EntryKept(k, minute)
      OBVIOUS
  <2> QED
      BY <1>1, WithoutEffect
<1>3. \A c \in Address : EntryKept(addressKey(c), minute)
    BY <1>2, LockKeysDiffer
<1>4. /\ login' \in [Login -> [stage : {"idle"}] \cup LoginRecord]
      /\ Proceeds(l, "compare", "compare")
    BY <1>1, EndEffect DEF Proceeds
<1>5. LockTyped'
    BY <1>1, <1>2, <1>4 DEF LockTyped
<1>6. SameLogins /\ \A c : Admitted(c)' \subseteq Admitted(c)
    BY <1>1, <1>4, ProceedsSame
<1>7. LoginsGood' /\ AddressesGood'
    BY <1>1, <1>3, <1>5, <1>6, SameLoginsAddresses
<1>8. AccountsGood'
    BY <1>2, <1>5, <1>6, SameLoginsAccounts
<1>9. (LockTyped /\ LoginsGood /\ AddressesGood /\ AccountsGood)'
    BY <1>5, <1>7, <1>8
<1> QED
    BY <1>9 DEF LockoutInv, AddressesGood, AccountsGood

\* The clock.
LEMMA MinuteKeeps ==
    ASSUME LockoutInv, Minute
    PROVE  LockoutInv'
<1>1. /\ LockTyped /\ LoginsGood /\ minute \in Nat /\ minute' = minute + 1
      /\ by' = by /\ login' = login /\ guess' = guess /\ shortened' = shortened
      /\ \A l \in Login : login[l].stage # "idle" => login[l].now = minute
    BY DEF LockoutInv, Minute, LockTyped
<1>2. LockTyped'
    BY <1>1 DEF LockTyped
<1>3. SameLogins
  <2>1. \A k \in Login : login'[k].stage # "idle" => CarriesOn(k) /\ login'[k].now \in {minute' - 1, minute'}
      BY <1>1 DEF CarriesOn
  <2>2. \A k \in Login : Flies(k)' <=> Flies(k)
      BY <1>1 DEF Flies
  <2>3. minute <= minute' /\ guess' = guess
      BY <1>1
  <2>4. /\ \A k \in Login : login'[k].stage = "fail" => login[k].stage = "fail"
        /\ \A k \in Login : login[k].stage = "fail address" => login'[k].stage \in {"idle", "fail address"}
      BY <1>1
  <2> QED
      BY <2>1, <2>2, <2>3, <2>4 DEF SameLogins
<1>4. \A c \in Address : Admitted(c)' \subseteq Admitted(c)
    BY <1>1 DEF Admitted, Active
<1>5. \A c \in Address : EntryKept(addressKey(c), minute)
    BY <1>1 DEF EntryKept
<1>6. LoginsGood' /\ AddressesGood'
    BY <1>1, <1>2, <1>3, <1>4, <1>5, SameLoginsAddresses
<1>7. AccountsGood'
    BY <1>1, <1>2, <1>3, SameLoginsAccounts
<1>8. (LockTyped /\ LoginsGood /\ AddressesGood /\ AccountsGood)'
    BY <1>2, <1>6, <1>7
<1> QED
    BY <1>8 DEF LockoutInv, AddressesGood, AccountsGood

\* A wrong password is compared.
LEMMA MismatchKeeps ==
    ASSUME LockoutInv, NEW l \in Login, Mismatch(l)
    PROVE  LockoutInv'
<1> DEFINE r == [account |-> login[l].account, addr |-> login[l].addr, at |-> login[l].now]
           s == [login[l] EXCEPT !.stage = "fail", !.nth = Len(guess) + 1]
<1>1. /\ LockTyped /\ LoginsGood /\ minute \in Nat /\ login[l].stage = "compare"
      /\ guess' = Append(guess, r) /\ login' = [login EXCEPT ![l] = s]
      /\ minute' = minute /\ by' = by /\ shortened' = shortened
      /\ guess \in Seq(Guesses) /\ by \in [DOMAIN by -> FailState]
    BY DEF LockoutInv, Mismatch, LockTyped
<1>2. /\ login[l].account \in Account /\ login[l].addr \in Address /\ login[l].now \in Nat /\ login[l].now <= minute
      /\ login[l].now \in {minute - 1, minute} /\ login[l] \in LoginRecord
    BY <1>1, TypedLogin DEF LockTyped
<1>3. Len(guess) \in Nat /\ DOMAIN guess = 1..Len(guess)
    BY <1>1, LocksFinite
<1>4. PICK i : i = Len(guess) + 1
    OBVIOUS
<1>5. /\ s \in LoginRecord /\ s.stage = "fail" /\ s.nth = i
      /\ s.account = login[l].account /\ s.addr = login[l].addr /\ s.now = login[l].now
  <2> DEFINE o == login[l]
  <2>1. i \in Nat /\ "fail" \in LoginStages /\ s = [o EXCEPT !.stage = "fail", !.nth = i]
      BY <1>3, <1>4 DEF LoginStages
  <2> HIDE DEF s, o
  <2>2. o \in LoginRecord
      BY <1>2 DEF o
  <2>3. /\ s \in LoginRecord /\ s.stage = "fail" /\ s.nth = i
        /\ s.account = o.account /\ s.addr = o.addr /\ s.now = o.now
      BY <2>1, <2>2 DEF LoginRecord
  <2> QED
      BY <2>3 DEF o
<1>6. r \in Guesses /\ r.account = login[l].account /\ r.addr = login[l].addr /\ r.at = login[l].now
    BY <1>2 DEF Guesses
<1> HIDE DEF r, s
<1>7. /\ guess' \in Seq(Guesses) /\ DOMAIN guess' = DOMAIN guess \cup {i} /\ i \notin DOMAIN guess
      /\ guess'[i] = r /\ \A j \in DOMAIN guess : guess'[j] = guess[j]
  <2>1. guess' \in Seq(Guesses)
      BY <1>1, <1>6
  <2>2. /\ DOMAIN guess' = 1..(Len(guess) + 1) /\ guess'[Len(guess) + 1] = r
        /\ \A j \in 1..Len(guess) : guess'[j] = guess[j]
      BY <1>1, <1>6
  <2> QED
      BY <2>1, <2>2, <1>3, <1>4
<1>8. /\ login' \in [Login -> [stage : {"idle"}] \cup LoginRecord]
      /\ login'[l] = s /\ \A k \in Login : k # l => login'[k] = login[k]
    BY <1>1, <1>5 DEF LockTyped
<1>9. LockTyped'
    BY <1>1, <1>7, <1>8 DEF LockTyped
<1>10. \A k \in Login : k # l /\ Flies(k) => OwnGuess(k) /\ login[k].nth \in DOMAIN guess
    BY <1>1 DEF LoginsGood, OwnGuess
<1>11. ~Flies(l) /\ Flies(l)' /\ \A k \in Login : k # l => (Flies(k)' <=> Flies(k))
    BY <1>1, <1>5, <1>8 DEF Flies
<1>12. LoginsGood'
  <2>1. \A k \in Login : login'[k].stage # "idle" => login'[k].now \in {minute' - 1, minute'}
      BY <1>1, <1>2, <1>5, <1>8 DEF LoginsGood
  <2>2. \A k \in Login : Flies(k)' => OwnGuess(k)'
    <3>1. OwnGuess(l)'
        BY <1>5, <1>6, <1>7, <1>8 DEF OwnGuess
    <3>2. ASSUME NEW k \in Login, k # l, Flies(k)' PROVE OwnGuess(k)'
        BY <1>7, <1>8, <1>10, <1>11, <3>2 DEF OwnGuess
    <3> QED
        BY <3>1, <3>2
  <2>3. \A k, m \in Login : Flies(k)' /\ Flies(m)' /\ login'[k].nth = login'[m].nth => k = m
    <3> SUFFICES ASSUME NEW k \in Login, NEW m \in Login, Flies(k)', Flies(m)', login'[k].nth = login'[m].nth, k # m
                 PROVE  FALSE
        OBVIOUS
    <3>1. CASE k = l
        BY <1>5, <1>7, <1>8, <1>10, <1>11, <3>1
    <3>2. CASE m = l
        BY <1>5, <1>7, <1>8, <1>10, <1>11, <3>2
    <3>3. CASE k # l /\ m # l
        BY <1>1, <1>8, <1>11, <3>3 DEF LoginsGood
    <3> QED
        BY <3>1, <3>2, <3>3
  <2>4. \A j \in DOMAIN guess' : guess'[j].at <= minute'
      BY <1>1, <1>2, <1>6, <1>7 DEF LoginsGood
  <2> QED
      BY <2>1, <2>2, <2>3, <2>4 DEF LoginsGood
<1>13. ASSUME NEW c
       PROVE  Counted(c)' = Counted(c) /\ (c # login[l].addr => Mine(c)' = Mine(c))
  <2>1. Mine(c)' = Mine(c) \cup IF c = login[l].addr THEN {i} ELSE {}
      BY <1>6, <1>7 DEF Mine
  <2>2. Flying(c)' = Flying(c) \cup IF c = login[l].addr THEN {l} ELSE {}
    <3>1. \A k \in Login : k \in Flying(c) <=> Flies(k) /\ login[k].stage # "idle" /\ login[k].addr = c
        BY DEF Flying, Active
    <3>2. \A k \in Login : k \in Flying(c)' <=> Flies(k)' /\ login'[k].stage # "idle" /\ login'[k].addr = c
        BY DEF Flying, Active
    <3>3. \A k \in Login : k # l => (k \in Flying(c)' <=> k \in Flying(c))
        BY <1>8, <1>11, <3>1, <3>2
    <3>4. l \in Flying(c)' <=> c = login[l].addr
        BY <1>5, <1>8, <1>11, <3>2
    <3>5. l \notin Flying(c)
        BY <1>11, <3>1
    <3>6. Flying(c) \subseteq Login /\ Flying(c)' \subseteq Login
        BY DEF Flying, Active
    <3> QED
        BY <3>3, <3>4, <3>5, <3>6
  <2>3. l \notin Flying(c) /\ Flying(c) \subseteq Login
      BY <1>11 DEF Flying, Active
  <2>4. Uncounted(c)' = Uncounted(c) \cup IF c = login[l].addr THEN {i} ELSE {}
    <3>1. Uncounted(c)' = {login'[k].nth : k \in Flying(c)'}
        BY DEF Uncounted
    <3>2. \A k \in Flying(c) : login'[k].nth = login[k].nth
        BY <1>8, <2>3
    <3>3. login'[l].nth = i
        BY <1>5, <1>8
    <3> QED
        BY <2>2, <3>1, <3>2, <3>3 DEF Uncounted
  <2>5. i \notin Mine(c)
      BY <1>7 DEF Mine
  <2> QED
      BY <2>1, <2>4, <2>5 DEF Counted
<1>14. ASSUME NEW c
       PROVE  Admitted(c)' = Admitted(c) /\ \A t : Early(c, t)' = Early(c, t)
  <2>1. Active(c)' = Active(c)
      BY <1>1, <1>5, <1>8 DEF Active
  <2> QED
      BY <1>1, <1>5, <1>8, <2>1 DEF Admitted, Early, Active
<1>15. AddressesGood'
  <2> SUFFICES ASSUME NEW c \in Address, addressKey(c) \notin shortened PROVE HasLife(c)' /\ Spread(c)'
      BY <1>1 DEF AddressesGood
  <2>1. HasLife(c) /\ Spread(c)
      BY DEF LockoutInv
  <2>2. Quiet(c)
      BY <1>1, <1>7, <1>13, <1>14 DEF Quiet
  <2>3. HasLife(c)'
      BY <1>1, <1>9, <2>1, <2>2, QuietKeeps
  <2>4. CASE c # login[l].addr
    <3>1. Mine(c)' = Mine(c) /\ Mine(c) \subseteq DOMAIN guess
        BY <1>13, <2>4 DEF Mine
    <3>2. \A t : Within(Mine(c), t)' = Within(Mine(c), t)
        BY <1>7, <3>1 DEF Within
    <3> QED
        BY <2>1, <2>3, <3>2 DEF Spread, Full
  <2>5. CASE c = login[l].addr
    <3> SUFFICES ASSUME NEW n, n = login[l].now PROVE HasLife(c)' /\ Spread(c)'
        OBVIOUS
    <3>1. l \in Admitted(c) \ Flying(c)
        BY <1>1, <1>11, <2>5 DEF Admitted, Active, Flying
    <3>2. ComparesOne(c, l, i, n)
        BY <1>2, <1>6, <1>7, <2>5, <3>1 DEF ComparesOne
    <3>3. n \in Nat
        BY <1>2
    <3>4. Spread(c)'
        BY <1>1, <1>9, <2>1, <3>2, <3>3, SpreadGrows
    <3> QED
        BY <2>3, <3>4
  <2> QED
      BY <2>4, <2>5
<1>16. AccountsGood'
  <2> SUFFICES ASSUME NEW u \in Account PROVE HasTally(u)'
      BY DEF AccountsGood
  <2>1. HasTally(u)
      BY DEF LockoutInv
  <2>2. \A t \in Int : Pending(u, t)' \subseteq Pending(u, t)
      BY <1>1, <1>5, <1>8 DEF Pending
  <2>3. \A k \in Login : login'[k].stage = "fail" =>
          (login[k].stage = "fail" /\ login'[k].nth = login[k].nth) \/ login'[k].nth \notin DOMAIN guess
      BY <1>5, <1>7, <1>8
  <2>4. Unmoved(u)
      BY <1>1, <1>7, <2>2, <2>3 DEF Unmoved
  <2> QED
      BY <1>1, <1>9, <2>1, <2>4, UnmovedKeeps
<1>17. (LockTyped /\ LoginsGood /\ AddressesGood /\ AccountsGood)'
    BY <1>9, <1>12, <1>15, <1>16
<1> QED
    BY <1>17 DEF LockoutInv, AddressesGood, AccountsGood

\* The failure is counted, first against the account.
LEMMA FailAccountKeeps ==
    ASSUME LockoutInv, NEW l \in Login, FailAccount(l)
    PROVE  LockoutInv'
<1>1. /\ LockTyped /\ LoginsGood /\ minute \in Nat /\ login[l].stage = "fail"
      /\ minute' = minute /\ guess' = guess /\ shortened \subseteq shortened' /\ Goto(l, "fail address")
      /\ by \in [DOMAIN by -> FailState]
    BY DEF LockoutInv, FailAccount, LockTyped, Shortens
<1>2. /\ login[l].account \in Account /\ login[l].addr \in Address /\ login[l].now \in Nat /\ login[l].now <= minute
      /\ login[l].now \in {minute - 1, minute} /\ login[l].nth \in Nat
    BY <1>1, TypedLogin
<1>3. PICK n \in Nat, u \in Account, i \in Nat : n = login[l].now /\ u = login[l].account /\ i = login[l].nth
    BY <1>2
<1>4. fail(accountKey(u), n, MaxAccountFailures) /\ MaxAccountFailures \in Nat
    BY <1>3, LockoutNumbers DEF FailAccount
<1>5. /\ by' \in [DOMAIN by' -> FailState]
      /\ Grows(accountKey(u), n, MaxAccountFailures) \/ BeginsAnew(accountKey(u), n)
    BY <1>1, <1>4, FailEffect
<1>6. \A k : k # accountKey(u) =>
        EntryKept(k, n) /\ (k \in DOMAIN by' => k \in DOMAIN by /\ by'[k] = by[k])
  <2> SUFFICES ASSUME NEW k, k # accountKey(u)
               PROVE  EntryKept(k, n) /\ (k \in DOMAIN by' => k \in DOMAIN by /\ by'[k] = by[k])
      OBVIOUS
  <2>1. minute' = minute /\ by \in [DOMAIN by -> FailState]
      BY <1>1
  <2> QED
      BY <1>4, <2>1, FailKeepsOthers
<1>7. /\ login' \in [Login -> [stage : {"idle"}] \cup LoginRecord]
      /\ \A k \in Login : k # l => login'[k] = login[k]
      /\ login'[l].stage = "fail address"
      /\ login'[l].account = login[l].account /\ login'[l].addr = login[l].addr
      /\ login'[l].now = login[l].now /\ login'[l].nth = login[l].nth
  <2>1. "fail address" \in LoginStages
      BY DEF LoginStages
  <2> QED
      BY <1>1, <2>1, GotoEffect
<1>8. Proceeds(l, "fail address", "fail")
    BY <1>1, <1>7 DEF Proceeds
<1>9. LockTyped'
    BY <1>1, <1>5, <1>7 DEF LockTyped
<1>10. SameLogins /\ \A c : Admitted(c)' \subseteq Admitted(c)
    BY <1>1, <1>8, ProceedsSame
<1>11. LoginsGood' /\ AddressesGood'
  <2>1. \A c \in Address : EntryKept(addressKey(c), n)
      BY <1>6, LockKeysDiffer
  <2> QED
      BY <1>1, <1>2, <1>3, <1>9, <1>10, <2>1, SameLoginsAddresses
<1>12. AccountsGood'
  <2> SUFFICES ASSUME NEW v \in Account PROVE HasTally(v)'
      BY DEF AccountsGood
  <2>1. HasTally(v)
      BY DEF LockoutInv
  <2>2. CASE v # u
    <3>1. accountKey(v) \in DOMAIN by' => accountKey(v) \in DOMAIN by /\ by'[accountKey(v)] = by[accountKey(v)]
        BY <1>6, <2>2, LockKeysDiffer
    <3> QED
        BY <1>1, <1>9, <1>10, <2>1, <3>1, SameLoginsTally
  <2>3. CASE v = u
    <3>1. Flies(l) /\ OwnGuess(l)
        BY <1>1 DEF LoginsGood, Flies
    <3>2. /\ i \in DOMAIN guess /\ guess[i].account = u /\ guess[i].at = n /\ n \in {minute - 1, minute}
        BY <1>2, <1>3, <3>1 DEF OwnGuess
    <3>3. l \in Pending(u, n)
        BY <1>1, <1>3 DEF Pending
    <3>4. \A t : Pending(u, t)' \subseteq Pending(u, t) \ {l}
        BY <1>7 DEF Pending
    <3>5. \A k \in Login : login'[k].stage = "fail" => k # l /\ login[k].stage = "fail" /\ login'[k].nth = login[k].nth
        BY <1>7
    <3>6. ChargesOne(u, l, i, n)
        BY <1>1, <1>3, <1>5, <3>2, <3>3, <3>4, <3>5 DEF ChargesOne
    <3> QED
        BY <1>1, <2>1, <2>3, <3>6, ChargeKeeps
  <2> QED
      BY <2>2, <2>3
<1>13. (LockTyped /\ LoginsGood /\ AddressesGood /\ AccountsGood)'
    BY <1>9, <1>11, <1>12
<1> QED
    BY <1>13 DEF LockoutInv, AddressesGood, AccountsGood

\* Then against the address.
LEMMA FailAddressKeeps ==
    ASSUME LockoutInv, NEW l \in Login, FailAddress(l)
    PROVE  LockoutInv'
<1>1. /\ LockTyped /\ LoginsGood /\ minute \in Nat /\ login[l].stage = "fail address"
      /\ minute' = minute /\ guess' = guess /\ shortened \subseteq shortened' /\ End(l)
      /\ by \in [DOMAIN by -> FailState]
    BY DEF LockoutInv, FailAddress, LockTyped, Shortens
<1>2. /\ login[l].account \in Account /\ login[l].addr \in Address /\ login[l].now \in Nat /\ login[l].now <= minute
      /\ login[l].now \in {minute - 1, minute} /\ login[l].nth \in Nat
    BY <1>1, TypedLogin
<1>3. PICK n \in Nat, a \in Address, i \in Nat : n = login[l].now /\ a = login[l].addr /\ i = login[l].nth
    BY <1>2
<1>4. fail(addressKey(a), n, MaxLoginFailures) /\ MaxLoginFailures \in Nat
    BY <1>3, LockoutNumbers DEF FailAddress
<1>5. /\ by' \in [DOMAIN by' -> FailState]
      /\ Grows(addressKey(a), n, MaxLoginFailures) \/ BeginsAnew(addressKey(a), n)
    BY <1>1, <1>4, FailEffect
<1>6. \A k : k # addressKey(a) =>
        EntryKept(k, n) /\ (k \in DOMAIN by' => k \in DOMAIN by /\ by'[k] = by[k])
  <2> SUFFICES ASSUME NEW k, k # addressKey(a)
               PROVE  EntryKept(k, n) /\ (k \in DOMAIN by' => k \in DOMAIN by /\ by'[k] = by[k])
      OBVIOUS
  <2>1. minute' = minute /\ by \in [DOMAIN by -> FailState]
      BY <1>1
  <2> QED
      BY <1>4, <2>1, FailKeepsOthers
<1>7. /\ login' \in [Login -> [stage : {"idle"}] \cup LoginRecord]
      /\ \A k \in Login : k # l => login'[k] = login[k]
      /\ login'[l].stage = "idle"
    BY <1>1, EndEffect
<1>8. LockTyped'
    BY <1>1, <1>5, <1>7 DEF LockTyped
<1>9. Flies(l) /\ OwnGuess(l) /\ ~Flies(l)' /\ \A k \in Login : k # l => (Flies(k)' <=> Flies(k))
    BY <1>1, <1>7 DEF LoginsGood, Flies
<1>10. LoginsGood'
  <2>1. \A k \in Login : Flies(k)' => k # l /\ Flies(k) /\ login'[k] = login[k]
      BY <1>7, <1>9
  <2>2. \A k \in Login : Flies(k)' => OwnGuess(k)'
    <3> SUFFICES ASSUME NEW k \in Login, Flies(k)' PROVE OwnGuess(k)'
        OBVIOUS
    <3>1. OwnGuess(k)
        BY <1>1, <2>1 DEF LoginsGood
    <3> QED
        BY <1>1, <2>1, <3>1 DEF OwnGuess
  <2>3. \A k, m \in Login : Flies(k)' /\ Flies(m)' /\ login'[k].nth = login'[m].nth => k = m
      BY <1>1, <2>1 DEF LoginsGood
  <2>4. \A k \in Login : login'[k].stage # "idle" => login'[k].now \in {minute' - 1, minute'}
      BY <1>1, <1>7 DEF LoginsGood
  <2>5. \A j \in DOMAIN guess' : guess'[j].at <= minute'
      BY <1>1 DEF LoginsGood
  <2> QED
      BY <2>2, <2>3, <2>4, <2>5 DEF LoginsGood
<1>11. ASSUME NEW c
       PROVE  /\ Mine(c)' = Mine(c)
              /\ Counted(c)' = Counted(c) \cup IF c = a THEN {i} ELSE {}
              /\ c = a => i \notin Counted(c)
              /\ Active(c)' = Active(c) \ {l} /\ Admitted(c)' = Admitted(c) \ {l}
              /\ \A t : Early(c, t)' = Early(c, t) \ {l}
  <2>1. Mine(c)' = Mine(c)
      BY <1>1 DEF Mine
  <2>2. Active(c)' = Active(c) \ {l}
      BY <1>7 DEF Active
  <2>3. Active(c) \subseteq Login /\ \A k \in Active(c)' : login'[k] = login[k] /\ k # l
      BY <1>7, <2>2 DEF Active
  <2>4. Admitted(c)' = Admitted(c) \ {l} /\ \A t : Early(c, t)' = Early(c, t) \ {l}
      BY <2>2, <2>3 DEF Admitted, Early
  <2>5. Flying(c)' = Flying(c) \ {l}
    <3>1. \A k \in Active(c)' : Flies(k)' <=> Flies(k)
        BY <1>9, <2>2, <2>3
    <3> QED
        BY <2>2, <3>1 DEF Flying
  <2>6. l \in Flying(c) <=> c = a
      BY <1>1, <1>3, <1>9 DEF Flying, Active
  <2>7. \A k \in Flying(c) : k \in Login /\ Flies(k) /\ (k # l => login'[k].nth = login[k].nth /\ login[k].nth # i)
      BY <1>1, <1>3, <1>7, <1>9 DEF Flying, Active, LoginsGood
  <2>8. Uncounted(c)' = Uncounted(c) \ IF c = a THEN {i} ELSE {}
    <3>1. Uncounted(c)' = {login'[k].nth : k \in Flying(c)'}
        BY DEF Uncounted
    <3> QED
        BY <1>3, <2>5, <2>6, <2>7, <3>1 DEF Uncounted
  <2>9. c = a => i \in Mine(c) /\ i \in Uncounted(c)
      BY <1>3, <1>9, <2>6 DEF OwnGuess, Mine, Uncounted
  <2> QED
      BY <2>1, <2>2, <2>4, <2>8, <2>9 DEF Counted
<1>12. AddressesGood'
  <2> SUFFICES ASSUME NEW c \in Address, addressKey(c) \notin shortened' PROVE HasLife(c)' /\ Spread(c)'
      BY DEF AddressesGood
  <2>1. HasLife(c) /\ Spread(c)
      BY <1>1 DEF LockoutInv
  <2>2. Spread(c)'
    <3>1. \A t : Within(Mine(c), t)' = Within(Mine(c), t)
        BY <1>1, <1>11 DEF Within
    <3> QED
        BY <2>1, <3>1 DEF Spread, Full
  <2>3. CASE c # a
    <3>1. EntryKept(addressKey(c), n)
        BY <1>6, <2>3, LockKeysDiffer
    <3>2. Counted(c)' = Counted(c)
        BY <1>11, <2>3
    <3>5. Admitted(c)' \subseteq Admitted(c) /\ \A t : Early(c, t)' \subseteq Early(c, t)
        BY <1>11
    <3>6. minute <= minute' /\ n <= minute
      <4>1. minute' = minute /\ minute \in Nat /\ n <= minute
          BY <1>1, <1>2, <1>3
      <4> QED
          BY <4>1
    <3>3. Quiet(c)
        BY <1>1, <1>3, <3>1, <3>2, <3>5, <3>6 DEF Quiet, EntryKept
    <3>4. HasLife(c)'
        BY <1>1, <1>8, <2>1, <3>3, QuietKeeps
    <3> QED
        BY <2>2, <3>4
  <2>4. CASE c = a
    <3>1. ~(addressKey(a) \in DOMAIN by /\ Predates(addressKey(a), n, MaxLoginFailures))
        BY <1>3, <2>4 DEF FailAddress, Shortens
    <3>2. l \in Admitted(a)
        BY <1>1, <1>3 DEF Admitted, Active
    <3>3. i \in DOMAIN guess /\ guess[i].at = n /\ n \in {minute - 1, minute}
        BY <1>2, <1>3, <1>9 DEF OwnGuess
    <3>4. /\ i \notin Counted(a) /\ Counted(a)' = Counted(a) \cup {i}
          /\ Active(a)' \subseteq Active(a) \ {l} /\ Admitted(a)' \subseteq Admitted(a) \ {l}
          /\ \A t : Early(a, t)' \subseteq Early(a, t) \ {l}
        BY <1>11
    <3>5. CountsOne(a, l, i, n)
        BY <1>1, <1>3, <1>5, <3>1, <3>2, <3>3, <3>4 DEF CountsOne
    <3>6. HasLife(c)'
        BY <1>1, <2>1, <2>4, <3>5, CountKeeps
    <3> QED
        BY <2>2, <3>6
  <2> QED
      BY <2>3, <2>4
<1>13. AccountsGood'
  <2> SUFFICES ASSUME NEW u \in Account PROVE HasTally(u)'
      BY DEF AccountsGood
  <2>1. HasTally(u)
      BY DEF LockoutInv
  <2>2. \A t \in Int : Pending(u, t)' \subseteq Pending(u, t)
      BY <1>7 DEF Pending
  <2>3. \A k \in Login : login'[k].stage = "fail" => login[k].stage = "fail" /\ login'[k].nth = login[k].nth
      BY <1>7
  <2>4. accountKey(u) \in DOMAIN by' => accountKey(u) \in DOMAIN by /\ by'[accountKey(u)] = by[accountKey(u)]
      BY <1>6, LockKeysDiffer
  <2>6. minute <= minute' /\ DOMAIN guess \subseteq DOMAIN guess' /\ \A j \in DOMAIN guess : guess'[j] = guess[j]
    <3>1. minute' = minute /\ minute \in Nat /\ guess' = guess
        BY <1>1
    <3> QED
        BY <3>1
  <2>5. Unmoved(u)
      BY <2>2, <2>3, <2>4, <2>6 DEF Unmoved
  <2> QED
      BY <1>1, <1>8, <2>1, <2>5, UnmovedKeeps
<1>14. (LockTyped /\ LoginsGood /\ AddressesGood /\ AccountsGood)'
    BY <1>8, <1>10, <1>12, <1>13
<1> QED
    BY <1>14 DEF LockoutInv, AddressesGood, AccountsGood

LEMMA LockoutInitially == LockoutInit => LockoutInv
<1> SUFFICES ASSUME LockoutInit PROVE LockoutInv
    OBVIOUS
<1>1. minute = 0 /\ by = <<>> /\ guess = <<>> /\ shortened = {} /\ login = [l \in Login |-> [stage |-> "idle"]]
    BY DEF LockoutInit
<1>2. DOMAIN by = {} /\ DOMAIN guess = {} /\ \A l \in Login : login[l].stage = "idle"
    BY <1>1
<1>3. LockTyped
  <2>1. guess \in Seq(Guesses)
    <3>1. <<>> \in Seq(Guesses)
        OBVIOUS
    <3> QED
        BY <1>1, <3>1
  <2>2. login \in [Login -> [stage : {"idle"}] \cup LoginRecord]
      BY <1>1
  <2>3. by \in [DOMAIN by -> FailState]
      BY <1>1, <1>2
  <2> QED
      BY <1>1, <2>1, <2>2, <2>3 DEF LockTyped
<1>4. LoginsGood
    BY <1>2 DEF LoginsGood, Flies
<1>5. \A t : At({}, t) = {} /\ Within({}, t) = {}
    BY DEF At, Within
<1>6. Cardinality({}) = 0
    BY FS_EmptySet
<1>10. \A t : Cardinality(At({}, t)) = 0 /\ Cardinality(Within({}, t)) = 0
    BY <1>5, <1>6
<1>7. /\ MaxLoginFailures \in Nat /\ MaxLoginFailures >= 2 /\ Cardinality(Login) \in Nat
      /\ Full \in Int /\ Full >= 0 /\ LockoutWindow \in Nat
    BY LockoutNumbers DEF Full
<1>8. ASSUME NEW a \in Address
      PROVE  HasLife(a) /\ Spread(a)
  <2>1. Mine(a) = {} /\ Counted(a) = {}
      BY <1>2 DEF Mine, Counted
  <2>2. Spread(a)
      BY <1>7, <1>10, <2>1 DEF Spread
  <2>3. Past(Counted(a) \ {}, 0)
    <3>1. Counted(a) \ {} = {}
        BY <2>1
    <3>2. Past({}, 0)
        BY <1>7, <1>10 DEF Past
    <3> QED
        BY <3>1, <3>2
  <2>4. Early(a, 0 - 1) = {}
      BY <1>2 DEF Early, Active
  <2>5. Present(a, {}, 0)
    <3>1. Cardinality(Early(a, 0 - 1)) = 0 /\ Cardinality(At({}, 0 - 1)) = 0
        BY <1>6, <1>10, <2>4
    <3> QED
        BY <1>2, <1>7, <3>1 DEF Present
  <2>6. Life(a, {}, 0)
      BY <1>1, <2>1, <2>3, <2>5 DEF Life
  <2> QED
      BY <2>2, <2>6 DEF HasLife
<1>9. \A u \in Account : HasTally(u)
    BY <1>2 DEF HasTally
<1> QED
    BY <1>3, <1>4, <1>8, <1>9 DEF LockoutInv

LEMMA LockoutStep == LockoutInv /\ [LockoutNext]_lockoutVars => LockoutInv'
<1> SUFFICES ASSUME LockoutInv, [LockoutNext]_lockoutVars PROVE LockoutInv'
    OBVIOUS
<1>1. CASE Minute
    BY <1>1, MinuteKeeps
<1>2. ASSUME NEW l \in Login, Attempt(l)
      PROVE  LockoutInv'
  <2>1. CASE LoginUserpass(l)
      BY <2>1, LoginUserpassKeeps
  <2>2. CASE CheckAddress(l)
      BY <2>2, CheckAddressKeeps
  <2>3. CASE CheckAccount(l)
      BY <2>3, CheckAccountKeeps
  <2>4. CASE Mismatch(l)
      BY <2>4, MismatchKeeps
  <2>5. CASE FailAccount(l)
      BY <2>5, FailAccountKeeps
  <2>6. CASE FailAddress(l)
      BY <2>6, FailAddressKeeps
  <2>7. CASE Match(l)
      BY <2>7, MatchKeeps
  <2> QED
      BY <1>2, <2>1, <2>2, <2>3, <2>4, <2>5, <2>6, <2>7 DEF Attempt
<1>3. CASE UNCHANGED lockoutVars
  <2>1. minute' = minute /\ by' = by /\ login' = login /\ guess' = guess /\ shortened' = shortened
      BY <1>3 DEF lockoutVars
  <2>2. LockTyped /\ LoginsGood /\ minute \in Nat
      BY DEF LockoutInv, LockTyped
  <2>3. LockTyped'
      BY <2>1, <2>2 DEF LockTyped
  <2>4. SameLogins
    <3>1. \A k \in Login : login'[k].stage # "idle" => CarriesOn(k) /\ login'[k].now \in {minute' - 1, minute'}
        BY <2>1, <2>2 DEF CarriesOn, LoginsGood
    <3>2. \A k \in Login : Flies(k)' <=> Flies(k)
        BY <2>1 DEF Flies
    <3>3. minute <= minute' /\ guess' = guess
        BY <2>1, <2>2
    <3>4. /\ \A k \in Login : login'[k].stage = "fail" => login[k].stage = "fail"
          /\ \A k \in Login : login[k].stage = "fail address" => login'[k].stage \in {"idle", "fail address"}
        BY <2>1
    <3> QED
        BY <3>1, <3>2, <3>3, <3>4 DEF SameLogins
  <2>5. \A c \in Address : Admitted(c)' \subseteq Admitted(c)
      BY <2>1 DEF Admitted, Active
  <2>6. \A c \in Address : EntryKept(addressKey(c), minute)
      BY <2>1 DEF EntryKept
  <2>7. LoginsGood' /\ AddressesGood'
      BY <2>1, <2>2, <2>3, <2>4, <2>5, <2>6, SameLoginsAddresses
  <2>8. AccountsGood'
      BY <2>1, <2>3, <2>4, SameLoginsAccounts
  <2>9. (LockTyped /\ LoginsGood /\ AddressesGood /\ AccountsGood)'
      BY <2>3, <2>7, <2>8
  <2> QED
      BY <2>9 DEF LockoutInv, AddressesGood, AccountsGood
<1> QED
    BY <1>1, <1>2, <1>3 DEF LockoutNext

LEMMA BudgetFollows == LockoutInv => BudgetHolds
<1> SUFFICES ASSUME LockoutInv, NEW i \in DOMAIN guess, addressKey(guess[i].addr) \notin shortened
             PROVE  Cardinality({j \in InWindow(i) : guess[j].addr = guess[i].addr}) <= Allowance(MaxLoginFailures)
    BY DEF BudgetHolds
<1>1. LockTyped
    BY DEF LockoutInv
<1>2. /\ \A j \in DOMAIN guess : guess[j] \in Guesses
      /\ LockoutWindow \in Nat
    BY <1>1, LockoutNumbers DEF LockTyped
<1>3. \A j \in DOMAIN guess : guess[j].at \in Nat /\ guess[j].addr \in Address
    BY <1>2 DEF Guesses
<1> DEFINE a == guess[i].addr
           t == guess[i].at - LockoutWindow
<1>4. {j \in InWindow(i) : guess[j].addr = a} = Within(Mine(a), t)
    BY <1>2, <1>3 DEF InWindow, Within, Mine
<1>5. Spread(a) /\ t \in Int
    BY <1>2, <1>3 DEF LockoutInv
<1>6. Cardinality(Within(Mine(a), t)) <= 2 * Full
    BY <1>5 DEF Spread
<1> QED
    BY <1>4, <1>6 DEF Allowance, Full

LEMMA ClientCannotLock == LockoutInv => OneClientCannotLock
<1> SUFFICES ASSUME LockoutInv, shortened = {}, NEW u \in Account,
                    MaxAccountFailures >= Allowance(MaxLoginFailures) + Cardinality(Login),
                    accountKey(u) \in DOMAIN by, by[accountKey(u)].blocked # Never
             PROVE  Cardinality({guess[j].addr : j \in {k \in DOMAIN guess : guess[k].account = u}}) > 1
    BY DEF OneClientCannotLock
<1> DEFINE e == by[accountKey(u)]
           M == {k \in DOMAIN guess : guess[k].account = u}
           S == {guess[j].addr : j \in M}
           f == [j \in M |-> guess[j].addr]
<1>1. /\ LockTyped /\ \A j \in DOMAIN guess : guess[j] \in Guesses
      /\ e \in FailState
    BY DEF LockoutInv, LockTyped
<1>2. /\ \A j \in DOMAIN guess : guess[j].at \in Nat /\ guess[j].addr \in Address
      /\ e.first \in Nat /\ e.count \in Nat
    BY <1>1 DEF Guesses, FailState
<1>3. PICK R : Tally(u, R)
    BY DEF LockoutInv, HasTally
<1>4. /\ R \subseteq M /\ e.count <= Cardinality(R) /\ e.count >= MaxAccountFailures
      /\ \A j \in R : e.first - 1 <= guess[j].at /\ guess[j].at <= e.first + LockoutWindow
      /\ Cardinality(At(R, e.first - 1)) + Cardinality(Pending(u, e.first - 1)) <= Cardinality(Login) - 1
    BY <1>3 DEF Tally
<1>5. /\ IsFiniteSet(M) /\ IsFiniteSet(R) /\ Cardinality(R) \in Nat /\ R \subseteq DOMAIN guess
      /\ Pending(u, e.first - 1) \subseteq Login
    BY <1>1, <1>4, LocksFinite DEF Pending
<1>6. /\ MaxAccountFailures \in Nat /\ MaxAccountFailures >= 2 /\ Cardinality(Login) \in Nat /\ Full \in Int
      /\ Allowance(MaxLoginFailures) = 2 * Full /\ LockoutWindow \in Nat
    BY LockoutNumbers DEF Allowance, Full
<1>7. IsFiniteSet(S) /\ Cardinality(S) \in Nat
  <2>1. f \in Surjection(M, S)
      BY DEF Surjection
  <2>2. IsFiniteSet(S)
      BY <1>5, <2>1, FS_Surjection
  <2> QED
      BY <2>2, FS_CardinalityType
<1>8. R # {}
  <2>1. Cardinality(R) >= 2
      BY <1>2, <1>4, <1>5, <1>6
  <2> QED
      BY <2>1, FS_EmptySet
<1>9. S # {}
    BY <1>4, <1>8
<1>10. Cardinality(S) # 0
    BY <1>7, <1>9, FS_EmptySet
<1>11. ASSUME Cardinality(S) = 1
       PROVE  FALSE
  <2>1. PICK a : S = {a}
      BY <1>7, <1>11, FS_Singleton
  <2>2. \A j \in M : guess[j].addr = a
      BY <2>1
  <2>3. a \in Address /\ R \subseteq Mine(a)
      BY <1>2, <1>4, <1>5, <1>8, <2>2 DEF Mine
  <2>4. Cardinality(Within(Mine(a), e.first)) <= 2 * Full
    <3>1. Spread(a)
        BY <2>3 DEF LockoutInv
    <3> QED
        BY <1>2, <3>1 DEF Spread
  <2>5. R \subseteq Within(Mine(a), e.first) \cup At(R, e.first - 1)
      BY <1>2, <1>4, <1>5, <2>3 DEF Within, At
  <2>6. Mine(a) \subseteq DOMAIN guess
      BY DEF Mine
  <2>7. /\ IsFiniteSet(Within(Mine(a), e.first)) /\ Cardinality(Within(Mine(a), e.first)) \in Nat
        /\ IsFiniteSet(At(R, e.first - 1)) /\ Cardinality(At(R, e.first - 1)) \in Nat
      BY <1>1, <1>5, <2>6, PartsOfPast
  <2>8. Cardinality(R) <= Cardinality(Within(Mine(a), e.first)) + Cardinality(At(R, e.first - 1))
      BY <2>5, <2>7, Covered
  <2>9. Cardinality(Pending(u, e.first - 1)) \in Nat
      BY <1>1, <1>5, LocksFinite
  <2> HIDE DEF e
  <2> QED
      BY <1>2, <1>4, <1>5, <1>6, <2>4, <2>7, <2>8, <2>9
<1> HIDE DEF S
<1>12. Cardinality(S) > 1
    BY <1>7, <1>10, <1>11
<1> QED
    BY <1>12 DEF S

\* From one address no more wrong passwords are compared in any window than two full counts
\* and two for every other login under way, and one address alone cannot lock an account,
\* unless a login that began a minute earlier has dated a lock back: for any budgets, window and
\* duration, any number of logins interleaved, and entries evicted at any time.
THEOREM LockoutIsKept == LockoutSpec => []LockoutHolds
<1>1. LockoutInit => LockoutInv
    BY LockoutInitially
<1>2. LockoutInv /\ [LockoutNext]_lockoutVars => LockoutInv'
    BY LockoutStep
<1>3. LockoutInv => LockoutHolds
    BY BudgetFollows, ClientCannotLock DEF LockoutHolds
<1> QED
    BY <1>1, <1>2, <1>3, PTL DEF LockoutSpec

=============================================================================
