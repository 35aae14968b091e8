------------------------------ MODULE TokenCache ------------------------------
(*****************************************************************************)
(* The two caches behind Authenticate, one of token files and one of         *)
(* users.yaml, and what invalidates them: the time stamps the file system    *)
(* gives the directory and the file, which are no finer than Grain, and the  *)
(* store's own writes.  One token of one user is enough: it is there or not, *)
(* and the user is enabled or not.  The files are changed by this process,   *)
(* under the store's lock, and by others at any moment.                      *)
(*****************************************************************************)
EXTENDS Integers, FiniteSets

CONSTANTS
    Caller,        \* concurrent calls of Authenticate
    Grain,         \* how many ticks share a time stamp
    Margin,        \* a scan this soon after the directory's stamp is not trusted
    SlowScan,          \* bound: ticks that may pass during one scan
    MaxTick,       \* bound on the clock
    MaxChanges     \* bound on the changes to the files

\* The margin is good for a scan that ends within it: one second in the code.
ASSUME TokenCacheAssumption ==
    /\ Grain \in Nat \ {0} /\ SlowScan \in Nat /\ MaxTick \in Nat /\ MaxChanges \in Nat
    /\ Margin \in Nat /\ Grain + SlowScan <= Margin

VARIABLES
    tick,        \* the clock
    token,       \* the token directory: [there, mod]
    usersFile,   \* users.yaml: [enabled, mod]
    tokenCache,  \* [scanned, known, mod, uncertain]
    usersCache,  \* [loaded, enabled, mod]
    call,        \* call[c]: a call of Authenticate
    changes,     \* changes so far
    twice        \* history: users.yaml was written twice within one stamp

credentialVars == <<tick, token, usersFile, tokenCache, usersCache, call, changes, twice>>

Clock == tick - (tick % Grain)
NotChecking == [stage |-> "idle", mod |-> 0, wait |-> 0, tokens |-> {}, users |-> {},
         found |-> FALSE, enabled |-> FALSE]

CredentialInit ==
    /\ tick = 0 /\ changes = 0 /\ twice = FALSE
    /\ token = [there |-> TRUE, mod |-> -Grain]
    /\ usersFile = [enabled |-> TRUE, mod |-> -Grain]
    /\ tokenCache = [scanned |-> FALSE, known |-> FALSE, mod |-> 0, uncertain |-> FALSE]
    /\ usersCache = [loaded |-> FALSE, enabled |-> FALSE, mod |-> 0]
    /\ call = [c \in Caller |-> NotChecking]

Checking == {c \in Caller : call[c].stage \notin {"idle", "done"}}
Scanning == {c \in Caller : call[c].stage \in {"stat", "read", "settle"}}
Reading == {c \in Caller : call[c].stage \in {"ustat", "uread"}}

\* A call remembers every state the files were in since it began: any of them is a fair answer.
Witnessed(there, enabled) ==
    [c \in Caller |-> IF c \in Checking
                      THEN [call[c] EXCEPT !.tokens = IF c \in Scanning THEN @ \cup {there} ELSE @,
                                           !.users = @ \cup {enabled}]
                      ELSE call[c]]

(***************************************************************************)
(* Changes to the files.                                                   *)
(***************************************************************************)
Changing1 == changes < MaxChanges /\ changes' = changes + 1

\* Another process makes or removes the token file; this one does so under its lock, and
\* the removal drops the cache.
TokenOutside ==
    /\ Changing1
    /\ token' = [there |-> ~token.there, mod |-> Clock]
    /\ call' = Witnessed(~token.there, usersFile.enabled)
    /\ UNCHANGED <<tick, usersFile, tokenCache, usersCache, twice>>
CreateInside ==
    /\ Checking = {} /\ ~token.there /\ Changing1
    /\ token' = [there |-> TRUE, mod |-> Clock]
    /\ UNCHANGED <<tick, usersFile, tokenCache, usersCache, call, twice>>
dropTokens == tokenCache' = [tokenCache EXCEPT !.scanned = FALSE, !.known = FALSE]
RevokeInside ==
    /\ Checking = {} /\ token.there /\ Changing1
    /\ token' = [there |-> FALSE, mod |-> Clock]
    /\ dropTokens
    /\ UNCHANGED <<tick, usersFile, usersCache, call, twice>>

WriteUsers == usersFile' = [enabled |-> ~usersFile.enabled, mod |-> Clock]
UsersOutside ==
    /\ Changing1 /\ WriteUsers
    /\ twice' = (twice \/ usersFile.mod = Clock)
    /\ call' = Witnessed(token.there, ~usersFile.enabled)
    /\ UNCHANGED <<tick, token, tokenCache, usersCache>>
dropUsers == usersCache' = [usersCache EXCEPT !.loaded = FALSE]
UsersInside ==
    /\ Checking = {} /\ Changing1 /\ WriteUsers /\ dropUsers
    /\ UNCHANGED <<tick, token, tokenCache, call, twice>>

(***************************************************************************)
(* Authenticate: the token first, one scan at a time, then the user.       *)
(***************************************************************************)
BeginCheck(c) ==
    /\ call[c].stage \in {"idle", "done"}
    /\ call' = [call EXCEPT ![c] = [NotChecking EXCEPT !.stage = "stat", !.tokens = {token.there},
                                                !.users = {usersFile.enabled}]]
    /\ UNCHANGED <<tick, token, usersFile, tokenCache, usersCache, changes, twice>>

Decide(c, found) ==
    call' = [call EXCEPT ![c].found = found, ![c].wait = 0, ![c].mod = 0,
                         ![c].stage = IF found THEN "ustat" ELSE "done"]

StatTokens(c) ==
    /\ call[c].stage = "stat" /\ \A d \in Scanning \ {c} : call[d].stage = "stat"
    /\ IF tokenCache.scanned /\ ~tokenCache.uncertain /\ token.mod = tokenCache.mod
       THEN Decide(c, tokenCache.known)
       ELSE call' = [call EXCEPT ![c].stage = "read", ![c].mod = token.mod, ![c].wait = 0]
    /\ UNCHANGED <<tick, token, usersFile, tokenCache, usersCache, changes, twice>>

ReadTokens(c) ==
    /\ call[c].stage = "read"
    /\ tokenCache' = [tokenCache EXCEPT !.known = token.there]
    /\ call' = [call EXCEPT ![c].stage = "settle"]
    /\ UNCHANGED <<tick, token, usersFile, usersCache, changes, twice>>

\* Mutant for CredentialsFresh: the scan is always trusted.
SettleTrusting(c) ==
    /\ call[c].stage = "settle"
    /\ tokenCache' = [tokenCache EXCEPT !.scanned = TRUE, !.mod = call[c].mod, !.uncertain = FALSE]
    /\ Decide(c, tokenCache.known)
    /\ UNCHANGED <<tick, token, usersFile, usersCache, changes, twice>>
Settle(c) ==
    /\ call[c].stage = "settle"
    /\ tokenCache' = [tokenCache EXCEPT !.scanned = TRUE, !.mod = call[c].mod,
                                        !.uncertain = tick - call[c].mod < Margin]
    /\ Decide(c, tokenCache.known)
    /\ UNCHANGED <<tick, token, usersFile, usersCache, changes, twice>>

\* The user: users.yaml's stamp first, its content after.  (Its size is compared too, but a
\* change of policies may keep it.)
Accept(c, enabled) == call' = [call EXCEPT ![c].enabled = enabled, ![c].stage = "done", ![c].mod = 0]
StatUsers(c) ==
    /\ call[c].stage = "ustat" /\ \A d \in Reading \ {c} : call[d].stage = "ustat"
    /\ IF usersCache.loaded /\ usersCache.mod = usersFile.mod
       THEN Accept(c, usersCache.enabled)
       ELSE call' = [call EXCEPT ![c].stage = "uread", ![c].mod = usersFile.mod]
    /\ UNCHANGED <<tick, token, usersFile, tokenCache, usersCache, changes, twice>>
ReadUsers(c) ==
    /\ call[c].stage = "uread"
    /\ usersCache' = [loaded |-> TRUE, enabled |-> usersFile.enabled, mod |-> call[c].mod]
    /\ Accept(c, usersFile.enabled)
    /\ UNCHANGED <<tick, token, usersFile, tokenCache, changes, twice>>

Tick ==
    /\ tick < MaxTick /\ tick' = tick + 1
    /\ \A c \in Caller : call[c].stage \in {"read", "settle"} => call[c].wait < SlowScan
    /\ call' = [c \in Caller |-> IF call[c].stage \in {"read", "settle"}
                                 THEN [call[c] EXCEPT !.wait = @ + 1] ELSE call[c]]
    /\ UNCHANGED <<token, usersFile, tokenCache, usersCache, changes, twice>>

CredentialNext ==
    \/ TokenOutside \/ CreateInside \/ RevokeInside \/ UsersOutside \/ UsersInside \/ Tick
    \/ \E c \in Caller : BeginCheck(c) \/ StatTokens(c) \/ ReadTokens(c) \/ Settle(c) \/ StatUsers(c) \/ ReadUsers(c)

CredentialSpec == CredentialInit /\ [][CredentialNext]_credentialVars

(***************************************************************************)
(* Properties.                                                             *)
(***************************************************************************)
\* A token is found or not as its file was there or not at some moment of the call: a
\* revocation or a new token of any process counts from the next call on, however coarse
\* the file system's stamps.
TokensFresh ==
    \A c \in Caller : call[c].stage \in {"ustat", "uread", "done"} => call[c].found \in call[c].tokens

\* The same of the user's grants, unless users.yaml was written twice within one stamp:
\* this cache has no margin.
UsersFresh ==
    ~twice => \A c \in Caller : (call[c].stage = "done" /\ call[c].found) => call[c].enabled \in call[c].users

\* What the caches answer a request with is what the files said during it.
CredentialsFresh == TokensFresh /\ UsersFresh
===============================================================================
