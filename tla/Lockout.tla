------------------------------- MODULE Lockout ------------------------------
(*****************************************************************************)
(* The password login and what it counts: failures against the account and   *)
(* against the address they came from, each with its budget, in one process. *)
(* The checks, the comparison and the two counts are separate steps of a     *)
(* login; other logins run between them.                                     *)
(*****************************************************************************)
EXTENDS Integers, Sequences, FiniteSets

CONSTANTS
    Login,                                 \* logins that may run at once
    Address, Account,
    MaxLoginFailures, MaxAccountFailures,
    LockoutWindow, LockoutDuration,
    EvictAbove,                            \* entries kept before old ones are evicted
    LastMinute, MaxGuesses                 \* bounds on the clock and on the comparisons

ASSUME LockoutAssumption ==
    /\ IsFiniteSet(Login)
    /\ {MaxLoginFailures, MaxAccountFailures, LockoutDuration} \subseteq Nat \ {0, 1}
    /\ {EvictAbove, LastMinute, MaxGuesses} \subseteq Nat
    /\ LockoutWindow \in Nat \ {0} /\ LockoutWindow <= LockoutDuration

VARIABLES
    minute,     \* the clock
    by,         \* loginFailures.by: [count, first, blocked] of each key
    login,      \* login[l]: how far a login is, its account, address and time, and which guess is its
    guess,      \* history: the wrong passwords compared, [account, addr, at]
    shortened   \* history: keys whose lock a login that began earlier has set, cut short or erased

lockoutVars == <<minute, by, login, guess, shortened>>

accountKey(a) == <<"user", a>>
addressKey(a) == <<"addr", a>>
Never == -1

LockoutInit ==
    /\ minute = 0 /\ by = <<>> /\ guess = <<>> /\ shortened = {}
    /\ login = [l \in Login |-> [stage |-> "idle"]]

Without(key) == [k \in DOMAIN by \ {key} |-> by[k]]
lockedNow(key, now) == key \in DOMAIN by /\ by[key].blocked # Never /\ now < by[key].blocked
\* Looking at a lock that is over forgets it.
locked(key, now) ==
    by' = IF key \in DOMAIN by /\ by[key].blocked # Never /\ now >= by[key].blocked THEN Without(key) ELSE by

BlockedFrom(count, max, now, was) == IF count >= max THEN now + LockoutDuration ELSE was
evict(m, now) ==
    IF Cardinality(DOMAIN m) <= EvictAbove THEN m
    ELSE [k \in {j \in DOMAIN m : ~(/\ now - m[j].first > LockoutWindow
                                    /\ m[j].blocked = Never \/ now > m[j].blocked)} |-> m[k]]

Afresh(key, now) ==
    [k \in {key} \cup DOMAIN by |-> IF k = key THEN [count |-> 1, first |-> now, blocked |-> Never] ELSE by[k]]

\* Mutant for LockoutHolds: every failure starts the window again.
failSliding(key, now, max) ==
    by' = IF key \notin DOMAIN by \/ now - by[key].first > 0
          THEN Afresh(key, now)
          ELSE [by EXCEPT ![key].count = @ + 1, ![key].blocked = BlockedFrom(by[key].count + 1, max, now, @)]
fail(key, now, max) ==
    by' = IF key \notin DOMAIN by \/ now - by[key].first > LockoutWindow
          THEN Afresh(key, now)
          ELSE evict([by EXCEPT ![key].count = @ + 1,
                                ![key].blocked = BlockedFrom(by[key].count + 1, max, now, @)], now)
reset(key) == by' = Without(key)

Goto(l, stage) == login' = [login EXCEPT ![l].stage = stage]
End(l) == login' = [login EXCEPT ![l] = [stage |-> "idle"]]

(***************************************************************************)
(* LoginUserpassFrom.                                                      *)
(***************************************************************************)
LoginUserpass(l) ==
    /\ login[l].stage = "idle"
    /\ \E a \in Account, from \in Address :
         login' = [login EXCEPT ![l] = [stage |-> "address", account |-> a, addr |-> from, now |-> minute,
                                        nth |-> 0]]
    /\ UNCHANGED <<minute, by, guess, shortened>>

CheckAddress(l) ==
    /\ login[l].stage = "address"
    /\ LET key == addressKey(login[l].addr)
       IN /\ IF lockedNow(key, login[l].now) THEN End(l) ELSE Goto(l, "account")
          /\ locked(key, login[l].now)
    /\ UNCHANGED <<minute, guess, shortened>>
CheckAccount(l) ==
    /\ login[l].stage = "account"
    /\ LET key == accountKey(login[l].account)
       IN /\ IF lockedNow(key, login[l].now) THEN End(l) ELSE Goto(l, "compare")
          /\ locked(key, login[l].now)
    /\ UNCHANGED <<minute, guess, shortened>>

\* The password is wrong, or the user has none or may not log in: the answers are alike.
Mismatch(l) ==
    /\ login[l].stage = "compare" /\ Len(guess) < MaxGuesses
    /\ guess' = Append(guess, [account |-> login[l].account, addr |-> login[l].addr, at |-> login[l].now])
    /\ login' = [login EXCEPT ![l].stage = "fail", ![l].nth = Len(guess) + 1]
    /\ UNCHANGED <<minute, by, shortened>>
\* A login that began earlier dates its failure, and the lock, from then.
Predates(key, now, max) ==
    \/ by[key].blocked > now /\ now - by[key].first > LockoutWindow
    \/ now < minute /\ (by[key].blocked > now \/ by[key].count + 1 >= max)
Shortens(key, now, max) ==
    IF key \in DOMAIN by /\ Predates(key, now, max) THEN shortened \cup {key} ELSE shortened
FailAccount(l) ==
    /\ login[l].stage = "fail"
    /\ fail(accountKey(login[l].account), login[l].now, MaxAccountFailures)
    /\ shortened' = Shortens(accountKey(login[l].account), login[l].now, MaxAccountFailures)
    /\ Goto(l, "fail address")
    /\ UNCHANGED <<minute, guess>>
FailAddress(l) ==
    /\ login[l].stage = "fail address"
    /\ fail(addressKey(login[l].addr), login[l].now, MaxLoginFailures)
    /\ shortened' = Shortens(addressKey(login[l].addr), login[l].now, MaxLoginFailures)
    /\ End(l)
    /\ UNCHANGED <<minute, guess>>

\* The password is right: the account's failures are forgotten, the address's are not.
Match(l) ==
    /\ login[l].stage = "compare"
    /\ reset(accountKey(login[l].account))
    /\ End(l)
    /\ UNCHANGED <<minute, guess, shortened>>

Attempt(l) == LoginUserpass(l) \/ CheckAddress(l) \/ CheckAccount(l) \/ Mismatch(l)
              \/ FailAccount(l) \/ FailAddress(l) \/ Match(l)
\* A login is short against the minute: it sees one turn of it at most.
Minute ==
    /\ minute < LastMinute /\ minute' = minute + 1
    /\ \A l \in Login : login[l].stage # "idle" => login[l].now = minute
    /\ UNCHANGED <<by, login, guess, shortened>>

LockoutNext == Minute \/ \E l \in Login : Attempt(l)
LockoutSpec == LockoutInit /\ [][LockoutNext]_lockoutVars

(***************************************************************************)
(* Properties.                                                             *)
(***************************************************************************)
\* How many wrong passwords the code lets be compared in a window, ends included: two full
\* counts, and with each one for every other login that had passed the checks.
Allowance(max) == 2 * (max + Cardinality(Login) - 1)
InWindow(i) == {j \in DOMAIN guess : guess[j].at <= guess[i].at /\ guess[i].at - guess[j].at <= LockoutWindow}

\* An address gets no more wrong passwords compared in any window than its allowance, a
\* right password in between or not: unless a login that began earlier set the lock or cut it short.
BudgetHolds ==
    \A i \in DOMAIN guess :
      \/ addressKey(guess[i].addr) \in shortened
      \/ Cardinality({j \in InWindow(i) : guess[j].addr = guess[i].addr}) <= Allowance(MaxLoginFailures)

\* A single address cannot lock somebody's account, as long as the account's budget exceeds
\* an address's allowance and the logins that may count late: its own lock comes first.
OneClientCannotLock ==
    (MaxAccountFailures >= Allowance(MaxLoginFailures) + Cardinality(Login) /\ shortened = {}) =>
      \A a \in Account : accountKey(a) \in DOMAIN by /\ by[accountKey(a)].blocked # Never =>
        Cardinality({guess[j].addr : j \in {k \in DOMAIN guess : guess[k].account = a}}) > 1

\* A password cannot be guessed faster than the lockout allows, nor an account be locked by
\* one client for everybody.
LockoutHolds == BudgetHolds /\ OneClientCannotLock
===============================================================================
