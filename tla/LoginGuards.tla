---------------------------- MODULE LoginGuards ----------------------------
(***************************************************************************)
(* What the hub remembers between requests to guard its logins: the rate   *)
(* limiter, the second-factor codes already used and the access tokens     *)
(* revoked by a logout.  Sources: hub/internal/server/middleware.go,       *)
(* hub/internal/auth/totp.go, totp_cache.go, blacklist.go and handleLogout *)
(* of handlers_auth.go.                                                    *)
(*                                                                         *)
(* The first two tables live in memory only; the third is also a table of  *)
(* the database, read back at the next start.  Time moves in steps; the    *)
(* calls that a mutex or one statement makes atomic are one step each.     *)
(***************************************************************************)
EXTENDS Naturals, FiniteSets, FiniteSetsExt

CONSTANTS
    Ips,          \* client addresses
    Tokens,       \* access tokens by their jti
    NoTime,       \* no entry
    Limit,        \* requests allowed in a window
    Window,       \* length of the limiter's window
    MaxTracked,   \* maxTrackedIPs
    Period,       \* length of a second-factor period (30 s)
    Lifetime,     \* life of an access token
    MaxTime,      \* bound: the clock stops here
    MaxCalls      \* bound: calls that start

ASSUME GuardsAssumption ==
    /\ Limit \in Nat \ {0} /\ Window \in Nat \ {0} /\ MaxTracked \in Nat \ {0}
    /\ Period \in Nat \ {0} /\ Lifetime \in Nat /\ MaxTime \in Nat /\ MaxCalls \in Nat
    /\ NoTime \notin Nat /\ IsFiniteSet(Ips)

VARIABLES
    now,       \* the clock
    calls,     \* how many calls started
    attempts,  \* rateLimiter.attempts
    passed,    \* history: the requests let through since the entry was made
    used,      \* TOTPUsedCodes.codes: code -> time of its use
    accepted,  \* history: how often a code was accepted by this process
    issued,    \* token -> time of expiry, or NoTime before it is issued
    entries,   \* TokenBlacklist.entries
    saved,     \* the table token_blacklist
    logout,    \* tokens whose logout is between memory and table
    gone       \* history: tokens whose logout was answered, and saved

vars == <<now, calls, attempts, passed, used, accepted, issued, entries, saved, logout, gone>>

limiter == <<attempts, passed>>
codes == <<used, accepted>>
tokens == <<issued, entries, saved, logout, gone>>

Time == 0..(MaxTime + Lifetime)

\* Codes of one user, by the period they belong to.
Codes == 0..(MaxTime \div Period + 1)

\* A request that was let through: its time, and the call it was, so that two
\* of one moment are two.
Attempts == [at : Time, call : 0..MaxCalls]

TypeOK ==
    /\ now \in 0..MaxTime /\ calls \in 0..MaxCalls
    /\ attempts \in [Ips -> SUBSET Attempts] /\ passed \in [Ips -> SUBSET Attempts]
    /\ used \in [Codes -> Time \cup {NoTime}]
    /\ accepted \in [Codes -> 0..MaxCalls]
    /\ issued \in [Tokens -> Time \cup {NoTime}]
    /\ entries \in [Tokens -> Time \cup {NoTime}]
    /\ saved \in [Tokens -> Time \cup {NoTime}]
    /\ logout \subseteq Tokens /\ gone \subseteq Tokens

Init ==
    /\ now = 0 /\ calls = 0
    /\ attempts = [ip \in Ips |-> {}] /\ passed = [ip \in Ips |-> {}]
    /\ used = [c \in Codes |-> NoTime] /\ accepted = [c \in Codes |-> 0]
    /\ issued = [t \in Tokens |-> NoTime]
    /\ entries = [t \in Tokens |-> NoTime] /\ saved = [t \in Tokens |-> NoTime]
    /\ logout = {} /\ gone = {}

Call == calls < MaxCalls /\ calls' = calls + 1 /\ UNCHANGED now

Tick ==
    /\ now < MaxTime
    /\ now' = now + 1
    /\ UNCHANGED <<calls, limiter, codes, tokens>>

-----------------------------------------------------------------------------
(* rateLimiter                                                             *)

\* t.After(cutoff)
Recent(s) == {a \in s : a.at + Window > now}

Tracked(table) == {ip \in Ips : table[ip] # {}}
LastAttempt(s) == Max({a.at : a \in s})

\* evictOldest: an entry whose last attempt is the oldest, never the caller's.
Evicted(table, skip) ==
    LET others == Tracked(table) \ {skip}
    IN {ip \in others : \A k \in others : LastAttempt(table[ip]) <= LastAttempt(table[k])}

This == [at |-> now, call |-> calls]

Allow_OffByOne(ip) ==
    LET valid == Recent(attempts[ip])
        table == [attempts EXCEPT ![ip] = valid]
    IN /\ Call
       /\ IF Cardinality(valid) > Limit
          THEN attempts' = table /\ UNCHANGED passed
          ELSE /\ attempts' = [table EXCEPT ![ip] = valid \cup {This}]
               /\ passed' = [passed EXCEPT ![ip] = @ \cup {This}]
       /\ UNCHANGED <<codes, tokens>>

Allow_Unbounded(ip) ==
    LET valid == Recent(attempts[ip])
    IN /\ Call /\ Cardinality(valid) < Limit
       /\ attempts' = [attempts EXCEPT ![ip] = valid \cup {This}]
       /\ passed' = [passed EXCEPT ![ip] = @ \cup {This}]
       /\ UNCHANGED <<codes, tokens>>

\* allow: the whole call runs under the mutex.
Allow(ip) ==
    LET valid == Recent(attempts[ip])
        table == [attempts EXCEPT ![ip] = valid]
    IN /\ Call
       /\ \/ /\ Cardinality(valid) >= Limit
             /\ attempts' = table /\ UNCHANGED passed
          \/ /\ Cardinality(valid) < Limit
             /\ IF Cardinality(Tracked(table)) >= MaxTracked /\ Evicted(table, ip) # {}
                THEN \E old \in Evicted(table, ip) :
                       /\ attempts' = [table EXCEPT ![ip] = valid \cup {This}, ![old] = {}]
                       /\ passed' = [passed EXCEPT ![ip] = @ \cup {This}, ![old] = {}]
                ELSE /\ attempts' = [table EXCEPT ![ip] = valid \cup {This}]
                     /\ passed' = [passed EXCEPT ![ip] = @ \cup {This}]
       /\ UNCHANGED <<codes, tokens>>

-----------------------------------------------------------------------------
(* Second-factor codes                                                     *)

\* totp.Validate with the library's skew of one period either way.
ValidCode(c) == LET p == now \div Period IN c \in {p, p + 1} \/ c + 1 = p

\* time.Since(t) > 90*time.Second
Stale(t) == t # NoTime /\ now > t + 3 * Period

CheckAndMark_ShortMemory(c) ==
    /\ used[c] = NoTime
    /\ used' = [d \in Codes |-> IF d = c THEN now
                                ELSE IF used[d] # NoTime /\ now > used[d] + Period THEN NoTime
                                ELSE used[d]]

CheckAndMark(c) ==
    /\ used[c] = NoTime
    /\ used' = [d \in Codes |-> IF d = c THEN now ELSE IF Stale(used[d]) THEN NoTime ELSE used[d]]

\* ValidateTOTPWithReplay; a code that is refused changes nothing.
UseCode(c) ==
    /\ Call /\ ValidCode(c)
    /\ CheckAndMark(c)
    /\ accepted' = [accepted EXCEPT ![c] = @ + 1]
    /\ UNCHANGED <<limiter, tokens>>

-----------------------------------------------------------------------------
(* Revoked access tokens                                                   *)

Issue(t) ==
    /\ issued[t] = NoTime /\ Call
    /\ issued' = [issued EXCEPT ![t] = now + Lifetime]
    /\ UNCHANGED <<limiter, codes, entries, saved, logout, gone>>

\* ValidateToken: expiry is exclusive.
Valid(t) == issued[t] # NoTime /\ now < issued[t]

\* now.After(exp): the entry goes from memory.
Pruned(table) == [t \in Tokens |-> IF table[t] # NoTime /\ now > table[t] THEN NoTime ELSE table[t]]

\* expires_at > datetime('now')
LiveRows == [t \in Tokens |-> IF saved[t] # NoTime /\ saved[t] > now THEN saved[t] ELSE NoTime]

\* Add, first in memory ...
Logout(t) ==
    /\ Call /\ Valid(t)
    /\ entries' = Pruned([entries EXCEPT ![t] = issued[t]])
    /\ logout' = logout \cup {t}
    /\ UNCHANGED <<limiter, codes, issued, saved, gone>>

AddRow_MemoryOnly(t) ==
    /\ t \in logout
    /\ logout' = logout \ {t} /\ gone' = gone \cup {t}
    /\ UNCHANGED <<now, calls, limiter, codes, issued, entries, saved>>

\* ... then in the table; a failure is logged and the logout answered all the same.
AddRow(t) ==
    /\ t \in logout
    /\ logout' = logout \ {t}
    /\ \/ /\ saved' = [saved EXCEPT ![t] = issued[t]]
          /\ gone' = gone \cup {t}
       \/ UNCHANGED <<saved, gone>>
    /\ UNCHANGED <<now, calls, limiter, codes, issued, entries>>

\* IsBlacklisted: memory, then the table.
IsBlacklisted(t) == entries[t] # NoTime \/ LiveRows[t] # NoTime

\* A request with the token: the answer found in the table is kept in memory.
Authenticate(t) ==
    /\ Call /\ Valid(t)
    /\ entries' = IF entries[t] = NoTime /\ LiveRows[t] # NoTime
                  THEN [entries EXCEPT ![t] = saved[t]] ELSE entries
    /\ UNCHANGED <<limiter, codes, issued, saved, logout, gone>>

\* cleanup, every five minutes: memory, then the table.
Cleanup ==
    /\ Call
    /\ entries' = Pruned(entries)
    /\ saved' = LiveRows
    /\ UNCHANGED <<limiter, codes, issued, logout, gone>>

\* The hub stops and starts: memory is lost, requests in hand too; loadFromDB
\* reads the table, or logs that it could not.
Restart ==
    /\ Call
    /\ attempts' = [ip \in Ips |-> {}] /\ passed' = [ip \in Ips |-> {}]
    /\ used' = [c \in Codes |-> NoTime] /\ accepted' = [c \in Codes |-> 0]
    /\ entries' \in {LiveRows, [t \in Tokens |-> NoTime]}
    /\ logout' = {}
    /\ UNCHANGED <<issued, saved, gone>>

Next ==
    \/ Tick
    \/ \E ip \in Ips : Allow(ip)
    \/ \E c \in Codes : UseCode(c)
    \/ \E t \in Tokens : Issue(t) \/ Logout(t) \/ AddRow(t) \/ Authenticate(t)
    \/ Cleanup
    \/ Restart

Spec == Init /\ [][Next]_vars

-----------------------------------------------------------------------------
(* Properties                                                              *)

\* No address gets more than the limit through in any window, unless its entry
\* was evicted or the hub restarted; and the table of addresses never grows
\* past its bound (middleware.go:254-289).
LimitHolds ==
    /\ \A ip \in Ips : Cardinality(Recent(passed[ip])) <= Limit
    /\ Cardinality(Tracked(attempts)) <= MaxTracked

\* A second-factor code is accepted once in the life of a hub process, however
\* late in its three periods it is shown again (totp_cache.go:40-56).
CodeAcceptedOnce == \A c \in Codes : accepted[c] <= 1

\* A token whose logout was answered and saved is refused until it expires,
\* through cleanups, restarts and a start that could not read the table
\* (blacklist.go:96-152).
LoggedOutStaysRefused == \A t \in gone : Valid(t) => IsBlacklisted(t)
=============================================================================
