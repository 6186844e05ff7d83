-------------------------- MODULE LoginGuardsProofs --------------------------
(***************************************************************************)
(* Proofs about LoginGuards, for any number of tokens and addresses, any   *)
(* period, limit, window, table size and any life of a token: the rate     *)
(* limit holds, a second-factor code is accepted once, and a token logged  *)
(* out stays refused.                                                      *)
(*                                                                         *)
(* None is inductive.  A code may be forgotten, and then it must be too    *)
(* old to be valid; CodeRemembered ties the time of its use to its period. *)
(* A row may be deleted, and then the token must have expired; RowsAreTrue *)
(* says that a row carries the token's own expiry.  An entry of the        *)
(* limiter is pruned whenever it is read; LimiterInv says that what was    *)
(* let through in the window is in it all the same.                        *)
(***************************************************************************)
EXTENDS LoginGuards, FiniteSetTheorems, TLAPS

\* The clock, the codes and the tokens have their types.
GuardTypes ==
    /\ now \in Nat
    /\ used \in [Codes -> Nat \cup {NoTime}]
    /\ accepted \in [Codes -> Nat]
    /\ issued \in [Tokens -> Nat \cup {NoTime}]
    /\ saved \in [Tokens -> Nat \cup {NoTime}]
    /\ entries \in [Tokens -> Nat \cup {NoTime}]
    /\ logout \subseteq Tokens /\ gone \subseteq Tokens

\* The periods in which a code is valid, its own and one either way, have passed.
TooOld(c, t) == c + 1 < t \div Period

\* A code that was accepted is remembered or too old, and a remembered one was
\* used at most one period early.
CodeRemembered ==
    \A c \in Codes :
        /\ accepted[c] <= 1
        /\ accepted[c] = 1 => used[c] # NoTime \/ TooOld(c, now)
        /\ used[c] # NoTime => c <= used[c] \div Period + 1

\* A row of the table carries the expiry of its token, and a token whose logout
\* was answered has its row until then.
RowsAreTrue ==
    /\ \A t \in Tokens : saved[t] # NoTime => saved[t] = issued[t]
    /\ \A t \in logout \cup gone : issued[t] # NoTime
    /\ \A t \in gone : now < issued[t] => saved[t] = issued[t]

IInv == GuardTypes /\ CodeRemembered /\ RowsAreTrue

-----------------------------------------------------------------------------
(* Periods                                                                 *)

\* Integer division by a period: what the quotient is.
LEMMA Quotient ==
    ASSUME NEW p \in Nat \ {0}, NEW a \in Nat
    PROVE  /\ a \div p \in Nat
           /\ p * (a \div p) <= a
           /\ a < p * (a \div p) + p
  BY SMT

\* A later moment is in no earlier period.
LEMMA QuotientGrows ==
    ASSUME NEW p \in Nat \ {0}, NEW a \in Nat, NEW b \in Nat, a <= b
    PROVE  a \div p <= b \div p
<1> DEFINE x == a \div p
           y == b \div p
<1>1. x \in Nat /\ y \in Nat /\ p * x <= a /\ b < p * y + p
  BY Quotient
<1> HIDE DEF x, y
<1>2. SUFFICES ASSUME x >= y + 1 PROVE FALSE
  BY <1>1 DEF x, y
<1>3. p * x >= p * (y + 1)
  BY <1>1, <1>2, SMT
<1>4. p * (y + 1) = p * y + p
  BY <1>1, SMT
<1>5. p * x \in Nat /\ p * y \in Nat
  BY <1>1, SMT
<1> QED
  BY <1>1, <1>3, <1>4, <1>5

\* Three periods later the period is three later.
LEMMA ThreePeriods ==
    ASSUME NEW p \in Nat \ {0}, NEW a \in Nat, NEW b \in Nat, b > a + 3 * p
    PROVE  b \div p >= a \div p + 3
<1> DEFINE x == a \div p
           y == b \div p
<1>1. x \in Nat /\ y \in Nat /\ p * x <= a /\ b < p * y + p
  BY Quotient
<1> HIDE DEF x, y
<1>2. SUFFICES ASSUME y <= x + 2 PROVE FALSE
  BY <1>1 DEF x, y
<1>3. p * y <= p * (x + 2)
  BY <1>1, <1>2, SMT
<1>4. p * (x + 2) = p * x + 2 * p
  BY <1>1, SMT
<1>5. p * x \in Nat /\ p * y \in Nat
  BY <1>1, SMT
<1> QED
  BY <1>1, <1>3, <1>4, <1>5

\* Codes are named by the number of their period.
LEMMA CodesAreNat == ASSUME GuardsAssumption PROVE Codes \subseteq Nat
<1>1. MaxTime \div Period \in Nat
  BY Quotient DEF GuardsAssumption
<1> QED
  BY <1>1 DEF Codes

\* What the cache forgets is too old to be valid again.
LEMMA StaleIsTooOld ==
    ASSUME GuardsAssumption, GuardTypes, CodeRemembered,
           NEW c \in Codes, Stale(used[c])
    PROVE  TooOld(c, now)
<1>1. used[c] \in Nat /\ now > used[c] + 3 * Period /\ Period \in Nat \ {0} /\ now \in Nat
  BY DEF GuardsAssumption, GuardTypes, Stale
<1>2. now \div Period >= used[c] \div Period + 3
  BY <1>1, ThreePeriods
<1>3. c <= used[c] \div Period + 1
  BY <1>1 DEF CodeRemembered, GuardsAssumption, Stale
<1>4. c \in Nat /\ used[c] \div Period \in Nat /\ now \div Period \in Nat
  BY <1>1, Quotient, CodesAreNat
<1> QED
  BY <1>2, <1>3, <1>4 DEF TooOld

-----------------------------------------------------------------------------
(* The steps                                                               *)

LEMMA InitHolds == ASSUME GuardsAssumption, Init PROVE IInv
<1>1. \A c \in Codes : used[c] = NoTime /\ accepted[c] = 0
  BY DEF Init
<1>2. GuardTypes
  BY DEF Init, GuardTypes
<1>3. CodeRemembered
  BY <1>1 DEF CodeRemembered
<1>4. RowsAreTrue
  BY DEF Init, RowsAreTrue
<1> QED
  BY <1>2, <1>3, <1>4 DEF IInv

\* A second-factor code is used.
LEMMA UseCodeHolds ==
    ASSUME GuardsAssumption, IInv, NEW c \in Codes, UseCode(c)
    PROVE  IInv'
<1> USE DEF IInv
<1>1. now' = now /\ now \in Nat /\ UNCHANGED tokens /\ Period \in Nat \ {0}
  BY DEF UseCode, Call, GuardTypes, GuardsAssumption
<1>2. used' = [d \in Codes |-> IF d = c THEN now ELSE IF Stale(used[d]) THEN NoTime ELSE used[d]]
  BY DEF UseCode, CheckAndMark
<1>3. used[c] = NoTime /\ accepted' = [accepted EXCEPT ![c] = @ + 1]
  BY DEF UseCode, CheckAndMark
<1>4. GuardTypes'
  BY <1>1, <1>2, <1>3 DEF GuardTypes, tokens
<1>5. RowsAreTrue'
  BY <1>1 DEF RowsAreTrue, tokens
<1>6. now \div Period \in Nat /\ \A d \in Codes : d \in Nat /\ accepted[d] \in Nat
  BY <1>1, Quotient, CodesAreNat DEF GuardTypes
<1>7. c <= now \div Period + 1 /\ ~TooOld(c, now)
  BY <1>6 DEF UseCode, ValidCode, TooOld
<1>8. accepted[c] = 0
  BY <1>3, <1>6, <1>7 DEF CodeRemembered
<1>9. now # NoTime
  BY <1>1 DEF GuardsAssumption
<1>10. ASSUME NEW d \in Codes
       PROVE  /\ accepted'[d] <= 1
              /\ accepted'[d] = 1 => used'[d] # NoTime \/ TooOld(d, now)
              /\ used'[d] # NoTime => d <= used'[d] \div Period + 1
  <2>1. CASE d = c
    <3>1. used'[d] = now /\ accepted'[d] = 1
      BY <1>2, <1>3, <1>8, <2>1 DEF GuardTypes
    <3> QED
      BY <3>1, <1>7, <1>9, <2>1
  <2>2. CASE d # c
    <3>1. accepted'[d] = accepted[d]
      BY <1>3, <2>2 DEF GuardTypes
    <3>2. CASE Stale(used[d])
      <4>1. used'[d] = NoTime
        BY <1>2, <2>2, <3>2
      <4>2. TooOld(d, now)
        BY <3>2, StaleIsTooOld
      <4> QED
        BY <3>1, <4>1, <4>2 DEF CodeRemembered
    <3>3. CASE ~Stale(used[d])
      <4>1. used'[d] = used[d]
        BY <1>2, <2>2, <3>3
      <4> QED
        BY <3>1, <4>1 DEF CodeRemembered
    <3> QED
      BY <3>2, <3>3
  <2> QED
    BY <2>1, <2>2
<1>11. CodeRemembered'
  BY <1>1, <1>10 DEF CodeRemembered, TooOld
<1> QED
  BY <1>4, <1>5, <1>11

\* Time passes: what was too old stays so, and a token may expire.
LEMMA TickHolds == ASSUME GuardsAssumption, IInv, Tick PROVE IInv'
<1> USE DEF IInv
<1>1. /\ now \in Nat /\ now' = now + 1 /\ UNCHANGED <<codes, tokens>>
      /\ Period \in Nat \ {0}
  BY DEF Tick, GuardTypes, GuardsAssumption
<1>2. GuardTypes'
  BY <1>1 DEF GuardTypes, codes, tokens
<1>3. ASSUME NEW c \in Codes, TooOld(c, now) PROVE TooOld(c, now')
  <2>1. now \div Period <= now' \div Period
    BY <1>1, QuotientGrows
  <2>2. now \div Period \in Nat /\ now' \div Period \in Nat /\ c \in Nat
    BY <1>1, Quotient, CodesAreNat
  <2> QED
    BY <1>3, <2>1, <2>2 DEF TooOld
<1>4. CodeRemembered'
  BY <1>1, <1>3 DEF CodeRemembered, codes, TooOld
<1>5. RowsAreTrue'
  <2>1. \A t \in gone : issued[t] \in Nat
    BY <1>2, <1>1 DEF GuardTypes, RowsAreTrue, tokens
  <2> QED
    BY <1>1, <2>1 DEF RowsAreTrue, tokens
<1> QED
  BY <1>2, <1>4, <1>5

\* The steps that leave the clock and the codes alone keep what is said of them.
LEMMA CodesStay ==
    ASSUME CodeRemembered, UNCHANGED <<now, codes>>
    PROVE  CodeRemembered'
  BY DEF CodeRemembered, codes, TooOld

\* Tokens are issued, logged out, saved and presented.
LEMMA TokenHolds ==
    ASSUME GuardsAssumption, IInv, NEW t \in Tokens,
           Issue(t) \/ Logout(t) \/ AddRow(t) \/ Authenticate(t)
    PROVE  IInv'
<1> USE DEF IInv
<1>1. now' = now /\ now \in Nat /\ UNCHANGED <<now, codes>> /\ NoTime \notin Nat /\ Lifetime \in Nat
  BY DEF Issue, Logout, AddRow, Authenticate, Call, GuardTypes, GuardsAssumption
<1>2. CodeRemembered'
  BY <1>1, CodesStay
<1>3. CASE Issue(t)
  <2>1. /\ issued[t] = NoTime /\ issued' = [issued EXCEPT ![t] = now + Lifetime]
        /\ UNCHANGED <<entries, saved, logout, gone>>
    BY <1>3 DEF Issue
  <2>2. GuardTypes'
    BY <1>1, <2>1 DEF GuardTypes, codes
  <2>3. t \notin logout \cup gone /\ saved[t] = NoTime
    BY <2>1 DEF RowsAreTrue
  <2>4. \A u \in Tokens : u # t => issued'[u] = issued[u]
    BY <2>1 DEF GuardTypes
  <2>5. RowsAreTrue'
    BY <1>1, <2>1, <2>3, <2>4 DEF RowsAreTrue, GuardTypes
  <2> QED
    BY <1>2, <2>2, <2>5
<1>4. CASE Logout(t)
  <2>1. /\ issued[t] # NoTime /\ logout' = logout \cup {t}
        /\ UNCHANGED <<issued, saved, gone>>
        /\ entries' = Pruned([entries EXCEPT ![t] = issued[t]])
    BY <1>4 DEF Logout, Valid
  <2>2. GuardTypes'
    BY <1>1, <2>1 DEF GuardTypes, codes, Pruned
  <2>3. RowsAreTrue'
    BY <1>1, <2>1 DEF RowsAreTrue
  <2> QED
    BY <1>2, <2>2, <2>3
<1>5. CASE AddRow(t)
  <2>1. /\ t \in logout /\ logout' = logout \ {t} /\ UNCHANGED <<issued, entries>>
        /\ \/ saved' = [saved EXCEPT ![t] = issued[t]] /\ gone' = gone \cup {t}
           \/ UNCHANGED <<saved, gone>>
    BY <1>5 DEF AddRow
  <2>2. GuardTypes'
    BY <1>1, <2>1 DEF GuardTypes, codes
  <2>3. RowsAreTrue'
    BY <1>1, <2>1 DEF RowsAreTrue, GuardTypes
  <2> QED
    BY <1>2, <2>2, <2>3
<1>6. CASE Authenticate(t)
  <2>1. /\ UNCHANGED <<issued, saved, logout, gone>>
        /\ entries' = IF entries[t] = NoTime /\ LiveRows[t] # NoTime
                      THEN [entries EXCEPT ![t] = saved[t]] ELSE entries
    BY <1>6 DEF Authenticate
  <2>2. GuardTypes'
    BY <1>1, <2>1 DEF GuardTypes, codes
  <2>3. RowsAreTrue'
    BY <1>1, <2>1 DEF RowsAreTrue
  <2> QED
    BY <1>2, <2>2, <2>3
<1> QED
  BY <1>3, <1>4, <1>5, <1>6

\* The cleanup deletes the rows of expired tokens only.
LEMMA CleanupHolds == ASSUME GuardsAssumption, IInv, Cleanup PROVE IInv'
<1> USE DEF IInv
<1>1. /\ UNCHANGED <<now, codes>> /\ now \in Nat /\ NoTime \notin Nat
      /\ UNCHANGED <<issued, logout, gone>> /\ entries' = Pruned(entries)
  BY DEF Cleanup, Call, GuardTypes, GuardsAssumption
<1>2. saved' = [t \in Tokens |-> IF saved[t] # NoTime /\ saved[t] > now THEN saved[t] ELSE NoTime]
  BY DEF Cleanup, LiveRows
<1>3. GuardTypes'
  BY <1>1, <1>2 DEF GuardTypes, codes, Pruned
<1>4. CodeRemembered'
  BY <1>1, CodesStay
<1>5. RowsAreTrue'
  BY <1>1, <1>2 DEF RowsAreTrue, GuardTypes
<1> QED
  BY <1>3, <1>4, <1>5

\* A restart forgets the codes and the requests in hand, and keeps the table.
LEMMA RestartHolds == ASSUME GuardsAssumption, IInv, Restart PROVE IInv'
<1> USE DEF IInv
<1>1. /\ now' = now /\ UNCHANGED <<issued, saved, gone>> /\ logout' = {}
      /\ used' = [c \in Codes |-> NoTime] /\ accepted' = [c \in Codes |-> 0]
      /\ entries' \in {LiveRows, [t \in Tokens |-> NoTime]}
  BY DEF Restart, Call
<1>2. GuardTypes'
  BY <1>1 DEF GuardTypes, LiveRows
<1>3. CodeRemembered'
  <2>1. \A c \in Codes : used'[c] = NoTime /\ accepted'[c] = 0
    BY <1>1
  <2> QED
    BY <2>1 DEF CodeRemembered
<1>4. RowsAreTrue'
  BY <1>1 DEF RowsAreTrue
<1> QED
  BY <1>2, <1>3, <1>4

\* The limiter touches neither codes nor tokens.
LEMMA AllowHolds ==
    ASSUME IInv, NEW ip \in Ips, Allow(ip)
    PROVE  IInv'
<1>1. UNCHANGED <<now, codes, tokens>>
  BY DEF Allow, Call
<1>2. GuardTypes' /\ RowsAreTrue'
  BY <1>1 DEF IInv, GuardTypes, RowsAreTrue, codes, tokens
<1> QED
  BY <1>1, <1>2, CodesStay DEF IInv

LEMMA Inductive == ASSUME GuardsAssumption PROVE Spec => []IInv
<1>1. Init => IInv
  BY InitHolds
<1>2. IInv /\ [Next]_vars => IInv'
  <2> SUFFICES ASSUME IInv, [Next]_vars PROVE IInv'
    OBVIOUS
  <2>1. CASE UNCHANGED vars
    BY <2>1 DEF vars, IInv, GuardTypes, CodeRemembered, RowsAreTrue, TooOld
  <2>2. CASE Next
    BY <2>2, TickHolds, AllowHolds, UseCodeHolds, TokenHolds, CleanupHolds, RestartHolds DEF Next
  <2> QED
    BY <2>1, <2>2
<1> QED
  BY <1>1, <1>2, PTL DEF Spec

-----------------------------------------------------------------------------
(* The rate limiter                                                        *)

Entries == SUBSET [at : Nat, call : Nat]

\* The table holds no more requests of an address than the limit, and among
\* them all that were let through in the window; it tracks no more addresses
\* than its bound.
LimiterInv ==
    /\ now \in Nat /\ calls \in Nat
    /\ attempts \in [Ips -> Entries] /\ passed \in [Ips -> Entries]
    /\ \A ip \in Ips : /\ IsFiniteSet(attempts[ip]) /\ Cardinality(attempts[ip]) <= Limit
                       /\ \A a \in attempts[ip] : a.at <= now
                       /\ Recent(passed[ip]) \subseteq attempts[ip]
    /\ Cardinality(Tracked(attempts)) <= MaxTracked

\* A set of numbers that is not empty has a least element.
LEMMA LeastNat ==
    ASSUME NEW S \in SUBSET Nat, S # {}
    PROVE  \E x \in S : \A y \in S : x <= y
<1>1. IsWellFoundedOn(OpToRel(<, Nat), Nat)
  BY NatLessThanWellFounded
<1>2. PICK x \in S : \A y \in S : ~(<<y, x>> \in OpToRel(<, Nat))
  BY <1>1, WFMin, Zenon
<1>3. ASSUME NEW y \in S PROVE x <= y
  <2>1. x \in Nat /\ y \in Nat
    OBVIOUS
  <2>2. ~(y < x)
    BY <1>2, <2>1, Zenon DEF OpToRel
  <2> QED
    BY <2>1, <2>2
<1> QED
  BY <1>3

\* ... and if it is bounded a greatest one: the last attempt is an attempt.
LEMMA GreatestNat ==
    ASSUME NEW n \in Nat, NEW S \in SUBSET (0..n), S # {}
    PROVE  Max(S) \in S
<1> DEFINE T == {n - k : k \in S}
<1>1. \A k \in S : k \in 0..n
  OBVIOUS
<1>2. T \in SUBSET Nat /\ T # {}
  <2>1. \A k \in S : n - k \in Nat
    BY <1>1
  <2> QED
    BY <2>1
<1>3. PICK x \in T : \A y \in T : x <= y
  BY <1>2, LeastNat
<1>4. PICK m \in S : x = n - m
  OBVIOUS
<1>5. ASSUME NEW k \in S PROVE m >= k
  <2>1. n - k \in T
    OBVIOUS
  <2> QED
    BY <2>1, <1>1, <1>3, <1>4
<1> QED
  BY <1>4, <1>5 DEF Max

LEMMA LastIsNat ==
    ASSUME NEW s \in Entries, s # {}, now \in Nat, \A a \in s : a.at <= now
    PROVE  LastAttempt(s) \in Nat
<1> DEFINE S == {a.at : a \in s}
<1>1. \A a \in s : a.at \in 0..now
  BY DEF Entries
<1>2. S \in SUBSET (0..now) /\ S # {}
  BY <1>1
<1>3. Max(S) \in S
  BY <1>2, GreatestNat
<1> QED
  BY <1>2, <1>3 DEF LastAttempt

\* Where there is another entry, there is one to evict.
LEMMA SomeoneIsEvicted ==
    ASSUME NEW table \in [Ips -> Entries], NEW ip \in Ips, now \in Nat,
           \A k \in Ips : \A a \in table[k] : a.at <= now,
           Tracked(table) \ {ip} # {}
    PROVE  Evicted(table, ip) # {}
<1> DEFINE others == Tracked(table) \ {ip}
           Lasts == {LastAttempt(table[k]) : k \in others}
<1>1. \A k \in others : LastAttempt(table[k]) \in Nat
  BY LastIsNat DEF Tracked
<1>2. Lasts \in SUBSET Nat /\ Lasts # {}
  BY <1>1
<1>3. PICK x \in Lasts : \A y \in Lasts : x <= y
  BY <1>2, LeastNat
<1>4. PICK k \in others : x = LastAttempt(table[k])
  OBVIOUS
<1>5. \A j \in others : LastAttempt(table[k]) <= LastAttempt(table[j])
  BY <1>3, <1>4
<1> QED
  BY <1>4, <1>5 DEF Evicted

LEMMA TrackedFinite ==
    ASSUME NEW table
    PROVE  IsFiniteSet(Tracked(table)) /\ Cardinality(Tracked(table)) \in Nat
<1>1. Tracked(table) \subseteq Ips
  BY DEF Tracked
<1> QED
  BY <1>1, GuardsAssumption, FS_Subset, FS_CardinalityType

LEMMA RecentFinite ==
    ASSUME NEW s, IsFiniteSet(s)
    PROVE  /\ Recent(s) \subseteq s /\ IsFiniteSet(Recent(s))
           /\ Cardinality(Recent(s)) <= Cardinality(s) /\ Cardinality(Recent(s)) \in Nat
<1>1. Recent(s) \subseteq s
  BY DEF Recent
<1> QED
  BY <1>1, FS_Subset, FS_CardinalityType

\* One more is one more at most.
LEMMA OneMore ==
    ASSUME NEW s, IsFiniteSet(s), NEW x
    PROVE  /\ IsFiniteSet(s \cup {x})
           /\ Cardinality(s \cup {x}) <= Cardinality(s) + 1
           /\ Cardinality(s) \in Nat /\ Cardinality(s \cup {x}) \in Nat
<1>1. Cardinality(s) \in Nat
  BY FS_CardinalityType
<1>2. IsFiniteSet(s \cup {x}) /\ (x \notin s => Cardinality(s \cup {x}) = Cardinality(s) + 1)
  BY FS_AddElement
<1>3. x \in s => s \cup {x} = s
  OBVIOUS
<1> QED
  BY <1>1, <1>2, <1>3

\* What a call leaves in the table, but for who is tracked.
LEMMA AllowEntries ==
    ASSUME LimiterInv, NEW ip \in Ips, Allow(ip)
    PROVE  /\ attempts' \in [Ips -> Entries] /\ passed' \in [Ips -> Entries]
           /\ UNCHANGED now /\ calls' \in Nat
           /\ \A k \in Ips : /\ IsFiniteSet(attempts'[k]) /\ Cardinality(attempts'[k]) <= Limit
                             /\ \A a \in attempts'[k] : a.at <= now
                             /\ Recent(passed'[k]) \subseteq attempts'[k]
<1> DEFINE valid == Recent(attempts[ip])
           more == valid \cup {This}
<1>1. /\ attempts \in [Ips -> Entries] /\ passed \in [Ips -> Entries] /\ now \in Nat /\ calls \in Nat
      /\ Limit \in Nat
  BY GuardsAssumption DEF LimiterInv
<1>2. /\ valid \in Entries /\ IsFiniteSet(valid) /\ Cardinality(valid) <= Limit
      /\ Cardinality(valid) \in Nat /\ \A a \in valid : a.at <= now
  <2>1. IsFiniteSet(attempts[ip]) /\ Cardinality(attempts[ip]) <= Limit /\ Cardinality(attempts[ip]) \in Nat
    BY FS_CardinalityType DEF LimiterInv
  <2>2. valid \subseteq attempts[ip] /\ Cardinality(valid) <= Cardinality(attempts[ip])
        /\ IsFiniteSet(valid) /\ Cardinality(valid) \in Nat
    BY <2>1, RecentFinite
  <2> QED
    BY <2>1, <2>2, <1>1 DEF LimiterInv, Entries
<1>3. This \in [at : Nat, call : Nat] /\ This.at = now
  BY <1>1 DEF This
<1>4. more \in Entries /\ IsFiniteSet(more) /\ (Cardinality(valid) < Limit => Cardinality(more) <= Limit)
      /\ \A a \in more : a.at <= now
  <2> HIDE DEF valid
  <2>1. IsFiniteSet(more) /\ Cardinality(more) <= Cardinality(valid) + 1 /\ Cardinality(more) \in Nat
    BY <1>2, OneMore
  <2> QED
    BY <2>1, <1>1, <1>2, <1>3 DEF Entries
<1>5. Recent(passed[ip]) \subseteq valid
  BY DEF LimiterInv, Recent
<1>6. Recent(passed[ip] \cup {This}) \subseteq more
  BY <1>5 DEF Recent
<1>7. passed[ip] \cup {This} \in Entries /\ {} \in Entries /\ Recent({}) = {}
      /\ IsFiniteSet({}) /\ Cardinality({}) = 0
  BY <1>1, <1>3, FS_EmptySet DEF Entries, Recent
<1>8. UNCHANGED now /\ calls' \in Nat
  BY <1>1 DEF Allow, Call
<1>9. \A k \in Ips : \/ attempts'[k] = attempts[k] /\ passed'[k] = passed[k]
                     \/ k = ip /\ attempts'[k] = valid /\ passed'[k] = passed[k]
                     \/ /\ k = ip /\ Cardinality(valid) < Limit
                        /\ attempts'[k] = more /\ passed'[k] = passed[k] \cup {This}
                     \/ attempts'[k] = {} /\ passed'[k] = {}
  <2> HIDE DEF valid
  <2> QED
    BY <1>1 DEF Allow, valid
<1>10. attempts' \in [Ips -> Entries] /\ passed' \in [Ips -> Entries]
  <2>1. DOMAIN attempts' = Ips /\ DOMAIN passed' = Ips
        /\ attempts' = [k \in Ips |-> attempts'[k]] /\ passed' = [k \in Ips |-> passed'[k]]
    BY <1>1 DEF Allow
  <2>2. \A k \in Ips : attempts'[k] \in Entries /\ passed'[k] \in Entries
    <3> HIDE DEF valid, more
    <3> QED
      BY <1>1, <1>2, <1>4, <1>7, <1>9
  <2> QED
    BY <2>1, <2>2
<1>11. ASSUME NEW k \in Ips
       PROVE  /\ IsFiniteSet(attempts'[k]) /\ Cardinality(attempts'[k]) <= Limit
              /\ \A a \in attempts'[k] : a.at <= now
              /\ Recent(passed'[k]) \subseteq attempts'[k]
  <2> HIDE DEF valid, more
  <2>1. CASE attempts'[k] = attempts[k] /\ passed'[k] = passed[k]
    BY <2>1 DEF LimiterInv
  <2>2. CASE k = ip /\ attempts'[k] = valid /\ passed'[k] = passed[k]
    BY <2>2, <1>2, <1>5
  <2>3. CASE /\ k = ip /\ Cardinality(valid) < Limit
             /\ attempts'[k] = more /\ passed'[k] = passed[k] \cup {This}
    BY <2>3, <1>4, <1>6
  <2>4. CASE attempts'[k] = {} /\ passed'[k] = {}
    BY <2>4, <1>7, <1>1
  <2> QED
    BY <1>9, <2>1, <2>2, <2>3, <2>4
<1> QED
  BY <1>8, <1>10, <1>11

\* An address that comes in takes the place of another when the table is full.
LEMMA AllowTracked ==
    ASSUME LimiterInv, NEW ip \in Ips, Allow(ip)
    PROVE  Cardinality(Tracked(attempts')) <= MaxTracked
<1> DEFINE valid == Recent(attempts[ip])
           table == [attempts EXCEPT ![ip] = valid]
           full == [table EXCEPT ![ip] = valid \cup {This}]
<1>1. /\ attempts \in [Ips -> Entries] /\ now \in Nat /\ MaxTracked \in Nat \ {0}
      /\ valid \subseteq attempts[ip]
      /\ Cardinality(Tracked(attempts)) <= MaxTracked
  BY GuardsAssumption DEF LimiterInv, Recent
<1>3. Tracked(table) \subseteq Tracked(attempts) /\ Cardinality(Tracked(table)) <= MaxTracked
  <2>1. Tracked(table) \subseteq Tracked(attempts)
    BY <1>1 DEF Tracked
  <2>2. Cardinality(Tracked(table)) <= Cardinality(Tracked(attempts))
    BY <2>1, TrackedFinite, FS_Subset
  <2>3. Cardinality(Tracked(table)) \in Nat /\ Cardinality(Tracked(attempts)) \in Nat
    BY TrackedFinite
  <2> HIDE DEF table
  <2> QED
    BY <2>1, <2>2, <2>3, <1>1
<1>4. CASE attempts' = table
  BY <1>4, <1>3
<1>5. ASSUME attempts' = full, Cardinality(Tracked(table)) < MaxTracked
      PROVE  Cardinality(Tracked(attempts')) <= MaxTracked
  <2>1. Tracked(attempts') \subseteq Tracked(table) \cup {ip}
    BY <1>5, <1>1 DEF Tracked
  <2> HIDE DEF table
  <2>2. /\ Cardinality(Tracked(table) \cup {ip}) <= Cardinality(Tracked(table)) + 1
        /\ Cardinality(Tracked(table)) \in Nat /\ Cardinality(Tracked(table) \cup {ip}) \in Nat
        /\ IsFiniteSet(Tracked(table) \cup {ip})
    BY TrackedFinite, OneMore
  <2>3. Cardinality(Tracked(attempts')) <= Cardinality(Tracked(table) \cup {ip})
        /\ Cardinality(Tracked(attempts')) \in Nat
    BY <2>1, <2>2, FS_Subset, TrackedFinite
  <2> QED
    BY <2>2, <2>3, <1>5, <1>1
<1>6. ASSUME attempts' = full, Evicted(table, ip) = {}
      PROVE  Cardinality(Tracked(attempts')) <= MaxTracked
  <2>1. table \in [Ips -> Entries] /\ \A k \in Ips : \A a \in table[k] : a.at <= now
    BY <1>1 DEF LimiterInv, Entries
  <2>2. Tracked(table) \subseteq {ip}
    <3> HIDE DEF table
    <3> QED
      BY <2>1, <1>1, <1>6, SomeoneIsEvicted
  <2>3. Tracked(attempts') \subseteq {ip}
    BY <2>2, <1>6, <1>1 DEF Tracked
  <2>4. IsFiniteSet({ip}) /\ Cardinality({ip}) = 1
    BY FS_Singleton
  <2>5. Cardinality(Tracked(attempts')) <= 1 /\ Cardinality(Tracked(attempts')) \in Nat
    BY <2>3, <2>4, FS_Subset, TrackedFinite
  <2> QED
    BY <2>5, <1>1
<1>7. ASSUME NEW old \in Evicted(table, ip), attempts' = [full EXCEPT ![old] = {}]
      PROVE  Cardinality(Tracked(attempts')) <= MaxTracked
  <2>1. old \in Tracked(table) /\ old # ip /\ old \in Ips
    BY <1>7 DEF Evicted, Tracked
  <2>2. Tracked(attempts') \subseteq (Tracked(table) \ {old}) \cup {ip}
    BY <1>7, <2>1, <1>1 DEF Tracked
  <2> HIDE DEF table
  <2>3. Cardinality(Tracked(table) \ {old}) = Cardinality(Tracked(table)) - 1
        /\ IsFiniteSet(Tracked(table) \ {old}) /\ Cardinality(Tracked(table)) \in Nat
    BY <2>1, TrackedFinite, FS_RemoveElement
  <2>4. /\ Cardinality((Tracked(table) \ {old}) \cup {ip}) <= Cardinality(Tracked(table) \ {old}) + 1
        /\ Cardinality((Tracked(table) \ {old}) \cup {ip}) \in Nat
        /\ IsFiniteSet((Tracked(table) \ {old}) \cup {ip})
    BY <2>3, OneMore
  <2>5. Cardinality(Tracked(attempts')) <= Cardinality((Tracked(table) \ {old}) \cup {ip})
        /\ Cardinality(Tracked(attempts')) \in Nat
    BY <2>2, <2>4, FS_Subset, TrackedFinite
  <2> QED
    BY <2>3, <2>4, <2>5, <1>3, <1>1
<1> HIDE DEF valid, table, full
<1>8. \/ attempts' = table
      \/ attempts' = full /\ Cardinality(Tracked(table)) < MaxTracked
      \/ attempts' = full /\ Evicted(table, ip) = {}
      \/ \E old \in Evicted(table, ip) : attempts' = [full EXCEPT ![old] = {}]
  <2>1. Cardinality(Tracked(table)) \in Nat
    BY TrackedFinite
  <2>2. \A old : [table EXCEPT ![ip] = valid \cup {This}, ![old] = {}] = [full EXCEPT ![old] = {}]
    BY DEF full
  <2>3. \/ attempts' = table
        \/ IF Cardinality(Tracked(table)) >= MaxTracked /\ Evicted(table, ip) # {}
           THEN \E old \in Evicted(table, ip) :
                  attempts' = [table EXCEPT ![ip] = valid \cup {This}, ![old] = {}]
           ELSE attempts' = [table EXCEPT ![ip] = valid \cup {This}]
    BY DEF Allow, valid, table
  <2>4. CASE attempts' = table
    BY <2>4
  <2>5. CASE Cardinality(Tracked(table)) >= MaxTracked /\ Evicted(table, ip) # {}
    BY <2>2, <2>3, <2>5
  <2>6. CASE ~(Cardinality(Tracked(table)) >= MaxTracked /\ Evicted(table, ip) # {})
    <3>1. attempts' = table \/ attempts' = full
      BY <2>3, <2>6 DEF full
    <3>2. Cardinality(Tracked(table)) < MaxTracked \/ Evicted(table, ip) = {}
      BY <2>1, <2>6, <1>1
    <3> QED
      BY <3>1, <3>2
  <2> QED
    BY <2>5, <2>6
<1> QED
  BY <1>4, <1>5, <1>6, <1>7, <1>8

LEMMA LimiterHolds == Spec => []LimiterInv
<1>1. Init => LimiterInv
  <2> SUFFICES ASSUME Init PROVE LimiterInv
    OBVIOUS
  <2>1. Tracked(attempts) = {}
    BY DEF Init, Tracked
  <2>2. attempts = [ip \in Ips |-> {}] /\ passed = [ip \in Ips |-> {}]
    BY DEF Init
  <2>3. {} \in Entries /\ Recent({}) = {} /\ IsFiniteSet({}) /\ Cardinality({}) = 0
        /\ Limit \in Nat /\ MaxTracked \in Nat
    BY FS_EmptySet, GuardsAssumption DEF Entries, Recent
  <2>4. now \in Nat /\ calls \in Nat
    BY DEF Init
  <2>5. attempts \in [Ips -> Entries] /\ passed \in [Ips -> Entries]
    BY <2>2, <2>3
  <2>6. \A ip \in Ips : attempts[ip] = {} /\ passed[ip] = {}
    BY <2>2
  <2>7. \A ip \in Ips : /\ IsFiniteSet(attempts[ip]) /\ Cardinality(attempts[ip]) <= Limit
                        /\ \A a \in attempts[ip] : a.at <= now
                        /\ Recent(passed[ip]) \subseteq attempts[ip]
    BY <2>3, <2>6
  <2>8. Cardinality(Tracked(attempts)) <= MaxTracked
    BY <2>1, <2>3
  <2> QED
    BY <2>4, <2>5, <2>7, <2>8 DEF LimiterInv
<1>2. LimiterInv /\ [Next]_vars => LimiterInv'
  <2> SUFFICES ASSUME LimiterInv, [Next]_vars PROVE LimiterInv'
    OBVIOUS
  <2>1. ASSUME NEW ip \in Ips, Allow(ip) PROVE LimiterInv'
    <3>1. UNCHANGED now
      BY <2>1 DEF Allow, Call
    <3>2. \A k \in Ips : Recent(passed[k])' = Recent(passed'[k])
      BY <3>1 DEF Recent
    <3>3. Tracked(attempts)' = Tracked(attempts')
      BY DEF Tracked
    <3> QED
      BY <2>1, <3>1, <3>2, <3>3, AllowEntries, AllowTracked DEF LimiterInv
  <2>2. ASSUME Restart PROVE LimiterInv'
    <3>1. Tracked(attempts)' = {}
      BY <2>2 DEF Restart, Tracked
    <3>2. attempts' = [ip \in Ips |-> {}] /\ passed' = [ip \in Ips |-> {}]
      BY <2>2 DEF Restart
    <3>3. {} \in Entries /\ IsFiniteSet({}) /\ Cardinality({}) = 0
          /\ Limit \in Nat /\ MaxTracked \in Nat
      BY FS_EmptySet, GuardsAssumption DEF Entries
    <3>4. now' \in Nat /\ calls' \in Nat
      BY <2>2 DEF Restart, Call, LimiterInv
    <3>5. attempts' \in [Ips -> Entries] /\ passed' \in [Ips -> Entries]
      BY <3>2, <3>3
    <3>6. \A ip \in Ips : attempts'[ip] = {} /\ passed'[ip] = {}
      BY <3>2
    <3>7. \A ip \in Ips : Recent(passed[ip])' = {}
      BY <3>6 DEF Recent
    <3>8. \A ip \in Ips : /\ IsFiniteSet(attempts'[ip]) /\ Cardinality(attempts'[ip]) <= Limit
                          /\ \A a \in attempts'[ip] : a.at <= now'
      BY <3>3, <3>6
    <3> QED
      BY <3>1, <3>3, <3>4, <3>5, <3>7, <3>8 DEF LimiterInv
  <2>3. ASSUME UNCHANGED limiter, now' \in Nat, now' >= now, calls' \in Nat PROVE LimiterInv'
    <3>1. \A k \in Ips : Recent(passed[k])' \subseteq Recent(passed[k])
      BY <2>3, GuardsAssumption DEF limiter, Recent, LimiterInv, Entries
    <3>2. \A k \in Ips : \A a \in attempts[k] : a.at \in Nat
      BY DEF LimiterInv, Entries
    <3>3. Tracked(attempts)' = Tracked(attempts)
      BY <2>3 DEF limiter, Tracked
    <3> QED
      BY <2>3, <3>1, <3>2, <3>3 DEF limiter, LimiterInv
  <2>4. \/ \E ip \in Ips : Allow(ip)
        \/ Restart
        \/ UNCHANGED limiter /\ now' \in Nat /\ now' >= now /\ calls' \in Nat
    <3>1. now \in Nat /\ calls \in Nat
      BY DEF LimiterInv
    <3> DEFINE Aside == UNCHANGED limiter /\ now' \in Nat /\ now' >= now /\ calls' \in Nat
    <3>2. ASSUME UNCHANGED limiter, Call PROVE Aside
      BY <3>1, <3>2 DEF Call
    <3>3. ASSUME Tick PROVE Aside
      BY <3>1, <3>3 DEF Tick, limiter
    <3>4. ASSUME NEW c \in Codes, UseCode(c) PROVE Aside
      BY <3>2, <3>4 DEF UseCode
    <3>5. ASSUME NEW t \in Tokens, Issue(t) PROVE Aside
      BY <3>2, <3>5 DEF Issue
    <3>6. ASSUME NEW t \in Tokens, Logout(t) PROVE Aside
      BY <3>2, <3>6 DEF Logout
    <3>7. ASSUME NEW t \in Tokens, AddRow(t) PROVE Aside
      BY <3>1, <3>7 DEF AddRow, limiter
    <3>8. ASSUME NEW t \in Tokens, Authenticate(t) PROVE Aside
      BY <3>2, <3>8 DEF Authenticate
    <3>9. ASSUME Cleanup PROVE Aside
      BY <3>2, <3>9 DEF Cleanup
    <3>10. ASSUME UNCHANGED vars PROVE Aside
      BY <3>1, <3>10 DEF vars, limiter
    <3> HIDE DEF Aside
    <3>11. Next => (\E ip \in Ips : Allow(ip)) \/ Restart \/ Aside
      BY <3>3, <3>4, <3>5, <3>6, <3>7, <3>8, <3>9 DEF Next
    <3> QED
      BY <3>10, <3>11 DEF Aside
  <2> QED
    BY <2>1, <2>2, <2>3, <2>4
<1> QED
  BY <1>1, <1>2, PTL DEF Spec

-----------------------------------------------------------------------------
(* Types                                                                   *)

\* A code is accepted by a call.
Counted == TypeOK /\ \A c \in Codes : accepted[c] <= calls

\* The three tables, each by itself.
LimiterTypes == attempts \in [Ips -> SUBSET Attempts] /\ passed \in [Ips -> SUBSET Attempts]
CodeTypes ==
    /\ used \in [Codes -> Time \cup {NoTime}] /\ accepted \in [Codes -> 0..MaxCalls]
    /\ \A c \in Codes : accepted[c] <= calls
Times == [Tokens -> Time \cup {NoTime}]
TokenTypes ==
    /\ issued \in Times /\ entries \in Times /\ saved \in Times
    /\ logout \subseteq Tokens /\ gone \subseteq Tokens

LEMMA CountedParts ==
    Counted <=> /\ now \in 0..MaxTime /\ calls \in 0..MaxCalls
                /\ LimiterTypes /\ CodeTypes /\ TokenTypes
  BY DEF Counted, TypeOK, LimiterTypes, CodeTypes, TokenTypes, Times

LEMMA CallTypes ==
    ASSUME Counted, Call
    PROVE  now' \in 0..MaxTime /\ calls' \in 0..MaxCalls /\ calls' = calls + 1
  BY GuardsAssumption, CountedParts DEF Call

LEMMA LimiterStays == ASSUME LimiterTypes, UNCHANGED limiter PROVE LimiterTypes'
  BY DEF LimiterTypes, limiter

LEMMA CodesTypesStay ==
    ASSUME Counted, UNCHANGED codes, calls' \in Nat, calls' >= calls
    PROVE  CodeTypes'
<1>1. CodeTypes /\ calls \in Nat
  BY GuardsAssumption, CountedParts
<1>2. \A c \in Codes : accepted[c] \in Nat
  BY <1>1, GuardsAssumption DEF CodeTypes
<1> QED
  BY <1>1, <1>2 DEF CodeTypes, codes

LEMMA TokensStay == ASSUME TokenTypes, UNCHANGED tokens PROVE TokenTypes'
  BY DEF TokenTypes, tokens

LEMMA AllowTypes ==
    ASSUME Counted, NEW ip \in Ips, Allow(ip)
    PROVE  LimiterTypes'
<1>1. /\ LimiterTypes /\ now \in Time /\ calls \in 0..MaxCalls
  BY GuardsAssumption, CountedParts DEF Time
<1>2. This \in Attempts /\ Recent(attempts[ip]) \subseteq attempts[ip]
  BY <1>1 DEF This, Attempts, Recent
<1> DEFINE valid == Recent(attempts[ip])
           more == valid \cup {This}
<1>3. valid \in SUBSET Attempts /\ more \in SUBSET Attempts /\ passed[ip] \cup {This} \in SUBSET Attempts
  BY <1>1, <1>2 DEF LimiterTypes
<1> HIDE DEF valid, more
<1>4. /\ \/ attempts' = [attempts EXCEPT ![ip] = valid]
         \/ attempts' = [[attempts EXCEPT ![ip] = valid] EXCEPT ![ip] = more]
         \/ \E old : attempts' = [[attempts EXCEPT ![ip] = valid] EXCEPT ![ip] = more, ![old] = {}]
      /\ \/ passed' = passed
         \/ passed' = [passed EXCEPT ![ip] = @ \cup {This}]
         \/ \E old : passed' = [passed EXCEPT ![ip] = @ \cup {This}, ![old] = {}]
  BY DEF Allow, valid, more
<1> QED
  BY <1>1, <1>3, <1>4 DEF LimiterTypes

LEMMA UseCodeTypes ==
    ASSUME Counted, NEW c \in Codes, UseCode(c)
    PROVE  CodeTypes'
<1>1. CodeTypes /\ now \in Time /\ calls \in Nat /\ MaxCalls \in Nat
  BY GuardsAssumption, CountedParts DEF Time
<1>2. calls' = calls + 1 /\ calls' \in 0..MaxCalls
  BY CallTypes DEF UseCode
<1>3. used' \in [Codes -> Time \cup {NoTime}]
  BY <1>1 DEF UseCode, CheckAndMark, CodeTypes
<1>4. accepted' = [accepted EXCEPT ![c] = @ + 1]
  BY DEF UseCode
<1>5. \A d \in Codes : accepted[d] \in Nat /\ accepted[d] <= calls
  BY <1>1 DEF CodeTypes
<1>6. \A d \in Codes : accepted'[d] \in Nat /\ accepted'[d] <= calls'
  BY <1>1, <1>2, <1>4, <1>5 DEF CodeTypes
<1>7. accepted' \in [Codes -> Nat]
  BY <1>1, <1>4, <1>6 DEF CodeTypes
<1>8. accepted' \in [Codes -> 0..MaxCalls]
  BY <1>1, <1>2, <1>6, <1>7
<1> QED
  BY <1>3, <1>6, <1>8 DEF CodeTypes

LEMMA TokenStepTypes ==
    ASSUME Counted,
           \/ \E t \in Tokens : Issue(t) \/ Logout(t) \/ AddRow(t) \/ Authenticate(t)
           \/ Cleanup
    PROVE  TokenTypes'
<1>1. TokenTypes /\ now \in Nat /\ now + Lifetime \in Time
  BY GuardsAssumption, CountedParts DEF Time
<1>2. LiveRows \in Times /\ Pruned(entries) \in Times
  BY <1>1 DEF TokenTypes, Times, LiveRows, Pruned
<1>3. ASSUME NEW t \in Tokens, Issue(t) PROVE TokenTypes'
  BY <1>1, <1>3 DEF Issue, TokenTypes, Times
<1>4. ASSUME NEW t \in Tokens, Logout(t) PROVE TokenTypes'
  <2>1. Pruned([entries EXCEPT ![t] = issued[t]]) \in Times
    BY <1>1 DEF TokenTypes, Times, Pruned
  <2> QED
    BY <1>1, <1>4, <2>1 DEF Logout, TokenTypes
<1>5. ASSUME NEW t \in Tokens, AddRow(t) PROVE TokenTypes'
  BY <1>1, <1>5 DEF AddRow, TokenTypes, Times
<1>6. ASSUME NEW t \in Tokens, Authenticate(t) PROVE TokenTypes'
  BY <1>1, <1>6 DEF Authenticate, TokenTypes, Times
<1>7. ASSUME Cleanup PROVE TokenTypes'
  BY <1>1, <1>2, <1>7 DEF Cleanup, TokenTypes
<1> QED
  BY <1>3, <1>4, <1>5, <1>6, <1>7

LEMMA RestartTypes ==
    ASSUME Counted, Restart
    PROVE  LimiterTypes' /\ CodeTypes' /\ TokenTypes'
<1>1. TokenTypes /\ calls' \in 0..MaxCalls /\ MaxCalls \in Nat
  BY GuardsAssumption, CountedParts, CallTypes DEF Restart
<1>2. LimiterTypes'
  BY DEF Restart, LimiterTypes
<1>3. CodeTypes'
  <2>1. used' = [c \in Codes |-> NoTime] /\ accepted' = [c \in Codes |-> 0]
    BY DEF Restart
  <2> QED
    BY <1>1, <2>1 DEF CodeTypes
<1>4. LiveRows \in Times /\ [t \in Tokens |-> NoTime] \in Times
  BY <1>1 DEF TokenTypes, Times, LiveRows
<1>5. TokenTypes'
  BY <1>1, <1>4 DEF Restart, TokenTypes
<1> QED
  BY <1>2, <1>3, <1>5

LEMMA CountedHolds == Spec => []Counted
<1>1. Init => Counted
  <2> SUFFICES ASSUME Init PROVE Counted
    OBVIOUS
  <2>1. now \in 0..MaxTime /\ calls \in 0..MaxCalls
    BY GuardsAssumption DEF Init
  <2>2. LimiterTypes /\ TokenTypes
    BY DEF Init, LimiterTypes, TokenTypes, Times
  <2>3. CodeTypes
    <3>1. used = [c \in Codes |-> NoTime] /\ accepted = [c \in Codes |-> 0] /\ calls = 0
      BY DEF Init
    <3> QED
      BY <3>1, GuardsAssumption DEF CodeTypes
  <2> QED
    BY <2>1, <2>2, <2>3, CountedParts
<1>2. Counted /\ [Next]_vars => Counted'
  <2> SUFFICES ASSUME Counted, [Next]_vars PROVE Counted'
    OBVIOUS
  <2>0. /\ now \in 0..MaxTime /\ calls \in 0..MaxCalls /\ calls \in Nat /\ MaxTime \in Nat
        /\ LimiterTypes /\ CodeTypes /\ TokenTypes
    BY GuardsAssumption, CountedParts
  <2> DEFINE Clocks == now' \in 0..MaxTime /\ calls' \in 0..MaxCalls
  <2>1. ASSUME Clocks, LimiterTypes', CodeTypes', TokenTypes' PROVE Counted'
    BY <2>1 DEF Counted, TypeOK, LimiterTypes, CodeTypes, TokenTypes, Times
  <2>2. ASSUME Call PROVE Clocks /\ (UNCHANGED codes => CodeTypes')
    BY <2>0, <2>2, CallTypes, CodesTypesStay
  <2>3. ASSUME Tick PROVE Counted'
    <3>1. Clocks /\ calls' = calls /\ UNCHANGED <<limiter, codes, tokens>>
      BY <2>0, <2>3 DEF Tick
    <3> QED
      BY <2>0, <2>1, <3>1, LimiterStays, CodesTypesStay, TokensStay
  <2>4. ASSUME NEW ip \in Ips, Allow(ip) PROVE Counted'
    <3>1. Call /\ UNCHANGED <<codes, tokens>>
      BY <2>4 DEF Allow
    <3> QED
      BY <2>0, <2>1, <2>2, <2>4, <3>1, AllowTypes, TokensStay
  <2>5. ASSUME NEW c \in Codes, UseCode(c) PROVE Counted'
    <3>1. Call /\ UNCHANGED <<limiter, tokens>>
      BY <2>5 DEF UseCode
    <3> QED
      BY <2>0, <2>1, <2>2, <2>5, <3>1, UseCodeTypes, LimiterStays, TokensStay
  <2>6. ASSUME \/ \E t \in Tokens : Issue(t) \/ Logout(t) \/ AddRow(t) \/ Authenticate(t)
               \/ Cleanup
        PROVE  Counted'
    <3>1. UNCHANGED <<limiter, codes>> /\ (Call \/ UNCHANGED <<now, calls>>)
      BY <2>6 DEF Issue, Logout, AddRow, Authenticate, Cleanup
    <3>2. TokenTypes'
      BY <2>6, TokenStepTypes
    <3>3. Clocks /\ CodeTypes'
      BY <2>0, <2>2, <3>1, CodesTypesStay
    <3> QED
      BY <2>0, <2>1, <3>1, <3>2, <3>3, LimiterStays
  <2>7. ASSUME Restart PROVE Counted'
    <3>1. Call
      BY <2>7 DEF Restart
    <3> QED
      BY <2>1, <2>2, <2>7, <3>1, RestartTypes
  <2>8. ASSUME UNCHANGED vars PROVE Counted'
    <3>1. Clocks /\ calls' = calls /\ UNCHANGED <<limiter, codes, tokens>>
      BY <2>0, <2>8 DEF vars, limiter, codes, tokens
    <3> QED
      BY <2>0, <2>1, <3>1, LimiterStays, CodesTypesStay, TokensStay
  <2> QED
    BY <2>3, <2>4, <2>5, <2>6, <2>7, <2>8 DEF Next
<1> QED
  BY <1>1, <1>2, PTL DEF Spec

-----------------------------------------------------------------------------
(* Theorems                                                                *)

\* A second-factor code is accepted at most once in the life of a hub process:
\* when CheckAndMark forgets it, three periods after its use, the library
\* refuses it (totp_cache.go:40-56).
THEOREM CodesAreUsedUp == Spec => []CodeAcceptedOnce
<1>1. IInv => CodeAcceptedOnce
  BY DEF IInv, CodeRemembered, CodeAcceptedOnce
<1> QED
  BY <1>1, Inductive, GuardsAssumption, PTL

\* A token whose logout was answered and saved is refused until it expires,
\* whatever cleanups, restarts and failed reads of the table come between
\* (blacklist.go:96-152).
THEOREM LogoutIsFinal == Spec => []LoggedOutStaysRefused
<1>1. IInv => LoggedOutStaysRefused
  <2> SUFFICES ASSUME IInv, NEW t \in gone, Valid(t) PROVE LiveRows[t] # NoTime
    BY DEF LoggedOutStaysRefused, IsBlacklisted
  <2>1. t \in Tokens /\ issued[t] # NoTime /\ now < issued[t] /\ saved[t] = issued[t]
    BY DEF IInv, RowsAreTrue, Valid, GuardTypes
  <2>2. issued[t] \in Nat /\ now \in Nat
    BY <2>1 DEF IInv, GuardTypes
  <2> QED
    BY <2>1, <2>2 DEF LiveRows
<1> QED
  BY <1>1, Inductive, GuardsAssumption, PTL

\* No address gets more than the limit through in a window, for every limit,
\* window and number of addresses, and the table stays within its bound
\* (middleware.go:254-289).
THEOREM LimitIsKept == Spec => []LimitHolds
<1>1. LimiterInv => LimitHolds
  <2> SUFFICES ASSUME LimiterInv, NEW ip \in Ips PROVE Cardinality(Recent(passed[ip])) <= Limit
    BY DEF LimitHolds, LimiterInv
  <2>1. /\ Recent(passed[ip]) \subseteq attempts[ip] /\ IsFiniteSet(attempts[ip])
        /\ Cardinality(attempts[ip]) <= Limit /\ Limit \in Nat
    BY GuardsAssumption DEF LimiterInv
  <2>2. /\ Cardinality(Recent(passed[ip])) <= Cardinality(attempts[ip])
        /\ Cardinality(Recent(passed[ip])) \in Nat /\ Cardinality(attempts[ip]) \in Nat
    BY <2>1, FS_Subset, FS_CardinalityType
  <2> QED
    BY <2>1, <2>2
<1> QED
  BY <1>1, LimiterHolds, PTL

\* The limiter's table, the used codes, the tokens and the clock keep their
\* types: no time passes the bound, and no code is counted more often than
\* there were calls.
THEOREM GuardsTypeCorrect == Spec => []TypeOK
<1>1. Counted => TypeOK
  BY DEF Counted
<1> QED
  BY <1>1, CountedHolds, PTL
=============================================================================
