------------------------- MODULE ServiceNodeProofs -------------------------
(***************************************************************************)
(* Theorems about ServiceNode: who serves is qualified, and lookups do not *)
(* go back.  The start and the resolver share no variable but stage, so    *)
(* each has an invariant of its own.                                       *)
(***************************************************************************)
EXTENDS ServiceNode, TLAPS

StartTypeOK == unread \in BOOLEAN /\ account \in Accounts

\* What has been found out of the account at each stage, and still holds.
CheckedSoFar ==
  /\ stage = "weigh" => account \in {"weak", "good"}
  /\ stage \in {"balance", "node", "serving", "deaf"} /\ ~unread => account = "good"

StartInv == StartTypeOK /\ CheckedSoFar

ResolverTypeOK ==
  /\ record \in Nat
  /\ lock \in Setups \cup {None}
  /\ setup \in [Setups -> {"new", "asked", "resolving", "resolved", "over"}]
  /\ resolved \in [Setups -> Nat]
  /\ cache \in [Names -> Nat] /\ told \in [Names -> Nat]
  /\ lookup \in [Lookups -> {"new", "waiting", "answered", "lost"}]
  /\ answer \in [Lookups -> Nat] /\ floor \in [Lookups -> Nat]

\* The set-up that asks DNS has the lock.
LockHeld == \A s \in Setups : setup[s] \in {"resolving", "resolved"} => lock = s

\* What was confirmed is cached, and nothing cached is ahead of the records.
CacheBetween == \A n \in Names : told[n] <= cache[n] /\ cache[n] <= record

\* An answer on its way to the cache is as new as anything in it.
AnswerIsNewest ==
  \A s \in Setups : setup[s] = "resolved" =>
    resolved[s] <= record /\ \A n \in Names : cache[n] <= resolved[s]

\* What a waiting lookup has been promised is in the cache.
FloorCached ==
  \A l \in Lookups : lookup[l] = "waiting" => floor[l] <= cache[Trimmed[KeyOf[l]]]

ResolverInv ==
  ResolverTypeOK /\ LockHeld /\ CacheBetween /\ AnswerIsNewest /\ FloorCached /\ AnswersNotOlder

-----------------------------------------------------------------------------

LEMMA StartInit == ASSUME Init PROVE StartInv
  BY DEF Init, StartInv, StartTypeOK, CheckedSoFar

(* The start keeps its invariant: only a good account passes the weighing, and only a     *)
(* balance that was not read leads around it.                                             *)
LEMMA StartStep == ASSUME StartInv, [Next]_vars PROVE StartInv'
<1> USE DEF StartInv, StartTypeOK, CheckedSoFar, Accounts, Go
<1>1. CASE Start \/ AccountRead \/ Fund \/ FundFails \/ FundedRead
  BY <1>1 DEF Start, AccountRead, Fund, FundFails, FundedRead
<1>2. CASE ValidateBalance \/ BalanceUnread \/ ValidateWeight
  BY <1>2 DEF ValidateBalance, BalanceUnread, ValidateWeight
<1>3. CASE ReadBalance \/ StartFails \/ Serve \/ PortTaken \/ Crash
  BY <1>3 DEF ReadBalance, StartFails, Serve, PortTaken, Crash
<1>4. CASE Improve
  BY <1>4 DEF Improve
<1>5. CASE UNCHANGED starting
  BY <1>5 DEF starting
<1>6. CASE Publish
  BY <1>5, <1>6 DEF Publish
<1>7. CASE \E s \in Setups :
             SetupResolving(s) \/ Lock(s) \/ Answered(s) \/ Associate(s) \/ ResolveFails(s)
  BY <1>5, <1>7 DEF SetupResolving, Lock, Answered, Associate, ResolveFails
<1>8. CASE \E l \in Lookups : Ask(l) \/ DoResolve(l)
  BY <1>5, <1>8 DEF Ask, DoResolve
<1>9. CASE UNCHANGED vars
  BY <1>5, <1>9 DEF vars
<1> QED
  BY <1>1, <1>2, <1>3, <1>4, <1>6, <1>7, <1>8, <1>9 DEF Next

(* A process that passes the checks of its start has a good account, unless its balance   *)
(* could not be read: for any sequence of failures, fundings and restarts.                *)
THEOREM OnlyQualifiedServe == Spec => []ServesQualified
<1>1. Init => StartInv
  BY StartInit
<1>2. StartInv /\ [Next]_vars => StartInv'
  BY StartStep
<1>3. StartInv => ServesQualified
  BY DEF StartInv, CheckedSoFar, ServesQualified
<1> QED
  BY <1>1, <1>2, <1>3, PTL DEF Spec

-----------------------------------------------------------------------------

LEMMA TrimmedKeys == \A x \in Setups \cup Lookups : KeyOf[x] \in Names /\ Trimmed[KeyOf[x]] \in Names
  BY ServiceAssumption

LEMMA ResolverInit == ASSUME Init PROVE ResolverInv
  BY TrimmedKeys, ServiceAssumption
  DEF Init, Empty, ResolverInv, ResolverTypeOK, LockHeld, CacheBetween, AnswerIsNewest,
      FloorCached, AnswersNotOlder

(* Everything but a confirmed set-up leaves the cache, or empties it with those who wait. *)
LEMMA ResolverUnchanged == ASSUME ResolverInv, UNCHANGED resolving PROVE ResolverInv'
  BY DEF resolving, ResolverInv, ResolverTypeOK, LockHeld, CacheBetween, AnswerIsNewest,
         FloorCached, AnswersNotOlder

LEMMA CrashStep == ASSUME ResolverInv, Crash PROVE ResolverInv'
<1> USE DEF Crash, Empty, ResolverInv
<1>1. ResolverTypeOK'
  BY DEF ResolverTypeOK
<1>2. LockHeld' /\ AnswerIsNewest' /\ FloorCached'
  BY DEF ResolverTypeOK, LockHeld, AnswerIsNewest, FloorCached
<1>3. CacheBetween'
  BY DEF ResolverTypeOK, CacheBetween
<1>4. AnswersNotOlder'
  BY DEF ResolverTypeOK, AnswersNotOlder
<1> QED
  BY <1>1, <1>2, <1>3, <1>4

(* The set-up that has the lock writes the newest answer there is: the cache only grows.  *)
LEMMA AssociateStep == ASSUME ResolverInv, NEW s \in Setups, Associate(s) PROVE ResolverInv'
<1> DEFINE k == Trimmed[KeyOf[s]]
<1> USE DEF Associate, Over, Unlocked, ResolverInv
<1>1. k \in Names /\ resolved[s] \in Nat /\ cache[k] <= resolved[s] /\ resolved[s] <= record
  BY TrimmedKeys DEF ResolverTypeOK, AnswerIsNewest
<1>2. ResolverTypeOK'
  BY <1>1 DEF ResolverTypeOK
<1>3. \A t \in Setups : setup'[t] \notin {"resolving", "resolved"}
  BY ServiceAssumption DEF LockHeld, ResolverTypeOK
<1>4. LockHeld' /\ AnswerIsNewest'
  BY <1>3 DEF LockHeld, AnswerIsNewest
<1>5. CacheBetween'
  BY <1>1 DEF ResolverTypeOK, CacheBetween
<1>6. \A n \in Names : cache[n] <= cache'[n]
  BY <1>1 DEF ResolverTypeOK
<1>7. FloorCached'
  <2> SUFFICES ASSUME NEW l \in Lookups, lookup[l] = "waiting"
               PROVE  floor[l] <= cache'[Trimmed[KeyOf[l]]]
    BY DEF FloorCached
  <2> DEFINE n == Trimmed[KeyOf[l]]
  <2>1. floor[l] \in Nat /\ cache[n] \in Nat /\ cache'[n] \in Nat
    BY <1>2, TrimmedKeys DEF ResolverTypeOK
  <2>2. floor[l] <= cache[n] /\ cache[n] <= cache'[n]
    BY <1>6, TrimmedKeys DEF FloorCached
  <2> QED
    BY <2>1, <2>2
<1>8. AnswersNotOlder'
  BY DEF AnswersNotOlder
<1> QED
  BY <1>2, <1>4, <1>5, <1>7, <1>8

LEMMA SetupStep ==
  ASSUME ResolverInv, NEW s \in Setups,
         SetupResolving(s) \/ Lock(s) \/ Answered(s) \/ ResolveFails(s)
  PROVE  ResolverInv'
<1> USE DEF ResolverInv
<1>1. CASE SetupResolving(s)
  BY <1>1
    DEF SetupResolving, ResolverTypeOK, LockHeld, CacheBetween, AnswerIsNewest, FloorCached,
              AnswersNotOlder
<1>2. CASE Lock(s)
  <2>1. \A t \in Setups : setup[t] \notin {"resolving", "resolved"}
    BY <1>2, ServiceAssumption DEF Lock, LockHeld, ResolverTypeOK
  <2> QED
    BY <1>2, <2>1 DEF Lock, ResolverTypeOK, LockHeld, CacheBetween, AnswerIsNewest, FloorCached,
                      AnswersNotOlder
<1>3. CASE Answered(s)
  BY <1>3 DEF Answered, ResolverTypeOK, LockHeld, CacheBetween, AnswerIsNewest, FloorCached,
              AnswersNotOlder
<1>4. CASE ResolveFails(s)
  <2>1. \A t \in Setups : setup'[t] \notin {"resolving", "resolved"}
    BY <1>4, ServiceAssumption DEF ResolveFails, Over, LockHeld, ResolverTypeOK
  <2> QED
    BY <1>4, <2>1 DEF ResolveFails, Over, Unlocked, ResolverTypeOK, LockHeld, CacheBetween,
                      AnswerIsNewest, FloorCached, AnswersNotOlder
<1> QED
  BY <1>1, <1>2, <1>3, <1>4

LEMMA LookupStep ==
  ASSUME ResolverInv, NEW l \in Lookups, Ask(l) \/ DoResolve(l)
  PROVE  ResolverInv'
<1> USE DEF ResolverInv
<1>1. KeyOf[l] \in Names /\ Trimmed[KeyOf[l]] \in Names
  BY TrimmedKeys
<1>2. CASE Ask(l)
  BY <1>1, <1>2 DEF Ask, ResolverTypeOK, LockHeld, CacheBetween, AnswerIsNewest, FloorCached,
                    AnswersNotOlder
<1>3. CASE DoResolve(l)
  BY <1>1, <1>3 DEF DoResolve, ResolverTypeOK, LockHeld, CacheBetween, AnswerIsNewest,
                    FloorCached, AnswersNotOlder
<1> QED
  BY <1>2, <1>3

LEMMA ResolverStep == ASSUME ResolverInv, [Next]_vars PROVE ResolverInv'
<1>1. CASE Start \/ AccountRead \/ Fund \/ FundFails \/ FundedRead \/ ValidateBalance
           \/ BalanceUnread \/ ValidateWeight \/ ReadBalance \/ StartFails \/ Serve
           \/ PortTaken \/ Improve
  BY <1>1, ResolverUnchanged
  DEF Start, AccountRead, Fund, FundFails, FundedRead, ValidateBalance, BalanceUnread,
      ValidateWeight, ReadBalance, StartFails, Serve, PortTaken, Improve, Go
<1>2. CASE Crash
  BY <1>2, CrashStep
<1>3. CASE Publish
  BY <1>3 DEF Publish, ResolverInv, ResolverTypeOK, LockHeld, CacheBetween, AnswerIsNewest,
              FloorCached, AnswersNotOlder
<1>4. CASE \E s \in Setups :
             SetupResolving(s) \/ Lock(s) \/ Answered(s) \/ Associate(s) \/ ResolveFails(s)
  BY <1>4, SetupStep, AssociateStep
<1>5. CASE \E l \in Lookups : Ask(l) \/ DoResolve(l)
  BY <1>5, LookupStep
<1>6. CASE UNCHANGED vars
  BY <1>6, ResolverUnchanged DEF vars
<1> QED
  BY <1>1, <1>2, <1>3, <1>4, <1>5, <1>6 DEF Next

(* Lookups do not go back behind what was confirmed, for any number of set-ups, lookups,  *)
(* names and changes of the records.                                                      *)
THEOREM LookupsNeverGoBack == Spec => []AnswersNotOlder
<1>1. Init => ResolverInv
  BY ResolverInit
<1>2. ResolverInv /\ [Next]_vars => ResolverInv'
  BY ResolverStep
<1>3. ResolverInv => AnswersNotOlder
  BY DEF ResolverInv
<1> QED
  BY <1>1, <1>2, <1>3, PTL DEF Spec

=============================================================================
