---------------------------- MODULE ServiceNode ----------------------------
(***************************************************************************)
(* The process of a gateway: what it checks of its Stellar account before  *)
(* it serves (root.go, nodeFromConfig.go), what becomes of it when a call  *)
(* to Horizon fails (main.go), and the one handler of its HTTP server that *)
(* keeps state of its own, the resolver (resolverController.go): a cache   *)
(* of onion addresses, whose lock is held while DNS is asked.              *)
(*                                                                         *)
(* The DNS records of all domains have one version, that grows; an answer  *)
(* is the version it was given at, with or without an address in it: the   *)
(* handler remembers an empty answer like any other.  0 is no entry.       *)
(***************************************************************************)
EXTENDS Integers

CONSTANTS
  Setups,      \* requests to /api/resolver/setupResolving
  Lookups,     \* requests to /api/resolver/resolve
  Names,       \* host names, with and without a port
  Trimmed,     \* a name without its port
  KeyOf,       \* the domainKey of a set-up, the domain of a lookup
  NoName,      \* an empty header
  MaxVersion,  \* bound on the changes of the DNS records
  MaxCrashes,  \* bound on the exits of a serving process
  None

ASSUME ServiceAssumption ==
  /\ NoName \in Names
  /\ Trimmed \in [Names -> Names]
  /\ \A n \in Names : Trimmed[Trimmed[n]] = Trimmed[n]
  /\ KeyOf \in [Setups \cup Lookups -> Names]
  /\ MaxVersion \in Nat \ {0} /\ MaxCrashes \in Nat
  /\ None \notin Setups

VARIABLES
  stage,    \* of the process, "deaf" when its port is taken
  account,  \* at Stellar: absent, short of tokens, weak master key, good
  unread,   \* the balance could not be read for the validation (auxiliary)
  crashes,
  record,   \* the version of the DNS records
  lock,     \* the set-up that has the resolver's lock
  setup,    \* where a set-up is
  resolved, \* what DNS answered it
  cache,    \* resolveCache
  lookup,   \* where a lookup is
  answer,   \* what it was answered
  told,     \* the newest version a set-up of the name was confirmed with (auxiliary)
  floor     \* what had been told of its name when a lookup was asked (auxiliary)

starting  == <<stage, account, unread, crashes>>
resolving == <<record, lock, setup, resolved, cache, lookup, answer, told, floor>>
vars      == <<starting, resolving>>

Accounts == {"absent", "poor", "weak", "good"}
Empty == [n \in Names |-> 0]

Init ==
  /\ stage = "down" /\ account \in Accounts /\ unread = FALSE /\ crashes = 0
  /\ record = 1 /\ lock = None
  /\ setup = [s \in Setups |-> "new"] /\ resolved = [s \in Setups |-> 0]
  /\ cache = Empty /\ told = Empty
  /\ lookup = [l \in Lookups |-> "new"]
  /\ answer = [l \in Lookups |-> 0] /\ floor = answer

-----------------------------------------------------------------------------
(* The start, and the restart by systemd *)

Go(from, to) ==
  /\ stage = from /\ stage' = to
  /\ UNCHANGED resolving

Start ==
  /\ Go("down", "initialize")
  /\ unread' = FALSE
  /\ UNCHANGED <<account, crashes>>

AccountRead ==
  /\ account # "absent" /\ Go("initialize", "validate")
  /\ UNCHANGED <<account, unread, crashes>>

\* The read has failed, and friendbot takes the account for a new one: it has no tokens.
Fund ==
  /\ account = "absent" /\ Go("initialize", "funded")
  /\ account' = "poor"
  /\ UNCHANGED <<unread, crashes>>

\* A read that failed for a moment: friendbot refuses to fund what exists; log.Fatal.
FundFails ==
  /\ Go("initialize", "down")
  /\ UNCHANGED <<account, unread, crashes>>

FundedRead ==
  /\ Go("funded", "validate")
  /\ UNCHANGED <<account, unread, crashes>>

ValidateBalance ==
  /\ Go("validate", IF account \in {"absent", "poor"} THEN "down" ELSE "weigh")
  /\ UNCHANGED <<account, unread, crashes>>

\* ValidateForPPNode returns nil when it cannot read the balance.
BalanceUnread ==
  /\ Go("validate", "balance")
  /\ unread' = TRUE
  /\ UNCHANGED <<account, crashes>>

ValidateWeightNot ==
  /\ Go("weigh", "balance")
  /\ UNCHANGED <<account, unread, crashes>>

\* The master key must reach the medium threshold.
ValidateWeight ==
  /\ Go("weigh", IF account = "weak" THEN "down" ELSE "balance")
  /\ UNCHANGED <<account, unread, crashes>>

ReadBalance ==
  /\ Go("balance", "node")
  /\ UNCHANGED <<account, unread, crashes>>

\* Any other error of a read, or of the database, reaches log.Panicf.
StartFails ==
  /\ \E from \in {"funded", "weigh", "balance", "node"} : Go(from, "down")
  /\ UNCHANGED <<account, unread, crashes>>

\* New succeeds and the server listens.
Serve ==
  /\ Go("node", "serving")
  /\ UNCHANGED <<account, unread, crashes>>

\* An error of ListenAndServe is a line of the log; the process stays, and is not restarted.
PortTaken ==
  /\ Go("node", "deaf")
  /\ UNCHANGED <<account, unread, crashes>>

\* log.Fatal somewhere in the serving process: requests and cache are gone.
Crash ==
  /\ stage = "serving" /\ stage' = "down"
  /\ crashes < MaxCrashes /\ crashes' = crashes + 1
  /\ lock' = None
  /\ setup' = [s \in Setups |-> IF setup[s] = "new" THEN "new" ELSE "over"]
  /\ lookup' = [l \in Lookups |-> IF lookup[l] = "waiting" THEN "lost" ELSE lookup[l]]
  /\ cache' = Empty /\ told' = Empty
  /\ resolved' = [s \in Setups |-> 0]
  /\ UNCHANGED <<account, unread, record, answer, floor>>

\* The owner sends tokens, or changes the signers for the better.
Improve ==
  /\ \/ account = "poor" /\ account' \in {"weak", "good"}
     \/ account = "weak" /\ account' = "good"
  /\ UNCHANGED <<stage, unread, crashes, resolving>>

-----------------------------------------------------------------------------
(* The resolver *)

Publish ==
  /\ record < MaxVersion /\ record' = record + 1
  /\ UNCHANGED <<starting, lock, setup, resolved, cache, lookup, answer, told, floor>>

\* The port is trimmed; without a name it is a bad request.
SetupResolving(s) ==
  /\ stage = "serving" /\ setup[s] = "new"
  /\ setup' = [setup EXCEPT ![s] = IF KeyOf[s] = NoName THEN "over" ELSE "asked"]
  /\ UNCHANGED <<starting, record, lock, resolved, cache, lookup, answer, told, floor>>

LockLate(s) ==
  /\ setup[s] = "asked"
  /\ setup' = [setup EXCEPT ![s] = "resolving"]
  /\ UNCHANGED <<starting, record, lock, resolved, cache, lookup, answer, told, floor>>

Lock(s) ==
  /\ setup[s] = "asked" /\ lock = None
  /\ lock' = s
  /\ setup' = [setup EXCEPT ![s] = "resolving"]
  /\ UNCHANGED <<starting, record, resolved, cache, lookup, answer, told, floor>>

\* The service answers; the answer is on its way.
Answered(s) ==
  /\ setup[s] = "resolving"
  /\ resolved' = [resolved EXCEPT ![s] = record]
  /\ setup' = [setup EXCEPT ![s] = "resolved"]
  /\ UNCHANGED <<starting, record, lock, cache, lookup, answer, told, floor>>

Unlocked == lock' = None

Over(s) ==
  /\ setup' = [setup EXCEPT ![s] = "over"]
  /\ resolved' = [resolved EXCEPT ![s] = 0]

\* The entry replaces the one before, and the set-up is confirmed.
Associate(s) ==
  /\ setup[s] = "resolved"
  /\ cache' = [cache EXCEPT ![Trimmed[KeyOf[s]]] = resolved[s]]
  /\ told' = [told EXCEPT ![Trimmed[KeyOf[s]]] = IF resolved[s] > @ THEN resolved[s] ELSE @]
  /\ Unlocked
  /\ Over(s)
  /\ UNCHANGED <<starting, record, lookup, answer, floor>>

ResolveFailsLocked(s) ==
  /\ setup[s] \in {"resolving", "resolved"}
  /\ Over(s)
  /\ UNCHANGED <<starting, record, lock, cache, lookup, answer, told, floor>>

\* Ten seconds are over, or the answer cannot be read: status 500, the entry stays.
ResolveFails(s) ==
  /\ setup[s] \in {"resolving", "resolved"}
  /\ Unlocked
  /\ Over(s)
  /\ UNCHANGED <<starting, record, cache, lookup, answer, told, floor>>

Ask(l) ==
  /\ stage = "serving" /\ lookup[l] = "new"
  /\ lookup' = [lookup EXCEPT ![l] = "waiting"]
  /\ floor' = [floor EXCEPT ![l] = told[Trimmed[KeyOf[l]]]]
  /\ UNCHANGED <<starting, record, lock, setup, resolved, cache, answer, told>>

\* By the name as it comes: no port is trimmed, and a bad request without a name is
\* looked up as well, its return being missing.
DoResolve(l) ==
  /\ lookup[l] = "waiting" /\ lock = None
  /\ lookup' = [lookup EXCEPT ![l] = "answered"]
  /\ answer' = [answer EXCEPT ![l] = cache[KeyOf[l]]]
  /\ UNCHANGED <<starting, record, lock, setup, resolved, cache, told, floor>>

-----------------------------------------------------------------------------
Next ==
  \/ Start \/ AccountRead \/ Fund \/ FundFails \/ FundedRead
  \/ ValidateBalance \/ BalanceUnread \/ ValidateWeight \/ ReadBalance \/ StartFails
  \/ Serve \/ PortTaken \/ Crash \/ Improve \/ Publish
  \/ \E s \in Setups :
       SetupResolving(s) \/ Lock(s) \/ Answered(s) \/ Associate(s) \/ ResolveFails(s)
  \/ \E l \in Lookups : Ask(l) \/ DoResolve(l)

\* The HTTP client has a timeout, goroutines proceed, and the readers and the writer that
\* wait for a sync.RWMutex are let in in turn.
Spec ==
  /\ Init /\ [][Next]_vars
  /\ \A s \in Setups : /\ WF_vars(Answered(s) \/ ResolveFails(s)) /\ WF_vars(Associate(s))
                       /\ SF_vars(Lock(s))
  /\ \A l \in Lookups : SF_vars(DoResolve(l))

-----------------------------------------------------------------------------
(* Properties *)

(* A process that serves has an account with tokens enough and a master key that can     *)
(* sign, unless Horizon failed just when the balance was validated: that error is        *)
(* swallowed (root.go:240-243) and takes both checks with it.  No other failing call,    *)
(* funding or restart leads past them.                                                   *)
ServesQualified == stage \in {"serving", "deaf"} /\ ~unread => account = "good"

(* A lookup never gives an address older than one that a set-up of the name had been     *)
(* confirmed with before the lookup was asked, whatever the order DNS answers in; nor    *)
(* nothing at all.  For names without a port, the others are not found.                  *)
AnswersNotOlder ==
  \A l \in Lookups : lookup[l] = "answered" /\ Trimmed[KeyOf[l]] = KeyOf[l] =>
    answer[l] >= floor[l]

(* A lookup is answered, or its process dies: the lock that a set-up holds while it asks *)
(* DNS is released on every path (resolverController.go:147-153).                        *)
LookupReturns == \A l \in Lookups : lookup[l] = "waiting" ~> lookup[l] # "waiting"

=============================================================================
