--------------------------- MODULE PaymentSessions ---------------------------
(***************************************************************************)
(* The two faces a gateway process shows to its callers:                   *)
(*                                                                         *)
(*  - ProcessPayment (node/local/node.go): a request to pay for a session  *)
(*    is checked against the table of payment managers (regestry), gets a  *)
(*    manager with the chain of nodes and the status callbacks, and is     *)
(*    run, in the handler or in a goroutine (asyncMode);                   *)
(*  - ProcessCommand: a command of another gateway's payment is decoded    *)
(*    and run in the handler.                                              *)
(*                                                                         *)
(* UnmarshalJSON (models/utilityCommand.go) decodes a command of whatever  *)
(* known type as a CreateTransactionCommand, and into a ProcessCommand,    *)
(* which has no CallbackUrl.  So the only command that is ever run here is *)
(* CreateTransaction, and the goroutine that would run a command and POST  *)
(* its reply to the CallbackUrl (node.go:518-532) is never started.        *)
(*                                                                         *)
(* They share the process: log.Fatal in a goroutine of one ends all of the *)
(* others, and the table of managers is memory only.  What a payment does  *)
(* is PaymentChain, what CreateTransaction does is LocalNode.              *)
(***************************************************************************)
EXTENDS Integers, Sequences, Functions

CONSTANTS
  Requests,      \* POSTs to /api/gateway/processPayment
  Sessions,      \* payments, by ServiceSessionId
  SessionOf,     \* the session a request is to pay
  Source,        \* address of this node
  Destination,   \* PaymentRequest.Address of a request
  Route,         \* addresses of the Route of a request, NoRoute if it is nil
  TorRoutes,     \* routes that Tor may answer with
  TorWatches,    \* whether Tor's answer has a StatusCallbackUrl
  Watched,       \* requests with a StatusCallbackUrl of their own
  Commands,      \* POSTs to /api/utility/processCommand
  Modes,         \* values of config asyncMode to start from
  Faults,        \* what may fail: "route", "payment", "status", "decode", "command"
  MaxExits,      \* bound on the process exits considered
  NoRoute, None  \* a nil Route; no manager, no answer, no outcome

ASSUME ConstantsAssumption ==
  /\ SessionOf \in [Requests -> Sessions]
  /\ Watched \subseteq Requests
  /\ {TorWatches} \cup Modes \subseteq BOOLEAN
  /\ MaxExits \in Nat
  /\ None \notin Requests /\ None \notin Int /\ None \notin {"accepted", "completed", "error"}
  /\ None \notin {"paid", "failed"} /\ None \notin {"nothing", "conflict"}

VARIABLES
  asyncMode,
  managers,       \* requestNodeManager: the request whose manager a session has
  pc,             \* where ProcessPayment, or the goroutine it started, is
  toTell,         \* status callbacks not yet called
  told,           \* status callbacks that were delivered
  callbackError,  \* requests of which a status callback failed
  outcome,        \* what paymentProcess returned
  answer,         \* what the HTTP handler of a request answered
  command,        \* where ProcessCommand is
  posted,         \* what the HTTP handler of a command answered
  exits,          \* process exits so far
  life,           \* exits when a request was registered (auxiliary)
  overtaken       \* requests that were past Has when another registered (auxiliary)

payments == <<pc, toTell, told, callbackError, outcome, answer, life, overtaken>>
calls    == <<command, posted>>
vars     == <<asyncMode, managers, payments, calls, exits>>

\* In the process: lost when it exits.
PaymentUnderway == {"checked", "made", "running", "telling"}
CommandUnderway == {"handling"}

Watchers == {"client", "tor"}

TypeOK ==
  /\ asyncMode \in BOOLEAN
  /\ managers \in [Sessions -> Requests \cup {None}]
  /\ pc \in [Requests -> PaymentUnderway \cup {"new", "refused", "over", "lost"}]
  /\ toTell \in [Requests -> Seq(Watchers)] /\ told \in [Requests -> SUBSET Watchers]
  /\ callbackError \subseteq Requests
  /\ outcome \in [Requests -> {"paid", "failed", None}]
  /\ answer \in [Requests -> {"accepted", "completed", "error", None}]
  /\ command \in [Commands -> CommandUnderway \cup {"new", "over", "lost"}]
  /\ posted \in [Commands -> {"nothing", "conflict", None}]
  /\ exits \in Nat /\ life \in [Requests -> Nat \cup {None}]
  /\ overtaken \in [Requests -> SUBSET Requests]

Init ==
  /\ asyncMode \in Modes
  /\ managers = [s \in Sessions |-> None]
  /\ pc = [r \in Requests |-> "new"]
  /\ toTell = [r \in Requests |-> <<>>] /\ told = [r \in Requests |-> {}]
  /\ callbackError = {}
  /\ outcome = [r \in Requests |-> None] /\ answer = [r \in Requests |-> None]
  /\ command = [c \in Commands |-> "new"] /\ posted = [c \in Commands |-> None]
  /\ exits = 0
  /\ life = [r \in Requests |-> None] /\ overtaken = [r \in Requests |-> {}]

-----------------------------------------------------------------------------
(* The process *)

\* log.Fatal: the table and everything under way are gone; systemd starts the next process.
Exit ==
  /\ exits < MaxExits
  /\ exits' = exits + 1
  /\ managers' = [s \in Sessions |-> None]
  /\ pc' = [r \in Requests |-> IF pc[r] \in PaymentUnderway THEN "lost" ELSE pc[r]]
  /\ command' = [c \in Commands |-> IF command[c] \in CommandUnderway THEN "lost" ELSE command[c]]
  /\ UNCHANGED <<asyncMode, toTell, told, callbackError, outcome, answer, posted, life, overtaken>>

-----------------------------------------------------------------------------
(* ProcessPayment *)

Has(s) == managers[s] # None

\* "duplicate session id", a node twice in the chain, no route: HTTP 400.
Refuse(r) ==
  /\ pc' = [pc EXCEPT ![r] = "refused"]
  /\ answer' = [answer EXCEPT ![r] = "error"]
  /\ UNCHANGED <<asyncMode, managers, toTell, told, callbackError, outcome, calls, exits,
                 life, overtaken>>

CheckTrusts(r) ==
  /\ pc[r] = "new"
  /\ pc' = [pc EXCEPT ![r] = "checked"]
  /\ UNCHANGED <<asyncMode, managers, toTell, told, callbackError, outcome, answer, calls,
                 exits, life, overtaken>>

Check(r) ==
  /\ pc[r] = "new"
  /\ IF Has(SessionOf[r])
     THEN Refuse(r)
     ELSE /\ pc' = [pc EXCEPT ![r] = "checked"]
          /\ UNCHANGED <<asyncMode, managers, toTell, told, callbackError, outcome, answer,
                         calls, exits, life, overtaken>>

\* AddSourceNode, AddChainNode, AddDestinationNode: an address may come once.
Chain(r, route) == <<Source>> \o route \o <<Destination[r]>>

OwnWatcher(r) == IF r \in Watched THEN <<"client">> ELSE <<>>

\* New: the chain of nodes and the status callbacks, or an error for the caller.
Make(r, route, watchers) ==
  IF IsInjective(Chain(r, route))
  THEN /\ pc' = [pc EXCEPT ![r] = "made"]
       /\ toTell' = [toTell EXCEPT ![r] = watchers]
       /\ UNCHANGED <<asyncMode, managers, told, callbackError, outcome, answer, calls, exits,
                      life, overtaken>>
  ELSE Refuse(r)

NewWithRoute(r) ==
  /\ pc[r] = "checked" /\ Route[r] # NoRoute
  /\ Make(r, Route[r], OwnWatcher(r))

\* No HTTP status is looked at: any JSON object is a route, if only an empty one.
GetRoute == TorRoutes \cup (IF "route" \in Faults THEN {NoRoute} ELSE {})

TorWatcher == IF TorWatches THEN <<"tor">> ELSE <<>>

NewByTor(r) ==
  /\ pc[r] = "checked" /\ Route[r] = NoRoute
  /\ \E route \in GetRoute :
       IF route = NoRoute THEN Refuse(r) ELSE Make(r, route, OwnWatcher(r) \o TorWatcher)

RegisterLate(r) ==
  /\ pc[r] = "made"
  /\ pc' = [pc EXCEPT ![r] = "running"]
  /\ life' = [life EXCEPT ![r] = exits]
  /\ UNCHANGED <<asyncMode, managers, toTell, told, callbackError, outcome, answer, calls,
                 exits, overtaken>>

\* Set puts the manager in the table, whatever it holds by now, and Run starts.
Register(r) ==
  /\ pc[r] = "made"
  /\ managers' = [managers EXCEPT ![SessionOf[r]] = r]
  /\ pc' = [pc EXCEPT ![r] = "running"]
  /\ life' = [life EXCEPT ![r] = exits]
  /\ overtaken' = [overtaken EXCEPT ![r] =
       {u \in Requests \ {r} : SessionOf[u] = SessionOf[r] /\ pc[u] \in {"checked", "made"}}]
  /\ UNCHANGED <<asyncMode, toTell, told, callbackError, outcome, answer, calls, exits>>

\* Asynchronous: 201 with the session id, as soon as the goroutine is started.
Accept(r) ==
  /\ asyncMode /\ pc[r] \in {"running", "telling", "over"} /\ answer[r] = None
  /\ answer' = [answer EXCEPT ![r] = "accepted"]
  /\ UNCHANGED <<asyncMode, managers, pc, toTell, told, callbackError, outcome, calls, exits,
                 life, overtaken>>

\* paymentProcess returns: initiated, verified and finalized, or an error from one of them.
Pay(r, result) ==
  /\ pc[r] = "running"
  /\ result = "failed" => "payment" \in Faults
  /\ outcome' = [outcome EXCEPT ![r] = result]
  /\ pc' = [pc EXCEPT ![r] = "telling"]
  /\ UNCHANGED <<asyncMode, managers, toTell, told, callbackError, answer, calls, exits, life,
                 overtaken>>

-----------------------------------------------------------------------------
(* Status callbacks *)

\* HttpPostWithoutResponseContext: what the callback answers does not matter.
Tell(r) ==
  /\ pc[r] = "telling" /\ toTell[r] # <<>>
  /\ told' = [told EXCEPT ![r] = @ \cup {Head(toTell[r])}]
  /\ toTell' = [toTell EXCEPT ![r] = Tail(@)]
  /\ UNCHANGED <<asyncMode, managers, pc, callbackError, outcome, answer, calls, exits, life,
                 overtaken>>

TellFailsDropsRest(r) ==
  /\ pc[r] = "telling" /\ toTell[r] # <<>> /\ "status" \in Faults
  /\ toTell' = [toTell EXCEPT ![r] = <<>>]
  /\ UNCHANGED <<asyncMode, managers, pc, told, callbackError, outcome, answer, calls, exits,
                 life, overtaken>>

\* The POST fails; the other callbacks are still called.
TellFails(r) ==
  /\ pc[r] = "telling" /\ toTell[r] # <<>> /\ "status" \in Faults
  /\ toTell' = [toTell EXCEPT ![r] = Tail(@)]
  /\ callbackError' = callbackError \cup {r}
  /\ UNCHANGED <<asyncMode, managers, pc, told, outcome, answer, calls, exits, life, overtaken>>

FinalAnswerOutcome(r) == IF asyncMode THEN answer[r] ELSE outcome[r]

\* The caller of a synchronous payment hears of failed callbacks, not of a failed payment.
FinalAnswer(r) ==
  IF asyncMode THEN answer[r] ELSE IF r \in callbackError THEN "error" ELSE "completed"

\* runSync returns; the manager stays in the table for good.
Finish(r) ==
  /\ pc[r] = "telling" /\ toTell[r] = <<>>
  /\ ~(asyncMode /\ r \in callbackError)
  /\ pc' = [pc EXCEPT ![r] = "over"]
  /\ answer' = [answer EXCEPT ![r] = FinalAnswer(r)]
  /\ UNCHANGED <<asyncMode, managers, toTell, told, callbackError, outcome, calls, exits, life,
                 overtaken>>

\* In a goroutine the error of a status callback is a log.Fatalf.
FinishFatally(r) ==
  /\ pc[r] = "telling" /\ toTell[r] = <<>>
  /\ asyncMode /\ r \in callbackError
  /\ Exit

-----------------------------------------------------------------------------
(* ProcessCommand *)

\* A request or a CommandBody that is no JSON, or a type that is not known: log.Fatal.
DecodeFails(c) ==
  /\ command[c] = "new" /\ "decode" \in Faults
  /\ Exit

\* Whatever its type, the command is now a CreateTransactionCommand without a CallbackUrl.
Receive(c) ==
  /\ command[c] = "new"
  /\ command' = [command EXCEPT ![c] = "handling"]
  /\ UNCHANGED <<asyncMode, managers, payments, posted, exits>>

\* CreateTransaction returns; its reply is wrapped and never written.
Handle(c) ==
  /\ command[c] = "handling"
  /\ command' = [command EXCEPT ![c] = "over"]
  /\ posted' = [posted EXCEPT ![c] = "nothing"]
  /\ UNCHANGED <<asyncMode, managers, payments, exits>>

\* CreateTransaction fails: HTTP 409.
HandleFails(c) ==
  /\ command[c] = "handling" /\ "command" \in Faults
  /\ command' = [command EXCEPT ![c] = "over"]
  /\ posted' = [posted EXCEPT ![c] = "conflict"]
  /\ UNCHANGED <<asyncMode, managers, payments, exits>>

-----------------------------------------------------------------------------
Payment(r) ==
  \/ Check(r) \/ NewWithRoute(r) \/ NewByTor(r) \/ Register(r) \/ Accept(r)
  \/ \E result \in {"paid", "failed"} : Pay(r, result)
  \/ Tell(r) \/ TellFails(r) \/ Finish(r) \/ FinishFatally(r)

Commanded(c) == DecodeFails(c) \/ Receive(c) \/ Handle(c) \/ HandleFails(c)

Next ==
  \/ \E r \in Requests : Payment(r)
  \/ \E c \in Commands : Commanded(c)

Spec == Init /\ [][Next]_vars

(***************************************************************************)
(* A started handler or goroutine goes on: calls return.  Nobody owes a    *)
(* request or a command.  An exit that the bound forbids owes nothing.     *)
(***************************************************************************)
Fairness ==
  /\ \A r \in Requests :
       /\ WF_vars(Accept(r)) /\ WF_vars(\E result \in {"paid", "failed"} : Pay(r, result))
       /\ WF_vars(Tell(r) \/ TellFails(r)) /\ WF_vars(Finish(r))
  /\ \A c \in Commands : WF_vars(Handle(c) \/ HandleFails(c))

FairSpec == Spec /\ Fairness

-----------------------------------------------------------------------------
(* Properties *)

\* Two requests passed Has before either had registered.
Raced(r, u) == u \in overtaken[r] \/ r \in overtaken[u]

(* "duplicate session id" (node/local/node.go:467): a second payment for one session is  *)
(* run only when two requests raced from Has to Set, or in another process: the table    *)
(* keeps a session after its payment is over, whether it was paid or not, so that a      *)
(* client that resends after an error is refused.                                        *)
SecondRunOnlyByRace ==
  \A r, u \in Requests :
    r # u /\ SessionOf[r] = SessionOf[u] /\ life[r] # None /\ life[r] = life[u] => Raced(r, u)

(* The answers to a payment's commands find the manager that waits for them:             *)
(* ProcessResponse looks it up by session, which is the running request's own entry      *)
(* unless a racing request has overwritten it; it is there before the payment starts.    *)
AnswersFindTheRun ==
  \A r \in Requests :
    pc[r] \in {"running", "telling"} =>
      LET m == managers[SessionOf[r]] IN m = r \/ (m # None /\ Raced(r, m))

(* Who was answered 201 is told how the payment ended, unless the process has exited or  *)
(* the callback itself failed: the status goroutine does not end before.                 *)
AcceptedIsTold ==
  \A r \in Requests :
    answer[r] = "accepted" ~>
      \/ pc[r] = "over" /\ (r \in Watched => "client" \in told[r])
      \/ pc[r] = "lost" \/ r \in callbackError

=============================================================================
