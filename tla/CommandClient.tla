---------------------------- MODULE CommandClient ----------------------------
(***************************************************************************)
(* How a paying gateway calls a remote node: node/proxy/commandClient.go   *)
(* and its commandChannelStore, with the way an answer takes to them       *)
(* (controllers/httpGatewayController.go, node/local/node.go,              *)
(* regestry/paymentManager.go).                                            *)
(*                                                                         *)
(* A command is POSTed to the Tor gateway, which is external and passes it *)
(* to the node.  The answer is the body of the POST or, if that is empty,  *)
(* a later POST of its own to /api/gateway/processResponse, which may come *)
(* more than once, before the first POST has returned, or when the command *)
(* is over.                                                                *)
(***************************************************************************)
EXTENDS Sequences, Integers, FiniteSets

CONSTANTS
  Commands,     \* commands of one client, by CommandId
  Answers,      \* POSTs to /api/gateway/processResponse
  CommandOf,    \* the command an answer is for
  Callback,     \* commands whose POST brings an empty body: their answers are POSTed
  Unreachable,  \* commands whose POST may fail, or bring a body of the Tor gateway's own
  Routed,       \* the payment manager knows the node that answers (nodesByNodeId)
  None          \* no channel, free mutex, no result

ASSUME ConstantsAssumption ==
  /\ CommandOf \in [Answers -> Callback]
  /\ Callback \subseteq Commands /\ Unreachable \subseteq Commands
  /\ Routed \in BOOLEAN
  /\ {None, "body", "error"} \cap Answers = {} /\ None \notin {"body", "error"}

VARIABLES
  call,      \* where a command's processCommand is
  result,    \* what it returns
  channel,   \* commandChannel: the channels of the open commands
  handler,   \* where the HTTP handler of an answer is
  mutex      \* the answer whose handler sleeps in a send with the store's mutex held

vars == <<call, result, channel, handler, mutex>>

Calls == {"idle", "posting", "waiting", "closing", "done"}

TypeOK ==
  /\ call \in [Commands -> Calls]
  /\ result \in [Commands -> Answers \cup {"body", "error", None}]
  /\ channel \in [Commands -> {None} \cup Seq(Answers)]
  /\ handler \in [Answers -> {"new", "sending", "accepted", "refused"}]
  /\ mutex \in Answers \cup {None}

Init ==
  /\ call = [c \in Commands |-> "idle"]
  /\ result = [c \in Commands |-> None]
  /\ channel = [c \in Commands |-> None]
  /\ handler = [a \in Answers |-> "new"]
  /\ mutex = None

-----------------------------------------------------------------------------
(* processCommand *)

CapacityOne == 1

\* make(chan []byte, 2)
Capacity == 2

Opened(c) == [channel EXCEPT ![c] = <<>>]

\* The client runs its commands one after the other (signTransactions, FinalizePayment).
Open(c) ==
  /\ call[c] = "idle" /\ mutex = None
  /\ \A d \in Commands : call[d] \in {"idle", "done"}
  /\ channel' = Opened(c)
  /\ call' = [call EXCEPT ![c] = "posting"]
  /\ UNCHANGED <<result, handler, mutex>>

\* The POST returns: with the answer, with an error, or with an empty body.
Posted(c) ==
  /\ call[c] = "posting"
  /\ \/ /\ c \notin Callback \/ c \in Unreachable
        /\ result' = [result EXCEPT ![c] = "body"]
        /\ call' = [call EXCEPT ![c] = "closing"]
     \/ /\ c \in Unreachable
        /\ result' = [result EXCEPT ![c] = "error"]
        /\ call' = [call EXCEPT ![c] = "closing"]
     \/ /\ c \in Callback
        /\ call' = [call EXCEPT ![c] = "waiting"]
        /\ UNCHANGED result
  /\ UNCHANGED <<channel, handler, mutex>>

\* What a receive from a closed channel yields.
ReceivedNil(c) == "nil"

Received(c) == Head(channel[c])

\* responseBody := <-ch
Receive(c) ==
  /\ call[c] = "waiting" /\ channel[c] # <<>>
  /\ result' = [result EXCEPT ![c] = Received(c)]
  /\ channel' = [channel EXCEPT ![c] = Tail(@)]
  /\ call' = [call EXCEPT ![c] = "closing"]
  /\ UNCHANGED <<handler, mutex>>

CloseKeeps(c) ==
  /\ call[c] = "closing" /\ mutex = None
  /\ call' = [call EXCEPT ![c] = "done"]
  /\ UNCHANGED <<result, channel, handler, mutex>>

\* The deferred close takes the channel out of the store; what it still holds is dropped.
Close(c) ==
  /\ call[c] = "closing" /\ mutex = None
  /\ channel' = [channel EXCEPT ![c] = None]
  /\ call' = [call EXCEPT ![c] = "done"]
  /\ UNCHANGED <<result, handler, mutex>>

-----------------------------------------------------------------------------
(* ProcessResponse *)

\* One channel for all commands.
LookupAnyOpen(a) ==
  IF \E c \in Commands : channel[c] # None
  THEN CHOOSE c \in Commands : channel[c] # None
  ELSE CommandOf[a]

Lookup(a) == CommandOf[a]

\* Who has received a command answers it.
Answered(a) == handler[a] = "new" /\ call[CommandOf[a]] # "idle"

\* nodesByNodeId has no entry for the node, or the store none for the command.
Refuse(a) ==
  /\ Answered(a)
  /\ Routed => mutex = None /\ channel[Lookup(a)] = None
  /\ handler' = [handler EXCEPT ![a] = "refused"]
  /\ UNCHANGED <<call, result, channel, mutex>>

Accept(a) ==
  /\ Routed /\ Answered(a) /\ mutex = None
  /\ channel[Lookup(a)] # None /\ Len(channel[Lookup(a)]) < Capacity
  /\ channel' = [channel EXCEPT ![Lookup(a)] = Append(@, a)]
  /\ handler' = [handler EXCEPT ![a] = "accepted"]
  /\ UNCHANGED <<call, result, mutex>>

\* The channel is full: the handler sleeps in the send, and the mutex with it.
Block(a) ==
  /\ Routed /\ Answered(a) /\ mutex = None
  /\ channel[Lookup(a)] # None /\ Len(channel[Lookup(a)]) >= Capacity
  /\ handler' = [handler EXCEPT ![a] = "sending"]
  /\ mutex' = a
  /\ UNCHANGED <<call, result, channel>>

Unblock(a) ==
  /\ handler[a] = "sending" /\ Len(channel[Lookup(a)]) < Capacity
  /\ channel' = [channel EXCEPT ![Lookup(a)] = Append(@, a)]
  /\ handler' = [handler EXCEPT ![a] = "accepted"]
  /\ mutex' = None
  /\ UNCHANGED <<call, result>>

Next ==
  \/ \E c \in Commands : Open(c) \/ Posted(c) \/ Receive(c) \/ Close(c)
  \/ \E a \in Answers : Refuse(a) \/ Accept(a) \/ Block(a) \/ Unblock(a)

Spec == Init /\ [][Next]_vars

\* POSTs return and goroutines that can go on do; nobody owes a command or an answer.
Fairness ==
  /\ \A c \in Commands : WF_vars(Posted(c)) /\ WF_vars(Receive(c)) /\ WF_vars(Close(c))
  /\ \A a \in Answers : WF_vars(Unblock(a))

FairSpec == Spec /\ Fairness

-----------------------------------------------------------------------------
(* Properties *)

(* A command returns an answer that was given to it: the late or repeated answer of an   *)
(* earlier command never becomes the result of the one that runs now.                    *)
OwnAnswer ==
  \A c \in Commands : result[c] \in Answers => CommandOf[result[c]] = c

\* More answers came than the channel takes beside the one that was received: one of
\* them sleeps with the mutex that close needs (commandStore.go:40-45).
Overflowed(c) ==
  /\ call[c] = "closing"
  /\ LET came == {a \in Answers : CommandOf[a] = c /\ handler[a] \in {"accepted", "sending"}}
     IN Cardinality(came) > IF result[c] \in Answers THEN 3 ELSE 2

(* Once an answer of a command has come in, the command returns, however the answers     *)
(* race the return of the POST they answer: to get stuck in close it takes a third       *)
(* answer before a POST that fails or brings a body of its own, or a fourth one.         *)
AnsweredReturns ==
  \A a \in Answers :
    (handler[a] # "new") ~> (call[CommandOf[a]] = "done" \/ Overflowed(CommandOf[a]))

(* A late answer leaves nothing behind: when a command is over, its channel is gone, and *)
(* no later answer of it is accepted.                                                    *)
OverIsOver ==
  [][\A a \in Answers :
       call[CommandOf[a]] = "done" /\ handler[a] = "new" => handler'[a] \in {"new", "refused"}]_vars

=============================================================================
