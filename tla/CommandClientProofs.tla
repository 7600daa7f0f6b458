-------------------------- MODULE CommandClientProofs --------------------------
(***************************************************************************)
(* Proofs about CommandClient for any number of commands and answers, any  *)
(* number of repetitions, whether or not answers are routed to the client: *)
(* an answer never becomes the result of another command, and none is      *)
(* accepted for a command that is over.                                    *)
(***************************************************************************)
EXTENDS CommandClient, TLAPS

Pending == {"posting", "waiting", "closing"}

\* A command has a channel from the start of its POST to its close.
OpenWhileRunning ==
  \A c \in Commands :
    /\ call[c] \in {"idle", "done"} => channel[c] = None
    /\ call[c] \in Pending => channel[c] \in Seq(Answers)

\* A handler that sleeps in a send holds the mutex, so the channel it sends to stays open.
SenderHoldsMutex ==
  \A a \in Answers :
    handler[a] = "sending" => mutex = a /\ call[CommandOf[a]] \in Pending

\* A channel holds answers of its own command only.
OwnChannel ==
  \A c \in Commands : call[c] \in Pending =>
    \A i \in 1 .. Len(channel[c]) : CommandOf[channel[c][i]] = c

IInv == TypeOK /\ OpenWhileRunning /\ SenderHoldsMutex /\ OwnChannel /\ OwnAnswer

-----------------------------------------------------------------------------

LEMMA InitInductive == Init => IInv
<1> SUFFICES ASSUME Init PROVE IInv
  OBVIOUS
<1>1. TypeOK
  BY DEF Init, TypeOK, Calls
<1>2. OpenWhileRunning /\ SenderHoldsMutex /\ OwnChannel
  BY DEF Init, OpenWhileRunning, SenderHoldsMutex, OwnChannel, Pending
<1>3. OwnAnswer
  BY ConstantsAssumption DEF Init, OwnAnswer
<1> QED  BY <1>1, <1>2, <1>3 DEF IInv

(* What a send does to a channel: it stays a sequence of the command's own answers. *)
LEMMA SendKeepsOwn ==
  ASSUME IInv, NEW a \in Answers,
         call[CommandOf[a]] \in Pending
  PROVE  /\ CommandOf[a] \in Commands
         /\ Append(channel[CommandOf[a]], a) \in Seq(Answers)
         /\ \A i \in 1 .. Len(Append(channel[CommandOf[a]], a)) :
              CommandOf[Append(channel[CommandOf[a]], a)[i]] = CommandOf[a]
<1>1. CommandOf[a] \in Commands
  BY ConstantsAssumption
<1>2. channel[CommandOf[a]] \in Seq(Answers)
  BY <1>1 DEF IInv, OpenWhileRunning
<1>3. \A i \in 1 .. Len(channel[CommandOf[a]]) : CommandOf[channel[CommandOf[a]][i]] = CommandOf[a]
  BY <1>1 DEF IInv, OwnChannel
<1> QED  BY <1>1, <1>2, <1>3

(* A send, by a handler that found room or by one that waited for it, keeps the invariant. *)
LEMMA SendStep ==
  ASSUME IInv, NEW a \in Answers, call[CommandOf[a]] \in Pending,
         channel' = [channel EXCEPT ![CommandOf[a]] = Append(@, a)],
         handler' = [handler EXCEPT ![a] = "accepted"],
         call' = call, result' = result,
         mutex' \in {mutex, None}, mutex = None \/ mutex = a
  PROVE  IInv'
<1> DEFINE d == CommandOf[a]
<1>1. /\ d \in Commands
      /\ Append(channel[d], a) \in Seq(Answers)
      /\ \A i \in 1 .. Len(Append(channel[d], a)) : CommandOf[Append(channel[d], a)[i]] = d
  BY SendKeepsOwn
<1>2. \A c \in Commands \ {d} : channel'[c] = channel[c]
  OBVIOUS
<1>3. channel'[d] = Append(channel[d], a)
  BY <1>1 DEF IInv, TypeOK
<1> HIDE DEF d
<1>4. TypeOK'
  <2>1. channel' \in [Commands -> {None} \cup Seq(Answers)]
    BY <1>1 DEF IInv, TypeOK, d
  <2> QED  BY <2>1 DEF IInv, TypeOK
<1>5. OpenWhileRunning'
  BY <1>1, <1>2, <1>3 DEF IInv, OpenWhileRunning, d, Pending
<1>6. OwnChannel'
  BY <1>1, <1>2, <1>3 DEF IInv, OwnChannel
<1>7. SenderHoldsMutex'
  BY DEF IInv, TypeOK, SenderHoldsMutex
<1>8. OwnAnswer'
  BY DEF IInv, OwnAnswer
<1> QED  BY <1>4, <1>5, <1>6, <1>7, <1>8 DEF IInv

LEMMA Step == IInv /\ [Next]_vars => IInv'
<1> SUFFICES ASSUME IInv, [Next]_vars PROVE IInv'
  OBVIOUS
<1> USE DEF Pending
<1>1. ASSUME NEW c \in Commands, Open(c) PROVE IInv'
  <2>1. /\ channel'[c] = <<>> /\ call'[c] = "posting"
        /\ \A d \in Commands \ {c} : channel'[d] = channel[d] /\ call'[d] = call[d]
        /\ UNCHANGED <<result, handler, mutex>>
    BY <1>1 DEF Open, Opened, IInv, TypeOK
  <2>2. TypeOK'
    BY <1>1 DEF Open, Opened, IInv, TypeOK, Calls
  <2>7. <<>> \in Seq(Answers)
    OBVIOUS
  <2>3. OpenWhileRunning'
    BY <2>1, <2>7 DEF IInv, OpenWhileRunning
  <2>4. OwnChannel'
    BY <2>1 DEF IInv, OwnChannel
  <2>5. SenderHoldsMutex'
    BY <1>1, <2>1, ConstantsAssumption DEF Open, Opened, IInv, SenderHoldsMutex
  <2>6. OwnAnswer'
    BY <2>1 DEF IInv, OwnAnswer
  <2> QED  BY <2>2, <2>3, <2>4, <2>5, <2>6 DEF IInv
<1>2. ASSUME NEW c \in Commands, Posted(c) PROVE IInv'
  <2>1. /\ UNCHANGED <<channel, handler, mutex>>
        /\ call[c] = "posting"
        /\ call' = [call EXCEPT ![c] = "closing"] \/ call' = [call EXCEPT ![c] = "waiting"]
        /\ \/ result' = result
           \/ result' = [result EXCEPT ![c] = "body"]
           \/ result' = [result EXCEPT ![c] = "error"]
    BY <1>2 DEF Posted
  <2>2. call'[c] \in {"closing", "waiting"} /\ \A d \in Commands \ {c} : call'[d] = call[d]
    BY <2>1 DEF IInv, TypeOK
  <2>3. TypeOK'
    BY <2>1 DEF IInv, TypeOK, Calls
  <2>4. OpenWhileRunning' /\ OwnChannel'
    BY <2>1, <2>2 DEF IInv, OpenWhileRunning, OwnChannel
  <2>5. SenderHoldsMutex'
    BY <2>1, <2>2, ConstantsAssumption DEF IInv, SenderHoldsMutex
  <2>6. OwnAnswer'
    <3>1. \A d \in Commands : result'[d] = result[d] \/ result'[d] \notin Answers
      BY <2>1, ConstantsAssumption DEF IInv, TypeOK
    <3> QED  BY <3>1 DEF IInv, OwnAnswer
  <2> QED  BY <2>3, <2>4, <2>5, <2>6 DEF IInv
<1>3. ASSUME NEW c \in Commands, Receive(c) PROVE IInv'
  <2>1. /\ UNCHANGED <<handler, mutex>>
        /\ call[c] = "waiting" /\ channel[c] # <<>>
        /\ call' = [call EXCEPT ![c] = "closing"]
        /\ result' = [result EXCEPT ![c] = Head(channel[c])]
        /\ channel' = [channel EXCEPT ![c] = Tail(channel[c])]
    BY <1>3 DEF Receive, Received
  <2>2. channel[c] \in Seq(Answers)
    BY <2>1 DEF IInv, OpenWhileRunning
  <2>3. /\ Head(channel[c]) \in Answers /\ Head(channel[c]) = channel[c][1] /\ 1 \in 1 .. Len(channel[c])
        /\ Tail(channel[c]) \in Seq(Answers)
        /\ \A i \in 1 .. Len(Tail(channel[c])) :
             i + 1 \in 1 .. Len(channel[c]) /\ Tail(channel[c])[i] = channel[c][i + 1]
    BY <2>1, <2>2
  <2>4. \A i \in 1 .. Len(channel[c]) : CommandOf[channel[c][i]] = c
    BY <2>1 DEF IInv, OwnChannel
  <2>5. /\ channel'[c] = Tail(channel[c]) /\ call'[c] = "closing" /\ result'[c] = Head(channel[c])
        /\ \A d \in Commands \ {c} :
             channel'[d] = channel[d] /\ call'[d] = call[d] /\ result'[d] = result[d]
    BY <2>1 DEF IInv, TypeOK
  <2>6. TypeOK'
    BY <2>1, <2>3 DEF IInv, TypeOK, Calls
  <2>7. OpenWhileRunning'
    BY <2>3, <2>5 DEF IInv, OpenWhileRunning
  <2>11. \A i \in 1 .. Len(channel'[c]) : CommandOf[channel'[c][i]] = c
    BY <2>3, <2>4, <2>5
  <2>8. OwnChannel'
    BY <2>5, <2>11 DEF IInv, OwnChannel
  <2>9. SenderHoldsMutex'
    BY <2>1, <2>5, ConstantsAssumption DEF IInv, SenderHoldsMutex
  <2>10. OwnAnswer'
    BY <2>3, <2>4, <2>5 DEF IInv, OwnAnswer
  <2> QED  BY <2>6, <2>7, <2>8, <2>9, <2>10 DEF IInv
<1>4. ASSUME NEW c \in Commands, Close(c) PROVE IInv'
  <2>1. /\ channel'[c] = None /\ call'[c] = "done"
        /\ \A d \in Commands \ {c} : channel'[d] = channel[d] /\ call'[d] = call[d]
        /\ UNCHANGED <<result, handler, mutex>> /\ mutex = None
    BY <1>4 DEF Close, IInv, TypeOK
  <2>2. TypeOK'
    BY <1>4 DEF Close, IInv, TypeOK, Calls
  <2>3. OpenWhileRunning' /\ OwnChannel'
    BY <2>1 DEF IInv, OpenWhileRunning, OwnChannel
  <2>4. SenderHoldsMutex'
    BY <2>1, ConstantsAssumption DEF IInv, SenderHoldsMutex
  <2>5. OwnAnswer'
    BY <2>1 DEF IInv, OwnAnswer
  <2> QED  BY <2>2, <2>3, <2>4, <2>5 DEF IInv
<1>5. ASSUME NEW a \in Answers, Refuse(a) PROVE IInv'
  BY <1>5 DEF Refuse, IInv, TypeOK, OpenWhileRunning, SenderHoldsMutex, OwnChannel, OwnAnswer
<1>6. ASSUME NEW a \in Answers, Accept(a) PROVE IInv'
  <2>1. call[CommandOf[a]] \in Pending
    BY <1>6, ConstantsAssumption DEF Accept, Lookup, IInv, TypeOK, OpenWhileRunning, Calls
  <2> QED  BY <1>6, <2>1, SendStep DEF Accept, Lookup
<1>7. ASSUME NEW a \in Answers, Block(a) PROVE IInv'
  <2>1. call[CommandOf[a]] \in Pending
    BY <1>7, ConstantsAssumption DEF Block, Lookup, IInv, TypeOK, OpenWhileRunning, Calls
  <2>2. \A b \in Answers : handler[b] # "sending"
    BY <1>7, ConstantsAssumption DEF Block, IInv, SenderHoldsMutex
  <2>3. SenderHoldsMutex'
    BY <1>7, <2>1, <2>2 DEF Block, IInv, TypeOK, SenderHoldsMutex
  <2>4. TypeOK' /\ OpenWhileRunning' /\ OwnChannel' /\ OwnAnswer'
    BY <1>7 DEF Block, IInv, TypeOK, OpenWhileRunning, OwnChannel, OwnAnswer
  <2> QED  BY <2>3, <2>4 DEF IInv
<1>8. ASSUME NEW a \in Answers, Unblock(a) PROVE IInv'
  <2>1. call[CommandOf[a]] \in Pending /\ mutex = a
    BY <1>8 DEF Unblock, IInv, SenderHoldsMutex
  <2> QED  BY <1>8, <2>1, SendStep DEF Unblock, Lookup
<1>9. CASE UNCHANGED vars
  BY <1>9 DEF vars, IInv, TypeOK, OpenWhileRunning, SenderHoldsMutex, OwnChannel, OwnAnswer
<1> QED
  BY <1>1, <1>2, <1>3, <1>4, <1>5, <1>6, <1>7, <1>8, <1>9 DEF Next

LEMMA Inductive == Spec => []IInv
BY InitInductive, Step, PTL DEF Spec

-----------------------------------------------------------------------------

(* Type correctness: a channel is absent or a sequence of answers. *)
THEOREM TypeCorrect == Spec => []TypeOK
<1>1. IInv => TypeOK
  BY DEF IInv
<1> QED  BY Inductive, <1>1, PTL

(* However answers are repeated, delayed and reordered, a command returns only an answer *)
(* that was given to it.                                                                 *)
THEOREM AnswersNeverCross == Spec => []OwnAnswer
<1>1. IInv => OwnAnswer
  BY DEF IInv
<1> QED  BY Inductive, <1>1, PTL

(* No answer that comes in after its command is over is accepted. *)
THEOREM LateAnswersRefused == Spec => OverIsOver
<1>1. IInv /\ [Next]_vars =>
        [\A a \in Answers :
           call[CommandOf[a]] = "done" /\ handler[a] = "new" => handler'[a] \in {"new", "refused"}]_vars
  <2> SUFFICES ASSUME IInv, [Next]_vars,
                      NEW a \in Answers, call[CommandOf[a]] = "done", handler[a] = "new"
               PROVE  handler'[a] \in {"new", "refused"}
    OBVIOUS
  <2>1. channel[CommandOf[a]] = None
    BY ConstantsAssumption DEF IInv, OpenWhileRunning
  <2>2. ASSUME NEW c \in Commands, Open(c) \/ Posted(c) \/ Receive(c) \/ Close(c)
        PROVE  handler'[a] = "new"
    BY <2>2 DEF Open, Opened, Posted, Receive, Close
  <2>3. ASSUME NEW b \in Answers, Refuse(b) \/ Accept(b) \/ Block(b) \/ Unblock(b)
        PROVE  handler'[a] \in {"new", "refused"}
    <3>1. CASE b = a
      BY <2>1, <2>3, <3>1 DEF Refuse, Accept, Block, Unblock, Lookup, IInv, TypeOK
    <3>2. CASE b # a
      BY <2>3, <3>2 DEF Refuse, Accept, Block, Unblock, IInv, TypeOK
    <3> QED  BY <3>1, <3>2
  <2>4. CASE UNCHANGED vars
    BY <2>4 DEF vars
  <2> QED  BY <2>2, <2>3, <2>4 DEF Next
<1> QED  BY Inductive, <1>1, PTL DEF Spec, OverIsOver

=============================================================================
