----------------------------- MODULE DebtManager -----------------------------
(***************************************************************************)
(* Peers that charge each other for the blocks they exchange               *)
(* (paymentmanager).  Each peer has one event loop that reads a bounded    *)
(* channel; it counts the bytes sent to and received from every other      *)
(* peer, asks for a payment when enough were sent, and passes the          *)
(* messages of the payments between the other peer and its own gateway.    *)
(*                                                                         *)
(* A request for payment, its session and its messages are named by the    *)
(* block that made the seller ask.  A peer's gateway, which answers POSTs  *)
(* and calls the peer's callback server, and the network, which keeps the  *)
(* order between two peers, are external.                                  *)
(***************************************************************************)
EXTENDS Commodity, Sequences, FiniteSetsExt

CONSTANTS
  Peers, Blocks,
  SenderOf, ReceiverOf, SizeOf,  \* of a block
  Threshold,     \* requestPaymentAfterBytes
  Capacity,      \* of the channel paymentMessages
  AsyncMode,     \* of the gateways: a payment is accepted before it runs
  Faults,        \* what may fail: "payment", "gateway"
  None           \* no payment awaited; no peer; the empty session id

ASSUME PeersAssumption ==
  /\ SenderOf \in [Blocks -> Peers] /\ ReceiverOf \in [Blocks -> Peers]
  /\ SizeOf \in [Blocks -> Nat]
  /\ Threshold \in Nat \ {0} /\ Capacity \in Nat \ {0} /\ AsyncMode \in BOOLEAN
  /\ None \notin Blocks /\ None \notin Peers

VARIABLES
  life,         \* of a peer's process
  block,        \* what has become of a block at its sender
  wire,         \* wire[p][q]: what p has sent to q
  queue,        \* paymentMessages
  awaiting,     \* the request whose ProcessPayment POST the loop waits for
  requested, transferred, received,  \* debtRegistry: of p, about q
  amount,       \* bytes that a request is for
  openSessions, \* the peer that a session's status goes to
  payment,      \* of a request, at the buyer's gateway
  command,      \* of a payment: one command stands for the exchange with the seller
  told,         \* payments whose status callback was called
  dropped,      \* of those, the ones whose session was unknown
  settled       \* of those, the ones taken off the seller's books

debts   == <<requested, transferred, received, amount>>
gateway == <<payment, command, told, dropped>>
vars    == <<life, block, wire, queue, awaiting, debts, openSessions, gateway, settled>>

\* What peers send each other, and "require" that a peer tells itself.
Message == [kind : {"require", "block", "initiate", "command", "reply", "paid", "failed"},
            of : Blocks]

\* A request is made by the block's sender and paid by its receiver.
Seller(b) == SenderOf[b]
Buyer(b) == ReceiverOf[b]

TypeOK ==
  /\ life \in [Peers -> {"up", "left", "rejected"}]
  /\ block \in [Blocks -> {"held", "sent", "billed"}]
  /\ wire \in [Peers -> [Peers -> Seq(Message)]]
  /\ queue \in [Peers -> Seq(Message)] /\ \A p \in Peers : Len(queue[p]) <= Capacity
  /\ awaiting \in [Peers -> Blocks \cup {None}]
  /\ {requested, transferred, received} \subseteq [Peers -> [Peers -> 0..Word - 1]]
  /\ amount \in [Blocks -> 0..Word - 1]
  /\ openSessions \in [Peers -> [Blocks \cup {None} -> Peers \cup {None}]]
  /\ payment \in [Blocks -> {"none", "refused", "running", "paid", "failed"}]
  /\ command \in [Blocks -> {"none", "asked", "posted", "answered", "done"}]
  /\ dropped \subseteq told /\ told \subseteq Blocks /\ settled \subseteq Blocks

Init ==
  /\ life = [p \in Peers |-> "up"]
  /\ block = [b \in Blocks |-> "held"]
  /\ wire = [p \in Peers |-> [q \in Peers |-> <<>>]]
  /\ queue = [p \in Peers |-> <<>>]
  /\ awaiting = [p \in Peers |-> None]
  /\ requested = [p \in Peers |-> [q \in Peers |-> 0]]
  /\ transferred = requested /\ received = requested
  /\ amount = [b \in Blocks |-> 0]
  /\ openSessions = [p \in Peers |-> [b \in Blocks \cup {None} |-> None]]
  /\ payment = [b \in Blocks |-> "none"] /\ command = [b \in Blocks |-> "none"]
  /\ told = {} /\ dropped = {} /\ settled = {}

\* SendPaymentDataMessage of the peer handler.
Send(p, q, kind, b) ==
  wire' = [wire EXCEPT ![p][q] = Append(@, [kind |-> kind, of |-> b])]

-----------------------------------------------------------------------------
(* Into the channel *)

SendBlock(b) ==
  /\ block[b] = "held" /\ life[Seller(b)] = "up"
  /\ block' = [block EXCEPT ![b] = "sent"]
  /\ Send(Seller(b), Buyer(b), "block", b)
  /\ UNCHANGED <<life, queue, awaiting, debts, openSessions, gateway, settled>>

PutUnbounded(p, m) ==
  /\ life[p] = "up"
  /\ queue' = [queue EXCEPT ![p] = Append(@, m)]

\* A full channel blocks the caller.
Put(p, m) ==
  /\ life[p] = "up" /\ Len(queue[p]) < Capacity
  /\ queue' = [queue EXCEPT ![p] = Append(@, m)]

RequirePayment(b) ==
  /\ block[b] = "sent"
  /\ Put(Seller(b), [kind |-> "require", of |-> b])
  /\ block' = [block EXCEPT ![b] = "billed"]
  /\ UNCHANGED <<life, wire, awaiting, debts, openSessions, gateway, settled>>

\* RegisterReceivedBytes of a block, ReceivePaymentDataMessage of the rest.
Receive(p, q) ==
  /\ wire[p][q] # <<>>
  /\ Put(q, Head(wire[p][q]))
  /\ wire' = [wire EXCEPT ![p][q] = Tail(@)]
  /\ UNCHANGED <<life, block, awaiting, debts, openSessions, gateway, settled>>

-----------------------------------------------------------------------------
(* The event loop *)

\* The loop reads its next message, unless it is inside a POST.
Turn(p, kinds) ==
  /\ life[p] = "up" /\ awaiting[p] = None
  /\ queue[p] # <<>> /\ Head(queue[p]).kind \in kinds

Taken(p) == Head(queue[p]).of

Take(p) == queue' = [queue EXCEPT ![p] = Tail(@)]

HandleReceived(p) ==
  LET b == Taken(p) IN
  /\ Turn(p, {"block"}) /\ Take(p)
  /\ received' = [received EXCEPT ![p][Seller(b)] = (@ + SizeOf[b]) % Word]
  /\ UNCHANGED <<life, block, wire, awaiting, requested, transferred, amount, openSessions,
                 gateway, settled>>

HandleRequireKeeps(p) ==
  LET b == Taken(p)
      bytes == (transferred[p][Buyer(b)] + SizeOf[b]) % Word
  IN
  /\ Turn(p, {"require"}) /\ Take(p)
  /\ transferred' = [transferred EXCEPT ![p][Buyer(b)] = bytes]
  /\ IF bytes >= Threshold
     THEN /\ Send(p, Buyer(b), "initiate", b)
          /\ amount' = [amount EXCEPT ![b] = bytes]
          /\ requested' = [requested EXCEPT ![p][Buyer(b)] = (@ + bytes) % Word]
     ELSE UNCHANGED <<wire, amount, requested>>
  /\ UNCHANGED <<life, block, awaiting, received, openSessions, gateway, settled>>

HandleRequireThreshold(p) ==
  LET b == Taken(p)
      bytes == (transferred[p][Buyer(b)] + SizeOf[b]) % Word
  IN
  /\ Turn(p, {"require"}) /\ Take(p)
  /\ IF bytes >= Threshold
     THEN /\ Send(p, Buyer(b), "initiate", b)
          /\ amount' = [amount EXCEPT ![b] = Threshold]
          /\ requested' = [requested EXCEPT ![p][Buyer(b)] = (@ + bytes) % Word]
          /\ transferred' = [transferred EXCEPT ![p][Buyer(b)] = 0]
     ELSE /\ transferred' = [transferred EXCEPT ![p][Buyer(b)] = bytes]
          /\ UNCHANGED <<wire, amount, requested>>
  /\ UNCHANGED <<life, block, awaiting, received, openSessions, gateway, settled>>

\* Once enough was transferred, a payment is requested for all of it.
HandleRequire(p) ==
  LET b == Taken(p)
      bytes == (transferred[p][Buyer(b)] + SizeOf[b]) % Word
  IN
  /\ Turn(p, {"require"}) /\ Take(p)
  /\ IF bytes >= Threshold
     THEN /\ Send(p, Buyer(b), "initiate", b)
          /\ amount' = [amount EXCEPT ![b] = bytes]
          /\ requested' = [requested EXCEPT ![p][Buyer(b)] = (@ + bytes) % Word]
          /\ transferred' = [transferred EXCEPT ![p][Buyer(b)] = 0]
     ELSE /\ transferred' = [transferred EXCEPT ![p][Buyer(b)] = bytes]
          /\ UNCHANGED <<wire, amount, requested>>
  /\ UNCHANGED <<life, block, awaiting, received, openSessions, gateway, settled>>

Price(b) == Calculate(amount[b])

\* The bytes a buyer takes a request to be for.
Quantity(b) == ReverseCalculate(Price(b))

\* ValidatePayment: a POST that fails is logged, and the quantity is 0.
Validated(b) == {Quantity(b)} \cup (IF "gateway" \in Faults THEN {0} ELSE {})

\* log.Fatalf("invalid quantity requested"), or the loop waits for the gateway's answer.
HandleInitiate(p) ==
  LET b == Taken(p) IN
  /\ Turn(p, {"initiate"}) /\ Take(p)
  /\ \E quantity \in Validated(b) :
       IF quantity > received[p][Seller(b)]
       THEN life' = [life EXCEPT ![p] = "rejected"] /\ UNCHANGED awaiting
       ELSE awaiting' = [awaiting EXCEPT ![p] = b] /\ UNCHANGED life
  /\ UNCHANGED <<block, wire, debts, openSessions, gateway, settled>>

OpenSession(p, id, origin) == openSessions' = [openSessions EXCEPT ![p][id] = origin]

PaymentPostedBlindly(p) ==
  LET b == awaiting[p] IN
  /\ life[p] = "up" /\ b # None
  /\ payment[b] # "none" /\ (AsyncMode \/ payment[b] = "refused" \/ b \in told)
  /\ OpenSession(p, None, Seller(b))
  /\ awaiting' = [awaiting EXCEPT ![p] = None]
  /\ UNCHANGED <<life, block, wire, queue, debts, gateway, settled>>

\* The answer opens its session, whose id is empty if the POST has failed.
PaymentPosted(p) ==
  LET b == awaiting[p] IN
  /\ life[p] = "up" /\ b # None
  /\ payment[b] # "none" /\ (AsyncMode \/ payment[b] = "refused" \/ b \in told)
  /\ OpenSession(p, IF payment[b] = "refused" THEN None ELSE b, Seller(b))
  /\ awaiting' = [awaiting EXCEPT ![p] = None]
  /\ UNCHANGED <<life, block, wire, queue, debts, gateway, settled>>

\* The command goes to the seller's gateway.
HandleCommand(p) ==
  /\ Turn(p, {"command"}) /\ Take(p)
  /\ command' = [command EXCEPT ![Taken(p)] = "posted"]
  /\ UNCHANGED <<life, block, wire, awaiting, debts, openSessions, payment, told, dropped, settled>>

\* The reply goes to the buyer's gateway; if the POST fails, that is logged.
HandleReply(p) ==
  /\ Turn(p, {"reply"}) /\ Take(p)
  /\ \/ command' = [command EXCEPT ![Taken(p)] = "done"]
     \/ "gateway" \in Faults /\ UNCHANGED command
  /\ UNCHANGED <<life, block, wire, awaiting, debts, openSessions, payment, told, dropped, settled>>

\* The amount of the session's transaction: that of the payments it replaces comes on top.
AmountsOut(b) ==
  {Price(b)} \cup
  {MapThenSumSet(Price, {c \in Blocks : payment[c] = "paid" /\ Seller(c) = Seller(b)
                                                            /\ Buyer(c) = Buyer(b)})}

HandleStatus(p) ==
  LET b == Taken(p) IN
  /\ Turn(p, {"paid"}) /\ Take(p)
  /\ \E out \in AmountsOut(b) :
       requested' = [requested EXCEPT ![p][Buyer(b)] = (@ - out) % Word]
  /\ settled' = settled \cup {b}
  /\ UNCHANGED <<life, block, wire, awaiting, transferred, received, amount, openSessions, gateway>>

\* "TODO: retry ?"
HandleFailure(p) ==
  /\ Turn(p, {"failed"}) /\ Take(p)
  /\ UNCHANGED <<life, block, wire, awaiting, debts, openSessions, gateway, settled>>

\* A POST to the peer's own gateway has failed: log.Fatalf.
HandleFails(p) ==
  /\ Turn(p, {"require", "command", "paid"}) /\ "gateway" \in Faults
  /\ Head(queue[p]).kind = "require" =>
       (transferred[p][Buyer(Taken(p))] + SizeOf[Taken(p)]) % Word >= Threshold
  /\ life' = [life EXCEPT ![p] = "left"]
  /\ UNCHANGED <<block, wire, queue, awaiting, debts, openSessions, gateway, settled>>

-----------------------------------------------------------------------------
(* Gateways, and the callback servers they call *)

\* ProcessPayment of the buyer's gateway takes the payment, or answers with an error.
TakePayment(b) ==
  /\ awaiting[Buyer(b)] = b /\ payment[b] = "none"
  /\ \/ payment' = [payment EXCEPT ![b] = "running"]
     \/ "payment" \in Faults /\ payment' = [payment EXCEPT ![b] = "refused"]
  /\ UNCHANGED <<life, block, wire, queue, awaiting, debts, openSessions, command, told, dropped,
                 settled>>

\* PPCallback: a command goes to the seller, its reply back to the buyer.
ForwardCommand(b) == Send(Buyer(b), Seller(b), "command", b)
ForwardReply(b) == Send(Seller(b), Buyer(b), "reply", b)

\* HandleProcessCommand of the buyer's callback server.
ProcessCommand(b) ==
  /\ payment[b] = "running" /\ command[b] = "none" /\ life[Buyer(b)] = "up"
  /\ ForwardCommand(b)
  /\ command' = [command EXCEPT ![b] = "asked"]
  /\ UNCHANGED <<life, block, queue, awaiting, debts, openSessions, payment, told, dropped, settled>>

\* HandleProcessCommandResponse of the seller's callback server.
ProcessCommandResponse(b) ==
  /\ command[b] = "posted" /\ life[Seller(b)] = "up"
  /\ ForwardReply(b)
  /\ command' = [command EXCEPT ![b] = "answered"]
  /\ UNCHANGED <<life, block, queue, awaiting, debts, openSessions, payment, told, dropped, settled>>

\* A payment needs the seller's replies; it may fail at any time.
EndPayment(b) ==
  /\ payment[b] = "running"
  /\ \/ command[b] = "done" /\ payment' = [payment EXCEPT ![b] = "paid"]
     \/ "payment" \in Faults /\ payment' = [payment EXCEPT ![b] = "failed"]
  /\ UNCHANGED <<life, block, wire, queue, awaiting, debts, openSessions, command, told, dropped,
                 settled>>

\* Close leaves the session open.
Origin(p, id) == openSessions[p][id]

ForwardStatusInverted(b) ==
  IF Origin(Buyer(b), b) = None
  THEN dropped' = dropped \cup {b} /\ UNCHANGED wire
  ELSE /\ Send(Buyer(b), Origin(Buyer(b), b), IF payment[b] = "paid" THEN "failed" ELSE "paid", b)
       /\ UNCHANGED dropped

\* To the peer that asked for the payment; an unknown session is an error.
ForwardStatus(b) ==
  IF Origin(Buyer(b), b) = None
  THEN dropped' = dropped \cup {b} /\ UNCHANGED wire
  ELSE Send(Buyer(b), Origin(Buyer(b), b), payment[b], b) /\ UNCHANGED dropped

\* HandleProcessPaymentResponse: the error is a 404 that the gateway does not look at.
ProcessPaymentResponse(b) ==
  /\ payment[b] \in {"paid", "failed"} /\ b \notin told /\ life[Buyer(b)] = "up"
  /\ told' = told \cup {b}
  /\ ForwardStatus(b)
  /\ UNCHANGED <<life, block, queue, awaiting, debts, openSessions, payment, command, settled>>

-----------------------------------------------------------------------------
Handle(p) ==
  \/ HandleReceived(p) \/ HandleRequire(p) \/ HandleInitiate(p) \/ HandleCommand(p)
  \/ HandleReply(p) \/ HandleStatus(p) \/ HandleFailure(p) \/ HandleFails(p)

Gateway(b) ==
  \/ TakePayment(b) \/ ProcessCommand(b) \/ ProcessCommandResponse(b)
  \/ EndPayment(b) \/ ProcessPaymentResponse(b)

Next ==
  \/ \E b \in Blocks : SendBlock(b) \/ RequirePayment(b) \/ Gateway(b)
  \/ \E p, q \in Peers : Receive(p, q)
  \/ \E p \in Peers : Handle(p) \/ PaymentPosted(p)

Spec == Init /\ [][Next]_vars

(***************************************************************************)
(* The loop runs, POSTs are answered, the network delivers and a gateway   *)
(* calls back.  Nobody has to send a block, and a payment owes nothing to  *)
(* anyone before it has ended.                                             *)
(***************************************************************************)
Fairness ==
  /\ \A p \in Peers : WF_vars(Handle(p)) /\ WF_vars(PaymentPosted(p))
  /\ \A p, q \in Peers : WF_vars(Receive(p, q))
  /\ \A b \in Blocks :
       /\ WF_vars(TakePayment(b)) /\ WF_vars(ProcessCommand(b))
       /\ WF_vars(ProcessCommandResponse(b)) /\ WF_vars(ProcessPaymentResponse(b))

FairSpec == Spec /\ Fairness

-----------------------------------------------------------------------------
(* Properties *)

Between(p, q) == {b \in Blocks : Seller(b) = p /\ Buyer(b) = q}

Waiting(p) == {queue[p][i] : i \in 1..Len(queue[p])}

(* Every byte that p has charged q for is in exactly one of p's requests or still        *)
(* counts towards the next one (handlers.go:35-47): the bytes above the threshold are    *)
(* neither lost nor charged again.  Below 2^32 bytes between two requests.               *)
TransferAccounted ==
  \A p, q \in Peers :
    LET charged == {b \in Between(p, q) :
                      block[b] = "billed" /\ [kind |-> "require", of |-> b] \notin Waiting(p)}
    IN transferred[p][q] + MapThenSumSet(LAMBDA b : amount[b], Between(p, q))
         = MapThenSumSet(LAMBDA b : SizeOf[b], charged)

(* No peer ends over "invalid quantity requested" (models.go:45) when its peers ask for  *)
(* what they have sent: the price is rounded down and converted back, and the blocks     *)
(* come before the request on every path.  Below 2^32 bytes received.                    *)
HonestRequestAccepted == \A p \in Peers : life[p] # "rejected"

(* All the payments that a buyer's gateway was ever asked to run for one seller are for  *)
(* no more bytes than it has got from that seller.                                       *)
PaidForReceived ==
  \A p, q \in Peers :
    MapThenSumSet(Quantity, {b \in Between(q, p) : awaiting[p] = b \/ payment[b] # "none"})
      <= received[p][q]

(* A payment's status is lost to the seller only if the gateway reports it before it has *)
(* answered the POST that started the payment: from then on the session is known for     *)
(* good (clienthandler.go:84, sessionHandler.go:39).                                     *)
StatusLostOnlyByRace ==
  [][\A b \in Blocks : b \in dropped' \ dropped => awaiting[Buyer(b)] = b]_vars

(* The loop does not stay in ProcessPayment: "don't do anything likely to block"          *)
(* (paymentmanager.go:76).  With a gateway that is not in asyncMode, which is what the    *)
(* configuration makes of it, it stays for ever: the POST returns when the payment is     *)
(* over, and what the payment needs, the seller's reply, gets to the gateway only through *)
(* the loop that waits.                                                                   *)
LoopReturns == \A p \in Peers : awaiting[p] # None ~> awaiting[p] = None \/ life[p] # "up"

(* A payment that was made comes off the seller's books, unless its status was dropped   *)
(* or one of the two peers is gone.  No payment is made where the loop waits for it, so  *)
(* that this says something of a gateway in asyncMode only.                              *)
PaidIsSettled ==
  \A b \in Blocks :
    payment[b] = "paid" ~>
      b \in settled \cup dropped \/ life[Seller(b)] # "up" \/ life[Buyer(b)] # "up"

=============================================================================
