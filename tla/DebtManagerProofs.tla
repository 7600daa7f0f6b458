------------------------- MODULE DebtManagerProofs -------------------------
(***************************************************************************)
(* Theorems about Commodity and DebtManager: a quote is never for more     *)
(* than was asked to be quoted, a status is lost only to the race between  *)
(* the gateway's answer and its callback, every byte is charged once, and  *)
(* requests stay behind the bytes that they are for.                       *)
(***************************************************************************)
EXTENDS DebtManager, AmountLemmas, TLAPS

\* As much of the types as the argument needs: which functions have which domains.
SessionTypeOK ==
  /\ awaiting = [p \in Peers |-> awaiting[p]]
  /\ openSessions = [p \in Peers |-> openSessions[p]]
  /\ \A p \in Peers : DOMAIN openSessions[p] = Blocks \cup {None}
  /\ payment = [b \in Blocks |-> payment[b]]

\* A payment that was taken is still being posted, or its session is known.
TakenIsKnown ==
  \A b \in Blocks :
    payment[b] \notin {"none", "refused"} =>
      awaiting[Buyer(b)] = b \/ openSessions[Buyer(b)][b] # None

IInv == SessionTypeOK /\ TakenIsKnown

StatusLost == \A b \in Blocks : b \in dropped' \ dropped => awaiting[Buyer(b)] = b

-----------------------------------------------------------------------------

(* The quantity a buyer takes a request to be for is never more than the seller's books   *)
(* have: both conversions round down, and what the first keeps fits the second's word     *)
(* (commodityManager.go:58, :83).                                                         *)
THEOREM QuoteNeverOverstates ==
  ASSUME NEW quantity \in 0..Word - 1
  PROVE  ReverseCalculate(Calculate(quantity)) \in 0..quantity
<1>1. quantity \in Nat /\ UnitsPer \in Nat \ {0} /\ Word \in Nat \ {0} /\ quantity < Word
  BY PriceAssumption
<1>2. PICK price \in Nat, rest \in 0..UnitsPer - 1 :
        price = Calculate(quantity) /\ quantity = (UnitsPer * price) + rest
  <2>1. \A n \in Nat, d \in Nat \ {0} :
          n \div d \in Nat /\ n % d \in 0..d - 1 /\ n = (d * (n \div d)) + (n % d)
    BY SMT
  <2> QED
    BY <1>1, <2>1 DEF Calculate
<1>3. price * UnitsPer \in Nat /\ UnitsPer * price = price * UnitsPer
  BY <1>1, SMT
<1>4. price * UnitsPer \in 0..quantity
  BY <1>1, <1>2, <1>3
<1>5. \A n \in 0..Word - 1 : n % Word = n
  BY <1>1, SMT
<1>6. (price * UnitsPer) % Word = price * UnitsPer
  BY <1>1, <1>4, <1>5
<1> QED
  BY <1>2, <1>4, <1>6 DEF ReverseCalculate

-----------------------------------------------------------------------------

LEMMA BuyersArePeers == \A b \in Blocks : Buyer(b) \in Peers /\ Seller(b) \in Peers
  BY PeersAssumption DEF Buyer, Seller

LEMMA SessionsInit == ASSUME Init PROVE IInv
<1>1. SessionTypeOK
  BY PeersAssumption DEF Init, SessionTypeOK
<1>2. TakenIsKnown
  BY DEF Init, TakenIsKnown
<1> QED
  BY <1>1, <1>2 DEF IInv

(* The POST of ProcessPayment opens its session when it ends, unless it was refused. *)
LEMMA PostedStep == ASSUME IInv, NEW p \in Peers, PaymentPosted(p) PROVE IInv'
<1> USE DEF PaymentPosted, OpenSession
<1>1. UNCHANGED payment
  BY DEF gateway
<1>2. SessionTypeOK'
  BY <1>1 DEF IInv, SessionTypeOK
<1>3. ASSUME NEW b \in Blocks, payment[b] \notin {"none", "refused"}
      PROVE  awaiting'[Buyer(b)] = b \/ openSessions'[Buyer(b)][b] # None
  <2>1. CASE awaiting[Buyer(b)] = b /\ Buyer(b) = p
    <3>1. openSessions'[p][b] = Seller(b)
      BY <1>3, <2>1 DEF IInv, SessionTypeOK
    <3> QED
      BY <2>1, <3>1, BuyersArePeers, PeersAssumption
  <2>2. CASE awaiting[Buyer(b)] = b /\ Buyer(b) # p
    BY <2>2, BuyersArePeers DEF IInv, SessionTypeOK
  <2>3. CASE awaiting[Buyer(b)] # b
    <3>1. openSessions[Buyer(b)][b] # None
      BY <1>3, <2>3 DEF IInv, TakenIsKnown
    <3>2. CASE Buyer(b) = p
      BY <2>3, <3>1, <3>2, PeersAssumption DEF IInv, SessionTypeOK
    <3>3. CASE Buyer(b) # p
      BY <3>1, <3>3, BuyersArePeers DEF IInv, SessionTypeOK
    <3> QED
      BY <3>2, <3>3
  <2> QED
    BY <2>1, <2>2, <2>3
<1> QED
  BY <1>1, <1>2, <1>3 DEF IInv, TakenIsKnown

(* The loop takes a request only when it waits for no other. *)
LEMMA InitiateStep == ASSUME IInv, NEW p \in Peers, HandleInitiate(p) PROVE IInv'
<1>1. UNCHANGED <<payment, openSessions>> /\ awaiting[p] = None
  BY DEF HandleInitiate, gateway, Turn
<1>2. awaiting' = awaiting \/ awaiting' = [awaiting EXCEPT ![p] = Taken(p)]
  BY DEF HandleInitiate
<1>3. SessionTypeOK'
  BY <1>1, <1>2 DEF IInv, SessionTypeOK
<1>4. \A b \in Blocks : awaiting[Buyer(b)] = b => awaiting'[Buyer(b)] = b
  BY <1>1, <1>2, BuyersArePeers, PeersAssumption DEF IInv, SessionTypeOK
<1>5. TakenIsKnown'
  BY <1>1, <1>4 DEF IInv, TakenIsKnown
<1> QED
  BY <1>3, <1>5 DEF IInv

(* A payment begins while its POST is awaited, and ends from running. *)
LEMMA PaymentStep ==
  ASSUME IInv, NEW b \in Blocks, TakePayment(b) \/ EndPayment(b) PROVE IInv'
<1>1. UNCHANGED <<awaiting, openSessions>>
  BY DEF TakePayment, EndPayment
<1>2. SessionTypeOK'
  BY <1>1 DEF TakePayment, EndPayment, IInv, SessionTypeOK
<1>3. \A c \in Blocks : c # b => payment'[c] = payment[c]
  BY DEF TakePayment, EndPayment, IInv, SessionTypeOK
<1>4. CASE TakePayment(b)
  BY <1>1, <1>2, <1>3, <1>4 DEF TakePayment, IInv, TakenIsKnown
<1>5. CASE EndPayment(b)
  BY <1>1, <1>2, <1>3, <1>5 DEF EndPayment, IInv, TakenIsKnown
<1> QED
  BY <1>4, <1>5

LEMMA SessionsUnchanged ==
  ASSUME IInv, UNCHANGED <<awaiting, openSessions, payment>> PROVE IInv'
  BY DEF IInv, SessionTypeOK, TakenIsKnown

LEMMA SessionsStep == ASSUME IInv, [Next]_vars PROVE IInv'
<1>1. ASSUME NEW b \in Blocks, SendBlock(b) \/ RequirePayment(b) PROVE IInv'
  BY <1>1, SessionsUnchanged DEF SendBlock, RequirePayment, gateway
<1>2. ASSUME NEW b \in Blocks, TakePayment(b) \/ EndPayment(b) PROVE IInv'
  BY <1>2, PaymentStep
<1>3. ASSUME NEW b \in Blocks,
             ProcessCommand(b) \/ ProcessCommandResponse(b) \/ ProcessPaymentResponse(b)
      PROVE  IInv'
  BY <1>3, SessionsUnchanged DEF ProcessCommand, ProcessCommandResponse, ProcessPaymentResponse
<1>4. ASSUME NEW p \in Peers, NEW q \in Peers, Receive(p, q) PROVE IInv'
  BY <1>4, SessionsUnchanged DEF Receive, gateway
<1>5. ASSUME NEW p \in Peers, HandleInitiate(p) PROVE IInv'
  BY <1>5, InitiateStep
<1>6. ASSUME NEW p \in Peers,
             HandleReceived(p) \/ HandleRequire(p) \/ HandleCommand(p) \/ HandleReply(p)
             \/ HandleStatus(p) \/ HandleFailure(p) \/ HandleFails(p)
      PROVE  IInv'
  BY <1>6, SessionsUnchanged
  DEF HandleReceived, HandleRequire, HandleCommand, HandleReply, HandleStatus, HandleFailure,
      HandleFails, gateway
<1>7. ASSUME NEW p \in Peers, PaymentPosted(p) PROVE IInv'
  BY <1>7, PostedStep
<1>8. CASE UNCHANGED vars
  BY <1>8, SessionsUnchanged DEF vars, gateway
<1> QED
  BY <1>1, <1>2, <1>3, <1>4, <1>5, <1>6, <1>7, <1>8 DEF Next, Gateway, Handle

(* Only the callback server drops a status, and only of a session it does not know. *)
LEMMA DropStep == ASSUME IInv, [Next]_vars PROVE StatusLost
<1>1. ASSUME NEW b \in Blocks, ProcessPaymentResponse(b) PROVE StatusLost
  <2>1. payment[b] \in {"paid", "failed"}
    BY <1>1 DEF ProcessPaymentResponse
  <2>2. dropped' \subseteq dropped \cup (IF openSessions[Buyer(b)][b] = None THEN {b} ELSE {})
    BY <1>1 DEF ProcessPaymentResponse, ForwardStatus, Origin
  <2>3. openSessions[Buyer(b)][b] = None => awaiting[Buyer(b)] = b
    BY <2>1 DEF IInv, TakenIsKnown
  <2> QED
    BY <2>2, <2>3 DEF StatusLost
<1>2. ASSUME NEW b \in Blocks,
             \/ SendBlock(b) \/ RequirePayment(b) \/ TakePayment(b) \/ EndPayment(b)
             \/ ProcessCommand(b) \/ ProcessCommandResponse(b)
      PROVE  StatusLost
  BY <1>2 DEF SendBlock, RequirePayment, TakePayment, EndPayment, ProcessCommand,
              ProcessCommandResponse, gateway, StatusLost
<1>3. ASSUME NEW p \in Peers, NEW q \in Peers, Receive(p, q) PROVE StatusLost
  BY <1>3 DEF Receive, gateway, StatusLost
<1>4. ASSUME NEW p \in Peers, Handle(p) \/ PaymentPosted(p) PROVE StatusLost
  BY <1>4 DEF Handle, HandleReceived, HandleRequire, HandleInitiate, HandleCommand, HandleReply,
              HandleStatus, HandleFailure, HandleFails, PaymentPosted, gateway, StatusLost
<1>5. CASE UNCHANGED vars
  BY <1>5 DEF vars, gateway, StatusLost
<1> QED
  BY <1>1, <1>2, <1>3, <1>4, <1>5 DEF Next, Gateway

(* A status is lost only while the POST that started its payment is unanswered, for any   *)
(* number of peers and payments, whatever fails.                                          *)
THEOREM StatusesReachTheirSession == Spec => StatusLostOnlyByRace
<1>1. Init => IInv
  BY SessionsInit
<1>2. IInv /\ [Next]_vars => IInv'
  BY SessionsStep
<1>3. IInv /\ [Next]_vars =>
        [\A b \in Blocks : b \in dropped' \ dropped => awaiting[Buyer(b)] = b]_vars
  BY DropStep DEF StatusLost
<1> QED
  BY <1>1, <1>2, <1>3, PTL DEF Spec, StatusLostOnlyByRace

-----------------------------------------------------------------------------
(***************************************************************************)
(* Types.  The amount of a status is a sum over the payments that were     *)
(* made, of which there are finitely many whatever Blocks is.              *)
(***************************************************************************)
Asked == {b \in Blocks : payment[b] # "none"}

Counters == [Peers -> [Peers -> 0 .. Word - 1]]
Channels == [Peers -> Seq(Message)]

WellTyped ==
  /\ life \in [Peers -> {"up", "left", "rejected"}]
  /\ block \in [Blocks -> {"held", "sent", "billed"}]
  /\ wire \in [Peers -> Channels]
  /\ queue \in Channels /\ \A p \in Peers : Len(queue[p]) <= Capacity
  /\ awaiting \in [Peers -> Blocks \cup {None}]
  /\ requested \in Counters /\ transferred \in Counters /\ received \in Counters
  /\ amount \in [Blocks -> 0 .. Word - 1]
  /\ openSessions \in [Peers -> [Blocks \cup {None} -> Peers \cup {None}]]
  /\ payment \in [Blocks -> {"none", "refused", "running", "paid", "failed"}]
  /\ command \in [Blocks -> {"none", "asked", "posted", "answered", "done"}]
  /\ dropped \subseteq told /\ told \subseteq Blocks /\ settled \subseteq Blocks

Typed == WellTyped /\ IsFiniteSet(Asked)

LEMMA WellTypedIsTypeOK == WellTyped <=> TypeOK
  BY DEF WellTyped, TypeOK, Counters, Channels

LEMMA CountersAreNat ==
  ASSUME WellTyped, NEW p \in Peers, NEW q \in Peers
  PROVE  requested[p][q] \in Nat /\ transferred[p][q] \in Nat /\ received[p][q] \in Nat
  BY PriceAssumption DEF WellTyped, Counters

\* One entry of a table of tables changes.
LEMMA EntryTyped ==
  ASSUME NEW X, NEW Y, NEW V, NEW f \in [X -> [Y -> V]], NEW x \in X, NEW y \in Y, NEW v \in V
  PROVE  [f EXCEPT ![x][y] = v] \in [X -> [Y -> V]]
  OBVIOUS

LEMMA MessageTyped ==
  ASSUME NEW kind \in {"require", "block", "initiate", "command", "reply", "paid", "failed"},
         NEW b \in Blocks
  PROVE  [kind |-> kind, of |-> b] \in Message
  BY DEF Message

\* What the loop reads is a message, and the rest is a queue of messages.
LEMMA TakenTyped ==
  ASSUME WellTyped, NEW p \in Peers, queue[p] # <<>>
  PROVE  /\ Head(queue[p]) \in Message /\ Taken(p) \in Blocks
         /\ Tail(queue[p]) \in Seq(Message) /\ Len(Tail(queue[p])) <= Capacity
<1>1. queue[p] \in Seq(Message) /\ Len(queue[p]) <= Capacity /\ Capacity \in Nat
  BY PeersAssumption DEF WellTyped, Channels
<1>2. Head(queue[p]) \in Message /\ Tail(queue[p]) \in Seq(Message) /\ Len(Tail(queue[p])) <= Capacity
  BY <1>1
<1> QED
  BY <1>2 DEF Message, Taken

LEMMA TakeTyped ==
  ASSUME WellTyped, NEW p \in Peers, queue[p] # <<>>, Take(p)
  PROVE  queue' \in Channels /\ \A r \in Peers : Len(queue'[r]) <= Capacity
  BY TakenTyped DEF WellTyped, Channels, Take

LEMMA SendTyped ==
  ASSUME WellTyped, NEW p \in Peers, NEW q \in Peers,
         NEW kind \in {"require", "block", "initiate", "command", "reply", "paid", "failed"},
         NEW b \in Blocks, Send(p, q, kind, b)
  PROVE  wire' \in [Peers -> Channels]
<1> DEFINE m == [kind |-> kind, of |-> b]
<1>1. m \in Message
  BY MessageTyped
<1>2. wire' = [wire EXCEPT ![p][q] = Append(@, m)]
  BY DEF Send
<1>3. wire \in [Peers -> [Peers -> Seq(Message)]] /\ wire[p][q] \in Seq(Message)
  BY DEF WellTyped, Channels
<1>4. Append(wire[p][q], m) \in Seq(Message)
  BY <1>1, <1>3
<1> DEFINE s == Append(wire[p][q], m)
<1>5. wire' = [wire EXCEPT ![p][q] = s]
  BY <1>2
<1> HIDE DEF m, s
<1> QED
  BY <1>3, <1>4, <1>5, EntryTyped DEF Channels, s

LEMMA PutTyped ==
  ASSUME WellTyped, NEW p \in Peers, NEW m \in Message, Put(p, m)
  PROVE  queue' \in Channels /\ \A r \in Peers : Len(queue'[r]) <= Capacity
<1>1. queue' = [queue EXCEPT ![p] = Append(@, m)] /\ Len(queue[p]) < Capacity /\ Capacity \in Nat
  BY PeersAssumption DEF Put
<1>2. queue[p] \in Seq(Message) /\ Append(queue[p], m) \in Seq(Message)
      /\ Len(Append(queue[p], m)) = Len(queue[p]) + 1
  BY DEF WellTyped, Channels
<1> QED
  BY <1>1, <1>2 DEF WellTyped, Channels

LEMMA WordTyped == \A n \in Int : n % Word \in 0 .. Word - 1
  BY PriceAssumption

LEMMA PriceTyped ==
  ASSUME WellTyped, NEW b \in Blocks PROVE Price(b) \in Nat
<1>1. \A n \in Nat, d \in Nat \ {0} : n \div d \in Nat
  BY SMT
<1> QED
  BY <1>1, PriceAssumption DEF WellTyped, Price, Calculate

\* The amount of a status, with or without that of what the payment replaces.
LEMMA AmountsOutTyped ==
  ASSUME Typed, NEW b \in Blocks, NEW out \in AmountsOut(b)
  PROVE  out \in Nat
<1> DEFINE S == {c \in Blocks : payment[c] = "paid" /\ Seller(c) = Seller(b) /\ Buyer(c) = Buyer(b)}
           price == [c \in S |-> Price(c)]
<1>1. S \subseteq Asked /\ S \subseteq Blocks
  BY DEF Asked
<1>2. IsFiniteSet(S)
  <2> HIDE DEF S
  <2> QED
    BY <1>1, FS_Subset DEF Typed
<1>3. \A c \in S : price[c] \in Nat
  BY PriceTyped DEF Typed
<1>4. SumOver(price, S) \in Nat
  <2> HIDE DEF S, price
  <2> QED
    BY <1>2, <1>3, SumNatural
<1>5. MapThenSumSet(Price, S) = SumOver(price, S)
  <2> HIDE DEF S
  <2> QED
    BY DEF SumOver, MapThenSumSet, MapThenFoldSet
<1>6. out = Price(b) \/ out = MapThenSumSet(Price, S)
  BY DEF AmountsOut
<1> QED
  BY <1>4, <1>5, <1>6, PriceTyped DEF Typed

LEMMA InitTyped == Init => Typed
<1> SUFFICES ASSUME Init PROVE Typed
  OBVIOUS
<1>1. <<>> \in Seq(Message) /\ Len(<<>>) = 0 /\ Capacity \in Nat /\ 0 \in 0 .. Word - 1
  BY PeersAssumption, PriceAssumption
<1>2. WellTyped
  BY <1>1, PeersAssumption DEF Init, WellTyped, Channels, Counters
<1>3. Asked = {}
  BY DEF Init, Asked
<1> QED
  BY <1>2, <1>3, FS_EmptySet DEF Typed

\* Only an awaited payment is asked of a gateway.
LEMMA AskedStep ==
  ASSUME Typed, [Next]_vars PROVE IsFiniteSet(Asked')
<1>1. ASSUME NEW b \in Blocks, TakePayment(b) \/ EndPayment(b) PROVE IsFiniteSet(Asked')
  <2>1. \A c \in Blocks : c # b => payment'[c] = payment[c]
    BY <1>1 DEF Typed, WellTyped, TakePayment, EndPayment
  <2>2. Asked' \subseteq Asked \cup {b}
    BY <2>1 DEF Asked
  <2>3. IsFiniteSet(Asked \cup {b})
    BY FS_AddElement DEF Typed
  <2> QED
    BY <2>2, <2>3, FS_Subset
<1>2. CASE UNCHANGED payment
  BY <1>2 DEF Asked, Typed
<1>3. ASSUME \A b \in Blocks : ~TakePayment(b) /\ ~EndPayment(b) PROVE UNCHANGED payment
  BY <1>3
    DEF Next, Gateway, Handle, SendBlock, RequirePayment, ProcessCommand,
        ProcessCommandResponse,
     ProcessPaymentResponse, Receive, HandleReceived, HandleRequire, HandleInitiate, HandleCommand,
     HandleReply, HandleStatus, HandleFailure, HandleFails, PaymentPosted, gateway, vars
<1> QED
  BY <1>1, <1>2, <1>3

LEMMA TypedStep ==
  Typed /\ [Next]_vars => Typed'
<1> SUFFICES ASSUME Typed, [Next]_vars PROVE WellTyped'
  BY AskedStep DEF Typed
<1> USE DEF debts, gateway
<1>0. WellTyped
  BY DEF Typed
<1>1. ASSUME NEW b \in Blocks, SendBlock(b) PROVE WellTyped'
  BY <1>0, <1>1, BuyersArePeers, SendTyped DEF WellTyped, SendBlock
<1>2. ASSUME NEW b \in Blocks, RequirePayment(b) PROVE WellTyped'
  BY <1>0, <1>2, BuyersArePeers, MessageTyped, PutTyped DEF WellTyped, RequirePayment
<1>3. ASSUME NEW p \in Peers, NEW q \in Peers, Receive(p, q) PROVE WellTyped'
  <2>1. wire[p][q] \in Seq(Message) /\ wire[p][q] # <<>>
    BY <1>0, <1>3 DEF WellTyped, Channels, Receive
  <2>2. Head(wire[p][q]) \in Message /\ Tail(wire[p][q]) \in Seq(Message)
    BY <2>1
  <2>3. queue' \in Channels /\ \A r \in Peers : Len(queue'[r]) <= Capacity
    BY <1>0, <1>3, <2>2, PutTyped DEF Receive
  <2>4. wire' = [wire EXCEPT ![p][q] = Tail(wire[p][q])]
    BY <1>3 DEF Receive
  <2>5. wire' \in [Peers -> Channels]
    BY <1>0, <2>2, <2>4, EntryTyped DEF WellTyped, Channels
  <2> QED
    BY <1>3, <1>0, <2>3, <2>5 DEF WellTyped, Receive
<1>4. ASSUME NEW p \in Peers, HandleReceived(p) PROVE WellTyped'
  <2>1. Taken(p) \in Blocks /\ Seller(Taken(p)) \in Peers
    BY <1>0, <1>4, TakenTyped, BuyersArePeers DEF HandleReceived, Turn
  <2>2. received[p][Seller(Taken(p))] + SizeOf[Taken(p)] \in Int
    BY <1>0, <2>1, CountersAreNat, PeersAssumption
  <2>3. queue' \in Channels /\ \A r \in Peers : Len(queue'[r]) <= Capacity
    BY <1>0, <1>4, TakeTyped DEF HandleReceived, Turn
  <2>4. (received[p][Seller(Taken(p))] + SizeOf[Taken(p)]) % Word \in 0 .. Word - 1
    BY <2>2, WordTyped
  <2>5. received' \in Counters
    BY <1>0, <1>4, <2>1, <2>4, EntryTyped DEF WellTyped, Counters, HandleReceived
  <2> QED
    BY <1>0, <1>4, <2>1, <2>3, <2>5 DEF WellTyped, HandleReceived
<1>5. ASSUME NEW p \in Peers, HandleRequire(p) PROVE WellTyped'
  <2> DEFINE b == Taken(p)
             bytes == (transferred[p][Buyer(b)] + SizeOf[b]) % Word
             more == (requested[p][Buyer(b)] + bytes) % Word
  <2>1. b \in Blocks /\ Buyer(b) \in Peers
    BY <1>0, <1>5, TakenTyped, BuyersArePeers DEF HandleRequire, Turn
  <2>2. bytes \in 0 .. Word - 1
    <3>1. transferred[p][Buyer(b)] + SizeOf[b] \in Int
      BY <1>0, <2>1, CountersAreNat, PeersAssumption
    <3> QED
      BY <3>1, WordTyped
  <2>3. queue' \in Channels /\ \A r \in Peers : Len(queue'[r]) <= Capacity
    BY <1>0, <1>5, TakeTyped DEF HandleRequire, Turn
  <2>4. more \in 0 .. Word - 1
    <3> HIDE DEF bytes
    <3>1. requested[p][Buyer(b)] + bytes \in Int
      BY <1>0, <2>1, <2>2, CountersAreNat, PriceAssumption
    <3> QED
      BY <3>1, WordTyped
  <2>5. wire' \in [Peers -> Channels]
    BY <1>0, <1>5, <2>1, SendTyped DEF HandleRequire, WellTyped
  <2>6. 0 \in 0 .. Word - 1
    BY PriceAssumption
  <2>9. [requested EXCEPT ![p][Buyer(b)] = more] \in Counters
        /\ [transferred EXCEPT ![p][Buyer(b)] = bytes] \in Counters
        /\ [transferred EXCEPT ![p][Buyer(b)] = 0] \in Counters
    <3> HIDE DEF b, bytes, more
    <3> QED
      BY <1>0, <2>1, <2>2, <2>4, <2>6, EntryTyped DEF WellTyped, Counters
  <2>7. \/ /\ amount' = [amount EXCEPT ![b] = bytes]
           /\ requested' = [requested EXCEPT ![p][Buyer(b)] = more]
           /\ transferred' = [transferred EXCEPT ![p][Buyer(b)] = 0]
        \/ transferred' = [transferred EXCEPT ![p][Buyer(b)] = bytes] /\ UNCHANGED <<amount, requested>>
    BY <1>0, <1>5, <2>1 DEF HandleRequire, WellTyped
  <2>8. UNCHANGED <<life, block, awaiting, received, openSessions, gateway, settled>>
    BY <1>5 DEF HandleRequire
  <2> HIDE DEF b, bytes, more
  <2> QED
    BY <1>0, <2>1, <2>2, <2>3, <2>5, <2>7, <2>8, <2>9 DEF WellTyped
<1>6. ASSUME NEW p \in Peers, HandleInitiate(p) PROVE WellTyped'
  <2>1. Taken(p) \in Blocks
    BY <1>0, <1>6, TakenTyped DEF HandleInitiate, Turn
  <2>2. queue' \in Channels /\ \A r \in Peers : Len(queue'[r]) <= Capacity
    BY <1>0, <1>6, TakeTyped DEF HandleInitiate, Turn
  <2>3. life' = [life EXCEPT ![p] = "rejected"] \/ UNCHANGED life
    BY <1>6 DEF HandleInitiate
  <2>4. awaiting' = [awaiting EXCEPT ![p] = Taken(p)] \/ UNCHANGED awaiting
    BY <1>6 DEF HandleInitiate
  <2>5. UNCHANGED <<block, wire, debts, openSessions, gateway, settled>>
    BY <1>6 DEF HandleInitiate
  <2> QED
    BY <1>0, <2>1, <2>2, <2>3, <2>4, <2>5 DEF WellTyped
<1>7. ASSUME NEW p \in Peers, PaymentPosted(p) PROVE WellTyped'
  <2>1. awaiting[p] \in Blocks /\ Seller(awaiting[p]) \in Peers
    BY <1>0, <1>7, BuyersArePeers DEF WellTyped, PaymentPosted
  <2>2. PICK id \in Blocks \cup {None} :
          openSessions' = [openSessions EXCEPT ![p][id] = Seller(awaiting[p])]
    BY <1>7, <2>1 DEF PaymentPosted, OpenSession
  <2>3. openSessions' \in [Peers -> [Blocks \cup {None} -> Peers \cup {None}]]
    BY <1>0, <2>1, <2>2, EntryTyped DEF WellTyped
  <2> QED
    BY <1>0, <1>7, <2>3 DEF WellTyped, PaymentPosted
<1>8. ASSUME NEW p \in Peers, HandleCommand(p) \/ HandleReply(p) PROVE WellTyped'
  <2>1. Taken(p) \in Blocks
    BY <1>0, <1>8, TakenTyped DEF HandleCommand, HandleReply, Turn
  <2>2. queue' \in Channels /\ \A r \in Peers : Len(queue'[r]) <= Capacity
    BY <1>0, <1>8, TakeTyped DEF HandleCommand, HandleReply, Turn
  <2> QED
    BY <1>0, <1>8, <2>1, <2>2 DEF WellTyped, HandleCommand, HandleReply
<1>9. ASSUME NEW p \in Peers, HandleStatus(p) PROVE WellTyped'
  <2>1. Taken(p) \in Blocks /\ Buyer(Taken(p)) \in Peers
    BY <1>0, <1>9, TakenTyped, BuyersArePeers DEF HandleStatus, Turn
  <2>2. PICK out \in AmountsOut(Taken(p)) :
          requested' = [requested EXCEPT ![p][Buyer(Taken(p))] = (@ - out) % Word]
    BY <1>9 DEF HandleStatus
  <2>3. out \in Nat
    BY <2>1, <2>2, AmountsOutTyped
  <2>4. (requested[p][Buyer(Taken(p))] - out) % Word \in 0 .. Word - 1
    <3>1. requested[p][Buyer(Taken(p))] - out \in Int
      BY <1>0, <2>1, <2>3, CountersAreNat
    <3> QED
      BY <3>1, WordTyped
  <2>5. queue' \in Channels /\ \A r \in Peers : Len(queue'[r]) <= Capacity
    BY <1>0, <1>9, TakeTyped DEF HandleStatus, Turn
  <2>6. settled' = settled \cup {Taken(p)}
        /\ UNCHANGED <<life, block, wire, awaiting, transferred, received, amount, openSessions, gateway>>
    BY <1>9 DEF HandleStatus
  <2>7. requested' \in Counters
    BY <1>0, <2>1, <2>2, <2>4, EntryTyped DEF WellTyped, Counters
  <2> QED
    BY <1>0, <2>1, <2>5, <2>6, <2>7 DEF WellTyped
<1>10. ASSUME NEW p \in Peers, HandleFailure(p) PROVE WellTyped'
  <2>1. queue' \in Channels /\ \A r \in Peers : Len(queue'[r]) <= Capacity
    BY <1>0, <1>10, TakeTyped DEF HandleFailure, Turn
  <2> QED
    BY <1>0, <1>10, <2>1 DEF WellTyped, HandleFailure
<1>11. ASSUME NEW p \in Peers, HandleFails(p) PROVE WellTyped'
  BY <1>0, <1>11 DEF WellTyped, HandleFails
<1>12. ASSUME NEW b \in Blocks, TakePayment(b) \/ EndPayment(b) PROVE WellTyped'
  BY <1>0, <1>12 DEF WellTyped, TakePayment, EndPayment
<1>13. ASSUME NEW b \in Blocks, ProcessCommand(b) \/ ProcessCommandResponse(b) PROVE WellTyped'
  <2>1. wire' \in [Peers -> Channels]
    BY <1>0, <1>13, BuyersArePeers, SendTyped
    DEF ProcessCommand, ProcessCommandResponse, ForwardCommand, ForwardReply
  <2> QED
    BY <1>0, <1>13, <2>1 DEF WellTyped, ProcessCommand, ProcessCommandResponse
<1>14. ASSUME NEW b \in Blocks, ProcessPaymentResponse(b) PROVE WellTyped'
  <2>1. payment[b] \in {"paid", "failed"} /\ ForwardStatus(b)
    BY <1>14 DEF ProcessPaymentResponse
  <2>2. Origin(Buyer(b), b) # None => Origin(Buyer(b), b) \in Peers
    BY <1>0, BuyersArePeers DEF WellTyped, Origin
  <2>3. wire' \in [Peers -> Channels]
    <3>1. CASE Origin(Buyer(b), b) = None
      BY <1>0, <2>1, <3>1 DEF ForwardStatus, WellTyped
    <3>2. CASE Origin(Buyer(b), b) # None
      BY <1>0, <2>1, <2>2, <3>2, BuyersArePeers, SendTyped DEF ForwardStatus
    <3> QED
      BY <3>1, <3>2
  <2>4. dropped' \subseteq dropped \cup {b}
    BY <2>1 DEF ForwardStatus
  <2> QED
    BY <1>0, <1>14, <2>3, <2>4 DEF WellTyped, ProcessPaymentResponse
<1>15. CASE UNCHANGED vars
  BY <1>0, <1>15 DEF WellTyped, vars
<1> QED
  BY <1>1, <1>2, <1>3, <1>4, <1>5, <1>6, <1>7, <1>8, <1>9, <1>10, <1>11, <1>12, <1>13, <1>14,
     <1>15
  DEF Next, Gateway, Handle

LEMMA TypedInductive == Spec => []Typed
  BY InitTyped, TypedStep, PTL DEF Spec

(* TypeOK holds in every reachable state: the counters stay in uint32 range, the channel *)
(* never exceeds its capacity and only messages are ever in it.                          *)
THEOREM TypeCorrect == Spec => []TypeOK
<1>1. Typed => TypeOK
  BY WellTypedIsTypeOK DEF Typed
<1> QED
  BY <1>1, TypedInductive, PTL

-----------------------------------------------------------------------------
(***************************************************************************)
(* What is in a queue, and in which order: facts about sequences of        *)
(* messages that get one more at the end or lose their head.               *)
(***************************************************************************)
Within(s) == {s[i] : i \in 1..Len(s)}
Precedes(s, m, n) == \E i, j \in 1..Len(s) : i < j /\ s[i] = m /\ s[j] = n

LEMMA WithinAppend ==
  ASSUME NEW s \in Seq(Message), NEW x \in Message
  PROVE  Within(Append(s, x)) = Within(s) \cup {x}
<1>1. Len(Append(s, x)) = Len(s) + 1 /\ Len(s) \in Nat
  OBVIOUS
<1>2. \A i \in 1..Len(s) : Append(s, x)[i] = s[i]
  OBVIOUS
<1>3. Append(s, x)[Len(s) + 1] = x
  OBVIOUS
<1>4. \A y : y \in Within(Append(s, x)) => y \in Within(s) \cup {x}
  BY <1>1, <1>2, <1>3 DEF Within
<1>5. \A y : y \in Within(s) \cup {x} => y \in Within(Append(s, x))
  BY <1>1, <1>2, <1>3 DEF Within
<1> QED
  BY <1>4, <1>5

LEMMA WithinTail ==
  ASSUME NEW s \in Seq(Message), s # <<>>
  PROVE  Within(s) = Within(Tail(s)) \cup {Head(s)}
<1>1. Len(Tail(s)) = Len(s) - 1 /\ Len(s) \in Nat \ {0} /\ Head(s) = s[1]
  OBVIOUS
<1>2. \A i \in 1..Len(s) - 1 : Tail(s)[i] = s[i + 1]
  OBVIOUS
<1>3. ASSUME NEW y \in Within(s) PROVE y \in Within(Tail(s)) \cup {Head(s)}
  <2>1. PICK i \in 1..Len(s) : s[i] = y
    BY DEF Within
  <2>2. CASE i = 1
    BY <1>1, <2>1, <2>2
  <2>3. CASE i # 1
    <3>1. i - 1 \in 1..Len(s) - 1 /\ (i - 1) + 1 = i
      BY <1>1, <2>3
    <3>2. Tail(s)[i - 1] = y
      BY <1>2, <2>1, <3>1
    <3> QED
      BY <1>1, <3>1, <3>2 DEF Within
  <2> QED
    BY <2>2, <2>3
<1>4. ASSUME NEW y \in Within(Tail(s)) PROVE y \in Within(s)
  <2>1. PICK i \in 1..Len(Tail(s)) : Tail(s)[i] = y
    BY DEF Within
  <2>2. i + 1 \in 1..Len(s) /\ s[i + 1] = y
    BY <1>1, <1>2, <2>1
  <2> QED
    BY <2>2 DEF Within
<1>5. Head(s) \in Within(s)
  <2>1. 1 \in 1..Len(s)
    BY <1>1
  <2> QED
    BY <1>1, <2>1 DEF Within
<1> QED
  BY <1>3, <1>4, <1>5

LEMMA PrecedesAppend ==
  ASSUME NEW s \in Seq(Message), NEW x \in Message, NEW m, NEW n
  PROVE  Precedes(Append(s, x), m, n) <=> Precedes(s, m, n) \/ (m \in Within(s) /\ n = x)
<1>1. Len(Append(s, x)) = Len(s) + 1 /\ Len(s) \in Nat
  OBVIOUS
<1>2. \A i \in 1..Len(s) : Append(s, x)[i] = s[i]
  OBVIOUS
<1>3. Append(s, x)[Len(s) + 1] = x
  OBVIOUS
<1>4. ASSUME Precedes(Append(s, x), m, n) PROVE Precedes(s, m, n) \/ (m \in Within(s) /\ n = x)
  <2>1. PICK i, j \in 1..Len(s) + 1 : i < j /\ Append(s, x)[i] = m /\ Append(s, x)[j] = n
    BY <1>1, <1>4 DEF Precedes
  <2>2. i \in 1..Len(s) /\ s[i] = m
    BY <1>1, <1>2, <2>1
  <2>3. CASE j = Len(s) + 1
    BY <1>3, <2>1, <2>2, <2>3 DEF Within
  <2>4. CASE j # Len(s) + 1
    <3>1. j \in 1..Len(s) /\ s[j] = n
      BY <1>1, <1>2, <2>1, <2>4
    <3> QED
      BY <2>1, <2>2, <3>1 DEF Precedes
  <2> QED
    BY <2>3, <2>4
<1>5. ASSUME Precedes(s, m, n) PROVE Precedes(Append(s, x), m, n)
  <2>1. PICK i, j \in 1..Len(s) : i < j /\ s[i] = m /\ s[j] = n
    BY <1>5 DEF Precedes
  <2>2. i \in 1..Len(Append(s, x)) /\ j \in 1..Len(Append(s, x))
    BY <1>1
  <2>3. Append(s, x)[i] = m /\ Append(s, x)[j] = n
    BY <1>2, <2>1
  <2> QED
    BY <2>1, <2>2, <2>3 DEF Precedes
<1>6. ASSUME m \in Within(s), n = x PROVE Precedes(Append(s, x), m, n)
  <2>1. PICK i \in 1..Len(s) : s[i] = m
    BY <1>6 DEF Within
  <2>2. i \in 1..Len(Append(s, x)) /\ Len(s) + 1 \in 1..Len(Append(s, x)) /\ i < Len(s) + 1
    BY <1>1
  <2>3. Append(s, x)[i] = m /\ Append(s, x)[Len(s) + 1] = n
    BY <1>2, <1>3, <1>6, <2>1
  <2> QED
    BY <2>2, <2>3 DEF Precedes
<1> QED
  BY <1>4, <1>5, <1>6

LEMMA PrecedesTail ==
  ASSUME NEW s \in Seq(Message), s # <<>>, NEW m, NEW n
  PROVE  Precedes(s, m, n) <=> Precedes(Tail(s), m, n) \/ (m = Head(s) /\ n \in Within(Tail(s)))
<1>1. Len(Tail(s)) = Len(s) - 1 /\ Len(s) \in Nat \ {0} /\ Head(s) = s[1]
  OBVIOUS
<1>2. \A i \in 1..Len(s) - 1 : Tail(s)[i] = s[i + 1]
  OBVIOUS
<1>3. ASSUME Precedes(s, m, n)
      PROVE  Precedes(Tail(s), m, n) \/ (m = Head(s) /\ n \in Within(Tail(s)))
  <2>1. PICK i, j \in 1..Len(s) : i < j /\ s[i] = m /\ s[j] = n
    BY <1>3 DEF Precedes
  <2>2. j - 1 \in 1..Len(Tail(s)) /\ (j - 1) + 1 = j
    BY <1>1, <2>1
  <2>3. Tail(s)[j - 1] = n
    BY <1>1, <1>2, <2>1, <2>2
  <2>4. CASE i = 1
    BY <1>1, <2>1, <2>2, <2>3, <2>4 DEF Within
  <2>5. CASE i # 1
    <3>1. i - 1 \in 1..Len(Tail(s)) /\ (i - 1) + 1 = i /\ i - 1 < j - 1
      BY <1>1, <2>1, <2>5
    <3>2. Tail(s)[i - 1] = m
      BY <1>1, <1>2, <2>1, <3>1
    <3> QED
      BY <2>2, <2>3, <3>1, <3>2 DEF Precedes
  <2> QED
    BY <2>4, <2>5
<1>4. ASSUME Precedes(Tail(s), m, n) PROVE Precedes(s, m, n)
  <2>1. PICK i, j \in 1..Len(Tail(s)) : i < j /\ Tail(s)[i] = m /\ Tail(s)[j] = n
    BY <1>4 DEF Precedes
  <2>2. i + 1 \in 1..Len(s) /\ j + 1 \in 1..Len(s) /\ i + 1 < j + 1
    BY <1>1, <2>1
  <2>3. s[i + 1] = m /\ s[j + 1] = n
    BY <1>1, <1>2, <2>1
  <2> QED
    BY <2>2, <2>3 DEF Precedes
<1>5. ASSUME m = Head(s), n \in Within(Tail(s)) PROVE Precedes(s, m, n)
  <2>1. PICK j \in 1..Len(Tail(s)) : Tail(s)[j] = n
    BY <1>5 DEF Within
  <2>2. 1 \in 1..Len(s) /\ j + 1 \in 1..Len(s) /\ 1 < j + 1
    BY <1>1, <2>1
  <2>3. s[1] = m /\ s[j + 1] = n
    BY <1>1, <1>2, <1>5, <2>1
  <2> QED
    BY <2>2, <2>3 DEF Precedes
<1> QED
  BY <1>3, <1>4, <1>5

Note(kind, b) == [kind |-> kind, of |-> b]

LEMMA Notes ==
  ASSUME NEW m \in Message PROVE m.of \in Blocks /\ m = Note(m.kind, m.of)
  BY DEF Message, Note

(***************************************************************************)
(* What the steps do to the queues and the counters.                       *)
(***************************************************************************)

\* The loop takes what is neither a block nor about the request for its payment.
Skips(p) ==
  /\ queue[p] # <<>> /\ Head(queue[p]).kind \notin {"require", "block", "initiate"}
  /\ Take(p)
  /\ UNCHANGED <<life, block, wire, awaiting, transferred, received, amount, payment>>

\* A gateway's message to a peer.
Relays(p, q, kind, b) ==
  /\ kind \in {"command", "reply", "paid", "failed"}
  /\ Send(p, q, kind, b)
  /\ UNCHANGED <<life, block, queue, awaiting, transferred, received, amount, payment>>

\* The payments make progress; only one that is awaited begins, and no request is taken.
Idles ==
  /\ UNCHANGED <<block, wire, queue, transferred, received, amount>>
  /\ \A p \in Peers : awaiting'[p] \in {awaiting[p], None} /\ (life'[p] = "rejected" => life[p] = "rejected")
  /\ \A b \in Blocks : payment'[b] # "none" => payment[b] # "none" \/ awaiting[Buyer(b)] = b

LEMMA RelaysStep ==
  ASSUME Typed, NEW b \in Blocks,
         ProcessCommand(b) \/ ProcessCommandResponse(b) \/ ProcessPaymentResponse(b)
  PROVE  Idles \/ \E p, q \in Peers : \E kind \in {"command", "reply", "paid", "failed"} : Relays(p, q, kind, b)
<1> USE BuyersArePeers DEF debts, gateway
<1>1. CASE ProcessCommand(b)
  BY <1>1 DEF ProcessCommand, ForwardCommand, Relays
<1>2. CASE ProcessCommandResponse(b)
  BY <1>2 DEF ProcessCommandResponse, ForwardReply, Relays
<1>3. CASE ProcessPaymentResponse(b)
  <2>1. CASE Origin(Buyer(b), b) = None
    BY <1>3, <2>1 DEF ProcessPaymentResponse, ForwardStatus, Idles
  <2>2. CASE Origin(Buyer(b), b) # None
    <3>1. Origin(Buyer(b), b) \in Peers
      BY <2>2 DEF Typed, WellTyped, Origin
    <3>2. payment[b] \in {"paid", "failed"} /\ Send(Buyer(b), Origin(Buyer(b), b), payment[b], b)
      BY <1>3, <2>2 DEF ProcessPaymentResponse, ForwardStatus
    <3>3. Relays(Buyer(b), Origin(Buyer(b), b), payment[b], b)
      BY <1>3, <3>2 DEF Relays, ProcessPaymentResponse
    <3> QED
      BY <3>1, <3>2, <3>3
  <2> QED
    BY <2>1, <2>2
<1> QED
  BY <1>1, <1>2, <1>3

LEMMA IdlesStep ==
  ASSUME Typed
  PROVE  /\ \A p \in Peers : PaymentPosted(p) \/ HandleFails(p) => Idles
         /\ \A b \in Blocks : TakePayment(b) \/ EndPayment(b) => Idles
         /\ UNCHANGED vars => Idles
<1> USE DEF debts, gateway, Idles, Typed, WellTyped
<1>1. ASSUME NEW p \in Peers, PaymentPosted(p) PROVE Idles
  BY <1>1 DEF PaymentPosted
<1>2. ASSUME NEW p \in Peers, HandleFails(p) PROVE Idles
  BY <1>2 DEF HandleFails
<1>3. ASSUME NEW b \in Blocks, TakePayment(b) PROVE Idles
  BY <1>3 DEF TakePayment
<1>4. ASSUME NEW b \in Blocks, EndPayment(b) PROVE Idles
  BY <1>4 DEF EndPayment
<1>5. CASE UNCHANGED vars
  BY <1>5 DEF vars
<1> QED
  BY <1>1, <1>2, <1>3, <1>4, <1>5

LEMMA SkipsStep ==
  ASSUME NEW p \in Peers,
         HandleCommand(p) \/ HandleReply(p) \/ HandleStatus(p) \/ HandleFailure(p)
  PROVE  Skips(p)
  BY DEF HandleCommand, HandleReply, HandleStatus, HandleFailure, Turn, Skips, debts, gateway

LEMMA Steps ==
  ASSUME Typed, [Next]_vars
  PROVE  \/ \E b \in Blocks : SendBlock(b) \/ RequirePayment(b)
         \/ \E p, q \in Peers : Receive(p, q)
         \/ \E p \in Peers : HandleReceived(p) \/ HandleRequire(p) \/ HandleInitiate(p) \/ Skips(p)
         \/ \E p, q \in Peers : \E kind \in {"command", "reply", "paid", "failed"} :
              \E b \in Blocks : Relays(p, q, kind, b)
         \/ Idles
  BY RelaysStep, IdlesStep, SkipsStep DEF Next, Handle, Gateway

\* What the sequences of messages have become.
LEMMA SendMoves ==
  ASSUME WellTyped, NEW p \in Peers, NEW q \in Peers,
         NEW kind \in {"require", "block", "initiate", "command", "reply", "paid", "failed"},
         NEW b \in Blocks, Send(p, q, kind, b)
  PROVE  /\ Note(kind, b) \in Message /\ wire[p][q] \in Seq(Message)
         /\ wire'[p][q] = Append(wire[p][q], Note(kind, b))
         /\ \A r, t \in Peers : <<r, t>> # <<p, q>> => wire'[r][t] = wire[r][t]
<1>1. Note(kind, b) \in Message
  BY MessageTyped DEF Note
<1> DEFINE m == Note(kind, b)
<1>2. wire' = [wire EXCEPT ![p][q] = Append(@, m)]
  BY DEF Send, Note
<1> HIDE DEF m
<1> QED
  BY <1>1, <1>2 DEF WellTyped, Channels, m

LEMMA TakeMoves ==
  ASSUME WellTyped, NEW p \in Peers, queue[p] # <<>>, Take(p)
  PROVE  /\ queue[p] \in Seq(Message) /\ Head(queue[p]) \in Message
         /\ queue'[p] = Tail(queue[p])
         /\ \A r \in Peers : r # p => queue'[r] = queue[r]
         /\ Head(queue[p]) = Note(Head(queue[p]).kind, Taken(p)) /\ Taken(p) \in Blocks
<1>1. queue[p] \in Seq(Message) /\ Head(queue[p]) \in Message
  BY DEF WellTyped, Channels
<1> QED
  BY <1>1, Notes DEF WellTyped, Channels, Take, Taken

LEMMA ReceiveMoves ==
  ASSUME WellTyped, NEW p \in Peers, NEW q \in Peers, Receive(p, q)
  PROVE  /\ queue[q] \in Seq(Message) /\ wire[p][q] \in Seq(Message) /\ wire[p][q] # <<>>
         /\ Head(wire[p][q]) \in Message
         /\ queue'[q] = Append(queue[q], Head(wire[p][q]))
         /\ wire'[p][q] = Tail(wire[p][q])
         /\ \A r \in Peers : r # q => queue'[r] = queue[r]
         /\ \A r, t \in Peers : <<r, t>> # <<p, q>> => wire'[r][t] = wire[r][t]
         /\ UNCHANGED <<life, block, awaiting, transferred, received, amount, payment>>
<1>1. wire[p][q] \in Seq(Message) /\ queue[q] \in Seq(Message) /\ wire[p][q] # <<>>
  BY DEF WellTyped, Channels, Receive
<1>2. Head(wire[p][q]) \in Message
  BY <1>1
<1>3. queue' = [queue EXCEPT ![q] = Append(@, Head(wire[p][q]))]
      /\ wire' = [wire EXCEPT ![p][q] = Tail(@)]
  BY DEF Receive, Put
<1>4. UNCHANGED <<life, block, awaiting, transferred, received, amount, payment>>
  BY DEF Receive, debts, gateway
<1> QED
  BY <1>1, <1>2, <1>3, <1>4 DEF WellTyped, Channels

LEMMA RequireMoves ==
  ASSUME WellTyped, NEW b \in Blocks, RequirePayment(b)
  PROVE  /\ Note("require", b) \in Message /\ queue[Seller(b)] \in Seq(Message)
         /\ queue'[Seller(b)] = Append(queue[Seller(b)], Note("require", b))
         /\ \A r \in Peers : r # Seller(b) => queue'[r] = queue[r]
         /\ block[b] = "sent" /\ block'[b] = "billed"
         /\ \A c \in Blocks : c # b => block'[c] = block[c]
         /\ UNCHANGED <<life, wire, awaiting, transferred, received, amount, payment>>
<1>1. Note("require", b) \in Message /\ Seller(b) \in Peers
  BY MessageTyped, BuyersArePeers DEF Note
<1> DEFINE m == Note("require", b)
<1>2. queue' = [queue EXCEPT ![Seller(b)] = Append(@, m)]
  BY DEF RequirePayment, Put, Note
<1>3. /\ block[b] = "sent" /\ block' = [block EXCEPT ![b] = "billed"]
      /\ UNCHANGED <<life, wire, awaiting, transferred, received, amount, payment>>
  BY DEF RequirePayment, debts, gateway
<1> HIDE DEF m
<1> QED
  BY <1>1, <1>2, <1>3 DEF WellTyped, Channels, m

LEMMA SendBlockMoves ==
  ASSUME WellTyped, NEW b \in Blocks, SendBlock(b)
  PROVE  /\ Seller(b) \in Peers /\ Buyer(b) \in Peers
         /\ Send(Seller(b), Buyer(b), "block", b)
         /\ block[b] = "held" /\ block'[b] = "sent"
         /\ \A c \in Blocks : c # b => block'[c] = block[c]
         /\ UNCHANGED <<life, queue, awaiting, transferred, received, amount, payment>>
  BY BuyersArePeers DEF WellTyped, SendBlock, debts, gateway

LEMMA HandleRequireMoves ==
  ASSUME WellTyped, NEW p \in Peers, HandleRequire(p)
  PROVE  LET b == Taken(p)
             bytes == (transferred[p][Buyer(b)] + SizeOf[b]) % Word
         IN  /\ b \in Blocks /\ Buyer(b) \in Peers
             /\ queue[p] # <<>> /\ Take(p) /\ Head(queue[p]) = Note("require", b)
             /\ \A r, t \in Peers : <<r, t>> # <<p, Buyer(b)>> => transferred'[r][t] = transferred[r][t]
             /\ \A c \in Blocks : c # b => amount'[c] = amount[c]
             /\ bytes >= Threshold =>
                  /\ Send(p, Buyer(b), "initiate", b)
                  /\ amount'[b] = bytes /\ transferred'[p][Buyer(b)] = 0
             /\ ~(bytes >= Threshold) =>
                  transferred'[p][Buyer(b)] = bytes /\ UNCHANGED <<wire, amount>>
             /\ UNCHANGED <<life, block, awaiting, received, payment>>
<1> DEFINE b == Taken(p)
           bytes == (transferred[p][Buyer(b)] + SizeOf[b]) % Word
<1>1. queue[p] # <<>> /\ Take(p) /\ Head(queue[p]).kind = "require"
  BY DEF HandleRequire, Turn
<1>2. b \in Blocks /\ Head(queue[p]) = Note("require", b)
  BY <1>1, TakeMoves
<1>3. Buyer(b) \in Peers
  BY <1>2, BuyersArePeers
<1>4. /\ bytes >= Threshold =>
           /\ Send(p, Buyer(b), "initiate", b)
           /\ amount' = [amount EXCEPT ![b] = bytes]
           /\ transferred' = [transferred EXCEPT ![p][Buyer(b)] = 0]
      /\ ~(bytes >= Threshold) =>
           /\ transferred' = [transferred EXCEPT ![p][Buyer(b)] = bytes]
           /\ UNCHANGED <<wire, amount>>
      /\ UNCHANGED <<life, block, awaiting, received, payment>>
  BY DEF HandleRequire, gateway
<1>5. amount \in [Blocks -> 0 .. Word - 1] /\ transferred \in [Peers -> [Peers -> 0 .. Word - 1]]
  BY DEF WellTyped, Counters
<1> HIDE DEF b, bytes
<1>6. /\ \A r, t \in Peers : <<r, t>> # <<p, Buyer(b)>> => transferred'[r][t] = transferred[r][t]
      /\ \A c \in Blocks : c # b => amount'[c] = amount[c]
      /\ bytes >= Threshold => amount'[b] = bytes /\ transferred'[p][Buyer(b)] = 0
      /\ ~(bytes >= Threshold) => transferred'[p][Buyer(b)] = bytes
  BY <1>2, <1>3, <1>4, <1>5
<1> QED
  BY <1>1, <1>2, <1>3, <1>4, <1>6 DEF b, bytes

LEMMA HandleReceivedMoves ==
  ASSUME WellTyped, NEW p \in Peers, HandleReceived(p)
  PROVE  LET b == Taken(p)
         IN  /\ b \in Blocks /\ Seller(b) \in Peers
             /\ queue[p] # <<>> /\ Take(p) /\ Head(queue[p]) = Note("block", b)
             /\ received'[p][Seller(b)] = (received[p][Seller(b)] + SizeOf[b]) % Word
             /\ \A r, t \in Peers : <<r, t>> # <<p, Seller(b)>> => received'[r][t] = received[r][t]
             /\ UNCHANGED <<life, block, wire, awaiting, transferred, amount, payment>>
<1> DEFINE b == Taken(p)
           bytes == (received[p][Seller(b)] + SizeOf[b]) % Word
<1>1. queue[p] # <<>> /\ Take(p) /\ Head(queue[p]).kind = "block"
  BY DEF HandleReceived, Turn
<1>2. b \in Blocks /\ Head(queue[p]) = Note("block", b)
  BY <1>1, TakeMoves
<1>3. Seller(b) \in Peers
  BY <1>2, BuyersArePeers
<1>4. /\ received' = [received EXCEPT ![p][Seller(b)] = bytes]
      /\ UNCHANGED <<life, block, wire, awaiting, transferred, amount, payment>>
  BY DEF HandleReceived, gateway
<1>5. received \in [Peers -> [Peers -> 0 .. Word - 1]]
  BY DEF WellTyped, Counters
<1> HIDE DEF b, bytes
<1>6. /\ received'[p][Seller(b)] = bytes
      /\ \A r, t \in Peers : <<r, t>> # <<p, Seller(b)>> => received'[r][t] = received[r][t]
  BY <1>2, <1>3, <1>4, <1>5
<1> QED
  BY <1>1, <1>2, <1>3, <1>4, <1>6 DEF b, bytes

LEMMA HandleInitiateMoves ==
  ASSUME WellTyped, NEW p \in Peers, HandleInitiate(p)
  PROVE  LET b == Taken(p)
         IN  /\ b \in Blocks
             /\ queue[p] # <<>> /\ Take(p) /\ Head(queue[p]) = Note("initiate", b)
             /\ \/ UNCHANGED life /\ awaiting' = [awaiting EXCEPT ![p] = b]
                \/ (Quantity(b) > received[p][Seller(b)] \/ 0 > received[p][Seller(b)]) /\ UNCHANGED awaiting
             /\ UNCHANGED <<block, wire, transferred, received, amount, payment>>
<1>1. queue[p] # <<>> /\ Take(p) /\ Head(queue[p]).kind = "initiate"
  BY DEF HandleInitiate, Turn
<1>2. Taken(p) \in Blocks /\ Head(queue[p]) = Note("initiate", Taken(p))
  BY <1>1, TakeMoves
<1>3. PICK quantity \in Validated(Taken(p)) :
        IF quantity > received[p][Seller(Taken(p))]
        THEN UNCHANGED awaiting
        ELSE awaiting' = [awaiting EXCEPT ![p] = Taken(p)] /\ UNCHANGED life
  BY DEF HandleInitiate
<1>4. quantity = Quantity(Taken(p)) \/ quantity = 0
  BY DEF Validated
<1>5. UNCHANGED <<block, wire, transferred, received, amount, payment>>
  BY DEF HandleInitiate, debts, gateway
<1> QED
  BY <1>1, <1>2, <1>3, <1>4, <1>5

-----------------------------------------------------------------------------
(***************************************************************************)
(* Charging.  A block that is billed waits once in its sender's queue, and *)
(* has no request before it is taken off it; afterwards its bytes are in   *)
(* the counter or in a request, never in two.                              *)
(***************************************************************************)
Bills ==
  /\ \A p, q \in Peers : \A m \in Within(wire[p][q]) : m.kind # "require"
  /\ \A p \in Peers : \A m \in Within(queue[p]) : m.kind = "require" =>
       Seller(m.of) = p /\ block[m.of] = "billed" /\ ~Precedes(queue[p], m, m)
  /\ \A b \in Blocks : amount[b] # 0 =>
       block[b] = "billed" /\ Note("require", b) \notin Within(queue[Seller(b)])
  /\ \A p, q \in Peers : transferred[p][q] < Threshold

LEMMA BillsSend ==
  ASSUME WellTyped, Bills, NEW p \in Peers, NEW q \in Peers,
         NEW kind \in {"block", "initiate", "command", "reply", "paid", "failed"},
         NEW b \in Blocks, Send(p, q, kind, b)
  PROVE  \A r, t \in Peers : \A m \in Within(wire'[r][t]) : m.kind # "require"
<1>1. /\ Note(kind, b) \in Message /\ wire[p][q] \in Seq(Message)
      /\ wire'[p][q] = Append(wire[p][q], Note(kind, b))
      /\ \A r, t \in Peers : <<r, t>> # <<p, q>> => wire'[r][t] = wire[r][t]
  BY SendMoves
<1>2. Within(wire'[p][q]) = Within(wire[p][q]) \cup {Note(kind, b)}
  BY <1>1, WithinAppend
<1>3. Note(kind, b).kind # "require"
  BY DEF Note
<1> TAKE r, t \in Peers
<1>4. CASE r = p /\ t = q
  BY <1>2, <1>3, <1>4 DEF Bills
<1>5. CASE <<r, t>> # <<p, q>>
  BY <1>1, <1>5 DEF Bills
<1> QED
  BY <1>4, <1>5

\* The queue that loses its head, and the bills in it.
LEMMA BillsTake ==
  ASSUME WellTyped, Bills, NEW p \in Peers, queue[p] # <<>>, Take(p)
  PROVE  /\ \A r \in Peers : Within(queue'[r]) \subseteq Within(queue[r])
         /\ \A r \in Peers : \A m \in Within(queue'[r]) : m.kind = "require" =>
              ~Precedes(queue'[r], m, m)
         /\ Head(queue[p]).kind = "require" => Head(queue[p]) \notin Within(queue'[p])
         /\ \A b \in Blocks, r \in Peers : Note("require", b) # Head(queue[p]) =>
              (Note("require", b) \in Within(queue'[r]) <=> Note("require", b) \in Within(queue[r]))
<1>1. /\ queue[p] \in Seq(Message) /\ queue'[p] = Tail(queue[p])
      /\ \A r \in Peers : r # p => queue'[r] = queue[r]
  BY TakeMoves
<1>2. Within(queue[p]) = Within(queue'[p]) \cup {Head(queue[p])}
  BY <1>1, WithinTail
<1>3. \A m, n : Precedes(queue[p], m, n) <=>
               Precedes(queue'[p], m, n) \/ (m = Head(queue[p]) /\ n \in Within(queue'[p]))
  BY <1>1, PrecedesTail
<1> QED
  BY <1>1, <1>2, <1>3 DEF Bills

LEMMA BillsStep ==
  Typed /\ Bills /\ [Next]_vars => Bills'
<1> SUFFICES ASSUME Typed, Bills, [Next]_vars PROVE Bills'
  OBVIOUS
<1>0. WellTyped
  BY DEF Typed
<1>1. ASSUME NEW b \in Blocks, SendBlock(b) PROVE Bills'
  <2>1. /\ Seller(b) \in Peers /\ Buyer(b) \in Peers
        /\ Send(Seller(b), Buyer(b), "block", b)
        /\ block[b] = "held" /\ \A c \in Blocks : c # b => block'[c] = block[c]
        /\ UNCHANGED <<queue, transferred, amount>>
    BY <1>0, <1>1, SendBlockMoves
  <2>2. \A r, t \in Peers : \A m \in Within(wire'[r][t]) : m.kind # "require"
    BY <1>0, <2>1, BillsSend
  <2>3. \A r \in Peers : \A m \in Within(queue[r]) : m.of \in Blocks
    BY <1>0, Notes DEF WellTyped, Channels, Within
  <2> QED
    BY <2>1, <2>2, <2>3 DEF Bills
<1>2. ASSUME NEW b \in Blocks, RequirePayment(b) PROVE Bills'
  <2> DEFINE p == Seller(b)
             m == Note("require", b)
  <2>1. /\ m \in Message /\ queue[p] \in Seq(Message)
        /\ queue'[p] = Append(queue[p], m)
        /\ \A r \in Peers : r # p => queue'[r] = queue[r]
        /\ block[b] = "sent" /\ block'[b] = "billed"
        /\ \A c \in Blocks : c # b => block'[c] = block[c]
        /\ UNCHANGED <<wire, transferred, amount>>
    BY <1>0, <1>2, RequireMoves
  <2>2. p \in Peers /\ m.kind = "require" /\ m.of = b
    BY BuyersArePeers DEF Note
  <2>3. m \notin Within(queue[p])
    BY <2>1, <2>2 DEF Bills
  <2> HIDE DEF p, m
  <2>4. Within(queue'[p]) = Within(queue[p]) \cup {m}
    BY <2>1, WithinAppend
  <2>5. \A n : Precedes(queue'[p], n, n) => Precedes(queue[p], n, n) \/ (n \in Within(queue[p]) /\ n = m)
    BY <2>1, PrecedesAppend
  <2>6. \A r \in Peers : \A n \in Within(queue'[r]) : n.kind = "require" =>
          Seller(n.of) = r /\ block'[n.of] = "billed" /\ ~Precedes(queue'[r], n, n)
    <3> TAKE r \in Peers
    <3> TAKE n \in Within(queue'[r])
    <3> HAVE n.kind = "require"
    <3>1. CASE n = m
      <4>1. r = p
        BY <2>1, <2>2, <2>4, <3>1 DEF Bills, p
      <4>2. Precedes(queue[p], m, m) => m \in Within(queue[p])
        BY DEF Precedes, Within
      <4> QED
        BY <2>1, <2>2, <2>3, <2>5, <3>1, <4>1, <4>2 DEF p
    <3>2. CASE n # m
      <4>1. n \in Within(queue[r])
        BY <2>1, <2>4, <3>2
      <4>2. Seller(n.of) = r /\ block[n.of] = "billed" /\ ~Precedes(queue[r], n, n)
        BY <4>1 DEF Bills
      <4>3. n.of \in Blocks
        BY <1>0, <4>1, Notes DEF WellTyped, Channels, Within
      <4>4. block'[n.of] = "billed"
        BY <2>1, <4>2, <4>3
      <4>5. ~Precedes(queue'[r], n, n)
        BY <2>1, <2>5, <3>2, <4>2
      <4> QED
        BY <4>2, <4>4, <4>5
    <3> QED
      BY <3>1, <3>2
  <2>7. \A c \in Blocks : amount[c] # 0 =>
          block'[c] = "billed" /\ Note("require", c) \notin Within(queue'[Seller(c)])
    <3> TAKE c \in Blocks
    <3> HAVE amount[c] # 0
    <3>1. block[c] = "billed" /\ Note("require", c) \notin Within(queue[Seller(c)])
      BY DEF Bills
    <3>2. c # b
      BY <2>1, <3>1
    <3>3. Note("require", c) # m
      BY <2>2, <3>2 DEF Note
    <3> QED
      BY <2>1, <2>4, <3>1, <3>2, <3>3, BuyersArePeers
  <2> QED
    BY <2>1, <2>6, <2>7 DEF Bills
<1>3. ASSUME NEW p \in Peers, NEW q \in Peers, Receive(p, q) PROVE Bills'
  <2> DEFINE h == Head(wire[p][q])
  <2>1. /\ queue[q] \in Seq(Message) /\ wire[p][q] \in Seq(Message) /\ wire[p][q] # <<>>
        /\ h \in Message
        /\ queue'[q] = Append(queue[q], h)
        /\ wire'[p][q] = Tail(wire[p][q])
        /\ \A r \in Peers : r # q => queue'[r] = queue[r]
        /\ \A r, t \in Peers : <<r, t>> # <<p, q>> => wire'[r][t] = wire[r][t]
        /\ UNCHANGED <<block, transferred, amount>>
    BY <1>0, <1>3, ReceiveMoves
  <2>2. Within(wire[p][q]) = Within(wire'[p][q]) \cup {h}
    BY <2>1, WithinTail
  <2>3. h.kind # "require"
    BY <2>2 DEF Bills
  <2> HIDE DEF h
  <2>4. Within(queue'[q]) = Within(queue[q]) \cup {h}
    BY <2>1, WithinAppend
  <2>5. \A n : Precedes(queue'[q], n, n) => Precedes(queue[q], n, n) \/ n = h
    BY <2>1, PrecedesAppend
  <2>6. \A r, t \in Peers : \A m \in Within(wire'[r][t]) : m.kind # "require"
    BY <2>1, <2>2 DEF Bills
  <2>7. \A r \in Peers : \A n \in Within(queue'[r]) : n.kind = "require" =>
          n \in Within(queue[r]) /\ (Precedes(queue'[r], n, n) => Precedes(queue[r], n, n))
    BY <2>1, <2>3, <2>4, <2>5
  <2>8. \A c \in Blocks : Note("require", c) # h
    BY <2>3 DEF Note
  <2>9. \A c \in Blocks, r \in Peers : Note("require", c) \in Within(queue'[r]) =>
          Note("require", c) \in Within(queue[r])
    BY <2>1, <2>4, <2>8
  <2> QED
    BY <2>1, <2>6, <2>7, <2>9, BuyersArePeers DEF Bills
<1>4. ASSUME NEW p \in Peers, HandleRequire(p) PROVE Bills'
  <2> DEFINE b == Taken(p)
             bytes == (transferred[p][Buyer(b)] + SizeOf[b]) % Word
  <2>1. /\ b \in Blocks /\ Buyer(b) \in Peers
        /\ queue[p] # <<>> /\ Take(p) /\ Head(queue[p]) = Note("require", b)
        /\ \A r, t \in Peers : <<r, t>> # <<p, Buyer(b)>> => transferred'[r][t] = transferred[r][t]
        /\ \A c \in Blocks : c # b => amount'[c] = amount[c]
        /\ bytes >= Threshold =>
             /\ Send(p, Buyer(b), "initiate", b)
             /\ amount'[b] = bytes /\ transferred'[p][Buyer(b)] = 0
        /\ ~(bytes >= Threshold) =>
             transferred'[p][Buyer(b)] = bytes /\ UNCHANGED <<wire, amount>>
        /\ UNCHANGED block
    BY <1>0, <1>4, HandleRequireMoves
  <2>2. bytes \in Int /\ Threshold \in Nat \ {0}
    <3>1. transferred[p][Buyer(b)] + SizeOf[b] \in Int
      BY <1>0, <2>1, CountersAreNat, PeersAssumption
    <3>2. (transferred[p][Buyer(b)] + SizeOf[b]) % Word \in 0 .. Word - 1
      BY <3>1, WordTyped
    <3> QED
      BY <3>2, PeersAssumption
  <2> HIDE DEF b, bytes
  <2>3. /\ \A r \in Peers : Within(queue'[r]) \subseteq Within(queue[r])
        /\ \A r \in Peers : \A m \in Within(queue'[r]) : m.kind = "require" =>
             ~Precedes(queue'[r], m, m)
        /\ Note("require", b) \notin Within(queue'[p])
    <3>1. Note("require", b).kind = "require"
      BY DEF Note
    <3> QED
      BY <1>0, <2>1, <3>1, BillsTake
  <2>4. Seller(b) = p /\ block[b] = "billed"
    <3>1. Head(queue[p]) \in Within(queue[p])
      BY <1>0, <2>1, WithinTail, TakeMoves
    <3>2. Note("require", b).kind = "require" /\ Note("require", b).of = b
      BY DEF Note
    <3> QED
      BY <2>1, <3>1, <3>2 DEF Bills
  <2>5. \A r, t \in Peers : \A m \in Within(wire'[r][t]) : m.kind # "require"
    BY <1>0, <2>1, BillsSend DEF Bills
  <2>6. \A r, t \in Peers : transferred'[r][t] < Threshold
    BY <2>1, <2>2 DEF Bills
  <2>7. \A c \in Blocks : amount'[c] # 0 =>
          block'[c] = "billed" /\ Note("require", c) \notin Within(queue'[Seller(c)])
    BY <2>1, <2>3, <2>4, BuyersArePeers DEF Bills
  <2>8. \A r \in Peers : \A m \in Within(queue'[r]) : m.kind = "require" =>
          Seller(m.of) = r /\ block'[m.of] = "billed" /\ ~Precedes(queue'[r], m, m)
    <3>1. \A r \in Peers : \A m \in Within(queue'[r]) : m.kind = "require" =>
            Seller(m.of) = r /\ block[m.of] = "billed"
      BY <2>3 DEF Bills
    <3> QED
      BY <2>1, <2>3, <3>1
  <2> QED
    BY <2>5, <2>6, <2>7, <2>8 DEF Bills
<1>5. ASSUME NEW p \in Peers, queue[p] # <<>>, Take(p),
             UNCHANGED <<block, wire, transferred, amount>>
      PROVE  Bills'
  <2>1. /\ \A r \in Peers : Within(queue'[r]) \subseteq Within(queue[r])
        /\ \A r \in Peers : \A m \in Within(queue'[r]) : m.kind = "require" =>
             ~Precedes(queue'[r], m, m)
    BY <1>0, <1>5, BillsTake
  <2> QED
    BY <1>5, <2>1, BuyersArePeers DEF Bills
<1>6. ASSUME NEW p \in Peers, NEW q \in Peers, NEW kind \in {"command", "reply", "paid", "failed"},
             NEW b \in Blocks, Relays(p, q, kind, b)
      PROVE  Bills'
  <2>1. \A r, t \in Peers : \A m \in Within(wire'[r][t]) : m.kind # "require"
    BY <1>0, <1>6, BillsSend DEF Relays
  <2> QED
    BY <1>6, <2>1 DEF Relays, Bills
<1>7. CASE Idles
  BY <1>7 DEF Idles, Bills
<1>8. ASSUME NEW p \in Peers, HandleReceived(p) \/ HandleInitiate(p) \/ Skips(p) PROVE Bills'
  BY <1>0, <1>5, <1>8, HandleReceivedMoves, HandleInitiateMoves DEF Skips
<1> QED
  BY <1>1, <1>2, <1>3, <1>4, <1>6, <1>7, <1>8, Steps

LEMMA BillsInit == Init => Bills
<1> SUFFICES ASSUME Init PROVE Bills
  OBVIOUS
<1>1. Within(<<>>) = {}
  BY DEF Within
<1>2. \A p, q \in Peers : Within(queue[p]) = {} /\ Within(wire[p][q]) = {} /\ transferred[p][q] = 0
  BY <1>1 DEF Init
<1>3. 0 < Threshold /\ \A b \in Blocks : amount[b] = 0
  BY PeersAssumption DEF Init
<1> QED
  BY <1>2, <1>3 DEF Bills

-----------------------------------------------------------------------------
\* The blocks that p has charged q for.
Charged(p, q) ==
  {b \in Between(p, q) : block[b] = "billed" /\ Note("require", b) \notin Within(queue[p])}

Accounted ==
  \A p, q \in Peers :
    transferred[p][q] + SumOver(amount, Between(p, q)) = SumOver(SizeOf, Charged(p, q))

LEMMA Finite ==
  ASSUME IsFiniteSet(Blocks), NEW S \in SUBSET Blocks PROVE IsFiniteSet(S)
  BY FS_Subset

LEMMA AmountsAreNat ==
  ASSUME WellTyped PROVE \A b \in Blocks : amount[b] \in Nat /\ SizeOf[b] \in Nat
  BY PriceAssumption, PeersAssumption DEF WellTyped

\* Only the handler of a bill charges.
LEMMA ChargedKept ==
  ASSUME Typed, Bills, [Next]_vars, \A p \in Peers : ~HandleRequire(p), NEW p \in Peers, NEW q \in Peers
  PROVE  Charged(p, q)' = Charged(p, q) /\ UNCHANGED <<transferred, amount>>
<1>0. WellTyped
  BY DEF Typed
<1>1. ASSUME NEW b \in Blocks, SendBlock(b) PROVE Charged(p, q)' = Charged(p, q) /\ UNCHANGED <<transferred, amount>>
  <2>1. /\ block[b] = "held" /\ block'[b] = "sent" /\ \A c \in Blocks : c # b => block'[c] = block[c]
        /\ UNCHANGED <<queue, transferred, amount>>
    BY <1>0, <1>1, SendBlockMoves
  <2> QED
    BY <2>1 DEF Charged, Between
<1>2. ASSUME NEW b \in Blocks, RequirePayment(b) PROVE Charged(p, q)' = Charged(p, q) /\ UNCHANGED <<transferred, amount>>
  <2>1. /\ Note("require", b) \in Message /\ queue[Seller(b)] \in Seq(Message)
        /\ queue'[Seller(b)] = Append(queue[Seller(b)], Note("require", b))
        /\ \A r \in Peers : r # Seller(b) => queue'[r] = queue[r]
        /\ block[b] = "sent" /\ block'[b] = "billed"
        /\ \A c \in Blocks : c # b => block'[c] = block[c]
        /\ UNCHANGED <<transferred, amount>>
    BY <1>0, <1>2, RequireMoves
  <2>2. Within(queue'[Seller(b)]) = Within(queue[Seller(b)]) \cup {Note("require", b)}
    BY <2>1, WithinAppend
  <2>3. \A c \in Blocks : c # b => Note("require", c) # Note("require", b)
    BY DEF Note
  <2>4. \A c \in Blocks : c # b =>
          (Note("require", c) \in Within(queue'[p]) <=> Note("require", c) \in Within(queue[p]))
    BY <2>1, <2>2, <2>3
  <2>5. Seller(b) = p => Note("require", b) \in Within(queue'[p])
    BY <2>2
  <2> QED
    BY <2>1, <2>4, <2>5 DEF Charged, Between
<1>3. ASSUME NEW r \in Peers, NEW t \in Peers, Receive(r, t)
      PROVE Charged(p, q)' = Charged(p, q) /\ UNCHANGED <<transferred, amount>>
  <2> DEFINE h == Head(wire[r][t])
  <2>1. /\ queue[t] \in Seq(Message) /\ wire[r][t] \in Seq(Message) /\ wire[r][t] # <<>>
        /\ h \in Message
        /\ queue'[t] = Append(queue[t], h)
        /\ \A u \in Peers : u # t => queue'[u] = queue[u]
        /\ UNCHANGED <<block, transferred, amount>>
    BY <1>0, <1>3, ReceiveMoves
  <2>2. h \in Within(wire[r][t])
    BY <2>1, WithinTail
  <2>3. h.kind # "require"
    BY <2>2 DEF Bills
  <2> HIDE DEF h
  <2>4. Within(queue'[t]) = Within(queue[t]) \cup {h}
    BY <2>1, WithinAppend
  <2>5. \A c \in Blocks : Note("require", c) # h
    BY <2>3 DEF Note
  <2>6. \A c \in Blocks : Note("require", c) \in Within(queue'[p]) <=> Note("require", c) \in Within(queue[p])
    <3>1. CASE p = t
      BY <2>4, <2>5, <3>1
    <3>2. CASE p # t
      BY <2>1, <3>2
    <3> QED
      BY <3>1, <3>2
  <2> QED
    BY <2>1, <2>6 DEF Charged, Between
<1>4. ASSUME NEW r \in Peers, HandleReceived(r) \/ HandleInitiate(r) \/ Skips(r)
      PROVE Charged(p, q)' = Charged(p, q) /\ UNCHANGED <<transferred, amount>>
  <2>1. queue[r] # <<>> /\ Take(r) /\ UNCHANGED <<block, transferred, amount>>
    BY <1>0, <1>4, HandleReceivedMoves, HandleInitiateMoves DEF Skips
  <2>2. Head(queue[r]).kind # "require"
    BY <1>4 DEF HandleReceived, HandleInitiate, Turn, Skips
  <2>3. \A c \in Blocks : Note("require", c) # Head(queue[r])
    BY <2>2 DEF Note
  <2>4. \A c \in Blocks : Note("require", c) \in Within(queue'[p]) <=> Note("require", c) \in Within(queue[p])
    BY <1>0, <2>1, <2>3, BillsTake
  <2> QED
    BY <2>1, <2>4 DEF Charged, Between
<1>5. ASSUME UNCHANGED <<block, queue, transferred, amount>>
      PROVE Charged(p, q)' = Charged(p, q) /\ UNCHANGED <<transferred, amount>>
  BY <1>5 DEF Charged, Between
<1> QED
  BY <1>1, <1>2, <1>3, <1>4, <1>5, Steps DEF Relays, Idles

\* The bytes of a bill go to the counter, and with the counter into a request.
LEMMA BillAccounted ==
  ASSUME IsFiniteSet(Blocks), \A b \in Blocks : Threshold + SizeOf[b] <= Word,
         Typed, Bills, Accounted, NEW p \in Peers, HandleRequire(p),
         NEW b \in Blocks, b = Taken(p), NEW t \in Peers, t = Buyer(b)
  PROVE  Accounted'
<1>0. WellTyped
  BY DEF Typed
<1> DEFINE bytes == (transferred[p][t] + SizeOf[b]) % Word
<1>1. /\ queue[p] # <<>> /\ Take(p) /\ Head(queue[p]) = Note("require", b)
      /\ \A r, u \in Peers : <<r, u>> # <<p, t>> => transferred'[r][u] = transferred[r][u]
      /\ \A c \in Blocks : c # b => amount'[c] = amount[c]
      /\ bytes >= Threshold => amount'[b] = bytes /\ transferred'[p][t] = 0
      /\ ~(bytes >= Threshold) => transferred'[p][t] = bytes /\ UNCHANGED amount
      /\ UNCHANGED block
  BY <1>0, HandleRequireMoves
<1>2. bytes = transferred[p][t] + SizeOf[b]
  <2>1. transferred[p][t] + SizeOf[b] \in 0 .. Word - 1
    <3>1. transferred[p][t] < Threshold /\ transferred[p][t] \in Nat
      BY <1>0, <1>1, CountersAreNat DEF Bills
    <3>2. SizeOf[b] \in Nat /\ Threshold + SizeOf[b] <= Word /\ Threshold \in Nat /\ Word \in Nat
      BY <1>1, PeersAssumption, PriceAssumption
    <3> QED
      BY <3>1, <3>2
  <2>2. \A n \in 0 .. Word - 1 : n % Word = n
    BY PriceAssumption, SMT
  <2> QED
    BY <2>1, <2>2
<1>3. transferred[p][t] \in Nat /\ SizeOf[b] \in Nat
  BY <1>0, <1>1, CountersAreNat, AmountsAreNat
<1> HIDE DEF bytes
<1>4. /\ Note("require", b) \notin Within(queue'[p])
      /\ \A c \in Blocks, r \in Peers : c # b =>
           (Note("require", c) \in Within(queue'[r]) <=> Note("require", c) \in Within(queue[r]))
  <2>1. Note("require", b).kind = "require" /\ \A c \in Blocks : c # b => Note("require", c) # Note("require", b)
    BY DEF Note
  <2> QED
    BY <1>0, <1>1, <2>1, BillsTake
<1>5. Seller(b) = p /\ block[b] = "billed" /\ Note("require", b) \in Within(queue[p])
  <2>1. Head(queue[p]) \in Within(queue[p])
    BY <1>0, <1>1, WithinTail, TakeMoves
  <2>2. Note("require", b).kind = "require" /\ Note("require", b).of = b
    BY DEF Note
  <2> QED
    BY <1>1, <2>1, <2>2 DEF Bills
<1>6. amount[b] = 0
  BY <1>1, <1>5 DEF Bills
<1>7. ASSUME NEW r \in Peers, NEW u \in Peers
      PROVE  transferred'[r][u] + SumOver(amount', Between(r, u)) = SumOver(SizeOf, Charged(r, u)')
  <2>1. transferred[r][u] + SumOver(amount, Between(r, u)) = SumOver(SizeOf, Charged(r, u))
    BY DEF Accounted
  <2>2. IsFiniteSet(Between(r, u)) /\ IsFiniteSet(Charged(r, u)) /\ Charged(r, u) \subseteq Blocks
        /\ Between(r, u) \subseteq Blocks
    BY Finite DEF Between, Charged
  <2>3. CASE <<r, u>> # <<p, t>>
    <3>1. b \notin Between(r, u)
      BY <1>5, <2>3 DEF Between
    <3>2. SumOver(amount', Between(r, u)) = SumOver(amount, Between(r, u))
      <4>1. \A c \in Between(r, u) : amount'[c] = amount[c]
        BY <1>1, <2>2, <3>1
      <4> QED
        BY <2>2, <4>1, SumSame
    <3>3. Charged(r, u)' = Charged(r, u)
      BY <1>1, <1>4, <3>1 DEF Charged, Between
    <3> QED
      BY <1>1, <2>1, <2>3, <3>2, <3>3
  <2>4. CASE r = p /\ u = t
    <3>1. b \in Between(p, t) /\ b \notin Charged(p, t)
      BY <1>1, <1>5 DEF Between, Charged
    <3>2. Charged(p, t)' = Charged(p, t) \cup {b}
      <4>1. \A c \in Blocks : c # b =>
              (Note("require", c) \in Within(queue'[p]) <=> Note("require", c) \in Within(queue[p]))
        BY <1>4
      <4>2. block[b] = "billed" /\ block' = block /\ Note("require", b) \notin Within(queue'[p])
        BY <1>1, <1>4, <1>5
      <4>3. b \in Blocks /\ Seller(b) = p /\ Buyer(b) = t
        BY <1>5
      <4>4. Charged(p, t)' = {c \in Between(p, t) : block[c] = "billed" /\ Note("require", c) \notin Within(queue'[p])}
        BY <4>2 DEF Charged, Between
      <4>5. b \in Between(p, t)
        BY <4>3 DEF Between
      <4> QED
        BY <4>1, <4>2, <4>4, <4>5 DEF Charged, Between
    <3>3. SumOver(SizeOf, Charged(p, t) \cup {b}) = SizeOf[b] + SumOver(SizeOf, Charged(p, t))
      <4>1. (\A c \in Charged(p, t) : SizeOf[c] \in Int) /\ SizeOf[b] \in Int
        BY <1>0, <1>3, <2>2, <2>4, AmountsAreNat
      <4> QED
        BY <2>2, <2>4, <3>1, <4>1, SumAdd
    <3> DEFINE rest == SumOver(amount, Between(p, t) \ {b})
    <3>4. SumOver(amount, Between(p, t)) = amount[b] + rest
      <4>1. \A c \in Between(p, t) : amount[c] \in Int
        BY <1>0, <2>2, <2>4, AmountsAreNat
      <4> QED
        BY <2>2, <2>4, <3>1, <4>1, SumRemove
    <3>5. amount'[b] \in Int /\ SumOver(amount', Between(p, t)) = amount'[b] + rest
      <4>1. amount'[b] \in Int
        BY <1>1, <1>2, <1>3, <1>6
      <4>2. \A c \in Between(p, t) : amount'[c] \in Int
        BY <1>0, <1>1, <2>2, <2>4, <4>1, AmountsAreNat
      <4>3. SumOver(amount', Between(p, t)) = amount'[b] + SumOver(amount', Between(p, t) \ {b})
        BY <2>2, <2>4, <3>1, <4>2, SumRemove
      <4>4. IsFiniteSet(Between(p, t) \ {b})
        BY <2>2, <2>4, FS_RemoveElement
      <4>5. \A c \in Between(p, t) \ {b} : amount'[c] = amount[c]
        BY <1>1, <2>2, <2>4
      <4>6. SumOver(amount', Between(p, t) \ {b}) = rest
        BY <4>4, <4>5, SumSame
      <4> QED
        BY <4>1, <4>3, <4>6
    <3>6. rest \in Int /\ SumOver(SizeOf, Charged(p, t)) \in Int
      <4>1. IsFiniteSet(Between(p, t) \ {b})
        BY <2>2, <2>4, FS_RemoveElement
      <4>2. \A c \in Between(p, t) \ {b} : amount[c] \in Int
        BY <1>0, <2>2, <2>4, AmountsAreNat
      <4>3. \A c \in Charged(p, t) : SizeOf[c] \in Int
        BY <1>0, <2>2, <2>4, AmountsAreNat
      <4> QED
        BY <2>2, <2>4, <4>1, <4>2, <4>3, SumInteger
    <3>7. transferred'[p][t] + amount'[b] = transferred[p][t] + SizeOf[b]
      BY <1>1, <1>2, <1>3, <1>6
    <3>8. transferred'[p][t] \in Int
      BY <1>1, <1>2, <1>3
    <3> DEFINE all == SumOver(SizeOf, Charged(p, t))
    <3>9. transferred[p][t] + rest = all
      BY <1>6, <2>1, <2>4, <3>4, <3>6
    <3>10. transferred'[p][t] + (amount'[b] + rest) = SizeOf[b] + all
      <4> HIDE DEF all, rest
      <4>1. rest \in Int /\ all \in Int
        BY <3>6 DEF all, rest
      <4> QED
        BY <1>3, <3>5, <3>7, <3>8, <3>9, <4>1
    <3>11. SumOver(SizeOf, Charged(p, t)') = SizeOf[b] + all
      BY <3>2, <3>3
    <3>12. transferred'[p][t] + SumOver(amount', Between(p, t)) = SumOver(SizeOf, Charged(p, t)')
      <4> HIDE DEF all, rest
      <4> QED
        BY <3>5, <3>10, <3>11 DEF rest
    <3> HIDE DEF all, rest
    <3> QED
      BY <2>4, <3>12
  <2> QED
    BY <2>3, <2>4
<1>8. \A r, u \in Peers : Between(r, u)' = Between(r, u)
  BY DEF Between
<1> QED
  BY <1>7, <1>8 DEF Accounted

LEMMA AccountedStep ==
  ASSUME IsFiniteSet(Blocks), \A b \in Blocks : Threshold + SizeOf[b] <= Word
  PROVE  Typed /\ Bills /\ Accounted /\ [Next]_vars => Accounted'
<1> SUFFICES ASSUME Typed, Bills, Accounted, [Next]_vars PROVE Accounted'
  OBVIOUS
<1>1. ASSUME NEW p \in Peers, HandleRequire(p) PROVE Accounted'
  <2>1. PICK b \in Blocks : b = Taken(p)
    BY <1>1, HandleRequireMoves DEF Typed
  <2>2. PICK t \in Peers : t = Buyer(b)
    BY <2>1, BuyersArePeers
  <2> QED
    BY <1>1, <2>1, <2>2, BillAccounted
<1>2. CASE \A p \in Peers : ~HandleRequire(p)
  <2> SUFFICES ASSUME NEW p \in Peers, NEW q \in Peers
               PROVE  (transferred[p][q] + SumOver(amount, Between(p, q)) = SumOver(SizeOf, Charged(p, q)))'
    BY DEF Accounted
  <2>1. Charged(p, q)' = Charged(p, q) /\ UNCHANGED <<transferred, amount>>
    BY <1>2, ChargedKept
  <2>2. transferred[p][q] + SumOver(amount, Between(p, q)) = SumOver(SizeOf, Charged(p, q))
    BY DEF Accounted
  <2>3. Between(p, q)' = Between(p, q)
    BY DEF Between
  <2> QED
    BY <2>1, <2>2, <2>3
<1> QED
  BY <1>1, <1>2

LEMMA AccountedInit ==
  ASSUME IsFiniteSet(Blocks)
  PROVE  Init => Accounted
<1> SUFFICES ASSUME Init, NEW p \in Peers, NEW q \in Peers
             PROVE  transferred[p][q] + SumOver(amount, Between(p, q)) = SumOver(SizeOf, Charged(p, q))
  BY DEF Accounted
<1>1. transferred[p][q] = 0 /\ Charged(p, q) = {} /\ \A b \in Blocks : amount[b] = 0
  BY DEF Init, Charged, Between
<1>2. IsFiniteSet(Between(p, q)) /\ Between(p, q) \subseteq Blocks
  BY Finite DEF Between
<1>3. \A b \in Between(p, q) : amount[b] = 0
  BY <1>1, <1>2
<1>4. SumOver(amount, Between(p, q)) = 0
  BY <1>2, <1>3, SumZero
<1> QED
  BY <1>1, <1>4, SumEmpty

(* Every byte that was charged is in one request or still counts towards the next one,   *)
(* whatever is lost, late or failing, as long as the bytes between two requests fit a    *)
(* uint32: the counter is below the threshold when a block is added to it.               *)
THEOREM BytesAreAccounted ==
  ASSUME IsFiniteSet(Blocks), \A b \in Blocks : Threshold + SizeOf[b] <= Word
  PROVE  Spec => []TransferAccounted
<1>1. Init => Accounted
  BY AccountedInit
<1>2. Typed /\ Bills /\ Accounted /\ [Next]_vars => Accounted'
  BY AccountedStep
<1>3. Accounted => TransferAccounted
  BY DEF Accounted, TransferAccounted, Charged, Waiting, Within, Note, SumOver
<1> QED
  BY <1>1, <1>2, <1>3, TypedInductive, BillsInit, BillsStep, PTL DEF Spec

-----------------------------------------------------------------------------
(***************************************************************************)
(* The way of the blocks and requests from seller to buyer: what the wire  *)
(* holds comes behind what is in the buyer's queue.  A step adds one at    *)
(* the end, takes one off the front, or leaves the order as it is.         *)
(***************************************************************************)
Load(b) == Note("block", b)
Ask(b) == Note("initiate", b)
Haul == {m \in Message : m.kind \in {"block", "initiate"}}

On(m) == m \in Within(queue[Buyer(m.of)]) \/ m \in Within(wire[Seller(m.of)][Buyer(m.of)])

Before(m, n) ==
  \/ Precedes(queue[Buyer(m.of)], m, n)
  \/ Precedes(wire[Seller(m.of)][Buyer(m.of)], m, n)
  \/ m \in Within(queue[Buyer(m.of)]) /\ n \in Within(wire[Seller(m.of)][Buyer(m.of)])

SameWay(m, n) == Seller(m.of) = Seller(n.of) /\ Buyer(m.of) = Buyer(n.of)

Routed ==
  /\ \A p, q \in Peers : \A m \in Within(wire[p][q]) : m \in Haul => Seller(m.of) = p /\ Buyer(m.of) = q
  /\ \A p \in Peers : \A m \in Within(queue[p]) : m \in Haul => Buyer(m.of) = p

Keeps ==
  \A m, n \in Haul :
    /\ On(m)' <=> On(m)
    /\ SameWay(m, n) => (Before(m, n)' <=> Before(m, n))

Gains(x) ==
  \A m, n \in Haul :
    /\ On(m)' <=> On(m) \/ m = x
    /\ SameWay(m, n) => (Before(m, n)' <=> Before(m, n) \/ (On(m) /\ n = x))

Loses(x) ==
  \A m, n \in Haul :
    /\ On(m) <=> On(m)' \/ m = x
    /\ SameWay(m, n) => (Before(m, n) <=> Before(m, n)' \/ (m = x /\ On(n)'))

LEMMA HaulTyped ==
  /\ \A m \in Haul : m.of \in Blocks /\ Buyer(m.of) \in Peers /\ Seller(m.of) \in Peers
  /\ \A b \in Blocks : Load(b) \in Haul /\ Ask(b) \in Haul /\ Load(b).of = b /\ Ask(b).of = b
  /\ \A b, c \in Blocks : (Load(b) = Load(c) => b = c) /\ (Ask(b) = Ask(c) => b = c) /\ Load(b) # Ask(c)
<1>1. \A m \in Haul : m.of \in Blocks
  BY Notes DEF Haul
<1>2. \A b \in Blocks : Load(b) \in Message /\ Ask(b) \in Message
  BY MessageTyped DEF Load, Ask, Note
<1>3. \A b \in Blocks : Load(b).kind = "block" /\ Ask(b).kind = "initiate" /\ Load(b).of = b /\ Ask(b).of = b
  BY DEF Load, Ask, Note
<1> QED
  BY <1>1, <1>2, <1>3, BuyersArePeers DEF Haul

LEMMA BeforeOn ==
  ASSUME NEW m \in Haul, NEW n \in Haul, SameWay(m, n), Before(m, n) PROVE On(m) /\ On(n)
  BY DEF Before, On, SameWay, Precedes, Within

LEMMA SendPath ==
  ASSUME WellTyped, NEW p \in Peers, NEW q \in Peers,
         NEW kind \in {"block", "initiate", "command", "reply", "paid", "failed"},
         NEW b \in Blocks, Send(p, q, kind, b), UNCHANGED queue,
         kind \in {"block", "initiate"} => Seller(b) = p /\ Buyer(b) = q
  PROVE  Gains(Note(kind, b))
<1>1. /\ Note(kind, b) \in Message /\ wire[p][q] \in Seq(Message)
      /\ wire'[p][q] = Append(wire[p][q], Note(kind, b))
      /\ \A r, t \in Peers : <<r, t>> # <<p, q>> => wire'[r][t] = wire[r][t]
  BY SendMoves
<1>2. Note(kind, b).kind = kind /\ Note(kind, b).of = b
  BY DEF Note
<1> DEFINE x == Note(kind, b)
<1>3. x \in Haul => Seller(x.of) = p /\ Buyer(x.of) = q
  BY <1>2 DEF Haul
<1> HIDE DEF x
<1>4. Within(wire'[p][q]) = Within(wire[p][q]) \cup {x}
      /\ \A m, n : Precedes(wire'[p][q], m, n) <=> Precedes(wire[p][q], m, n) \/ (m \in Within(wire[p][q]) /\ n = x)
  BY <1>1, WithinAppend, PrecedesAppend DEF x
<1> SUFFICES ASSUME NEW m \in Haul, NEW n \in Haul
             PROVE  /\ On(m)' <=> On(m) \/ m = x
                    /\ SameWay(m, n) => (Before(m, n)' <=> Before(m, n) \/ (On(m) /\ n = x))
  BY DEF Gains, x
<1>5. Buyer(m.of) \in Peers /\ Seller(m.of) \in Peers
  BY HaulTyped
<1>6. CASE Seller(m.of) = p /\ Buyer(m.of) = q
  BY <1>4, <1>6 DEF On, Before
<1>7. CASE <<Seller(m.of), Buyer(m.of)>> # <<p, q>>
  <2>1. m # x /\ (SameWay(m, n) => n # x)
    BY <1>3, <1>7 DEF SameWay
  <2> QED
    BY <1>1, <1>5, <1>7, <2>1 DEF On, Before
<1> QED
  BY <1>6, <1>7

LEMMA ReceivePath ==
  ASSUME WellTyped, Routed, NEW p \in Peers, NEW q \in Peers, Receive(p, q)
  PROVE  Keeps
<1> DEFINE h == Head(wire[p][q])
<1>1. /\ queue[q] \in Seq(Message) /\ wire[p][q] \in Seq(Message) /\ wire[p][q] # <<>>
      /\ h \in Message
      /\ queue'[q] = Append(queue[q], h)
      /\ wire'[p][q] = Tail(wire[p][q])
      /\ \A r \in Peers : r # q => queue'[r] = queue[r]
      /\ \A r, t \in Peers : <<r, t>> # <<p, q>> => wire'[r][t] = wire[r][t]
  BY ReceiveMoves
<1>2. /\ Within(wire[p][q]) = Within(wire'[p][q]) \cup {h}
      /\ \A m, n : Precedes(wire[p][q], m, n) <=> Precedes(wire'[p][q], m, n) \/ (m = h /\ n \in Within(wire'[p][q]))
  BY <1>1, WithinTail, PrecedesTail
<1>3. h \in Haul => Seller(h.of) = p /\ Buyer(h.of) = q
  BY <1>2 DEF Routed
<1> HIDE DEF h
<1>4. /\ Within(queue'[q]) = Within(queue[q]) \cup {h}
      /\ \A m, n : Precedes(queue'[q], m, n) <=> Precedes(queue[q], m, n) \/ (m \in Within(queue[q]) /\ n = h)
  BY <1>1, WithinAppend, PrecedesAppend
<1> SUFFICES ASSUME NEW m \in Haul, NEW n \in Haul
             PROVE  /\ On(m)' <=> On(m)
                    /\ SameWay(m, n) => (Before(m, n)' <=> Before(m, n))
  BY DEF Keeps
<1>5. Buyer(m.of) \in Peers /\ Seller(m.of) \in Peers
  BY HaulTyped
<1>6. CASE Seller(m.of) = p /\ Buyer(m.of) = q
  BY <1>2, <1>4, <1>6 DEF On, Before
<1>7. CASE <<Seller(m.of), Buyer(m.of)>> # <<p, q>>
  <2>1. m # h /\ (SameWay(m, n) => n # h)
    BY <1>3, <1>7 DEF SameWay
  <2>2. wire'[Seller(m.of)][Buyer(m.of)] = wire[Seller(m.of)][Buyer(m.of)]
    BY <1>1, <1>5, <1>7
  <2>3. CASE Buyer(m.of) = q
    BY <1>4, <2>1, <2>2, <2>3 DEF On, Before
  <2>4. CASE Buyer(m.of) # q
    BY <1>1, <1>5, <2>2, <2>4 DEF On, Before
  <2> QED
    BY <2>3, <2>4
<1> QED
  BY <1>6, <1>7

LEMMA RequirePath ==
  ASSUME WellTyped, NEW b \in Blocks, RequirePayment(b)
  PROVE  Keeps
<1> DEFINE x == Note("require", b)
<1>1. /\ x \in Message /\ queue[Seller(b)] \in Seq(Message)
      /\ queue'[Seller(b)] = Append(queue[Seller(b)], x)
      /\ \A r \in Peers : r # Seller(b) => queue'[r] = queue[r]
      /\ UNCHANGED wire
  BY RequireMoves
<1>2. x \notin Haul
  BY DEF Note, Haul
<1> HIDE DEF x
<1>3. /\ Within(queue'[Seller(b)]) = Within(queue[Seller(b)]) \cup {x}
      /\ \A m, n : Precedes(queue'[Seller(b)], m, n) <=>
           Precedes(queue[Seller(b)], m, n) \/ (m \in Within(queue[Seller(b)]) /\ n = x)
  BY <1>1, WithinAppend, PrecedesAppend
<1> SUFFICES ASSUME NEW m \in Haul, NEW n \in Haul
             PROVE  /\ On(m)' <=> On(m)
                    /\ SameWay(m, n) => (Before(m, n)' <=> Before(m, n))
  BY DEF Keeps
<1>4. Buyer(m.of) \in Peers /\ m # x /\ n # x
  BY <1>2, HaulTyped
<1>5. CASE Buyer(m.of) = Seller(b)
  BY <1>1, <1>3, <1>4, <1>5 DEF On, Before
<1>6. CASE Buyer(m.of) # Seller(b)
  BY <1>1, <1>4, <1>6 DEF On, Before
<1> QED
  BY <1>5, <1>6

LEMMA TakePath ==
  ASSUME WellTyped, Routed, NEW p \in Peers, queue[p] # <<>>, Take(p), UNCHANGED wire,
         NEW x, x = Head(queue[p])
  PROVE  Loses(x) /\ (x \in Haul => On(x))
<1>1. /\ queue[p] \in Seq(Message) /\ queue'[p] = Tail(queue[p])
      /\ \A r \in Peers : r # p => queue'[r] = queue[r]
  BY TakeMoves
<1>2. /\ Within(queue[p]) = Within(queue'[p]) \cup {x}
      /\ \A m, n : Precedes(queue[p], m, n) <=> Precedes(queue'[p], m, n) \/ (m = x /\ n \in Within(queue'[p]))
  BY <1>1, WithinTail, PrecedesTail
<1>3. x \in Haul => Buyer(x.of) = p
  BY <1>2 DEF Routed
<1>4. x \in Haul => On(x)
  BY <1>2, <1>3 DEF On
<1> SUFFICES ASSUME NEW m \in Haul, NEW n \in Haul
             PROVE  /\ On(m) <=> On(m)' \/ m = x
                    /\ SameWay(m, n) => (Before(m, n) <=> Before(m, n)' \/ (m = x /\ On(n)'))
  BY <1>4 DEF Loses
<1>5. Buyer(m.of) \in Peers /\ Seller(m.of) \in Peers
  BY HaulTyped
<1>6. CASE Buyer(m.of) = p
  BY <1>2, <1>6 DEF On, Before, SameWay
<1>7. CASE Buyer(m.of) # p
  BY <1>1, <1>3, <1>5, <1>7 DEF On, Before, SameWay
<1> QED
  BY <1>6, <1>7

\* A bill is taken off the queue while the request for it is sent.
LEMMA TakeSendPath ==
  ASSUME WellTyped, NEW p \in Peers, queue[p] # <<>>, Take(p), Head(queue[p]) \notin Haul,
         NEW b \in Blocks, Seller(b) = p, Send(p, Buyer(b), "initiate", b)
  PROVE  Gains(Ask(b))
<1> DEFINE q == Buyer(b)
           x == Ask(b)
<1>1. /\ x \in Message /\ wire[p][q] \in Seq(Message)
      /\ wire'[p][q] = Append(wire[p][q], x)
      /\ \A r, t \in Peers : <<r, t>> # <<p, q>> => wire'[r][t] = wire[r][t]
  BY BuyersArePeers, SendMoves DEF Ask
<1>2. /\ queue[p] \in Seq(Message) /\ queue'[p] = Tail(queue[p])
      /\ \A r \in Peers : r # p => queue'[r] = queue[r]
  BY TakeMoves
<1>3. Seller(x.of) = p /\ Buyer(x.of) = q /\ q \in Peers
  BY HaulTyped, BuyersArePeers
<1> HIDE DEF x, q
<1>4. Within(wire'[p][q]) = Within(wire[p][q]) \cup {x}
      /\ \A m, n : Precedes(wire'[p][q], m, n) <=> Precedes(wire[p][q], m, n) \/ (m \in Within(wire[p][q]) /\ n = x)
  BY <1>1, WithinAppend, PrecedesAppend
<1>5. \A r \in Peers : \A m, n \in Haul :
        /\ m \in Within(queue'[r]) <=> m \in Within(queue[r])
        /\ Precedes(queue'[r], m, n) <=> Precedes(queue[r], m, n)
  <2>1. /\ Within(queue[p]) = Within(queue'[p]) \cup {Head(queue[p])}
        /\ \A m, n : Precedes(queue[p], m, n) <=>
             Precedes(queue'[p], m, n) \/ (m = Head(queue[p]) /\ n \in Within(queue'[p]))
    BY <1>2, WithinTail, PrecedesTail
  <2> QED
    BY <1>2, <2>1
<1> SUFFICES ASSUME NEW m \in Haul, NEW n \in Haul
             PROVE  /\ On(m)' <=> On(m) \/ m = x
                    /\ SameWay(m, n) => (Before(m, n)' <=> Before(m, n) \/ (On(m) /\ n = x))
  BY DEF Gains, x
<1>6. Buyer(m.of) \in Peers /\ Seller(m.of) \in Peers
  BY HaulTyped
<1>7. CASE Seller(m.of) = p /\ Buyer(m.of) = q
  BY <1>3, <1>4, <1>5, <1>7 DEF On, Before
<1>8. CASE <<Seller(m.of), Buyer(m.of)>> # <<p, q>>
  <2>1. m # x /\ (SameWay(m, n) => n # x)
    BY <1>3, <1>8 DEF SameWay
  <2> QED
    BY <1>1, <1>3, <1>5, <1>6, <1>8, <2>1 DEF On, Before
<1> QED
  BY <1>7, <1>8

\* What is not on this way does not matter to its order.
LEMMA OthersKeep ==
  ASSUME NEW x, x \notin Haul, Gains(x) \/ Loses(x) PROVE Keeps
<1>1. CASE Gains(x)
  BY <1>1 DEF Gains, Keeps
<1>2. CASE Loses(x)
  BY <1>2 DEF Loses, Keeps
<1> QED
  BY <1>1, <1>2

LEMMA RoutedSend ==
  ASSUME WellTyped, Routed, NEW p \in Peers, NEW q \in Peers,
         NEW kind \in {"block", "initiate", "command", "reply", "paid", "failed"},
         NEW b \in Blocks, Send(p, q, kind, b), Within(queue'[p]) \subseteq Within(queue[p]),
         \A r \in Peers : r # p => queue'[r] = queue[r],
         kind \in {"block", "initiate"} => Seller(b) = p /\ Buyer(b) = q
  PROVE  Routed'
<1>1. /\ Note(kind, b) \in Message /\ wire[p][q] \in Seq(Message)
      /\ wire'[p][q] = Append(wire[p][q], Note(kind, b))
      /\ \A r, t \in Peers : <<r, t>> # <<p, q>> => wire'[r][t] = wire[r][t]
  BY SendMoves
<1>2. Note(kind, b).kind = kind /\ Note(kind, b).of = b
  BY DEF Note
<1> DEFINE x == Note(kind, b)
<1>3. x \in Haul => Seller(x.of) = p /\ Buyer(x.of) = q
  BY <1>2 DEF Haul
<1> HIDE DEF x
<1>4. Within(wire'[p][q]) = Within(wire[p][q]) \cup {x}
  BY <1>1, WithinAppend DEF x
<1>5. ASSUME NEW r \in Peers, NEW t \in Peers, NEW m \in Within(wire'[r][t]), m \in Haul
      PROVE  Seller(m.of) = r /\ Buyer(m.of) = t
  <2>1. CASE r = p /\ t = q
    BY <1>3, <1>4, <1>5, <2>1 DEF Routed
  <2>2. CASE <<r, t>> # <<p, q>>
    BY <1>1, <1>5, <2>2 DEF Routed
  <2> QED
    BY <2>1, <2>2
<1>6. ASSUME NEW r \in Peers, NEW m \in Within(queue'[r]), m \in Haul PROVE Buyer(m.of) = r
  BY <1>6 DEF Routed
<1> QED
  BY <1>5, <1>6 DEF Routed

LEMMA RoutedStep ==
  ASSUME Typed, Bills, Routed, [Next]_vars PROVE Routed'
<1>0. WellTyped
  BY DEF Typed
<1>1. ASSUME NEW b \in Blocks, SendBlock(b) PROVE Routed'
  BY <1>0, <1>1, SendBlockMoves, RoutedSend
<1>2. ASSUME NEW b \in Blocks, RequirePayment(b) PROVE Routed'
  <2> DEFINE x == Note("require", b)
  <2>1. /\ x \in Message /\ queue[Seller(b)] \in Seq(Message)
        /\ queue'[Seller(b)] = Append(queue[Seller(b)], x)
        /\ \A r \in Peers : r # Seller(b) => queue'[r] = queue[r]
        /\ UNCHANGED wire
    BY <1>0, <1>2, RequireMoves
  <2>2. x \notin Haul
    BY DEF Note, Haul
  <2> HIDE DEF x
  <2>3. Within(queue'[Seller(b)]) = Within(queue[Seller(b)]) \cup {x}
    BY <2>1, WithinAppend
  <2> QED
    BY <2>1, <2>2, <2>3 DEF Routed
<1>3. ASSUME NEW p \in Peers, NEW q \in Peers, Receive(p, q) PROVE Routed'
  <2> DEFINE h == Head(wire[p][q])
  <2>1. /\ queue[q] \in Seq(Message) /\ wire[p][q] \in Seq(Message) /\ wire[p][q] # <<>>
        /\ h \in Message
        /\ queue'[q] = Append(queue[q], h)
        /\ wire'[p][q] = Tail(wire[p][q])
        /\ \A r \in Peers : r # q => queue'[r] = queue[r]
        /\ \A r, t \in Peers : <<r, t>> # <<p, q>> => wire'[r][t] = wire[r][t]
    BY <1>0, <1>3, ReceiveMoves
  <2>2. Within(wire[p][q]) = Within(wire'[p][q]) \cup {h}
    BY <2>1, WithinTail
  <2>3. h \in Haul => Seller(h.of) = p /\ Buyer(h.of) = q
    BY <2>2 DEF Routed
  <2> HIDE DEF h
  <2>4. Within(queue'[q]) = Within(queue[q]) \cup {h}
    BY <2>1, WithinAppend
  <2>5. \A r, t \in Peers : \A m \in Within(wire'[r][t]) : m \in Within(wire[r][t])
    BY <2>1, <2>2
  <2>6. \A r \in Peers : \A m \in Within(queue'[r]) : m \in Haul => Buyer(m.of) = r
    BY <2>1, <2>3, <2>4 DEF Routed
  <2> QED
    BY <2>5, <2>6 DEF Routed
<1>4. ASSUME NEW p \in Peers, queue[p] # <<>>, Take(p)
      PROVE  /\ \A r \in Peers : Within(queue'[r]) \subseteq Within(queue[r])
             /\ \A r \in Peers : r # p => queue'[r] = queue[r]
  BY <1>0, <1>4, TakeMoves, WithinTail
<1>5. ASSUME NEW p \in Peers, HandleRequire(p) PROVE Routed'
  <2>1. PICK b \in Blocks : b = Taken(p)
    BY <1>0, <1>5, HandleRequireMoves
  <2>2. /\ Buyer(b) \in Peers /\ queue[p] # <<>> /\ Take(p) /\ Head(queue[p]) = Note("require", b)
        /\ Send(p, Buyer(b), "initiate", b) \/ UNCHANGED wire
    BY <1>0, <1>5, <2>1, HandleRequireMoves
  <2>3. Seller(b) = p
    <3>1. Head(queue[p]) \in Within(queue[p])
      BY <1>0, <2>2, WithinTail, TakeMoves
    <3>2. Note("require", b).kind = "require" /\ Note("require", b).of = b
      BY DEF Note
    <3> QED
      BY <2>2, <3>1, <3>2 DEF Bills
  <2>4. CASE Send(p, Buyer(b), "initiate", b)
    BY <1>0, <1>4, <2>2, <2>3, <2>4, RoutedSend
  <2>5. CASE UNCHANGED wire
    BY <1>4, <2>2, <2>5 DEF Routed
  <2> QED
    BY <2>2, <2>4, <2>5
<1>6. ASSUME NEW p \in Peers, HandleReceived(p) \/ HandleInitiate(p) \/ Skips(p) PROVE Routed'
  <2>1. queue[p] # <<>> /\ Take(p) /\ UNCHANGED wire
    BY <1>0, <1>6, HandleReceivedMoves, HandleInitiateMoves DEF Skips
  <2> QED
    BY <1>4, <2>1 DEF Routed
<1>7. ASSUME NEW p \in Peers, NEW q \in Peers, NEW kind \in {"command", "reply", "paid", "failed"},
             NEW b \in Blocks, Relays(p, q, kind, b)
      PROVE  Routed'
  BY <1>0, <1>7, RoutedSend DEF Relays
<1>8. CASE Idles
  BY <1>8 DEF Idles, Routed
<1> QED
  BY <1>1, <1>2, <1>3, <1>5, <1>6, <1>7, <1>8, Steps

(***************************************************************************)
(* The steps as the way from seller to buyer sees them.                    *)
(***************************************************************************)
Sent(b) == block[b] # "held"

Loads(b) ==
  /\ Gains(Load(b)) /\ ~Sent(b) /\ Sent(b)'
  /\ \A c \in Blocks : c # b => block'[c] = block[c]
  /\ UNCHANGED <<life, awaiting, received, amount, payment>>

Asks(b) ==
  /\ Gains(Ask(b)) /\ amount[b] = 0 /\ amount'[b] # 0
  /\ \A c \in Blocks : c # b => amount'[c] = amount[c]
  /\ UNCHANGED <<life, block, awaiting, received, payment>>

Unloads(b) ==
  /\ Loses(Load(b)) /\ On(Load(b))
  /\ received'[Buyer(b)][Seller(b)] = (received[Buyer(b)][Seller(b)] + SizeOf[b]) % Word
  /\ \A p, q \in Peers : <<p, q>> # <<Buyer(b), Seller(b)>> => received'[p][q] = received[p][q]
  /\ UNCHANGED <<life, block, awaiting, amount, payment>>

\* The request is accepted, or it is for more than was received.
Answers(b) ==
  /\ Loses(Ask(b)) /\ On(Ask(b))
  /\ \/ UNCHANGED life /\ awaiting' = [awaiting EXCEPT ![Buyer(b)] = b]
     \/ Quantity(b) > received[Buyer(b)][Seller(b)] \/ 0 > received[Buyer(b)][Seller(b)]
  /\ UNCHANGED <<block, received, amount, payment>>

Stays ==
  /\ Keeps
  /\ \A b \in Blocks : Sent(b)' <=> Sent(b)
  /\ UNCHANGED <<received, amount>>
  /\ \A p \in Peers : awaiting'[p] \in {awaiting[p], None} /\ (life'[p] = "rejected" => life[p] = "rejected")
  /\ \A b \in Blocks : payment'[b] # "none" => payment[b] # "none" \/ awaiting[Buyer(b)] = b

LEMMA WayUnchanged ==
  ASSUME UNCHANGED <<queue, wire>> PROVE Keeps
  BY DEF Keeps, On, Before

LEMMA WaySteps ==
  ASSUME Typed, Bills, Routed, [Next]_vars
  PROVE  Stays \/ \E b \in Blocks : Loads(b) \/ Asks(b) \/ Unloads(b) \/ Answers(b)
<1>0. WellTyped
  BY DEF Typed
<1>1. ASSUME NEW b \in Blocks, SendBlock(b) PROVE Loads(b)
  <2>1. /\ Seller(b) \in Peers /\ Buyer(b) \in Peers
        /\ Send(Seller(b), Buyer(b), "block", b)
        /\ block[b] = "held" /\ block'[b] = "sent"
        /\ \A c \in Blocks : c # b => block'[c] = block[c]
        /\ UNCHANGED <<life, queue, awaiting, transferred, received, amount, payment>>
    BY <1>0, <1>1, SendBlockMoves
  <2>2. Gains(Load(b))
    BY <1>0, <2>1, SendPath DEF Load
  <2> QED
    BY <2>1, <2>2 DEF Loads, Sent
<1>2. ASSUME NEW b \in Blocks, RequirePayment(b) PROVE Stays
  <2>1. /\ block[b] = "sent" /\ block'[b] = "billed"
        /\ \A c \in Blocks : c # b => block'[c] = block[c]
        /\ UNCHANGED <<life, awaiting, received, amount, payment>>
    BY <1>0, <1>2, RequireMoves
  <2>2. \A c \in Blocks : Sent(c)' <=> Sent(c)
    BY <2>1 DEF Sent
  <2> QED
    BY <1>0, <1>2, <2>1, <2>2, RequirePath DEF Stays
<1>3. ASSUME NEW p \in Peers, NEW q \in Peers, Receive(p, q) PROVE Stays
  BY <1>0, <1>3, ReceiveMoves, ReceivePath DEF Stays, Sent
<1>4. ASSUME NEW p \in Peers, NEW b \in Blocks, b = Taken(p), HandleReceived(p) PROVE Unloads(b)
  <2>1. /\ Seller(b) \in Peers
        /\ queue[p] # <<>> /\ Take(p) /\ Head(queue[p]) = Load(b)
        /\ received'[p][Seller(b)] = (received[p][Seller(b)] + SizeOf[b]) % Word
        /\ \A r, t \in Peers : <<r, t>> # <<p, Seller(b)>> => received'[r][t] = received[r][t]
        /\ UNCHANGED <<life, block, wire, awaiting, amount, payment>>
    BY <1>0, <1>4, HandleReceivedMoves DEF Load
  <2>2. Loses(Load(b)) /\ On(Load(b))
    BY <1>0, <2>1, TakePath, HaulTyped
  <2>3. Buyer(b) = p
    <3>1. Load(b) \in Within(queue[p])
      BY <1>0, <2>1, TakeMoves, WithinTail
    <3> QED
      BY <3>1, HaulTyped DEF Routed
  <2> QED
    BY <2>1, <2>2, <2>3 DEF Unloads
<1>5. ASSUME NEW p \in Peers, NEW b \in Blocks, b = Taken(p), HandleInitiate(p) PROVE Answers(b)
  <2>1. /\ queue[p] # <<>> /\ Take(p) /\ Head(queue[p]) = Ask(b)
        /\ \/ UNCHANGED life /\ awaiting' = [awaiting EXCEPT ![p] = b]
           \/ Quantity(b) > received[p][Seller(b)] \/ 0 > received[p][Seller(b)]
        /\ UNCHANGED <<block, wire, received, amount, payment>>
    BY <1>0, <1>5, HandleInitiateMoves DEF Ask
  <2>2. Loses(Ask(b)) /\ On(Ask(b))
    BY <1>0, <2>1, TakePath, HaulTyped
  <2>3. Buyer(b) = p
    <3>1. Ask(b) \in Within(queue[p])
      BY <1>0, <2>1, TakeMoves, WithinTail
    <3> QED
      BY <3>1, HaulTyped DEF Routed
  <2> QED
    BY <2>1, <2>2, <2>3 DEF Answers
<1>6. ASSUME NEW p \in Peers, NEW b \in Blocks, b = Taken(p), HandleRequire(p) PROVE Stays \/ Asks(b)
  <2> DEFINE bytes == (transferred[p][Buyer(b)] + SizeOf[b]) % Word
  <2>1. /\ Buyer(b) \in Peers
        /\ queue[p] # <<>> /\ Take(p) /\ Head(queue[p]) = Note("require", b)
        /\ \A c \in Blocks : c # b => amount'[c] = amount[c]
        /\ bytes >= Threshold => Send(p, Buyer(b), "initiate", b) /\ amount'[b] = bytes
        /\ ~(bytes >= Threshold) => UNCHANGED <<wire, amount>>
        /\ UNCHANGED <<life, block, awaiting, received, payment>>
    BY <1>0, <1>6, HandleRequireMoves
  <2> HIDE DEF bytes
  <2>2. Note("require", b) \in Within(queue[p])
    BY <1>0, <2>1, TakeMoves, WithinTail
  <2>3. Seller(b) = p /\ amount[b] = 0
    <3>1. Note("require", b).kind = "require" /\ Note("require", b).of = b
      BY DEF Note
    <3> QED
      BY <2>2, <3>1 DEF Bills
  <2>4. Note("require", b) \notin Haul
    BY DEF Note, Haul
  <2>5. CASE bytes >= Threshold
    <3>1. amount'[b] # 0
      BY <2>1, <2>5, PeersAssumption
    <3>2. Gains(Ask(b))
      BY <1>0, <2>1, <2>2, <2>3, <2>4, <2>5, TakeSendPath
    <3> QED
      BY <2>1, <2>3, <3>1, <3>2 DEF Asks
  <2>6. CASE ~(bytes >= Threshold)
    <3>1. Keeps
      BY <1>0, <2>1, <2>4, <2>6, TakePath, OthersKeep
    <3> QED
      BY <2>1, <2>6, <3>1 DEF Stays, Sent
  <2> QED
    BY <2>5, <2>6
<1>7. ASSUME NEW p \in Peers, Skips(p) PROVE Stays
  <2>1. PICK x : x = Head(queue[p])
    OBVIOUS
  <2>2. x \notin Haul
    BY <1>7, <2>1 DEF Skips, Haul
  <2>3. Keeps
    BY <1>0, <1>7, <2>1, <2>2, TakePath, OthersKeep DEF Skips
  <2> QED
    BY <1>7, <2>3 DEF Skips, Stays, Sent
<1>8. ASSUME NEW p \in Peers, NEW q \in Peers, NEW kind \in {"command", "reply", "paid", "failed"},
             NEW b \in Blocks, Relays(p, q, kind, b)
      PROVE  Stays
  <2>1. Gains(Note(kind, b))
    BY <1>0, <1>8, SendPath DEF Relays
  <2>2. Note(kind, b) \notin Haul
    BY DEF Note, Haul
  <2>3. Keeps
    BY <2>1, <2>2, OthersKeep
  <2> QED
    BY <1>8, <2>3 DEF Relays, Stays, Sent
<1>9. CASE Idles
  BY <1>9, WayUnchanged DEF Idles, Stays, Sent
<1>10. ASSUME NEW p \in Peers, HandleReceived(p) \/ HandleRequire(p) \/ HandleInitiate(p)
       PROVE  Stays \/ \E b \in Blocks : Asks(b) \/ Unloads(b) \/ Answers(b)
  <2>1. \E b \in Blocks : b = Taken(p)
    BY <1>0, <1>10, HandleReceivedMoves, HandleInitiateMoves, HandleRequireMoves
  <2> QED
    BY <1>4, <1>5, <1>6, <1>10, <2>1
<1> QED
  BY <1>1, <1>2, <1>3, <1>7, <1>8, <1>9, <1>10, Steps

-----------------------------------------------------------------------------
(***************************************************************************)
(* Requests and bytes in order.  A request stays behind the bytes that it  *)
(* and all earlier ones are for, so the buyer has them when it takes it.   *)
(***************************************************************************)
Orderly ==
  /\ \A b \in Blocks : On(Load(b)) => Sent(b)
  /\ \A b \in Blocks : On(Ask(b)) => amount[b] # 0
  /\ \A m \in Haul : ~Before(m, m)

\* What the buyer has got of the seller's blocks, and of its requests.
Arrived(p, q) == {b \in Between(p, q) : Sent(b) /\ ~On(Load(b))}
Reached(p, q) == {b \in Between(p, q) : amount[b] # 0 /\ ~On(Ask(b))}

Arrivals == \A p, q \in Peers : received[q][p] = SumOver(SizeOf, Arrived(p, q))

\* Up to the request b that is under way.
AskedUpTo(b) ==
  {c \in Between(Seller(b), Buyer(b)) : amount[c] # 0 /\ ~Before(Ask(b), Ask(c))}
SentBefore(b) ==
  {c \in Between(Seller(b), Buyer(b)) : Sent(c) /\ ~Before(Ask(b), Load(c))}

Covered ==
  \A b \in Blocks : On(Ask(b)) =>
    SumOver(amount, AskedUpTo(b)) <= SumOver(SizeOf, SentBefore(b))

Due == \A p, q \in Peers : SumOver(amount, Reached(p, q)) <= received[q][p]

Taking(b) == amount[b] # 0 /\ ~On(Ask(b))

Answered ==
  /\ \A p \in Peers, b \in Blocks : awaiting[p] = b => Buyer(b) = p /\ Taking(b)
  /\ \A b \in Blocks : payment[b] # "none" => Taking(b)

LEMMA BetweenSame ==
  ASSUME NEW b \in Blocks, NEW c \in Between(Seller(b), Buyer(b))
  PROVE  SameWay(Ask(b), Ask(c)) /\ SameWay(Ask(b), Load(c)) /\ c \in Blocks
  BY HaulTyped DEF SameWay, Between

LEMMA OrderlyStep ==
  ASSUME Typed, Bills, Routed, Orderly, [Next]_vars PROVE Orderly'
<1> SUFFICES ASSUME Stays \/ \E b \in Blocks : Loads(b) \/ Asks(b) \/ Unloads(b) \/ Answers(b)
             PROVE  Orderly'
  BY WaySteps
<1>0. \A m \in Haul : SameWay(m, m)
  BY DEF SameWay
<1>1. CASE Stays
  BY <1>0, <1>1, HaulTyped DEF Stays, Keeps, Orderly
<1>2. ASSUME NEW b \in Blocks, Loads(b) PROVE Orderly'
  <2>1. \A c \in Blocks : Sent(c) => Sent(c)'
    BY <1>2 DEF Loads, Sent
  <2>2. ~On(Load(b))
    BY <1>2 DEF Loads, Orderly
  <2> QED
    BY <1>0, <1>2, <2>1, <2>2, HaulTyped DEF Loads, Gains, Orderly
<1>3. ASSUME NEW b \in Blocks, Asks(b) PROVE Orderly'
  <2>1. ~On(Ask(b))
    BY <1>3 DEF Asks, Orderly
  <2>2. \A c \in Blocks : Sent(c)' <=> Sent(c)
    BY <1>3 DEF Asks, Sent
  <2> QED
    BY <1>0, <1>3, <2>1, <2>2, HaulTyped DEF Asks, Gains, Orderly
<1>4. ASSUME NEW b \in Blocks, Unloads(b) PROVE Orderly'
  BY <1>0, <1>4, HaulTyped DEF Unloads, Loses, Orderly, Sent
<1>5. ASSUME NEW b \in Blocks, Answers(b) PROVE Orderly'
  BY <1>0, <1>5, HaulTyped DEF Answers, Loses, Orderly, Sent
<1> QED
  BY <1>1, <1>2, <1>3, <1>4, <1>5

LEMMA SumOfBlocks ==
  ASSUME IsFiniteSet(Blocks), WellTyped, NEW S \in SUBSET Blocks
  PROVE  IsFiniteSet(S) /\ SumOver(SizeOf, S) \in Nat /\ SumOver(amount, S) \in Nat
<1>1. IsFiniteSet(S)
  BY FS_Subset
<1>2. \A b \in S : SizeOf[b] \in Nat /\ amount[b] \in Nat
  BY AmountsAreNat
<1> QED
  BY <1>1, <1>2, SumNatural

\* Fewer blocks have fewer bytes, and fewer requests are for less.
LEMMA SumOfFewer ==
  ASSUME IsFiniteSet(Blocks), WellTyped, NEW S \in SUBSET Blocks, NEW T \in SUBSET S
  PROVE  SumOver(SizeOf, T) <= SumOver(SizeOf, S) /\ SumOver(amount, T) <= SumOver(amount, S)
<1>1. IsFiniteSet(S)
  BY FS_Subset
<1>2. \A b \in S : SizeOf[b] \in Nat /\ amount[b] \in Nat
  BY AmountsAreNat
<1>3. \A b \in T : SizeOf[b] <= SizeOf[b] /\ amount[b] <= amount[b]
  BY <1>2
<1>4. SumOver(SizeOf, T) <= SumOver(SizeOf, S)
  BY <1>1, <1>2, <1>3, SumMonotone
<1>5. SumOver(amount, T) <= SumOver(amount, S)
  BY <1>1, <1>2, <1>3, SumMonotone
<1> QED
  BY <1>4, <1>5

LEMMA ArrivedOnly ==
  ASSUME NEW p \in Peers, NEW q \in Peers,
         \A b \in Blocks : (Sent(b)' /\ ~On(Load(b))') <=> (Sent(b) /\ ~On(Load(b)))
  PROVE  Arrived(p, q)' = Arrived(p, q)
  BY DEF Arrived, Between

LEMMA ArrivalsStep ==
  ASSUME IsFiniteSet(Blocks), \A p, q \in Peers : SumOver(SizeOf, Between(p, q)) < Word,
         Typed, Bills, Routed, Orderly, Arrivals, [Next]_vars
  PROVE  Arrivals'
<1>0. WellTyped
  BY DEF Typed
<1>1. ASSUME \A b \in Blocks : (Sent(b)' /\ ~On(Load(b))') <=> (Sent(b) /\ ~On(Load(b))), UNCHANGED received
      PROVE  Arrivals'
  <2> SUFFICES ASSUME NEW p \in Peers, NEW q \in Peers
               PROVE  (received[q][p] = SumOver(SizeOf, Arrived(p, q)))'
    BY DEF Arrivals
  <2>1. Arrived(p, q)' = Arrived(p, q)
    BY <1>1, ArrivedOnly
  <2> QED
    BY <1>1, <2>1 DEF Arrivals
<1>2. CASE Stays
  BY <1>1, <1>2, HaulTyped DEF Stays, Keeps
<1>3. ASSUME NEW b \in Blocks, Loads(b) PROVE Arrivals'
  <2>1. \A c \in Blocks : (Sent(c)' /\ ~On(Load(c))') <=> (Sent(c) /\ ~On(Load(c)))
    <3> TAKE c \in Blocks
    <3>1. CASE c = b
      BY <1>3, <3>1, HaulTyped DEF Loads, Gains
    <3>2. CASE c # b
      BY <1>3, <3>2, HaulTyped DEF Loads, Gains, Sent
    <3> QED
      BY <3>1, <3>2
  <2> QED
    BY <1>1, <1>3, <2>1 DEF Loads
<1>4. ASSUME NEW b \in Blocks, Asks(b) \/ Answers(b) PROVE Arrivals'
  <2>1. \A c \in Blocks : (Sent(c)' /\ ~On(Load(c))') <=> (Sent(c) /\ ~On(Load(c)))
    BY <1>4, HaulTyped DEF Asks, Answers, Gains, Loses, Sent
  <2> QED
    BY <1>1, <1>4, <2>1 DEF Asks, Answers
<1>5. ASSUME NEW b \in Blocks, Unloads(b) PROVE Arrivals'
  <2>1. /\ On(Load(b)) /\ ~On(Load(b))' /\ Sent(b)
        /\ \A c \in Blocks : Sent(c)' <=> Sent(c)
        /\ \A c \in Blocks : c # b => (On(Load(c))' <=> On(Load(c)))
    <3>1. Loses(Load(b)) /\ On(Load(b)) /\ Load(b) \in Haul /\ ~Before(Load(b), Load(b)) /\ SameWay(Load(b), Load(b))
      BY <1>5, HaulTyped DEF Unloads, Orderly, SameWay
    <3>2. ~On(Load(b))'
      BY <3>1 DEF Loses
    <3>3. \A c \in Blocks : c # b => (On(Load(c))' <=> On(Load(c)))
      BY <3>1, HaulTyped DEF Loses
    <3> QED
      BY <1>5, <3>1, <3>2, <3>3 DEF Unloads, Orderly, Sent
  <2> SUFFICES ASSUME NEW p \in Peers, NEW q \in Peers
               PROVE  (received[q][p] = SumOver(SizeOf, Arrived(p, q)))'
    BY DEF Arrivals
  <2>2. received[q][p] = SumOver(SizeOf, Arrived(p, q))
    BY DEF Arrivals
  <2>3. Arrived(p, q) \subseteq Between(p, q) /\ Between(p, q) \subseteq Blocks
    BY DEF Arrived, Between
  <2>4. CASE p = Seller(b) /\ q = Buyer(b)
    <3>1. b \in Between(p, q) /\ b \notin Arrived(p, q)
      BY <2>1, <2>4 DEF Between, Arrived
    <3>2. Arrived(p, q)' = {c \in Between(p, q) : Sent(c)' /\ ~On(Load(c))'}
      BY DEF Arrived, Between
    <3>3. \A c \in Between(p, q) : (Sent(c)' /\ ~On(Load(c))') <=> (c \in Arrived(p, q) \/ c = b)
      BY <2>1, <2>3 DEF Arrived
    <3>4. Arrived(p, q)' = Arrived(p, q) \cup {b}
      BY <2>3, <3>1, <3>2, <3>3
    <3>5. SumOver(SizeOf, Arrived(p, q) \cup {b}) = SizeOf[b] + SumOver(SizeOf, Arrived(p, q))
      <4>1. IsFiniteSet(Arrived(p, q)) /\ (\A c \in Arrived(p, q) : SizeOf[c] \in Int) /\ SizeOf[b] \in Int
        BY <1>0, <2>3, SumOfBlocks, AmountsAreNat
      <4> QED
        BY <3>1, <4>1, SumAdd
    <3>6. SumOver(SizeOf, Arrived(p, q) \cup {b}) <= SumOver(SizeOf, Between(p, q))
      BY <1>0, <2>3, <3>1, SumOfFewer
    <3>7. SumOver(SizeOf, Arrived(p, q) \cup {b}) \in 0 .. Word - 1
      <4>1. SumOver(SizeOf, Arrived(p, q) \cup {b}) \in Nat /\ SumOver(SizeOf, Between(p, q)) \in Nat
        BY <1>0, <2>3, SumOfBlocks
      <4> QED
        BY <3>6, <4>1, PriceAssumption
    <3>8. \A n \in 0 .. Word - 1 : n % Word = n
      BY PriceAssumption, SMT
    <3>9. received'[q][p] = (received[q][p] + SizeOf[b]) % Word
      BY <1>5, <2>4 DEF Unloads
    <3>10. received[q][p] + SizeOf[b] = SumOver(SizeOf, Arrived(p, q) \cup {b})
      <4>1. received[q][p] \in Nat /\ SizeOf[b] \in Nat
        BY <1>0, CountersAreNat, AmountsAreNat
      <4> QED
        BY <2>2, <3>5, <4>1
    <3> QED
      BY <3>4, <3>7, <3>8, <3>9, <3>10
  <2>5. CASE <<q, p>> # <<Buyer(b), Seller(b)>>
    <3>1. b \notin Between(p, q)
      BY <2>5 DEF Between
    <3>2. Arrived(p, q)' = {c \in Between(p, q) : Sent(c)' /\ ~On(Load(c))'}
      BY DEF Arrived, Between
    <3>3. Arrived(p, q)' = Arrived(p, q)
      BY <2>1, <2>3, <3>1, <3>2 DEF Arrived
    <3>4. received'[q][p] = received[q][p]
      BY <1>5, <2>5 DEF Unloads
    <3> QED
      BY <2>2, <3>3, <3>4
  <2> QED
    BY <2>4, <2>5
<1> QED
  BY <1>2, <1>3, <1>4, <1>5, WaySteps

\* The request that stays under way stays behind the same bytes and requests.
LEMMA UnderwayKept ==
  ASSUME Orderly, NEW b \in Blocks, On(Ask(b)), On(Ask(b))',
         Stays \/ \E x \in Blocks : Loads(x) \/ (x # b /\ Asks(x)) \/ Unloads(x) \/ Answers(x)
  PROVE  /\ AskedUpTo(b)' = AskedUpTo(b) /\ SentBefore(b)' = SentBefore(b)
         /\ \A c \in AskedUpTo(b) : amount'[c] = amount[c]
<1> DEFINE Same(c) == /\ Before(Ask(b), Ask(c))' <=> Before(Ask(b), Ask(c))
                      /\ Before(Ask(b), Load(c))' <=> Before(Ask(b), Load(c))
           W == Between(Seller(b), Buyer(b))
<1>0. \A c \in W : SameWay(Ask(b), Ask(c)) /\ SameWay(Ask(b), Load(c)) /\ c \in Blocks
  BY BetweenSame
<1>1. SUFFICES ASSUME NEW c \in W
               PROVE  /\ (amount'[c] # 0 /\ ~Before(Ask(b), Ask(c))') <=> (amount[c] # 0 /\ ~Before(Ask(b), Ask(c)))
                      /\ (Sent(c)' /\ ~Before(Ask(b), Load(c))') <=> (Sent(c) /\ ~Before(Ask(b), Load(c)))
                      /\ amount[c] # 0 => amount'[c] = amount[c]
  BY DEF AskedUpTo, SentBefore, Between
<1>2. c \in Blocks /\ Ask(b) \in Haul /\ Ask(c) \in Haul /\ Load(c) \in Haul
      /\ SameWay(Ask(b), Ask(c)) /\ SameWay(Ask(b), Load(c))
  BY <1>0, HaulTyped
<1>3. CASE Stays
  BY <1>2, <1>3 DEF Stays, Keeps
<1>4. ASSUME NEW x \in Blocks, Loads(x)
      PROVE  /\ (amount'[c] # 0 /\ ~Before(Ask(b), Ask(c))') <=> (amount[c] # 0 /\ ~Before(Ask(b), Ask(c)))
             /\ (Sent(c)' /\ ~Before(Ask(b), Load(c))') <=> (Sent(c) /\ ~Before(Ask(b), Load(c)))
             /\ amount[c] # 0 => amount'[c] = amount[c]
  <2>1. CASE c = x
    BY <1>2, <1>4, <2>1, HaulTyped DEF Loads, Gains
  <2>2. CASE c # x
    BY <1>2, <1>4, <2>2, HaulTyped DEF Loads, Gains, Sent
  <2> QED
    BY <2>1, <2>2
<1>5. ASSUME NEW x \in Blocks, x # b, Asks(x)
      PROVE  /\ (amount'[c] # 0 /\ ~Before(Ask(b), Ask(c))') <=> (amount[c] # 0 /\ ~Before(Ask(b), Ask(c)))
             /\ (Sent(c)' /\ ~Before(Ask(b), Load(c))') <=> (Sent(c) /\ ~Before(Ask(b), Load(c)))
             /\ amount[c] # 0 => amount'[c] = amount[c]
  <2>1. CASE c = x
    BY <1>2, <1>5, <2>1, HaulTyped DEF Asks, Gains, Sent
  <2>2. CASE c # x
    BY <1>2, <1>5, <2>2, HaulTyped DEF Asks, Gains, Sent
  <2> QED
    BY <2>1, <2>2
<1>6. ASSUME NEW x \in Blocks, Unloads(x)
      PROVE  /\ (amount'[c] # 0 /\ ~Before(Ask(b), Ask(c))') <=> (amount[c] # 0 /\ ~Before(Ask(b), Ask(c)))
             /\ (Sent(c)' /\ ~Before(Ask(b), Load(c))') <=> (Sent(c) /\ ~Before(Ask(b), Load(c)))
             /\ amount[c] # 0 => amount'[c] = amount[c]
  BY <1>2, <1>6, HaulTyped DEF Unloads, Loses, Sent
<1>7. ASSUME NEW x \in Blocks, Answers(x)
      PROVE  /\ (amount'[c] # 0 /\ ~Before(Ask(b), Ask(c))') <=> (amount[c] # 0 /\ ~Before(Ask(b), Ask(c)))
             /\ (Sent(c)' /\ ~Before(Ask(b), Load(c))') <=> (Sent(c) /\ ~Before(Ask(b), Load(c)))
             /\ amount[c] # 0 => amount'[c] = amount[c]
  <2>1. Ask(x) \in Haul /\ SameWay(Ask(x), Ask(x)) /\ ~Before(Ask(x), Ask(x))
    BY HaulTyped DEF SameWay, Orderly
  <2>2. Ask(b) # Ask(x)
    BY <1>7, <2>1 DEF Answers, Loses
  <2> QED
    BY <1>2, <1>7, <2>2 DEF Answers, Loses, Sent
<1> QED
  BY <1>3, <1>4, <1>5, <1>6, <1>7

\* A new request is for bytes that were charged, so sent before.
LEMMA NewCovered ==
  ASSUME IsFiniteSet(Blocks), WellTyped', Orderly, Accounted', NEW b \in Blocks, Asks(b)
  PROVE  SumOver(amount', AskedUpTo(b)') <= SumOver(SizeOf, SentBefore(b)')
<1>1. PICK p \in Peers, q \in Peers : p = Seller(b) /\ q = Buyer(b)
  BY BuyersArePeers
<1>2. \A c \in Blocks : amount'[c] \in Nat /\ SizeOf[c] \in Nat
  BY PriceAssumption, PeersAssumption DEF WellTyped
<1>3. Between(p, q) \subseteq Blocks /\ IsFiniteSet(Between(p, q))
  BY Finite DEF Between
<1>4. AskedUpTo(b)' \subseteq Between(p, q)
  BY <1>1 DEF AskedUpTo, Between
<1>5. Charged(p, q)' \subseteq SentBefore(b)'
  <2>1. ASSUME NEW c \in Between(p, q) PROVE ~Before(Ask(b), Load(c))'
    <3>1. SameWay(Ask(b), Load(c)) /\ c \in Blocks /\ Ask(b) \in Haul /\ Load(c) \in Haul /\ Load(c) # Ask(b)
      BY <1>1, <1>3, <2>1, BetweenSame, HaulTyped
    <3>2. ~On(Ask(b))
      BY DEF Asks, Orderly
    <3>3. ~Before(Ask(b), Load(c))
      BY <3>1, <3>2, BeforeOn
    <3> QED
      BY <3>1, <3>3 DEF Asks, Gains
  <2> QED
    BY <1>1, <2>1 DEF Charged, SentBefore, Sent, Between
<1>6. SentBefore(b)' \subseteq Between(p, q)
  BY <1>1 DEF SentBefore, Between
<1>7. SumOver(amount', AskedUpTo(b)') <= SumOver(amount', Between(p, q))
  <2>1. (\A c \in Between(p, q) : amount'[c] \in Nat /\ amount'[c] \in Nat)
        /\ (\A c \in AskedUpTo(b)' : amount'[c] <= amount'[c])
    BY <1>2, <1>3, <1>4
  <2> QED
    BY <1>3, <1>4, <2>1, SumMonotone
<1>8. SumOver(SizeOf, Charged(p, q)') <= SumOver(SizeOf, SentBefore(b)')
  <2>1. IsFiniteSet(SentBefore(b)') /\ (\A c \in SentBefore(b)' : SizeOf[c] \in Nat)
        /\ (\A c \in Charged(p, q)' : SizeOf[c] <= SizeOf[c])
    BY <1>2, <1>3, <1>5, <1>6, FS_Subset
  <2> QED
    BY <1>5, <2>1, SumMonotone
<1>9. transferred'[p][q] + SumOver(amount', Between(p, q)) = SumOver(SizeOf, Charged(p, q)')
  <2>1. Between(p, q)' = Between(p, q)
    BY DEF Between
  <2>2. (transferred[p][q] + SumOver(amount, Between(p, q)) = SumOver(SizeOf, Charged(p, q)))'
    BY DEF Accounted
  <2> QED
    BY <2>1, <2>2
<1>10. transferred'[p][q] \in Nat
  BY PriceAssumption DEF WellTyped, Counters
<1>11. SumOver(amount', AskedUpTo(b)') \in Nat /\ SumOver(amount', Between(p, q)) \in Nat
       /\ SumOver(SizeOf, Charged(p, q)') \in Nat /\ SumOver(SizeOf, SentBefore(b)') \in Nat
  <2>1. IsFiniteSet(AskedUpTo(b)') /\ IsFiniteSet(Charged(p, q)') /\ IsFiniteSet(SentBefore(b)')
    BY <1>3, <1>4, <1>5, <1>6, FS_Subset
  <2>2. (\A c \in AskedUpTo(b)' : amount'[c] \in Nat) /\ (\A c \in Between(p, q) : amount'[c] \in Nat)
        /\ (\A c \in Charged(p, q)' : SizeOf[c] \in Nat) /\ (\A c \in SentBefore(b)' : SizeOf[c] \in Nat)
    BY <1>2, <1>3, <1>4, <1>5, <1>6
  <2>3. SumOver(amount', AskedUpTo(b)') \in Nat
    BY <2>1, <2>2, SumNatural
  <2>4. SumOver(amount', Between(p, q)) \in Nat
    BY <1>3, <2>2, SumNatural
  <2>5. SumOver(SizeOf, Charged(p, q)') \in Nat
    BY <2>1, <2>2, SumNatural
  <2>6. SumOver(SizeOf, SentBefore(b)') \in Nat
    BY <2>1, <2>2, SumNatural
  <2> QED
    BY <2>3, <2>4, <2>5, <2>6
<1> QED
  BY <1>7, <1>8, <1>9, <1>10, <1>11

LEMMA CoveredStep ==
  ASSUME IsFiniteSet(Blocks), Typed, WellTyped', Bills, Accounted', Routed, Orderly, Covered, [Next]_vars
  PROVE  Covered'
<1> SUFFICES ASSUME NEW b \in Blocks, On(Ask(b))'
             PROVE  (SumOver(amount, AskedUpTo(b)) <= SumOver(SizeOf, SentBefore(b)))'
  BY DEF Covered
<1>1. CASE Asks(b)
  BY <1>1, NewCovered
<1>2. CASE ~Asks(b)
  <2>1. On(Ask(b))
    <3>1. Ask(b) \in Haul /\ \A x \in Blocks : x # b => Ask(b) # Ask(x)
      BY HaulTyped
    <3> QED
      BY <1>2, <3>1, WaySteps, HaulTyped
        DEF Stays, Loads, Asks, Unloads, Answers, Keeps, Gains, Loses
  <2>2. Stays \/ \E x \in Blocks : Loads(x) \/ (x # b /\ Asks(x)) \/ Unloads(x) \/ Answers(x)
    BY <1>2, WaySteps
  <2>3. /\ AskedUpTo(b)' = AskedUpTo(b) /\ SentBefore(b)' = SentBefore(b)
        /\ \A c \in AskedUpTo(b) : amount'[c] = amount[c]
    BY <2>1, <2>2, UnderwayKept
  <2>4. SumOver(amount, AskedUpTo(b)) <= SumOver(SizeOf, SentBefore(b))
    BY <2>1 DEF Covered
  <2>5. SumOver(amount', AskedUpTo(b)) = SumOver(amount, AskedUpTo(b))
    <3>1. IsFiniteSet(AskedUpTo(b))
      BY Finite DEF AskedUpTo, Between
    <3> QED
      BY <2>3, <3>1, SumSame
  <2> QED
    BY <2>3, <2>4, <2>5
<1> QED
  BY <1>1, <1>2

\* What a buyer finds when it takes a request: it has the bytes of this and all earlier ones.
LEMMA AnswerCovered ==
  ASSUME IsFiniteSet(Blocks), WellTyped, Orderly, Arrivals, Covered, NEW b \in Blocks, Answers(b)
  PROVE  /\ Reached(Seller(b), Buyer(b))' = AskedUpTo(b)
         /\ SumOver(amount, AskedUpTo(b)) <= received[Buyer(b)][Seller(b)]
         /\ Quantity(b) \in 0 .. received[Buyer(b)][Seller(b)]
         /\ amount[b] # 0 /\ ~On(Ask(b))'
<1>0. On(Ask(b)) /\ Loses(Ask(b)) /\ Ask(b) \in Haul /\ UNCHANGED <<block, amount>>
  BY HaulTyped DEF Answers
<1>1. amount[b] # 0 /\ ~Before(Ask(b), Ask(b)) /\ SameWay(Ask(b), Ask(b))
  BY <1>0 DEF Orderly, SameWay
<1>2. ~On(Ask(b))'
  BY <1>0, <1>1 DEF Loses
<1>3. PICK p \in Peers, q \in Peers : p = Seller(b) /\ q = Buyer(b)
  BY BuyersArePeers
<1>4. ASSUME NEW c \in Between(p, q)
      PROVE  /\ c \in Blocks
             /\ Before(Ask(b), Ask(c)) <=> On(Ask(c))'
             /\ Before(Ask(b), Load(c)) <=> On(Load(c))
  <2>1. SameWay(Ask(b), Ask(c)) /\ SameWay(Ask(b), Load(c)) /\ c \in Blocks
        /\ Ask(c) \in Haul /\ Load(c) \in Haul /\ Load(c) # Ask(b)
    BY <1>3, BetweenSame, HaulTyped
  <2>2. ~Before(Ask(b), Ask(c))' /\ ~Before(Ask(b), Load(c))'
    <3>1. \A m, n \in Haul : SameWay(m, n) /\ Before(m, n) => On(m)
      BY BeforeOn
    <3>2. \A n \in Haul : SameWay(Ask(b), n) => ~Before(Ask(b), n)'
      <4> SUFFICES ASSUME NEW n \in Haul, SameWay(Ask(b), n), Before(Ask(b), n)' PROVE FALSE
        OBVIOUS
      <4> QED
        BY <1>2 DEF Before, On, Precedes, Within
    <3> QED
      BY <2>1, <3>2
  <2> QED
    BY <1>0, <2>1, <2>2 DEF Loses
<1>5. Reached(p, q)' = AskedUpTo(b)
  <2>1. Reached(p, q)' = {c \in Between(p, q) : amount[c] # 0 /\ ~On(Ask(c))'}
    BY <1>0 DEF Reached, Between
  <2> QED
    BY <1>3, <1>4, <2>1 DEF AskedUpTo
<1>6. SentBefore(b) = Arrived(p, q)
  BY <1>3, <1>4 DEF SentBefore, Arrived
<1>7. SumOver(amount, AskedUpTo(b)) <= received[q][p]
  BY <1>0, <1>6 DEF Covered, Arrivals
<1>8. b \in AskedUpTo(b) /\ AskedUpTo(b) \subseteq Blocks
  BY <1>1 DEF AskedUpTo, Between
<1>9. amount[b] <= received[q][p]
  <2>1. IsFiniteSet(AskedUpTo(b)) /\ \A c \in AskedUpTo(b) : amount[c] \in Int
    BY <1>8, Finite, AmountsAreNat
  <2>2. SumOver(amount, AskedUpTo(b)) = amount[b] + SumOver(amount, AskedUpTo(b) \ {b})
    BY <1>8, <2>1, SumRemove
  <2>3. SumOver(amount, AskedUpTo(b) \ {b}) \in Nat /\ amount[b] \in Nat
    BY <1>8, SumOfBlocks, AmountsAreNat
  <2>4. received[q][p] \in Nat
    BY CountersAreNat
  <2> QED
    BY <1>7, <2>2, <2>3, <2>4
<1>10. Quantity(b) \in 0 .. amount[b]
  BY QuoteNeverOverstates DEF WellTyped, Quantity, Price
<1>11. Quantity(b) \in 0 .. received[q][p]
  <2>1. amount[b] \in Nat /\ received[q][p] \in Nat
    BY AmountsAreNat, CountersAreNat
  <2> QED
    BY <1>9, <1>10, <2>1
<1> QED
  BY <1>1, <1>2, <1>3, <1>5, <1>7, <1>11

-----------------------------------------------------------------------------
\* What has come stays, so the counters of bytes only grow.
LEMMA ReceivedGrow ==
  ASSUME IsFiniteSet(Blocks), Typed, Bills, Routed, Orderly, Arrivals, Arrivals', [Next]_vars,
         NEW p \in Peers, NEW q \in Peers
  PROVE  received[q][p] <= received'[q][p]
<1>1. \A b \in Blocks : Sent(b) /\ ~On(Load(b)) => Sent(b)' /\ ~On(Load(b))'
  <2> TAKE b \in Blocks
  <2>1. Load(b) \in Haul /\ \A c \in Blocks : Load(b) # Ask(c) /\ (Load(b) = Load(c) => b = c)
    BY HaulTyped
  <2>2. CASE Stays
    BY <2>1, <2>2 DEF Stays, Keeps
  <2>3. ASSUME NEW x \in Blocks, Loads(x) PROVE Sent(b) /\ ~On(Load(b)) => Sent(b)' /\ ~On(Load(b))'
    <3>1. CASE b = x
      BY <2>3, <3>1 DEF Loads
    <3>2. CASE b # x
      BY <2>1, <2>3, <3>2, HaulTyped DEF Loads, Gains, Sent
    <3> QED
      BY <3>1, <3>2
  <2>4. ASSUME NEW x \in Blocks, Asks(x) \/ Unloads(x) \/ Answers(x)
        PROVE  Sent(b) /\ ~On(Load(b)) => Sent(b)' /\ ~On(Load(b))'
    BY <2>1, <2>4, HaulTyped DEF Asks, Unloads, Answers, Gains, Loses, Sent
  <2> QED
    BY <2>2, <2>3, <2>4, WaySteps
<1>2. Arrived(p, q) \subseteq Arrived(p, q)'
  BY <1>1 DEF Arrived, Between
<1>3. IsFiniteSet(Arrived(p, q)') /\ \A c \in Arrived(p, q)' : SizeOf[c] \in Nat
  <2>1. Arrived(p, q)' \subseteq Blocks
    BY DEF Arrived, Between
  <2> QED
    BY <2>1, Finite, PeersAssumption
<1>4. \A c \in Arrived(p, q) : SizeOf[c] <= SizeOf[c]
  BY <1>2, <1>3
<1>5. SumOver(SizeOf, Arrived(p, q)) <= SumOver(SizeOf, Arrived(p, q)')
  BY <1>2, <1>3, <1>4, SumMonotone
<1>6. received[q][p] = SumOver(SizeOf, Arrived(p, q))
  BY DEF Arrivals
<1>7. (received[q][p] = SumOver(SizeOf, Arrived(p, q)))'
  BY DEF Arrivals
<1> QED
  BY <1>5, <1>6, <1>7

LEMMA DueStep ==
  ASSUME IsFiniteSet(Blocks), Typed, WellTyped', Bills, Routed, Orderly, Arrivals, Arrivals', Covered, Due,
         [Next]_vars
  PROVE  Due'
<1>0. WellTyped
  BY DEF Typed
<1> SUFFICES ASSUME NEW p \in Peers, NEW q \in Peers
             PROVE  (SumOver(amount, Reached(p, q)) <= received[q][p])'
  BY DEF Due
<1>1. SumOver(amount, Reached(p, q)) <= received[q][p] /\ received[q][p] <= received'[q][p]
  BY ReceivedGrow DEF Due
<1>2. Reached(p, q) \subseteq Blocks /\ Reached(p, q)' = {c \in Between(p, q) : amount'[c] # 0 /\ ~On(Ask(c))'}
  BY DEF Reached, Between
<1>3. \A c \in Between(p, q) : c \in Blocks /\ Ask(c) \in Haul
  BY HaulTyped DEF Between
<1>4. ASSUME Reached(p, q)' = Reached(p, q), \A c \in Reached(p, q) : amount'[c] = amount[c]
      PROVE  (SumOver(amount, Reached(p, q)) <= received[q][p])'
  <2>1. SumOver(amount', Reached(p, q)) = SumOver(amount, Reached(p, q))
    BY <1>2, <1>4, Finite, SumSame
  <2>2. SumOver(amount, Reached(p, q)) \in Nat /\ received[q][p] \in Nat /\ received'[q][p] \in Nat
    <3>1. received'[q][p] \in Nat
      BY PriceAssumption DEF WellTyped, Counters
    <3> QED
      BY <1>0, <1>2, <3>1, SumOfBlocks, CountersAreNat
  <2>3. SumOver(amount, Reached(p, q)) <= received'[q][p]
    BY <1>1, <2>2
  <2> QED
    BY <1>4, <2>1, <2>3
<1>5. CASE Stays
  BY <1>2, <1>3, <1>4, <1>5 DEF Stays, Keeps, Reached
<1>6. ASSUME NEW x \in Blocks, Loads(x) \/ Unloads(x)
      PROVE  (SumOver(amount, Reached(p, q)) <= received[q][p])'
  <2>1. UNCHANGED amount /\ \A c \in Between(p, q) : On(Ask(c))' <=> On(Ask(c))
    BY <1>3, <1>6, HaulTyped DEF Loads, Unloads, Gains, Loses
  <2> QED
    BY <1>2, <1>4, <2>1 DEF Reached
<1>7. ASSUME NEW x \in Blocks, Asks(x)
      PROVE  (SumOver(amount, Reached(p, q)) <= received[q][p])'
  <2>1. \A c \in Between(p, q) : (amount'[c] # 0 /\ ~On(Ask(c))') <=> (amount[c] # 0 /\ ~On(Ask(c)))
    <3> TAKE c \in Between(p, q)
    <3>1. CASE c = x
      BY <1>3, <1>7, <3>1 DEF Asks, Gains
    <3>2. CASE c # x
      BY <1>3, <1>7, <3>2, HaulTyped DEF Asks, Gains
    <3> QED
      BY <3>1, <3>2
  <2>2. \A c \in Reached(p, q) : amount'[c] = amount[c]
    BY <1>2, <1>7 DEF Asks, Reached
  <2> QED
    BY <1>2, <1>4, <2>1, <2>2 DEF Reached
<1>8. ASSUME NEW x \in Blocks, Answers(x)
      PROVE  (SumOver(amount, Reached(p, q)) <= received[q][p])'
  <2>1. CASE p = Seller(x) /\ q = Buyer(x)
    <3>1. Reached(p, q)' = AskedUpTo(x) /\ SumOver(amount, AskedUpTo(x)) <= received[q][p]
      BY <1>0, <1>8, <2>1, AnswerCovered
    <3> QED
      BY <1>8, <3>1 DEF Answers
  <2>2. CASE ~(p = Seller(x) /\ q = Buyer(x))
    <3>1. \A c \in Between(p, q) : On(Ask(c))' <=> On(Ask(c))
      BY <1>3, <1>8, <2>2, HaulTyped DEF Answers, Loses, Between
    <3> QED
      BY <1>2, <1>4, <1>8, <3>1 DEF Answers, Reached
  <2> QED
    BY <2>1, <2>2
<1> QED
  BY <1>5, <1>6, <1>7, <1>8, WaySteps

LEMMA TakingStep ==
  ASSUME Typed, Bills, Routed, Orderly, [Next]_vars, NEW b \in Blocks, Taking(b)
  PROVE  Taking(b)'
<1>1. Ask(b) \in Haul /\ \A c \in Blocks : Ask(b) # Load(c) /\ (Ask(b) = Ask(c) => b = c)
  BY HaulTyped
<1>2. CASE Stays
  BY <1>1, <1>2 DEF Stays, Keeps, Taking
<1>3. ASSUME NEW x \in Blocks, Loads(x) \/ Unloads(x) \/ Answers(x) PROVE Taking(b)'
  BY <1>1, <1>3, HaulTyped DEF Loads, Unloads, Answers, Gains, Loses, Taking
<1>4. ASSUME NEW x \in Blocks, Asks(x) PROVE Taking(b)'
  <2>1. x # b
    BY <1>4 DEF Asks, Taking
  <2> QED
    BY <1>1, <1>4, <2>1, HaulTyped DEF Asks, Gains, Taking
<1> QED
  BY <1>2, <1>3, <1>4, WaySteps

\* A request is accepted, and only one that was taken is awaited or paid.
LEMMA AnsweredStep ==
  ASSUME IsFiniteSet(Blocks), Typed, Bills, Routed, Orderly, Arrivals, Covered, Answered,
         HonestRequestAccepted, [Next]_vars
  PROVE  Answered' /\ HonestRequestAccepted'
<1>0. WellTyped /\ None \notin Blocks
  BY PeersAssumption DEF Typed
<1>1. \A b \in Blocks : Taking(b) => Taking(b)'
  BY TakingStep
<1>2. CASE Stays
  <2>1. ASSUME NEW p \in Peers, NEW b \in Blocks, awaiting'[p] = b PROVE Buyer(b) = p /\ Taking(b)'
    <3>1. awaiting[p] = b
      BY <1>0, <1>2, <2>1 DEF Stays
    <3> QED
      BY <1>1, <3>1 DEF Answered
  <2>2. ASSUME NEW b \in Blocks, payment'[b] # "none" PROVE Taking(b)'
    <3>1. payment[b] # "none" \/ awaiting[Buyer(b)] = b
      BY <1>2, <2>2 DEF Stays
    <3> QED
      BY <1>1, <3>1, BuyersArePeers DEF Answered
  <2>3. \A p \in Peers : life'[p] # "rejected"
    BY <1>2 DEF Stays, HonestRequestAccepted
  <2> QED
    BY <2>1, <2>2, <2>3 DEF Answered, HonestRequestAccepted
<1>3. ASSUME NEW x \in Blocks, Loads(x) \/ Asks(x) \/ Unloads(x) PROVE Answered' /\ HonestRequestAccepted'
  <2>1. UNCHANGED <<life, awaiting, payment>>
    BY <1>3 DEF Loads, Asks, Unloads
  <2> QED
    BY <1>1, <2>1 DEF Answered, HonestRequestAccepted
<1>4. ASSUME NEW x \in Blocks, Answers(x) PROVE Answered' /\ HonestRequestAccepted'
  <2>1. /\ Quantity(x) \in 0 .. received[Buyer(x)][Seller(x)]
        /\ amount[x] # 0 /\ ~On(Ask(x))'
    BY <1>0, <1>4, AnswerCovered
  <2>2. ~(Quantity(x) > received[Buyer(x)][Seller(x)]) /\ ~(0 > received[Buyer(x)][Seller(x)])
    BY <1>0, <2>1, CountersAreNat, BuyersArePeers
  <2>3. UNCHANGED <<life, payment, amount>> /\ awaiting' = [awaiting EXCEPT ![Buyer(x)] = x]
    BY <1>4, <2>2 DEF Answers
  <2>4. \A p \in Peers : awaiting'[p] = IF p = Buyer(x) THEN x ELSE awaiting[p]
    BY <1>0, <2>3 DEF WellTyped
  <2>5. Taking(x)'
    BY <2>1, <2>3 DEF Taking
  <2>6. ASSUME NEW p \in Peers, NEW b \in Blocks, awaiting'[p] = b PROVE Buyer(b) = p /\ Taking(b)'
    <3>1. CASE p = Buyer(x)
      BY <2>4, <2>5, <2>6, <3>1
    <3>2. CASE p # Buyer(x)
      BY <1>1, <2>4, <2>6, <3>2 DEF Answered
    <3> QED
      BY <3>1, <3>2
  <2>7. \A b \in Blocks : payment'[b] # "none" => Taking(b)'
    BY <1>1, <2>3 DEF Answered
  <2> QED
    BY <2>3, <2>6, <2>7 DEF Answered, HonestRequestAccepted
<1> QED
  BY <1>2, <1>3, <1>4, WaySteps

(***************************************************************************)
(* The way as a whole.                                                     *)
(***************************************************************************)
Way == Routed /\ Orderly /\ Arrivals /\ Covered /\ Due /\ Answered /\ HonestRequestAccepted

LEMMA WayInit ==
  ASSUME IsFiniteSet(Blocks) PROVE Init => Way
<1> SUFFICES ASSUME Init PROVE Way
  OBVIOUS
<1>1. Within(<<>>) = {} /\ \A m, n : ~Precedes(<<>>, m, n)
  BY DEF Within, Precedes
<1>2. \A p, q \in Peers : queue[p] = <<>> /\ wire[p][q] = <<>> /\ received[q][p] = 0 /\ awaiting[p] = None
        /\ life[p] = "up"
  BY DEF Init
<1>3. \A b \in Blocks : amount[b] = 0 /\ ~Sent(b) /\ payment[b] = "none"
  BY DEF Init, Sent
<1>4. \A m \in Haul : ~On(m) /\ ~Before(m, m)
  BY <1>1, <1>2, HaulTyped DEF On, Before
<1>5. Routed
  BY <1>1, <1>2 DEF Routed
<1>6. Orderly /\ Covered
  BY <1>4, HaulTyped DEF Orderly, Covered
<1>7. \A p, q \in Peers : Arrived(p, q) = {} /\ Reached(p, q) = {}
  BY <1>3 DEF Arrived, Reached, Between
<1>8. Arrivals
  BY <1>2, <1>7, SumEmpty DEF Arrivals
<1>9. Due
  <2>1. \A p, q \in Peers : SumOver(amount, Reached(p, q)) = 0
    BY <1>7, SumEmpty
  <2> QED
    BY <1>2, <2>1 DEF Due
<1>10. Answered /\ HonestRequestAccepted
  BY <1>2, <1>3, PeersAssumption DEF Answered, HonestRequestAccepted
<1> QED
  BY <1>5, <1>6, <1>8, <1>9, <1>10 DEF Way

LEMMA WayStep ==
  ASSUME IsFiniteSet(Blocks), \A p, q \in Peers : SumOver(SizeOf, Between(p, q)) < Word
  PROVE  Typed /\ Typed' /\ Bills /\ Accounted' /\ Way /\ [Next]_vars => Way'
<1> SUFFICES ASSUME Typed, Typed', Bills, Accounted', Way, [Next]_vars PROVE Way'
  OBVIOUS
<1>1. WellTyped'
  BY DEF Typed
<1>2. Routed' /\ Orderly'
  BY RoutedStep, OrderlyStep DEF Way
<1>3. Arrivals'
  BY ArrivalsStep DEF Way
<1>4. Covered'
  BY <1>1, CoveredStep DEF Way
<1>5. Due'
  BY <1>1, <1>3, DueStep DEF Way
<1>6. Answered' /\ HonestRequestAccepted'
  BY AnsweredStep DEF Way
<1> QED
  BY <1>2, <1>3, <1>4, <1>5, <1>6 DEF Way

LEMMA WayInductive ==
  ASSUME IsFiniteSet(Blocks), \A b \in Blocks : Threshold + SizeOf[b] <= Word,
         \A p, q \in Peers : SumOver(SizeOf, Between(p, q)) < Word
  PROVE  Spec => [](Typed /\ Way)
<1>1. Init => Accounted /\ Way
  BY AccountedInit, WayInit
<1>2. Typed /\ Bills /\ Accounted /\ [Next]_vars => Accounted'
  BY AccountedStep
<1>3. Typed /\ Typed' /\ Bills /\ Accounted' /\ Way /\ [Next]_vars => Way'
  BY WayStep
<1> QED
  BY <1>1, <1>2, <1>3, TypedInductive, BillsInit, BillsStep, PTL DEF Spec

LEMMA PaidIsDue ==
  ASSUME IsFiniteSet(Blocks), Typed, Due, Answered PROVE PaidForReceived
<1>0. WellTyped
  BY DEF Typed
<1> SUFFICES ASSUME NEW p \in Peers, NEW q \in Peers
             PROVE  MapThenSumSet(Quantity, {b \in Between(q, p) : awaiting[p] = b \/ payment[b] # "none"})
                      <= received[p][q]
  BY DEF PaidForReceived
<1> DEFINE T == {b \in Between(q, p) : awaiting[p] = b \/ payment[b] # "none"}
           S == Reached(q, p)
           quantity == [b \in S |-> Quantity(b)]
<1>1. T \subseteq S /\ S \subseteq Blocks
  BY PeersAssumption DEF Answered, Taking, Reached, Between
<1>2. \A b \in Blocks : Quantity(b) \in 0 .. amount[b] /\ amount[b] \in Nat
  BY <1>0, QuoteNeverOverstates, AmountsAreNat DEF WellTyped, Quantity, Price
<1>3. SumOver(amount, S) <= received[p][q]
  BY DEF Due
<1>4. \A b \in S : quantity[b] = Quantity(b)
  OBVIOUS
<1> HIDE DEF T, S, quantity
<1>5. SumOver(quantity, T) <= SumOver(amount, S)
  <2>1. IsFiniteSet(S) /\ (\A b \in S : quantity[b] \in Nat /\ amount[b] \in Nat)
        /\ \A b \in T : quantity[b] <= amount[b]
    BY <1>1, <1>2, <1>4, Finite
  <2> QED
    BY <1>1, <2>1, SumMonotone
<1>6. MapThenSumSet(Quantity, T) = SumOver(quantity, T)
  BY <1>1 DEF SumOver, MapThenSumSet, MapThenFoldSet, quantity
<1>7. SumOver(quantity, T) \in Nat /\ SumOver(amount, S) \in Nat /\ received[p][q] \in Nat
  <2>1. IsFiniteSet(T) /\ \A b \in T : quantity[b] \in Nat
    BY <1>1, <1>2, <1>4, Finite
  <2>2. SumOver(quantity, T) \in Nat
    BY <2>1, SumNatural
  <2> QED
    BY <1>0, <1>1, <2>2, SumOfBlocks, CountersAreNat
<1>8. MapThenSumSet(Quantity, T) <= received[p][q]
  BY <1>3, <1>5, <1>6, <1>7
<1> QED
  BY <1>8 DEF T

(* A buyer never ends over a request of a seller that asks for what it has sent: the      *)
(* blocks come before the request on every path, the earlier requests are for other       *)
(* bytes, and the price is never converted to more.  For any peers, blocks and channels,  *)
(* as long as what two peers exchange fits a uint32.                                      *)
THEOREM HonestAreAccepted ==
  ASSUME IsFiniteSet(Blocks), \A b \in Blocks : Threshold + SizeOf[b] <= Word,
         \A p, q \in Peers : SumOver(SizeOf, Between(p, q)) < Word
  PROVE  Spec => []HonestRequestAccepted
<1>1. Spec => [](Typed /\ Way)
  BY WayInductive
<1>2. Way => HonestRequestAccepted
  BY DEF Way
<1> QED
  BY <1>1, <1>2, PTL

(* All that a buyer's gateway is asked to pay one seller is for bytes that have come from *)
(* it, however the payments overlap, fail or are refused.                                 *)
THEOREM PaymentsAreForReceived ==
  ASSUME IsFiniteSet(Blocks), \A b \in Blocks : Threshold + SizeOf[b] <= Word,
         \A p, q \in Peers : SumOver(SizeOf, Between(p, q)) < Word
  PROVE  Spec => []PaidForReceived
<1>1. Spec => [](Typed /\ Way)
  BY WayInductive
<1>2. Typed /\ Way => PaidForReceived
  BY PaidIsDue DEF Way
<1> QED
  BY <1>1, <1>2, PTL

=============================================================================
