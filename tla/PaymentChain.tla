----------------------------- MODULE PaymentChain -----------------------------
(***************************************************************************)
(* The paying gateway's protocol for one payment over a chain of nodes:    *)
(* client/client.go, driven by regestry/paymentManager.go, with the part   *)
(* of each node it calls (CreateTransaction, Sign..., Commit... of         *)
(* node/local/node.go).  Payments over the same route run concurrently and *)
(* meet in the transactions the nodes have stored: a new one replaces what *)
(* is stored (LocalNode has the node's own side of that).                  *)
(*                                                                         *)
(* Node 0 is the paying gateway, node Length the service.  Hop h is paid   *)
(* by node h - 1 to node h, with a transaction node h creates.             *)
(***************************************************************************)
EXTENDS Integers

CONSTANTS
  Payments,      \* payments of this gateway, by ServiceSessionId
  Length,        \* hops of the route
  Price,         \* PaymentRequest.Amount
  Fee,           \* GetFee of the proxy for the receiver of a hop
  Balance,       \* what the payer's account holds when a payment starts
  AmountMod,     \* 2^32: TransactionAmount is a uint32
  ExactBelow,    \* amounts a 32-bit float still tells apart (ParseFloat(op.Amount, 32))
  OtherNumber,   \* hops whose node may not take over the reference's sequence number
  BadSigner,     \* nodes between payer and service that may sign with another key
  None           \* no reference, nothing stored

Hops == 1 .. Length

Amounts == 0 .. AmountMod - 1

ASSUME ConstantsAssumption ==
  /\ Length \in Nat \ {0}
  /\ AmountMod \in Nat \ {0}
  /\ Price \in [Payments -> Amounts] /\ Fee \in [Hops -> Amounts]
  /\ Balance \in Nat /\ ExactBelow \in Nat
  /\ OtherNumber \subseteq Hops /\ BadSigner \subseteq 1 .. Length - 1
  /\ None \notin Payments

VARIABLES
  stage,       \* where the payment's run is
  at,          \* hop the run is at: it walks from the service to the payer
  totalFee,    \* fees added up while the transactions are created
  ref,         \* ReferenceTransaction of the payment's transaction on a hop
  amountIn,    \* its ReferenceAmountIn, what the payment operation takes
  amountOut,   \* its AmountOut
  number,      \* the payment for which its sequence number was allocated
  signed,      \* whose signatures it carries
  committed,   \* hops whose node accepted the commit
  stored       \* by hop: the transaction the node would replace (paidTransactionsByAddress)

txs  == <<ref, amountIn, amountOut, number, signed>>
vars == <<stage, at, totalFee, txs, committed, stored>>

Running == {"new", "create", "sign", "verify", "commit"}
Parties == {"payer", "receiver"}
Signers == Parties \cup {"stranger"}

TypeOK ==
  /\ stage \in [Payments -> Running \cup {"paid", "failed"}]
  /\ at \in [Payments -> 0 .. Length]
  /\ totalFee \in [Payments -> Amounts]
  /\ ref \in [Payments -> [Hops -> Payments \cup {None}]]
  /\ amountIn \in [Payments -> [Hops -> Amounts]]
  /\ amountOut \in [Payments -> [Hops -> Amounts]]
  /\ number \in [Payments -> [Hops -> Payments]]
  /\ signed \in [Payments -> [Hops -> SUBSET Signers]]
  /\ committed \in [Payments -> SUBSET Hops]
  /\ stored \in [Hops -> Payments \cup {None}]

Init ==
  /\ stage = [p \in Payments |-> "new"]
  /\ at = [p \in Payments |-> Length]
  /\ totalFee = [p \in Payments |-> 0]
  /\ ref = [p \in Payments |-> [h \in Hops |-> None]]
  /\ amountIn = [p \in Payments |-> [h \in Hops |-> 0]]
  /\ amountOut = [p \in Payments |-> [h \in Hops |-> 0]]
  /\ number = [p \in Payments |-> [h \in Hops |-> p]]
  /\ signed = [p \in Payments |-> [h \in Hops |-> {}]]
  /\ committed = [p \in Payments |-> {}]
  /\ stored = [h \in Hops |-> None]

-----------------------------------------------------------------------------
(* InitiatePayment *)

\* Only this payment's own amount is compared with the balance.
Start(p) ==
  /\ stage[p] = "new"
  /\ stage' = [stage EXCEPT ![p] = IF Price[p] <= Balance THEN "create" ELSE "failed"]
  /\ UNCHANGED <<at, totalFee, txs, committed, stored>>

OnTopAlone(r, amounts, h, x) == x % AmountMod

OnTopUnwrapped(r, amounts, h, x) == (IF r = None THEN 0 ELSE amounts[r][h]) + x

\* uint32 addition to what the reference transaction already takes.
OnTop(r, amounts, h, x) == ((IF r = None THEN 0 ELSE amounts[r][h]) + x) % AmountMod

\* A node numbers a transaction afresh without a reference and takes over the reference's
\* number with one (RogueNode of the tests does not).
NumberOnTop(p, h, r) ==
  IF r = None THEN {p}
  ELSE {number[r][h]} \cup IF h \in OtherNumber THEN {p} ELSE {}

FeesSoFar(p, h) == (totalFee[p] + Fee[h]) % AmountMod

\* One turn of createTransactions: CreateTransaction of the hop's node.
CreateTransaction(p) ==
  LET h == at[p]
      r == stored[h]
      totalOut == Price[p] + totalFee[p]
  IN  /\ stage[p] = "create"
      /\ ref' = [ref EXCEPT ![p][h] = r]
      /\ amountIn' = [amountIn EXCEPT ![p][h] = OnTop(r, amountIn, h, totalOut + Fee[h])]
      /\ amountOut' = [amountOut EXCEPT ![p][h] = OnTop(r, amountOut, h, totalOut)]
      /\ \E n \in NumberOnTop(p, h, r) : number' = [number EXCEPT ![p][h] = n]
      /\ totalFee' = [totalFee EXCEPT ![p] = FeesSoFar(p, h)]
      /\ IF h = 1
         THEN /\ stage' = [stage EXCEPT ![p] = "sign"]
              /\ at' = [at EXCEPT ![p] = Length]
         ELSE /\ at' = [at EXCEPT ![p] = h - 1]
              /\ UNCHANGED stage
      /\ UNCHANGED <<signed, committed, stored>>

\* SignXDR puts a signature more on the transaction's envelope.
Sign(signatures, p, h, who) == [signatures EXCEPT ![p][h] = @ \cup {who}]

\* SignServiceTransaction: the service signs the transaction it receives.
SignService(p) ==
  /\ stage[p] = "sign" /\ at[p] = Length
  /\ signed' = Sign(signed, p, Length, "receiver")
  /\ at' = [at EXCEPT ![p] = Length - 1]
  /\ UNCHANGED <<stage, totalFee, ref, amountIn, amountOut, number, committed, stored>>

SignedCreditOnly(p, h) == Sign(signed, p, h, "receiver")

\* A node signs its credit and, as the payer, its debit one hop further.
SignedByNode(p, h) == Sign(Sign(signed, p, h, "receiver"), p, h + 1, "payer")

\* A node that signs both with a key that is not its own (RogueNode of the tests).
BadSignature(p, h) == Sign(Sign(signed, p, h, "stranger"), p, h + 1, "stranger")

\* One turn of signTransactions: SignChainTransaction of the hop's node.
SignChain(p) ==
  /\ stage[p] = "sign" /\ at[p] \in 1 .. Length - 1
  /\ \/ signed' = SignedByNode(p, at[p])
     \/ at[p] \in BadSigner /\ signed' = BadSignature(p, at[p])
  /\ at' = [at EXCEPT ![p] = @ - 1]
  /\ UNCHANGED <<stage, totalFee, ref, amountIn, amountOut, number, committed, stored>>

ExpectedAlone(p) == (Price[p] + totalFee[p]) % AmountMod

\* What signInitialTransactions expects the payer's transaction to take.
Expected(p) == OnTop(ref[p][1], amountIn, 1, Price[p] + totalFee[p])

\* The payer signs when the amount, read as a 32-bit float, is what it expects.
SignInitial(p) ==
  /\ stage[p] = "sign" /\ at[p] = 0
  /\ \E exact \in {TRUE, amountIn[p][1] < ExactBelow} :
       IF exact /\ amountIn[p][1] = Expected(p)
       THEN /\ signed' = Sign(signed, p, 1, "payer")
            /\ stage' = [stage EXCEPT ![p] = "verify"]
       ELSE /\ stage' = [stage EXCEPT ![p] = "failed"]
            /\ UNCHANGED signed
  /\ UNCHANGED <<at, totalFee, ref, amountIn, amountOut, number, committed, stored>>

-----------------------------------------------------------------------------
(* VerifyTransactions *)

AmountsValid(p, h) == amountIn[p][h] >= amountOut[p][h]

ValidAmounts(p, h) == AmountsValid(p, h)

\* PaymentTransactionReplacing.Validate.
Valid(p, h) ==
  /\ AmountsValid(p, h)
  /\ ref[p][h] # None => number[p][h] = number[ref[p][h]][h]

Verify(p) ==
  /\ stage[p] = "verify"
  /\ stage' = [stage EXCEPT ![p] = IF \A h \in Hops : Valid(p, h) THEN "commit" ELSE "failed"]
  /\ at' = [at EXCEPT ![p] = Length]
  /\ UNCHANGED <<totalFee, txs, committed, stored>>

-----------------------------------------------------------------------------
(* FinalizePayment *)

NextFromPayer(p) == Length + 1 - at[p]

\* In the order of the signed transactions, the service's first.
NextToCommit(p) == at[p]

SignaturesCounted(p, h) == \E one, two \in signed[p][h] : one # two

\* verifyTransactionSignatures: the payer's and the node's own, others do not matter.
SignaturesVerified(p, h) == Parties \subseteq signed[p][h]

\* One turn of FinalizePayment: the node verifies both signatures and stores the
\* transaction; it may do so and still answer with an error, or not get to answer.
Commit(p) ==
  LET h == NextToCommit(p)
  IN  /\ stage[p] = "commit"
      /\ SignaturesVerified(p, h)
      /\ stored' = [stored EXCEPT ![h] = p]
      /\ committed' = [committed EXCEPT ![p] = @ \cup {h}]
      /\ at' = [at EXCEPT ![p] = @ - 1]
      /\ \E answered \in BOOLEAN :
           stage' = [stage EXCEPT ![p] = IF ~answered THEN "failed"
                                         ELSE IF at[p] = 1 THEN "paid" ELSE "commit"]
      /\ UNCHANGED <<totalFee, txs>>

\* A call of a node fails or is refused, or the paying gateway exits: the run ends where it
\* is, nothing is undone.
Abort(p) ==
  /\ stage[p] \in Running
  /\ stage' = [stage EXCEPT ![p] = "failed"]
  /\ UNCHANGED <<at, totalFee, txs, committed, stored>>

\* The node of a hop has settled what it has stored, or lost it (module LocalNode).
Flush(h) ==
  /\ stored[h] # None
  /\ stored' = [stored EXCEPT ![h] = None]
  /\ UNCHANGED <<stage, at, totalFee, txs, committed>>

Next ==
  \/ \E p \in Payments :
       \/ Start(p) \/ CreateTransaction(p)
       \/ SignService(p) \/ SignChain(p) \/ SignInitial(p)
       \/ Verify(p) \/ Commit(p) \/ Abort(p)
  \/ \E h \in Hops : Flush(h)

Spec == Init /\ [][Next]_vars

-----------------------------------------------------------------------------
(* Properties *)

(* FinalizePayment settles the hops from the service back to the payer, and reports a    *)
(* payment paid only with every hop settled, whatever call fails or answer is lost.      *)
Settlement == INSTANCE HopSettlement WITH
  settled <- committed,
  outcome <- [p \in Payments |-> IF stage[p] \in Running THEN "open" ELSE stage[p]]

SettlesFromService == Settlement!Spec

\* Parties of a hop that sign with their own key.
Faithful(h) ==
  {who \in Parties : (who = "receiver" => h \notin BadSigner) /\ (who = "payer" => h - 1 \notin BadSigner)}

(* When the commits start, every transaction carries the signatures of both its parties: *)
(* each node signs its credit and, one hop further, its debit (signTransactions), so no  *)
(* commit is refused halfway down the chain for a signature nobody was asked for.  Only  *)
(* the two transactions of a node that signs with another key may lack it, which         *)
(* VerifyTransactions does not notice.                                                   *)
SignedByBoth ==
  \A p \in Payments : stage[p] = "commit" => \A h \in Hops : Faithful(h) \subseteq signed[p][h]

(* A payment over a node that signed with another key is never reported paid             *)
(* (TestAccumulatingTransactionWithBadSignatureShouldFail expects FinalizePayment to     *)
(* fail): however many signatures the transactions carry, both parties' are among them.  *)
PaidIsSigned ==
  \A p \in Payments : stage[p] = "paid" => \A h \in Hops : Parties \subseteq signed[p][h]

(* The amount the payer expects (signInitialTransactions) is the one the nodes arrived   *)
(* at hop by hop, on top of whatever their references took.                              *)
PayerAgrees ==
  \A p \in Payments :
    stage[p] = "sign" /\ at[p] = 0 => amountIn[p][1] = Expected(p)

\* What the payment adds to the transaction it replaces on hop h.
Adds(p, amounts, h) ==
  (amounts[p][h] - (IF ref[p][h] = None THEN 0 ELSE amounts[ref[p][h]][h])) % AmountMod

(* A node between payer and service gains exactly its fee by a payment, although its     *)
(* credit and its debit may replace transactions of different age.                       *)
NodesKeepFee ==
  \A p \in Payments :
    stage[p] \in {"commit", "paid"} =>
      \A h \in 1 .. Length - 1 :
        Adds(p, amountIn, h) = (Adds(p, amountIn, h + 1) + Fee[h]) % AmountMod

(* A committed transaction carries the sequence number of the one it replaces, so that   *)
(* Stellar executes only one of the two and the older payment is not charged by both;    *)
(* nodes are not trusted with it, VerifyTransactions compares the numbers.               *)
ReplacesByNumber ==
  \A p \in Payments : \A h \in committed[p] :
    ref[p][h] # None => number[p][h] = number[ref[p][h]][h]

=============================================================================
