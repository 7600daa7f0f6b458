-------------------------- MODULE PaymentChainProofs --------------------------
(***************************************************************************)
(* Proofs about PaymentChain for every number of payments, every length of *)
(* route and all prices and fees: a payment's hops are settled from the    *)
(* service back to the payer (the refinement of HopSettlement), and the    *)
(* commits start with every transaction signed by both its parties, as far *)
(* as these sign with their own key; a payment is paid only with both.     *)
(* What the nodes then hold: a replacement has the sequence number of what *)
(* it replaces, the two parties of a transaction store the same one, and   *)
(* a node keeps its fee.                                                   *)
(***************************************************************************)
EXTENDS PaymentChain, AmountLemmas, TLAPS

(* Where a run stands: it has committed nothing before its commits start, and then        *)
(* exactly the hops behind the one it is at.                                             *)
Position ==
  \A p \in Payments :
    /\ stage[p] = "new" => at[p] = Length
    /\ stage[p] \in {"create", "commit"} => at[p] \in Hops
    /\ stage[p] \in {"new", "create", "sign", "verify"} => committed[p] = {}
    /\ stage[p] = "commit" => committed[p] = at[p] + 1 .. Length

(* How far the signatures are: both parties behind the hop next to the one the run is at, *)
(* the receiver alone on that one.                                                       *)
SignedBehind ==
  \A p \in Payments : \A h \in Hops :
    /\ stage[p] = "sign" /\ h > at[p] => "receiver" \in signed[p][h] \/ h \in BadSigner
    /\ stage[p] = "sign" /\ h > at[p] + 1 => "payer" \in signed[p][h] \/ h - 1 \in BadSigner
    /\ stage[p] = "verify" => Faithful(h) \subseteq signed[p][h]

(* A node has committed only what both parties have signed; the signatures stay. *)
CommittedSigned ==
  \A p \in Payments :
    /\ \A h \in committed[p] : Parties \subseteq signed[p][h]
    /\ stage[p] = "paid" => committed[p] = Hops

IInv == TypeOK /\ Position /\ SignedBehind /\ SignedByBoth /\ CommittedSigned

-----------------------------------------------------------------------------

(* The sum of an amount and what the reference takes stays a uint32. *)
LEMMA OnTopIsAmount ==
  ASSUME TypeOK, NEW r \in Payments \cup {None}, NEW h \in Hops, NEW x \in Nat
  PROVE  OnTop(r, amountIn, h, x) \in Amounts /\ OnTop(r, amountOut, h, x) \in Amounts
<1>1. (IF r = None THEN 0 ELSE amountIn[r][h]) \in Nat /\ (IF r = None THEN 0 ELSE amountOut[r][h]) \in Nat
  BY ConstantsAssumption DEF TypeOK, Amounts
<1>2. AmountMod \in Nat /\ AmountMod > 0
  BY ConstantsAssumption
<1>3. \A n \in Nat : n % AmountMod \in Amounts
  BY <1>2 DEF Amounts
<1> QED  BY <1>1, <1>3 DEF OnTop

LEMMA InitInductive == Init => IInv
<1> SUFFICES ASSUME Init PROVE IInv
  OBVIOUS
<1> USE ConstantsAssumption
<1>1. TypeOK
  BY DEF Init, TypeOK, Running, Amounts, Hops
<1>2. Position /\ SignedBehind /\ SignedByBoth /\ CommittedSigned
  BY DEF Init, Position, SignedBehind, SignedByBoth, CommittedSigned, Hops
<1> QED  BY <1>1, <1>2 DEF IInv

(* A new transaction has amounts, a number and a reference of their types. *)
LEMMA CreateTyped ==
  ASSUME IInv, NEW p \in Payments, CreateTransaction(p)
  PROVE  TypeOK'
<1> DEFINE h == at[p]
           r == stored[h]
           totalOut == Price[p] + totalFee[p]
<1> USE ConstantsAssumption
<1>1. h \in Hops /\ r \in Payments \cup {None}
  BY DEF IInv, TypeOK, Position, CreateTransaction
<1>2. totalOut \in Nat /\ totalOut + Fee[h] \in Nat /\ totalFee[p] + Fee[h] \in Nat
  BY <1>1 DEF IInv, TypeOK, Amounts
<1>3. /\ OnTop(r, amountIn, h, totalOut + Fee[h]) \in Amounts
      /\ OnTop(r, amountOut, h, totalOut) \in Amounts
  <2> HIDE DEF h, r, totalOut
  <2> QED  BY <1>1, <1>2, OnTopIsAmount DEF IInv
<1>4. FeesSoFar(p, h) \in Amounts
  BY <1>2 DEF FeesSoFar, Amounts
<1>5. NumberOnTop(p, h, r) \subseteq Payments
  BY <1>1 DEF NumberOnTop, IInv, TypeOK
<1>6. ref' \in [Payments -> [Hops -> Payments \cup {None}]] /\ number' \in [Payments -> [Hops -> Payments]]
  BY <1>1, <1>5 DEF CreateTransaction, IInv, TypeOK
<1>7. amountIn' \in [Payments -> [Hops -> Amounts]] /\ amountOut' \in [Payments -> [Hops -> Amounts]]
  BY <1>1, <1>3 DEF CreateTransaction, IInv, TypeOK
<1>8. totalFee' \in [Payments -> Amounts]
  BY <1>4 DEF CreateTransaction, IInv, TypeOK
<1>9. stage' \in [Payments -> Running \cup {"paid", "failed"}]
  BY DEF CreateTransaction, IInv, TypeOK, Running
<1>10. at' \in [Payments -> 0 .. Length]
  <2>1. Length \in 0 .. Length /\ h - 1 \in 0 .. Length
    BY <1>1 DEF Hops
  <2>2. at' = [at EXCEPT ![p] = Length] \/ at' = [at EXCEPT ![p] = h - 1]
    BY DEF CreateTransaction
  <2> QED  BY <2>1, <2>2 DEF IInv, TypeOK
<1> QED  BY <1>6, <1>7, <1>8, <1>9, <1>10 DEF CreateTransaction, IInv, TypeOK

(* A signature more on a transaction leaves the signatures typed. *)
LEMMA SignatureTyped ==
  ASSUME NEW f \in [Payments -> [Hops -> SUBSET Signers]],
         NEW p \in Payments, NEW h \in Hops, NEW who \in Signers
  PROVE  /\ Sign(f, p, h, who) \in [Payments -> [Hops -> SUBSET Signers]]
         /\ \A q \in Payments : \A j \in Hops :
              Sign(f, p, h, who)[q][j] = IF q = p /\ j = h THEN f[p][h] \cup {who} ELSE f[q][j]
<1>1. f[p][h] \cup {who} \in SUBSET Signers
  OBVIOUS
<1> DEFINE new == f[p][h] \cup {who}
<1>2. Sign(f, p, h, who) = [f EXCEPT ![p] = [f[p] EXCEPT ![h] = new]]
  BY DEF Sign
<1>3. [f[p] EXCEPT ![h] = new] \in [Hops -> SUBSET Signers]
  BY <1>1
<1> HIDE DEF new
<1>4. [f EXCEPT ![p] = [f[p] EXCEPT ![h] = new]] \in [Payments -> [Hops -> SUBSET Signers]]
  BY <1>3
<1>5. \A q \in Payments : \A j \in Hops :
        [f EXCEPT ![p] = [f[p] EXCEPT ![h] = new]][q][j] = IF q = p /\ j = h THEN new ELSE f[q][j]
  OBVIOUS
<1> QED  BY <1>2, <1>4, <1>5 DEF new

(* A node signs its credit and its debit with one key, its own or a stranger's. *)
LEMMA ChainSignatures ==
  ASSUME IInv, NEW p \in Payments, SignChain(p)
  PROVE  /\ signed' \in [Payments -> [Hops -> SUBSET Signers]]
         /\ \A q \in Payments : \A j \in Hops : signed[q][j] \subseteq signed'[q][j]
         /\ \A q \in Payments \ {p} : \A j \in Hops : signed'[q][j] = signed[q][j]
         /\ at[p] \notin BadSigner =>
              "receiver" \in signed'[p][at[p]] /\ "payer" \in signed'[p][at[p] + 1]
<1> DEFINE h == at[p]
<1>1. h \in Hops /\ h + 1 \in Hops
  BY ConstantsAssumption DEF SignChain, Hops
<1>2. signed \in [Payments -> [Hops -> SUBSET Signers]]
  BY DEF IInv, TypeOK
<1>3. PICK credit \in Signers, debit \in Signers :
        /\ signed' = Sign(Sign(signed, p, h, credit), p, h + 1, debit)
        /\ h \notin BadSigner => credit = "receiver" /\ debit = "payer"
  <2>1. "receiver" \in Signers /\ "payer" \in Signers /\ "stranger" \in Signers
    BY DEF Signers, Parties
  <2> QED  BY <2>1 DEF SignChain, SignedByNode, BadSignature
<1> DEFINE first == Sign(signed, p, h, credit)
<1> HIDE DEF h
<1>4. /\ first \in [Payments -> [Hops -> SUBSET Signers]]
      /\ \A q \in Payments : \A j \in Hops :
           first[q][j] = IF q = p /\ j = h THEN signed[p][h] \cup {credit} ELSE signed[q][j]
  BY <1>1, <1>2, SignatureTyped DEF Sign
<1> HIDE DEF first
<1>5. /\ signed' \in [Payments -> [Hops -> SUBSET Signers]]
      /\ \A q \in Payments : \A j \in Hops :
           signed'[q][j] = IF q = p /\ j = h + 1 THEN first[p][h + 1] \cup {debit} ELSE first[q][j]
  <2>1. signed' = Sign(first, p, h + 1, debit)
    BY <1>3 DEF first
  <2> QED  BY <1>1, <1>4, <2>1, SignatureTyped DEF Sign
<1>6. credit \in signed'[p][h] /\ debit \in signed'[p][h + 1]
  BY <1>1, <1>4, <1>5
<1> QED  BY <1>1, <1>3, <1>4, <1>5, <1>6 DEF h

LEMMA TypeStep == IInv /\ [Next]_vars => TypeOK'
<1> SUFFICES ASSUME IInv, [Next]_vars PROVE TypeOK'
  OBVIOUS
<1> USE ConstantsAssumption
<1>1. ASSUME NEW p \in Payments, Start(p) PROVE TypeOK'
  BY <1>1 DEF IInv, TypeOK, Start, Running, txs
<1>2. ASSUME NEW p \in Payments, CreateTransaction(p) PROVE TypeOK'
  BY <1>2, CreateTyped
<1>3. ASSUME NEW p \in Payments, SignService(p) PROVE TypeOK'
  <2>1. at' \in [Payments -> 0 .. Length]
    BY <1>3 DEF IInv, TypeOK, SignService
  <2>2. signed' \in [Payments -> [Hops -> SUBSET Signers]]
    <3>1. Length \in Hops /\ "receiver" \in Signers
      BY DEF Hops, Parties, Signers
    <3> QED  BY <1>3, <3>1, SignatureTyped DEF Sign, IInv, TypeOK, SignService
  <2> QED  BY <1>3, <2>1, <2>2 DEF IInv, TypeOK, SignService
<1>4. ASSUME NEW p \in Payments, SignChain(p) PROVE TypeOK'
  <2>1. at[p] \in Hops /\ at[p] + 1 \in Hops /\ at[p] - 1 \in 0 .. Length
    BY <1>4 DEF SignChain, Hops
  <2>2. at' \in [Payments -> 0 .. Length]
    BY <1>4, <2>1 DEF IInv, TypeOK, SignChain
  <2>3. signed' \in [Payments -> [Hops -> SUBSET Signers]]
    BY <1>4, ChainSignatures
  <2> QED  BY <1>4, <2>2, <2>3 DEF IInv, TypeOK, SignChain
<1>5. ASSUME NEW p \in Payments, SignInitial(p) PROVE TypeOK'
  <2>1. 1 \in Hops
    BY DEF Hops
  <2>2. Sign(signed, p, 1, "payer") \in [Payments -> [Hops -> SUBSET Signers]]
    BY <2>1, SignatureTyped DEF Sign, IInv, TypeOK, Parties, Signers
  <2>3. \/ stage' = [stage EXCEPT ![p] = "verify"] /\ signed' = Sign(signed, p, 1, "payer")
        \/ stage' = [stage EXCEPT ![p] = "failed"] /\ signed' = signed
    BY <1>5 DEF SignInitial
  <2> QED  BY <1>5, <2>2, <2>3 DEF IInv, TypeOK, SignInitial, Running
<1>6. ASSUME NEW p \in Payments, Verify(p) PROVE TypeOK'
  BY <1>6 DEF IInv, TypeOK, Verify, Running, txs
<1>7. ASSUME NEW p \in Payments, Commit(p) PROVE TypeOK'
  <2>1. at[p] \in Hops
    BY <1>7 DEF IInv, Position, Commit
  <2>5. at[p] - 1 \in 0 .. Length
    BY <2>1 DEF Hops
  <2>2. at' \in [Payments -> 0 .. Length]
    BY <1>7, <2>5 DEF IInv, TypeOK, Commit
  <2>3. stage' \in [Payments -> Running \cup {"paid", "failed"}]
    BY <1>7 DEF IInv, TypeOK, Commit, Running
  <2>4. committed' \in [Payments -> SUBSET Hops] /\ stored' \in [Hops -> Payments \cup {None}]
    BY <1>7, <2>1 DEF IInv, TypeOK, Commit, NextToCommit
  <2> QED  BY <1>7, <2>2, <2>3, <2>4 DEF IInv, TypeOK, Commit, txs
<1>8. ASSUME NEW p \in Payments, Abort(p) PROVE TypeOK'
  BY <1>8 DEF IInv, TypeOK, Abort, txs
<1>9. ASSUME NEW h \in Hops, Flush(h) PROVE TypeOK'
  BY <1>9 DEF IInv, TypeOK, Flush, txs
<1>10. CASE UNCHANGED vars
  BY <1>10 DEF IInv, TypeOK, vars, txs
<1> QED
  BY <1>1, <1>2, <1>3, <1>4, <1>5, <1>6, <1>7, <1>8, <1>9, <1>10 DEF Next

LEMMA PositionStep == IInv /\ [Next]_vars => Position'
<1> SUFFICES ASSUME IInv, [Next]_vars PROVE Position'
  OBVIOUS
<1> USE ConstantsAssumption
<1>1. ASSUME NEW p \in Payments, Start(p) PROVE Position'
  <2>1. stage[p] = "new" /\ at[p] = Length /\ committed[p] = {}
    BY <1>1 DEF IInv, Position, Start
  <2>2. stage' = [stage EXCEPT ![p] = "create"] \/ stage' = [stage EXCEPT ![p] = "failed"]
    BY <1>1 DEF Start
  <2>3. Length \in Hops /\ at' = at /\ committed' = committed
    BY <1>1 DEF Start, Hops
  <2> QED  BY <2>1, <2>2, <2>3 DEF IInv, TypeOK, Position
<1>2. ASSUME NEW p \in Payments, CreateTransaction(p) PROVE Position'
  <2>1. stage[p] = "create" /\ at[p] \in Hops /\ committed' = committed
    BY <1>2 DEF IInv, Position, CreateTransaction
  <2>2. \/ stage' = [stage EXCEPT ![p] = "sign"] /\ at' = [at EXCEPT ![p] = Length]
        \/ at[p] # 1 /\ stage' = stage /\ at' = [at EXCEPT ![p] = at[p] - 1]
    BY <1>2 DEF CreateTransaction
  <2>3. at[p] # 1 => at[p] - 1 \in Hops
    BY <2>1 DEF Hops
  <2> QED  BY <2>1, <2>2, <2>3 DEF IInv, TypeOK, Position
<1>3. ASSUME NEW p \in Payments, SignService(p) \/ SignChain(p) PROVE Position'
  <2>1. stage[p] = "sign" /\ stage' = stage /\ committed' = committed
    BY <1>3 DEF SignService, SignChain
  <2>2. \A q \in Payments \ {p} : at'[q] = at[q]
    BY <1>3 DEF IInv, TypeOK, SignService, SignChain
  <2> QED  BY <2>1, <2>2 DEF IInv, Position
<1>4. ASSUME NEW p \in Payments, SignInitial(p) PROVE Position'
  <2>1. stage[p] = "sign" /\ committed' = committed /\ at' = at
    BY <1>4 DEF SignInitial
  <2>2. stage' = [stage EXCEPT ![p] = "verify"] \/ stage' = [stage EXCEPT ![p] = "failed"]
    BY <1>4 DEF SignInitial
  <2> QED  BY <2>1, <2>2 DEF IInv, TypeOK, Position
<1>5. ASSUME NEW p \in Payments, Verify(p) PROVE Position'
  <2>1. Length \in Hops /\ Length + 1 .. Length = {}
    BY DEF Hops
  <2> QED  BY <1>5, <2>1 DEF IInv, TypeOK, Position, Verify
<1>6. ASSUME NEW p \in Payments, Commit(p) PROVE Position'
  <2>1. at[p] \in Hops /\ committed[p] = at[p] + 1 .. Length
    BY <1>6 DEF IInv, Position, Commit
  <2>2. at'[p] = at[p] - 1 /\ committed'[p] = committed[p] \cup {at[p]}
    BY <1>6 DEF IInv, TypeOK, Commit, NextToCommit
  <2>6. committed'[p] = at'[p] + 1 .. Length
    BY <2>1, <2>2 DEF Hops
  <2>7. stage'[p] = "commit" => at[p] # 1
    BY <1>6 DEF IInv, TypeOK, Commit
  <2>3. stage'[p] = "commit" => at'[p] \in Hops
    BY <2>1, <2>2, <2>7 DEF Hops
  <2>4. stage'[p] \in {"failed", "paid", "commit"}
    BY <1>6 DEF IInv, TypeOK, Commit
  <2>5. \A q \in Payments \ {p} :
          stage'[q] = stage[q] /\ at'[q] = at[q] /\ committed'[q] = committed[q]
    BY <1>6 DEF IInv, TypeOK, Commit
  <2> QED  BY <2>3, <2>4, <2>5, <2>6 DEF IInv, Position
<1>7. ASSUME NEW p \in Payments, Abort(p) PROVE Position'
  BY <1>7 DEF IInv, TypeOK, Position, Abort
<1>8. ASSUME NEW h \in Hops, Flush(h) PROVE Position'
  BY <1>8 DEF IInv, Position, Flush
<1>9. CASE UNCHANGED vars
  BY <1>9 DEF IInv, Position, vars
<1> QED
  BY <1>1, <1>2, <1>3, <1>4, <1>5, <1>6, <1>7, <1>8, <1>9 DEF Next

LEMMA SignedStep == IInv /\ [Next]_vars => SignedBehind' /\ SignedByBoth'
<1> SUFFICES ASSUME IInv, [Next]_vars PROVE SignedBehind' /\ SignedByBoth'
  OBVIOUS
<1> USE ConstantsAssumption
<1>0. signed \in [Payments -> [Hops -> SUBSET Signers]]
  BY DEF IInv, TypeOK
<1>1. ASSUME NEW p \in Payments, Start(p) \/ Abort(p) PROVE SignedBehind' /\ SignedByBoth'
  <2>1. signed' = signed /\ at' = at
    BY <1>1 DEF Start, Abort, txs
  <2>2. stage' = [stage EXCEPT ![p] = "create"] \/ stage' = [stage EXCEPT ![p] = "failed"]
    BY <1>1 DEF Start, Abort
  <2> QED  BY <2>1, <2>2 DEF IInv, TypeOK, SignedBehind, SignedByBoth
<1>2. ASSUME NEW p \in Payments, CreateTransaction(p) PROVE SignedBehind' /\ SignedByBoth'
  <2>1. signed' = signed /\ stage[p] = "create" /\ at[p] \in Hops
    BY <1>2 DEF IInv, Position, CreateTransaction
  <2>2. \/ stage' = [stage EXCEPT ![p] = "sign"] /\ at' = [at EXCEPT ![p] = Length]
        \/ stage' = stage /\ at' = [at EXCEPT ![p] = at[p] - 1]
    BY <1>2 DEF CreateTransaction
  <2>3. \A h \in Hops : ~(h > Length) /\ ~(h > Length + 1)
    BY DEF Hops
  <2>4. (stage'[p] = "sign" /\ at'[p] = Length) \/ stage'[p] = "create"
    BY <2>1, <2>2 DEF IInv, TypeOK
  <2>5. \A q \in Payments \ {p} : stage'[q] = stage[q] /\ at'[q] = at[q]
    BY <2>2 DEF IInv, TypeOK
  <2> QED  BY <2>1, <2>3, <2>4, <2>5 DEF IInv, SignedBehind, SignedByBoth
<1>3. ASSUME NEW p \in Payments, SignService(p) PROVE SignedBehind' /\ SignedByBoth'
  <2>1. stage[p] = "sign" /\ stage' = stage /\ at[p] = Length /\ at' = [at EXCEPT ![p] = Length - 1]
    BY <1>3 DEF SignService
  <2>2. Length \in Hops /\ "receiver" \in Signers /\ \A h \in Hops : h > Length - 1 => h = Length
    BY DEF Hops, Parties, Signers
  <2>3. signed' = Sign(signed, p, Length, "receiver")
    BY <1>3 DEF SignService
  <2>4. \A q \in Payments : \A j \in Hops :
          signed'[q][j] = IF q = p /\ j = Length THEN signed[p][Length] \cup {"receiver"} ELSE signed[q][j]
    BY <1>0, <2>2, <2>3, SignatureTyped DEF Sign
  <2>5. \A h \in Hops : ~(h > Length - 1 + 1)
    BY DEF Hops
  <2>6. at'[p] = Length - 1 /\ stage'[p] = "sign"
    BY <2>1 DEF IInv, TypeOK
  <2>7. \A q \in Payments \ {p} : at'[q] = at[q] /\ \A j \in Hops : signed'[q][j] = signed[q][j]
    BY <2>1, <2>4 DEF IInv, TypeOK
  <2>8. "receiver" \in signed'[p][Length]
    BY <2>2, <2>4
  <2> QED  BY <2>1, <2>2, <2>5, <2>6, <2>7, <2>8 DEF IInv, SignedBehind, SignedByBoth
<1>4. ASSUME NEW p \in Payments, SignChain(p) PROVE SignedBehind' /\ SignedByBoth'
  <2> DEFINE h == at[p]
  <2>1. stage[p] = "sign" /\ stage' = stage /\ at' = [at EXCEPT ![p] = h - 1] /\ h \in Hops
    BY <1>4 DEF SignChain, Hops
  <2>2. \A q \in Payments \ {p} : at'[q] = at[q] /\ \A j \in Hops : signed'[q][j] = signed[q][j]
    BY <1>4, <2>1, ChainSignatures DEF IInv, TypeOK
  <2>3. /\ \A j \in Hops : signed[p][j] \subseteq signed'[p][j]
        /\ h \notin BadSigner => "receiver" \in signed'[p][h] /\ "payer" \in signed'[p][h + 1]
    BY <1>4, ChainSignatures
  <2>4. at'[p] = h - 1
    BY <2>1 DEF IInv, TypeOK
  <2>5. \A j \in Hops : /\ j > h => "receiver" \in signed[p][j] \/ j \in BadSigner
                        /\ j > h + 1 => "payer" \in signed[p][j] \/ j - 1 \in BadSigner
    BY <2>1 DEF IInv, SignedBehind
  <2> HIDE DEF h
  <2>6. \A j \in Hops : /\ j > h - 1 => j = h \/ j > h
                        /\ j > h - 1 + 1 => (j = h + 1 /\ j - 1 = h) \/ j > h + 1
    BY <2>1 DEF Hops
  <2>7. \A j \in Hops : /\ j > at'[p] => "receiver" \in signed'[p][j] \/ j \in BadSigner
                        /\ j > at'[p] + 1 => "payer" \in signed'[p][j] \/ j - 1 \in BadSigner
    BY <2>3, <2>4, <2>5, <2>6
  <2> QED  BY <2>1, <2>2, <2>7 DEF IInv, SignedBehind, SignedByBoth
<1>5. ASSUME NEW p \in Payments, SignInitial(p) PROVE SignedBehind' /\ SignedByBoth'
  <2>1. stage[p] = "sign" /\ at[p] = 0 /\ at' = at
    BY <1>5 DEF SignInitial
  <2>2. 1 \in Hops /\ "payer" \in Signers /\ \A h \in Hops : h > 0 /\ (h = 1 \/ h > 0 + 1)
    BY DEF Hops, Parties, Signers
  <2>3. \A h \in Hops : /\ "receiver" \in signed[p][h] \/ h \in BadSigner
                        /\ h # 1 => "payer" \in signed[p][h] \/ h - 1 \in BadSigner
    BY <2>1, <2>2 DEF IInv, SignedBehind
  <2>4. CASE stage' = [stage EXCEPT ![p] = "verify"] /\ signed' = Sign(signed, p, 1, "payer")
    <3>1. \A q \in Payments : \A j \in Hops :
            signed'[q][j] = IF q = p /\ j = 1 THEN signed[p][1] \cup {"payer"} ELSE signed[q][j]
      BY <1>0, <2>2, <2>4, SignatureTyped DEF Sign
    <3>2. \A h \in Hops : Faithful(h) \subseteq signed'[p][h]
      BY <2>2, <2>3, <3>1 DEF Faithful, Parties
    <3>3. \A q \in Payments \ {p} : \A j \in Hops : signed'[q][j] = signed[q][j]
      BY <3>1
    <3> QED  BY <2>1, <2>4, <3>2, <3>3 DEF IInv, TypeOK, SignedBehind, SignedByBoth
  <2>5. CASE stage' = [stage EXCEPT ![p] = "failed"] /\ signed' = signed
    BY <2>1, <2>5 DEF IInv, TypeOK, SignedBehind, SignedByBoth
  <2> QED  BY <1>5, <2>4, <2>5 DEF SignInitial
<1>6. ASSUME NEW p \in Payments, Verify(p) PROVE SignedBehind' /\ SignedByBoth'
  <2>1. stage[p] = "verify" /\ signed' = signed /\ \A q \in Payments \ {p} : at'[q] = at[q]
    BY <1>6 DEF Verify, txs, IInv, TypeOK
  <2>2. stage' = [stage EXCEPT ![p] = "commit"] \/ stage' = [stage EXCEPT ![p] = "failed"]
    BY <1>6 DEF Verify
  <2>3. \A h \in Hops : Faithful(h) \subseteq signed[p][h]
    BY <2>1 DEF IInv, SignedBehind
  <2>4. stage'[p] \in {"commit", "failed"} /\ \A q \in Payments \ {p} : stage'[q] = stage[q]
    BY <2>2 DEF IInv, TypeOK
  <2> QED  BY <2>1, <2>3, <2>4 DEF IInv, SignedBehind, SignedByBoth
<1>7. ASSUME NEW p \in Payments, Commit(p) PROVE SignedBehind' /\ SignedByBoth'
  <2>1. stage[p] = "commit" /\ signed' = signed /\ \A q \in Payments \ {p} : at'[q] = at[q] /\ stage'[q] = stage[q]
    BY <1>7 DEF Commit, txs, IInv, TypeOK
  <2>2. stage'[p] \in {"failed", "paid", "commit"}
    BY <1>7 DEF IInv, TypeOK, Commit
  <2> QED  BY <2>1, <2>2 DEF IInv, SignedBehind, SignedByBoth
<1>8. ASSUME NEW h \in Hops, Flush(h) PROVE SignedBehind' /\ SignedByBoth'
  BY <1>8 DEF IInv, SignedBehind, SignedByBoth, Flush, txs
<1>9. CASE UNCHANGED vars
  BY <1>9 DEF IInv, SignedBehind, SignedByBoth, vars, txs
<1> QED
  BY <1>1, <1>2, <1>3, <1>4, <1>5, <1>6, <1>7, <1>8, <1>9 DEF Next

LEMMA CommittedStep == IInv /\ [Next]_vars => CommittedSigned'
<1> SUFFICES ASSUME IInv, [Next]_vars PROVE CommittedSigned'
  OBVIOUS
<1> USE ConstantsAssumption
<1>0. signed \in [Payments -> [Hops -> SUBSET Signers]]
  BY DEF IInv, TypeOK
<1>1. ASSUME NEW p \in Payments, Commit(p) PROVE CommittedSigned'
  <2>1. /\ stage[p] = "commit" /\ signed' = signed
        /\ at[p] \in Hops /\ committed[p] = at[p] + 1 .. Length
        /\ Parties \subseteq signed[p][at[p]]
    BY <1>1 DEF Commit, NextToCommit, SignaturesVerified, txs, IInv, Position
  <2>2. /\ committed'[p] = committed[p] \cup {at[p]}
        /\ stage'[p] = "paid" => at[p] = 1
        /\ \A q \in Payments \ {p} : committed'[q] = committed[q] /\ stage'[q] = stage[q]
    BY <1>1 DEF Commit, NextToCommit, IInv, TypeOK
  <2>3. stage'[p] = "paid" => committed'[p] = Hops
    BY <2>1, <2>2 DEF Hops
  <2> QED  BY <2>1, <2>2, <2>3 DEF IInv, CommittedSigned
<1>2. ASSUME NEW p \in Payments, committed' = committed, stage[p] \in {"sign"},
             NEW f \in [Payments -> [Hops -> SUBSET Signers]], signed' = f,
             \A q \in Payments \ {p} : \A j \in Hops : signed'[q][j] = signed[q][j],
             \A q \in Payments : stage'[q] = "paid" => stage[q] = "paid"
      PROVE  CommittedSigned'
  <2>1. committed[p] = {}
    BY <1>2 DEF IInv, Position
  <2>2. \A q \in Payments : committed[q] \subseteq Hops
    BY DEF IInv, TypeOK
  <2> QED  BY <1>2, <2>1, <2>2 DEF IInv, CommittedSigned
<1>3. ASSUME NEW p \in Payments, SignService(p) PROVE CommittedSigned'
  <2>1. Length \in Hops /\ "receiver" \in Signers
    BY DEF Hops, Parties, Signers
  <2>2. committed' = committed /\ stage[p] = "sign" /\ stage' = stage /\ signed' = Sign(signed, p, Length, "receiver")
    BY <1>3 DEF SignService
  <2>3. /\ signed' \in [Payments -> [Hops -> SUBSET Signers]]
        /\ \A q \in Payments \ {p} : \A j \in Hops : signed'[q][j] = signed[q][j]
    BY <1>0, <2>1, <2>2, SignatureTyped DEF Sign
  <2> QED  BY <1>2, <2>2, <2>3
<1>4. ASSUME NEW p \in Payments, SignChain(p) PROVE CommittedSigned'
  <2>1. committed' = committed /\ stage[p] = "sign" /\ stage' = stage
    BY <1>4 DEF SignChain
  <2> QED  BY <1>2, <1>4, <2>1, ChainSignatures
<1>5. ASSUME NEW p \in Payments, SignInitial(p) PROVE CommittedSigned'
  <2>1. committed' = committed /\ stage[p] = "sign"
    BY <1>5 DEF SignInitial
  <2>2. 1 \in Hops /\ "payer" \in Signers
    BY DEF Hops, Parties, Signers
  <2>3. \/ stage' = [stage EXCEPT ![p] = "verify"] /\ signed' = Sign(signed, p, 1, "payer")
        \/ stage' = [stage EXCEPT ![p] = "failed"] /\ signed' = signed
    BY <1>5 DEF SignInitial
  <2>4. /\ signed' \in [Payments -> [Hops -> SUBSET Signers]]
        /\ \A q \in Payments \ {p} : \A j \in Hops : signed'[q][j] = signed[q][j]
    <3>1. CASE signed' = Sign(signed, p, 1, "payer")
      BY <1>0, <2>2, <3>1, SignatureTyped DEF Sign
    <3>2. CASE signed' = signed
      BY <1>0, <3>2
    <3> QED  BY <2>3, <3>1, <3>2
  <2>5. \A q \in Payments : stage'[q] = "paid" => stage[q] = "paid"
    BY <2>3 DEF IInv, TypeOK
  <2> QED  BY <1>2, <2>1, <2>4, <2>5
<1>6. ASSUME committed' = committed, signed' = signed,
             \A q \in Payments : stage'[q] = "paid" => stage[q] = "paid"
      PROVE  CommittedSigned'
  BY <1>6 DEF IInv, CommittedSigned
<1>7. ASSUME NEW p \in Payments, Start(p) \/ CreateTransaction(p) \/ Verify(p) \/ Abort(p)
      PROVE  CommittedSigned'
  <2>1. committed' = committed /\ signed' = signed
    BY <1>7 DEF Start, CreateTransaction, Verify, Abort, txs
  <2>2. \/ stage' = stage
        \/ \E to \in {"create", "sign", "commit", "failed"} : stage' = [stage EXCEPT ![p] = to]
    BY <1>7 DEF Start, CreateTransaction, Verify, Abort
  <2>3. \A q \in Payments : stage'[q] = "paid" => stage[q] = "paid"
    BY <2>2 DEF IInv, TypeOK
  <2> QED  BY <1>6, <2>1, <2>3
<1>8. ASSUME NEW h \in Hops, Flush(h) PROVE CommittedSigned'
  BY <1>6, <1>8 DEF Flush, txs
<1>9. CASE UNCHANGED vars
  BY <1>6, <1>9 DEF vars, txs
<1> QED
  BY <1>1, <1>3, <1>4, <1>5, <1>7, <1>8, <1>9 DEF Next

LEMMA Inductive == Spec => []IInv
<1>1. IInv /\ [Next]_vars => IInv'
  BY TypeStep, PositionStep, SignedStep, CommittedStep DEF IInv
<1> QED  BY InitInductive, <1>1, PTL DEF Spec

-----------------------------------------------------------------------------

(* Type correctness: amounts, fees and positions stay in range for every route, price    *)
(* and fee.                                                                              *)
THEOREM TypeCorrect == Spec => []TypeOK
<1>1. IInv => TypeOK
  BY DEF IInv
<1> QED  BY Inductive, <1>1, PTL

(* When FinalizePayment starts, every transaction of the payment carries the signatures  *)
(* of both its parties, as far as these sign with their own key: no node refuses a       *)
(* commit halfway for a signature that nobody was asked for.                             *)
THEOREM CommitsAreSigned == Spec => []SignedByBoth
<1>1. IInv => SignedByBoth
  BY DEF IInv
<1> QED  BY Inductive, <1>1, PTL

(* A payment over a node that signed with another key is never reported paid.            *)
THEOREM PaidAreSigned == Spec => []PaidIsSigned
<1>1. IInv => PaidIsSigned
  BY DEF IInv, CommittedSigned, PaidIsSigned
<1> QED  BY Inductive, <1>1, PTL

LEMMA SettlementInit == Init => Settlement!Init
<1> SUFFICES ASSUME Init PROVE Settlement!Init
  OBVIOUS
<1> QED  BY DEF Init, Settlement!Init, Running

(* A commit settles the next hop; every other step leaves what is settled alone and at   *)
(* most gives the payment up.                                                            *)
LEMMA SettlementStep == IInv /\ [Next]_vars => [Settlement!Next]_Settlement!vars
<1> SUFFICES ASSUME IInv, [Next]_vars PROVE [Settlement!Next]_Settlement!vars
  OBVIOUS
<1> DEFINE out == [p \in Payments |-> IF stage[p] \in Running THEN "open" ELSE stage[p]]
<1> USE DEF Settlement!vars
<1>1. ASSUME committed' = committed,
             NEW p \in Payments, stage[p] \in Running,
             NEW to \in Running \cup {"failed"}, stage' = [stage EXCEPT ![p] = to]
      PROVE  [Settlement!Next]_Settlement!vars
  <2>1. CASE to \in Running
    <3>1. out' = out
      BY <1>1, <2>1 DEF IInv, TypeOK
    <3> QED  BY <1>1, <3>1
  <2>2. CASE to = "failed"
    <3>1. out' = [out EXCEPT ![p] = "failed"] /\ out[p] = "open"
      BY <1>1, <2>2 DEF IInv, TypeOK, Running
    <3>2. Settlement!GiveUp(p)
      BY <1>1, <3>1 DEF Settlement!GiveUp
    <3> QED  BY <3>2 DEF Settlement!Next
  <2> QED  BY <1>1, <2>1, <2>2
<1>2. ASSUME committed' = committed, stage' = stage PROVE [Settlement!Next]_Settlement!vars
  BY <1>2
<1>3. ASSUME NEW p \in Payments, Start(p) \/ Verify(p) \/ Abort(p) \/ SignInitial(p)
      PROVE  [Settlement!Next]_Settlement!vars
  <2>1. committed' = committed /\ stage[p] \in Running
    BY <1>3 DEF Start, Verify, Abort, SignInitial, Running
  <2>2. \E to \in Running \cup {"failed"} : stage' = [stage EXCEPT ![p] = to]
    BY <1>3 DEF Start, Verify, Abort, SignInitial, Running
  <2> QED  BY <1>1, <2>1, <2>2
<1>4. ASSUME NEW p \in Payments, CreateTransaction(p) PROVE [Settlement!Next]_Settlement!vars
  <2>1. committed' = committed /\ stage[p] \in Running
    BY <1>4 DEF CreateTransaction, Running
  <2>2. stage' = stage \/ stage' = [stage EXCEPT ![p] = "sign"]
    BY <1>4 DEF CreateTransaction
  <2> QED  BY <1>1, <1>2, <2>1, <2>2 DEF Running
<1>5. ASSUME NEW p \in Payments, SignService(p) \/ SignChain(p)
      PROVE  [Settlement!Next]_Settlement!vars
  BY <1>2, <1>5 DEF SignService, SignChain
<1>6. ASSUME NEW p \in Payments, Commit(p) PROVE [Settlement!Next]_Settlement!vars
  <2> DEFINE h == at[p]
  <2>1. stage[p] = "commit" /\ h \in Hops /\ committed[p] = h + 1 .. Length
    BY <1>6 DEF Commit, IInv, Position
  <2>2. h \in Hops \ committed[p] /\ \A j \in Hops : j > h => j \in committed[p]
    BY <2>1, ConstantsAssumption DEF Hops
  <2>3. committed' = [committed EXCEPT ![p] = @ \cup {h}]
    BY <1>6 DEF Commit, NextToCommit
  <2>4. out[p] = "open"
    BY <2>1 DEF Running
  <2>5. \/ stage' = [stage EXCEPT ![p] = "failed"]
        \/ h = 1 /\ stage' = [stage EXCEPT ![p] = "paid"]
        \/ stage' = [stage EXCEPT ![p] = "commit"]
    BY <1>6 DEF Commit
  <2>6. \/ out' = [out EXCEPT ![p] = "failed"]
        \/ h = 1 /\ out' = [out EXCEPT ![p] = "paid"]
        \/ out' = out
    BY <2>1, <2>5 DEF IInv, TypeOK, Running
  <2>7. Settlement!Settle(p)
    <3> HIDE DEF h, out
    <3>1. /\ h \in Settlement!Hops \ committed[p]
          /\ \A j \in Settlement!Hops : j > h => j \in committed[p]
      BY <2>2 DEF Settlement!Hops, Hops
    <3> QED  BY <2>3, <2>4, <2>6, <3>1 DEF Settlement!Settle, out
  <2> QED  BY <2>7 DEF Settlement!Next
<1>7. ASSUME NEW h \in Hops, Flush(h) PROVE [Settlement!Next]_Settlement!vars
  BY <1>2, <1>7 DEF Flush
<1>8. CASE UNCHANGED vars
  BY <1>2, <1>8 DEF vars
<1> QED
  BY <1>3, <1>4, <1>5, <1>6, <1>7, <1>8 DEF Next

(* The client's protocol implements HopSettlement: whatever call fails and whatever      *)
(* answer is lost, hops are settled from the service back to the payer and a payment is  *)
(* reported paid only with all of them settled.                                          *)
THEOREM SettlementRefined == Spec => SettlesFromService
<1>1. Init => Settlement!Init
  BY SettlementInit
<1>2. IInv /\ [Next]_vars => [Settlement!Next]_Settlement!vars
  BY SettlementStep
<1> QED
  BY Inductive, <1>1, <1>2, PTL DEF Spec, SettlesFromService, Settlement!Spec

-------------------------------------------------------------------------------
(***************************************************************************)
(* What a payment builds on does not change under it: a reference is a     *)
(* transaction its node has committed, and a payment whose commits have    *)
(* started creates nothing any more.                                       *)
(***************************************************************************)
References ==
  /\ \A h \in Hops : stored[h] # None => h \in committed[stored[h]]
  /\ \A p \in Payments : \A h \in Hops : ref[p][h] # None => h \in committed[ref[p][h]]

NumbersCompared ==
  \A p \in Payments : stage[p] = "commit" \/ committed[p] # {} =>
    \A h \in Hops : ref[p][h] # None => number[p][h] = number[ref[p][h]][h]

\* What the transaction under p's takes on hop h.
Taken(p, h) == IF ref[p][h] = None THEN 0 ELSE amountIn[ref[p][h]][h]

\* The steps that build no transaction.
TransactionsKept ==
  UNCHANGED <<totalFee, ref, amountIn, amountOut, number>>

LEMMA TransactionsStep ==
  ASSUME [Next]_vars, \A p \in Payments : ~CreateTransaction(p)
  PROVE  TransactionsKept
  BY DEF Next, TransactionsKept, vars, txs, Start, SignService, SignChain, SignInitial, Verify,
         Commit, Abort,
         Flush

LEMMA CommittedGrow ==
  ASSUME TypeOK, [Next]_vars, NEW p \in Payments
  PROVE  committed[p] \subseteq committed'[p]
<1>1. ASSUME NEW q \in Payments, Commit(q) PROVE committed[p] \subseteq committed'[p]
  BY <1>1 DEF TypeOK, Commit
<1> QED
  BY <1>1
    DEF Next, vars, Start, CreateTransaction, SignService, SignChain, SignInitial, Verify,
        Abort, Flush

\* A new transaction disturbs no other and none that it builds on.
LEMMA CreateStep ==
  ASSUME IInv, References, NEW p \in Payments, NEW h \in Hops, h = at[p], CreateTransaction(p)
  PROVE  /\ committed[p] = {}
         /\ ref'[p][h] = stored[h]
         /\ \A q \in Payments : \A j \in Hops : q # p \/ j # h =>
              /\ ref'[q][j] = ref[q][j] /\ Taken(q, j)' = Taken(q, j)
              /\ amountIn'[q][j] = amountIn[q][j] /\ number'[q][j] = number[q][j]
         /\ amountIn'[p][h] = (Taken(p, h)' + (Price[p] + totalFee[p] + Fee[h])) % AmountMod
         /\ totalFee' = [totalFee EXCEPT ![p] = FeesSoFar(p, h)]
<1> DEFINE r == stored[h]
           x == Price[p] + totalFee[p] + Fee[h]
<1>1. committed[p] = {} /\ r \in Payments \cup {None}
  BY DEF IInv, TypeOK, Position, CreateTransaction
<1>2. /\ ref' = [ref EXCEPT ![p][h] = r]
      /\ amountIn' = [amountIn EXCEPT ![p][h] = OnTop(r, amountIn, h, x)]
      /\ \E n \in NumberOnTop(p, h, r) : number' = [number EXCEPT ![p][h] = n]
      /\ totalFee' = [totalFee EXCEPT ![p] = FeesSoFar(p, h)]
  BY DEF CreateTransaction
<1> HIDE DEF r, x
<1>3. \A q \in Payments : \A j \in Hops :
        /\ ref'[q][j] = IF q = p /\ j = h THEN r ELSE ref[q][j]
        /\ amountIn'[q][j] = IF q = p /\ j = h THEN OnTop(r, amountIn, h, x) ELSE amountIn[q][j]
        /\ q # p \/ j # h => number'[q][j] = number[q][j]
  <2>1. \A q \in Payments : \A j \in Hops :
          ref'[q][j] = IF q = p /\ j = h THEN r ELSE ref[q][j]
    BY <1>1, <1>2 DEF IInv, TypeOK
  <2>2. \A q \in Payments : \A j \in Hops :
          amountIn'[q][j] = IF q = p /\ j = h THEN OnTop(r, amountIn, h, x) ELSE amountIn[q][j]
    BY <1>1, <1>2 DEF IInv, TypeOK
  <2>3. \A q \in Payments : \A j \in Hops : q # p \/ j # h => number'[q][j] = number[q][j]
    BY <1>1, <1>2 DEF IInv, TypeOK
  <2> QED
    BY <2>1, <2>2, <2>3
<1>4. \A q \in Payments : \A j \in Hops : ref[q][j] \in Payments \cup {None} /\ ref[q][j] # p
  <2>1. \A q \in Payments : \A j \in Hops : ref[q][j] \in Payments \cup {None}
    BY DEF IInv, TypeOK
  <2>2. \A q \in Payments : \A j \in Hops : ref[q][j] # p
    BY <1>1, ConstantsAssumption DEF References
  <2> QED
    BY <2>1, <2>2
<1>5. r # p
  BY <1>1, ConstantsAssumption DEF References, r
<1>6. \A q \in Payments : \A j \in Hops : q # p \/ j # h => Taken(q, j)' = Taken(q, j)
  BY <1>3, <1>4 DEF Taken
<1>7. Taken(p, h)' = IF r = None THEN 0 ELSE amountIn[r][h]
  <2>1. ref'[p][h] = r
    BY <1>1, <1>3
  <2>2. r # None => amountIn'[r][h] = amountIn[r][h]
    BY <1>1, <1>3, <1>5
  <2> QED
    BY <2>1, <2>2 DEF Taken
<1> QED
  BY <1>1, <1>2, <1>3, <1>6, <1>7 DEF OnTop, r, x

LEMMA ReferencesStep ==
  ASSUME IInv, References, [Next]_vars
  PROVE  References'
<1>0. TypeOK
  BY DEF IInv
<1>1. \A h \in Hops : stored'[h] # None => h \in committed'[stored'[h]]
  <2>1. ASSUME NEW p \in Payments, Commit(p) PROVE <1>1!:
    <3>1. at[p] \in Hops /\ stored' = [stored EXCEPT ![at[p]] = p]
          /\ committed' = [committed EXCEPT ![p] = @ \cup {at[p]}]
      BY <2>1 DEF IInv, Position, Commit, NextToCommit
    <3> QED
      BY <1>0, <3>1 DEF TypeOK, References
  <2>2. ASSUME NEW h \in Hops, Flush(h) PROVE <1>1!:
    BY <1>0, <2>2 DEF TypeOK, References, Flush
  <2>3. CASE UNCHANGED <<stored, committed>>
    BY <2>3 DEF References
  <2> QED
    BY <2>1, <2>2, <2>3
      DEF Next, vars, Start, CreateTransaction, SignService, SignChain, SignInitial, Verify,
       Abort
<1>2. \A p \in Payments : \A h \in Hops : ref'[p][h] # None => h \in committed'[ref'[p][h]]
  <2>1. ASSUME NEW p \in Payments, CreateTransaction(p) PROVE <1>2!:
    <3>1. committed' = committed
      BY <2>1 DEF CreateTransaction
    <3>2. at[p] \in Hops
      BY <2>1 DEF IInv, Position, CreateTransaction
    <3>3. \A q \in Payments : \A h \in Hops : ref'[q][h] = ref[q][h] \/ ref'[q][h] = stored[h]
      BY <2>1, <3>2, CreateStep
    <3> QED
      BY <3>1, <3>3 DEF References
  <2>2. CASE TransactionsKept
    BY <1>0, <2>2, CommittedGrow DEF TypeOK, TransactionsKept, References
  <2> QED
    BY <2>1, <2>2, TransactionsStep
<1> QED
  BY <1>1, <1>2 DEF References

LEMMA NumbersStep ==
  ASSUME IInv, References, NumbersCompared, [Next]_vars
  PROVE  NumbersCompared'
<1>0. TypeOK
  BY DEF IInv
<1> SUFFICES ASSUME NEW q \in Payments, NEW j \in Hops,
                    stage'[q] = "commit" \/ committed'[q] # {}, ref'[q][j] # None
             PROVE  number'[q][j] = number'[ref'[q][j]][j]
  BY DEF NumbersCompared
<1>1. ASSUME NEW p \in Payments, CreateTransaction(p)
      PROVE  number'[q][j] = number'[ref'[q][j]][j]
  <2>0. PICK h \in Hops : h = at[p]
    BY <1>1 DEF IInv, Position, CreateTransaction
  <2>1. committed' = committed /\ committed[p] = {}
    BY <1>1, <2>0, CreateStep DEF CreateTransaction
  <2>2. q # p /\ stage'[q] = stage[q]
    <3>1. stage[p] = "create" /\ (stage' = stage \/ stage' = [stage EXCEPT ![p] = "sign"])
      BY <1>1 DEF CreateTransaction
    <3> QED
      BY <1>0, <2>1, <3>1 DEF TypeOK
  <2>3. ref'[q][j] = ref[q][j] /\ number'[q][j] = number[q][j]
    BY <1>1, <2>0, <2>2, CreateStep
  <2>4. ref[q][j] \in Payments /\ ref[q][j] # p
    BY <1>0, <2>1, <2>3 DEF TypeOK, References
  <2>5. number'[ref[q][j]][j] = number[ref[q][j]][j]
    BY <1>1, <2>0, <2>4, CreateStep
  <2> QED
    BY <2>1, <2>2, <2>3, <2>5 DEF NumbersCompared
<1>2. ASSUME NEW p \in Payments, Verify(p) PROVE number'[q][j] = number'[ref'[q][j]][j]
  BY <1>0, <1>2 DEF TypeOK, Verify, Valid, NumbersCompared, txs
<1>3. ASSUME NEW p \in Payments, Commit(p) PROVE number'[q][j] = number'[ref'[q][j]][j]
  BY <1>0, <1>3 DEF TypeOK, Commit, NumbersCompared, txs
<1>4. ASSUME NEW p \in Payments,
             Start(p) \/ SignService(p) \/ SignChain(p) \/ SignInitial(p) \/ Abort(p)
      PROVE  number'[q][j] = number'[ref'[q][j]][j]
  BY <1>0, <1>4
    DEF TypeOK, Start, SignService, SignChain, SignInitial, Abort, NumbersCompared, txs
<1>5. ASSUME NEW h \in Hops, Flush(h) PROVE number'[q][j] = number'[ref'[q][j]][j]
  BY <1>5 DEF Flush, NumbersCompared, txs
<1>6. CASE UNCHANGED vars
  BY <1>6 DEF vars, NumbersCompared, txs
<1> QED
  BY <1>1, <1>2, <1>3, <1>4, <1>5, <1>6 DEF Next

(***************************************************************************)
(* Why payer and nodes agree.  totalFee is what every hop created so far   *)
(* added, so the last transaction created takes the price and totalFee on  *)
(* top of its reference; a hop adds what the one before it added and its   *)
(* node's fee.  All sums wrap around at AmountMod.                         *)
(***************************************************************************)
AgreesAt(p, h) == amountIn[p][h] = (Taken(p, h) + (Price[p] + totalFee[p])) % AmountMod

KeepsFee(p, h) == Adds(p, amountIn, h) = (Adds(p, amountIn, h + 1) + Fee[h]) % AmountMod

Created == {"sign", "verify", "commit", "paid"}

FeesAgree ==
  \A p \in Payments :
    /\ stage[p] = "create" => \A h \in Hops : h = at[p] + 1 => AgreesAt(p, h)
    /\ stage[p] \in Created => AgreesAt(p, 1)
    /\ \A h \in 1 .. Length - 1 :
         stage[p] \in Created \/ (stage[p] = "create" /\ h > at[p]) => KeepsFee(p, h)

\* The amounts a new transaction adds up, as integers.
AmountsAreInt ==
  \A p \in Payments : \A h \in Hops :
    /\ Taken(p, h) \in Int /\ amountIn[p][h] \in Int
    /\ Price[p] \in Int /\ totalFee[p] \in Int /\ Fee[h] \in Int
    /\ Adds(p, amountIn, h) = (amountIn[p][h] - Taken(p, h)) % AmountMod

LEMMA AmountsTyped == TypeOK => AmountsAreInt
<1> SUFFICES ASSUME TypeOK, NEW p \in Payments, NEW h \in Hops
             PROVE  /\ Taken(p, h) \in Int /\ amountIn[p][h] \in Int
                    /\ Price[p] \in Int /\ totalFee[p] \in Int /\ Fee[h] \in Int
                    /\ Adds(p, amountIn, h) = (amountIn[p][h] - Taken(p, h)) % AmountMod
  BY DEF AmountsAreInt
<1>1. amountIn \in [Payments -> [Hops -> Int]] /\ ref[p][h] \in Payments \cup {None}
  BY DEF TypeOK, Amounts
<1>2. Taken(p, h) \in Int /\ amountIn[p][h] \in Int
  BY <1>1 DEF Taken
<1>3. Price[p] \in Int /\ totalFee[p] \in Int /\ Fee[h] \in Int
  BY ConstantsAssumption DEF TypeOK, Amounts
<1> QED
  BY <1>2, <1>3 DEF Adds, Taken

\* What a hop that agrees adds.
LEMMA AgreedAdds ==
  (TypeOK /\ AmountsAreInt) =>
    \A p \in Payments : \A h \in Hops :
      AgreesAt(p, h) => Adds(p, amountIn, h) = (Price[p] + totalFee[p]) % AmountMod
<1> SUFFICES ASSUME TypeOK, AmountsAreInt, NEW p \in Payments, NEW h \in Hops, AgreesAt(p, h)
             PROVE  Adds(p, amountIn, h) = (Price[p] + totalFee[p]) % AmountMod
  OBVIOUS
<1> DEFINE t == Taken(p, h)
           x == Price[p] + totalFee[p]
<1>1. t \in Int /\ x \in Int /\ AmountMod \in Nat \ {0}
  BY ConstantsAssumption DEF AmountsAreInt
<1>2. Adds(p, amountIn, h) = (((t + x) % AmountMod) - t) % AmountMod
  BY DEF AmountsAreInt, AgreesAt
<1> HIDE DEF t, x
<1> QED
  BY <1>1, <1>2, WrapTakeBack DEF x

LEMMA CreateAgrees ==
  ASSUME IInv, TypeOK', References, FeesAgree, NEW p \in Payments, NEW h \in Hops, h = at[p],
         CreateTransaction(p)
  PROVE  /\ AgreesAt(p, h)'
         /\ h < Length => KeepsFee(p, h)'
<1> DEFINE m == AmountMod
           t == Taken(p, h)'
           y == totalFee[p] + Fee[h]
           z == Price[p] + totalFee[p] + Fee[h]
<1>0. AmountsAreInt /\ AmountsAreInt'
  <2>1. TypeOK' => AmountsAreInt'
    BY AmountsTyped, PTL
  <2> QED
    BY <2>1, AmountsTyped DEF IInv
<1>1. /\ m \in Nat \ {0} /\ t \in Int /\ y \in Int /\ z \in Int
      /\ Price[p] \in Int /\ totalFee[p] \in Int /\ Fee[h] \in Int /\ z = Price[p] + y
  BY <1>0, ConstantsAssumption DEF AmountsAreInt
<1>2. amountIn'[p][h] = (t + z) % m /\ totalFee'[p] = y % m
  <2>1. p \in DOMAIN totalFee
    BY DEF IInv, TypeOK
  <2> QED
    BY <2>1, CreateStep DEF FeesSoFar
<1>3. AgreesAt(p, h)'
  <2>1. ((t + Price[p]) + (y % m)) % m = ((t + Price[p]) + y) % m
    <3>1. t + Price[p] \in Int
      BY <1>1
    <3> QED
      BY <1>1, <3>1, WrapAdd
  <2>2. (t + Price[p]) + y = t + z
    BY <1>1
  <2>3. (t + Price[p]) + (y % m) = t + (Price[p] + (y % m))
    <3>1. y % m \in Int
      BY <1>1, Division
    <3> DEFINE w == y % m
    <3> HIDE DEF w, t
    <3> QED
      BY <1>1, <3>1 DEF w
  <2> HIDE DEF t, y, z, m
  <2>4. (t + (Price[p] + totalFee'[p])) % m = (t + z) % m
    BY <1>2, <2>1, <2>2, <2>3
  <2> QED
    BY <1>2, <2>4 DEF AgreesAt, t, m
<1>4. ASSUME h < Length PROVE KeepsFee(p, h)'
  <2> DEFINE x == Price[p] + totalFee[p]
  <2>1. h + 1 \in Hops /\ x \in Int /\ Fee[h] + x = z
    BY <1>1, <1>4, ConstantsAssumption DEF Hops
  <2>2. Adds(p, amountIn, h + 1) = x % m
    BY <1>0, <2>1, AgreedAdds DEF FeesAgree, IInv, CreateTransaction
  <2>3. Adds(p, amountIn, h + 1)' = Adds(p, amountIn, h + 1)
    <3>1. amountIn'[p][h + 1] = amountIn[p][h + 1] /\ Taken(p, h + 1)' = Taken(p, h + 1)
      BY <1>1, <2>1, CreateStep DEF Hops
    <3> QED
      BY <1>0, <2>1, <3>1 DEF AmountsAreInt
  <2>4. Adds(p, amountIn, h)' = z % m
    <3>1. Adds(p, amountIn, h)' = (((t + z) % m) - t) % m
      BY <1>0, <1>2 DEF AmountsAreInt
    <3> HIDE DEF t, z, m
    <3> QED
      BY <1>1, <3>1, WrapTakeBack
  <2>5. (Fee[h] + (x % m)) % m = z % m
    <3> HIDE DEF m
    <3>1. (Fee[h] + (x % m)) % m = (Fee[h] + x) % m
      BY <1>1, <2>1, WrapAdd
    <3> QED
      BY <2>1, <3>1
  <2>6. (x % m) + Fee[h] = Fee[h] + (x % m)
    <3>1. x % m \in Int
      BY <1>1, <2>1, Division
    <3> DEFINE w == x % m
    <3> HIDE DEF w
    <3> QED
      BY <1>1, <3>1 DEF w
  <2> HIDE DEF x, m, z
  <2> QED
    BY <2>2, <2>3, <2>4, <2>5, <2>6 DEF KeepsFee, m
<1> QED
  BY <1>3, <1>4

LEMMA FeesStep ==
  ASSUME IInv, TypeOK', References, FeesAgree, [Next]_vars
  PROVE  FeesAgree'
<1>0. TypeOK /\ AmountsAreInt /\ AmountsAreInt'
  <2>1. TypeOK' => AmountsAreInt'
    BY AmountsTyped, PTL
  <2> QED
    BY <2>1, AmountsTyped DEF IInv
<1> DEFINE Agree(q) ==
    /\ stage[q] = "create" => \A h \in Hops : h = at[q] + 1 => AgreesAt(q, h)
    /\ stage[q] \in Created => AgreesAt(q, 1)
    /\ \A h \in 1 .. Length - 1 :
         stage[q] \in Created \/ (stage[q] = "create" /\ h > at[q]) => KeepsFee(q, h)
<1>1. 1 \in Hops /\ \A j \in 1 .. Length - 1 : j \in Hops /\ j + 1 \in Hops
  BY ConstantsAssumption DEF Hops
<1> SUFFICES ASSUME NEW q \in Payments PROVE Agree(q)'
  BY DEF FeesAgree
<1>2. Agree(q)
  BY DEF FeesAgree
<1>3. ASSUME NEW p \in Payments, CreateTransaction(p) PROVE Agree(q)'
  <2>1. PICK h \in Hops : h = at[p]
    BY <1>3 DEF IInv, Position, CreateTransaction
  <2>2. \A j \in Hops : q # p \/ j # h =>
          amountIn'[q][j] = amountIn[q][j] /\ Taken(q, j)' = Taken(q, j)
    BY <1>3, <2>1, CreateStep
  <2>3. \A j \in Hops : q # p \/ j # h => Adds(q, amountIn, j)' = Adds(q, amountIn, j)
    BY <1>0, <2>2 DEF AmountsAreInt
  <2>4. \A j \in 1 .. Length - 1 : (q # p \/ j > h) /\ KeepsFee(q, j) => KeepsFee(q, j)'
    <3>1. \A j \in 1 .. Length - 1 : j > h => j # h /\ j + 1 # h
      BY <2>1 DEF Hops
    <3> QED
      BY <1>1, <2>3, <3>1 DEF KeepsFee
  <2>5. CASE q # p
    <3>1. stage'[q] = stage[q] /\ at'[q] = at[q] /\ totalFee'[q] = totalFee[q]
      <4>1. stage' = stage \/ stage' = [stage EXCEPT ![p] = "sign"]
        BY <1>3 DEF CreateTransaction
      <4>2. at' = [at EXCEPT ![p] = Length] \/ at' = [at EXCEPT ![p] = h - 1]
        BY <1>3, <2>1 DEF CreateTransaction
      <4>3. totalFee' = [totalFee EXCEPT ![p] = FeesSoFar(p, h)]
        BY <1>3, <2>1, CreateStep
      <4> QED
        BY <1>0, <2>5, <4>1, <4>2, <4>3 DEF TypeOK
    <3>2. \A j \in Hops : AgreesAt(q, j) => AgreesAt(q, j)'
      BY <2>2, <2>5, <3>1 DEF AgreesAt
    <3> QED
      BY <1>1, <1>2, <2>4, <2>5, <3>1, <3>2
  <2>6. CASE q = p
    <3>1. AgreesAt(p, h)' /\ (h < Length => KeepsFee(p, h)')
      BY <1>3, <2>1, CreateAgrees
    <3>2. /\ stage[p] = "create" /\ at[p] = h
          /\ \/ h = 1 /\ stage'[p] = "sign"
             \/ h # 1 /\ stage'[p] = "create" /\ at'[p] = h - 1
      <4>1. /\ stage[p] = "create"
            /\ \/ h = 1 /\ stage' = [stage EXCEPT ![p] = "sign"]
               \/ h # 1 /\ stage' = stage /\ at' = [at EXCEPT ![p] = h - 1]
        BY <1>3, <2>1 DEF CreateTransaction
      <4> QED
        BY <1>0, <2>1, <4>1 DEF TypeOK
    <3>3. \A j \in 1 .. Length - 1 : j > h => KeepsFee(p, j)'
      BY <1>2, <2>4, <2>6, <3>2
    <3>4. CASE h = 1
      <4>1. \A j \in 1 .. Length - 1 : j > h \/ (j = h /\ h < Length)
        BY <3>4, ConstantsAssumption
      <4> QED
        BY <2>6, <3>1, <3>2, <3>3, <3>4, <4>1 DEF Created
    <3>5. CASE h # 1
      <4>1. /\ \A j \in 1 .. Length - 1 : j > h - 1 => j > h \/ (j = h /\ h < Length)
            /\ \A j \in Hops : j = h - 1 + 1 => j = h
        BY <2>1, ConstantsAssumption DEF Hops
      <4> QED
        BY <2>6, <3>1, <3>2, <3>3, <3>5, <4>1 DEF Created
    <3> QED
      BY <3>4, <3>5
  <2> QED
    BY <2>5, <2>6
<1>4. CASE \A p \in Payments : ~CreateTransaction(p)
  <2>1. TransactionsKept
    BY <1>4, TransactionsStep
  <2>2. /\ \A j \in Hops : AgreesAt(q, j)' = AgreesAt(q, j)
        /\ \A j \in 1 .. Length - 1 : KeepsFee(q, j)' = KeepsFee(q, j)
    BY <2>1 DEF TransactionsKept, AgreesAt, KeepsFee, Adds, Taken
  <2>3. /\ stage'[q] \in Created => stage[q] \in Created
        /\ stage'[q] = "create" =>
             (stage[q] = "create" /\ at'[q] = at[q]) \/ at'[q] = Length
    <3>1. ASSUME NEW p \in Payments, Start(p) PROVE <2>3!:
      BY <1>0, <3>1 DEF TypeOK, Start, IInv, Position, Created
    <3>2. ASSUME NEW p \in Payments, SignService(p) \/ SignChain(p) \/ SignInitial(p) PROVE <2>3!:
      BY <1>0, <3>2 DEF TypeOK, SignService, SignChain, SignInitial, Created
    <3>3. ASSUME NEW p \in Payments, Verify(p) \/ Commit(p) \/ Abort(p) PROVE <2>3!:
      BY <1>0, <3>3 DEF TypeOK, Verify, Commit, Abort, Created
    <3>4. CASE UNCHANGED <<stage, at>>
      BY <3>4
    <3> QED
      BY <1>4, <3>1, <3>2, <3>3, <3>4 DEF Next, vars, Flush
  <2>4. /\ \A h \in Hops : h # Length + 1
        /\ \A h \in 1 .. Length - 1 : ~(h > Length)
    BY ConstantsAssumption DEF Hops
  <2> QED
    BY <1>1, <1>2, <2>2, <2>3, <2>4
<1> QED
  BY <1>3, <1>4

Agreed == References /\ NumbersCompared /\ FeesAgree

LEMMA AgreedInductive == Spec => []Agreed
<1>1. Init => Agreed
  BY DEF Init, Agreed, References, NumbersCompared, FeesAgree, Created
<1>2. IInv /\ TypeOK' /\ Agreed /\ [Next]_vars => Agreed'
  BY ReferencesStep, NumbersStep, FeesStep DEF Agreed
<1>3. IInv => TypeOK
  BY DEF IInv
<1> QED
  BY <1>1, <1>2, <1>3, Inductive, PTL DEF Spec

(* What is committed in place of an older transaction carries the older one's number, for *)
(* any payments on the same route at the same time and nodes that number as they please.  *)
THEOREM ReplacementsShareNumber == Spec => []ReplacesByNumber
<1>1. IInv /\ Agreed => ReplacesByNumber
  BY DEF IInv, TypeOK, Agreed, NumbersCompared, ReplacesByNumber
<1> QED
  BY <1>1, Inductive, AgreedInductive, PTL

(* The payer finds the amount it expects, for every route, prices and fees, whatever its  *)
(* transactions replace and wherever the sums wrap around: an honest chain is never       *)
(* refused for its amount (but for the 32-bit float it is read into).                     *)
THEOREM PayerAgreesWithNodes == Spec => []PayerAgrees
<1>1. Agreed => PayerAgrees
  BY DEF Agreed, FeesAgree, AgreesAt, Created, PayerAgrees, Expected, OnTop, Taken
<1> QED
  BY <1>1, AgreedInductive, PTL

(* Every node between payer and service gains exactly its fee, in uint32 arithmetic, for  *)
(* every length of route and all fees, however old the transactions its credit and its    *)
(* debit replace.                                                                         *)
THEOREM FeesAreKept == Spec => []NodesKeepFee
<1>1. Agreed => NodesKeepFee
  BY DEF Agreed, FeesAgree, KeepsFee, Created, NodesKeepFee
<1> QED
  BY <1>1, AgreedInductive, PTL

===============================================================================
