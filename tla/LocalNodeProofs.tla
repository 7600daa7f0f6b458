--------------------------- MODULE LocalNodeProofs ---------------------------
(***************************************************************************)
(* Theorems about LocalNode, for every set of sessions, payers and         *)
(* flushers, every amount, crash bound and set of faults.                  *)
(***************************************************************************)
EXTENDS LocalNode, AmountLemmas, TLAPS

(***************************************************************************)
(* Why no payment is charged twice.  A transaction covers the sessions of  *)
(* the transactions it replaces, and replacing means taking over the       *)
(* number: all sessions covered by a numbered transaction carry its        *)
(* number.  The account executes a number once.  So two executed           *)
(* transactions have different numbers and cannot cover the same session,  *)
(* even when lost updates, stale registry entries or a restart let two     *)
(* transactions compete for one number.                                    *)
(***************************************************************************)

\* Handlers that have not numbered their transaction yet, those that already build it, and
\* those that have numbered it.
Unnumbered == {"new", "requested", "check", "fetch", "store", "assign"}
Building == {"check", "fetch", "store", "assign"}
Numbered == {"promote", "created", "verified", "reducing", "committed"}

\* The transactions anybody but their own handler knows.
Listed == applied \cup late \cup Active \cup UNION {todo[f] : f \in Flushers}

NumberedOnce ==
  /\ \A s \in Sessions : pc[s] \in Unnumbered => seq[s] = 0
  /\ \A s \in Sessions : pc[s] \in Numbered => seq[s] # 0
  /\ \A s \in Listed : seq[s] # 0

\* While a transaction is built, it covers its own session on top of its reference's.
CoversReference ==
  \A s \in Sessions : pc[s] \in Building =>
    IF ref[s] = None
    THEN covers[s] = {s}
    ELSE seq[ref[s]] # 0 /\ covers[s] = covers[ref[s]] \cup {s}

\* All that a numbered transaction covers carries its number.
CoversSameNumber ==
  \A s \in Sessions : seq[s] # 0 => \A u \in covers[s] : seq[u] = seq[s]

\* The account has passed what it executed, one transaction per number.
ExecutedInOrder ==
  /\ \A s \in applied : seq[s] <= accountSeq
  /\ \A s, u \in applied : s # u => seq[s] # seq[u]

\* A bump that may still be executed moves the account on.
BumpsLeadOn == \A n \in lateBumps : n > accountSeq

IInv ==
  TypeOK /\ NumberedOnce /\ CoversReference /\ CoversSameNumber /\ ExecutedInOrder /\ BumpsLeadOn

-----------------------------------------------------------------------------
(* Lemmas about the operators the actions are built from. *)

\* uint32 arithmetic stays in range.
LEMMA WrapsInRange ==
  ASSUME NEW a \in Int PROVE a % AmountMod \in Amounts
  BY ConstantsAssumption DEF Amounts

\* The amounts of a transaction are amounts, with or without a reference.
LEMMA OnTopAreAmounts ==
  ASSUME TypeOK, NEW s \in Sessions, NEW r \in Sessions \cup {None}
  PROVE  /\ AmountInOnTop(s, r) \in Amounts
         /\ AmountOutOnTop(s, r) \in Amounts
         /\ CoversOnTop(s, r) \in SUBSET Sessions
<1>1. TotalIn[s] \in Amounts /\ TotalOut[s] \in Amounts
  BY ConstantsAssumption DEF Amounts
<1>2. CASE r = None
  BY <1>1, <1>2 DEF AmountInOnTop, AmountOutOnTop, CoversOnTop
<1>3. CASE r # None
  <2>1. r \in Sessions
    BY <1>3
  <2>2. amountIn[r] + TotalIn[s] \in Int /\ amountOut[r] + TotalOut[s] \in Int
    BY <1>1, <2>1, ConstantsAssumption DEF TypeOK, Amounts
  <2>3. CoversOnTop(s, r) \in SUBSET Sessions
    BY <1>3, <2>1 DEF TypeOK, CoversOnTop
  <2> QED
    BY <1>3, <2>2, <2>3, WrapsInRange DEF AmountInOnTop, AmountOutOnTop
<1> QED
  BY <1>2, <1>3

\* What is owed is an amount, or nothing.
LEMMA OwedAreAmounts ==
  ASSUME TypeOK, NEW s \in Sessions
  PROVE  /\ OwedAfterUsage(s) \in Amounts \cup {None}
         /\ pending[s] # None => OwedAfterPayment(s) \in Amounts \cup {None}
<1>1. TotalOut[s] \in Amounts
  BY ConstantsAssumption DEF Amounts
<1>2. pending[s] # None =>
        pending[s] + TotalOut[s] \in Int /\ pending[s] - amountOut[s] \in Int
  BY <1>1, ConstantsAssumption DEF TypeOK, Amounts
<1> QED
  BY <1>1, <1>2, WrapsInRange DEF OwedAfterUsage, OwedAfterPayment

\* The account never moves back, and moving it revives nothing that timed out.
LEMMA AdvanceOn ==
  ASSUME TypeOK, NEW n \in Nat, Advance(n)
  PROVE  /\ accountSeq' = n /\ late' \subseteq late /\ lateBumps' \subseteq lateBumps
         /\ BumpsLeadOn /\ n >= accountSeq => BumpsLeadOn'
  BY DEF TypeOK, Advance, BumpsLeadOn

\* The account executes the next transaction, or moves on without executing any.
LedgerMoves ==
  /\ BumpsLeadOn'
  /\ \/ /\ accountSeq' = accountSeq + 1
        /\ \E s \in Sessions : seq[s] = accountSeq + 1 /\ applied' = applied \cup {s}
     \/ accountSeq' >= accountSeq /\ applied' = applied

\* A bump leaves what was executed alone.
LEMMA BumpIsNat ==
  ASSUME TypeOK, NEW f \in Flushers, Bumped(f)
  PROVE  /\ accountSeq' \in Nat /\ accountSeq' >= accountSeq /\ UNCHANGED <<applied, expired>>
         /\ late' \subseteq late /\ lateBumps' \subseteq lateBumps
         /\ BumpsLeadOn => BumpsLeadOn'
<1>1. PICK s \in First(todo[f]) : Advance(IF seq[s] > accountSeq + 1 THEN seq[s] - 1 ELSE accountSeq)
  BY DEF Bumped
<1>2. s \in Sessions
  BY DEF First, TypeOK
<1> DEFINE n == IF seq[s] > accountSeq + 1 THEN seq[s] - 1 ELSE accountSeq
<1>3. n \in Nat /\ n >= accountSeq
  BY <1>2 DEF TypeOK
<1> QED
  BY <1>1, <1>3, AdvanceOn DEF Bumped

\* Nor does a bump that times out change anything else.
LEMMA LateBumpTyped ==
  ASSUME TypeOK, NEW f \in Flushers, BumpTimesOut(f)
  PROVE  /\ UNCHANGED <<accountSeq, applied, late, expired>> /\ lateBumps' \subseteq Nat
         /\ BumpsLeadOn => BumpsLeadOn'
<1>1. PICK s \in First(todo[f]) :
        seq[s] > accountSeq + 1 /\ lateBumps' = lateBumps \cup {seq[s] - 1}
  BY DEF BumpTimesOut
<1>2. seq[s] \in Nat /\ accountSeq \in Nat
  BY DEF First, TypeOK
<1>3. seq[s] - 1 \in Nat /\ seq[s] - 1 > accountSeq
  BY <1>1, <1>2
<1>4. UNCHANGED <<accountSeq, applied, late, expired>>
  BY DEF BumpTimesOut
<1> QED
  BY <1>1, <1>3, <1>4 DEF TypeOK, BumpsLeadOn

\* A submission executes the next transaction, uses up its number, or changes nothing yet.
LEMMA SubmissionStep ==
  ASSUME TypeOK, NEW s \in Sessions, Executed(s) \/ NotExecuted(s)
  PROVE  /\ accountSeq' \in Nat /\ expired' = expired
         /\ late' \subseteq late \cup {s} /\ lateBumps' \subseteq lateBumps
         /\ applied' \subseteq applied \cup {s}
         /\ BumpsLeadOn => LedgerMoves
<1> USE DEF LedgerMoves
<1>1. accountSeq \in Nat /\ accountSeq + 1 \in Nat
  BY DEF TypeOK
<1>2. CASE Executed(s)
  BY <1>1, <1>2, AdvanceOn DEF Executed, Accepts
<1>3. CASE NotExecuted(s)
  <2>1. CASE UNCHANGED ledger
    BY <1>1, <2>1 DEF ledger, BumpsLeadOn
  <2>2. CASE Advance(accountSeq + 1) /\ UNCHANGED <<applied, expired>>
    BY <1>1, <2>2, AdvanceOn
  <2>3. CASE late' = late \cup {s} /\ UNCHANGED <<accountSeq, applied, lateBumps, expired>>
    BY <1>1, <2>3 DEF BumpsLeadOn
  <2> QED
    BY <1>3, <2>1, <2>2, <2>3 DEF NotExecuted
<1> QED
  BY <1>2, <1>3

\* The part of TypeOK about Horizon.
LedgerTyped ==
  /\ accountSeq \in Nat /\ applied \subseteq Sessions
  /\ late \subseteq Sessions /\ lateBumps \subseteq Nat /\ expired \subseteq Sessions

LEMMA SubmissionTyped ==
  ASSUME TypeOK, NEW s \in Sessions, Executed(s) \/ NotExecuted(s)
  PROVE  LedgerTyped'
  BY SubmissionStep DEF TypeOK, LedgerTyped

\* Nothing outside the process reaches into it.
LEMMA OutsideKeeps ==
  Outside => UNCHANGED <<numbers, registry, pc, txs, flushPc, todo, flushMux, crashes>>
  BY DEF Outside, Expire, ExecuteLate, ExecuteLateBump, flushing

\* A late execution moves the account as a timely one does, and marks the flush it meets.
LEMMA LateStep ==
  ASSUME TypeOK, Outside
  PROVE  /\ accountSeq' \in Nat /\ applied' \subseteq applied \cup late /\ expired' \subseteq Sessions
         /\ late' \subseteq late /\ lateBumps' \subseteq lateBumps
         /\ Overtakes \/ (accountSeq' = accountSeq /\ overtaken' = overtaken)
         /\ BumpsLeadOn => LedgerMoves
<1> DEFINE Goal ==
         /\ accountSeq' \in Nat /\ applied' \subseteq applied \cup late /\ expired' \subseteq Sessions
         /\ late' \subseteq late /\ lateBumps' \subseteq lateBumps
         /\ Overtakes \/ (accountSeq' = accountSeq /\ overtaken' = overtaken)
         /\ BumpsLeadOn => LedgerMoves
<1>1. ASSUME NEW s \in Sessions, Expire(s) PROVE Goal
  BY <1>1 DEF TypeOK, Expire, BumpsLeadOn, LedgerMoves, flushing
<1>2. ASSUME NEW s \in Sessions, ExecuteLate(s) PROVE Goal
  BY <1>2, SubmissionStep DEF TypeOK, ExecuteLate
<1>3. ASSUME NEW n \in lateBumps, Advance(n), Overtakes, UNCHANGED <<applied, expired>> PROVE Goal
  BY <1>3, AdvanceOn DEF TypeOK, BumpsLeadOn, LedgerMoves
<1> QED
  BY <1>1, <1>2, <1>3 DEF Outside, ExecuteLateBump

(***************************************************************************)
(* Type correctness, one step per action.                                  *)
(***************************************************************************)
LEMMA InitTyped == Init => TypeOK
  BY ConstantsAssumption DEF Init, TypeOK, HandlerPc, FlushPc, Amounts

LEMMA TypeStep ==
  ASSUME TypeOK, [Next]_vars
  PROVE  TypeOK'
<1> USE DEF HandlerPc, FlushPc, ledger, numbers, registry, txs, flushing
<1>1. ASSUME NEW s \in Sessions, NewPaymentRequest(s) PROVE TypeOK'
  BY <1>1, OwedAreAmounts DEF TypeOK, NewPaymentRequest
<1>2. ASSUME NEW s \in Sessions, ReadReference(s) PROVE TypeOK'
  <2>1. paidByAddress[PayerOf[s]] \in Sessions \cup {None}
    BY ConstantsAssumption DEF TypeOK
  <2> QED
    BY <1>2, <2>1, OnTopAreAmounts DEF TypeOK, ReadReference, ActiveTransaction
<1>3. ASSUME NEW s \in Sessions, CheckSequence(s) PROVE TypeOK'
  BY <1>3 DEF TypeOK, CheckSequence
<1>4. ASSUME NEW s \in Sessions, FetchSequence(s) PROVE TypeOK'
  BY <1>4 DEF TypeOK, FetchSequence
<1>5. ASSUME NEW s \in Sessions, StoreSequence(s) PROVE TypeOK'
  BY <1>5 DEF TypeOK, StoreSequence
<1>6. ASSUME NEW s \in Sessions, ReuseSequence(s) PROVE TypeOK'
  BY <1>6 DEF TypeOK, ReuseSequence
<1>7. ASSUME NEW s \in Sessions, TakeSequence(s) PROVE TypeOK'
  BY <1>7 DEF TypeOK, TakeSequence
<1>8. ASSUME NEW s \in Sessions, PromoteSequence(s) PROVE TypeOK'
  BY <1>8 DEF TypeOK, PromoteSequence
<1>9. ASSUME NEW s \in Sessions, GiveUp(s) PROVE TypeOK'
  BY <1>9 DEF TypeOK, GiveUp
<1>11. ASSUME Outside PROVE TypeOK'
  BY <1>11, LateStep, OutsideKeeps DEF TypeOK, Overtakes
<1>12. ASSUME NEW s \in Sessions, VerifyCommit(s) PROVE TypeOK'
  BY <1>12 DEF TypeOK, VerifyCommit
<1>13. ASSUME NEW s \in Sessions, SaveTransaction(s) PROVE TypeOK'
  BY <1>13, ConstantsAssumption DEF TypeOK, AfterCommit, SaveTransaction, Saved
<1>14. ASSUME NEW s \in Sessions, SubmitAtOnce(s) PROVE TypeOK'
  <2>1. LedgerTyped'
    BY <1>14, SubmissionTyped DEF SubmitAtOnce
  <2> QED
    BY <1>14, <2>1 DEF TypeOK, LedgerTyped, AfterCommit, SubmitAtOnce
<1>15. ASSUME NEW s \in Sessions, ReducePendingAmount(s) PROVE TypeOK'
  BY <1>15, OwedAreAmounts DEF TypeOK, ReducePendingAmount
<1>16. ASSUME NEW f \in Flushers, FlushSnapshot(f) PROVE TypeOK'
  BY <1>16 DEF TypeOK, Active, FlushSnapshot
<1>17. ASSUME NEW f \in Flushers, FlushFilter(f) PROVE TypeOK'
  BY <1>17 DEF TypeOK, FlushReturn, Kept, FlushFilter
<1>18. ASSUME NEW f \in Flushers, FlushBump(f) PROVE TypeOK'
  BY <1>18, BumpIsNat DEF TypeOK, FlushBump
<1>19. ASSUME NEW f \in Flushers, FlushFails(f) PROVE TypeOK'
  BY <1>19, LateBumpTyped DEF TypeOK, FlushReturn, FlushFails
<1>20. ASSUME NEW f \in Flushers, FlushSubmit(f) PROVE TypeOK'
  <2>1. LedgerTyped'
    <3>1. First(todo[f]) \subseteq Sessions
      BY DEF First, TypeOK
    <3> QED
      BY <1>20, <3>1, SubmissionTyped DEF FlushSubmit
  <2> QED
    BY <1>20, <2>1 DEF TypeOK, LedgerTyped, FlushSubmit
<1>21. ASSUME NEW f \in Flushers, FlushBreak(f) PROVE TypeOK'
  <2>1. LedgerTyped'
    <3>1. First(todo[f]) \subseteq Sessions
      BY DEF First, TypeOK
    <3> QED
      BY <1>21, <3>1, SubmissionTyped DEF FlushBreak
  <2> QED
    BY <1>21, <2>1 DEF TypeOK, LedgerTyped, FlushReturn, FlushBreak
<1>22. ASSUME NEW f \in Flushers, FlushComplete(f) PROVE TypeOK'
  BY <1>22, ConstantsAssumption DEF TypeOK, First, FlushReturn, FlushComplete
<1>23. CASE Crash
  BY <1>23 DEF TypeOK, Crash, NewRootApi, NewRegistry, Underway
<1>24. CASE UNCHANGED vars
  BY <1>24 DEF TypeOK, vars
<1> QED
  BY <1>1, <1>2, <1>3, <1>4, <1>5, <1>6, <1>7, <1>8, <1>9, <1>11, <1>12, <1>13, <1>14,
     <1>15, <1>16, <1>17, <1>18, <1>19, <1>20, <1>21, <1>22, <1>23, <1>24
    DEF Next, Handler, Flush

(* TypeOK holds in every reachable state: amounts stay in uint32 range through every     *)
(* replacement and payment, and no list or map ever holds anything but transactions.     *)
THEOREM TypeCorrect == Spec => []TypeOK
<1>1. Init => TypeOK
  BY InitTyped
<1>2. TypeOK /\ [Next]_vars => TypeOK'
  BY TypeStep
<1> QED
  BY <1>1, <1>2, PTL DEF Spec

-----------------------------------------------------------------------------
(***************************************************************************)
(* What a step does to the parts of the state the invariant is about.      *)
(***************************************************************************)

\* No transaction changes, and no handler goes back to before its transaction was numbered.
TransactionsKept ==
  /\ UNCHANGED <<ref, seq, covers>>
  /\ \A C \in {Unnumbered, Building, Numbered} : \A s \in Sessions : pc'[s] \in C => pc[s] \in C

Verified == {s \in Sessions : pc[s] = "verified"}

\* Three actions of a handler change a transaction: it gets a reference, then a number.
LEMMA TransactionsStep ==
  ASSUME TypeOK, [Next]_vars,
         \A s \in Sessions : ~ReadReference(s) /\ ~ReuseSequence(s) /\ ~TakeSequence(s)
  PROVE  TransactionsKept
<1> USE DEF TypeOK, TransactionsKept, Unnumbered, Building, Numbered, txs
<1>1. ASSUME NEW s \in Sessions,
             NewPaymentRequest(s) \/ CheckSequence(s) \/ FetchSequence(s)
                     \/ StoreSequence(s) \/ PromoteSequence(s) \/ GiveUp(s)
      PROVE  TransactionsKept
  BY <1>1 DEF NewPaymentRequest, CheckSequence, FetchSequence, StoreSequence, PromoteSequence,
         GiveUp
<1>2. ASSUME NEW s \in Sessions,
             VerifyCommit(s) \/ SaveTransaction(s) \/ SubmitAtOnce(s)
                     \/ ReducePendingAmount(s)
      PROVE  TransactionsKept
  BY <1>2
    DEF VerifyCommit, SaveTransaction, Saved, SubmitAtOnce, ReducePendingAmount, AfterCommit
<1>3. ASSUME Outside
      PROVE  TransactionsKept
  BY <1>3, OutsideKeeps
<1>4. ASSUME NEW f \in Flushers,
             Flush(f)
      PROVE  TransactionsKept
  BY <1>4 DEF Flush, FlushSnapshot, FlushFilter, FlushBump, FlushFails, FlushSubmit, FlushBreak,
         FlushComplete
<1>5. ASSUME Crash
      PROVE  TransactionsKept
  BY <1>5 DEF Crash, NewRootApi, NewRegistry, Underway
<1>6. ASSUME UNCHANGED vars
      PROVE  TransactionsKept
  BY <1>6 DEF vars
<1> QED
  BY <1>1, <1>2, <1>3, <1>4, <1>5, <1>6 DEF Next, Handler, Flush

\* Stellar executes transactions in the order of their numbers, whoever submits them.
LEMMA LedgerStep ==
  ASSUME TypeOK, BumpsLeadOn, [Next]_vars
  PROVE  LedgerMoves
<1> USE DEF TypeOK, LedgerMoves, BumpsLeadOn, ledger
<1>1. ASSUME NEW s \in Sessions, Handler(s)
      PROVE  LedgerMoves
  <2>1. CASE SubmitAtOnce(s)
    BY <2>1, SubmissionStep DEF SubmitAtOnce
  <2>2. CASE ~SubmitAtOnce(s)
    <3>1. UNCHANGED ledger
      BY <1>1, <2>2
        DEF Handler, NewPaymentRequest, ReadReference, CheckSequence, FetchSequence, StoreSequence,
            ReuseSequence, TakeSequence, PromoteSequence, GiveUp, VerifyCommit, SaveTransaction,
            ReducePendingAmount
    <3> QED
      BY <3>1
  <2> QED
    BY <2>1, <2>2
<1>2. ASSUME Outside
      PROVE  LedgerMoves
  BY <1>2, LateStep
<1>3. ASSUME NEW f \in Flushers,
             FlushSnapshot(f) \/ FlushFilter(f) \/ FlushComplete(f)
      PROVE  LedgerMoves
  <2>1. UNCHANGED ledger
    <3> HIDE DEF TypeOK, LedgerMoves, BumpsLeadOn
    <3> QED
      BY <1>3 DEF FlushSnapshot, FlushFilter, FlushComplete
  <2> QED
    BY <2>1
<1>4. ASSUME NEW f \in Flushers,
             FlushBump(f) \/ FlushFails(f)
      PROVE  LedgerMoves
  <2>1. CASE UNCHANGED ledger
    BY <2>1
  <2>2. CASE Bumped(f)
    BY <2>2, BumpIsNat
  <2>3. CASE BumpTimesOut(f)
    BY <2>3, LateBumpTyped
  <2> QED
    BY <1>4, <2>1, <2>2, <2>3 DEF FlushBump, FlushFails
<1>5. ASSUME NEW f \in Flushers,
             FlushSubmit(f) \/ FlushBreak(f)
      PROVE  LedgerMoves
  BY <1>5, SubmissionStep DEF FlushSubmit, FlushBreak, First
<1>6. ASSUME Crash
      PROVE  LedgerMoves
  BY <1>6 DEF Crash, NewRootApi, NewRegistry
<1>7. ASSUME UNCHANGED vars
      PROVE  LedgerMoves
  BY <1>7 DEF vars
<1> QED
  BY <1>1, <1>2, <1>3, <1>4, <1>5, <1>6, <1>7 DEF Next, Handler, Flush

\* Transactions become known only by the commit of a handler that has verified them.
LEMMA ListedStep ==
  ASSUME TypeOK, [Next]_vars
  PROVE  Listed' \subseteq Listed \cup Verified
<1> USE DEF TypeOK, Listed, Active, Verified, ledger, registry, flushing
<1>1. ASSUME NEW s \in Sessions,
             Handler(s)
      PROVE  Listed' \subseteq Listed \cup Verified
  BY <1>1, SubmissionStep, ConstantsAssumption
    DEF Handler, NewPaymentRequest, ReadReference, CheckSequence, FetchSequence, StoreSequence,
         ReuseSequence, TakeSequence, PromoteSequence, GiveUp, VerifyCommit, SaveTransaction, Saved,
         SubmitAtOnce, ReducePendingAmount
<1>2. ASSUME Outside
      PROVE  Listed' \subseteq Listed \cup Verified
  BY <1>2, LateStep, OutsideKeeps
<1>3. ASSUME NEW f \in Flushers,
             FlushSnapshot(f) \/ FlushFilter(f)
      PROVE  Listed' \subseteq Listed \cup Verified
  BY <1>3 DEF FlushSnapshot, FlushFilter, FlushReturn, Kept
<1>4. ASSUME NEW f \in Flushers,
             FlushBump(f) \/ FlushFails(f)
      PROVE  Listed' \subseteq Listed \cup Verified
  BY <1>4, BumpIsNat, LateBumpTyped DEF FlushBump, FlushFails, FlushReturn
<1>5. ASSUME NEW f \in Flushers,
             FlushSubmit(f) \/ FlushBreak(f)
      PROVE  Listed' \subseteq Listed \cup Verified
  BY <1>5, SubmissionStep DEF FlushSubmit, FlushBreak, First, FlushReturn
<1>6. ASSUME NEW f \in Flushers,
             FlushComplete(f)
      PROVE  Listed' \subseteq Listed \cup Verified
  BY <1>6 DEF FlushComplete, First, FlushReturn
<1>7. ASSUME Crash
      PROVE  Listed' \subseteq Listed \cup Verified
  BY <1>7 DEF Crash, NewRootApi, NewRegistry
<1>8. ASSUME UNCHANGED vars
      PROVE  Listed' \subseteq Listed \cup Verified
  BY <1>8 DEF vars
<1> QED
  BY <1>1, <1>2, <1>3, <1>4, <1>5, <1>6, <1>7, <1>8 DEF Next, Handler, Flush

(***************************************************************************)
(* The four parts of the invariant, each from those it needs.              *)
(***************************************************************************)
LEMMA NumberedOnceStep ==
  ASSUME TypeOK, NumberedOnce, CoversReference, [Next]_vars
  PROVE  NumberedOnce'
<1> USE DEF NumberedOnce, Unnumbered, Building, Numbered
<1>1. \A s \in Listed \cup Verified : seq[s] # 0
  BY DEF Verified
<1>2. Listed' \subseteq Listed \cup Verified
  BY ListedStep
<1>3. ASSUME NEW s \in Sessions, ReadReference(s) PROVE NumberedOnce'
  BY <1>1, <1>2, <1>3 DEF TypeOK, ReadReference
<1>4. ASSUME NEW s \in Sessions, ReuseSequence(s) PROVE NumberedOnce'
  BY <1>1, <1>2, <1>4 DEF TypeOK, CoversReference, ReuseSequence
<1>5. ASSUME NEW s \in Sessions, TakeSequence(s) PROVE NumberedOnce'
  BY <1>1, <1>2, <1>5 DEF TypeOK, TakeSequence
<1>6. CASE TransactionsKept
  BY <1>1, <1>2, <1>6 DEF TransactionsKept
<1> QED
  BY <1>3, <1>4, <1>5, <1>6, TransactionsStep

LEMMA CoversReferenceStep ==
  ASSUME TypeOK, NumberedOnce, CoversReference, [Next]_vars
  PROVE  CoversReference'
<1>1. ASSUME NEW s \in Sessions, ReadReference(s) PROVE CoversReference'
  <2>1. paidByAddress[PayerOf[s]] \in Sessions \cup {None}
    BY ConstantsAssumption DEF TypeOK
  <2>2. paidByAddress[PayerOf[s]] # None => seq[paidByAddress[PayerOf[s]]] # 0
    BY ConstantsAssumption DEF NumberedOnce, Listed, Active
  <2>3. seq[s] = 0
    BY <1>1 DEF ReadReference, NumberedOnce, Unnumbered
  <2> SUFFICES ASSUME NEW u \in Sessions, pc'[u] \in Building
               PROVE  IF ref'[u] = None
                      THEN covers'[u] = {u}
                      ELSE seq'[ref'[u]] # 0 /\ covers'[u] = covers'[ref'[u]] \cup {u}
    BY DEF CoversReference
  <2>4. CASE u = s
    BY <1>1, <2>1, <2>2, <2>3, <2>4 DEF TypeOK, ReadReference, ActiveTransaction, CoversOnTop
  <2>5. CASE u # s
    BY <1>1, <2>3, <2>5 DEF TypeOK, ReadReference, CoversReference
  <2> QED
    BY <2>4, <2>5
<1>2. ASSUME NEW s \in Sessions, ReuseSequence(s) PROVE CoversReference'
  BY <1>2 DEF TypeOK, CoversReference, ReuseSequence, Building
<1>3. ASSUME NEW s \in Sessions, TakeSequence(s) PROVE CoversReference'
  BY <1>3 DEF TypeOK, CoversReference, TakeSequence, Building
<1>4. CASE TransactionsKept
  BY <1>4 DEF CoversReference, TransactionsKept
<1> QED
  BY <1>1, <1>2, <1>3, <1>4, TransactionsStep

LEMMA CoversSameNumberStep ==
  ASSUME TypeOK, NumberedOnce, CoversReference, CoversSameNumber, [Next]_vars
  PROVE  CoversSameNumber'
<1>1. ASSUME NEW s \in Sessions, ReadReference(s) PROVE CoversSameNumber'
  BY <1>1 DEF TypeOK, NumberedOnce, Unnumbered, CoversSameNumber, ReadReference
<1>2. ASSUME NEW s \in Sessions, ReuseSequence(s) PROVE CoversSameNumber'
  <2>1. seq[s] = 0 /\ ref[s] \in Sessions /\ ref[s] # s
    BY <1>2 DEF TypeOK, NumberedOnce, CoversReference, Unnumbered, Building, ReuseSequence
  <2>2. \A u \in covers[s] : u = s \/ seq[u] = seq[ref[s]]
    BY <1>2, <2>1 DEF CoversReference, Building, CoversSameNumber, ReuseSequence
  <2> QED
    BY <1>2, <2>1, <2>2 DEF TypeOK, CoversSameNumber, ReuseSequence
<1>3. ASSUME NEW s \in Sessions, TakeSequence(s) PROVE CoversSameNumber'
  <2>1. seq[s] = 0 /\ covers[s] = {s}
    BY <1>3 DEF NumberedOnce, CoversReference, Unnumbered, Building, TakeSequence
  <2> QED
    BY <1>3, <2>1 DEF TypeOK, CoversSameNumber, TakeSequence
<1>4. CASE TransactionsKept
  BY <1>4 DEF CoversSameNumber, TransactionsKept
<1> QED
  BY <1>1, <1>2, <1>3, <1>4, TransactionsStep

LEMMA ExecutedInOrderStep ==
  ASSUME TypeOK, NumberedOnce, ExecutedInOrder, BumpsLeadOn, [Next]_vars
  PROVE  ExecutedInOrder'
<1>1. CASE \E s \in Sessions : ReuseSequence(s) \/ TakeSequence(s)
  \* Only a transaction nobody has seen gets a number.
  <2>1. accountSeq' = accountSeq /\ applied' = applied
    BY <1>1 DEF ReuseSequence, TakeSequence, ledger
  <2>2. \A u \in applied : seq'[u] = seq[u]
    BY <1>1 DEF TypeOK, NumberedOnce, Unnumbered, Listed, ReuseSequence, TakeSequence
  <2> QED
    BY <2>1, <2>2 DEF ExecutedInOrder
<1>2. CASE seq' = seq
  <2>1. accountSeq \in Int /\ accountSeq' \in Int /\ \A s \in Sessions : seq[s] \in Int
    BY TypeStep DEF TypeOK
  <2>2. CASE accountSeq' >= accountSeq /\ applied' = applied
    BY <1>2, <2>1, <2>2 DEF TypeOK, ExecutedInOrder
  <2>3. ASSUME NEW s \in Sessions,
               accountSeq' = accountSeq + 1, seq[s] = accountSeq + 1, applied' = applied \cup {s}
        PROVE  ExecutedInOrder'
    BY <1>2, <2>1, <2>3 DEF TypeOK, ExecutedInOrder
  <2> QED
    BY <2>2, <2>3, LedgerStep DEF LedgerMoves
<1> QED
  BY <1>1, <1>2, TransactionsStep DEF TransactionsKept, ReadReference

LEMMA Inductive ==
  Spec => []IInv
<1>1. Init => IInv
  <2> SUFFICES ASSUME Init PROVE IInv
    OBVIOUS
  <2>1. TypeOK
    BY InitTyped
  <2>2. Listed = {}
    BY DEF Init, Listed, Active
  <2>3. \A s \in Sessions : seq[s] = 0 /\ pc[s] \in {"new", "requested"}
    BY DEF Init
  <2> QED
    BY <2>1, <2>2, <2>3
    DEF Init, IInv, NumberedOnce, CoversReference, CoversSameNumber, ExecutedInOrder,
        BumpsLeadOn, Unnumbered, Building, Numbered, Listed
<1>2. IInv /\ [Next]_vars => IInv'
  BY TypeStep, NumberedOnceStep, CoversReferenceStep, CoversSameNumberStep,
     ExecutedInOrderStep, LedgerStep DEF IInv, LedgerMoves
<1> QED
  BY <1>1, <1>2, PTL DEF Spec

(* No payment is charged twice (NoDoubleCharge), whatever the interleaving of request    *)
(* handlers, flushes, late executions and restarts, for any sessions, payers and faults. *)
THEOREM NeverDoubleCharged == Spec => []NoDoubleCharge
<1>1. IInv => NoDoubleCharge
  <2> SUFFICES ASSUME IInv, NEW s \in applied, NEW u \in applied, s # u,
                      NEW w \in covers[s] \cap covers[u]
               PROVE  FALSE
    BY DEF NoDoubleCharge
  <2>1. s \in Sessions /\ u \in Sessions /\ seq[s] # 0 /\ seq[u] # 0
    BY DEF IInv, TypeOK, NumberedOnce, Listed
  <2>2. seq[w] = seq[s] /\ seq[w] = seq[u]
    BY <2>1 DEF IInv, CoversSameNumber
  <2> QED
    BY <2>2 DEF IInv, ExecutedInOrder
<1> QED
  BY <1>1, Inductive, PTL

-----------------------------------------------------------------------------
(* Numbers and payers. *)

\* Transactions past the allocation of their number.
Allocated == {"created", "verified", "reducing", "committed", "failed"}

\* Everything known to the registry or taken as a reference has its number for good, and
\* is filed under the payer it charges.
RegistryByPayer ==
  /\ \A u \in Listed : pc[u] \in Allocated
  /\ \A s \in Sessions : ref[s] # None =>
       pc[ref[s]] \in Allocated /\ PayerOf[ref[s]] = PayerOf[s]
  /\ \A p \in Payers : paidByAddress[p] # None => PayerOf[paidByAddress[p]] = p

\* Three actions and a restart change what is stored under the payers' addresses.
LEMMA RegistryStep ==
  ASSUME [Next]_vars,
         ~Crash,
         \A s \in Sessions : ~SaveTransaction(s),
         \A f \in Flushers : ~FlushComplete(f)
  PROVE  UNCHANGED paidByAddress
<1> USE DEF registry
<1>1. ASSUME NEW s \in Sessions, Handler(s) PROVE UNCHANGED paidByAddress
  BY <1>1
    DEF Handler, NewPaymentRequest, ReadReference, CheckSequence, FetchSequence, StoreSequence,
         ReuseSequence, TakeSequence, PromoteSequence, GiveUp, VerifyCommit,
         SubmitAtOnce, ReducePendingAmount
<1>2. ASSUME Outside PROVE UNCHANGED paidByAddress
  BY <1>2, OutsideKeeps
<1>3. ASSUME NEW f \in Flushers, Flush(f) PROVE UNCHANGED paidByAddress
  BY <1>3 DEF Flush, FlushSnapshot, FlushFilter, FlushBump, FlushFails, FlushSubmit, FlushBreak
<1> QED
  BY <1>1, <1>2, <1>3 DEF Next, vars

\* A process that does not exit stays up.
LEMMA CrashesStep ==
  ASSUME crashes = 0, MaxCrashes = 0, [Next]_vars
  PROVE  crashes' = 0 /\ ~Crash
<1>1. ASSUME (\E s \in Sessions : Handler(s)) \/ Outside PROVE crashes' = crashes
  BY <1>1, OutsideKeeps
    DEF Handler, NewPaymentRequest, ReadReference, CheckSequence, FetchSequence, StoreSequence,
         ReuseSequence, TakeSequence, PromoteSequence, GiveUp, VerifyCommit, SaveTransaction,
         SubmitAtOnce, ReducePendingAmount
<1>2. ASSUME NEW f \in Flushers, Flush(f) PROVE crashes' = crashes
  BY <1>2 DEF Flush, FlushSnapshot, FlushFilter, FlushBump, FlushFails, FlushSubmit, FlushBreak,
         FlushComplete
<1>3. ~Crash
  BY DEF Crash
<1> QED
  BY <1>1, <1>2, <1>3 DEF Next, vars

LEMMA AllocatedStep ==
  ASSUME TypeOK, [Next]_vars
  PROVE  \A s \in Sessions : pc[s] \in Allocated => pc'[s] \in Allocated
<1> USE DEF TypeOK, Allocated
<1>1. ASSUME NEW s \in Sessions, Handler(s)
      PROVE  \A u \in Sessions : pc[u] \in Allocated => pc'[u] \in Allocated
  BY <1>1
    DEF Handler, NewPaymentRequest, ReadReference, CheckSequence, FetchSequence, StoreSequence,
         ReuseSequence, TakeSequence, PromoteSequence, GiveUp, VerifyCommit, SaveTransaction,
         SubmitAtOnce, ReducePendingAmount, AfterCommit
<1>2. ASSUME Outside PROVE pc' = pc
  BY <1>2, OutsideKeeps
<1>3. ASSUME NEW f \in Flushers, Flush(f) PROVE pc' = pc
  BY <1>3 DEF Flush, FlushSnapshot, FlushFilter, FlushBump, FlushFails, FlushSubmit, FlushBreak,
         FlushComplete
<1>4. CASE Crash
  BY <1>4 DEF Crash, Underway
<1>5. CASE UNCHANGED vars
  BY <1>5 DEF vars
<1> QED
  BY <1>1, <1>2, <1>3, <1>4, <1>5 DEF Next

\* Which handler takes what into the registry, or a reference out of it.
LEMMA RegistryByPayerStep ==
  ASSUME TypeOK, RegistryByPayer, [Next]_vars
  PROVE  RegistryByPayer'
<1>1. \A u \in Listed' : pc'[u] \in Allocated
  <2>1. \A u \in Listed \cup Verified : u \in Sessions /\ pc[u] \in Allocated
    BY DEF RegistryByPayer, Listed, Active, Verified, Allocated, TypeOK
  <2> QED
    BY <2>1, ListedStep, AllocatedStep
<1>2. \A s \in Sessions : ref'[s] # None =>
        pc'[ref'[s]] \in Allocated /\ PayerOf[ref'[s]] = PayerOf[s]
  <2>1. ASSUME NEW s \in Sessions, ReadReference(s) PROVE <1>2!:
    <3>1. LET r == paidByAddress[PayerOf[s]] IN
            r # None => r \in Sessions /\ pc[r] \in Allocated /\ PayerOf[r] = PayerOf[s]
      BY ConstantsAssumption DEF TypeOK, RegistryByPayer, Listed, Active
    <3> QED
      BY <2>1, <3>1, AllocatedStep DEF TypeOK, RegistryByPayer, ReadReference, ActiveTransaction
  <2>2. CASE \E s \in Sessions : ReuseSequence(s) \/ TakeSequence(s)
    BY <2>2, AllocatedStep DEF TypeOK, RegistryByPayer, ReuseSequence, TakeSequence
  <2>3. CASE TransactionsKept
    BY <2>3, AllocatedStep DEF TypeOK, RegistryByPayer, TransactionsKept
  <2> QED
    BY <2>1, <2>2, <2>3, TransactionsStep
<1>3. \A p \in Payers : paidByAddress'[p] # None => PayerOf[paidByAddress'[p]] = p
  <2> USE DEF TypeOK, RegistryByPayer
  <2>1. ASSUME NEW s \in Sessions, SaveTransaction(s) PROVE <1>3!:
    BY <2>1, ConstantsAssumption DEF SaveTransaction, Saved
  <2>2. ASSUME NEW f \in Flushers, FlushComplete(f) PROVE <1>3!:
    BY <2>2 DEF FlushComplete
  <2>3. CASE Crash
    BY <2>3 DEF Crash, NewRegistry
  <2>4. CASE UNCHANGED paidByAddress
    BY <2>4
  <2> QED
    BY <2>1, <2>2, <2>3, <2>4, RegistryStep
<1> QED
  BY <1>1, <1>2, <1>3 DEF RegistryByPayer

(***************************************************************************)
(* Why payers do not compete for numbers.  Once lastSequenceId is set and  *)
(* the process stays up, no handler reads the number from Horizon again,   *)
(* so lastSequenceId only grows, under sequenceMux: every number given out *)
(* is at most lastSequenceId, but for the one a handler is just promoting. *)
(* A number is shared only by taking it over from a reference, which is    *)
(* of the same payer.                                                      *)
(***************************************************************************)
AllocatorSteady ==
  /\ crashes = 0 /\ lastSequenceId # 0
  /\ \A s \in Sessions : pc[s] \notin {"fetch", "store"}
  /\ \A s \in Sessions : pc[s] = "promote" => sequenceMux = s /\ seq[s] = lastSequenceId + 1
  /\ \A s \in Sessions : pc[s] # "promote" => seq[s] <= lastSequenceId

\* The steps that neither number a transaction nor ask whether numbers are known.
AllocatorKept ==
  /\ UNCHANGED <<seq, lastSequenceId, sequenceMux, crashes>>
  /\ \A s \in Sessions :
       pc'[s] = pc[s] \/ {pc[s], pc'[s]} \cap {"promote", "fetch", "store"} = {}

LEMMA AllocatorStep ==
  ASSUME TypeOK, AllocatorSteady, MaxCrashes = 0, [Next]_vars,
         \A s \in Sessions : ~CheckSequence(s) /\ ~ReuseSequence(s) /\ ~TakeSequence(s)
                             /\ ~PromoteSequence(s)
  PROVE  AllocatorKept
<1> USE DEF AllocatorKept, TypeOK, numbers, txs
<1>1. ASSUME NEW s \in Sessions, Handler(s) PROVE AllocatorKept
  BY <1>1
    DEF AllocatorSteady, Handler, NewPaymentRequest, ReadReference, FetchSequence,
        StoreSequence,
         GiveUp, VerifyCommit, SaveTransaction, SubmitAtOnce, ReducePendingAmount, AfterCommit
<1>2. ASSUME Outside PROVE AllocatorKept
  BY <1>2, OutsideKeeps
<1>3. ASSUME NEW f \in Flushers, Flush(f) PROVE AllocatorKept
  BY <1>3 DEF Flush, FlushSnapshot, FlushFilter, FlushBump, FlushFails, FlushSubmit, FlushBreak,
         FlushComplete
<1>4. crashes' = 0 /\ ~Crash
  BY CrashesStep DEF AllocatorSteady
<1>5. CASE UNCHANGED vars
  BY <1>5 DEF vars
<1> QED
  BY <1>1, <1>2, <1>3, <1>4, <1>5 DEF Next
LEMMA AllocatorSteadyStep ==
  ASSUME IInv, RegistryByPayer, AllocatorSteady, PayersNeverShareSequence, MaxCrashes = 0,
         [Next]_vars
  PROVE  AllocatorSteady' /\ PayersNeverShareSequence'
<1> USE DEF TypeOK, AllocatorSteady, PayersNeverShareSequence
<1>0. TypeOK /\ TypeOK'
  BY TypeStep DEF IInv
<1>1. ASSUME NEW s \in Sessions, CheckSequence(s)
      PROVE  AllocatorSteady' /\ PayersNeverShareSequence'
  BY <1>0, <1>1 DEF CheckSequence, numbers, txs
<1>2. ASSUME NEW s \in Sessions, ReuseSequence(s)
      PROVE  AllocatorSteady' /\ PayersNeverShareSequence'
  <2>1. ref[s] \in Sessions /\ PayerOf[ref[s]] = PayerOf[s] /\ pc[ref[s]] # "promote"
    BY <1>0, <1>2 DEF RegistryByPayer, Allocated, ReuseSequence
  <2>2. seq' = [seq EXCEPT ![s] = seq[ref[s]]] /\ seq[ref[s]] <= lastSequenceId
    BY <1>2, <2>1 DEF ReuseSequence
  <2>3. \A u \in Sessions : seq'[u] = IF u = s THEN seq[ref[s]] ELSE seq[u]
    BY <1>0, <2>2
  <2>4. PayersNeverShareSequence'
    BY <2>1, <2>3
  <2>5. AllocatorSteady'
    BY <1>0, <1>2, <2>1, <2>2, <2>3 DEF ReuseSequence, numbers
  <2> QED
    BY <2>4, <2>5
<1>3. ASSUME NEW s \in Sessions, TakeSequence(s)
      PROVE  AllocatorSteady' /\ PayersNeverShareSequence'
  <2>1. \A u \in Sessions : pc[u] # "promote"
    BY <1>0, <1>3, ConstantsAssumption DEF TakeSequence
  <2>2. \A u \in Sessions : seq[u] <= lastSequenceId /\ seq[u] # lastSequenceId + 1
    BY <1>0, <2>1
  <2>3. \A u \in Sessions : seq'[u] = IF u = s THEN lastSequenceId + 1 ELSE seq[u]
    BY <1>0, <1>3 DEF TakeSequence
  <2>4. PayersNeverShareSequence'
    BY <2>2, <2>3
  <2>5. AllocatorSteady'
    BY <1>0, <1>3, <2>1, <2>2, <2>3 DEF TakeSequence
  <2> QED
    BY <2>4, <2>5
<1>4. ASSUME NEW s \in Sessions, PromoteSequence(s)
      PROVE  AllocatorSteady' /\ PayersNeverShareSequence'
  <2>1. \A u \in Sessions \ {s} : pc[u] # "promote"
    BY <1>0, <1>4 DEF PromoteSequence
  <2> QED
    BY <1>0, <1>4, <2>1 DEF PromoteSequence, txs
<1>5. CASE AllocatorKept
  BY <1>0, <1>5 DEF AllocatorKept
<1> QED
  BY <1>0, <1>1, <1>2, <1>3, <1>4, <1>5, AllocatorStep

LEMMA RegistryByPayerInvariant == Spec => []RegistryByPayer
<1>1. Init => RegistryByPayer
  <2>1. Init => Listed = {}
    BY DEF Init, Listed, Active
  <2> QED
    BY <2>1 DEF Init, RegistryByPayer
<1>2. IInv /\ RegistryByPayer /\ [Next]_vars => RegistryByPayer'
  BY RegistryByPayerStep DEF IInv
<1> QED
  BY <1>1, <1>2, Inductive, PTL DEF Spec

(* Payers never compete for a number, for any number of payers, sessions and concurrent   *)
(* handlers, however their calls interleave, in a process that knows the account's number *)
(* and does not exit.  Neither hypothesis can be dropped: the uninitialized allocator is  *)
(* set outside sequenceMux.                                                               *)
THEOREM PayersKeptApart ==
  ASSUME WarmStart, MaxCrashes = 0
  PROVE  Spec => []PayersNeverShareSequence
<1>1. Init => AllocatorSteady /\ PayersNeverShareSequence
  BY ConstantsAssumption DEF Init, AllocatorSteady, PayersNeverShareSequence
<1>2. /\ IInv /\ RegistryByPayer /\ AllocatorSteady /\ PayersNeverShareSequence
      /\ [Next]_vars
      => AllocatorSteady' /\ PayersNeverShareSequence'
  BY AllocatorSteadyStep
<1> QED
  BY <1>1, <1>2, Inductive, RegistryByPayerInvariant, PTL DEF Spec

-----------------------------------------------------------------------------
(* Failed commits. *)

(***************************************************************************)
(* Why a failed commit is not charged.  As long as the process stays up    *)
(* and no commit times out, only a transaction whose commit goes through   *)
(* becomes known to the registry or the ledger, hence only such a one is   *)
(* ever replaced; and the reduction of the session's debt that follows     *)
(* finds the session, because NewPaymentRequest recorded it.  A submission *)
(* that times out in a flush is of a commit that has gone through.         *)
(***************************************************************************)
Accepted == {"reducing", "committed"}

CommitsStick ==
  /\ crashes = 0 /\ (accumulating \/ "timeout" \notin Faults)
  /\ \A s \in Sessions :
       s \in ServiceSessions /\ pc[s] \notin {"new", "committed"} => pending[s] # None
  /\ \A s \in Sessions : pc[s] = "reducing" => s \in ServiceSessions
  /\ \A u \in Listed : pc[u] \in Accepted
  /\ \A u \in Sessions : \A w \in covers[u] : w = u \/ pc[w] \in Accepted

\* The debt of a session is recorded before anything else happens to it.
LEMMA DebtStep ==
  ASSUME TypeOK, CommitsStick, MaxCrashes = 0, [Next]_vars
  PROVE  /\ \A s \in Sessions :
              s \in ServiceSessions /\ pc'[s] \notin {"new", "committed"} => pending'[s] # None
         /\ \A s \in Sessions : pc'[s] = "reducing" => s \in ServiceSessions
         /\ \A s \in Sessions : pc[s] \in Accepted => pc'[s] \in Accepted
<1> DEFINE Goal ==
         /\ \A s \in Sessions :
              s \in ServiceSessions /\ pc'[s] \notin {"new", "committed"} => pending'[s] # None
         /\ \A s \in Sessions : pc'[s] = "reducing" => s \in ServiceSessions
         /\ \A s \in Sessions : pc[s] \in Accepted => pc'[s] \in Accepted
<1> USE DEF TypeOK, CommitsStick, Accepted, registry, ledger
<1>1. ASSUME NEW s \in Sessions, NewPaymentRequest(s) PROVE Goal
  <2>1. OwedAfterUsage(s) # None
    <3>1. TotalOut[s] # None /\ TotalOut[s] \in Int
      BY ConstantsAssumption
    <3>2. pending[s] # None => pending[s] + TotalOut[s] \in Int
      BY <3>1, ConstantsAssumption DEF Amounts
    <3>3. pending[s] # None => (pending[s] + TotalOut[s]) % AmountMod \in Int
      BY <3>2, ConstantsAssumption
    <3> QED
      BY <3>1, <3>3, ConstantsAssumption DEF OwedAfterUsage
  <2> QED
    BY <1>1, <2>1 DEF NewPaymentRequest
<1>2. ASSUME NEW s \in Sessions,
             ReadReference(s) \/ CheckSequence(s) \/ FetchSequence(s) \/ StoreSequence(s)
             \/ ReuseSequence(s) \/ TakeSequence(s) \/ PromoteSequence(s) \/ GiveUp(s)
      PROVE  Goal
  BY <1>2 DEF ReadReference, CheckSequence, FetchSequence, StoreSequence,
         ReuseSequence, TakeSequence, PromoteSequence, GiveUp
<1>3. ASSUME NEW s \in Sessions, VerifyCommit(s) \/ SaveTransaction(s) \/ SubmitAtOnce(s)
      PROVE  Goal
  BY <1>3 DEF VerifyCommit, SaveTransaction, SubmitAtOnce, AfterCommit
<1>4. ASSUME NEW s \in Sessions, ReducePendingAmount(s) PROVE Goal
  BY <1>4 DEF ReducePendingAmount
<1>5. ASSUME NEW f \in Flushers, Flush(f) PROVE Goal
  BY <1>5
    DEF Flush, FlushSnapshot, FlushFilter, FlushBump, FlushFails, FlushSubmit, FlushBreak,
        FlushComplete
<1>8. ASSUME Outside PROVE Goal
  BY <1>8, OutsideKeeps
<1>6. ~Crash
  BY DEF Crash
<1>7. CASE UNCHANGED vars
  BY <1>7 DEF vars
<1> QED
  BY <1>1, <1>2, <1>3, <1>4, <1>5, <1>6, <1>7, <1>8 DEF Next, Handler

\* A process keeps the mode that it was started with.
LEMMA ModeStep ==
  ASSUME [Next]_vars PROVE accumulating' = accumulating
<1> USE DEF registry
<1>1. ASSUME (\E s \in Sessions : Handler(s)) \/ Outside
      PROVE  accumulating' = accumulating
  BY <1>1, OutsideKeeps
    DEF Handler, NewPaymentRequest, ReadReference, CheckSequence, FetchSequence, StoreSequence,
        ReuseSequence, TakeSequence, PromoteSequence, GiveUp, VerifyCommit, SaveTransaction,
        SubmitAtOnce, ReducePendingAmount
<1>2. ASSUME NEW f \in Flushers, Flush(f) PROVE accumulating' = accumulating
  BY <1>2 DEF Flush, FlushSnapshot, FlushFilter, FlushBump, FlushFails, FlushSubmit, FlushBreak,
              FlushComplete
<1>3. CASE Crash
  BY <1>3 DEF Crash
<1> QED
  BY <1>1, <1>2, <1>3 DEF Next, vars

\* What becomes known is a transaction whose commit goes through.
LEMMA AcceptedStep ==
  ASSUME TypeOK, [Next]_vars, accumulating \/ "timeout" \notin Faults
  PROVE  \A u \in Listed' \ Listed : pc'[u] \in Accepted
<1> DEFINE Goal == \A u \in Listed' \ Listed : pc'[u] \in Accepted
<1> USE DEF TypeOK, Listed, Active, Accepted, ledger, registry, flushing
<1>1. ASSUME NEW s \in Sessions, Handler(s) PROVE Goal
  BY <1>1, ConstantsAssumption DEF Handler, NewPaymentRequest, ReadReference, CheckSequence,
         FetchSequence, StoreSequence, ReuseSequence, TakeSequence, PromoteSequence, GiveUp,
         VerifyCommit, SaveTransaction, Saved, SubmitAtOnce, ReducePendingAmount, Executed,
         NotExecuted, Advance, AfterCommit
<1>2. ASSUME Outside PROVE Goal
  BY <1>2, LateStep, OutsideKeeps
<1>3. ASSUME NEW f \in Flushers, FlushSnapshot(f) \/ FlushFilter(f) PROVE Goal
  BY <1>3 DEF FlushSnapshot, FlushFilter, FlushReturn, Kept
<1>4. ASSUME NEW f \in Flushers, FlushBump(f) \/ FlushFails(f) PROVE Goal
  BY <1>4, BumpIsNat, LateBumpTyped DEF FlushBump, FlushFails, FlushReturn
<1>5. ASSUME NEW f \in Flushers, FlushSubmit(f) \/ FlushBreak(f) PROVE Goal
  BY <1>5, SubmissionStep DEF FlushSubmit, FlushBreak, First, FlushReturn
<1>6. ASSUME NEW f \in Flushers, FlushComplete(f) PROVE Goal
  BY <1>6 DEF FlushComplete, First, FlushReturn
<1>7. CASE Crash
  BY <1>7 DEF Crash, NewRegistry
<1>8. CASE UNCHANGED vars
  BY <1>8 DEF vars
<1> QED
  BY <1>1, <1>2, <1>3, <1>4, <1>5, <1>6, <1>7, <1>8 DEF Next, Flush

LEMMA CommitsStickStep ==
  ASSUME TypeOK, CommitsStick, MaxCrashes = 0, [Next]_vars
  PROVE  CommitsStick'
<1>1. \A u \in Sessions : pc[u] \in Accepted => pc'[u] \in Accepted
  BY DebtStep
<1>2. \A u \in Listed' : pc'[u] \in Accepted
  BY <1>1, AcceptedStep DEF TypeOK, CommitsStick, Listed, Active
<1>3. \A u \in Sessions : \A w \in covers'[u] : w = u \/ pc'[w] \in Accepted
  <2>1. ASSUME NEW s \in Sessions, ReadReference(s) PROVE <1>3!:
    <3>1. LET r == paidByAddress[PayerOf[s]] IN
            r # None => r \in Sessions /\ pc[r] \in Accepted
      BY ConstantsAssumption DEF TypeOK, CommitsStick, Listed, Active
    <3> QED
      BY <1>1, <2>1, <3>1
        DEF TypeOK, CommitsStick, ReadReference, ActiveTransaction, CoversOnTop
  <2>2. CASE UNCHANGED covers
    BY <1>1, <2>2 DEF TypeOK, CommitsStick
  <2> QED
    BY <2>1, <2>2, TransactionsStep DEF TransactionsKept, ReuseSequence, TakeSequence
<1>4. crashes' = 0 /\ accumulating' = accumulating
  BY CrashesStep, ModeStep DEF CommitsStick
<1> QED
  BY <1>2, <1>3, <1>4, DebtStep DEF CommitsStick

(* A payer told that its commit failed is not charged, for any sessions, amounts and      *)
(* interleaving of handlers and flushes, several payments of one payer at a time          *)
(* included, in either mode.  Without its hypotheses it is false: a commit that timed out *)
(* may be executed later, unless it was only stored, and a restart loses the registry.    *)
THEOREM FailedNotCharged ==
  ASSUME MaxCrashes = 0, Modes \subseteq {TRUE} \/ "timeout" \notin Faults
  PROVE  Spec => []FailedPaymentNotCharged
<1>1. Init => CommitsStick
  <2>1. Init => Listed = {}
    BY DEF Init, Listed, Active
  <2> QED
    BY <2>1 DEF Init, CommitsStick
<1>2. TypeOK /\ CommitsStick /\ [Next]_vars => CommitsStick'
  BY CommitsStickStep
<1>3. TypeOK /\ CommitsStick => FailedPaymentNotCharged
  BY DEF TypeOK, CommitsStick, FailedPaymentNotCharged, Listed, Active, Accepted
<1> QED
  BY <1>1, <1>2, <1>3, TypeCorrect, PTL DEF Spec

-----------------------------------------------------------------------------
(* Flushes. *)

(***************************************************************************)
(* Why a flush never works on what has been passed.  flushMux keeps other  *)
(* flushes from moving the account; its list, taken from the registry, has *)
(* one transaction per payer, and payers do not share numbers, so every    *)
(* execution leaves the rest of the list ahead of the account.  What timed *)
(* out under an earlier flush knows no mutex; it marks the flush it meets. *)
(***************************************************************************)
Flushing == {"bump", "submit", "complete"}

\* flushMux excludes other flushes from bumping and submitting, and a list has one
\* transaction per payer.
FlushesApart ==
  /\ \A f \in Flushers : flushPc[f] \in Flushing => flushMux = f
  /\ \A f \in Flushers : \A s, u \in todo[f] : PayerOf[s] = PayerOf[u] => s = u

lists == <<flushPc, todo, flushMux>>

\* Nobody but a flush changes a list, a flush or its mutex.
LEMMA FlushersStep ==
  ASSUME [Next]_vars, ~Crash, \A f \in Flushers : ~Flush(f)
  PROVE  UNCHANGED lists
<1> USE DEF lists, flushing
<1>1. ASSUME NEW s \in Sessions, Handler(s) PROVE UNCHANGED lists
  BY <1>1
    DEF Handler, NewPaymentRequest, ReadReference, CheckSequence, FetchSequence, StoreSequence,
         ReuseSequence, TakeSequence, PromoteSequence, GiveUp, VerifyCommit, SaveTransaction,
         SubmitAtOnce, ReducePendingAmount
<1>2. ASSUME Outside PROVE UNCHANGED lists
  BY <1>2, OutsideKeeps
<1> QED
  BY <1>1, <1>2 DEF Next, vars

LEMMA FlushesApartStep ==
  ASSUME TypeOK, RegistryByPayer, FlushesApart, [Next]_vars
  PROVE  FlushesApart'
<1> USE DEF TypeOK, FlushesApart, Flushing
<1>1. ASSUME NEW f \in Flushers, FlushSnapshot(f) PROVE FlushesApart'
  <2>1. \A s, u \in Active : PayerOf[s] = PayerOf[u] => s = u
    BY DEF Active, RegistryByPayer
  <2> QED
    BY <1>1, <2>1 DEF FlushSnapshot
<1>2. ASSUME NEW f \in Flushers, FlushReturn(f) PROVE FlushesApart'
  BY <1>2, ConstantsAssumption DEF FlushReturn
<1>3. ASSUME NEW f \in Flushers, FlushFilter(f) PROVE FlushesApart'
  BY <1>2, <1>3, ConstantsAssumption DEF FlushFilter, Kept
<1>4. ASSUME NEW f \in Flushers, FlushBump(f) \/ FlushSubmit(f) PROVE FlushesApart'
  BY <1>4, ConstantsAssumption DEF FlushBump, FlushSubmit
<1>5. ASSUME NEW f \in Flushers, FlushComplete(f), ~FlushReturn(f) PROVE FlushesApart'
  <2>1. /\ flushPc' = [flushPc EXCEPT ![f] = "submit"] /\ flushMux' = flushMux
        /\ \E s \in Sessions : todo' = [todo EXCEPT ![f] = @ \ {s}]
    BY <1>5 DEF FlushComplete, First
  <2> QED
    BY <1>5, <2>1 DEF FlushComplete
<1>6. CASE Crash
  BY <1>6 DEF Crash
<1>7. CASE UNCHANGED lists
  BY <1>7 DEF lists
<1> QED
  BY <1>1, <1>2, <1>3, <1>4, <1>5, <1>6, <1>7, FlushersStep DEF Flush, FlushFails, FlushBreak

LEMMA FlushesApartInvariant == Spec => []FlushesApart
<1>1. Init => FlushesApart
  BY DEF Init, FlushesApart, Flushing
<1>2. TypeOK /\ RegistryByPayer /\ FlushesApart /\ [Next]_vars => FlushesApart'
  BY FlushesApartStep
<1> QED
  BY <1>1, <1>2, TypeCorrect, RegistryByPayerInvariant, PTL DEF Spec

\* A number that anybody else knows never changes.
LEMMA ListedKeepNumber ==
  ASSUME TypeOK, NumberedOnce, [Next]_vars
  PROVE  \A u \in Listed : seq'[u] = seq[u]
<1>1. ASSUME NEW s \in Sessions, ReuseSequence(s) \/ TakeSequence(s) PROVE seq[s] = 0
  BY <1>1 DEF NumberedOnce, Unnumbered, ReuseSequence, TakeSequence
<1>2. ASSUME NEW s \in Sessions, ReuseSequence(s) \/ TakeSequence(s),
             NEW u \in Listed
      PROVE  seq'[u] = seq[u]
  <2>1. u # s /\ u \in Sessions
    BY <1>1, <1>2 DEF NumberedOnce, TypeOK, Listed, Active
  <2> QED
    BY <1>2, <2>1 DEF TypeOK, ReuseSequence, TakeSequence
<1> QED
  BY <1>2, TransactionsStep DEF TransactionsKept, ReadReference

\* When payments are not accumulated nothing is ever stored and no flush gets going.
FlushesWhatIsStored ==
  accumulating \/ (Active = {} /\ \A f \in Flushers : flushPc[f] = "idle")

LEMMA FlushesWhatIsStoredStep ==
  ASSUME TypeOK, FlushesWhatIsStored, [Next]_vars
  PROVE  FlushesWhatIsStored'
<1> USE DEF TypeOK, FlushesWhatIsStored, Active, registry, flushing
<1>1. ASSUME NEW s \in Sessions, Handler(s) PROVE FlushesWhatIsStored'
  <2>1. accumulating' = accumulating /\ flushPc' = flushPc
    BY <1>1 DEF Handler, NewPaymentRequest, ReadReference, CheckSequence, FetchSequence,
           StoreSequence, ReuseSequence, TakeSequence, PromoteSequence, GiveUp, VerifyCommit,
           SaveTransaction, SubmitAtOnce, ReducePendingAmount
  <2>2. accumulating \/ paidByAddress' = paidByAddress
    BY <1>1 DEF Handler, NewPaymentRequest, ReadReference, CheckSequence, FetchSequence,
           StoreSequence, ReuseSequence, TakeSequence, PromoteSequence, GiveUp, VerifyCommit,
           SaveTransaction, SubmitAtOnce, ReducePendingAmount
  <2> QED
    BY <2>1, <2>2
<1>2. ASSUME Outside PROVE FlushesWhatIsStored'
  BY <1>2, OutsideKeeps
<1>3. ASSUME NEW f \in Flushers, Flush(f) PROVE FlushesWhatIsStored'
  BY <1>3 DEF Flush, FlushSnapshot, FlushFilter, FlushBump, FlushFails, FlushSubmit, FlushBreak,
         FlushComplete
<1>4. CASE Crash
  BY <1>4 DEF Crash, NewRegistry
<1>5. CASE UNCHANGED vars
  BY <1>5 DEF vars
<1> QED
  BY <1>1, <1>2, <1>3, <1>4, <1>5 DEF Next

\* Four actions submit or bump; nothing else moves the account.
LEMMA AccountStep ==
  ASSUME TypeOK, [Next]_vars,
         \A s \in Sessions : ~SubmitAtOnce(s) /\ ~ExecuteLate(s),
         ~ExecuteLateBump,
         \A f \in Flushers : ~FlushBump(f) /\ ~FlushFails(f) /\ ~FlushSubmit(f) /\ ~FlushBreak(f)
  PROVE  accountSeq' = accountSeq /\ applied' = applied
<1> USE DEF ledger
<1>1. ASSUME NEW s \in Sessions, Handler(s) PROVE UNCHANGED <<accountSeq, applied>>
  BY <1>1
    DEF Handler, NewPaymentRequest, ReadReference, CheckSequence, FetchSequence, StoreSequence,
         ReuseSequence, TakeSequence, PromoteSequence, GiveUp, VerifyCommit, SaveTransaction,
         ReducePendingAmount
<1>2. ASSUME Outside PROVE UNCHANGED <<accountSeq, applied>>
  BY <1>2 DEF Outside, Expire
<1>3. ASSUME NEW f \in Flushers, Flush(f) PROVE UNCHANGED <<accountSeq, applied>>
  BY <1>3 DEF Flush, FlushSnapshot, FlushFilter, FlushComplete
<1>4. CASE Crash
  BY <1>4 DEF Crash
<1> QED
  BY <1>1, <1>2, <1>3, <1>4 DEF Next, vars

\* What a flush has still to submit is ahead of the account; when it has just submitted
\* the first, the others are.
Ahead(f) ==
  f \notin overtaken =>
    /\ flushPc[f] \in {"bump", "submit"} => \A s \in todo[f] : seq[s] > accountSeq
    /\ flushPc[f] = "complete" => \A s \in todo[f] \ First(todo[f]) : seq[s] > accountSeq

ListAhead == crashes = 0 /\ \A f \in Flushers : Ahead(f)

LEMMA ListAheadStep ==
  ASSUME IInv, FlushesApart, FlushesWhatIsStored, PayersNeverShareSequence, ListAhead,
         MaxCrashes = 0, [Next]_vars
  PROVE  ListAhead'
<1>0. TypeOK /\ TypeOK'
  BY TypeStep DEF IInv
<1>1. \A g \in Flushers : \A u \in todo[g] :
        u \in Sessions /\ seq'[u] = seq[u] /\ seq[u] \in Nat /\ seq[u] # 0
  BY <1>0, ListedKeepNumber DEF IInv, NumberedOnce, Listed, TypeOK
<1>2. \A g \in Flushers : \A s, u \in todo[g] : seq[s] = seq[u] => s = u
  BY <1>0, <1>1 DEF FlushesApart, PayersNeverShareSequence
<1>3. crashes' = 0 /\ ~Crash
  BY CrashesStep DEF ListAhead
<1>4. ASSUME NEW g \in Flushers, Ahead(g), todo'[g] = todo[g], flushPc'[g] = flushPc[g],
             accountSeq' = accountSeq \/ flushPc[g] \notin Flushing,
             g \in overtaken => g \in overtaken'
      PROVE  Ahead(g)'
  BY <1>1, <1>4 DEF Ahead, First, Flushing
<1>5. ASSUME NEW f \in Flushers, FlushSnapshot(f) \/ FlushFilter(f) PROVE Ahead(f)'
  <2>1. CASE FlushSnapshot(f)
    BY <1>0, <2>1 DEF FlushSnapshot, Ahead, TypeOK
  <2>2. CASE FlushFilter(f)
    BY <1>0, <1>1, <2>2 DEF FlushFilter, FlushReturn, Kept, Ahead, TypeOK, ledger
  <2> QED
    BY <1>5, <2>1, <2>2
<1>6. ASSUME NEW f \in Flushers, FlushBump(f) PROVE Ahead(f)'
  BY <1>0, <1>1, <1>6 DEF FlushBump, Bumped, Advance, First, ListAhead, Ahead, TypeOK
<1>7. ASSUME NEW f \in Flushers, FlushFails(f) \/ FlushBreak(f) PROVE Ahead(f)'
  BY <1>0, <1>7 DEF FlushFails, FlushBreak, FlushReturn, Ahead, TypeOK
<1>8. ASSUME NEW f \in Flushers, FlushSubmit(f) PROVE Ahead(f)'
  <2>1. PICK s \in First(todo[f]) : accountSeq' = accountSeq + 1 /\ seq[s] = accountSeq + 1
    BY <1>8 DEF FlushSubmit, Executed, Advance, Accepts
  <2>2. \A u \in todo[f] : u # s => seq[u] > accountSeq + 1
    BY <1>0, <1>1, <1>2, <2>1 DEF First, TypeOK
  <2>3. todo'[f] = todo[f] /\ flushPc'[f] = "complete" /\ seq' = seq /\ overtaken' = overtaken
    BY <1>0, <1>8 DEF FlushSubmit, TypeOK, txs
  <2> QED
    BY <2>1, <2>2, <2>3 DEF Ahead, First
<1>9. ASSUME NEW f \in Flushers, FlushComplete(f) PROVE Ahead(f)'
  <2>1. PICK s \in First(todo[f]) :
          \/ flushPc'[f] = "idle"
          \/ flushPc'[f] = "submit" /\ todo'[f] = todo[f] \ {s} /\ overtaken' = overtaken
    BY <1>0, <1>9 DEF FlushComplete, FlushReturn, TypeOK
  <2>2. \A u \in First(todo[f]) : u = s
    BY <1>0, <1>1, <1>2, <2>1 DEF First
  <2>3. f \notin overtaken => \A u \in todo[f] \ {s} : seq[u] > accountSeq
    BY <1>9, <2>2 DEF FlushComplete, ListAhead, Ahead
  <2>4. accountSeq' = accountSeq /\ seq' = seq
    BY <1>9 DEF FlushComplete, ledger, txs
  <2> QED
    BY <2>1, <2>3, <2>4 DEF Ahead
<1>10. ASSUME NEW f \in Flushers, Flush(f), NEW g \in Flushers PROVE Ahead(g)'
  <2>1. CASE g = f
    BY <1>5, <1>6, <1>7, <1>8, <1>9, <1>10, <2>1 DEF Flush
  <2>2. CASE g # f
    <3>1. /\ todo'[g] = todo[g] /\ flushPc'[g] = flushPc[g]
          /\ g \in overtaken => g \in overtaken'
      BY <1>0, <1>10, <2>2
        DEF Flush, FlushSnapshot, FlushFilter, FlushBump, FlushFails, FlushSubmit,
             FlushBreak, FlushComplete, FlushReturn, TypeOK
    <3>2. accountSeq' = accountSeq \/ flushPc[f] \in Flushing
      BY <1>10 DEF Flush, FlushSnapshot, FlushFilter, FlushBump, FlushFails, FlushSubmit,
             FlushBreak, FlushComplete, Flushing, ledger
    <3> QED
      BY <1>4, <2>2, <3>1, <3>2 DEF FlushesApart, ListAhead
  <2> QED
    BY <2>1, <2>2
<1>11. ASSUME \A f \in Flushers : ~Flush(f), NEW g \in Flushers PROVE Ahead(g)'
  <2>1. UNCHANGED lists
    BY <1>3, <1>11, FlushersStep
  <2>2. CASE Outside
    <3>1. Overtakes \/ (accountSeq' = accountSeq /\ overtaken' = overtaken)
      BY <1>0, <2>2, LateStep
    <3>2. CASE Overtakes /\ flushPc[g] \in Flushing
      BY <3>2 DEF Overtakes, Flushing, Ahead
    <3> QED
      BY <1>4, <2>1, <3>1, <3>2 DEF lists, Overtakes, ListAhead
  <2>3. CASE \E s \in Sessions : SubmitAtOnce(s)
    <3>1. flushPc[g] = "idle" /\ overtaken' = overtaken
      BY <2>3 DEF SubmitAtOnce, FlushesWhatIsStored, flushing
    <3> QED
      BY <1>4, <2>1, <3>1 DEF lists, Flushing, ListAhead
  <2>4. CASE accountSeq' = accountSeq /\ overtaken' = overtaken
    BY <1>4, <2>1, <2>4 DEF lists, ListAhead
  <2>5. ~Outside => overtaken' = overtaken
    <3>1. ASSUME NEW s \in Sessions, Handler(s) PROVE overtaken' = overtaken
      BY <3>1 DEF Handler, NewPaymentRequest, ReadReference, CheckSequence, FetchSequence,
             StoreSequence, ReuseSequence, TakeSequence, PromoteSequence, GiveUp, VerifyCommit,
             SaveTransaction, SubmitAtOnce, ReducePendingAmount, flushing
    <3> QED
      BY <1>3, <1>11, <3>1 DEF Next, vars, flushing
  <2> QED
    BY <1>0, <1>11, <2>2, <2>3, <2>4, <2>5, AccountStep DEF Flush, Outside
<1> QED
  BY <1>3, <1>10, <1>11 DEF ListAhead

(* A flush submits what the account has passed only if a late execution passed it under   *)
(* the flush, for any number of flushes, payers and payments, several of one payer at a   *)
(* time included, in either mode and with any faults: flushMux and the payers' separate   *)
(* numbers are enough.                                                                    *)
THEOREM FlushStaysAhead ==
  ASSUME WarmStart, MaxCrashes = 0
  PROVE  Spec => []FlushNeverSubmitsStale
<1>1. Init => ListAhead /\ FlushesWhatIsStored
  <2>1. Init => Active = {}
    BY DEF Init, Active
  <2> QED
    BY <2>1 DEF Init, ListAhead, Ahead, FlushesWhatIsStored
<1>2. /\ IInv /\ FlushesApart /\ FlushesWhatIsStored /\ PayersNeverShareSequence
      /\ ListAhead /\ [Next]_vars
      => ListAhead' /\ FlushesWhatIsStored'
  BY ListAheadStep, FlushesWhatIsStoredStep DEF IInv
<1>3. ListAhead => FlushNeverSubmitsStale
  BY DEF ListAhead, Ahead, FlushNeverSubmitsStale
<1> QED
  BY <1>1, <1>2, <1>3, Inductive, FlushesApartInvariant, PayersKeptApart, PTL DEF Spec

-----------------------------------------------------------------------------
(* Replacing and completing. *)

(***************************************************************************)
(* Why no executable transaction is dropped.  When a payer pays one thing  *)
(* at a time, what is stored for it while it is paying is still the        *)
(* transaction its payment replaces, or has been completed: saving loses   *)
(* nothing.  And what a flush holding flushMux has on its list is stored,  *)
(* if not itself then in a version with its number: completing it by payer *)
(* address deletes a transaction that is no longer executable.             *)
(***************************************************************************)
InHand == {"check", "fetch", "store", "assign", "promote", "created", "verified"}

Slot(s) == paidByAddress[PayerOf[s]]

OneUnderway ==
  \A s, u \in Sessions :
    pc[s] \in Underway /\ pc[u] \in Underway /\ PayerOf[s] = PayerOf[u] => s = u

ReplacesStored ==
  \A s \in Sessions :
    /\ pc[s] \in InHand => Slot(s) \in {ref[s], None}
    /\ pc[s] \in InHand /\ ref[s] # None => covers[ref[s]] \subseteq covers[s]
    /\ pc[s] = "promote" => ref[s] = None
    /\ pc[s] \in {"created", "verified"} /\ ref[s] # None => seq[s] = seq[ref[s]]

\* What is stored for the payer of s is s or another version of it.
StoredVersion(s) == Slot(s) # None /\ seq[Slot(s)] = seq[s]

ListStored ==
  \A f \in Flushers : \A s \in todo[f] :
    StoredVersion(s) \/ (flushPc[f] \notin Flushing /\ seq[s] <= accountSeq)

\* How a handler gets into its phases.
LEMMA PhaseStep ==
  ASSUME TypeOK, [Next]_vars
  PROVE  \A s \in Sessions :
           /\ pc'[s] \in Underway => pc[s] \in Underway \/ ReadReference(s)
           /\ pc'[s] \in InHand => pc[s] \in InHand \/ ReadReference(s)
           /\ pc'[s] = "promote" => pc[s] = "promote" \/ TakeSequence(s)
           /\ pc'[s] \in {"created", "verified"} =>
                pc[s] \in {"promote", "created", "verified"} \/ ReuseSequence(s)
<1> DEFINE Phases(s) ==
           /\ pc'[s] \in Underway => pc[s] \in Underway \/ ReadReference(s)
           /\ pc'[s] \in InHand => pc[s] \in InHand \/ ReadReference(s)
           /\ pc'[s] = "promote" => pc[s] = "promote" \/ TakeSequence(s)
           /\ pc'[s] \in {"created", "verified"} =>
                pc[s] \in {"promote", "created", "verified"} \/ ReuseSequence(s)
<1> SUFFICES ASSUME NEW s \in Sessions PROVE Phases(s)
  OBVIOUS
<1> USE DEF TypeOK, Underway, InHand
<1>0. pc'[s] = pc[s] => Phases(s)
  OBVIOUS
<1>1. ASSUME NEW u \in Sessions, Handler(u), u # s PROVE pc'[s] = pc[s]
  BY <1>1
    DEF Handler, NewPaymentRequest, ReadReference, CheckSequence, FetchSequence, StoreSequence,
         ReuseSequence, TakeSequence, PromoteSequence, GiveUp, VerifyCommit, SaveTransaction,
         SubmitAtOnce, ReducePendingAmount
<1>2. CASE ReadReference(s) \/ ReuseSequence(s) \/ TakeSequence(s)
  BY <1>2 DEF ReadReference, ReuseSequence, TakeSequence
<1>3. CASE NewPaymentRequest(s) \/ CheckSequence(s) \/ FetchSequence(s) \/ StoreSequence(s)
           \/ PromoteSequence(s) \/ GiveUp(s) \/ VerifyCommit(s)
  BY <1>3 DEF NewPaymentRequest, CheckSequence, FetchSequence, StoreSequence, PromoteSequence,
         GiveUp, VerifyCommit
<1>4. CASE SaveTransaction(s) \/ SubmitAtOnce(s) \/ ReducePendingAmount(s)
  BY <1>4 DEF SaveTransaction, SubmitAtOnce, ReducePendingAmount, AfterCommit
<1>5. ASSUME Outside PROVE pc'[s] = pc[s]
  BY <1>5, OutsideKeeps
<1>6. ASSUME NEW f \in Flushers, Flush(f) PROVE pc'[s] = pc[s]
  BY <1>6 DEF Flush, FlushSnapshot, FlushFilter, FlushBump, FlushFails, FlushSubmit, FlushBreak,
         FlushComplete
<1>7. CASE Crash
  BY <1>7 DEF Crash
<1>8. CASE UNCHANGED vars
  BY <1>8 DEF vars
<1>9. CASE Handler(s)
  BY <1>2, <1>3, <1>4, <1>9 DEF Handler
<1> QED
  BY <1>0, <1>1, <1>5, <1>6, <1>7, <1>8, <1>9 DEF Next

LEMMA OneUnderwayStep ==
  ASSUME OnePaymentAtATime, TypeOK, OneUnderway, [Next]_vars
  PROVE  OneUnderway'
<1>1. ASSUME NEW s \in Sessions, ReadReference(s), NEW u \in Sessions, u # s,
             PayerOf[u] = PayerOf[s]
      PROVE  pc'[u] \notin Underway
  BY <1>1 DEF TypeOK, ReadReference, PayerFree
<1> SUFFICES ASSUME NEW s \in Sessions, NEW u \in Sessions, s # u, PayerOf[s] = PayerOf[u],
                    pc'[s] \in Underway, pc'[u] \in Underway
             PROVE  FALSE
  BY DEF OneUnderway
<1>2. pc[s] \in Underway /\ pc[u] \in Underway
  BY <1>1, PhaseStep
<1> QED
  BY <1>2 DEF OneUnderway

\* What a transaction covers is settled before anybody else knows it.
LEMMA AllocatedKept ==
  ASSUME TypeOK, NumberedOnce, [Next]_vars, NEW u \in Sessions, pc[u] \in Allocated
  PROVE  covers'[u] = covers[u] /\ seq'[u] = seq[u]
<1>1. ASSUME NEW s \in Sessions, ReadReference(s) \/ ReuseSequence(s) \/ TakeSequence(s)
      PROVE  covers'[u] = covers[u] /\ seq'[u] = seq[u]
  BY <1>1 DEF TypeOK, Allocated, ReadReference, ReuseSequence, TakeSequence
<1> QED
  BY <1>1, TransactionsStep DEF TransactionsKept

LEMMA ReplacesStoredStep ==
  ASSUME TypeOK, NumberedOnce, RegistryByPayer, OneUnderway, ReplacesStored,
         crashes = 0, MaxCrashes = 0, [Next]_vars
  PROVE  ReplacesStored'
<1> DEFINE Replaces(s) ==
    /\ pc[s] \in InHand => Slot(s) \in {ref[s], None}
    /\ pc[s] \in InHand /\ ref[s] # None => covers[ref[s]] \subseteq covers[s]
    /\ pc[s] = "promote" => ref[s] = None
    /\ pc[s] \in {"created", "verified"} /\ ref[s] # None => seq[s] = seq[ref[s]]
<1> SUFFICES ASSUME NEW s \in Sessions PROVE Replaces(s)'
  BY DEF ReplacesStored
<1>1. Replaces(s) /\ Slot(s) \in Sessions \cup {None} /\ ref[s] \in Sessions \cup {None}
  BY ConstantsAssumption DEF ReplacesStored, TypeOK, Slot
<1>2. ref[s] # None => pc[ref[s]] \in Allocated
  BY DEF RegistryByPayer
<1>3. ref[s] # None => covers'[ref[s]] = covers[ref[s]] /\ seq'[ref[s]] = seq[ref[s]]
  BY <1>1, <1>2, AllocatedKept
<1>4. CASE ReadReference(s)
  <2>1. Slot(s) # None => Slot(s) # s /\ covers'[Slot(s)] = covers[Slot(s)]
    <3>1. Slot(s) # None => pc[Slot(s)] \in Allocated
      BY ConstantsAssumption DEF RegistryByPayer, Listed, Active, Slot
    <3>2. pc[s] \notin Allocated
      BY <1>4 DEF ReadReference, Allocated
    <3> QED
      BY <1>1, <3>1, <3>2, AllocatedKept
  <2>2. ref'[s] = Slot(s) /\ Slot(s)' = Slot(s) /\ pc'[s] = "check"
    BY <1>4 DEF TypeOK, ReadReference, ActiveTransaction, Slot, registry
  <2>3. covers'[s] = CoversOnTop(s, Slot(s))
    BY <1>4 DEF TypeOK, ReadReference, ActiveTransaction, Slot
  <2> QED
    BY <2>1, <2>2, <2>3 DEF CoversOnTop, InHand
<1>5. CASE TakeSequence(s)
  BY <1>1, <1>3, <1>5 DEF TypeOK, TakeSequence, InHand, Slot, registry
<1>6. CASE ReuseSequence(s)
  <2>1. Slot(s)' = Slot(s) /\ ref'[s] = ref[s] /\ covers'[s] = covers[s]
    BY <1>6 DEF ReuseSequence, Slot, registry
  <2>2. seq'[s] = seq[ref[s]] /\ pc'[s] = "created"
    BY <1>6 DEF TypeOK, ReuseSequence
  <2> QED
    BY <1>1, <1>3, <1>6, <2>1, <2>2 DEF ReuseSequence, InHand
<1>7. CASE ~ReadReference(s) /\ ~TakeSequence(s) /\ ~ReuseSequence(s)
  <2>1. ref'[s] = ref[s] /\ covers'[s] = covers[s] /\ seq'[s] = seq[s]
    <3>1. ASSUME NEW u \in Sessions, ReadReference(u) \/ TakeSequence(u) \/ ReuseSequence(u)
          PROVE  ref'[s] = ref[s] /\ covers'[s] = covers[s] /\ seq'[s] = seq[s]
      BY <1>7, <3>1 DEF TypeOK, ReadReference, TakeSequence, ReuseSequence
    <3> QED
      BY <3>1, TransactionsStep DEF TransactionsKept
  <2>2. pc'[s] \in InHand => Slot(s)' \in {Slot(s), None}
    <3>1. ASSUME NEW u \in Sessions, SaveTransaction(u), pc'[s] \in InHand
          PROVE  Slot(s)' = Slot(s)
      <4>1. u # s
        BY <3>1 DEF TypeOK, SaveTransaction, AfterCommit, InHand
      <4>2. PayerOf[u] # PayerOf[s]
        BY <1>7, <3>1, <4>1, PhaseStep DEF OneUnderway, SaveTransaction, Underway, InHand
      <4> QED
        BY <3>1, <4>2, ConstantsAssumption DEF TypeOK, SaveTransaction, Saved, Slot
    <3>2. ASSUME NEW f \in Flushers, FlushComplete(f)
          PROVE  Slot(s)' \in {Slot(s), None}
      BY <3>2, ConstantsAssumption DEF TypeOK, FlushComplete, Slot
    <3>3. ~Crash
      BY DEF Crash
    <3> QED
      BY <3>1, <3>2, <3>3, RegistryStep DEF Slot
  <2> QED
    BY <1>1, <1>3, <1>7, <2>1, <2>2, PhaseStep DEF InHand
<1> QED
  BY <1>4, <1>5, <1>6, <1>7

\* What is listed or stored keeps its number and what it covers, and the account only grows.
LEMMA ListedKept ==
  ASSUME IInv, RegistryByPayer, [Next]_vars
  PROVE  /\ \A u \in Listed : u \in Sessions /\ seq'[u] = seq[u] /\ covers'[u] = covers[u]
         /\ accountSeq' >= accountSeq
<1>1. \A u \in Listed : u \in Sessions /\ pc[u] \in Allocated
  BY DEF IInv, TypeOK, Listed, Active, RegistryByPayer
<1>2. accountSeq' >= accountSeq
  BY LedgerStep DEF IInv, TypeOK, LedgerMoves
<1> QED
  BY <1>1, <1>2, AllocatedKept DEF IInv

LEMMA ListStoredStep ==
  ASSUME IInv, RegistryByPayer, FlushesApart, ReplacesStored, ListStored,
         crashes = 0, MaxCrashes = 0, [Next]_vars
  PROVE  ListStored'
<1> DEFINE Passed(f, s) == flushPc[f] \notin Flushing /\ seq[s] <= accountSeq
<1>0. TypeOK /\ TypeOK'
  BY TypeStep DEF IInv
<1>1. \A f \in Flushers : \A s \in todo[f] : s \in Listed /\ s \in Sessions
  BY <1>0 DEF Listed, TypeOK
<1>2. \A s \in Sessions : Slot(s) # None => Slot(s) \in Listed /\ Slot(s) \in Sessions
  BY <1>0, ConstantsAssumption DEF Listed, Active, Slot, TypeOK
<1>3. accountSeq' >= accountSeq /\ accountSeq \in Nat /\ accountSeq' \in Nat
      /\ \A s \in Sessions : seq[s] \in Nat
  BY <1>0, ListedKept DEF TypeOK
<1>4. ASSUME NEW f \in Flushers, NEW s \in todo[f],
             StoredVersion(s), Slot(s)' = Slot(s)
      PROVE  StoredVersion(s)'
  BY <1>1, <1>2, <1>4, ListedKept DEF StoredVersion
<1>5. ASSUME NEW f \in Flushers, NEW s \in todo[f],
             Passed(f, s), flushPc'[f] \notin Flushing
      PROVE  Passed(f, s)'
  BY <1>1, <1>3, <1>5, ListedKept
<1>6. ASSUME NEW s \in Sessions, SaveTransaction(s) PROVE ListStored'
  <2> SUFFICES ASSUME NEW f \in Flushers, NEW t \in todo[f], StoredVersion(t)
               PROVE  StoredVersion(t)'
    BY <1>5, <1>6 DEF SaveTransaction, flushing, ListStored
  <2>1. CASE PayerOf[t] # PayerOf[s]
    BY <1>0, <1>1, <1>4, <1>6, <2>1, ConstantsAssumption
      DEF TypeOK, SaveTransaction, Saved, Slot
  <2>2. CASE PayerOf[t] = PayerOf[s]
    <3>1. Slot(s) = Slot(t) /\ Slot(s) # None
      BY <2>2 DEF Slot, StoredVersion
    <3>2. seq[s] = seq[Slot(t)]
      BY <1>6, <3>1 DEF ReplacesStored, SaveTransaction, InHand
    <3>3. Slot(t)' = s
      BY <1>0, <1>1, <1>6, <2>2, ConstantsAssumption DEF TypeOK, SaveTransaction, Saved, Slot
    <3>4. seq' = seq
      BY <1>6 DEF SaveTransaction, txs
    <3> QED
      BY <3>2, <3>3, <3>4, ConstantsAssumption DEF StoredVersion
  <2> QED
    BY <2>1, <2>2
<1>7. ASSUME NEW g \in Flushers, FlushSnapshot(g) PROVE ListStored'
  <2>1. \A s \in Active : StoredVersion(s) /\ Slot(s)' = Slot(s) /\ seq'[s] = seq[s]
    BY <1>7 DEF FlushSnapshot, Active, RegistryByPayer, StoredVersion, Slot, registry, txs
  <2>2. \A s \in Active : StoredVersion(s)'
    BY <1>7, <2>1 DEF FlushSnapshot, StoredVersion, txs
  <2>3. todo' = [todo EXCEPT ![g] = Active] /\ flushPc' = [flushPc EXCEPT ![g] = "wait"]
    BY <1>7 DEF FlushSnapshot
  <2> SUFFICES ASSUME NEW f \in Flushers, f # g, NEW s \in todo[f]
               PROVE  StoredVersion(s)' \/ Passed(f, s)'
    BY <1>0, <2>2, <2>3 DEF ListStored, TypeOK
  <2>4. Slot(s)' = Slot(s) /\ flushPc'[f] = flushPc[f]
    BY <1>0, <1>7, <2>3 DEF FlushSnapshot, Slot, registry, TypeOK
  <2> QED
    BY <1>4, <1>5, <2>4 DEF ListStored
<1>8. ASSUME NEW g \in Flushers, FlushFilter(g) \/ FlushBump(g) \/ FlushFails(g) \/ FlushSubmit(g)
                                 \/ FlushBreak(g)
      PROVE  ListStored'
  <2>1. paidByAddress' = paidByAddress
    BY <1>8 DEF FlushFilter, FlushBump, FlushFails, FlushSubmit, FlushBreak, registry
  <2>2. \A f \in Flushers : f # g => todo'[f] = todo[f] /\ flushPc'[f] = flushPc[f]
    BY <1>0, <1>8
      DEF FlushFilter, FlushBump, FlushFails, FlushSubmit, FlushBreak, FlushReturn, TypeOK
  <2>3. \/ todo'[g] = {}
        \/ todo'[g] = Kept(todo[g]) /\ flushPc[g] = "wait"
        \/ todo'[g] = todo[g] /\ flushPc[g] \in Flushing
    BY <1>0, <1>8
      DEF FlushFilter, FlushBump, FlushFails, FlushSubmit, FlushBreak, FlushReturn, TypeOK,
           Flushing
  <2>4. \A s \in todo'[g] : s \in todo[g] /\ StoredVersion(s)
    BY <1>1, <1>3, <2>3 DEF ListStored, Kept
  <2> SUFFICES ASSUME NEW f \in Flushers, NEW s \in todo'[f]
               PROVE  StoredVersion(s)' \/ Passed(f, s)'
    BY DEF ListStored
  <2>5. Slot(s)' = Slot(s)
    BY <2>1 DEF Slot
  <2> QED
    BY <1>4, <1>5, <2>2, <2>4, <2>5 DEF ListStored
<1>9. ASSUME NEW g \in Flushers, FlushComplete(g) PROVE ListStored'
  <2>1. PICK t \in todo[g] \cap applied :
          /\ paidByAddress' = [paidByAddress EXCEPT ![PayerOf[t]] = None]
          /\ todo'[g] \subseteq todo[g] \ {t}
          /\ \A f \in Flushers \ {g} : todo'[f] = todo[f] /\ flushPc'[f] = flushPc[f]
    BY <1>0, <1>9 DEF FlushComplete, FlushReturn, First, TypeOK
  <2>2. StoredVersion(t) /\ seq[t] <= accountSeq /\ t \in Sessions
    BY <1>1, <1>9, <2>1 DEF FlushComplete, ListStored, Flushing, IInv, ExecutedInOrder
  <2> SUFFICES ASSUME NEW f \in Flushers, NEW s \in todo'[f]
               PROVE  StoredVersion(s)' \/ Passed(f, s)'
    BY DEF ListStored
  <2>3. s \in todo[f] /\ s \in Sessions
    BY <1>1, <2>1
  <2>4. PayerOf[s] # PayerOf[t] => Slot(s)' = Slot(s)
    BY <1>0, <2>1, <2>2, <2>3, ConstantsAssumption DEF TypeOK, Slot
  <2>5. CASE f = g
    BY <1>4, <1>9, <2>1, <2>3, <2>4, <2>5 DEF FlushComplete, FlushesApart, ListStored, Flushing
  <2>6. CASE f # g
    <3>1. flushPc[f] \notin Flushing /\ flushPc'[f] = flushPc[f]
      BY <1>9, <2>1, <2>6 DEF FlushesApart, FlushComplete, Flushing
    <3>2. CASE PayerOf[s] = PayerOf[t] /\ StoredVersion(s)
      <4>1. seq[s] <= accountSeq
        BY <2>2, <3>2 DEF StoredVersion, Slot
      <4> QED
        BY <1>5, <2>3, <3>1, <4>1
    <3> QED
      BY <1>4, <1>5, <2>3, <2>4, <3>1, <3>2 DEF ListStored
  <2> QED
    BY <2>5, <2>6
<1>10. CASE UNCHANGED lists /\ UNCHANGED paidByAddress
  <2> SUFFICES ASSUME NEW f \in Flushers, NEW s \in todo[f]
               PROVE  StoredVersion(s)' \/ Passed(f, s)'
    BY <1>10 DEF ListStored, lists
  <2>1. Slot(s)' = Slot(s) /\ flushPc' = flushPc
    BY <1>10 DEF Slot, lists
  <2> QED
    BY <1>4, <1>5, <2>1 DEF ListStored
<1>11. ~Crash
  BY DEF Crash
<1> QED
  BY <1>6, <1>7, <1>8, <1>9, <1>10, <1>11, FlushersStep, RegistryStep DEF Flush

\* The part of LiveNeverDropped about one step.
DropsNothing ==
  \A p \in Payers :
    LET s == paidByAddress[p] IN
    s # None /\ seq[s] > accountSeq =>
      \/ paidByAddress'[p] # None /\ covers[s] \subseteq covers'[paidByAddress'[p]]
      \/ \A u \in covers[s] : Charged(u)'

LEMMA DropsNothingStep ==
  ASSUME IInv, RegistryByPayer, ReplacesStored, ListStored, crashes = 0, MaxCrashes = 0,
         [Next]_vars
  PROVE  DropsNothing
<1> SUFFICES ASSUME NEW p \in Payers, paidByAddress[p] # None,
                    seq[paidByAddress[p]] > accountSeq
             PROVE  /\ paidByAddress'[p] # None
                    /\ covers[paidByAddress[p]] \subseteq covers'[paidByAddress'[p]]
  BY DEF DropsNothing
<1>0. TypeOK
  BY DEF IInv
<1>1. covers'[paidByAddress[p]] = covers[paidByAddress[p]] /\ paidByAddress[p] \in Sessions
  BY <1>0, ListedKept DEF Listed, Active
<1>2. ASSUME NEW s \in Sessions, SaveTransaction(s), PayerOf[s] = p
      PROVE  /\ paidByAddress'[p] # None
             /\ covers[paidByAddress[p]] \subseteq covers'[paidByAddress'[p]]
  <2>1. covers[paidByAddress[p]] \subseteq covers[s]
    BY <1>2 DEF SaveTransaction, ReplacesStored, Slot, InHand
  <2>2. paidByAddress'[p] = s /\ covers' = covers
    BY <1>0, <1>2 DEF TypeOK, SaveTransaction, Saved, txs
  <2> QED
    BY <2>1, <2>2, ConstantsAssumption
<1>3. ASSUME NEW s \in Sessions, SaveTransaction(s), PayerOf[s] # p
      PROVE  paidByAddress'[p] = paidByAddress[p]
  BY <1>0, <1>3 DEF TypeOK, SaveTransaction, Saved
<1>4. ASSUME NEW f \in Flushers, FlushComplete(f)
      PROVE  paidByAddress'[p] = paidByAddress[p]
  <2>1. PICK t \in todo[f] \cap applied :
          paidByAddress' = [paidByAddress EXCEPT ![PayerOf[t]] = None]
    BY <1>4 DEF FlushComplete, First
  <2>2. StoredVersion(t) /\ seq[t] <= accountSeq
    BY <1>4, <2>1 DEF FlushComplete, ListStored, Flushing, IInv, ExecutedInOrder
  <2>3. PayerOf[t] # p
    BY <1>0, <1>1, <2>1, <2>2 DEF TypeOK, StoredVersion, Slot
  <2> QED
    BY <1>0, <2>1, <2>3 DEF TypeOK
<1>5. ~Crash
  BY DEF Crash
<1> QED
  BY <1>1, <1>2, <1>3, <1>4, <1>5, RegistryStep

(* No transaction that can still be executed is dropped from the registry, for any number *)
(* of payers, sessions and flushes, in either mode and with submissions that time out,    *)
(* when a payer pays one thing at a time and the process stays up.                        *)
THEOREM LiveStaysStored ==
  ASSUME OnePaymentAtATime, MaxCrashes = 0
  PROVE  Spec => LiveNeverDropped
<1> DEFINE Stored == crashes = 0 /\ OneUnderway /\ ReplacesStored /\ ListStored
<1>1. Init => Stored
  BY DEF Init, OneUnderway, Underway, ReplacesStored, InHand, ListStored
<1>2. IInv /\ RegistryByPayer /\ FlushesApart /\ Stored /\ [Next]_vars => Stored'
  <2> SUFFICES ASSUME IInv, RegistryByPayer, FlushesApart, Stored, [Next]_vars PROVE Stored'
    OBVIOUS
  <2>1. crashes' = 0
    BY CrashesStep
  <2> QED
    BY <2>1, OneUnderwayStep, ReplacesStoredStep, ListStoredStep DEF IInv
<1>3. IInv /\ RegistryByPayer /\ Stored /\ [Next]_vars => DropsNothing
  BY DropsNothingStep
<1>4. [DropsNothing]_vars => [\A p \in Payers :
       LET s == paidByAddress[p] IN
       s # None /\ seq[s] > accountSeq =>
         \/ paidByAddress'[p] # None /\ covers[s] \subseteq covers'[paidByAddress'[p]]
         \/ \A u \in covers[s] : Charged(u)']_vars
  BY DEF DropsNothing
<1> HIDE DEF Stored, DropsNothing
<1> QED
  BY <1>1, <1>2, <1>3, <1>4, Inductive, RegistryByPayerInvariant, FlushesApartInvariant, PTL
  DEF Spec, LiveNeverDropped

-------------------------------------------------------------------------------
(***************************************************************************)
(* The payment operation of a transaction takes what the payments it       *)
(* covers cost.  A replacement adds its own amount to what it replaces,    *)
(* which does not cover its payment yet: all that the replaced one covers  *)
(* has a number.                                                           *)
(***************************************************************************)
AmountsAddUp ==
  \A s \in Sessions :
    IsFiniteSet(covers[s]) /\ amountIn[s] = SumOver(TotalIn, covers[s]) % AmountMod

\* The steps that build no transaction.
LEMMA AmountsKept ==
  ASSUME [Next]_vars, \A s \in Sessions : ~ReadReference(s)
  PROVE  UNCHANGED <<covers, amountIn>>
<1> USE DEF txs
<1>1. ASSUME (\E s \in Sessions : Handler(s)) \/ Outside
      PROVE  UNCHANGED <<covers, amountIn>>
  BY <1>1, OutsideKeeps DEF Handler, NewPaymentRequest, CheckSequence, FetchSequence, StoreSequence,
         ReuseSequence, TakeSequence, PromoteSequence, GiveUp, VerifyCommit, SaveTransaction,
         SubmitAtOnce, ReducePendingAmount
<1>2. ASSUME NEW f \in Flushers, Flush(f) PROVE UNCHANGED <<covers, amountIn>>
  BY <1>2 DEF Flush, FlushSnapshot, FlushFilter, FlushBump, FlushFails, FlushSubmit, FlushBreak,
         FlushComplete
<1>3. CASE Crash
  BY <1>3 DEF Crash
<1>4. CASE UNCHANGED vars
  BY <1>4 DEF vars
<1> QED
  BY <1>1, <1>2, <1>3, <1>4 DEF Next

LEMMA AmountsAddUpStep ==
  IInv /\ AmountsAddUp /\ [Next]_vars => AmountsAddUp'
<1> SUFFICES ASSUME IInv, AmountsAddUp, [Next]_vars PROVE AmountsAddUp'
  OBVIOUS
<1>1. ASSUME NEW s \in Sessions, ReadReference(s) PROVE AmountsAddUp'
  <2> DEFINE r == paidByAddress[PayerOf[s]]
  <2>1. r \in Sessions \cup {None} /\ (r # None => r \in Active)
    BY ConstantsAssumption DEF IInv, TypeOK, Active
  <2>2. /\ covers' = [covers EXCEPT ![s] = CoversOnTop(s, r)]
        /\ amountIn' = [amountIn EXCEPT ![s] = AmountInOnTop(s, r)]
        /\ pc[s] = "requested"
    BY <1>1 DEF ReadReference, ActiveTransaction
  <2>3. TotalIn[s] \in 0 .. AmountMod - 1 /\ AmountMod \in Nat \ {0} /\ \A u \in Sessions : TotalIn[u] \in Int
    BY ConstantsAssumption
  <2>4. IsFiniteSet(CoversOnTop(s, r)) /\ AmountInOnTop(s, r) = SumOver(TotalIn, CoversOnTop(s, r)) % AmountMod
    <3>1. CASE r = None
      <4>1. IsFiniteSet({}) /\ {} \cup {s} = {s} /\ IsFiniteSet({s})
        BY FS_EmptySet, FS_Singleton
      <4>2. SumOver(TotalIn, {s}) = TotalIn[s] + 0
        BY <2>3, <4>1, SumAdd, SumEmpty
      <4>3. TotalIn[s] % AmountMod = TotalIn[s]
        BY <2>3
      <4> QED
        BY <2>3, <3>1, <4>1, <4>2, <4>3 DEF AmountInOnTop, CoversOnTop
    <3>2. CASE r # None
      <4>1. r \in Sessions /\ seq[r] # 0
        BY <2>1, <3>2 DEF IInv, NumberedOnce, Listed
      <4>2. s \notin covers[r]
        <5>1. seq[s] = 0
          BY <2>2 DEF IInv, NumberedOnce, Unnumbered
        <5> QED
          BY <4>1, <5>1 DEF IInv, CoversSameNumber
      <4>3. IsFiniteSet(covers[r]) /\ amountIn[r] = SumOver(TotalIn, covers[r]) % AmountMod
        BY <4>1 DEF AmountsAddUp
      <4>4. \A u \in covers[r] : TotalIn[u] \in Int
        BY <2>3, <4>1 DEF IInv, TypeOK
      <4>5. IsFiniteSet(covers[r] \cup {s})
        BY <4>3, FS_AddElement
      <4> DEFINE old == SumOver(TotalIn, covers[r])
                 all == SumOver(TotalIn, covers[r] \cup {s})
      <4>6. all = TotalIn[s] + old /\ old \in Int
        BY <2>3, <4>2, <4>3, <4>4, SumAdd, SumInteger
      <4>7. (TotalIn[s] + (old % AmountMod)) % AmountMod = (TotalIn[s] + old) % AmountMod
        <5> HIDE DEF old
        <5> QED
          BY <2>3, <4>6, WrapAdd
      <4>8. (amountIn[r] + TotalIn[s]) = TotalIn[s] + (old % AmountMod)
        <5>1. amountIn[r] \in Int /\ amountIn[r] = old % AmountMod
          BY <4>1, <4>3, ConstantsAssumption DEF IInv, TypeOK, Amounts
        <5> HIDE DEF old
        <5> QED
          BY <2>3, <5>1
      <4>9. AmountInOnTop(s, r) = all % AmountMod
        <5> HIDE DEF old, all
        <5> QED
          BY <3>2, <4>6, <4>7, <4>8 DEF AmountInOnTop
      <4> QED
        BY <3>2, <4>5, <4>9 DEF CoversOnTop
    <3> QED
      BY <3>1, <3>2
  <2>5. ASSUME NEW u \in Sessions
        PROVE  IsFiniteSet(covers'[u]) /\ amountIn'[u] = SumOver(TotalIn, covers'[u]) % AmountMod
    <3> HIDE DEF r
    <3>1. CASE u = s
      BY <2>2, <2>4, <3>1 DEF IInv, TypeOK
    <3>2. CASE u # s
      <4>1. covers'[u] = covers[u] /\ amountIn'[u] = amountIn[u]
        BY <2>2, <3>2 DEF IInv, TypeOK
      <4> QED
        BY <4>1 DEF AmountsAddUp
    <3> QED
      BY <3>1, <3>2
  <2> QED
    BY <2>5 DEF AmountsAddUp
<1>2. CASE UNCHANGED <<covers, amountIn>>
  BY <1>2 DEF AmountsAddUp
<1> QED
  BY <1>1, <1>2, AmountsKept

(* ChargesWhatItCovers holds in every reachable state: whatever was replaced, restarted  *)
(* or flushed in between, what a payer's signature pays is the sum of what the commands  *)
(* of the covered payments asked for, as far as a uint32 holds it.                       *)
THEOREM ChargesItsPayments == Spec => []ChargesWhatItCovers
<1>1. Init => AmountsAddUp
  <2>1. 0 % AmountMod = 0
    BY ConstantsAssumption
  <2> QED
    BY <2>1, FS_EmptySet, SumEmpty DEF Init, AmountsAddUp
<1>2. AmountsAddUp => ChargesWhatItCovers
  BY DEF AmountsAddUp, ChargesWhatItCovers, SumOver
<1> QED
  BY <1>1, <1>2, Inductive, AmountsAddUpStep, PTL DEF Spec

=============================================================================
