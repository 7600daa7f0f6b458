------------------------------ MODULE LocalNode ------------------------------
(***************************************************************************)
(* One receiving gateway node: node/local/node.go over the part of         *)
(* root/root.go that numbers, verifies and submits transactions, and the   *)
(* in-memory payment registry (node/local/paymentregestry).                *)
(*                                                                         *)
(* Every hop of a payment is one Stellar transaction whose SOURCE ACCOUNT  *)
(* is the receiver of the hop, so this node numbers it with its own        *)
(* account sequence, and whose payment operation takes the money from the  *)
(* payer.  A payer keeps at most one unsettled transaction: a new payment  *)
(* of the same payer replaces it by one with the same sequence number that *)
(* charges both.  A flush submits the collected transactions in sequence   *)
(* order.  Request handlers, the autoflush ticker and the HTTP flush run   *)
(* concurrently; an action is the code between two points where another    *)
(* of them can interfere (a mutex, a network call, an unlocked map read).  *)
(*                                                                         *)
(* A transaction is named by the session whose payment created it.         *)
(***************************************************************************)
EXTENDS Integers, FiniteSetsExt

CONSTANTS
  Sessions,           \* payments routed over this node, by ServiceSessionId
  ServiceSessions,    \* those this node provides the service for; it only forwards the others
  Payers,             \* Stellar addresses of the neighbours that pay this node
  PayerOf,            \* the neighbour that pays this node for a session
  TotalIn, TotalOut,  \* amounts of CreateTransactionCommand, by session
  AmountMod,          \* 2^32: TransactionAmount is a uint32
  Flushers,           \* goroutines that call FlushTransactions: ticker, HTTP requests
  FirstSequence,      \* Stellar sequence of this node's account at the start
  WarmStart,          \* whether a settled payment has already set lastSequenceId
  Modes,              \* values of config accumulateTransactions to start from
  OnePaymentAtATime,  \* whether a payer waits for a payment to end before its next
  Faults,             \* what may go wrong at Horizon: "failed", "unreachable", "timeout"
  Expirable,          \* sessions whose transaction may outlive its time bounds
  MaxCrashes,         \* bound on process exits considered
  None                \* absence of a session, a registry entry or a lock holder

ASSUME ConstantsAssumption ==
  /\ None \notin Sessions /\ None \notin Flushers /\ None \notin Int
  /\ ServiceSessions \subseteq Sessions /\ Expirable \subseteq Sessions
  /\ PayerOf \in [Sessions -> Payers]
  /\ AmountMod \in Nat \ {0}
  /\ TotalIn \in [Sessions -> 0 .. AmountMod - 1]
  /\ TotalOut \in [Sessions -> 0 .. AmountMod - 1]
  /\ FirstSequence \in Nat \ {0}
  /\ MaxCrashes \in Nat
  /\ Modes \subseteq BOOLEAN /\ WarmStart \in BOOLEAN /\ OnePaymentAtATime \in BOOLEAN

VARIABLES
  \* Stellar: the account of this node and the transactions it has executed
  accountSeq,      \* sequence number of the account
  applied,         \* transactions whose payment was executed
  late,            \* transactions Horizon may still execute, their submission timed out
  lateBumps,       \* where the bumps lead that timed out and may still be executed
  expired,         \* transactions past their time bounds
  \* rootApi
  lastSequenceId,  \* next sequence provider, 0 while uninitialized
  sequenceMux,     \* session whose handler holds sequenceMux
  \* nodeImpl and paymentRegistry
  accumulating,    \* accumulatingTransactionsMode
  paidByAddress,   \* paidTransactionsByAddress
  paidBySession,   \* keys of paidTransactionsBySessionId
  pending,         \* entriesBySourceAddress: what a session still owes
  \* the handlers of a session: CreateTransaction, then Commit...Transaction
  pc,
  ref,             \* ReferenceTransaction of the session's transaction
  fetched,         \* sequence number read from Horizon, until it is stored
  seq,             \* sequence number of the session's transaction, 0 before it has one
  covers,          \* sessions whose payments the transaction charges (auxiliary)
  amountIn,        \* ReferenceAmountIn, the amount of the payment operation
  amountOut,       \* AmountOut
  \* FlushTransactions
  flushPc,
  todo,            \* transactions the flush has still to submit
  flushMux,        \* flusher that holds flushMux
  overtaken,       \* flushes under which a late execution moved the account (auxiliary)
  crashes          \* process exits so far (bounds the model)

ledger   == <<accountSeq, applied, late, lateBumps, expired>>
numbers  == <<lastSequenceId, sequenceMux>>
registry == <<accumulating, paidByAddress, paidBySession, pending>>
txs      == <<ref, fetched, seq, covers, amountIn, amountOut>>
flushing == <<flushPc, todo, flushMux, overtaken>>
vars     == <<ledger, numbers, registry, pc, txs, flushing, crashes>>

HandlerPc ==
  {"new", "requested", "check", "fetch", "store", "assign", "promote",
   "created", "verified", "reducing", "committed", "failed"}

FlushPc == {"idle", "wait", "bump", "submit", "complete"}

Amounts == 0 .. AmountMod - 1

TypeOK ==
  /\ accountSeq \in Nat /\ applied \subseteq Sessions
  /\ late \subseteq Sessions /\ expired \subseteq Sessions
  /\ lateBumps \subseteq Nat
  /\ lastSequenceId \in Nat /\ sequenceMux \in Sessions \cup {None}
  /\ accumulating \in BOOLEAN
  /\ paidByAddress \in [Payers -> Sessions \cup {None}]
  /\ paidBySession \subseteq Sessions
  /\ pending \in [Sessions -> Amounts \cup {None}]
  /\ pc \in [Sessions -> HandlerPc]
  /\ ref \in [Sessions -> Sessions \cup {None}]
  /\ fetched \in [Sessions -> Nat] /\ seq \in [Sessions -> Nat]
  /\ covers \in [Sessions -> SUBSET Sessions]
  /\ amountIn \in [Sessions -> Amounts] /\ amountOut \in [Sessions -> Amounts]
  /\ flushPc \in [Flushers -> FlushPc] /\ todo \in [Flushers -> SUBSET Sessions]
  /\ flushMux \in Flushers \cup {None} /\ overtaken \subseteq Flushers
  /\ crashes \in Nat

(***************************************************************************)
(* A forwarding node hears of a session only with CreateTransaction; a     *)
(* service node first quotes a price.  WarmStart is the state a settled    *)
(* payment leaves: the allocator agrees with the account.                  *)
(***************************************************************************)
Init ==
  /\ accountSeq = FirstSequence /\ applied = {} /\ late = {} /\ expired = {}
  /\ lateBumps = {}
  /\ lastSequenceId = IF WarmStart THEN FirstSequence ELSE 0
  /\ sequenceMux = None
  /\ accumulating \in Modes
  /\ paidByAddress = [p \in Payers |-> None] /\ paidBySession = {}
  /\ pending = [s \in Sessions |-> None]
  /\ pc = [s \in Sessions |-> IF s \in ServiceSessions THEN "new" ELSE "requested"]
  /\ ref = [s \in Sessions |-> None]
  /\ fetched = [s \in Sessions |-> 0] /\ seq = [s \in Sessions |-> 0]
  /\ covers = [s \in Sessions |-> {}]
  /\ amountIn = [s \in Sessions |-> 0] /\ amountOut = [s \in Sessions |-> 0]
  /\ flushPc = [f \in Flushers |-> "idle"] /\ todo = [f \in Flushers |-> {}]
  /\ flushMux = None /\ overtaken = {}
  /\ crashes = 0

-----------------------------------------------------------------------------
(* The registry *)

\* Memory only: a process starts with an empty registry.
NewRegistry ==
  /\ paidByAddress' = [p \in Payers |-> None] /\ paidBySession' = {}
  /\ pending' = [s \in Sessions |-> None]

\* GetActiveTransaction reads the map without the mutex.
ActiveTransaction(p) == paidByAddress[p]

\* GetActiveTransactions: one transaction per payer.
Active == {paidByAddress[p] : p \in Payers} \ {None}

\* AddServiceUsage and entry.add.
OwedAfterUsage(s) ==
  IF pending[s] = None THEN TotalOut[s] ELSE (pending[s] + TotalOut[s]) % AmountMod

OwedUnwrapped(s) ==
  LET left == pending[s] - amountOut[s]
  IN  IF left = 0 THEN None ELSE left

\* entry.reduce, and the entry is dropped at zero.
OwedAfterPayment(s) ==
  LET left == (pending[s] - amountOut[s]) % AmountMod
  IN  IF left = 0 THEN None ELSE left

\* NewPaymentRequest: a fresh session id and the price recorded under it.
NewPaymentRequestForgets(s) ==
  /\ pc[s] = "new"
  /\ pc' = [pc EXCEPT ![s] = "requested"]
  /\ UNCHANGED <<ledger, numbers, registry, txs, flushing, crashes>>

NewPaymentRequest(s) ==
  /\ pc[s] = "new"
  /\ pending' = [pending EXCEPT ![s] = OwedAfterUsage(s)]
  /\ pc' = [pc EXCEPT ![s] = "requested"]
  /\ UNCHANGED <<ledger, numbers, accumulating, paidByAddress, paidBySession,
                 txs, flushing, crashes>>

-----------------------------------------------------------------------------
(* CreateTransaction *)

Underway == {"check", "fetch", "store", "assign", "promote", "created", "verified", "reducing"}

PayerFree(s) ==
  OnePaymentAtATime =>
    \A u \in Sessions \ {s} : PayerOf[u] = PayerOf[s] => pc[u] \notin Underway

AmountInAlone(s, r) == TotalIn[s]

\* createReferenceTransaction: the new amounts on top of the reference's.
AmountInOnTop(s, r) ==
  IF r = None THEN TotalIn[s] ELSE (amountIn[r] + TotalIn[s]) % AmountMod

AmountOutOnTop(s, r) ==
  IF r = None THEN TotalOut[s] ELSE (amountOut[r] + TotalOut[s]) % AmountMod

CoversOnTop(s, r) == IF r = None THEN {s} ELSE covers[r] \cup {s}

\* createTransactionWrapper.
ReadReference(s) ==
  LET r == ActiveTransaction(PayerOf[s])
  IN  /\ pc[s] = "requested"
      /\ PayerFree(s)
      /\ ref' = [ref EXCEPT ![s] = r]
      /\ covers' = [covers EXCEPT ![s] = CoversOnTop(s, r)]
      /\ amountIn' = [amountIn EXCEPT ![s] = AmountInOnTop(s, r)]
      /\ amountOut' = [amountOut EXCEPT ![s] = AmountOutOnTop(s, r)]
      /\ pc' = [pc EXCEPT ![s] = "check"]
      /\ UNCHANGED <<ledger, numbers, registry, fetched, seq, flushing, crashes>>

\* rootApi.CreateTransaction: is lastSequenceId uninitialized?  Not under sequenceMux.
CheckSequence(s) ==
  /\ pc[s] = "check"
  /\ pc' = [pc EXCEPT ![s] = IF lastSequenceId = 0 THEN "fetch" ELSE "assign"]
  /\ UNCHANGED <<ledger, numbers, registry, txs, flushing, crashes>>

\* createRootApi: the allocator asks Stellar again.
NewRootApi == lastSequenceId' = 0 /\ sequenceMux' = None

FetchSequence(s) ==
  /\ pc[s] = "fetch"
  /\ fetched' = [fetched EXCEPT ![s] = accountSeq]
  /\ pc' = [pc EXCEPT ![s] = "store"]
  /\ UNCHANGED <<ledger, numbers, registry, ref, seq, covers, amountIn, amountOut,
                 flushing, crashes>>

StoreSequence(s) ==
  /\ pc[s] = "store"
  /\ lastSequenceId' = fetched[s]
  /\ fetched' = [fetched EXCEPT ![s] = 0]
  /\ pc' = [pc EXCEPT ![s] = "assign"]
  /\ UNCHANGED <<ledger, sequenceMux, registry, ref, seq, covers, amountIn, amountOut,
                 flushing, crashes>>

ReuseSequenceFresh(s) ==
  /\ pc[s] = "assign" /\ ref[s] # None
  /\ seq' = [seq EXCEPT ![s] = lastSequenceId + 1]
  /\ lastSequenceId' = lastSequenceId + 1
  /\ pc' = [pc EXCEPT ![s] = "created"]
  /\ UNCHANGED <<ledger, sequenceMux, registry, ref, fetched, covers, amountIn, amountOut,
                 flushing, crashes>>

\* With a reference the transaction takes over its sequence number.
ReuseSequence(s) ==
  /\ pc[s] = "assign" /\ ref[s] # None
  /\ seq' = [seq EXCEPT ![s] = seq[ref[s]]]
  /\ pc' = [pc EXCEPT ![s] = "created"]
  /\ UNCHANGED <<ledger, numbers, registry, ref, fetched, covers, amountIn, amountOut,
                 flushing, crashes>>

\* Without one it takes the next number and promotes lastSequenceId, under sequenceMux;
\* StoreSequence of another handler can fall between the two statements.
TakeSequence(s) ==
  /\ pc[s] = "assign" /\ ref[s] = None
  /\ sequenceMux = None
  /\ sequenceMux' = s
  /\ seq' = [seq EXCEPT ![s] = lastSequenceId + 1]
  /\ pc' = [pc EXCEPT ![s] = "promote"]
  /\ UNCHANGED <<ledger, lastSequenceId, registry, ref, fetched, covers, amountIn, amountOut,
                 flushing, crashes>>

PromoteSequenceForgets(s) ==
  /\ pc[s] = "promote"
  /\ sequenceMux' = None
  /\ pc' = [pc EXCEPT ![s] = "created"]
  /\ UNCHANGED <<ledger, lastSequenceId, registry, txs, flushing, crashes>>

PromoteSequence(s) ==
  /\ pc[s] = "promote"
  /\ lastSequenceId' = lastSequenceId + 1
  /\ sequenceMux' = None
  /\ pc' = [pc EXCEPT ![s] = "created"]
  /\ UNCHANGED <<ledger, registry, txs, flushing, crashes>>

\* A Horizon call of the handler fails, or the payer never commits what it was given.
GiveUp(s) ==
  /\ pc[s] \in {"check", "fetch", "created"}
  /\ pc' = [pc EXCEPT ![s] = "failed"]
  /\ UNCHANGED <<ledger, numbers, registry, txs, flushing, crashes>>

\* Time passes: the validity of a created transaction ends.
Expire(s) ==
  /\ s \in Expirable \ expired
  /\ seq[s] # 0
  /\ expired' = expired \cup {s}
  /\ UNCHANGED <<accountSeq, applied, late, lateBumps, numbers, registry, pc, txs,
                 flushing, crashes>>

-----------------------------------------------------------------------------
(* Horizon *)

\* Stellar executes a transaction only with the account's next sequence and in time.
Accepts(s) == seq[s] = accountSeq + 1 /\ s \notin expired

\* The account moves to number n: what was built for a number it has passed is refused now.
Advance(n) ==
  /\ accountSeq' = n
  /\ late' = {s \in late : seq[s] > n}
  /\ lateBumps' = IF n = accountSeq THEN lateBumps ELSE {}

\* The submission succeeds and says so.
Executed(s) ==
  /\ Accepts(s)
  /\ Advance(accountSeq + 1)
  /\ applied' = applied \cup {s}
  /\ UNCHANGED expired

\* The submission returns an error: rejected; executed without the payment (it consumes
\* the sequence); not delivered; or delivered, and the answer lost.
NotExecuted(s) ==
  \/ /\ ~Accepts(s) \/ "unreachable" \in Faults
     /\ UNCHANGED ledger
  \/ /\ Accepts(s) /\ "failed" \in Faults
     /\ Advance(accountSeq + 1)
     /\ UNCHANGED <<applied, expired>>
  \/ /\ seq[s] > accountSeq /\ "timeout" \in Faults
     /\ late' = late \cup {s}
     /\ UNCHANGED <<accountSeq, applied, lateBumps, expired>>

\* While a flush works through its list.
Overtakes ==
  overtaken' = overtaken \cup {f \in Flushers : flushPc[f] \in {"bump", "submit", "complete"}}

\* A submission that timed out is executed after all.
ExecuteLate(s) ==
  /\ s \in late
  /\ Executed(s)
  /\ Overtakes
  /\ UNCHANGED <<numbers, registry, pc, txs, flushPc, todo, flushMux, crashes>>

\* So is a bump that timed out, if the account is still where it was when the bump was built.
ExecuteLateBump ==
  /\ \E n \in lateBumps : Advance(n)
  /\ Overtakes
  /\ UNCHANGED <<applied, expired, numbers, registry, pc, txs, flushPc, todo, flushMux, crashes>>

-----------------------------------------------------------------------------
(* CommitChainTransaction and CommitServiceTransaction *)

\* VerifyTransaction reads the account; the check is over before anything is saved.
VerifyCommit(s) ==
  /\ pc[s] = "created"
  /\ pc' = [pc EXCEPT ![s] = IF seq[s] > accountSeq THEN "verified" ELSE "failed"]
  /\ UNCHANGED <<ledger, numbers, registry, txs, flushing, crashes>>

\* What is left of the commit once commitTransaction returned nil.
AfterCommit(s) == IF s \in ServiceSessions THEN "reducing" ELSE "committed"

\* The registry has it under its payer and its session, changed together under the mutex.
Saved(s) ==
  /\ paidByAddress' = [paidByAddress EXCEPT ![PayerOf[s]] = s]
  /\ paidBySession' = paidBySession \cup {s}

\* Accumulating: the transaction is kept for the flush.
SaveTransaction(s) ==
  /\ pc[s] = "verified" /\ accumulating
  /\ Saved(s)
  /\ pc' = [pc EXCEPT ![s] = AfterCommit(s)]
  /\ UNCHANGED <<ledger, numbers, accumulating, pending, txs, flushing, crashes>>

\* Not accumulating: the transaction is submitted at once.
SubmitAtOnce(s) ==
  /\ pc[s] = "verified" /\ ~accumulating
  /\ \/ Executed(s) /\ pc' = [pc EXCEPT ![s] = AfterCommit(s)]
     \/ NotExecuted(s) /\ pc' = [pc EXCEPT ![s] = "failed"]
  /\ UNCHANGED <<numbers, registry, txs, flushing, crashes>>

\* ReducePendingAmount takes the transaction's whole AmountOut off the session's debt and
\* is an error of the commit when the session is unknown.
ReducePendingAmount(s) ==
  /\ pc[s] = "reducing"
  /\ IF pending[s] = None
     THEN /\ pc' = [pc EXCEPT ![s] = "failed"]
          /\ UNCHANGED pending
     ELSE /\ pc' = [pc EXCEPT ![s] = "committed"]
          /\ pending' = [pending EXCEPT ![s] = OwedAfterPayment(s)]
  /\ UNCHANGED <<ledger, numbers, accumulating, paidByAddress, paidBySession,
                 txs, flushing, crashes>>

-----------------------------------------------------------------------------
(* FlushTransactions *)

\* The transactions that sort first (sort.Slice leaves equal sequences in any order).
First(S) == {s \in S : \A u \in S : seq[s] <= seq[u]}

KeptBeyondNext(S) == {s \in S : seq[s] > accountSeq + 1}

\* RemoveTransactionsIfSequence: what it keeps of the list.
Kept(S) == {s \in S : seq[s] > accountSeq}

FlushReturnKeepsLock(f) ==
  /\ flushPc' = [flushPc EXCEPT ![f] = "idle"]
  /\ todo' = [todo EXCEPT ![f] = {}]
  /\ overtaken' = overtaken \ {f}
  /\ UNCHANGED flushMux

\* return: the deferred unlock, and the list is forgotten.
FlushReturn(f) ==
  /\ flushPc' = [flushPc EXCEPT ![f] = "idle"]
  /\ todo' = [todo EXCEPT ![f] = {}]
  /\ overtaken' = overtaken \ {f}
  /\ flushMux' = IF flushMux = f THEN None ELSE flushMux

\* The snapshot is taken before flushMux; an empty one returns at once.
FlushSnapshot(f) ==
  /\ flushPc[f] = "idle"
  /\ Active # {}
  /\ flushPc' = [flushPc EXCEPT ![f] = "wait"]
  /\ todo' = [todo EXCEPT ![f] = Active]
  /\ UNCHANGED <<ledger, numbers, registry, pc, txs, flushMux, overtaken, crashes>>

FlushFilterUnlocked(f) ==
  /\ flushPc[f] = "wait"
  /\ IF Kept(todo[f]) = {}
     THEN FlushReturn(f)
     ELSE /\ flushMux' = f
          /\ flushPc' = [flushPc EXCEPT ![f] = "bump"]
          /\ todo' = [todo EXCEPT ![f] = Kept(@)]
          /\ UNCHANGED overtaken
  /\ UNCHANGED <<ledger, numbers, registry, pc, txs, crashes>>

\* With flushMux: sort, and drop from the list (not from the registry) what the account
\* has already passed.
FlushFilter(f) ==
  /\ flushPc[f] = "wait"
  /\ flushMux = None
  /\ IF Kept(todo[f]) = {}
     THEN FlushReturn(f)
     ELSE /\ flushMux' = f
          /\ flushPc' = [flushPc EXCEPT ![f] = "bump"]
          /\ todo' = [todo EXCEPT ![f] = Kept(@)]
          /\ UNCHANGED overtaken
  /\ UNCHANGED <<ledger, numbers, registry, pc, txs, crashes>>

\* BumpSequence executed: the account is moved to just before the first transaction.
Bumped(f) ==
  \E s \in First(todo[f]) :
    /\ Advance(IF seq[s] > accountSeq + 1 THEN seq[s] - 1 ELSE accountSeq)
    /\ UNCHANGED <<applied, expired>>

\* It was delivered and the answer lost: executed later, or never.
BumpTimesOut(f) ==
  /\ "timeout" \in Faults
  /\ \E s \in First(todo[f]) :
       /\ seq[s] > accountSeq + 1
       /\ lateBumps' = lateBumps \cup {seq[s] - 1}
  /\ UNCHANGED <<accountSeq, applied, late, expired>>

\* BumpSequenceIfNeed for the first transaction.
FlushBump(f) ==
  /\ flushPc[f] = "bump"
  /\ Bumped(f)
  /\ flushPc' = [flushPc EXCEPT ![f] = "submit"]
  /\ UNCHANGED <<numbers, registry, pc, txs, todo, flushMux, overtaken, crashes>>

\* The flush returns the error of GetAccount or of the bump: Horizon does not answer, a late
\* execution has moved the account since the bump read it, or the bump times out.
FlushFails(f) ==
  /\ \/ /\ \/ flushPc[f] = "wait" /\ flushMux = None /\ "unreachable" \in Faults
           \/ flushPc[f] = "bump" /\ ("unreachable" \in Faults \/ late # {} \/ lateBumps # {})
        /\ UNCHANGED ledger
     \/ flushPc[f] = "bump" /\ BumpTimesOut(f)
  /\ FlushReturn(f)
  /\ UNCHANGED <<numbers, registry, pc, txs, crashes>>

FlushSubmit(f) ==
  /\ flushPc[f] = "submit"
  /\ \E s \in First(todo[f]) : Executed(s)
  /\ flushPc' = [flushPc EXCEPT ![f] = "complete"]
  /\ UNCHANGED <<numbers, registry, pc, txs, todo, flushMux, overtaken, crashes>>

FlushBreakCompletes(f) ==
  /\ flushPc[f] = "submit"
  /\ \E s \in First(todo[f]) :
       /\ NotExecuted(s)
       /\ paidByAddress' = [paidByAddress EXCEPT ![PayerOf[s]] = None]
       /\ paidBySession' = paidBySession \ {s}
  /\ FlushReturn(f)
  /\ UNCHANGED <<accumulating, pending, numbers, pc, txs, crashes>>

\* Any submission error ends the loop; the flush still returns nil.
FlushBreak(f) ==
  /\ flushPc[f] = "submit"
  /\ \E s \in First(todo[f]) : NotExecuted(s)
  /\ FlushReturn(f)
  /\ UNCHANGED <<numbers, registry, pc, txs, crashes>>

\* CompletePayment deletes whatever is now stored for the payer.
FlushComplete(f) ==
  /\ flushPc[f] = "complete"
  /\ \E s \in First(todo[f]) \cap applied :
       /\ paidByAddress' = [paidByAddress EXCEPT ![PayerOf[s]] = None]
       /\ paidBySession' = paidBySession \ {s}
       /\ IF todo[f] = {s}
          THEN FlushReturn(f)
          ELSE /\ flushPc' = [flushPc EXCEPT ![f] = "submit"]
               /\ todo' = [todo EXCEPT ![f] = @ \ {s}]
               /\ UNCHANGED <<flushMux, overtaken>>
  /\ UNCHANGED <<ledger, numbers, accumulating, pending, pc, txs, crashes>>

-----------------------------------------------------------------------------
(***************************************************************************)
(* The process exits (a log.Fatal of the database layer, a concurrent map  *)
(* access, a kill) and systemd restarts it: registry and allocator are     *)
(* memory only, every request in a handler is lost.  What a payer was      *)
(* handed survives with the payer.                                         *)
(***************************************************************************)
Crash ==
  /\ crashes < MaxCrashes
  /\ crashes' = crashes + 1
  /\ NewRootApi /\ NewRegistry
  /\ pc' = [s \in Sessions |-> IF pc[s] \in Underway \ {"created"} THEN "failed" ELSE pc[s]]
  /\ flushPc' = [f \in Flushers |-> "idle"] /\ todo' = [f \in Flushers |-> {}]
  /\ flushMux' = None /\ overtaken' = {}
  /\ UNCHANGED <<ledger, accumulating, txs>>

Handler(s) ==
  \/ NewPaymentRequest(s)
  \/ ReadReference(s) \/ CheckSequence(s) \/ FetchSequence(s) \/ StoreSequence(s)
  \/ ReuseSequence(s) \/ TakeSequence(s) \/ PromoteSequence(s) \/ GiveUp(s)
  \/ VerifyCommit(s) \/ SaveTransaction(s) \/ SubmitAtOnce(s) \/ ReducePendingAmount(s)

Flush(f) ==
  \/ FlushSnapshot(f) \/ FlushFilter(f) \/ FlushBump(f) \/ FlushFails(f)
  \/ FlushSubmit(f) \/ FlushBreak(f) \/ FlushComplete(f)

\* What nobody in the process does.
Outside ==
  \/ \E s \in Sessions : Expire(s) \/ ExecuteLate(s)
  \/ ExecuteLateBump

Next ==
  \/ \E s \in Sessions : Handler(s)
  \/ \E f \in Flushers : Flush(f)
  \/ Outside
  \/ Crash

Spec == Init /\ [][Next]_vars

(***************************************************************************)
(* The ticker and repeated HTTP requests keep flushing and a running       *)
(* goroutine proceeds; a mutex is granted to every waiter in the end (Go's *)
(* starvation mode), hence SF on taking flushMux.  Horizon may fail any    *)
(* call but not every call of a kind, whichever flush makes it: SF on the  *)
(* bump and on the submission it would accept.  Payers and request         *)
(* handlers owe nothing, and what timed out need never be executed.        *)
(***************************************************************************)
FlushFairness ==
  /\ \A f \in Flushers : WF_vars(Flush(f)) /\ SF_vars(FlushFilter(f))
  /\ SF_vars(\E f \in Flushers : FlushBump(f))
  /\ SF_vars(\E f \in Flushers : FlushSubmit(f))

FairSpec == Spec /\ FlushFairness

-----------------------------------------------------------------------------
(* Properties *)

\* The payment of s has left the payer's account.
Charged(s) == \E u \in applied : s \in covers[u]

\* The stored transaction of s can still be executed.
Live(s) == s \in Active /\ seq[s] > accountSeq /\ s \notin expired

(* No payment is charged twice: two executed transactions never cover the same session,  *)
(* however replacements (createReferenceTransaction), flushes, late executions and       *)
(* restarts interleave.                                                                  *)
NoDoubleCharge ==
  \A s, u \in applied : s # u => covers[s] \cap covers[u] = {}

(* The payment operation of a transaction takes exactly the amounts of the sessions it   *)
(* covers, as uint32 arithmetic adds them: what accumulates in ReferenceAmountIn over a  *)
(* chain of replacements is the sum of the commands' TotalIn.                            *)
ChargesWhatItCovers ==
  \A s \in Sessions :
    covers[s] # {} =>
      amountIn[s] = MapThenSumSet(LAMBDA u : TotalIn[u], covers[s]) % AmountMod

(* Transactions of different payers never compete for a sequence number: the allocation  *)
(* in rootApi.CreateTransaction keeps them apart once lastSequenceId is initialized.     *)
PayersNeverShareSequence ==
  \A s, u \in Sessions :
    seq[s] # 0 /\ seq[s] = seq[u] => PayerOf[s] = PayerOf[u]

(* The list a flush works through goes stale under it only by a late execution: flushMux  *)
(* keeps other flushes away, so what is next to submit is still ahead of the account      *)
(* unless a submission or a bump that timed out was executed since the list was filtered. *)
FlushNeverSubmitsStale ==
  \A f \in Flushers \ overtaken :
    flushPc[f] = "submit" => \A s \in todo[f] : seq[s] > accountSeq

(* A payer told that its commit failed is not charged for it: no stored and no executed  *)
(* transaction covers the session (CommitServiceTransaction can still fail after it has  *)
(* saved the transaction, when ReducePendingAmount does not know the session).           *)
FailedPaymentNotCharged ==
  \A s \in Sessions : pc[s] = "failed" => \A u \in Active \cup applied : s \notin covers[u]

(* A stored transaction that can still be executed leaves the registry only for one of   *)
(* the same payer that covers at least its payments, or once they are all charged:       *)
(* SaveTransaction overwrites and CompletePayment deletes by payer address alone.        *)
LiveNeverDropped ==
  [][\A p \in Payers :
       LET s == paidByAddress[p] IN
       s # None /\ seq[s] > accountSeq =>
         \/ paidByAddress'[p] # None /\ covers[s] \subseteq covers'[paidByAddress'[p]]
         \/ \A u \in covers[s] : Charged(u)']_vars

\* A version of the transaction of s has been executed: they share the sequence number.
Settled(s) == \E u \in applied : seq[u] = seq[s]

\* A bump that timed out can still move the account past the transaction of s.
BumpAhead(s) == \E n \in lateBumps : n >= seq[s]

(* What is stored when no flush is under way and no bump that timed out can pass it       *)
(* settles: repeated flushes get past submissions that time out and gaps left by          *)
(* abandoned transactions.  No part can be dropped: a payment that replaces a transaction *)
(* a flush is just submitting is lost with the stale version (Settled, not Charged), and  *)
(* the bump of a flush, in time or late, passes what was saved after its snapshot with a  *)
(* lower number.                                                                          *)
LivePaymentsSettle ==
  \A s \in Sessions :
    (Live(s) /\ ~BumpAhead(s) /\ \A f \in Flushers : flushPc[f] = "idle") ~> Settled(s)

(* No flush waits forever: flushMux is released on every path of FlushTransactions.      *)
FlushReturns == \A f \in Flushers : []<>(flushPc[f] = "idle")

(* HTTP flush answers "Transactions committed" when FlushTransactions returns nil        *)
(* (controllers/httpUtilityController.go:56): all it took from the registry is executed. *)
CommittedMeansExecuted ==
  [][\A f \in Flushers :
       flushPc[f] \in {"submit", "complete"} /\ flushPc'[f] = "idle" /\ crashes' = crashes
         => todo[f] \subseteq applied']_vars

(* TestIncorrectTransactionsAreDiscardedByFlush                                          *)
(* (tests/integration_single_node_test.go:396): a transaction past its time bounds does  *)
(* not keep the flush from charging the good ones behind it.                             *)
ExpiredNeverBlocks ==
  \A s \in Sessions :
    (Live(s) /\ \E u \in Active \cap expired : seq[u] < seq[s]) ~> Charged(s)

=============================================================================
