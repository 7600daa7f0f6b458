# TLA+ models of the PaidPiper payment gateway

The gateway (`src/PaymentGateway`, Go) pays for Tor traffic and other commodities with
Stellar micropayments over a chain of gateways. This directory holds models of its core,
the TLC configurations that check them on small instances, and theorems that TLAPS proves
for every instance. Paths below are relative to `src/PaymentGateway`.

To check a model: `tlc -config chain.cfg MCPaymentChain.tla`. To check the proofs:
`tlapm PaymentChainProofs.tla`.

## 1. The system

### How a payment goes

1. The buyer's client asks the service's gateway for a quote (`NewPaymentRequest`): a
   session id, a price, and a debt recorded under the session.
2. The buyer's gateway gets the request (`ProcessPayment`), asks Tor for a route, and makes
   a `paymentManager` for the session with one proxy per node of the route.
3. It walks the route backwards. Every node creates the Stellar transaction of the hop on
   which *it* is paid (`CreateTransaction`), on top of the unsettled transaction it may have
   from the same payer already: the new one takes over the old one's sequence number and
   charges both. Then every node signs its credit and its debit, the buyer's gateway signs
   last, compares amounts, and commits the hops, the service's first.
4. A node with `accumulateTransactions` stores the committed transaction in its memory,
   one for each payer. A flush (ticker, or HTTP request) submits what is stored to Stellar.

The unusual decision is that the **source account of a hop's transaction is the receiver**.
It numbers the transactions with its own account's sequence; two versions of one promise
carry the same number, so that Stellar executes one of them at most. That is what keeps a
payer from being charged twice, and most of the models are about it.

### Components

| Component | State | Operations | Talks to |
|---|---|---|---|
| Local node (`node/local/node.go`) | mode, `flushMux`, ticker | `NewPaymentRequest`, `CreateTransaction`, `Sign...`, `Commit...`, `FlushTransactions`, `ProcessPayment`, `ProcessCommand`, `ProcessResponse`, `ValidatePayment`, book queries | root API, registry, payment managers, database |
| Root API (`root/root.go`) | `lastSequenceId`, `sequenceMux` | `CreateTransaction` (allocates the number), `VerifyTransaction`, `Sign`, `RemoveTransactionsIfSequence`, `BumpSequenceIfNeed`, submission | Horizon |
| Payment registry (`node/local/paymentregestry`) | `paidTransactionsByAddress`, `paidTransactionsBySessionId`, pending debts, a mutex | `AddServiceUsage`, `ReducePendingAmount`, `SaveTransaction`, `CompletePayment`, reads | - |
| Service client (`client/client.go`) | none of its own; transactions and fees of the run | `InitiatePayment`, `VerifyTransactions`, `FinalizePayment` | nodes, by `NodeManager` |
| Payment managers (`regestry`) | managers by session; nodes of a route; status callbacks | `Has`/`New`/`Set`/`Get`, `Run` (sync, async), `ProcessResponse` | Tor client, service client, HTTP callbacks |
| Node proxy (`node/proxy`) | channels by command id, a mutex | `processCommand`, `ProcessResponse` | Tor gateway over HTTP |
| Debt manager (`paymentmanager`) | debts by peer, sessions of a debt, a channel of ten messages | `RequirePayment`, `RegisterReceivedBytes`, messages of peers, payment status | peers, a gateway over HTTP |
| Commodities (`commodity`) | price table | price of a quantity | - |
| Book database (`paymentregestry/database`) | SQLite handle | insert and select of requests and transactions | file |
| Resolver, HTTP controllers, Tor client, wiring, tools | a DNS cache; otherwise none | one call each | - |

### Hard behaviours

* **Concurrency.** HTTP handlers, the ticker and flush requests run at once. The registry's
  reads take no lock; the allocator tests `lastSequenceId` outside `sequenceMux`; the
  reference of a new transaction is read long before the transaction is saved; a flush works
  on a snapshot taken before it has `flushMux`.
* **Failure.** Horizon may refuse, fail, or execute later what it seemed not to get. A flush
  ends at the first failure. A commit fails in the middle of a chain. `log.Fatal` ends the
  process from many places, with registry and allocator in memory only.
* **Order.** An answer can come before the POST that caused it has returned, or twice, or
  too late. Transactions can only be executed in the order of their numbers.
* **Arithmetic.** Amounts are `uint32` and accumulate; the payer compares them as 32-bit
  floats.

`PROJECT.json` lists these at their lines under `hazards`, with the property that covers
each, or the reason why none does.

### What makes each component correct

* Node, root API, registry: nobody is charged twice for a session, whatever is replaced,
  flushed, executed late or lost; a transaction takes exactly what it covers; nothing that
  can still be executed is dropped; a failed payment is not charged; payers do not share
  numbers; what is stored settles; flushes return.
* Service client: hops are settled from the service back; nothing is committed without both
  signatures; payer and nodes arrive at the same amounts; every node keeps its fee; a
  replacement replaces.
* Node proxy: a command gets its own answer, and gets it.
* Payment managers: one run for each session; answers find the run that waits for them;
  whoever was accepted is told the end.
* Debt manager: every byte is charged once; an honest request does not bring a buyer down;
  nobody pays for what did not come; the event loop does not wait for itself; a paid debt is
  settled.
* Book: memory is not ahead of the file; requests get in each other's way only when they overlap;
  a history is complete and no longer than asked for. Resolver: a lookup does not go back behind
  what was confirmed. Start: who serves is qualified to.

## 2. Modules

| Module | What it is |
|---|---|
| `LocalNode` | one receiving node with its part of the root API and the registry; Horizon and Stellar as its environment |
| `LocalNodeProofs` | type correctness and all of its safety properties |
| `MCLocalNode` | its instances |
| `HopSettlement` | what a payment over a chain promises, abstractly |
| `PaymentChain` | the service client's protocol over a route of any length, concurrent payments |
| `PaymentChainProofs` | type correctness, signatures, numbers, amounts and fees, and that `PaymentChain` implements `HopSettlement` |
| `MCPaymentChain` | its instance |
| `CommandClient` | the proxy's command client, its channel store and the path of an answer |
| `CommandClientProofs` | type correctness, own answers, late answers |
| `MCCommandClient` | its instance |
| `PaymentSessions`, `MCPaymentSessions`, `PaymentSessionsProofs` | `ProcessPayment` and `ProcessCommand` of one process: table of managers, routes, status callbacks, exits |
| `Commodity` | the conversions between quantities and prices |
| `DebtManager`, `MCDebtManager`, `DebtManagerProofs` | peers that charge each other, with their event loops; extends `Commodity` |
| `BookDatabase`, `MCBookDatabase`, `BookDatabaseProofs` | the book and its shared handle |
| `ServiceNode`, `MCServiceNode`, `ServiceNodeProofs` | start and restart of the process, and the resolver it serves |
| `AmountLemmas` | remainders and sums over finite sets, for the proofs |

Definitions whose name ends in a deviation (`ReuseSequenceFresh`, `OnTopAlone`,
`FlushFilterUnlocked`, ...) are the plausible bugs that the properties are tested against:
each stands before the definition it deviates from and is used nowhere else.

### LocalNode and the code

A transaction is named by the session that created it. The ghost `covers` holds the
sessions its amount stands for; the code has only the sum. State: `accountSeq`, `applied`,
`late`, `lateBumps`, `expired` are Stellar's; `lastSequenceId`, `sequenceMux` the root API's;
`paidByAddress`, `paidBySession`, `pending` the registry's; `pc`, `ref`, `fetched`, `seq`,
`amountIn`, `amountOut` belong to a session's handlers; `flushPc`, `todo`, `flushMux` to
the flushes. An action is the code between two points where another goroutine can interfere:

* `CreateTransaction` is `ReadReference` (unlocked map read), `CheckSequence` (unlocked),
  `FetchSequence` and `StoreSequence` (Horizon between test and store), then `ReuseSequence`
  or `TakeSequence`/`PromoteSequence` (under the mutex, yet `StoreSequence` of another
  handler fits between the two statements).
* A commit is `VerifyCommit`, then `SaveTransaction` or `SubmitAtOnce` by mode, then for a
  service `ReducePendingAmount`.
* `FlushTransactions` is `FlushSnapshot`, `FlushFilter`, `FlushBump`, and per transaction
  `FlushSubmit`/`FlushBreak` and `FlushComplete`; `FlushFails` is its early returns, a
  `BumpSequence` that times out among them.
* `Crash` is the end of the process and its restart by systemd: registry, allocator and
  handlers are gone, and a transaction the payer already holds (`created`) may still be
  committed to the new process.

Stellar executes a transaction with the account's next number, in its time bounds
(`Accepts`); the submission's four ways to fail are in `NotExecuted`. `Expire` is the
passage of time. What timed out may be executed at any later moment that the account's number
still allows, or never: a payment by `ExecuteLate`, a bump by `ExecuteLateBump`, each built for
the number the account had then (`Advance` drops what is passed). A bump that comes late burns
the numbers of all that was saved since. `overtaken` are the flushes under which that happened.

### PaymentChain and the code

Hop `h` is paid by node `h - 1` to node `h`. A run walks `at` from `Length` to 1 three times:
`CreateTransaction` (one turn of `createTransactions`), `SignService`/`SignChain`/ `SignInitial`,
and `Commit`. `Abort` is a failing call at any point, and `Commit` may succeed with its answer
lost. The nodes are called directly, as the gateway calls its own and the tests call theirs. A
remote one is called over HTTP, and there the code does two things that are not in this model:
`processCommand` does not look at the status, so that the JSON body of a 409 counts as a success
if the Tor gateway hands it on (`node/proxy/commandClient.go:154-183`; here every failed call
aborts), and the called node decodes every command as a `CreateTransactionCommand` (see
PaymentSessions). The nodes' side is reduced to what they have stored (`stored`) and lose by
`Flush`; the full node is `LocalNode`. A transaction's number is named by the payment it was
allocated for, which is all that `Validate` looks at. A node of `OtherNumber` may number a
replacement afresh, and one of `BadSigner` may sign with another key, as the `RogueNode` of the
tests does (`tests/rogue_node.go`). Nobody looks at the signatures before the node of the hop
does, at the commit (`SignaturesVerified`): a commit may then be refused when hops behind it are
committed.

### CommandClient and the code

`Open`, `Posted`, `Receive`, `Close` are the steps of `processCommand` with its deferred
close; `Refuse`, `Accept`, `Block`, `Unblock` the outcomes of an answer's
`ProcessResponse`. The store sends to a channel of capacity two with its mutex held; that is
`Block`. The Tor gateway, which passes commands on, is external: it decides whether a POST
brings the answer, nothing, or a body of its own. `Routed` says whether the payment manager
finds the answering node: `FALSE` is what the code does, `TRUE` is the contract between the
store and the client, which is worth checking on its own.

`AnsweredReturns` has an exception, `Overflowed`, for a hang that the code has: a handler of one
answer too many sleeps in the send with the mutex that `close` needs. It takes a third answer
before a POST that fails or brings a body, or a fourth one before the channel is closed. The
instance contains both; the property says that nothing less gets a command stuck.

### PaymentSessions and the code

`Check`, `NewWithRoute` or `NewByTor`, `Register` are the steps of `ProcessPayment` between
which another request can act; `Pay`, `Tell`/`TellFails`, `Finish` those of the payment's
goroutine, or of the handler when `asyncMode` is off. `Exit` is any `log.Fatal`: table and
goroutines are gone.

`DecodeFails`, `Receive`, `Handle`, `HandleFails` are `HttpProcessCommand` and `ProcessCommand`.
Decoding is not the identity: `CommandType_Command` (`models/utilityCommand.go:42-57`) gives a
`CreateTransactionCommand` for every known type, so that commands to sign and to commit run
`CreateTransaction`, and `UnmarshalJSON` (`:117-137`) drops the `CallbackUrl`. The goroutine of
`node/local/node.go:518-532` with its callback is therefore never started, and is not modelled.
A body or a type that cannot be decoded ends the process.

### DebtManager and the code

A message carries the block that made the seller ask for a payment; that block also names
the session. `Receive` and `RequirePayment` are the senders into the bounded channel,
`Turn` the loop's next message, one action for each handler of `handlers.go` and `models.go`.
`HandleInitiate` leaves the loop in the POST of `ProcessPayment` (`awaiting`), which
`PaymentPosted` ends and which opens the session. The gateway of a peer is external: it
takes a payment, sends commands and statuses to the callback server, once each.
`clienthandler.go:68-74` passes on neither the payment request nor a status callback (the
TODO there), so that `PaymentSessions` cannot take the gateway's place; the model has the
gateway do what the messages are there for. One command stands for all of a payment.

`AsyncMode` is whether the gateway answers that POST at once. The repository has it as the
constant `false` (`config/config.go:81`, `:133`, `:148`): then the POST returns when the payment
is over, and `loop_waits` shows that it never is. `debts` has it `TRUE`, to check everything
that lies behind that point.

`Commodity` states the conversions in integers. That `uint32(UnitPrice * float64(n))` and
its inverse are what it says has been compared for all 2^32 arguments of both prices.

### BookDatabase and the code

`Begin`, `Exec`, `Commit` and the failing forms are the statements of `InsertPaymentRequest`
and `InsertTransaction`, `Remember` what the registry does after them; `Open`, `Query`,
`Close` are a history request. `handle` is the one field they share, `openHandles` what was
opened and not closed. An insert begun on an open handle keeps its connection.

The window and the bins are what the SQL makes of them (`sqlite/paymentrequest.go:89-137`,
`sqlite/util.go`), with seconds for time:

* Dates are compared as text of the local time (`Local`, `InWindow`). At the second `Back` the
  clocks go back by `Shift`, and text order differs from time order. In the window's very first
  second the zone is compared with the fraction of a second: the dates of `Edge` count, others
  do not. Within the second of the query the order of fractions is taken to be that of the
  text (in UTC `.3Z` would come after `.35Z`).
* A row's group is its `julianday`, a float, cut to seconds and divided by the step (`Bucket`).
  SQLite cuts a date to milliseconds, so that the float can fall short of a full second but
  not reach the next one; those of `Slips` fall short.
* Go counts steps from the year 1, the query from 1970. `Offset` is what the distance,
  17 259 888 hours, leaves when divided by the hours of a request: nothing for 1, 2, 3, 4, 6, 8, 12,
  16, 24 and 48 hours, something for 5, 7, 9, 10, 11 hours or a week.
* `res.Next()` also ends at an error that nobody looks at (`Scanned`): `err` remembers it.

### ServiceNode and the code

`stage` is how far `main` has come: `initialize` (read the account, or have friendbot fund
it), `ValidateForPPNode` (balance, then signer weight), the balance once more, the node, the
server. Every call of Horizon may fail. All failures end the process, and systemd starts the
next one, but two: the balance that `ValidateForPPNode` cannot read (`BalanceUnread`), and a
port that is taken (`PortTaken`), which is logged by a process that stays, serves nothing and
is not restarted. The account only improves while the process starts; what becomes of it
later is not looked at again, in the code as in the model.

The resolver's `SetupResolving`, `Lock`, `Answered`, `Associate`/`ResolveFails` are one
request, that holds the lock while DNS is asked; `DoResolve` needs it to read. A lookup uses
the name as it comes although set-ups trim the port, so that names with a port are never
found.

## 3. Runs

| Run | Instance | Shows |
|---|---|---|
| `node_restart` | cold start, 3 sessions of 2 payers, both modes, submissions that fail or time out, bumps that time out, an expiring transaction, one restart, concurrent payments of one payer, one flusher; 1.05 million states | `TypeOK`, `NoDoubleCharge`, `ChargesWhatItCovers` |
| `node_steady` | initialized allocator, one payment at a time per payer, accumulating, Horizon unreachable, submissions and bumps that time out and are executed late, two flushers, fairness; 74 500 states | `PayersNeverShareSequence`, `FlushNeverSubmitsStale`, `FailedPaymentNotCharged`, `LiveNeverDropped`, `FlushReturns`, `LivePaymentsSettle` |
| `flush_reports_committed` | submissions that fail, one flusher | `CommittedMeansExecuted` is **violated** |
| `expired_blocks_flush` | fairness, no faults, an expiring transaction | `ExpiredNeverBlocks` is **violated** |
| `chain` | 3 hops, two concurrent payments and one the payer cannot afford, fees 2, 1, 0, amounts mod 9, a renumbering node, one that signs with another key; 28 000 states | `TypeOK`, `SignedByBoth`, `PaidIsSigned`, `PayerAgrees`, `NodesKeepFee`, `ReplacesByNumber`, and `SettlesFromService`: it implements `HopSettlement` |
| `command_answers` | one command answered four times, one once, one in the body of its POST, every POST may fail or bring a body of its own; 24 700 states | `TypeOK`, `OwnAnswer`, `AnsweredReturns`, `OverIsOver` |
| `answers_undelivered` | the same with the routing table as the code fills it | `AnsweredReturns` is **violated** |
| `sessions` | one session requested twice, with a route and over Tor; a command; sync and async, every fault, one exit; 34 900 states | `TypeOK`, `SecondRunOnlyByRace`, `AnswersFindTheRun`, `AcceptedIsTold` |
| `debts` | a seller, a buyer, three blocks of 2, 3, 3 bytes, threshold 3, two bytes for one unit of the price, channels of one message, gateways in `asyncMode`, failing payments and gateways; 80 500 states | `TypeOK`, `TransferAccounted`, `HonestRequestAccepted`, `PaidForReceived`, `StatusLostOnlyByRace`, `PaidIsSettled` |
| `loop_waits` | the same, without `asyncMode` and without faults | `LoopReturns` is **violated** |
| `books` | two inserts, two history requests of one bin of two seconds, one aligned with the groups of the query and one not, a row in the window's first second and one that slips, clocks set back, locks, failing statements and readings, one exit; 2.9 million states | `TypeOK`, `RememberedIsBooked`, `TroubleOnlyByOverlap`, `HistoryComplete`, `AtMostBins` |
| `service` | any account, any failing call, one crash; two set-ups of a name and one without a name, two lookups, two versions of the records; 48 300 states | `ServesQualified`, `AnswersNotOlder`, `LookupReturns` |

**Bounds.** Two payers, one of which pays twice, is the least that has a replacement and a
competitor for its number; the amounts are such that no two sets of sessions have one sum and
that sums wrap at `AmountMod` = 8 (2^32 in the code). One restart is enough to have old promises
meet a new allocator. Capped are only the process exits (`MaxCrashes`, `MaxExits`) and the clock
of `books`; numbers are bounded by the sessions. Three hops have a service, a node that both
receives and pays, and a payer's hop; `Balance` = 5 refuses the third payment, and `ExactBelow` =
8 has amounts the float comparison cannot tell apart. Prices and fees are such that a payment
that replaces another is committed on all hops, or on some of them on top of references of
different age, with its amounts wrapped. With a third affordable payment there are also amounts
that wrap on one hop alone and are refused; prices 1, 3, 6, fees 2, 2, 0, amounts mod 13 and
`Balance` = 6 pass as well, with 3.7 million states. Three answers are one more than the channel
takes, four are one more than it takes with one received. Two requests for one session are a race
or a repetition. In `debts` the smallest block stays below the threshold alone and rounds to a
price, and three requests may overlap; one place in the channel is full at once. In `books` a bin
ends within the clock, which is set back once a bin of each request has ended, and two history
requests are the least that overlap. In `service` a second set-up is what can be overtaken.
Symmetry is not used: most runs check temporal formulas, and the sessions differ.
`CHECK_DEADLOCK` is off throughout since payments end.

**Restrictions that are claims about use.** `PayersNeverShareSequence` and
`LiveNeverDropped` are checked with `WarmStart` and one payment per payer at a time. The one
does not hold without the first, as two handlers of a cold process fetch the same number, nor
the other without the second, as two concurrent payments of a payer read the same reference
and the second save replaces the first. `NoDoubleCharge` needs neither, and `node_restart`
checks it without both. `node_steady` is accumulating, as the constant in `config/config.go:83`
has it; the mode that submits at once is in `node_restart`, and for `FailedPaymentNotCharged`
in the theorem alone. A transaction that is executed without its payment ("failed") and one that
expires are in `node_restart`, `flush_reports_committed` and `expired_blocks_flush`: with them
flushes do not settle what is stored, as the latter two show.

`StatusLostOnlyByRace`, `SecondRunOnlyByRace` and `TroubleOnlyByOverlap` say that a known
weakness of the code has no second way in: a status reported before the POST is answered, two
requests between `Has` and `Set`, two history requests at a time. `TransferAccounted`,
`HonestRequestAccepted` and `PaidForReceived` are about counters that have not wrapped around
(`Word` = 16 is above the eight bytes of the instance; 2^32 in the code). `PaidIsSettled` says
something of a gateway in `asyncMode` only: without it no payment ends (`loop_waits`). Blocks go
one way in `debts`, so that two loops that fill each other's channels are not exercised.

`HistoryComplete` promises nothing below the total of the rows if the reading broke off, which
the caller cannot see, or if clocks were set back between the start of the window (or up to
`Shift` before it) and the query (`Steady`). `AtMostBins` has one item more where `Offset` is not 0
or a row of the first second slips, and speaks of histories made within one step. Neither is true
of the code with less: without `Steady`, without `err`, or with `Bins` alone for every `Offset`,
TLC finds counterexamples. `AnswersNotOlder` leaves out names with a port, `ServesQualified` a start
whose balance could not be read; it says what was checked at the start, not what the account
is worth later.

**Fairness.** `LocalNode`: flushes repeat (ticker, requests) and running goroutines proceed (WF).
Taking `flushMux` is SF: a Go mutex hands over to a waiter that has starved for a millisecond.
Bump and submission are SF, of whichever flush: Horizon may fail any call, and every call of one
flush, but not every bump or every submission for ever. What timed out need never be executed:
neither `ExecuteLate` nor `ExecuteLateBump` is fair. Payers and handlers owe nothing.
`CommandClient`: POSTs return, runnable goroutines run; nobody owes a command or an answer.
`PaymentSessions`: started handlers and goroutines go on (WF). `DebtManager`: loops run, POSTs
are answered, the network delivers, gateways call back (WF); nobody has to send or to pay.
`ServiceNode`: the HTTP client has a timeout (WF of answer or failure), and a `sync.RWMutex` lets
waiting readers and the waiting writer in in turn (SF).

**The form of `LivePaymentsSettle`** records three things found while stating it. It promises
that *some* version with the number of the stored transaction is executed, not that the
stored one is: a payment that replaces what a flush is just submitting is lost when the
flush completes (`node/local/node.go:440-447`, the TODO there). It starts from states with no
flush under way: the bump of a running flush (`node/local/node.go:414`, `:433`) passes
transactions that were saved after its snapshot with a lower number. And it starts from states
in which no bump that timed out leads to the transaction's number or beyond (`BumpAhead`): such
a bump may be executed when its flush has long returned (`root/root.go:662`), and then it burns
the numbers of all payments that were saved since.

### Disagreements found

1. `flush_reports_committed`: HTTP answers "Transactions committed" when
   `FlushTransactions` returns nil, which it also does after a failed submission.
2. `expired_blocks_flush`: `TestIncorrectTransactionsAreDiscardedByFlush` wants the good
   transaction behind an expired one to be charged; the flush breaks at the expired one, keeps
   it, and meets it first every time.
3. `answers_undelivered`: `temp/requests.txt:41` has `/api/gateway/processResponse` deliver
   an answer to the waiting command; `nodesByNodeId` is never filled, the answer is refused
   and the command waits for ever.
4. `loop_waits`: the event loop of the debt manager is not to do "anything likely to block"
   (`paymentmanager/paymentmanager.go:75-76`); it waits for the POST that starts a payment, which
   with `asyncMode` false returns when the payment is over, and the payment waits for a reply that
   only this loop hands on.

## 4. Theorems

Every safety property of the passing runs is proved, for any number of sessions, payers,
flushers, hops, commands, peers, inserts, set-ups, and any width of amounts. The assumptions
are the modules' `ASSUME`s on their constants (TLC evaluates them in the passing runs), and
hypotheses of single theorems, which are of two kinds:

| Hypothesis | Theorems | Why |
|---|---|---|
| `WarmStart`: the account's number is known | `PayersKeptApart`, `FlushStaysAhead` | a cold allocator is set outside `sequenceMux`, and two payers can get one number |
| `MaxCrashes = 0`: this process does not exit | `PayersKeptApart`, `FlushStaysAhead`, `FailedNotCharged`, `LiveStaysStored` | registry and allocator are in memory only |
| no `"timeout"` in `Faults`, or only the accumulating mode | `FailedNotCharged` | Horizon may execute what it did not answer for; an accumulating node has told the payer already |
| `OnePaymentAtATime` | `LiveStaysStored` | of two payments on one reference the second save replaces the first |
| finitely many `Blocks`, `Inserts` | `BytesAreAccounted`, `HonestAreAccepted`, `PaymentsAreForReceived`, `HistoriesComplete`, `HistoriesFit` | sums over all of them; a process handles finitely many |
| `Threshold + SizeOf[b] <= Word`, and what two peers exchange is below `Word` | the same three of `DebtManager` (the first alone for `BytesAreAccounted`) | the counters are `uint32` and wrap around silently |

The first four are met by the runs that check the properties (section 3), and none can be
dropped: `node_steady` with any of them changed (and one flusher, and both modes for
`FailedPaymentNotCharged`) gives a counterexample, which is a behaviour of the code.

**AmountLemmas.** The models add up with `MapThenSumSet`, which picks the order of the terms,
and the lemmas have to hold whatever it picks. They say that a sum over a finite set can be
taken from any term (`SumRemove`, `SumAdd`, `SumUnion`), depends on the terms alone
(`SumSame`) and grows with set and terms (`SumMonotone`). That
is induction on finite sets, which the library's theorems offer only for operators;
`SubsetInduction` has it for a set of sets instead, from the well-foundedness of strict
inclusion, and so can be cited. `WrapAdd` and `WrapTakeBack` are addition and subtraction
modulo the word.

**LocalNodeProofs.** `NeverDoubleCharged`: `NoDoubleCharge` is not inductive, as it says
nothing of what is stored or on its way. The argument is the design of section 1.
`NumberedOnce`: a handler's place tells whether its transaction has a number.
`CoversReference`: a transaction covers its own session and what its reference covers, and
the reference has a number. `CoversSameNumber`: all transactions that cover a session carry
one number. `ExecutedInOrder`: what is executed has a number the account has passed, and no
two executed transactions have the same. So two executed transactions that cover one session
would have one number, which `ExecutedInOrder` excludes. Neither the allocator nor any lock is
used: `NoDoubleCharge` does not depend on numbers being given out once, only on replacements
keeping them. TLC has also checked the invariant in the two safety instances.

On these four rest the others. `PayersKeptApart`: what the registry knows, and what is taken
as a reference, is of the payer it is filed under and has its number for good
(`RegistryByPayer`); a number given out is at most `lastSequenceId`, except the one that is
being promoted under the mutex (`AllocatorSteady`); so a number is shared only along
references, within one payer. `FlushStaysAhead`: `flushMux` keeps other flushes from the
account and a list has one transaction for each payer (`FlushesApart`), so with
`PayersKeptApart` an execution leaves the rest of the list ahead (`ListAhead`), and whatever is
executed late marks the flushes under which it moves the account. This one needs no
`OnePaymentAtATime`, which the run has. `FailedNotCharged`: only a transaction whose commit
succeeds gets to registry or ledger, hence only such a one is ever covered by another
(`CommitsStick`); it too goes beyond its run. `LiveStaysStored`: what is stored for a payer
that is paying is what its payment replaces, or was completed (`ReplacesStored`), and what a
flush has on its list is stored, perhaps in a newer version (`ListStored`), so that completing
by address deletes nothing that can still be executed. `ChargesItsPayments`: an amount is the sum of
what its sessions ask, modulo the word; a replacement adds its own to a set that does not have
its session yet, since all of a reference's sessions have numbers (`AmountsAddUp`).

**PaymentChainProofs.** `CommitsAreSigned`, `PaidAreSigned`, `SettlementRefined`: the
invariant is `TypeOK`, `Position` (where `at` is at each stage, and that the committed hops
are those behind it), `SignedBehind` (what the signing walk has passed is signed, by
receiver and, one hop on, by payer), `SignedByBoth`, and `CommittedSigned`: a committed hop
has been through its node's check and so carries both signatures, whoever else signed badly.
For the refinement, `settled` is `committed` and `outcome` the stage of a run that is over;
`Commit` is `Settle`, a failing step is `GiveUp`, everything else stutters.

What the payer compares could change under it, as payments run side by side. It does not:
a reference is always a committed transaction (`References`), and whoever is committing creates
nothing any more. So the numbers compared before the commits stay the same
(`NumbersCompared`, for `ReplacementsShareNumber`), and so do the amounts below a transaction.
`FeesAgree` follows the walk: the last transaction created takes `Price` and `totalFee` on top
of its reference, and each hop adds the fee of its node to what the hop behind it adds, modulo
the word. At the first hop the one is `PayerAgreesWithNodes`, the other `FeesAreKept`.

**CommandClientProofs.** `TypeCorrect`, `AnswersNeverCross`, `LateAnswersRefused`. The
invariant has a channel exactly for a command that runs (`OpenWhileRunning`), ties the mutex
to the one handler that sends (`SenderHoldsMutex`) and has only a command's own answers in
its channel (`OwnChannel`).

**PaymentSessionsProofs.** `TypeCorrect`, `PaidTwiceOnlyByRace`, `RunsAreFound`. That a
session was run twice says nothing of how a third run could start. `TableKeeps` does: once a
session has been paid for, the table of this process has an entry for it, so that `Has`
refuses whoever comes later. `PastHasIsOvertaken` keeps account of those who are past `Has`
by then, and `RegisteredHere` ties what runs to the process it runs in.

**DebtManagerProofs.** `StatusesReachTheirSession` rests on `TakenIsKnown`: a payment that a
gateway has taken is still being posted, or its session is open at the buyer; nothing else of
the loops or the channels matters. `QuoteNeverOverstates` is about `Commodity`: a quantity,
priced and converted back, is at most itself, and the word does not cut it.

`TypeCorrect` follows messages through the loops: every channel is a sequence of messages,
every queue within its capacity. `BytesAreAccounted`: a block that is to be charged waits once
in its sender's queue and has no request before it is taken off (`Bills`), after which its bytes
are in the counter or in a request (`Accounted`); the counter starts below the threshold, so
a block does not wrap it.

`HonestAreAccepted` and `PaymentsAreForReceived` share an argument about order, `Way`. What
is on its way from a seller to a buyer is one queue in two parts, the buyer's channel and behind
it the wire. Each of the model's steps adds one message at its end, takes one off its front, or
leaves the order as it is (`Gains`, `Loses`, `Keeps`). A block is sent before it is charged, so a
request has in front of it, or behind the buyer already, at least the bytes that it and all
earlier requests are for (`Covered`); when it arrives, the buyer has
received them (`Arrivals`, `Due`). With `QuoteNeverOverstates`, no rounding turns that into a
request for more than was received. The buyer's counter is that sum only while it does not
wrap: hence the bound on what two peers exchange.

**BookDatabaseProofs.** `TypeCorrect`, `MemoryBehindBook`, `AloneIsSound`. `InsertsAccounted`
follows an insert to the book or to the swallowed error. For the handle: requests that are
under way together have all been marked (`TogetherOverlap`), one that is not marked has the
handle it opened (`AloneHasHandle`), and a query fails only after it is made (`RefusedLate`).

`HistoriesComplete` and `HistoriesFit` are about what a query computes. Grouped rows add up to
what they add up to ungrouped, because every row is in one group (`ItemsAddUp`), and a reading
that breaks off has some of the items (`ScannedPart`). Where clocks are steady, the order of local
times is that of time (`LocalOrder`), so that the rows of the window are those after its start
and, of its first second, at most those of `Edge` (`WindowRows`). Their groups are the `Bins` of
the window, and the one before where steps are not aligned or a row slips (`WindowBuckets`,
`FewBuckets`). A row is written once with a date that is past (`WrittenOnce`, `Dated`), and a
request keeps the start it computed (`Windows`), so what was there when it came is in the answer
whatever other requests do to the handle meanwhile. The theorems hold for every `Offset`.

**ServiceNodeProofs.** `OnlyQualifiedServe` from `CheckedSoFar`, what each stage has found out
of the account. `LookupsNeverGoBack`: the set-up that asks DNS holds the lock (`LockHeld`), so
the answer it brings is as new as anything cached (`AnswerIsNewest`); the cache is never
behind what was confirmed nor ahead of the records (`CacheBetween`), nor behind what a
waiting lookup was promised (`FloorCached`).

**Model-checked only.** What needs fairness: `LivePaymentsSettle`, `FlushReturns`,
`AnsweredReturns`, `AcceptedIsTold`, `PaidIsSettled`, `LookupReturns`. TLAPS does not reason
about `WF`/`SF` and `ENABLED`. The properties of the four runs that expect a violation are false,
and TLC's counterexample is all there is to show of them.

## 5. Not modelled

* `PaymentSessions` is not composed with `DebtManager`: `clienthandler.go:68-74` forwards
  neither the payment request nor the status callback, so that in the code the two do not
  connect. The callback server does not start either (`httpppconnection.go:24`).
* `ValidatePayment`, balances and the other HTTP handlers decode, read and encode.
* An insert on a handle that is closed ends the process (`TestInsert` of
  `database_test.go` would); it is a hazard, and a failing step of `BookDatabase`.
* A chain whose nodes are called over HTTP: `processCommand` ignores the HTTP status, which
  matters with a Tor gateway that passes bodies of errors on (it is not in the repository), and
  the called node runs `CreateTransaction` for every command, so that such a chain is never
  signed. `PaymentChain` has direct calls, `PaymentSessions` the decoding.
* `callbacker.go`: no command that was decoded has a `CallbackUrl`.
* Configuration, tracing, generated code, load generator, consoles, creation of assets: no
  protocol of their own.

`PROJECT.json` has the components with their status.

## 6. Plan

Done: the node, the chain, the proxy, payment sessions, debts and prices, the book, start and
resolver; for each its types or the invariant it needs, and the safety properties named above.

Theorems: every safety property that a passing run checks.

Next:

1. What the liveness properties rest on and TLAPS can say: that no reachable state of a
   flush, a loop or a command is stuck (a step exists that continues it, as a formula without
   `ENABLED`), and that every step towards the end makes progress by a measure.
2. `FlushStaysAhead` and `LiveStaysStored` across restarts, with what a restart may lose named
   in the statement.
3. An abstract ledger that `LocalNode` implements, as `HopSettlement` is for `PaymentChain`:
   per payer what was promised and what was charged, with replacement as one step.
