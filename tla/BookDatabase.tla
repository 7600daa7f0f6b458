---------------------------- MODULE BookDatabase ----------------------------
(***************************************************************************)
(* The book of a gateway: quotes (and transactions) are written to an      *)
(* SQLite file before the registry remembers them, and a history request   *)
(* sums them up in bins.  The file is shared through one handle, that is   *)
(* closed when the process has started; each history request opens one     *)
(* more, which takes the place of the one before, and closes whichever is  *)
(* there when it ends (sqlite/database.go, node/local/node.go).            *)
(*                                                                         *)
(* A handle has the name of the history request that opened it.  Time is   *)
(* in seconds, of which Step are the hours of a bin.  The years from Go's  *)
(* zero time to the epoch leave the Offset of a request when divided by    *)
(* the hours it asks for: none for 1, 2, 3, 4, 6, 8, 12, 16, 24 and 48.    *)
(*                                                                         *)
(* A date is written, and compared, as text of the local time, whose       *)
(* fraction of a second comes before its zone.  At the second Back the     *)
(* local clocks are set back by Shift.  Edge are the dates whose text      *)
(* comes after that of the full second they are in: in UTC none, as "Z"    *)
(* comes after ".", elsewhere those with a fraction.                       *)
(***************************************************************************)
EXTENDS Integers, FiniteSetsExt

CONSTANTS
  Inserts,    \* quotes and transactions to write
  Amount,     \* of a quote
  Histories,  \* requests to /book/history
  Bins, Step,
  Offset,     \* of a request
  Back, Shift,
  Edge,       \* inserts with a date as said above
  Slips,      \* inserts whose julianday, a float, is less than their full second
  Startup,    \* the handle that init has closed again
  Faults,     \* what may fail: "prepare", "commit", "read"
  MaxTime, MaxExits,  \* bounds on the clock and on the process exits considered
  None        \* no date, no writer

ASSUME BookAssumption ==
  /\ Amount \in [Inserts -> Nat]
  /\ Bins \in Nat \ {0} /\ Step \in Nat \ {0} /\ Offset \in [Histories -> 0..Step - 1]
  /\ Back \in Nat /\ Shift \in Nat /\ Edge \cup Slips \subseteq Inserts
  /\ Startup \notin Histories /\ None \notin Inserts /\ None \notin Nat
  /\ MaxTime \in Nat /\ MaxExits \in Nat

VARIABLES
  now,
  handle,      \* liteDb.db
  openHandles,
  book,        \* the file: the date of a row
  insert,      \* where AddServiceUsage or SaveTransaction is
  date,        \* of an insert
  writer,      \* who has the write lock of the file
  remembered,  \* by the registry, in memory
  swallowed,   \* inserts whose error went to the empty LogError
  history,     \* where GetBookHistory is
  from,        \* the start of a request's bins
  answer,      \* what the query gave, when, and res.Err() after it
  refused,     \* requests whose query failed
  seen,        \* the book when a request started (auxiliary)
  started,     \* the time then (auxiliary)
  overlapped,  \* requests that were not alone (auxiliary)
  exits        \* process exits so far

inserting == <<insert, date, writer, remembered, swallowed>>
reading   == <<history, from, answer, refused, seen, started, overlapped>>
vars      == <<now, handle, openHandles, book, inserting, reading, exits>>

Time == 0..MaxTime
Rows == {i \in Inserts : book[i] # None}
UnderWay == {h \in Histories : history[h] \in {"open", "queried"}}

TypeOK ==
  /\ now \in Time /\ exits \in 0..MaxExits
  /\ handle \in Histories \cup {Startup} /\ openHandles \subseteq Histories
  /\ {book, date} \subseteq [Inserts -> Time \cup {None}]
  /\ insert \in [Inserts -> {"new", "begun", "written", "committed", "failed", "done", "lost"}]
  /\ writer \in Inserts \cup {None} /\ (writer # None => insert[writer] = "written")
  /\ remembered \subseteq Inserts /\ swallowed \subseteq Inserts
  /\ history \in [Histories -> {"new", "open", "queried", "closed", "lost"}]
  /\ from \in [Histories -> Int] /\ seen \in [Histories -> SUBSET Inserts]
  /\ started \in [Histories -> Time] /\ overlapped \subseteq Histories
  /\ refused \subseteq Histories
  /\ DOMAIN answer = Histories /\ \A h \in Histories : answer[h].at \in Time /\ answer[h].err \in BOOLEAN

Init ==
  /\ now = 0
  /\ handle = Startup /\ openHandles = {}
  /\ book = [i \in Inserts |-> None] /\ date = book
  /\ insert = [i \in Inserts |-> "new"]
  /\ writer = None /\ remembered = {} /\ swallowed = {}
  /\ history = [h \in Histories |-> "new"]
  /\ from = [h \in Histories |-> 0] /\ started = from
  /\ answer = [h \in Histories |-> [items |-> <<>>, at |-> 0, err |-> FALSE]] /\ refused = {}
  /\ seen = [h \in Histories |-> {}] /\ overlapped = {}
  /\ exits = 0

Tick ==
  /\ now < MaxTime /\ now' = now + 1
  /\ UNCHANGED <<handle, openHandles, book, inserting, reading, exits>>

\* log.Fatal in insert i, and the next process: the file is what is left.
Exit(i) ==
  /\ exits < MaxExits /\ exits' = exits + 1
  /\ handle' = Startup /\ openHandles' = {}
  /\ insert' = [j \in Inserts |-> IF j # i /\ insert[j] \in {"new", "done"} THEN insert[j] ELSE "lost"]
  /\ writer' = None /\ remembered' = {}
  /\ history' = [h \in Histories |-> IF h \in UnderWay THEN "lost" ELSE history[h]]
  /\ UNCHANGED <<now, book, date, swallowed, from, answer, refused, seen, started, overlapped>>

-----------------------------------------------------------------------------
(* InsertPaymentRequest, InsertTransaction *)

\* The transaction lives on a connection of its own, that outlives the handle.
Begin(i) ==
  /\ insert[i] = "new" /\ handle \in openHandles
  /\ insert' = [insert EXCEPT ![i] = "begun"]
  /\ date' = [date EXCEPT ![i] = now]
  /\ UNCHANGED <<now, handle, openHandles, book, writer, remembered, swallowed, reading, exits>>

\* "sql: database is closed".
BeginFails(i) ==
  /\ insert[i] = "new" /\ handle \notin openHandles
  /\ Exit(i)

PrepareFails(i) ==
  /\ insert[i] = "begun" /\ "prepare" \in Faults
  /\ Exit(i)

Exec(i) ==
  /\ insert[i] = "begun" /\ writer = None
  /\ writer' = i
  /\ insert' = [insert EXCEPT ![i] = "written"]
  /\ UNCHANGED <<now, handle, openHandles, book, date, remembered, swallowed, reading, exits>>

\* "database is locked": another insert has been writing for too long.
ExecFails(i) ==
  /\ insert[i] = "begun" /\ writer # None
  /\ insert' = [insert EXCEPT ![i] = "failed"]
  /\ swallowed' = swallowed \cup {i}
  /\ UNCHANGED <<now, handle, openHandles, book, date, writer, remembered, reading, exits>>

Commit(i) ==
  /\ insert[i] = "written"
  /\ book' = [book EXCEPT ![i] = date[i]]
  /\ writer' = None
  /\ insert' = [insert EXCEPT ![i] = "committed"]
  /\ UNCHANGED <<now, handle, openHandles, date, remembered, swallowed, reading, exits>>

CommitFailsOpen(i) ==
  /\ insert[i] = "written" /\ "commit" \in Faults /\ UnderWay # {}
  /\ insert' = [insert EXCEPT ![i] = "failed"]
  /\ swallowed' = swallowed \cup {i}
  /\ UNCHANGED <<now, handle, openHandles, book, date, writer, remembered, reading, exits>>

\* A history request has been reading for too long; the driver rolls back.
CommitFails(i) ==
  /\ insert[i] = "written" /\ "commit" \in Faults /\ UnderWay # {}
  /\ writer' = None
  /\ insert' = [insert EXCEPT ![i] = "failed"]
  /\ swallowed' = swallowed \cup {i}
  /\ UNCHANGED <<now, handle, openHandles, book, date, remembered, reading, exits>>

RememberFirst(i) ==
  /\ insert[i] \in {"begun", "committed", "failed"}
  /\ remembered' = remembered \cup {i}
  /\ insert' = [insert EXCEPT ![i] = IF @ = "begun" THEN @ ELSE "done"]
  /\ UNCHANGED <<now, handle, openHandles, book, date, writer, swallowed, reading, exits>>

\* The registry in memory takes it whether it was written or not.
Remember(i) ==
  /\ insert[i] \in {"committed", "failed"}
  /\ remembered' = remembered \cup {i}
  /\ insert' = [insert EXCEPT ![i] = "done"]
  /\ UNCHANGED <<now, handle, openHandles, book, date, writer, swallowed, reading, exits>>

-----------------------------------------------------------------------------
(* GetBookHistory *)

\* The end of the step that t is in, counted from Go's zero time.
Till(h, t) == ((t + Offset[h]) \div Step) * Step - Offset[h] + Step

FromOneMore(h, t) == Till(h, t) - Step * (Bins + 1)

From(h, t) == Till(h, t) - Step * Bins

OpenKeeps(h) ==
  /\ history[h] = "new"
  /\ handle' = IF handle = Startup THEN h ELSE handle
  /\ openHandles' = openHandles \cup (IF handle = Startup THEN {h} ELSE {})
  /\ history' = [history EXCEPT ![h] = "open"]
  /\ from' = [from EXCEPT ![h] = From(h, now)]
  /\ seen' = [seen EXCEPT ![h] = Rows] /\ started' = [started EXCEPT ![h] = now]
  /\ overlapped' = overlapped \cup UnderWay \cup (IF UnderWay = {} THEN {} ELSE {h})
  /\ UNCHANGED <<now, book, inserting, answer, refused, exits>>

Open(h) ==
  /\ history[h] = "new"
  /\ handle' = h /\ openHandles' = openHandles \cup {h}
  /\ history' = [history EXCEPT ![h] = "open"]
  /\ from' = [from EXCEPT ![h] = From(h, now)]
  /\ seen' = [seen EXCEPT ![h] = Rows] /\ started' = [started EXCEPT ![h] = now]
  /\ overlapped' = overlapped \cup UnderWay \cup (IF UnderWay = {} THEN {} ELSE {h})
  /\ UNCHANGED <<now, book, inserting, answer, refused, exits>>

\* The second that (julianday(Date) - 2440587.5) * 86400.0 is cut to, in steps of the epoch.
Bucket(i) == (IF i \in Slips THEN book[i] - 1 ELSE book[i]) \div Step

\* GROUP BY: the volume of each bucket.
Items(rows) ==
  [k \in {Bucket(i) : i \in rows} |->
     MapThenSumSet(LAMBDA i : Amount[i], {i \in rows : Bucket(i) = k})]

Local(t) == IF t < Back THEN t ELSE t - Shift

InWindowLate(start) ==
  {i \in Rows : Local(book[i]) > Local(start) + Step /\ Local(book[i]) <= Local(now)}

\* WHERE Date > start AND Date <= now, as text
InWindow(start) ==
  {i \in Rows :
     /\ Local(book[i]) > Local(start) \/ (i \in Edge /\ Local(book[i]) = Local(start))
     /\ Local(book[i]) <= Local(now)}

\* res.Next() is false at the end and at an error, which nobody looks at.
Scanned(items) ==
  {items} \cup {[k \in {j \in DOMAIN items : j < last} |-> items[k]] :
                  last \in IF "read" \in Faults THEN DOMAIN items ELSE {}}

\* On the handle that is there by now.
Query(h) ==
  /\ history[h] = "open"
  /\ IF handle \in openHandles
     THEN /\ \E items \in Scanned(Items(InWindow(from[h]))) :
               answer' = [answer EXCEPT ![h] =
                 [items |-> items, at |-> now, err |-> items # Items(InWindow(from[h]))]]
          /\ UNCHANGED refused
     ELSE refused' = refused \cup {h} /\ UNCHANGED answer
  /\ history' = [history EXCEPT ![h] = "queried"]
  /\ UNCHANGED <<now, handle, openHandles, book, inserting, from, seen, started, overlapped, exits>>

\* Closes the handle that is there by now.
Close(h) ==
  /\ history[h] = "queried"
  /\ openHandles' = openHandles \ {handle}
  /\ history' = [history EXCEPT ![h] = "closed"]
  /\ UNCHANGED <<now, handle, book, inserting, from, answer, refused, seen, started, overlapped, exits>>

-----------------------------------------------------------------------------
Next ==
  \/ Tick
  \/ \E i \in Inserts :
       \/ Begin(i) \/ BeginFails(i) \/ PrepareFails(i) \/ Exec(i) \/ ExecFails(i)
       \/ Commit(i) \/ CommitFails(i) \/ Remember(i)
  \/ \E h \in Histories : Open(h) \/ Query(h) \/ Close(h)

Spec == Init /\ [][Next]_vars

-----------------------------------------------------------------------------
(* Properties *)

Volume(items) == MapThenSumSet(LAMBDA k : items[k], DOMAIN items)

Total(rows) == MapThenSumSet(LAMBDA i : Amount[i], rows)

Queried == {h \in Histories : history[h] \in {"queried", "closed"}}

Answered == Queried \ refused

(* Whatever the registry remembers is in the book, unless the error of its insert was    *)
(* swallowed: memory is never ahead of the file (paymentRegestryWithDatabase.go:31-45).  *)
RememberedIsBooked == remembered \subseteq Rows \cup swallowed

(* Only a history request that overlapped another one fails with "database is closed",   *)
(* and only such a one leaves a handle open behind it: whoever is alone reads through the *)
(* handle it opened and closes it.  The handle in use is the one that was opened last,    *)
(* closed by who ends first (sqlite/database.go:60-75).                                   *)
TroubleOnlyByOverlap ==
  LET failed == Queried \cap refused
      leaked == openHandles \ UnderWay
  IN failed \cup leaked \subseteq overlapped

\* Clocks were not set back between the start of a request's window, or so shortly before it
\* that the hour is told twice, and its query.
Steady(h) == answer[h].at < Back \/ Back + Shift <= from[h]

(* A history has every row of the last Bins steps that was in the book when the request  *)
(* started, whichever handle it read through, and no row twice; less only if clocks were *)
(* set back in between or the reading broke off, which the caller is not told.  A row    *)
(* of the very second at which the first step begins may be left out (Date > from).      *)
HistoryComplete ==
  \A h \in Answered :
    LET first  == ((started[h] + Offset[h]) \div Step - Bins + 1) * Step - Offset[h]
        recent == {i \in seen[h] : book[i] > first}
    IN /\ Volume(answer[h].items) <= Total(Rows)
       /\ Steady(h) /\ ~answer[h].err => Volume(answer[h].items) >= Total(recent)

(* A history has Bins items at most, and one more where the steps of the query, counted  *)
(* from the epoch, are not those of the window, counted from Go's zero time (5, 7, 9 or  *)
(* 168 hours), or a row of the window's first second slips out of it.  Clocks are steady *)
(* and no new step begins while it is made.  All quotes are of one asset.                *)
AtMostBins ==
  \A h \in Answered :
    LET aligned == Offset[h] = 0 /\ Edge \cap Slips = {}
        step(t) == (t + Offset[h]) \div Step
    IN Steady(h) /\ step(answer[h].at) = step(started[h]) =>
         Cardinality(DOMAIN answer[h].items) <= IF aligned THEN Bins ELSE Bins + 1

=============================================================================
