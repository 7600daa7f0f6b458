------------------------ MODULE PaymentSessionsProofs ------------------------
(***************************************************************************)
(* Theorems about PaymentSessions: its types, when a session is paid for   *)
(* twice, and that answers find the payment that waits for them.           *)
(***************************************************************************)
EXTENDS PaymentSessions, TLAPS

\* A payment is registered in the process it runs in, and in no other.
RegisteredHere ==
  \A r \in Requests :
    /\ pc[r] \in {"new", "checked", "made"} => life[r] = None
    /\ pc[r] \in {"running", "telling"} => life[r] = exits
    /\ life[r] # None => life[r] <= exits

\* While the process lives, its table has an entry of its own for a session once paid for.
TableKeeps ==
  \A r \in Requests :
    life[r] = exits =>
      LET m == managers[SessionOf[r]]
      IN m \in Requests /\ SessionOf[m] = SessionOf[r] /\ life[m] = exits

\* Who is past Has although its session is paid for was there before the payer registered.
PastHasIsOvertaken ==
  \A r, u \in Requests :
    /\ r # u /\ SessionOf[r] = SessionOf[u]
    /\ pc[r] \in {"checked", "made"} /\ life[u] = exits
    => r \in overtaken[u]

IInv == TypeOK /\ RegisteredHere /\ TableKeeps /\ PastHasIsOvertaken /\ SecondRunOnlyByRace

-----------------------------------------------------------------------------

LEMMA NoneIsNoCount == None \notin Nat
  BY ConstantsAssumption

LEMMA SessionsInit == ASSUME Init PROVE IInv
<1> USE ConstantsAssumption, NoneIsNoCount DEF Init
<1>1. TypeOK
  BY DEF TypeOK
<1>2. RegisteredHere /\ TableKeeps /\ PastHasIsOvertaken /\ SecondRunOnlyByRace
  BY DEF RegisteredHere, TableKeeps, PastHasIsOvertaken, SecondRunOnlyByRace
<1> QED
  BY <1>1, <1>2 DEF IInv

-----------------------------------------------------------------------------
(* Types *)

LEMMA RefuseTypeOK == ASSUME TypeOK, NEW r \in Requests, Refuse(r) PROVE TypeOK'
  BY DEF Refuse, TypeOK, calls

LEMMA ExitTypeOK == ASSUME TypeOK, Exit PROVE TypeOK'
  BY DEF Exit, TypeOK, PaymentUnderway, CommandUnderway

LEMMA WatchersAreListed ==
  ASSUME NEW r \in Requests
  PROVE  OwnWatcher(r) \in Seq(Watchers) /\ OwnWatcher(r) \o TorWatcher \in Seq(Watchers)
<1>1. <<>> \in Seq(Watchers) /\ <<"client">> \in Seq(Watchers) /\ <<"tor">> \in Seq(Watchers)
  BY DEF Watchers
<1>2. OwnWatcher(r) \in Seq(Watchers) /\ TorWatcher \in Seq(Watchers)
  BY <1>1 DEF OwnWatcher, TorWatcher
<1> QED
  BY <1>2

LEMMA MakeTypeOK ==
  ASSUME TypeOK, NEW r \in Requests, NEW route, NEW watchers \in Seq(Watchers),
         Make(r, route, watchers)
  PROVE  TypeOK'
<1>1. CASE Refuse(r)
  BY <1>1, RefuseTypeOK
<1>2. CASE ~Refuse(r)
  BY <1>2 DEF Make, TypeOK, calls, PaymentUnderway
<1> QED
  BY <1>1, <1>2

LEMMA PaymentTypeOK == ASSUME TypeOK, NEW r \in Requests, Payment(r) PROVE TypeOK'
<1>1. CASE Check(r)
  <2>1. CASE Has(SessionOf[r])
    BY <1>1, <2>1, RefuseTypeOK DEF Check
  <2>2. CASE ~Has(SessionOf[r])
    BY <1>1, <2>2 DEF Check, TypeOK, calls, PaymentUnderway
  <2> QED
    BY <2>1, <2>2
<1>2. CASE NewWithRoute(r)
  BY <1>2, MakeTypeOK, WatchersAreListed DEF NewWithRoute
<1>3. CASE NewByTor(r)
  BY <1>3, MakeTypeOK, RefuseTypeOK, WatchersAreListed DEF NewByTor
<1>4. CASE Register(r)
  <2>1. SessionOf[r] \in Sessions
    BY ConstantsAssumption
  <2> QED
    BY <1>4, <2>1 DEF Register, TypeOK, calls, PaymentUnderway
<1>5. CASE Accept(r)
  BY <1>5 DEF Accept, TypeOK, calls
<1>6. CASE \E result \in {"paid", "failed"} : Pay(r, result)
  BY <1>6 DEF Pay, TypeOK, calls, PaymentUnderway
<1>7. CASE Tell(r) \/ TellFails(r)
  <2>1. Tail(toTell[r]) \in Seq(Watchers)
    BY <1>7 DEF Tell, TellFails, TypeOK
  <2>2. Head(toTell[r]) \in Watchers
    BY <1>7 DEF Tell, TellFails, TypeOK
  <2>3. CASE Tell(r)
    BY <2>1, <2>2, <2>3 DEF Tell, TypeOK, calls
  <2>4. CASE TellFails(r)
    BY <2>1, <2>4 DEF TellFails, TypeOK, calls
  <2> QED
    BY <1>7, <2>3, <2>4
<1>8. CASE Finish(r)
  <2>1. FinalAnswer(r) \in {"accepted", "completed", "error", None}
    BY DEF FinalAnswer, TypeOK
  <2> QED
    BY <1>8, <2>1 DEF Finish, TypeOK, calls
<1>9. CASE FinishFatally(r)
  BY <1>9, ExitTypeOK DEF FinishFatally
<1> QED
  BY <1>1, <1>2, <1>3, <1>4, <1>5, <1>6, <1>7, <1>8, <1>9 DEF Payment

LEMMA CommandedTypeOK == ASSUME TypeOK, NEW c \in Commands, Commanded(c) PROVE TypeOK'
<1>1. CASE Exit
  BY <1>1, ExitTypeOK
<1>2. CASE ~Exit
  BY <1>2 DEF Commanded, DecodeFails, Receive, Handle, HandleFails, TypeOK,
              payments, CommandUnderway
<1> QED
  BY <1>1, <1>2

-----------------------------------------------------------------------------
(* Registrations *)

SessionsInv == RegisteredHere /\ TableKeeps /\ PastHasIsOvertaken /\ SecondRunOnlyByRace

(* A step that registers nobody and lets nobody past Has. *)
LEMMA QuietStep ==
  ASSUME TypeOK, SessionsInv, NEW r \in Requests, UNCHANGED <<managers, life, overtaken, exits>>,
         \A u \in Requests \ {r} : pc'[u] = pc[u],
         \/ pc'[r] = pc[r]
         \/ pc'[r] \in {"refused", "over"}
         \/ pc'[r] = "made" /\ pc[r] = "checked"
         \/ pc'[r] = "telling" /\ pc[r] = "running"
  PROVE  SessionsInv'
<1>1. RegisteredHere'
  BY DEF SessionsInv, RegisteredHere
<1>2. TableKeeps'
  BY DEF SessionsInv, TableKeeps
<1>3. PastHasIsOvertaken'
  BY DEF SessionsInv, PastHasIsOvertaken
<1>4. SecondRunOnlyByRace'
  BY DEF SessionsInv, SecondRunOnlyByRace, Raced
<1> QED
  BY <1>1, <1>2, <1>3, <1>4 DEF SessionsInv

(* No request of the process before is past Has, or registered, in the next one. *)
LEMMA ExitSessions == ASSUME TypeOK, SessionsInv, Exit PROVE SessionsInv'
<1>1. exits \in Nat /\ exits' = exits + 1 /\ UNCHANGED <<life, overtaken>>
  BY DEF Exit, TypeOK
<1>2. \A r \in Requests : pc'[r] \notin {"checked", "made", "running", "telling"}
                          /\ (pc'[r] = "new" => pc[r] = "new")
  BY DEF Exit, TypeOK, PaymentUnderway
<1>3. \A r \in Requests : life[r] # exits + 1
  BY <1>1, NoneIsNoCount DEF SessionsInv, RegisteredHere, TypeOK
<1>4. \A r \in Requests : life[r] # None => life[r] <= exits + 1
  BY <1>1 DEF SessionsInv, RegisteredHere, TypeOK
<1>5. RegisteredHere'
  BY <1>1, <1>2, <1>4 DEF SessionsInv, RegisteredHere
<1>6. TableKeeps' /\ PastHasIsOvertaken'
  BY <1>1, <1>2, <1>3 DEF TableKeeps, PastHasIsOvertaken
<1>7. SecondRunOnlyByRace'
  BY <1>1 DEF SessionsInv, SecondRunOnlyByRace, Raced
<1> QED
  BY <1>5, <1>6, <1>7 DEF SessionsInv

(* Who gets past Has finds no entry, so nobody has registered for the session before. *)
LEMMA CheckSessions == ASSUME TypeOK, SessionsInv, NEW r \in Requests, Check(r) PROVE SessionsInv'
<1>1. CASE Has(SessionOf[r])
  BY <1>1, QuietStep DEF Check, Refuse, TypeOK
<1>2. CASE ~Has(SessionOf[r])
  <2>1. pc' = [pc EXCEPT ![r] = "checked"] /\ UNCHANGED <<managers, life, overtaken, exits>>
        /\ pc[r] = "new"
    BY <1>2 DEF Check
  <2>2. RegisteredHere'
    BY <2>1 DEF SessionsInv, RegisteredHere, TypeOK
  <2>3. TableKeeps'
    BY <2>1 DEF SessionsInv, TableKeeps
  <2>4. \A u \in Requests : SessionOf[u] = SessionOf[r] => life[u] # exits
    BY <1>2, ConstantsAssumption DEF Has, SessionsInv, TableKeeps
  <2>5. PastHasIsOvertaken'
    BY <2>1, <2>4 DEF SessionsInv, PastHasIsOvertaken, TypeOK
  <2>6. SecondRunOnlyByRace'
    BY <2>1 DEF SessionsInv, SecondRunOnlyByRace, Raced
  <2> QED
    BY <2>2, <2>3, <2>5, <2>6 DEF SessionsInv
<1> QED
  BY <1>1, <1>2

(* Who registers marks those past Has, and has been marked by those who have registered. *)
LEMMA RegisterSessions ==
  ASSUME TypeOK, SessionsInv, NEW r \in Requests, Register(r) PROVE SessionsInv'
<1> USE DEF Register
<1>1. SessionOf[r] \in Sessions /\ exits \in Nat /\ exits # None
  BY ConstantsAssumption, NoneIsNoCount DEF TypeOK
<1>2. life' = [life EXCEPT ![r] = exits] /\ life[r] = None /\ exits' = exits
  BY DEF SessionsInv, RegisteredHere
<1>3. RegisteredHere'
  BY <1>1, <1>2 DEF SessionsInv, RegisteredHere, TypeOK
<1>4. TableKeeps'
  <2> SUFFICES ASSUME NEW u \in Requests, life'[u] = exits
               PROVE  LET m == managers'[SessionOf[u]]
                      IN m \in Requests /\ SessionOf[m] = SessionOf[u] /\ life'[m] = exits
    BY <1>2 DEF TableKeeps
  <2>1. SessionOf[u] \in Sessions
    BY ConstantsAssumption
  <2>2. CASE SessionOf[u] = SessionOf[r]
    BY <1>1, <1>2, <2>2 DEF TypeOK
  <2>3. CASE SessionOf[u] # SessionOf[r]
    BY <1>1, <1>2, <2>1, <2>3 DEF SessionsInv, TableKeeps, TypeOK
  <2> QED
    BY <2>2, <2>3
<1>5. PastHasIsOvertaken'
  <2> SUFFICES ASSUME NEW t \in Requests, NEW u \in Requests, t # u,
                      SessionOf[t] = SessionOf[u], pc'[t] \in {"checked", "made"},
                      life'[u] = exits
               PROVE  t \in overtaken'[u]
    BY <1>2 DEF PastHasIsOvertaken
  <2>1. t # r /\ pc'[t] = pc[t]
    BY DEF TypeOK
  <2>2. CASE u = r
    BY <2>1, <2>2 DEF TypeOK
  <2>3. CASE u # r
    BY <1>2, <2>1, <2>3 DEF SessionsInv, PastHasIsOvertaken, TypeOK
  <2> QED
    BY <2>2, <2>3
<1>6. SecondRunOnlyByRace'
  <2> SUFFICES ASSUME NEW t \in Requests, NEW u \in Requests, t # u,
                      SessionOf[t] = SessionOf[u], life'[t] # None, life'[t] = life'[u]
               PROVE  u \in overtaken'[t] \/ t \in overtaken'[u]
    BY DEF SecondRunOnlyByRace, Raced
  <2>1. CASE t = r
    BY <1>1, <1>2, <2>1 DEF SessionsInv, PastHasIsOvertaken, TypeOK
  <2>2. CASE u = r
    BY <1>1, <1>2, <2>2 DEF SessionsInv, PastHasIsOvertaken, TypeOK
  <2>3. CASE t # r /\ u # r
    BY <1>2, <2>3 DEF SessionsInv, SecondRunOnlyByRace, Raced, TypeOK
  <2> QED
    BY <2>1, <2>2, <2>3
<1> QED
  BY <1>3, <1>4, <1>5, <1>6 DEF SessionsInv

LEMMA PaymentSessionsStep ==
  ASSUME TypeOK, SessionsInv, NEW r \in Requests, Payment(r) PROVE SessionsInv'
<1>1. CASE Check(r)
  BY <1>1, CheckSessions
<1>2. CASE Register(r)
  BY <1>2, RegisterSessions
<1>3. CASE FinishFatally(r)
  BY <1>3, ExitSessions DEF FinishFatally
<1>4. CASE NewWithRoute(r) \/ NewByTor(r)
  BY <1>4, QuietStep DEF NewWithRoute, NewByTor, Make, Refuse, TypeOK
<1>5. CASE Accept(r) \/ Tell(r) \/ TellFails(r)
  BY <1>5, QuietStep DEF Accept, Tell, TellFails, TypeOK
<1>6. CASE \E result \in {"paid", "failed"} : Pay(r, result)
  BY <1>6, QuietStep DEF Pay, TypeOK
<1>7. CASE Finish(r)
  BY <1>7, QuietStep DEF Finish, TypeOK
<1> QED
  BY <1>1, <1>2, <1>3, <1>4, <1>5, <1>6, <1>7 DEF Payment

LEMMA PaymentsUnchanged ==
  ASSUME SessionsInv, UNCHANGED <<managers, payments, exits>> PROVE SessionsInv'
  BY DEF payments, SessionsInv, RegisteredHere, TableKeeps, PastHasIsOvertaken,
         SecondRunOnlyByRace, Raced

LEMMA CommandedSessions ==
  ASSUME TypeOK, SessionsInv, NEW c \in Commands, Commanded(c) PROVE SessionsInv'
<1>1. CASE Exit
  BY <1>1, ExitSessions
<1>2. CASE ~Exit
  <2>1. UNCHANGED <<managers, payments, exits>>
    BY <1>2 DEF Commanded, DecodeFails, Receive, Handle, HandleFails
  <2> QED
    BY <2>1, PaymentsUnchanged
<1> QED
  BY <1>1, <1>2

LEMMA SessionsInvariant == Spec => []IInv
<1>1. Init => IInv
  BY SessionsInit
<1>2. ASSUME IInv, [Next]_vars PROVE IInv'
  <2> USE DEF IInv, SessionsInv
  <2>1. ASSUME NEW r \in Requests, Payment(r) PROVE IInv'
    BY <1>2, <2>1, PaymentTypeOK, PaymentSessionsStep
  <2>2. ASSUME NEW c \in Commands, Commanded(c) PROVE IInv'
    BY <1>2, <2>2, CommandedTypeOK, CommandedSessions
  <2>3. CASE UNCHANGED vars
    <3>1. TypeOK'
      BY <1>2, <2>3 DEF vars, payments, calls, TypeOK
    <3> QED
      BY <1>2, <2>3, <3>1, PaymentsUnchanged DEF vars
  <2> QED
    BY <1>2, <2>1, <2>2, <2>3 DEF Next
<1> QED
  BY <1>1, <1>2, PTL DEF Spec

(* Type correctness, for any number of requests, sessions and commands.                   *)
THEOREM TypeCorrect == Spec => []TypeOK
<1>1. IInv => TypeOK
  BY DEF IInv
<1> QED
  BY <1>1, SessionsInvariant, PTL

(* One process pays for a session a second time only if two requests raced from Has to    *)
(* Set.                                                                                   *)
THEOREM PaidTwiceOnlyByRace == Spec => []SecondRunOnlyByRace
<1>1. IInv => SecondRunOnlyByRace
  BY DEF IInv
<1> QED
  BY <1>1, SessionsInvariant, PTL

(* The table has the manager of a running payment, or one of the same session that raced  *)
(* with it.                                                                               *)
THEOREM RunsAreFound == Spec => []AnswersFindTheRun
<1>1. ASSUME IInv PROVE AnswersFindTheRun
  <2> SUFFICES ASSUME NEW r \in Requests, pc[r] \in {"running", "telling"},
                      managers[SessionOf[r]] # r
               PROVE  managers[SessionOf[r]] # None /\ Raced(r, managers[SessionOf[r]])
    BY DEF AnswersFindTheRun
  <2> DEFINE m == managers[SessionOf[r]]
  <2>1. life[r] = exits /\ exits # None
    BY <1>1, NoneIsNoCount DEF IInv, RegisteredHere, TypeOK
  <2>2. m \in Requests /\ SessionOf[m] = SessionOf[r] /\ life[m] = exits
    BY <1>1, <2>1 DEF IInv, TableKeeps
  <2>3. Raced(r, m)
    BY <1>1, <2>1, <2>2 DEF IInv, SecondRunOnlyByRace
  <2> QED
    BY <2>2, <2>3, ConstantsAssumption
<1> QED
  BY <1>1, SessionsInvariant, PTL

=============================================================================
