---------------------------- MODULE ClientProofs ----------------------------
(***************************************************************************)
(* Proofs about one call of discover(), for every value of its constants.  *)
(***************************************************************************)
EXTENDS Client, TLAPS, SequenceTheorems

USE DEF Running, Ended

(* There is at least one send, and the sends share a window that is not    *)
(* empty in steps that are not empty.                                      *)
LEMMA ConstantsTyped ==
  /\ Sends \in Nat /\ Sends >= 1 /\ Gap \in Nat /\ (Timeout > 0 => Gap > 0)
  /\ Timeout \in Nat /\ Lag \in Nat /\ QueueCap \in Nat /\ Broadcasts \in Nat
<1>1. Sends \in Nat /\ Sends >= 1
  BY ClientAssumption DEF Sends
<1>2. Gap \in Int
  BY <1>1, ClientAssumption DEF Gap
<1>3. Gap * Sends = Timeout /\ Timeout \in Nat
  BY ClientAssumption
<1>4. ASSUME NEW g \in Int, NEW s \in Nat, s >= 1, g * s \in Nat
      PROVE  g >= 0 /\ (g * s > 0 => g > 0)
  BY <1>4
<1>5. Lag \in Nat /\ QueueCap \in Nat /\ Broadcasts \in Nat
  BY ClientAssumption
<1> QED
  BY <1>1, <1>2, <1>3, <1>4, <1>5

(* What is kept has an instance identifier.                                *)
LEMMA KeptHasId ==
  ASSUME NEW m \in Wire, NEW q, NEW f, Keeps(m, q, f)
  PROVE  m.id \in Ids
<1>1. m \in Datagrams
  BY ClientAssumption
<1>2. m.id \in {Absent} \cup Ids
  BY <1>1 DEF Datagrams
<1>3. m.id # Absent
  BY DEF Keeps, IsAnswer, Decodes, ValidAnnounce
<1> QED
  BY <1>2, <1>3

(* The receive buffer keeps its type whatever arrives.                     *)
LEMMA DeliverTyped ==
  ASSUME TypeOK, NEW m \in Wire, Deliver(m)
  PROVE  /\ inbox' \in Seq(Wire) /\ Len(inbox') <= QueueCap
         /\ left' \in Nat /\ left' <= left
         /\ inTime' \subseteq Ids
<1>1. CASE Len(inbox) < QueueCap
  <2>1. inbox' = Append(inbox, m)
    BY <1>1 DEF Deliver
  <2>2. inbox' \in Seq(Wire) /\ Len(inbox') <= QueueCap
    BY <1>1, <2>1, ConstantsTyped DEF TypeOK
  <2>3. left' \in Nat /\ left' <= left
    BY <1>1, ConstantsTyped DEF TypeOK, Deliver, Earlier
  <2>4. inTime' = inTime \/ (Keeps(m, Qid, Filter) /\ inTime' = inTime \cup {m.id})
    BY <1>1 DEF Deliver
  <2>5. inTime' \subseteq Ids
    BY <2>4, KeptHasId DEF TypeOK
  <2> QED
    BY <2>2, <2>3, <2>5
<1>2. CASE ~(Len(inbox) < QueueCap)
  BY <1>2 DEF TypeOK, Deliver
<1> QED
  BY <1>1, <1>2

-----------------------------------------------------------------------------
(* Types and the clock.                                                    *)

(* A step of the loop that is under way ends by d and a step each for what *)
(* comes after it.                                                         *)
Due(d) ==
  /\ pc = "recv"   => elapsed + left <= d + 3 * Lag
  /\ pc = "handle" => elapsed + left <= d + 4 * Lag
  /\ pc = "top"    => elapsed + left <= d + 5 * Lag

(* The clock as it was read at the loop's top, against the deadline and    *)
(* the next send: the loop goes on only if both are ahead of it.           *)
ClockInv ==
  /\ Due(Timeout)
  /\ sendsLeft > 0 => Due(resendAt)
  /\ pc = "send" => sendsLeft > 0 /\ now < Timeout
                      /\ elapsed + left <= now + Lag
  /\ pc = "arm"  => now < Timeout /\ (sendsLeft > 0 => now < resendAt)
                      /\ elapsed + left <= now + 2 * Lag
  /\ pc = "idle" => elapsed = 0
  /\ pc = "closing" /\ raised = "none" => elapsed >= Timeout
  /\ OnTime /\ NeverWithoutWait
  /\ pc \in Running \cup {"idle", "returned"} => raised = "none"

(* Every step of the call keeps the types.                                 *)
LEMMA TypeStep ==
  ASSUME TypeOK, ClockInv, [Next]_vars
  PROVE  TypeOK'
<1> USE ConstantsTyped DEF TypeOK, Goto
<1>1. CASE Open
  <2>1. \/ pc' = "top" /\ left' = Lag /\ raised' = raised
        \/ pc' = "failed" /\ left' = 0 /\ raised' = "setup"
    BY <1>1 DEF Open
  <2>2. sockOpen' \in BOOLEAN
    BY <1>1 DEF Open
  <2> QED
    BY <1>1, <2>1, <2>2 DEF Open
<1>2. CASE LookAtClock
  BY <1>2 DEF LookAtClock
<1>3. CASE SendAll
  <2>1. PICK accepted \in 0..Broadcasts :
          wire' = [i \in 1..1 + accepted |->
                    [query |-> Query,
                     route |-> IF i = 1 THEN "multicast" ELSE "broadcast"]]
    BY <1>3 DEF SendAll
  <2>2. Len(wire') = 1 + accepted
    BY <2>1
  <2>3. sendsLeft' \in 0..Sends /\ resendAt' \in Nat
    BY <1>3 DEF SendAll, ClockInv
  <2> QED
    BY <1>3, <2>2, <2>3 DEF SendAll
<1>4. CASE SendFails
  BY <1>4 DEF SendFails
<1>5. CASE Arm
  <2>1. Wait \in Int
    BY DEF Wait, Earlier
  <2>2. left' \in Nat /\ pc' \in {"recv", "closing"} /\ raised' \in {raised, "wait"}
    BY <1>5, <2>1 DEF Arm
  <2> QED
    BY <1>5, <2>2 DEF Arm
<1>6. CASE RecvDatagram
  <2>1. Head(inbox) \in Wire /\ Tail(inbox) \in Seq(Wire)
        /\ Len(Tail(inbox)) <= QueueCap
    BY <1>6 DEF RecvDatagram
  <2>2. cur' \in Seq(Wire) /\ cur' # <<>>
    BY <1>6, <2>1 DEF RecvDatagram
  <2> QED
    BY <1>6, <2>1, <2>2 DEF RecvDatagram
<1>7. CASE RecvTimesOut
  BY <1>7 DEF RecvTimesOut
<1>8. CASE Keep
  <2>1. cur[1] \in Wire
    BY <1>8 DEF Keep
  <2>2. cur[1].id \in Ids
    BY <1>8, <2>1, KeptHasId DEF Keep
  <2>3. /\ DOMAIN found' = DOMAIN found \cup {cur[1].id}
        /\ \A i \in DOMAIN found' :
             found'[i] = IF i = cur[1].id THEN cur[1] ELSE found[i]
    BY <1>8 DEF Keep, Kept
  <2>4. DOMAIN found' \subseteq Ids /\ \A i \in DOMAIN found' : found'[i] \in Wire
    BY <2>1, <2>2, <2>3
  <2> QED
    BY <1>8, <2>4 DEF Keep, Kept
<1>9. CASE Ignore
  BY <1>9 DEF Ignore
<1>10. CASE Close
  <2>1. inbox' \in Seq(Wire) /\ Len(inbox') <= QueueCap /\ pc' \in Ended
    BY <1>10 DEF Close
  <2> QED
    BY <1>10, <2>1 DEF Close
<1>11. CASE Arrive
  <2>1. PICK m \in Wire : Deliver(m)
    BY <1>11 DEF Arrive
  <2>2. /\ inbox' \in Seq(Wire) /\ Len(inbox') <= QueueCap
        /\ left' \in Nat /\ left' <= left /\ inTime' \subseteq Ids
    BY <2>1, DeliverTyped
  <2> QED
    BY <1>11, <2>2 DEF Arrive
<1>12. CASE Tick
  BY <1>12 DEF Tick
<1>13. CASE UNCHANGED vars
  BY <1>13 DEF vars
<1>14. CASE HandleRaises
  BY <1>14 DEF HandleRaises
<1> QED
  BY <1>1, <1>2, <1>3, <1>4, <1>5, <1>6, <1>7, <1>8, <1>9, <1>10, <1>11,
     <1>12, <1>13, <1>14 DEF Next, Call

(* The numbers of a state.                                                 *)
Numbers ==
  /\ left \in Nat /\ elapsed \in Nat /\ now \in Nat
  /\ sendsLeft \in Nat /\ resendAt \in Nat

LEMMA NumbersTyped == TypeOK => Numbers
BY ConstantsTyped DEF TypeOK, Numbers

(* Something that arrives only shortens the present step.                  *)
LEMMA ArriveShortens ==
  ASSUME TypeOK, Arrive
  PROVE  left' \in Nat /\ left' <= left
BY DeliverTyped DEF Arrive

(* Every step of the call keeps what is known of the clock.                *)
LEMMA ClockStep ==
  ASSUME TypeOK, ClockInv, [Next]_vars
  PROVE  ClockInv'
<1> Numbers
  BY NumbersTyped
<1> USE ConstantsTyped DEF Numbers, ClockInv, Due, Goto, OnTime,
      NeverWithoutWait, TurnBound
<1>1. CASE Open
  <2>1. \/ pc' = "top" /\ left' = Lag /\ raised' = raised
        \/ pc' = "failed" /\ left' = 0 /\ raised' = "setup"
    BY <1>1 DEF Open
  <2> QED
    BY <1>1, <2>1 DEF Open
<1>2. CASE LookAtClock
  BY <1>2 DEF LookAtClock
<1>3. CASE SendAll
  BY <1>3 DEF SendAll
<1>4. CASE SendFails
  BY <1>4 DEF SendFails
<1>5. CASE Arm
  <2>1. Wait \in Int /\ Wait > 0 /\ now + Wait <= Timeout
        /\ (sendsLeft > 0 => now + Wait <= resendAt)
    BY <1>5 DEF Arm, Wait, Earlier
  <2>2. /\ pc' = "recv" /\ raised' = raised
        /\ left' \in Nat /\ left' <= Wait + Lag
    BY <1>5, <2>1 DEF Arm
  <2>3. /\ now < Timeout /\ elapsed + left <= now + 2 * Lag /\ raised = "none"
        /\ UNCHANGED <<elapsed, now, sendsLeft, resendAt>>
    BY <1>5 DEF Arm
  <2>4. elapsed \in Nat /\ left \in Nat /\ now \in Nat /\ Lag \in Nat
        /\ Timeout \in Nat /\ resendAt \in Nat
    BY <2>3
  <2>5. ASSUME NEW d \in Nat, now + Wait <= d
        PROVE  elapsed' + left' <= d + 3 * Lag /\ elapsed' <= d + 5 * Lag
    <3>1. ASSUME NEW e \in Nat, NEW l \in Nat, NEW n \in Nat, NEW g \in Nat,
                 NEW w \in Int, NEW k \in Nat, e + l <= n + 2 * g,
                 k <= w + g, n + w <= d, w > 0
          PROVE  e + k <= d + 3 * g /\ e <= d + 5 * g
      BY <3>1
    <3> QED
      BY ONLY <2>1, <2>2, <2>3, <2>4, <2>5, <3>1
  <2>6. Due(Timeout)' /\ (sendsLeft' > 0 => Due(resendAt)')
    BY ONLY <2>1, <2>2, <2>3, <2>4, <2>5 DEF Due
  <2>7. OnTime' /\ NeverWithoutWait'
    BY ONLY <2>2, <2>3, <2>4, <2>5 DEF OnTime, NeverWithoutWait, TurnBound
  <2> QED
    BY ONLY <2>2, <2>3, <2>6, <2>7 DEF ClockInv
<1>6. CASE RecvDatagram
  BY <1>6 DEF RecvDatagram
<1>7. CASE RecvTimesOut
  BY <1>7 DEF RecvTimesOut
<1>8. CASE Keep
  BY <1>8 DEF Keep, Kept
<1>9. CASE Ignore
  BY <1>9 DEF Ignore
<1>10. CASE Close
  BY <1>10 DEF Close
<1>11. CASE Arrive
  BY <1>11, ArriveShortens DEF Arrive
<1>12. CASE Tick
  BY <1>12 DEF Tick
<1>13. CASE UNCHANGED vars
  BY <1>13 DEF vars
<1>14. CASE HandleRaises
  BY <1>14 DEF HandleRaises
<1> QED
  BY <1>1, <1>2, <1>3, <1>4, <1>5, <1>6, <1>7, <1>8, <1>9, <1>10, <1>11,
     <1>12, <1>13, <1>14 DEF Next, Call

(* The call starts in a state with both.                                   *)
LEMMA ClockInit == Init => TypeOK /\ ClockInv
<1> SUFFICES ASSUME Init PROVE TypeOK /\ ClockInv
  OBVIOUS
<1>1. TypeOK
  <2>1. DOMAIN found = {} /\ DOMAIN found \subseteq Ids
        /\ \A i \in DOMAIN found : found[i] \in Wire
    BY DEF Init
  <2>2. inbox \in Seq(Wire) /\ Len(inbox) <= QueueCap
    BY ConstantsTyped DEF Init
  <2>3. cur \in Seq(Wire) /\ (cur # <<>> <=> pc = "handle")
    BY DEF Init
  <2>4. Len(wire) <= 1 + Broadcasts
    BY ConstantsTyped DEF Init
  <2>5. /\ pc = "idle" /\ left = 0 /\ elapsed = 0 /\ now = 0 /\ resendAt = 0
        /\ sendsLeft \in 0..Sends /\ arrivals = 0 /\ inTime = {}
        /\ raised = "none"
    BY ConstantsTyped DEF Init
  <2>6. sockOpen \in BOOLEAN
    BY DEF Init
  <2> QED
    BY <2>1, <2>2, <2>3, <2>4, <2>5, <2>6 DEF TypeOK
<1>2. ClockInv
  BY ConstantsTyped
  DEF Init, ClockInv, Due, OnTime, NeverWithoutWait, TurnBound
<1> QED
  BY <1>1, <1>2

LEMMA ClockAlways == Spec => [](TypeOK /\ ClockInv)
BY ClockInit, TypeStep, ClockStep, PTL DEF Spec

(* The variables keep their types (client.py, discover).                   *)
THEOREM TypeCorrect == Spec => []TypeOK
BY ClockAlways, PTL

(* The call does not return before its window is over, and is out of its   *)
(* loop a turn after it (client.py, discover: the deadline).               *)
THEOREM ReturnsOnTime == Spec => []OnTime
BY ClockAlways, PTL DEF ClockInv

(* recvfrom() always waits: the timeout handed to the socket is positive,  *)
(* for any number of sends in any window (client.py, discover).            *)
THEOREM AlwaysWaits == Spec => []NeverWithoutWait
BY ClockAlways, PTL DEF ClockInv

-----------------------------------------------------------------------------
(* The sends are all made.                                                 *)

(* The last moment at which the n-th resend may be due to look at the      *)
(* clock, each resend late by at most a turn.                              *)
Latest(n) == Lag + n * (Gap + TurnBound)

LEMMA LatestTyped ==
  /\ Latest(0) = Lag
  /\ \A n \in Nat : Latest(n) \in Nat
                     /\ Latest(n + 1) = Latest(n) + Gap + TurnBound
<1>1. Lag \in Nat /\ Gap + TurnBound \in Nat /\ Gap \in Nat /\ TurnBound \in Nat
  BY ConstantsTyped DEF TurnBound
<1>2. ASSUME NEW g \in Nat, NEW n \in Nat
      PROVE  n * g \in Nat /\ (n + 1) * g = n * g + g /\ 0 * g = 0
  BY <1>2
<1> QED
  BY <1>1, <1>2 DEF Latest

(* On a prompt machine every send falls into the window.                   *)
LEMMA LatestInTime ==
  ASSUME Prompt, NEW n \in Nat, n < Sends
  PROVE  Latest(n) < Timeout
<1>1. TurnBound \in Nat /\ Lag + (Sends - 1) * TurnBound < Gap
  BY ConstantsTyped DEF Prompt, TurnBound
<1>2. Gap * Sends = Timeout
  BY ClientAssumption
<1>3. ASSUME NEW g \in Nat, NEW t \in Nat, NEW s \in Nat, n < s
      PROVE  /\ n * (g + t) <= (s - 1) * (g + t)
             /\ (s - 1) * (g + t) = g * s - g + (s - 1) * t
  <2>1. n <= s - 1 /\ g + t \in Nat
    BY <1>3
  <2>2. ASSUME NEW k \in Nat, NEW m \in Nat, NEW p \in Nat, k <= m
        PROVE  k * p <= m * p
    BY <2>2
  <2>3. n * (g + t) <= (s - 1) * (g + t)
    BY <1>3, <2>1, <2>2
  <2> QED
    BY <1>3, <2>3
<1>4. n * (Gap + TurnBound) <= Gap * Sends - Gap + (Sends - 1) * TurnBound
  BY <1>1, <1>3, ConstantsTyped
<1> QED
  BY <1>1, <1>2, <1>4, ConstantsTyped DEF Latest

(* Where the resends stand against that schedule.                          *)
ScheduleInv ==
  /\ pc = "idle" => sendsLeft = Sends
  /\ pc \in {"arm", "recv", "handle"} => sendsLeft < Sends
  /\ sendsLeft = Sends => resendAt = 0
  /\ sendsLeft > 0 =>
       /\ sendsLeft < Sends => resendAt + TurnBound <= Latest(Sends - sendsLeft)
       /\ pc = "top" => elapsed + left <= Latest(Sends - sendsLeft)
       /\ pc = "send" => now <= Latest(Sends - sendsLeft)
  /\ pc \in {"closing", "returned"} /\ raised = "none" => sendsLeft = 0

(* The schedule is kept by every step.                                     *)
LEMMA ScheduleStep ==
  ASSUME Prompt, TypeOK, ClockInv, ScheduleInv, [Next]_vars
  PROVE  ScheduleInv'
<1>0. Numbers /\ sendsLeft \in 0..Sends
  BY NumbersTyped DEF TypeOK
<1>1. Sends - sendsLeft \in Nat /\ Latest(Sends - sendsLeft) \in Nat
      /\ TurnBound \in Nat /\ TurnBound = 5 * Lag
  BY <1>0, ConstantsTyped, LatestTyped DEF TurnBound
<1>2. sendsLeft > 0 => Latest(Sends - sendsLeft) < Timeout
  BY <1>0, <1>1, ConstantsTyped, LatestInTime
<1>3. pc \notin {"idle"} /\ sendsLeft > 0 /\ sendsLeft < Sends
        /\ pc \in {"recv", "handle"} => elapsed + left + Lag <= Latest(Sends - sendsLeft)
  BY <1>0, <1>1, ConstantsTyped DEF Numbers, ClockInv, Due, ScheduleInv
<1> USE <1>0, <1>1, <1>2, <1>3, ConstantsTyped DEF Numbers, ScheduleInv, Goto
<1>4. CASE Open
  <2>1. sendsLeft = Sends /\ resendAt = 0 /\ elapsed = 0
    BY <1>4 DEF Open, ClockInv
  <2> QED
    BY <1>4, <2>1, LatestTyped DEF Open
<1>5. CASE LookAtClock
  BY <1>5 DEF LookAtClock
<1>6. CASE SendAll
  <2>1. /\ sendsLeft > 0 /\ now <= Latest(Sends - sendsLeft)
        /\ sendsLeft' = sendsLeft - 1 /\ resendAt' = now + Gap
        /\ pc' = "arm"
    BY <1>6 DEF SendAll, ClockInv
  <2>2. Sends - sendsLeft' = (Sends - sendsLeft) + 1
    BY <2>1
  <2>3. Latest(Sends - sendsLeft') = Latest(Sends - sendsLeft) + Gap + TurnBound
    BY <2>2, LatestTyped
  <2>4. resendAt' + TurnBound <= Latest(Sends - sendsLeft')
    BY <2>1, <2>3
  <2> QED
    BY <2>1, <2>4
<1>7. CASE SendFails
  BY <1>7 DEF SendFails
<1>8. CASE Arm
  BY <1>8 DEF Arm
<1>9. CASE RecvDatagram
  BY <1>9 DEF RecvDatagram
<1>10. CASE RecvTimesOut
  BY <1>10 DEF RecvTimesOut
<1>11. CASE Keep
  BY <1>11 DEF Keep, Kept
<1>12. CASE Ignore
  BY <1>12 DEF Ignore
<1>13. CASE Close
  BY <1>13 DEF Close
<1>14. CASE Arrive
  BY <1>14, ArriveShortens DEF Arrive
<1>15. CASE Tick
  BY <1>15 DEF Tick
<1>16. CASE UNCHANGED vars
  BY <1>16 DEF vars
<1>17. CASE HandleRaises
  BY <1>17 DEF HandleRaises
<1> QED
  BY <1>4, <1>5, <1>6, <1>7, <1>8, <1>9, <1>10, <1>11, <1>12, <1>13, <1>14,
     <1>15, <1>16, <1>17 DEF Next, Call

(* On a machine that keeps up, every one of the retries goes out before    *)
(* the call returns (client.py, discover: resend_at and sends_left).       *)
THEOREM SendsAreMade == ASSUME Prompt PROVE Spec => []AllSendsMade
<1>1. Init => ScheduleInv
  BY ConstantsTyped DEF Init, ScheduleInv
<1>2. TypeOK /\ ClockInv /\ ScheduleInv /\ [Next]_vars => ScheduleInv'
  BY Prompt, ScheduleStep
<1>3. TypeOK /\ ClockInv /\ ScheduleInv => AllSendsMade
  BY DEF ScheduleInv, ClockInv, AllSendsMade
<1> QED
  BY <1>1, <1>2, <1>3, ClockAlways, PTL DEF Spec

-----------------------------------------------------------------------------
(* The socket.                                                             *)

(* Every way out of the loop passes the close of the socket: the deadline, *)
(* a failed send, a wait that cannot be, an exception of decode() or of    *)
(* matches_filter().  What fails before the loop does not (client.py,      *)
(* discover: try and finally).                                             *)
THEOREM SocketIsReleased == Spec => []SocketReleased
<1>1. Init => SocketReleased
  BY DEF Init, SocketReleased
<1>2. SocketReleased /\ [Next]_vars => SocketReleased'
  BY DEF SocketReleased, Goto, Next, Call, vars, Open, LookAtClock, SendAll,
         SendFails, Arm, RecvDatagram, RecvTimesOut, Keep, Kept, Ignore,
         HandleRaises, Close, Arrive, Tick
<1> QED
  BY <1>1, <1>2, PTL DEF Spec

-----------------------------------------------------------------------------
(* Answers in good time.                                                   *)

(* The time n full turns of the loop may take.                             *)
Turns(n) == n * TurnBound

LEMMA TurnsTyped ==
  /\ \A n \in Nat : Turns(n) \in Nat /\ Turns(n + 1) = Turns(n) + 5 * Lag
  /\ \A m, n \in Nat : m <= n => Turns(m) <= Turns(n)
  /\ Turns(QueueCap) = QueueCap * TurnBound
<1>1. TurnBound \in Nat /\ TurnBound = 5 * Lag
  BY ConstantsTyped DEF TurnBound
<1>2. ASSUME NEW t \in Nat, NEW m \in Nat, NEW n \in Nat
      PROVE  /\ n * t \in Nat /\ (n + 1) * t = n * t + t
             /\ m <= n => m * t <= n * t
  BY <1>2
<1> QED
  BY <1>1, <1>2 DEF Turns

(* The datagram behind n others in the buffer is received before the       *)
(* window is over: even if every step takes its longest, the loop finds    *)
(* time left each time it looks at the clock before it.                    *)
InReach(n) ==
  /\ pc = "top"    => elapsed + left + Turns(n) < Timeout
  /\ pc = "handle" => elapsed + left + Lag + Turns(n) < Timeout
  /\ pc = "recv" /\ n > 0 => elapsed + left + 2 * Lag + Turns(n - 1) < Timeout
  /\ pc = "arm"  /\ n > 0 => elapsed + left + 3 * Lag + Turns(n - 1) < Timeout
  /\ pc = "send" /\ n > 0 => elapsed + left + 4 * Lag + Turns(n - 1) < Timeout

(* An answer that came in good time is kept already, in hand, or in the    *)
(* buffer and in reach.                                                    *)
Answers(m, id) == Keeps(m, Qid, Filter) /\ m.id = id

Secured(id) ==
  \/ id \in DOMAIN found
  \/ pc = "handle" /\ Answers(cur[1], id)
  \/ /\ pc \in Running
     /\ \E p \in 1..Len(inbox) : Answers(inbox[p], id) /\ InReach(p - 1)

InTimeInv ==
  /\ pc \in {"top", "send", "arm", "handle"} => left <= Lag
  /\ pc = "recv" /\ inbox # <<>> => left <= Lag
  /\ pc = "idle" => ~sockOpen /\ inTime = {}
  /\ raised = "none" => \A id \in inTime : Secured(id)

(* A step that leaves the buffer, the hand and the result alone keeps      *)
(* every answer that it keeps in reach.                                    *)
LEMMA StaysSecured ==
  ASSUME TypeOK, NEW id, Secured(id), pc' \in Running,
         UNCHANGED <<inbox, found>>,
         pc = "handle" => pc' = "handle" /\ cur' = cur,
         \A n \in Nat : inbox # <<>> /\ InReach(n) => InReach(n)'
  PROVE  Secured(id)'
<1>1. CASE id \in DOMAIN found
  BY <1>1 DEF Secured
<1>2. ASSUME NEW p \in 1..Len(inbox), Answers(inbox[p], id), InReach(p - 1)
      PROVE  Secured(id)'
  <2>1. inbox # <<>> /\ p - 1 \in Nat /\ p \in 1..Len(inbox')
    BY <1>2 DEF TypeOK
  <2>2. InReach(p - 1)' /\ Answers(inbox'[p], id)
    BY <1>2, <2>1
  <2> QED
    BY <2>1, <2>2 DEF Secured, Answers
<1>3. CASE pc = "handle" /\ Answers(cur[1], id)
  BY <1>3 DEF Secured, Answers
<1> QED
  BY <1>1, <1>2, <1>3 DEF Secured

(* Every step of the call keeps its answers secured.                       *)
LEMMA InTimeStep ==
  ASSUME TypeOK, TypeOK', ClockInv, ClockInv', InTimeInv, [Next]_vars
  PROVE  InTimeInv'
<1>a. Numbers
  BY NumbersTyped
<1>b. Numbers'
  BY ConstantsTyped DEF TypeOK, Numbers
<1>c. ASSUME NEW n \in Nat, n > 0 PROVE n - 1 \in Nat /\ Turns(n - 1) \in Nat
  BY <1>c, TurnsTyped
<1> USE <1>a, <1>b, ConstantsTyped DEF Numbers, Goto
<1>1. CASE Open
  <2>1. inTime' = {} /\ pc' \in {"top", "failed"} /\ left' <= Lag
    BY <1>1 DEF Open, InTimeInv
  <2> QED
    BY <2>1 DEF InTimeInv
<1>2. CASE LookAtClock
  <2>1. pc = "top" /\ left' = Lag /\ pc' \in {"closing", "send", "arm"}
        /\ UNCHANGED <<elapsed, inbox, cur, found, sockOpen, raised, inTime>>
        /\ (pc' = "closing" => elapsed >= Timeout)
    BY <1>2 DEF LookAtClock
  <2>2. ASSUME NEW id \in inTime, Secured(id), pc' # "closing"
        PROVE  Secured(id)'
    <3>1. ASSUME NEW n \in Nat, InReach(n) PROVE InReach(n)'
      <4>1. CASE n = 0
        BY <2>1, <2>2, <4>1 DEF InReach
      <4>2. CASE n # 0
        <5>1. n - 1 \in Nat /\ Turns(n) = Turns(n - 1) + 5 * Lag
              /\ Turns(n - 1) \in Nat
          <6>1. n - 1 \in Nat /\ (n - 1) + 1 = n
            BY <4>2
          <6> QED
            BY <6>1, TurnsTyped
        <5> QED
          BY <2>1, <2>2, <3>1, <5>1 DEF InReach
      <4> QED
        BY <4>1, <4>2
    <3> QED
      BY <2>1, <2>2, <3>1, StaysSecured
  <2>3. ASSUME NEW id \in inTime, Secured(id), pc' = "closing"
        PROVE  Secured(id)'
    <3>1. ASSUME NEW n \in Nat PROVE ~InReach(n)
      BY <2>1, <2>3, TurnsTyped DEF InReach
    <3>2. \A p \in 1..Len(inbox) : p - 1 \in Nat
      BY DEF TypeOK
    <3> QED
      BY <2>1, <2>3, <3>1, <3>2 DEF Secured
  <2> QED
    BY <2>1, <2>2, <2>3 DEF InTimeInv
<1>3. CASE SendAll
  <2>1. pc = "send" /\ pc' = "arm" /\ left' = Lag
        /\ UNCHANGED <<elapsed, inbox, cur, found, sockOpen, raised, inTime>>
    BY <1>3 DEF SendAll
  <2>2. ASSUME NEW n \in Nat, InReach(n) PROVE InReach(n)'
    BY <2>1, <2>2, <1>c DEF InReach
  <2>3. \A id \in inTime : Secured(id) => Secured(id)'
    BY <2>1, <2>2, StaysSecured
  <2> QED
    BY <2>1, <2>3 DEF InTimeInv
<1>4. CASE SendFails
  BY <1>4 DEF SendFails, InTimeInv
<1>5. CASE Arm
  <2>1. pc = "arm" /\ pc' = "recv"
        /\ (inbox # <<>> => left' = Lag)
        /\ UNCHANGED <<elapsed, inbox, cur, found, sockOpen, raised, inTime>>
    BY <1>5 DEF Arm, ClockInv, NeverWithoutWait
  <2>2. ASSUME NEW n \in Nat, inbox # <<>>, InReach(n) PROVE InReach(n)'
    BY <2>1, <2>2, <1>c DEF InReach
  <2>3. \A id \in inTime : Secured(id) => Secured(id)'
    BY <2>1, <2>2, StaysSecured
  <2> QED
    BY <2>1, <2>3 DEF InTimeInv
<1>6. CASE RecvDatagram
  <2>1. /\ pc = "recv" /\ pc' = "handle" /\ left' = Lag
        /\ cur' = <<Head(inbox)>> /\ inbox' = Tail(inbox) /\ inbox # <<>>
        /\ UNCHANGED <<elapsed, found, sockOpen, raised, inTime>>
    BY <1>6 DEF RecvDatagram
  <2>2. ASSUME NEW id \in inTime, Secured(id) PROVE Secured(id)'
    <3>1. CASE id \in DOMAIN found
      BY <2>1, <3>1 DEF Secured
    <3>2. ASSUME NEW p \in 1..Len(inbox), Answers(inbox[p], id), InReach(p - 1)
          PROVE  Secured(id)'
      <4>1. CASE p = 1
        <5>1. cur'[1] = inbox[1]
          BY <2>1 DEF TypeOK
        <5> QED
          BY <2>1, <3>2, <4>1, <5>1 DEF Secured, Answers
      <4>2. CASE p # 1
        <5>1. /\ p - 1 \in 1..Len(inbox') /\ inbox'[p - 1] = inbox[p]
              /\ p - 1 \in Nat /\ p - 2 \in Nat /\ p - 1 > 0
              /\ (p - 1) - 1 = p - 2
          BY <2>1, <4>2 DEF TypeOK
        <5>2. Turns(p - 2) \in Nat
          BY <5>1, TurnsTyped
        <5>3. elapsed + left + 2 * Lag + Turns(p - 2) < Timeout
          BY <2>1, <3>2, <5>1 DEF InReach
        <5>4. elapsed + Lag + Lag + Turns(p - 2) < Timeout
          BY <5>2, <5>3
        <5>5. InReach((p - 1) - 1)'
          BY <2>1, <5>1, <5>4 DEF InReach
        <5> QED
          BY <2>1, <3>2, <5>1, <5>5 DEF Secured, Answers
      <4> QED
        BY <4>1, <4>2
    <3> QED
      BY <2>1, <2>2, <3>1, <3>2 DEF Secured
  <2> QED
    BY <2>1, <2>2 DEF InTimeInv
<1>7. CASE RecvTimesOut
  <2>1. /\ pc = "recv" /\ pc' = "top" /\ left' = Lag /\ inbox = <<>>
        /\ UNCHANGED <<inbox, cur, found, sockOpen, raised, inTime>>
    BY <1>7 DEF RecvTimesOut
  <2>2. \A id \in inTime : Secured(id) => Secured(id)'
    BY <2>1, StaysSecured
  <2> QED
    BY <2>1, <2>2 DEF InTimeInv
<1>8. CASE Keep \/ Ignore
  <2>1. /\ pc = "handle" /\ pc' = "top" /\ left' = Lag
        /\ UNCHANGED <<elapsed, inbox, sockOpen, raised, inTime>>
        /\ DOMAIN found \subseteq DOMAIN found'
        /\ (Keeps(cur[1], Qid, Filter) => cur[1].id \in DOMAIN found')
    <3>1. CASE Keep
      BY <3>1 DEF Keep, Kept
    <3>2. CASE Ignore
      <4>1. ~Keeps(cur[1], Qid, Filter)
        BY <3>2 DEF Ignore, Ignores, Keeps, Mismatches, MatchesFilter
      <4> QED
        BY <3>2, <4>1 DEF Ignore
    <3> QED
      BY <1>8, <3>1, <3>2
  <2>2. ASSUME NEW n \in Nat, InReach(n) PROVE InReach(n)'
    <3>1. Turns(n) \in Nat
      BY TurnsTyped
    <3> QED
      BY <2>1, <2>2, <3>1 DEF InReach
  <2>3. \A p \in 1..Len(inbox) : p - 1 \in Nat
    BY DEF TypeOK
  <2>4. ASSUME NEW id \in inTime, Secured(id) PROVE Secured(id)'
    BY <2>1, <2>2, <2>3, <2>4 DEF Secured, Answers
  <2> QED
    BY <2>1, <2>4 DEF InTimeInv
<1>9. CASE Close
  <2>1. /\ pc = "closing" /\ pc' \in Ended
        /\ UNCHANGED <<found, raised, inTime>>
    BY <1>9 DEF Close
  <2>2. \A id \in inTime : Secured(id) => Secured(id)'
    BY <2>1 DEF Secured
  <2> QED
    BY <2>1, <2>2 DEF InTimeInv
<1>10. CASE Arrive
  <2>1. PICK m \in Wire : Deliver(m)
    BY <1>10 DEF Arrive
  <2>2. /\ pc \in Running \cup {"closing"} /\ left' <= left
        /\ UNCHANGED <<pc, elapsed, cur, found, sockOpen, raised>>
    BY <1>10, ArriveShortens DEF Arrive, InTimeInv, TypeOK
  <2>3. ASSUME NEW n \in Nat, InReach(n) PROVE InReach(n)'
    <3>1. Turns(n) \in Nat /\ (n > 0 => Turns(n - 1) \in Nat)
      BY <1>c, TurnsTyped
    <3>2. pc' = pc /\ elapsed' = elapsed /\ left' <= left
      BY <2>2
    <3> QED
      BY <2>3, <3>1, <3>2 DEF InReach
  <2>4. CASE Len(inbox) >= QueueCap
    <3>1. UNCHANGED <<inbox, left, inTime>>
      BY <2>1, <2>4 DEF Deliver, TypeOK
    <3> QED
      BY <2>2, <3>1 DEF InTimeInv, Secured, InReach, Answers
  <2>5. CASE Len(inbox) < QueueCap
    <3>1. /\ inbox' = Append(inbox, m)
          /\ left' = IF pc = "recv" THEN Earlier(left, Lag) ELSE left
      BY <2>1, <2>5 DEF Deliver
    <3>2. PICK k \in Nat : k = Len(inbox)
      BY DEF TypeOK
    <3>a. inbox \in Seq(Wire) /\ k < QueueCap
      BY <2>5, <3>2 DEF TypeOK
    <3>b. /\ Len(inbox') = k + 1 /\ inbox'[k + 1] = m
          /\ \A p \in 1..k : inbox'[p] = inbox[p]
      BY <3>1, <3>2, <3>a
    <3>3. ASSUME NEW id, Secured(id) PROVE Secured(id)'
      <4>1. ASSUME NEW p \in 1..Len(inbox), Answers(inbox[p], id), InReach(p - 1),
                   pc \in Running
            PROVE  Secured(id)'
        <5>1. p - 1 \in Nat /\ p \in 1..Len(inbox') /\ inbox'[p] = inbox[p]
          BY <3>2, <3>b
        <5>2. InReach(p - 1)'
          BY <2>3, <4>1, <5>1
        <5> QED
          BY <2>2, <4>1, <5>1, <5>2 DEF Secured, Answers
      <4> QED
        BY <2>2, <3>3, <4>1 DEF Secured, Answers
    <3>4. /\ pc' \in {"top", "send", "arm", "handle"} => left' <= Lag
          /\ pc' = "recv" => left' <= Lag
      BY <2>2, <3>1 DEF InTimeInv, Earlier
    <3>5. ASSUME NEW id \in inTime', id \notin inTime, raised = "none"
          PROVE  Secured(id)'
      <4>1. /\ Answers(m, id)
            /\ elapsed + QueueCap * TurnBound - 3 * Lag < Timeout
        BY <2>1, <2>5, <3>5 DEF Deliver, Answers
      <4>2. PICK n \in Nat : n + 1 = QueueCap /\ k <= n
        <5>1. QueueCap - 1 \in Nat /\ k <= QueueCap - 1
          BY <3>a
        <5> QED
          BY <5>1
      <4>3. /\ Turns(n) \in Nat /\ Turns(n + 1) = Turns(n) + 5 * Lag
            /\ Turns(k) \in Nat /\ Turns(k) <= Turns(n)
        BY <4>2, TurnsTyped
      <4>4. elapsed + Turns(n) + 2 * Lag < Timeout
        <5>1. elapsed + Turns(n + 1) - 3 * Lag < Timeout
          BY <4>1, <4>2, TurnsTyped
        <5> QED
          BY <4>3, <5>1
      <4>5. elapsed + Turns(k) + 2 * Lag < Timeout
        BY <4>3, <4>4
      <4>6. pc \in Running
        BY <2>2, <3>5, <4>3, <4>4 DEF ClockInv
      <4>7. k > 0 => /\ Turns(k - 1) \in Nat
                     /\ elapsed + Turns(k - 1) + 7 * Lag < Timeout
        <5>1. k > 0 => k - 1 \in Nat /\ (k - 1) + 1 = k
          OBVIOUS
        <5>2. k > 0 => Turns(k) = Turns(k - 1) + 5 * Lag /\ Turns(k - 1) \in Nat
          BY <5>1, TurnsTyped
        <5> QED
          BY <4>3, <4>5, <5>2
      <4>8. pc' = pc /\ elapsed' = elapsed /\ left' <= Lag
        BY <2>2, <3>4, <4>6
      <4>9. InReach(k)'
        BY <4>3, <4>5, <4>7, <4>8 DEF InReach
      <4> QED
        BY <3>b, <4>1, <4>6, <4>8, <4>9 DEF Secured, Answers
    <3>6. \A id \in inTime' : raised = "none" => Secured(id)'
      BY <3>3, <3>5 DEF InTimeInv
    <3> QED
      BY <2>2, <3>4, <3>6 DEF InTimeInv
  <2> QED
    BY <2>4, <2>5 DEF TypeOK
<1>11. CASE Tick
  <2>1. /\ pc # "idle" /\ left' = left - 1 /\ elapsed' = elapsed + 1
        /\ UNCHANGED <<pc, inbox, cur, found, sockOpen, raised, inTime>>
    BY <1>11 DEF Tick
  <2>2. ASSUME NEW n \in Nat, InReach(n) PROVE InReach(n)'
    BY <2>1, <2>2, TurnsTyped DEF InReach
  <2>3. \A id \in inTime : Secured(id) => Secured(id)'
    <3>1. CASE pc \in Running
      BY <2>1, <2>2, <3>1, StaysSecured
    <3>2. CASE pc \notin Running
      BY <2>1, <3>2 DEF Secured
    <3> QED
      BY <3>1, <3>2
  <2> QED
    BY <2>1, <2>3 DEF InTimeInv
<1>12. CASE UNCHANGED vars
  BY <1>12 DEF vars, InTimeInv, Secured, InReach, Answers
<1>13. CASE HandleRaises
  BY <1>13 DEF HandleRaises, InTimeInv
<1> QED
  BY <1>1, <1>2, <1>3, <1>4, <1>5, <1>6, <1>7, <1>8, <1>9, <1>10, <1>11,
     <1>12, <1>13 DEF Next, Call

(* An answer that came in good time is in the result, whatever junk,       *)
(* stale replies and duplicates come with it and however slow each step of *)
(* the loop is (client.py, discover: the loop and the dict).               *)
THEOREM GoodTimeIsKept == Spec => []InTimeAnswersCount
<1>1. Init => InTimeInv
  BY DEF Init, InTimeInv
<1>2. /\ TypeOK /\ ClockInv /\ TypeOK' /\ ClockInv' /\ InTimeInv
      /\ [Next]_vars
      => InTimeInv'
  BY InTimeStep
<1>3. ClockInv /\ InTimeInv => InTimeAnswersCount
  BY DEF ClockInv, InTimeInv, InTimeAnswersCount, Secured
<1> QED
  BY <1>1, <1>2, <1>3, ClockAlways, PTL DEF Spec
=============================================================================
