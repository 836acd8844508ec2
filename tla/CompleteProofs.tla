--------------------------- MODULE CompleteProofs ---------------------------
(***************************************************************************)
(* Proof that a scan is complete, for every value of the constants that    *)
(* leaves the window wide enough: who matches, is up, and had one exchange *)
(* that came through, is in the result.  By when everything that is under  *)
(* way is answered, and that the client still takes it up.                 *)
(***************************************************************************)
EXTENDS DiscoveryProofs

-----------------------------------------------------------------------------
(* The call: its phases, its clock, and when it sends.                     *)

(* The last moment at which the n-th send may look at the clock.           *)
Latest(n) == Lag + n * (C!Gap + C!TurnBound)

CallTyped ==
  /\ cleft \in Nat /\ elapsed \in Nat /\ now \in Nat /\ resendAt \in Nat
  /\ sendsLeft \in 0..C!Sends

CallPhase ==
  /\ cpc \in {"idle", "closing"} \cup C!Running \cup C!Ended
  /\ cpc = "idle" => sendsLeft = C!Sends /\ elapsed = 0 /\ ~sockOpen
  /\ cpc \in C!Running \cup {"idle", "returned"} => raised = "none"
  /\ cpc = "failed" => raised # "none"
  /\ cpc \in C!Running => C!Sendable
  /\ cpc = "returned" => inbox = <<>> /\ ~sockOpen
  /\ cpc \in {"arm", "recv", "handle"} => sendsLeft < C!Sends

CallTimes ==
  /\ sendsLeft = C!Sends => resendAt = 0
  /\ sendsLeft < C!Sends =>
       C!Sendable /\ resendAt + C!TurnBound <= Latest(C!Sends - sendsLeft)

CallTurns ==
  /\ cpc = "top" /\ sendsLeft > 0 => elapsed + cleft <= Latest(C!Sends - sendsLeft)
  /\ cpc = "send" => /\ sendsLeft > 0 /\ resendAt <= now /\ now <= elapsed
                     /\ now <= Latest(C!Sends - sendsLeft)
                     /\ elapsed + cleft <= now + Lag
  /\ cpc = "arm" => elapsed + cleft <= now + 2 * Lag
  /\ cpc = "recv" /\ sendsLeft > 0 => elapsed + cleft <= resendAt + 3 * Lag
  /\ cpc = "handle" /\ sendsLeft > 0 => elapsed + cleft <= resendAt + 4 * Lag
  /\ cpc \in {"closing", "returned"} /\ raised = "none" => elapsed >= Timeout
  /\ cpc \in {"top", "send", "arm", "handle"} => cleft <= Lag
  /\ cpc = "recv" /\ inbox # <<>> => cleft <= Lag

Clock == CallTyped /\ CallPhase /\ CallTimes /\ CallTurns

(* The spread of the resends and a turn of the loop.                       *)
LEMMA CallConstants ==
  /\ C!Sends \in Nat /\ C!Sends >= 1 /\ C!Gap \in Nat /\ C!Gap * C!Sends = Timeout
  /\ Timeout \in Nat /\ Lag \in Nat /\ C!TurnBound \in Nat /\ C!TurnBound = 5 * Lag
<1>1. C!Sends \in Nat /\ C!Sends >= 1
  BY ComponentAssumption DEF C!Sends
<1>2. C!Gap \in Int
  BY <1>1, ComponentAssumption DEF C!Gap
<1>3. C!Gap * C!Sends = Timeout /\ Timeout \in Nat /\ Lag \in Nat
  BY ComponentAssumption
<1>4. ASSUME NEW g \in Int, NEW s \in Nat, s >= 1, g * s \in Nat
      PROVE  g >= 0
  BY <1>4
<1>5. C!Gap \in Nat
  BY <1>1, <1>2, <1>3, <1>4
<1> QED
  BY <1>1, <1>3, <1>5 DEF C!TurnBound

(* From one send to the next.                                              *)
LEMMA LatestTyped ==
  /\ Latest(0) = Lag
  /\ \A n \in Nat : Latest(n) \in Nat
                     /\ Latest(n + 1) = Latest(n) + C!Gap + C!TurnBound
<1>1. Lag \in Nat /\ C!Gap + C!TurnBound \in Nat /\ C!Gap \in Nat /\ C!TurnBound \in Nat
  BY CallConstants
<1>2. ASSUME NEW g \in Nat, NEW n \in Nat
      PROVE  n * g \in Nat /\ (n + 1) * g = n * g + g /\ 0 * g = 0
  BY <1>2
<1> QED
  BY <1>1, <1>2 DEF Latest

LEMMA LatestNow ==
  ASSUME Clock
  PROVE  LET n == C!Sends - sendsLeft
         IN  /\ n \in Nat /\ Latest(n) \in Nat
             /\ Latest(n + 1) = Latest(n) + C!Gap + C!TurnBound
<1>1. C!Sends - sendsLeft \in Nat
  BY CallConstants DEF Clock, CallTyped, CallPhase, CallTimes, CallTurns
<1> QED
  BY <1>1, LatestTyped

(* What reaches the client's port.                                         *)
LEMMA ClockDeliver ==
  ASSUME Clock, sockOpen, NEW m, C!Deliver(m),
         UNCHANGED <<cpc, elapsed, now, sendsLeft, resendAt, sockOpen, raised>>
  PROVE  Clock'
<1>1. CASE Len(inbox) < QueueCap
  <2>1. cleft' \in Nat /\ cleft' <= cleft /\ (cpc = "recv" => cleft' <= Lag)
    BY <1>1, CallConstants
       DEF C!Deliver, C!Earlier, Clock, CallTyped, CallPhase, CallTimes, CallTurns
  <2>2. ~(cpc = "returned") /\ ~(cpc = "idle")
    BY DEF Clock, CallTyped, CallPhase, CallTimes, CallTurns
  <2>3. UNCHANGED <<cpc, elapsed, now, sendsLeft, resendAt, sockOpen, raised>>
    OBVIOUS
  <2> QED
    <3>1. CallTyped'
      BY <2>1, <2>3 DEF Clock, CallTyped
    <3>2. CallPhase'
      BY <2>2, <2>3 DEF Clock, CallPhase
    <3>3. CallTimes'
      BY <2>1, <2>3, CallConstants, LatestNow DEF Clock, CallTyped, CallTimes
    <3>4. CallTurns'
      <4>1. /\ cleft \in Nat /\ elapsed \in Nat /\ Lag \in Nat /\ now \in Nat
            /\ resendAt \in Nat /\ Latest(C!Sends - sendsLeft) \in Nat
        BY CallConstants, LatestNow DEF Clock, CallTyped
      <4>2. \A d \in Nat : elapsed + cleft <= d => elapsed + cleft' <= d
        <5>1. ASSUME NEW e \in Nat, NEW l \in Nat, NEW k \in Nat, k <= l, NEW d \in Nat,
                     e + l <= d
              PROVE  e + k <= d
          BY <5>1
        <5> QED
          BY <2>1, <4>1, <5>1
      <4>3. /\ Latest(C!Sends - sendsLeft) \in Nat /\ now + Lag \in Nat
            /\ now + 2 * Lag \in Nat /\ resendAt + 3 * Lag \in Nat
            /\ resendAt + 4 * Lag \in Nat
        BY <4>1
      <4>4. cleft <= Lag => cleft' <= Lag
        BY <2>1, <4>1
      <4>5. CallTurns
        BY DEF Clock
      <4> QED
        BY ONLY <2>1, <2>3, <4>2, <4>3, <4>4, <4>5 DEF CallTurns
    <3> QED
      BY ONLY <3>1, <3>2, <3>3, <3>4 DEF Clock
<1>2. CASE ~(Len(inbox) < QueueCap)
  BY <1>2 DEF C!Deliver, Clock, CallTyped, CallPhase, CallTimes, CallTurns
<1> QED
  BY <1>1, <1>2

(* Time passes within a step of the call.                                  *)
LEMMA ClockTick ==
  ASSUME Clock, C!Tick
  PROVE  Clock'
BY CallConstants, LatestNow
   DEF C!Tick, Clock, CallTyped, CallPhase, CallTimes, CallTurns, C!Running, C!Ended

(* A step of the call keeps its clock.                                     *)
LEMMA ClockCall ==
  ASSUME Clock, C!Call
  PROVE  Clock'
<1> USE CallConstants DEF Clock, CallTyped, CallPhase, CallTimes, CallTurns, C!Goto,
   C!Running, C!Ended
<1> DEFINE n == C!Sends - sendsLeft
<1>0. n \in Nat /\ Latest(n) \in Nat /\ Latest(n + 1) = Latest(n) + C!Gap + C!TurnBound
      /\ Latest(0) = Lag
  BY LatestNow, LatestTyped
<1>1. CASE C!Open
  <2>1. \/ C!Sendable /\ cpc' = "top" /\ cleft' = Lag /\ raised' = raised
        \/ cpc' = "failed" /\ cleft' = 0 /\ raised' = "setup"
    BY <1>1 DEF C!Open
  <2>2. C!Sends - C!Sends = 0
    OBVIOUS
  <2> QED
    BY <1>0, <1>1, <2>1, <2>2 DEF C!Open
<1>2. CASE C!LookAtClock
  BY <1>0, <1>2 DEF C!LookAtClock
<1>3. CASE C!SendAll
  <2>1. C!Sends - (sendsLeft - 1) = n + 1
    OBVIOUS
  <2> QED
    BY <1>0, <1>3, <2>1 DEF C!SendAll
<1>4. CASE C!SendFails
  BY <1>0, <1>4 DEF C!SendFails
<1>5. CASE C!Arm
  <2>1. C!Wait \in Int /\ (sendsLeft > 0 => now + C!Wait <= resendAt)
    BY DEF C!Wait, C!Earlier
  <2>2. UNCHANGED <<elapsed, now, sendsLeft, resendAt, inbox, sockOpen>> /\ cpc = "arm"
    BY <1>0, <1>5 DEF C!Arm
  <2>3. CASE C!Wait > 0
    <3>1. /\ cpc' = "recv" /\ raised' = raised
          /\ cleft' = IF inbox = <<>> THEN C!Wait + Lag ELSE Lag
      BY <1>5, <2>3 DEF C!Arm
    <3>2. cleft' \in Nat /\ cleft' <= C!Wait + Lag /\ (inbox # <<>> => cleft' <= Lag)
      BY <2>1, <2>3, <3>1
    <3>3. sendsLeft > 0 => elapsed + cleft' <= resendAt + 3 * Lag
      <4>1. ASSUME NEW e \in Nat, NEW l \in Nat, NEW m \in Nat, NEW g \in Nat,
                   NEW w \in Int, NEW k \in Nat, NEW r \in Nat, e + l <= m + 2 * g,
                   k <= w + g, m + w <= r
            PROVE  e + k <= r + 3 * g
        BY ONLY <4>1
      <4>2. elapsed + cleft <= now + 2 * Lag
        BY <2>2
      <4> QED
        BY <2>1, <3>2, <4>1, <4>2
    <3> QED
      <4>1. /\ cleft' \in Nat /\ elapsed' \in Nat /\ now' \in Nat /\ resendAt' \in Nat
            /\ sendsLeft' \in 0..C!Sends
        BY <2>2, <3>2
      <4>2. sendsLeft < C!Sends /\ C!Sendable /\ raised = "none"
        BY <2>2
      <4>3. resendAt' + C!TurnBound <= Latest(C!Sends - sendsLeft')
        BY <2>2
      <4>4. cpc' = "recv" /\ raised' = "none" /\ sendsLeft' < C!Sends
            /\ (sendsLeft' > 0 => elapsed' + cleft' <= resendAt' + 3 * Lag)
            /\ (inbox' # <<>> => cleft' <= Lag)
        BY <2>2, <3>1, <3>2, <3>3, <4>2
      <4>5. CallTyped'
        BY ONLY <4>1 DEF CallTyped
      <4>6. CallPhase'
        BY <4>2, <4>4
      <4>7. CallTimes'
        BY <4>1, <4>2, <4>3, <4>4
      <4>8. CallTurns'
        BY <4>1, <4>2, <4>3, <4>4
      <4> QED
        BY ONLY <4>5, <4>6, <4>7, <4>8 DEF Clock
  <2>4. CASE ~(C!Wait > 0)
    <3>1. cpc' = "closing" /\ cleft' = Lag /\ raised' = "wait"
      BY <1>5, <2>4 DEF C!Arm
    <3> QED
      BY <1>0, <2>2, <3>1
  <2> QED
    BY <2>3, <2>4
<1>6. CASE C!RecvDatagram
  BY <1>0, <1>6 DEF C!RecvDatagram
<1>7. CASE C!RecvTimesOut
  BY <1>0, <1>7 DEF C!RecvTimesOut
<1>8. CASE C!Keep
  BY <1>0, <1>8 DEF C!Keep, C!Kept
<1>9. CASE C!Ignore
  BY <1>0, <1>9 DEF C!Ignore
<1>10. CASE C!HandleRaises
  BY <1>0, <1>10 DEF C!HandleRaises
<1>11. CASE C!Close
  BY <1>0, <1>11 DEF C!Close
<1> QED
  BY <1>1, <1>2, <1>3, <1>4, <1>5, <1>6, <1>7, <1>8, <1>9, <1>10, <1>11 DEF C!Call

(* And so does every other step.                                           *)
LEMMA ClockStep ==
  ASSUME Clock, [Next]_vars
  PROVE  Clock'
<1>1. CASE ClientStep
  BY <1>1, ClockCall DEF ClientStep
<1>2. CASE ReachClient
  <2>1. PICK e : \/ sockOpen /\ C!Deliver(e.msg)
                 \/ UNCHANGED <<inbox, cleft>>
    BY <1>2 DEF ReachClient
  <2>2. UNCHANGED <<cpc, elapsed, now, sendsLeft, resendAt, sockOpen, raised>>
    BY <1>2 DEF ReachClient
  <2>3. CASE UNCHANGED <<inbox, cleft>>
    BY <2>2, <2>3 DEF Clock, CallTyped, CallPhase, CallTimes, CallTurns
  <2> QED
    BY <2>1, <2>2, <2>3, ClockDeliver
<1>3. CASE DisturbClient
  <2>1. PICK m : C!Deliver(m)
    BY <1>3 DEF DisturbClient
  <2> QED
    BY <1>3, <2>1, ClockDeliver DEF DisturbClient
<1>4. CASE Tick /\ cpc \notin {"idle"} \cup C!Ended
  BY <1>4, ClockTick DEF Tick
<1>5. CASE UNCHANGED cvars
  BY <1>5 DEF Clock, CallTyped, CallPhase, CallTimes, CallTurns, cvars
<1> QED
  BY <1>1, <1>2, <1>3, <1>4, <1>5
  DEF Next, vars, ResponderStep, Application, Stopping, Restart, Network,
      ReachResponder, Lose, Duplicate, DisturbResponder, Tick

LEMMA ClockInit == Init => Clock
BY CallConstants, LatestTyped
   DEF Init, C!Init, Clock, CallTyped, CallPhase, CallTimes, CallTurns, C!Running,
   C!Ended

-----------------------------------------------------------------------------
(* How many queries there may be, and by when each is answered.            *)

Up == rpc \in R!Looping /\ ~stopEvent

(* All that may be in the buffer of a responder that is up.                *)
Most == 1 + Broadcasts + MaxCopies + MaxNoise

Crowd ==
  /\ noise \in 0..MaxNoise /\ copies \in 0..MaxCopies
  /\ Count(net, Queries) <= 1 + Broadcasts + copies
  /\ Up => /\ Count(net, Queries) + Waiting <= 1 + Broadcasts + copies
           /\ Len(queue) + Len(rcur) <= Waiting + noise

Served(n) == n * R!ServiceBound
Arrived   == resendAt - C!Gap + Lag + MaxDelay
Answered  == Arrived + Served(Most)

Rest ==
  CASE rpc = "top"      -> rleft + Lag
    [] rpc = "announce" -> rleft
    [] rpc = "recv"     -> rleft - Lag
    [] rpc = "check"    -> rleft + JitterMax + 5 * Lag
    [] rpc = "handle"   -> rleft + JitterMax + 4 * Lag
    [] rpc = "jitter"   -> rleft + 3 * Lag
    [] rpc = "reply"    -> rleft + 2 * Lag

(* The queries under way, in the buffer, in hand, and the answers.         *)
QueriesDue ==
  \A e \in DOMAIN net \cap Queries :
    sendsLeft < C!Sends /\ elapsed + e.left <= Arrived

BufferDue ==
  Up => \A i \in DOMAIN queue :
          queue[i].msg = C!Query =>
            sendsLeft < C!Sends /\ elapsed + Rest + Served(i) <= Answered + 2 * Lag

HandDue ==
  Up /\ rcur # <<>> /\ rcur[1].msg = C!Query =>
    sendsLeft < C!Sends /\ elapsed + Rest <= Answered + 2 * Lag

AnswersDue ==
  ~stopEvent => \A e \in DOMAIN net \cap Sent(life, Qid) :
    sendsLeft < C!Sends /\ elapsed + e.left <= Answered + MaxDelay

Deadlines == QueriesDue /\ BufferDue /\ HandDue /\ AnswersDue

-----------------------------------------------------------------------------
(* Arithmetic of the bounds.                                               *)

(* What a number of datagrams takes to be served.                          *)
LEMMA ServedTyped ==
  /\ R!ServiceBound \in Nat /\ R!ServiceBound = JitterMax + 7 * Lag
  /\ Most \in Nat /\ Lag \in Nat /\ JitterMax \in Nat /\ MaxDelay \in Nat
  /\ MaxNoise \in Nat /\ MaxCopies \in Nat /\ Broadcasts \in Nat
  /\ \A n \in Nat : Served(n) \in Nat /\ Served(n + 1) = Served(n) + R!ServiceBound
  /\ \A n, m \in Nat : n <= m => Served(n) <= Served(m)
<1>1. /\ Lag \in Nat /\ JitterMax \in Nat /\ MaxDelay \in Nat
      /\ MaxNoise \in Nat /\ MaxCopies \in Nat /\ Broadcasts \in Nat
  BY ComponentAssumption
<1>2. R!ServiceBound \in Nat /\ R!ServiceBound = JitterMax + 7 * Lag
  BY <1>1 DEF R!ServiceBound
<1>3. ASSUME NEW s \in Nat
      PROVE  /\ \A n \in Nat : n * s \in Nat /\ (n + 1) * s = n * s + s
             /\ \A n, m \in Nat : n <= m => n * s <= m * s
  BY <1>3
<1>4. Most \in Nat
  BY <1>1 DEF Most
<1> QED
  BY <1>1, <1>2, <1>3, <1>4 DEF Served

(* The window leaves time for the last of a crowd to be served and for its *)
(* answer to travel, and for the loop to take in a full buffer.            *)
LEMMA WindowParts ==
  ASSUME Window
  PROVE  \E spare \in Nat :
           /\ spare = (C!Sends - 1 + QueueCap) * C!TurnBound
           /\ 5 * Lag <= spare
           /\ 2 * MaxDelay + Served(Most) + spare < C!Gap
<1>1. C!Sends \in Nat /\ C!Sends >= 1 /\ C!TurnBound \in Nat /\ C!TurnBound = 5 * Lag
      /\ QueueCap \in Nat /\ QueueCap >= 1
  BY CallConstants, ComponentAssumption
<1>2. ASSUME NEW a \in Nat, NEW b \in Nat, a >= 1
      PROVE  a * b \in Nat /\ b <= a * b
  BY <1>2
<1>3. C!Sends - 1 + QueueCap \in Nat /\ C!Sends - 1 + QueueCap >= 1
  BY <1>1
<1> DEFINE spare == (C!Sends - 1 + QueueCap) * C!TurnBound
<1>4. spare \in Nat /\ 5 * Lag <= spare
  BY <1>1, <1>2, <1>3
<1>5. 2 * MaxDelay + Served(Most) + spare < C!Gap
  BY DEF Window, Served, Most
<1> HIDE DEF spare
<1> QED
  BY <1>4, <1>5 DEF spare

(* Time passes by Tick alone, and sends only put the deadlines off.        *)
LEMMA TimePasses ==
  ASSUME Clock, [Next]_vars
  PROVE  /\ elapsed \in Nat /\ elapsed' \in Nat /\ resendAt \in Nat /\ resendAt' \in Nat
         /\ sendsLeft < C!Sends => sendsLeft' < C!Sends
         /\ resendAt <= resendAt'
         /\ elapsed' = elapsed \/ (Tick /\ elapsed' = elapsed + 1)
<1>1. /\ elapsed \in Nat /\ resendAt \in Nat /\ sendsLeft \in Nat /\ C!Sends \in Nat
      /\ elapsed' \in Nat /\ resendAt' \in Nat
  BY ClockStep, CallConstants DEF Clock, CallTyped
<1>2. CASE ClientStep
  <2>1. CASE C!SendAll
    <3>1. /\ elapsed' = elapsed /\ sendsLeft' = sendsLeft - 1 /\ resendAt' = now + C!Gap
          /\ cpc = "send"
      BY <2>1 DEF C!SendAll
    <3>2. now \in Nat /\ C!Gap \in Nat /\ resendAt <= now
      BY <3>1, CallConstants DEF Clock, CallTyped, CallTurns
    <3> QED
      BY <1>1, <3>1, <3>2
  <2>2. CASE ~C!SendAll
    <3>1. UNCHANGED <<elapsed, sendsLeft, resendAt>>
      BY <1>2, <2>2 DEF ClientStep, C!Call, C!Open, C!LookAtClock, C!SendFails, C!Arm,
         C!RecvDatagram, C!RecvTimesOut, C!Keep, C!Kept, C!Ignore, C!HandleRaises, C!Close
    <3> QED
      BY <1>1, <3>1
  <2> QED
    BY <2>1, <2>2
<1>3. CASE Tick
  <2>1. UNCHANGED <<sendsLeft, resendAt>> /\ elapsed' \in {elapsed, elapsed + 1}
    BY <1>3 DEF Tick, C!Tick, cvars
  <2> QED
    BY <1>1, <1>3, <2>1
<1>4. CASE ~ClientStep /\ ~Tick
  <2>1. UNCHANGED <<elapsed, sendsLeft, resendAt>>
    BY <1>4 DEF Next, vars, cvars, ResponderStep, Application, Stopping, Restart,
       Network,
       ReachResponder, ReachClient, Lose, Duplicate, DisturbResponder, DisturbClient
  <2> QED
    BY <1>1, <2>1
<1> QED
  BY <1>2, <1>3, <1>4

(* A bound on what is due is a later one after the step.                   *)
LEMMA DueLater ==
  ASSUME Clock, [Next]_vars
  PROVE  /\ Arrived \in Int /\ Arrived' \in Int /\ Arrived <= Arrived'
         /\ Answered \in Int /\ Answered' \in Int /\ Answered <= Answered'
         /\ Answered = Arrived + Served(Most) /\ Served(Most) \in Nat
<1>1. /\ resendAt \in Nat /\ resendAt' \in Nat /\ resendAt <= resendAt'
      /\ C!Gap \in Nat /\ Lag \in Nat /\ MaxDelay \in Nat
  BY TimePasses, CallConstants, ServedTyped
<1>2. Served(Most) \in Nat
  BY ServedTyped
<1>3. Arrived \in Int /\ Arrived' \in Int /\ Arrived <= Arrived'
  <2>1. ASSUME NEW r \in Nat, NEW s \in Nat, r <= s
        PROVE  /\ r - C!Gap + Lag + MaxDelay \in Int /\ s - C!Gap + Lag + MaxDelay \in Int
               /\ r - C!Gap + Lag + MaxDelay <= s - C!Gap + Lag + MaxDelay
    BY <1>1, <2>1
  <2>2. Arrived = resendAt - C!Gap + Lag + MaxDelay
        /\ Arrived' = resendAt' - C!Gap + Lag + MaxDelay
    BY DEF Arrived, C!Gap, C!Sends
  <2> QED
    BY <1>1, <2>1, <2>2
<1>4. Answered = Arrived + Served(Most) /\ Answered' = Arrived' + Served(Most)
  BY DEF Answered, Served, Most, R!ServiceBound
<1> QED
  BY <1>2, <1>3, <1>4

(* Only the call and the clock move the clock of the call.                 *)
LEMMA ClockSame ==
  ASSUME [Next]_vars, ~ClientStep, ~Tick
  PROVE  UNCHANGED <<cpc, elapsed, now, sendsLeft, resendAt, sockOpen, raised, found, ccur>>
BY DEF Next, vars, cvars, ResponderStep, Application, Stopping, Restart, Network,
   ReachResponder, ReachClient, Lose, Duplicate, DisturbResponder, DisturbClient

-----------------------------------------------------------------------------
(* What is left of the thread's turn.                                      *)

(* Rest, case by case, and its bounds.                                     *)
LEMMA RestValues ==
  /\ rpc = "top"      => Rest = rleft + Lag
  /\ rpc = "announce" => Rest = rleft
  /\ rpc = "recv"     => Rest = rleft - Lag
  /\ rpc = "check"    => Rest = rleft + JitterMax + 5 * Lag
  /\ rpc = "handle"   => Rest = rleft + JitterMax + 4 * Lag
  /\ rpc = "jitter"   => Rest = rleft + 3 * Lag
  /\ rpc = "reply"    => Rest = rleft + 2 * Lag
BY DEF Rest

LEMMA RestTyped ==
  ASSUME ThreadInv, rpc \in R!Looping
  PROVE  /\ Rest \in Int /\ Rest >= 0 - Lag
         /\ rcur = <<>> => rpc \in {"top", "announce", "recv"} \/ Rest <= R!ServiceBound + 2 * Lag
         /\ rpc \in {"check", "handle", "jitter", "reply"} =>
              Rest >= 2 * Lag /\ Rest <= R!ServiceBound + 2 * Lag
         /\ rpc \in {"top", "announce"} => Rest <= 2 * Lag
         /\ rpc = "recv" /\ queue # <<>> => Rest <= 0
<1>1. Lag \in Nat /\ JitterMax \in Nat /\ R!ServiceBound = JitterMax + 7 * Lag
  BY ServedTyped
<1> QED
  BY <1>1, RestValues DEF ThreadInv, R!Looping

(* A step of the thread does not put off what waits, and a datagram that   *)
(* is taken up takes the place of one that was served.                     *)
LEMMA RestThread ==
  ASSUME ThreadInv, R!Thread, Up, Up'
  PROVE  /\ Rest \in Int /\ Rest' \in Int
         /\ \/ /\ queue' = queue /\ (rcur' = rcur \/ rcur' = <<>>)
               /\ queue # <<>> \/ rcur' # <<>> => Rest' <= Rest
            \/ /\ queue # <<>> /\ queue' = Tail(queue)
               /\ rcur = <<>> /\ rcur' = <<Head(queue)>>
               /\ Rest' <= Rest + R!ServiceBound
<1>0. Lag \in Nat /\ JitterMax \in Nat /\ R!ServiceBound = JitterMax + 7 * Lag
      /\ R!ServiceBound \in Nat /\ RecvTimeout \in Nat
  BY ServedTyped, ComponentAssumption
<1>1. rleft \in Nat
  BY DEF ThreadInv
<1>2. rpc \in R!Looping /\ rpc' \in R!Looping /\ ~stopEvent
  BY DEF Up
<1>a. /\ rpc' = "top"      => Rest' = rleft' + Lag
      /\ rpc' = "announce" => Rest' = rleft'
      /\ rpc' = "recv"     => Rest' = rleft' - Lag
      /\ rpc' = "check"    => Rest' = rleft' + JitterMax + 5 * Lag
      /\ rpc' = "handle"   => Rest' = rleft' + JitterMax + 4 * Lag
      /\ rpc' = "jitter"   => Rest' = rleft' + 3 * Lag
      /\ rpc' = "reply"    => Rest' = rleft' + 2 * Lag
  BY DEF Rest
<1>3. CASE R!LoopTop
  <2>1. rpc = "top" /\ rpc' = "announce" /\ rleft' = Lag /\ queue' = queue /\ rcur' = rcur
    BY <1>2, <1>3 DEF R!LoopTop, R!Goto
  <2>2. Rest = rleft + Lag /\ Rest' = Lag
    BY <1>a, <2>1, RestValues
  <2> QED
    BY <1>0, <1>1, <2>1, <2>2
<1>4. CASE R!SkipAnnounce
  <2>1. /\ rpc = "announce" /\ rpc' = "recv" /\ queue' = queue /\ rcur' = rcur
        /\ rleft' = IF queue = <<>> THEN RecvTimeout + Lag ELSE Lag
        /\ rcur = <<>>
    BY <1>4 DEF R!SkipAnnounce, R!EnterRecv, ThreadInv
  <2>2. Rest = rleft /\ Rest' = rleft' - Lag
    BY <1>a, <2>1, RestValues
  <2> QED
    BY <1>0, <1>1, <2>1, <2>2
<1>5. CASE R!RecvDatagram
  <2>1. /\ rpc = "recv" /\ rpc' = "check" /\ rleft' = Lag /\ queue # <<>>
        /\ queue' = Tail(queue) /\ rcur = <<>> /\ rcur' = <<Head(queue)>>
    BY <1>5 DEF R!RecvDatagram, R!Goto, ThreadInv
  <2>2. Rest = rleft - Lag /\ Rest' = Lag + JitterMax + 5 * Lag
    BY <1>a, <2>1, RestValues
  <2> QED
    BY <1>0, <1>1, <2>1, <2>2
<1>6. CASE R!RecvTimesOut
  <2>1. /\ rpc = "recv" /\ rpc' = "top" /\ rleft' = Lag /\ queue = <<>>
        /\ queue' = queue /\ rcur' = rcur /\ rcur = <<>>
    BY <1>6 DEF R!RecvTimesOut, R!Goto, ThreadInv
  <2>2. Rest = rleft - Lag /\ Rest' = 2 * Lag
    BY <1>0, <1>a, <2>1, RestValues
  <2> QED
    BY <1>0, <1>1, <2>1, <2>2
<1>7. CASE R!CheckStop
  <2>1. rpc = "check" /\ rpc' = "handle" /\ rleft' = Lag /\ queue' = queue /\ rcur' = rcur
    BY <1>2, <1>7 DEF R!CheckStop, R!Goto
  <2>2. Rest = rleft + JitterMax + 5 * Lag /\ Rest' = Lag + JitterMax + 4 * Lag
    BY <1>a, <2>1, RestValues
  <2> QED
    BY <1>0, <1>1, <2>1, <2>2
<1>8. CASE R!Discard
  <2>1. rpc = "handle" /\ rpc' = "top" /\ rleft' = Lag /\ queue' = queue /\ rcur' = <<>>
    BY <1>8 DEF R!Discard, R!Goto, R!Drop
  <2>2. Rest = rleft + JitterMax + 4 * Lag /\ Rest' = Lag + Lag
    BY <1>a, <2>1, RestValues
  <2> QED
    BY <1>0, <1>1, <2>1, <2>2
<1>9. CASE R!StartJitter
  <2>1. /\ rpc = "handle" /\ rpc' = "jitter" /\ queue' = queue /\ rcur' = rcur
        /\ \E jitter \in 0..JitterMax : rleft' = jitter + Lag
    BY <1>9 DEF R!StartJitter
  <2>2. Rest = rleft + JitterMax + 4 * Lag /\ Rest' = rleft' + 3 * Lag
    BY <1>a, <2>1, RestValues
  <2>3. PICK jitter \in 0..JitterMax : rleft' = jitter + Lag
    BY <2>1
  <2> QED
    BY <1>0, <1>1, <2>1, <2>2, <2>3
<1>10. CASE R!JitterEnds
  <2>1. rpc = "jitter" /\ rpc' = "reply" /\ rleft' = Lag /\ queue' = queue /\ rcur' = rcur
    BY <1>10 DEF R!JitterEnds, R!Goto
  <2>2. Rest = rleft + 3 * Lag /\ Rest' = Lag + 2 * Lag
    BY <1>a, <2>1, RestValues
  <2> QED
    BY <1>0, <1>1, <2>1, <2>2
<1>11. CASE R!Reply
  <2>1. rpc = "reply" /\ rpc' = "top" /\ rleft' = Lag /\ queue' = queue /\ rcur' = <<>>
    BY <1>11 DEF R!Reply, R!Goto, R!Drop
  <2>2. Rest = rleft + 2 * Lag /\ Rest' = Lag + Lag
    BY <1>a, <2>1, RestValues
  <2> QED
    BY <1>0, <1>1, <2>1, <2>2
<1>12. ~R!OpenSocket /\ ~R!PeriodicAnnounce /\ ~R!AnnounceTooLong /\ ~R!HandleRaises
       /\ ~R!ReplyTooLong /\ ~R!CloseSockets
  BY <1>2 DEF R!OpenSocket, R!PeriodicAnnounce, R!AnnounceDue, R!AnnounceTooLong,
     R!HandleRaises, R!ReplyTooLong, R!CloseSockets, R!Looping, R!Goto
<1> QED
  BY <1>3, <1>4, <1>5, <1>6, <1>7, <1>8, <1>9, <1>10, <1>11, <1>12 DEF R!Thread

(* A unit of time is a unit less to do.                                    *)
LEMMA RestTick ==
  ASSUME ThreadInv, R!Tick, rpc \in R!Looping
  PROVE  Rest \in Int /\ Rest' = Rest - 1
<1>1. rpc' = rpc /\ rleft' = rleft - 1 /\ rleft \in Nat
  BY DEF R!Tick, ThreadInv, R!Looping, R!Parked
<1>2. Lag \in Nat /\ JitterMax \in Nat
  BY ServedTyped
<1>3. /\ rpc = "top"      => Rest' = rleft - 1 + Lag
      /\ rpc = "announce" => Rest' = rleft - 1
      /\ rpc = "recv"     => Rest' = rleft - 1 - Lag
      /\ rpc = "check"    => Rest' = rleft - 1 + JitterMax + 5 * Lag
      /\ rpc = "handle"   => Rest' = rleft - 1 + JitterMax + 4 * Lag
      /\ rpc = "jitter"   => Rest' = rleft - 1 + 3 * Lag
      /\ rpc = "reply"    => Rest' = rleft - 1 + 2 * Lag
  BY <1>1 DEF Rest
<1> QED
  BY <1>1, <1>2, <1>3, RestValues DEF R!Looping

(* A datagram that arrives only wakes the thread.                          *)
LEMMA RestEnqueue ==
  ASSUME ThreadInv, rpc \in R!Looping, rpc' = rpc, rleft' \in Nat, rleft' <= rleft
  PROVE  Rest \in Int /\ Rest' \in Int /\ Rest' <= Rest
<1>1. rleft \in Nat
  BY DEF ThreadInv
<1>2. Lag \in Nat /\ JitterMax \in Nat
  BY ServedTyped
<1>3. /\ rpc = "top"      => Rest' = rleft' + Lag
      /\ rpc = "announce" => Rest' = rleft'
      /\ rpc = "recv"     => Rest' = rleft' - Lag
      /\ rpc = "check"    => Rest' = rleft' + JitterMax + 5 * Lag
      /\ rpc = "handle"   => Rest' = rleft' + JitterMax + 4 * Lag
      /\ rpc = "jitter"   => Rest' = rleft' + 3 * Lag
      /\ rpc = "reply"    => Rest' = rleft' + 2 * Lag
  BY DEF Rest
<1>4. ASSUME NEW l \in Nat, NEW k \in Nat, k <= l, NEW c \in Int
      PROVE  /\ l + c \in Int /\ k + c \in Int /\ k + c <= l + c
             /\ l - c \in Int /\ k - c \in Int /\ k - c <= l - c
  BY <1>4
<1>5. CASE rpc = "top" \/ rpc = "announce" \/ rpc = "recv"
  BY <1>1, <1>2, <1>3, <1>4, <1>5, RestValues
<1>6. ASSUME NEW l \in Nat, NEW k \in Nat, k <= l
      PROVE  /\ l + JitterMax + 5 * Lag \in Int /\ k + JitterMax + 5 * Lag \in Int
             /\ k + JitterMax + 5 * Lag <= l + JitterMax + 5 * Lag
             /\ l + JitterMax + 4 * Lag \in Int /\ k + JitterMax + 4 * Lag \in Int
             /\ k + JitterMax + 4 * Lag <= l + JitterMax + 4 * Lag
  BY <1>2, <1>6
<1>7. CASE rpc = "check" \/ rpc = "handle"
  BY <1>1, <1>3, <1>6, <1>7, RestValues
<1>8. 3 * Lag \in Int /\ 2 * Lag \in Int
  BY <1>2
<1>9. CASE rpc = "jitter" \/ rpc = "reply"
  BY <1>1, <1>3, <1>4, <1>8, <1>9, RestValues
<1> QED
  BY <1>5, <1>7, <1>9 DEF R!Looping

(* A datagram that has been sent comes back before the next is due, and    *)
(* before the loop would no longer take it up.                             *)
LEMMA WindowLeaves ==
  ASSUME Window, Clock, sendsLeft < C!Sends
  PROVE  /\ Answered \in Int
         /\ Answered + MaxDelay + 3 * Lag < resendAt
         /\ Answered + MaxDelay + QueueCap * C!TurnBound < Timeout + 2 * Lag
<1>1. /\ C!Sends \in Nat /\ C!Sends >= 1 /\ C!Gap \in Nat /\ C!TurnBound \in Nat
      /\ C!Gap * C!Sends = Timeout /\ Timeout \in Nat /\ Lag \in Nat
      /\ C!TurnBound = 5 * Lag
  BY CallConstants
<1>2. resendAt \in Nat /\ sendsLeft \in Nat /\ resendAt + C!TurnBound <= Latest(C!Sends - sendsLeft)
  BY <1>1 DEF Clock, CallTyped, CallTimes
<1>a. QueueCap \in Nat /\ QueueCap >= 1
  BY ComponentAssumption
<1>3. QueueCap \in Nat /\ QueueCap >= 1 /\ MaxDelay \in Nat /\ Served(Most) \in Nat
  BY <1>a, ServedTyped
<1>4. PICK spare \in Nat : /\ spare = (C!Sends - 1 + QueueCap) * C!TurnBound
                           /\ 5 * Lag <= spare
                           /\ 2 * MaxDelay + Served(Most) + spare < C!Gap
  BY WindowParts
<1>5. Answered = resendAt - C!Gap + Lag + MaxDelay + Served(Most)
  BY DEF Answered, Arrived
<1>6. ASSUME NEW n \in Nat, NEW m \in Nat, m <= n, NEW g \in Nat
      PROVE  m * g <= n * g /\ m * g \in Nat /\ n * g \in Nat
  BY <1>6
<1>7. ASSUME NEW n \in Nat, NEW g \in Nat, NEW t \in Nat, NEW q \in Nat
      PROVE  /\ n * (g + t) = g * n + n * t /\ n * t \in Nat /\ q * t \in Nat
             /\ (n - 1 + q) * t = n * t - t + q * t
  BY <1>7
<1>8. Latest(C!Sends - sendsLeft) <= Lag + Timeout + C!Sends * C!TurnBound
  <2>1. C!Sends - sendsLeft \in Nat /\ C!Sends - sendsLeft <= C!Sends /\ C!Gap + C!TurnBound \in Nat
    BY <1>1, <1>2 DEF Clock, CallTyped
  <2>2. (C!Sends - sendsLeft) * (C!Gap + C!TurnBound) <= C!Sends * (C!Gap + C!TurnBound)
    BY <1>1, <1>6, <2>1
  <2>3. C!Sends * (C!Gap + C!TurnBound) = Timeout + C!Sends * C!TurnBound
    BY <1>1, <1>7
  <2>4. (C!Sends - sendsLeft) * (C!Gap + C!TurnBound) \in Nat /\ C!Sends * C!TurnBound \in Nat
    BY <1>1, <1>6, <2>1
  <2> QED
    BY <1>1, <2>2, <2>3, <2>4 DEF Latest
<1>9. /\ C!Sends * C!TurnBound \in Nat /\ QueueCap * C!TurnBound \in Nat
      /\ spare = C!Sends * C!TurnBound - C!TurnBound + QueueCap * C!TurnBound
  BY <1>1, <1>3, <1>4, <1>7
<1>10. Latest(C!Sends - sendsLeft) \in Nat
  BY LatestNow
<1>11. ASSUME NEW a \in Int, NEW r \in Nat, NEW g \in Nat, NEW l \in Nat, NEW d \in Nat,
              NEW s \in Nat, NEW t \in Nat, NEW z \in Nat, NEW st \in Nat, NEW qt \in Nat,
              NEW x \in Nat,
              a = r - g + l + d + s, 2 * d + s + z < g, 5 * l <= z, t = 5 * l,
              z = st - t + qt, r + t <= x, NEW o \in Nat, x <= l + o + st
       PROVE  a + d + 3 * l < r /\ a + d + qt < o + 2 * l
  BY <1>11
<1>12. Answered \in Int
  BY <1>1, <1>2, <1>3, <1>5
<1> HIDE DEF Latest, Served, Answered
<1> QED
  BY <1>1, <1>2, <1>3, <1>4, <1>5, <1>8, <1>9, <1>10, <1>11, <1>12

(* What is under way or waits, asked or answered, is due.                  *)
LEMMA QueriesPending ==
  ASSUME NetInv, QueriesDue, Clock, Count(net, Queries) > 0
  PROVE  sendsLeft < C!Sends /\ elapsed <= Answered + MaxDelay + 3 * Lag
<1>1. PICK e \in DOMAIN net : e \in Queries
  BY NetBag, CountPositive
<1>2. sendsLeft < C!Sends /\ elapsed + e.left <= Arrived /\ e.left \in Nat
  BY <1>1 DEF QueriesDue, NetInv
<1>3. /\ Arrived \in Int /\ Answered = Arrived + Served(Most) /\ Served(Most) \in Nat
      /\ Answered \in Int /\ MaxDelay \in Nat /\ Lag \in Nat /\ elapsed \in Nat
  <2>1. resendAt \in Nat /\ elapsed \in Nat /\ C!Gap \in Nat
    BY CallConstants DEF Clock, CallTyped
  <2>2. Served(Most) \in Nat /\ MaxDelay \in Nat /\ Lag \in Nat
    BY ServedTyped
  <2> HIDE DEF Served, Most, C!Gap
  <2>3. Arrived \in Int
    BY <2>1, <2>2 DEF Arrived
  <2> QED
    BY <2>1, <2>2, <2>3 DEF Answered
<1> HIDE DEF Answered, Arrived, Served
<1> QED
  BY <1>2, <1>3

LEMMA WaitingPending ==
  ASSUME Typed, ThreadInv, BufferDue, HandDue, Clock, Up, Waiting > 0
  PROVE  sendsLeft < C!Sends /\ elapsed <= Answered + MaxDelay + 3 * Lag
<1>1. /\ Answered \in Int /\ MaxDelay \in Nat /\ Lag \in Nat /\ elapsed \in Nat
  <2>1. resendAt \in Nat /\ elapsed \in Nat /\ C!Gap \in Nat
    BY CallConstants DEF Clock, CallTyped
  <2> QED
    BY <2>1, ServedTyped DEF Answered, Arrived
<1>2. Rest \in Int /\ Rest >= 0 - Lag
  BY RestTyped DEF Up
<1>3. Asks(queue) \in Nat /\ Asks(rcur) \in Nat
  BY WaitingTyped
<1>4. CASE Asks(queue) > 0
  <2>1. PICK i \in DOMAIN queue : queue[i].msg = C!Query
    BY <1>4, AsksPositive
  <2>2. i \in Nat /\ Served(i) \in Nat
    <3>1. queue \in Seq(Entries)
      BY DEF Typed
    <3>2. i \in Nat
      BY <3>1
    <3> QED
      BY <3>2, ServedTyped
  <2>3. sendsLeft < C!Sends /\ elapsed + Rest + Served(i) <= Answered + 2 * Lag
    BY <2>1 DEF BufferDue
  <2> HIDE DEF Answered, Served, Rest
  <2> QED
    BY <1>1, <1>2, <2>2, <2>3
<1>5. CASE Asks(rcur) > 0
  <2>1. rcur # <<>> /\ rcur[1].msg = C!Query
    BY <1>5, HandCounts
  <2>2. sendsLeft < C!Sends /\ elapsed + Rest <= Answered + 2 * Lag
    BY <2>1 DEF HandDue
  <2> HIDE DEF Answered, Rest
  <2> QED
    BY <1>1, <1>2, <2>2
<1> QED
  BY <1>3, <1>4, <1>5 DEF Waiting

(* When a send is due, nothing of the one before it is left.               *)
LEMMA NothingLeft ==
  ASSUME Window, Typed, NetInv, ThreadInv, Clock, Deadlines, cpc = "send"
  PROVE  Count(net, Queries) = 0 /\ (Up => Waiting = 0)
<1>1. resendAt <= now /\ now <= elapsed /\ resendAt \in Nat /\ now \in Nat /\ elapsed \in Nat
  BY DEF Clock, CallTyped, CallTurns
<1>2. Count(net, Queries) \in Nat /\ Waiting \in Nat
  BY NetBag, EachFinite, WaitingTyped
<1>3. MaxDelay \in Nat /\ Lag \in Nat
  BY ServedTyped
<1>4. ~(sendsLeft < C!Sends /\ elapsed <= Answered + MaxDelay + 3 * Lag)
  BY <1>1, <1>3, WindowLeaves
<1>5. ~(Count(net, Queries) > 0)
  BY <1>4, QueriesPending DEF Deadlines
<1>6. Up => ~(Waiting > 0)
  BY <1>4, WaitingPending DEF Deadlines
<1> QED
  BY <1>2, <1>5, <1>6

LEMMA QueriesSame == Queries' = Queries
BY DEF Queries, C!Query, C!BuildQuery, C!EmptyFilter

LEMMA UpTyped ==
  ASSUME Typed
  PROVE  Len(queue) \in Nat /\ Len(rcur) \in Nat
BY DEF Typed

(* The port is opened with nothing in the buffer or in hand.               *)
LEMMA UpStep ==
  ASSUME ThreadInv, [Next]_vars, Up'
  PROVE  /\ Up \/ (ResponderStep /\ rpc = "opening")
         /\ ~Application \/ UNCHANGED vars
         /\ ~Stopping /\ ~Restart
<1>0. rpc' \in R!Looping /\ ~stopEvent'
  BY DEF Up
<1>1. ~Restart
  BY <1>0 DEF Restart, R!Looping
<1>2. ~Application
  BY <1>0 DEF Application, R!Start, R!StopSetsEvent, R!Goto, R!Looping
<1>3. ~Stopping
  BY <1>0 DEF Stopping, R!Stopping, R!StopPokes, R!JoinReturns, ThreadInv
<1>4. CASE ResponderStep
  <2>1. stopEvent' = stopEvent
    BY <1>4 DEF ResponderStep, R!Thread, R!appVars, R!OpenSocket, R!LoopTop,
       R!SkipAnnounce, R!PeriodicAnnounce, R!AnnounceTooLong, R!RecvDatagram,
       R!RecvTimesOut, R!CheckStop, R!Discard, R!HandleRaises, R!StartJitter, R!JitterEnds, R!Reply,
       R!ReplyTooLong, R!CloseSockets
  <2>2. rpc \in R!Looping \/ rpc = "opening"
    BY <1>0, <1>4 DEF ResponderStep, R!Thread, R!OpenSocket, R!LoopTop,
       R!SkipAnnounce, R!PeriodicAnnounce, R!AnnounceTooLong, R!RecvDatagram,
       R!RecvTimesOut, R!CheckStop, R!Discard, R!HandleRaises, R!StartJitter, R!JitterEnds, R!Reply,
       R!ReplyTooLong, R!CloseSockets, R!Looping
  <2> QED
    BY <1>0, <1>1, <1>2, <1>3, <1>4, <2>1, <2>2 DEF Up
<1>5. CASE ~ResponderStep
  <2>1. UNCHANGED <<rpc, stopEvent>>
    BY <1>1, <1>2, <1>3, <1>5
       DEF Next, vars, rvars, ClientStep, Network, ReachResponder,
       ReachClient, Lose, Duplicate, DisturbResponder, DisturbClient, Tick, R!Tick
  <2> QED
    BY <1>0, <1>1, <1>2, <1>3, <2>1 DEF Up
<1> QED
  BY <1>4, <1>5

(* What a responder that is up has to do is bounded: by the copies of one  *)
(* send and by what others sent, for the sends before it are dealt with.   *)
LEMMA CrowdStep ==
  ASSUME Window, Inv, NetInv, ThreadInv, Clock, Deadlines, Crowd, [Next]_vars
  PROVE  Crowd'
<1> DEFINE K    == Count(net, Queries)
           Knew == Count(net', Queries)
           W    == Waiting
           Long == Len(queue) + Len(rcur)
<1>0. Typed /\ BagToSet(net) = DOMAIN net /\ ABag(net) /\ Broadcasts \in Nat
      /\ MaxCopies \in Nat /\ MaxNoise \in Nat
  BY NetBag, ComponentAssumption DEF Inv, BagToSet
<1>1. /\ K \in Nat /\ W \in Nat /\ Long \in Nat
      /\ noise \in 0..MaxNoise /\ copies \in 0..MaxCopies
      /\ K <= 1 + Broadcasts + copies
      /\ Up => K + W <= 1 + Broadcasts + copies /\ Long <= W + noise
  BY <1>0, NetCounted, WaitingTyped, UpTyped DEF Crowd
<1>2. SUFFICES /\ noise' \in 0..MaxNoise /\ copies' \in 0..MaxCopies
               /\ Knew <= 1 + Broadcasts + copies'
               /\ Up' => /\ Knew + Waiting' <= 1 + Broadcasts + copies'
                         /\ Len(queue') + Len(rcur') <= Waiting' + noise'
  <2>1. Count(net, Queries)' = Knew
    BY QueriesSame DEF Count, Each
  <2> QED
    BY <2>1 DEF Crowd
<1>n. Typed'
  BY InvStep DEF Inv
<1> HIDE DEF K, Knew, W, Long
<1>3. CASE ClientStep
  <2>1. PICK n \in Nat : /\ net' = net (+) Times(n, Token("responder", C!Query))
                         /\ n <= 1 + Broadcasts
                         /\ n # 0 => C!SendAll
    BY <1>3, ClientSends
  <2>2. Token("responder", C!Query) \in Queries
    BY <1>0, TokenParts
  <2>3. Knew = K + n
    BY <1>0, <2>1, <2>2, CountAdd DEF K, Knew
  <2>4. n # 0 => K = 0 /\ (Up => W = 0)
    BY <1>0, <2>1, NothingLeft DEF C!SendAll, K, W
  <2>5. UNCHANGED <<copies, noise, queue, rcur, rpc, stopEvent>>
    BY <1>3 DEF ClientStep, rvars
  <2>6. Up' = Up /\ Waiting' = W /\ Len(queue') + Len(rcur') = Long
    BY <2>5 DEF Up, Waiting, Asks, W, Long
  <2> QED
    BY <1>0, <1>1, <2>1, <2>3, <2>4, <2>5, <2>6
<1>4. CASE ResponderStep
  <2>1. R!Thread /\ UNCHANGED <<copies, noise>>
    BY <1>4 DEF ResponderStep
  <2>2. Knew = K
    <3>1. CASE net' = net
      BY <3>1 DEF K, Knew
    <3>2. CASE net' # net
      <4>1. PICK qid \in Qids : net' = net (+) Times(1, Token("client", Says(qid)))
        BY <1>4, <3>2, ReplySends
      <4>2. Token("client", Says(qid)) \notin Queries
        BY <1>0, TokenParts DEF Queries
      <4> QED
        BY <4>1, <4>2, CountOne DEF K, Knew
    <3> QED
      BY <3>1, <3>2
  <2>3. Up' => Up \/ rpc = "opening"
    BY UpStep
  <2>4. CASE rpc = "opening"
    <3>1. queue' = <<>> /\ rcur' = <<>>
      BY <2>1, <2>4, ThreadCounts DEF ThreadInv
    <3>2. Waiting' = 0 /\ Len(queue') + Len(rcur') = 0
      BY <3>1, AsksNone DEF Waiting, Asks
    <3> QED
      BY <1>0, <1>1, <2>1, <2>2, <3>2
  <2>5. CASE rpc # "opening" /\ Up'
    <3>1. Up /\ Waiting' <= W /\ Waiting' \in Nat
      BY <2>1, <2>3, <2>5, ThreadWaiting DEF W
    <3>2. (Len(queue') + Len(rcur')) + W <= Long + Waiting'
      <4>1. /\ Len(queue) \in Nat /\ Len(rcur) \in Nat /\ Asks(rcur) \in Nat
            /\ Asks(rcur) <= Len(rcur) /\ Asks(queue) \in Nat
            /\ W = Asks(queue) + Asks(rcur) /\ Long = Len(queue) + Len(rcur)
        BY <1>0, WaitingTyped, UpTyped DEF W, Waiting, Long
      <4>2. CASE queue' = queue /\ rcur' = rcur
        <5>1. Waiting' = W /\ Len(queue') + Len(rcur') = Long
          BY <2>1, <4>2, ThreadWaiting DEF W, Long
        <5> QED
          BY <1>1, <5>1
      <4>3. CASE queue' = queue /\ rcur' = <<>>
        <5>1. Asks(<<>>) = 0 /\ Len(<<>>) = 0
          BY AsksNone
        <5>2. Waiting' = Asks(queue) + 0 /\ Len(queue') + Len(rcur') = Len(queue) + 0
          BY <4>3, <5>1 DEF Waiting, Asks
        <5>3. ASSUME NEW a \in Nat, NEW b \in Nat, NEW c \in Nat, NEW d \in Nat, c <= d
              PROVE  (b + 0) + (a + c) <= (b + d) + (a + 0)
          BY <5>3
        <5> QED
          BY <4>1, <5>2, <5>3
      <4>4. CASE queue # <<>> /\ queue' = Tail(queue) /\ rcur = <<>> /\ rcur' = <<Head(queue)>>
        <5>1. Waiting' = W
          BY <2>1, <4>4, ThreadWaiting DEF W
        <5>2. Len(queue') = Len(queue) - 1 /\ Len(rcur') = 1 /\ Len(rcur) = 0
          BY <1>0, <4>4 DEF Typed
        <5>3. Len(queue') + Len(rcur') = Long
          BY <4>1, <5>2
        <5> QED
          BY <1>1, <5>1, <5>3
      <4> QED
        BY <2>1, <2>5, <3>1, <4>2, <4>3, <4>4, RestThread
    <3>3. Len(queue') + Len(rcur') \in Nat
      BY <1>n, UpTyped DEF Typed
    <3>4. ASSUME NEW l \in Nat, NEW w \in Nat, NEW u \in Nat, NEW m \in Nat, NEW n \in Nat,
                 NEW k \in Nat, NEW b \in Nat,
                 l + w <= m + u, m <= w + n, k + w <= b, u <= w
          PROVE  l <= u + n /\ k + u <= b
      BY <3>4
    <3>5. noise \in Nat /\ 1 + Broadcasts + copies \in Nat
      BY <1>0, <1>1
    <3> QED
      BY <1>1, <2>1, <2>2, <3>1, <3>2, <3>3, <3>4, <3>5
  <2> QED
    BY <1>1, <2>1, <2>2, <2>4, <2>5
<1>5. CASE ReachResponder
  <2>1. PICK e \in Under("responder") :
          /\ net' = net (-) Times(1, e)
          /\ \/ Len(queue) < QueueCap /\ R!Enqueue(arrivals + 1, e.msg)
             \/ queue' = queue
    BY <1>5 DEF ReachResponder
  <2>2. UNCHANGED <<rcur, rpc, stopEvent, noise, copies>>
    BY <1>5 DEF ReachResponder
  <2>3. e \in DOMAIN net /\ e \in Queries /\ e.msg = C!Query
    BY <1>0, <2>1, Parties DEF Under
  <2>4. Knew = K - 1 /\ Knew \in Nat
    BY <2>1, <2>3, CountLess DEF K, Knew
  <2>5. Up' = Up
    BY <2>2 DEF Up
  <2>6. CASE Len(queue) < QueueCap /\ R!Enqueue(arrivals + 1, e.msg)
    <3>1. Waiting' = W + 1
      <4>1. arrivals + 1 \in Nat /\ C!Query \in Asked
        BY <1>0 DEF Typed, Asked
      <4> QED
        BY <1>0, <2>2, <2>3, <2>6, <4>1, EnqueueWaiting DEF W
    <3>2. Len(queue') = Len(queue) + 1
      BY <1>0, <2>6 DEF R!Enqueue, Typed
    <3>3. Len(queue') + Len(rcur') = Long + 1
      BY <1>0, <2>2, <3>2, UpTyped DEF Long
    <3> QED
      BY <1>0, <1>1, <2>2, <2>4, <2>5, <3>1, <3>3
  <2>7. CASE queue' = queue
    <3>1. Waiting' = W /\ Len(queue') + Len(rcur') = Long
      BY <2>2, <2>7 DEF Waiting, Asks, W, Long
    <3> QED
      BY <1>0, <1>1, <2>2, <2>4, <2>5, <3>1
  <2> QED
    BY <2>1, <2>6, <2>7
<1>6. CASE ReachClient \/ Lose
  <2>1. UNCHANGED <<queue, rcur, rpc, stopEvent, noise, copies>>
    BY <1>6 DEF ReachClient, Lose, rvars
  <2>2. PICK e \in DOMAIN net : net' = net (-) Times(1, e)
    BY <1>0, <1>6 DEF ReachClient, Lose, Under
  <2>3. Knew \in Nat /\ Knew <= K
    BY <1>1, <2>2, CountLess DEF K, Knew
  <2>4. Up' = Up /\ Waiting' = W /\ Len(queue') + Len(rcur') = Long
    BY <2>1 DEF Up, Waiting, Asks, W, Long
  <2> QED
    BY <1>0, <1>1, <2>1, <2>3, <2>4
<1>7. CASE Duplicate
  <2>1. UNCHANGED <<queue, rcur, rpc, stopEvent, noise>> /\ copies' = copies + 1
        /\ copies < MaxCopies
    BY <1>7 DEF Duplicate, rvars
  <2>2. PICK e \in DOMAIN net : net' = net (+) Times(1, e)
    BY <1>0, <1>7 DEF Duplicate
  <2>3. Knew \in Nat /\ Knew <= K + 1
    BY <1>1, <2>2, CountOne DEF K, Knew
  <2>4. Up' = Up /\ Waiting' = W /\ Len(queue') + Len(rcur') = Long
    BY <2>1 DEF Up, Waiting, Asks, W, Long
  <2> QED
    BY <1>0, <1>1, <2>1, <2>3, <2>4
<1>8. CASE Tick
  <2>1. R!Tick /\ UNCHANGED <<rpc, stopEvent, noise, copies, life>>
    BY <1>8 DEF Tick, R!Tick
  <2>2. Waiting' = W /\ Len(queue') + Len(rcur') = Long
    BY <1>0, <2>1, TickWaiting DEF W, Long
  <2>3. \A e \in DOMAIN net : e \in Queries <=> Aged(e) \in Queries
    BY <1>0, AgedParts
  <2>4. Knew = K
    BY <1>0, <1>8, <2>1, <2>3, NetAged DEF Tick, K, Knew
  <2>5. Up' = Up
    BY <2>1 DEF Up
  <2> QED
    BY <1>1, <2>1, <2>2, <2>4, <2>5
<1>9. CASE DisturbResponder
  <2>1. PICK m \in Noise : R!Enqueue(arrivals + 1, m)
    BY <1>9 DEF DisturbResponder
  <2>2. /\ UNCHANGED <<rcur, rpc, stopEvent, copies, net>>
        /\ noise' = noise + 1 /\ noise < MaxNoise
    BY <1>9 DEF DisturbResponder
  <2>3. arrivals + 1 \in Nat /\ m \in Asked /\ m # C!Query
    BY <1>0, QueryParts DEF Typed, Asked
  <2>4. Waiting' = W
    BY <1>0, <2>1, <2>2, <2>3, EnqueueWaiting DEF W
  <2>5. Len(queue') \in Nat /\ Len(queue') <= Len(queue) + 1
    BY <1>0, <2>1 DEF R!Enqueue, Typed
  <2>6. Len(queue') + Len(rcur') \in Nat /\ Len(queue') + Len(rcur') <= Long + 1
    BY <1>0, <2>2, <2>5, UpTyped DEF Long
  <2>7. Up' = Up /\ Knew = K
    BY <2>2 DEF Up, K, Knew
  <2> QED
    BY <1>0, <1>1, <2>2, <2>4, <2>6, <2>7
<1>10. CASE DisturbClient \/ UNCHANGED vars
  <2>1. /\ UNCHANGED <<queue, rcur, rpc, stopEvent, copies, net>>
        /\ noise' \in {noise, noise + 1} /\ (noise' # noise => noise < MaxNoise)
    BY <1>10 DEF DisturbClient, vars, rvars, nvars
  <2>2. Up' = Up /\ Knew = K /\ Waiting' = W /\ Len(queue') + Len(rcur') = Long
    BY <2>1 DEF Up, K, Knew, Waiting, Asks, W, Long
  <2> QED
    BY <1>0, <1>1, <2>1, <2>2
<1>11. CASE Application \/ Stopping \/ Restart
  <2>1. UNCHANGED <<net, noise, copies>>
    BY <1>11 DEF Application, Stopping, Restart, nvars
  <2>2. ~Up' \/ UNCHANGED vars
    BY <1>11, UpStep
  <2>3. Knew = K
    BY <2>1 DEF K, Knew
  <2>4. CASE ~Up'
    BY <1>1, <2>1, <2>3, <2>4
  <2>5. CASE UNCHANGED vars
    BY <1>10, <2>5
  <2> QED
    BY <2>2, <2>4, <2>5
<1> QED
  BY <1>3, <1>4, <1>5, <1>6, <1>7, <1>8, <1>9, <1>10, <1>11 DEF Next, Network

(* Where a datagram under way comes from.                                  *)
LEMMA NetFrom ==
  ASSUME Inv, NetInv, ThreadInv, [Next]_vars, NEW e \in DOMAIN net'
  PROVE  \/ Tick /\ life' = life /\ \E f \in DOMAIN net : e = Aged(f)
         \/ ~Tick /\ e \in DOMAIN net
         \/ ~Tick /\ C!SendAll /\ e = Token("responder", C!Query)
         \/ /\ ~Tick /\ ResponderStep /\ rpc = "reply" /\ rcur # <<>> /\ life' = life
            /\ \E qid \in Qids : /\ e = Token("client", Says(qid))
                                 /\ qid = Qid => rcur[1].msg = C!Query
<1>0. BagToSet(net) = DOMAIN net /\ ABag(net)
  BY NetBag DEF BagToSet
<1>1. CASE Tick
  BY <1>0, <1>1 DEF Tick
<1>2. CASE ~Tick /\ ClientStep
  <2>1. PICK n \in Nat : /\ net' = net (+) Times(n, Token("responder", C!Query))
                         /\ n # 0 => C!SendAll
    BY <1>2, ClientSends
  <2>2. e \in DOMAIN net \/ (n # 0 /\ e = Token("responder", C!Query))
    BY <1>0, <2>1, AddedBag
  <2> QED
    BY <1>2, <2>1, <2>2
<1>3. CASE ~Tick /\ ResponderStep
  <2>1. CASE net' = net
    BY <1>3, <2>1
  <2>2. CASE net' # net
    <3> DEFINE qid == rcur[1].msg.qid
    <3>1. /\ rpc = "reply" /\ rcur # <<>> /\ qid \in Qids
          /\ qid = Qid => rcur[1].msg = C!Query
          /\ net' = net (+) Times(1, Token("client", Says(qid)))
      BY <1>3, <2>2, ReplySends
    <3> HIDE DEF qid
    <3>2. e \in DOMAIN net \/ e = Token("client", Says(qid))
      BY <1>0, <3>1, AddedBag
    <3>3. life' = life
      BY <1>3 DEF ResponderStep
    <3> QED
      BY <1>3, <3>1, <3>2, <3>3
  <2> QED
    BY <2>1, <2>2
<1>4. CASE ~Tick /\ (ReachResponder \/ ReachClient \/ Lose)
  <2>1. PICK f \in DOMAIN net : net' = net (-) Times(1, f)
    BY <1>0, <1>4 DEF ReachResponder, ReachClient, Lose, Under
  <2> QED
    BY <1>0, <1>4, <2>1, CountTake
<1>5. CASE ~Tick /\ Duplicate
  <2>1. PICK f \in DOMAIN net : net' = net (+) Times(1, f)
    BY <1>0, <1>5 DEF Duplicate
  <2> QED
    BY <1>0, <1>5, <2>1, AddedBag
<1>6. CASE ~Tick /\ (Application \/ Stopping \/ Restart \/ DisturbResponder
                       \/ DisturbClient \/ UNCHANGED vars)
  <2>1. net' = net
    BY <1>6 DEF Application, Stopping, Restart, DisturbResponder, DisturbClient,
       vars, nvars
  <2> QED
    BY <1>6, <2>1
<1> QED
  BY <1>1, <1>2, <1>3, <1>4, <1>5, <1>6 DEF Next, Network

(* Stop is for good, except that the process is run again.                 *)
LEMMA StopStep ==
  ASSUME [Next]_vars, ~stopEvent'
  PROVE  Restart \/ (~stopEvent /\ life' = life)
<1>1. CASE ResponderStep
  <2>1. stopEvent' = stopEvent
    BY <1>1 DEF ResponderStep, R!Thread, R!appVars, R!OpenSocket, R!LoopTop,
       R!SkipAnnounce, R!PeriodicAnnounce, R!AnnounceTooLong, R!RecvDatagram,
       R!RecvTimesOut, R!CheckStop, R!Discard, R!HandleRaises, R!StartJitter, R!JitterEnds, R!Reply,
       R!ReplyTooLong, R!CloseSockets
  <2> QED
    BY <1>1, <2>1 DEF ResponderStep
<1>2. CASE ~ResponderStep
  BY <1>2 DEF Next, vars, rvars, nvars, ClientStep, Application, Stopping, Network,
     ReachResponder, ReachClient, Lose, Duplicate, DisturbResponder, DisturbClient,
     Tick, R!Tick, R!Start, R!StopSetsEvent, R!appVars, R!Stopping, R!StopPokes, R!JoinReturns
<1> QED
  BY <1>1, <1>2

(* A life that begins has not answered.                                    *)
LEMMA NewLife ==
  ASSUME Typed, NetInv, Restart
  PROVE  DOMAIN net' \cap Sent(life, Qid)' = {}
<1> SUFFICES ASSUME NEW e \in DOMAIN net', e \in Sent(life, Qid)' PROVE FALSE
  OBVIOUS
<1>1. net' = net /\ life' = life + 1 /\ life \in Nat /\ life' \in DOMAIN Names
  BY DiscoveryAssumption DEF Restart, Typed
<1>2. e.to = "client" /\ e.msg = Reply(life', Qid)
  BY DEF Sent, Reply
<1>3. e.msg.id = Names[life']
  BY <1>1, <1>2, ReplyParts, DiscoveryAssumption
<1>4. PICK l \in 1..life : e.msg.id = Names[l]
  BY <1>1, <1>2, Parties
<1>5. l \in DOMAIN Names /\ l # life'
  BY <1>1, DiscoveryAssumption DEF Typed
<1> QED
  BY <1>1, <1>3, <1>4, <1>5, DiscoveryAssumption

(* Every step keeps the deadlines of the queries under way.                *)
LEMMA QueriesDueStep ==
  ASSUME Inv, NetInv, ThreadInv, Clock, QueriesDue, [Next]_vars
  PROVE  QueriesDue'
<1> SUFFICES ASSUME NEW e \in DOMAIN net', e \in Queries
             PROVE  sendsLeft' < C!Sends /\ elapsed' + e.left <= Arrived'
  <2>1. Queries' = Queries
    BY QueriesSame
  <2>2. QueriesDue' <=> \A e \in DOMAIN net' \cap Queries :
                          sendsLeft' < C!Sends /\ elapsed' + e.left <= Arrived'
    BY <2>1 DEF QueriesDue, C!Sends
  <2> QED
    BY <2>2
<1>0. Typed
  BY DEF Inv
<1>1. /\ elapsed \in Nat /\ elapsed' \in Nat /\ Arrived \in Int /\ Arrived' \in Int
      /\ Arrived <= Arrived' /\ (sendsLeft < C!Sends => sendsLeft' < C!Sends)
      /\ elapsed' = elapsed \/ (Tick /\ elapsed' = elapsed + 1)
  BY TimePasses, DueLater
<1>2. \A f \in DOMAIN net : f \in Queries =>
        /\ f.left \in Int /\ sendsLeft < C!Sends /\ elapsed + f.left <= Arrived
  BY DEF QueriesDue, Queries
<1>3. CASE Tick /\ \E f \in DOMAIN net : e = Aged(f)
  <2>1. PICK f \in DOMAIN net : e = Aged(f)
    BY <1>3
  <2>2. f \in Queries /\ e.left = f.left - 1
    BY <1>0, <2>1, AgedParts
  <2> QED
    BY <1>1, <1>2, <2>2
<1>4. CASE ~Tick /\ e \in DOMAIN net
  <2>1. e.left \in Int /\ sendsLeft < C!Sends /\ elapsed + e.left <= Arrived
    BY <1>2, <1>4
  <2> QED
    BY <1>1, <1>4, <2>1
<1>5. CASE ~Tick /\ C!SendAll /\ e = Token("responder", C!Query)
  <2>1. /\ cpc = "send" /\ sendsLeft' = sendsLeft - 1 /\ resendAt' = now + C!Gap
        /\ elapsed' = elapsed
    BY <1>5 DEF C!SendAll
  <2>2. elapsed + cleft <= now + Lag /\ cleft \in Nat /\ now \in Nat
    BY <2>1 DEF Clock, CallTyped, CallTurns
  <2>3. sendsLeft \in 0..C!Sends /\ C!Sends \in Nat /\ C!Gap \in Nat /\ Lag \in Nat
    BY CallConstants DEF Clock, CallTyped
  <2>4. e.left = MaxDelay /\ MaxDelay \in Nat
    BY <1>0, <1>5, TokenParts, ServedTyped
  <2>5. Arrived' = resendAt' - C!Gap + Lag + MaxDelay
    BY DEF Arrived, C!Gap, C!Sends
  <2>6. ASSUME NEW n \in Nat, NEW g \in Nat, NEW l \in Nat, NEW d \in Nat, NEW h \in Nat,
               NEW c \in Nat, h + c <= n + l, NEW r \in Nat, r = n + g,
               NEW a \in Int, a = r - g + l + d
        PROVE  h + d <= a
    BY <2>6
  <2>7. elapsed' + e.left <= Arrived'
    BY <1>1, <2>1, <2>2, <2>3, <2>4, <2>5, <2>6
  <2>8. sendsLeft' < C!Sends
    BY <2>1, <2>3
  <2> QED
    BY <2>7, <2>8
<1>6. CASE \E qid \in Qids : e = Token("client", Says(qid))
  BY <1>0, <1>6, TokenParts DEF Queries
<1> QED
  BY <1>3, <1>4, <1>5, <1>6, NetFrom

(* And of the answers under way, which a reply sets from that of its       *)
(* query.                                                                  *)
LEMMA AnswersDueStep ==
  ASSUME Inv, NetInv, ThreadInv, Clock, HandDue, AnswersDue, [Next]_vars
  PROVE  AnswersDue'
<1>0. Typed
  BY DEF Inv
<1>1. CASE Restart
  <2>1. DOMAIN net' \cap Sent(life, Qid)' = {}
    BY <1>0, <1>1, NewLife
  <2> QED
    BY <2>1 DEF AnswersDue
<1>2. CASE ~Restart
  <2> SUFFICES ASSUME ~stopEvent', NEW e \in DOMAIN net', e \in Sent(life, Qid)'
               PROVE  sendsLeft' < C!Sends /\ elapsed' + e.left <= Answered' + MaxDelay
    <3>1. AnswersDue' <=> (~stopEvent' => \A e \in DOMAIN net' \cap Sent(life, Qid)' :
            sendsLeft' < C!Sends /\ elapsed' + e.left <= Answered' + MaxDelay)
      BY DEF AnswersDue, C!Sends
    <3> QED
      BY <3>1
  <2>1. ~stopEvent /\ life' = life
    BY <1>2, StopStep
  <2>2. e \in Sent(life, Qid)
    BY <2>1 DEF Sent, Reply
  <2>3. /\ elapsed \in Nat /\ elapsed' \in Nat /\ Answered \in Int /\ Answered' \in Int
        /\ Answered <= Answered' /\ (sendsLeft < C!Sends => sendsLeft' < C!Sends)
        /\ elapsed' = elapsed \/ (Tick /\ elapsed' = elapsed + 1)
        /\ MaxDelay \in Nat /\ Lag \in Nat
    BY TimePasses, DueLater, ServedTyped
  <2>4. \A f \in DOMAIN net : f \in Sent(life, Qid) =>
          /\ f.left \in Int /\ sendsLeft < C!Sends /\ elapsed + f.left <= Answered + MaxDelay
    BY <2>1 DEF AnswersDue, Sent
  <2>5. CASE Tick /\ \E f \in DOMAIN net : e = Aged(f)
    <3>1. PICK f \in DOMAIN net : e = Aged(f)
      BY <2>5
    <3>2. f \in Sent(life, Qid) /\ e.left = f.left - 1
      BY <1>0, <2>2, <3>1, AgedParts
    <3>3. f.left \in Int /\ sendsLeft < C!Sends /\ elapsed + f.left <= Answered + MaxDelay
      BY <2>4, <3>2
    <3>4. ASSUME NEW h \in Nat, NEW k \in Nat, k <= h + 1, NEW l \in Int, NEW a \in Int,
                 NEW b \in Int, a <= b, h + l <= a + MaxDelay
          PROVE  k + (l - 1) <= b + MaxDelay
      BY <2>3, <3>4
    <3>5. elapsed' <= elapsed + 1
      BY <2>3
    <3> QED
      BY <2>3, <3>2, <3>3, <3>4, <3>5
  <2>6. CASE ~Tick /\ e \in DOMAIN net
    <3>1. e.left \in Int /\ sendsLeft < C!Sends /\ elapsed + e.left <= Answered + MaxDelay
      BY <2>2, <2>4, <2>6
    <3>2. ASSUME NEW h \in Nat, NEW l \in Int, NEW a \in Int, NEW b \in Int, a <= b,
                 h + l <= a + MaxDelay
          PROVE  h + l <= b + MaxDelay
      BY <2>3, <3>2
    <3> QED
      BY <2>3, <2>6, <3>1, <3>2
  <2>7. CASE e = Token("responder", C!Query)
    BY <1>0, <2>2, <2>7, TokenParts DEF Queries, Sent
  <2>8. CASE /\ ~Tick /\ ResponderStep /\ rpc = "reply" /\ rcur # <<>>
             /\ \E qid \in Qids : /\ e = Token("client", Says(qid))
                                  /\ qid = Qid => rcur[1].msg = C!Query
    <3>1. PICK qid \in Qids : /\ e = Token("client", Says(qid))
                              /\ qid = Qid => rcur[1].msg = C!Query
      BY <2>8
    <3>2. qid = Qid
      <4>1. e.msg = Reply(life, qid) /\ e.msg = Reply(life, Qid) /\ life \in DOMAIN Names
        BY <1>0, <2>2, <3>1, TokenParts, DiscoveryAssumption DEF Sent, Typed
      <4>2. Reply(life, qid).qid = qid /\ Reply(life, Qid).qid = Qid
        BY <4>1, ReplyParts, DiscoveryAssumption
      <4> QED
        BY ONLY <4>1, <4>2
    <3>3. Up
      BY <2>1, <2>8 DEF Up, R!Looping
    <3>4. sendsLeft < C!Sends /\ elapsed + Rest <= Answered + 2 * Lag
      BY <2>8, <3>1, <3>2, <3>3 DEF HandDue
    <3>5. Rest \in Int /\ Rest >= 2 * Lag
      BY <2>8, <3>3, RestTyped DEF Up
    <3>6. e.left = MaxDelay
      BY <1>0, <3>1, TokenParts
    <3>7. ASSUME NEW h \in Nat, NEW r \in Int, NEW a \in Int, NEW b \in Int, a <= b,
                 h + r <= a + 2 * Lag, r >= 2 * Lag
          PROVE  h + MaxDelay <= b + MaxDelay
      BY <2>3, <3>7
    <3> HIDE DEF Rest, Answered
    <3> QED
      BY <2>3, <2>8, <3>4, <3>5, <3>6, <3>7
  <2> QED
    BY <2>5, <2>6, <2>7, <2>8, NetFrom
<1> QED
  BY <1>1, <1>2

(* What remains to do shrinks as fast as time passes, and deadlines only   *)
(* move on.                                                                *)
LEMMA DueKept ==
  ASSUME Clock, [Next]_vars, NEW r \in Int, NEW q \in Int, NEW s \in Nat, NEW t \in Nat,
         sendsLeft < C!Sends, elapsed + r + s <= Answered + 2 * Lag,
         elapsed' + q + t <= elapsed + r + s
  PROVE  sendsLeft' < C!Sends /\ elapsed' + q + t <= Answered' + 2 * Lag
<1>1. /\ elapsed \in Nat /\ elapsed' \in Nat /\ Answered \in Int /\ Answered' \in Int
      /\ Answered <= Answered' /\ sendsLeft' < C!Sends /\ Lag \in Nat
  BY TimePasses, DueLater, ServedTyped
<1>2. ASSUME NEW h \in Nat, NEW k \in Nat, NEW a \in Int, NEW b \in Int, a <= b,
             h + r + s <= a + 2 * Lag, k + q + t <= h + r + s
      PROVE  k + q + t <= b + 2 * Lag
  BY <1>1, <1>2
<1> HIDE DEF Answered
<1> QED
  BY <1>1, <1>2

(* The parts of the two bounds, and what they come to after a step.        *)
LEMMA DueParts ==
  ASSUME Typed, ThreadInv, Deadlines, Up
  PROVE  /\ \A i \in DOMAIN queue : queue[i].msg = C!Query =>
              /\ i \in Nat /\ Served(i) \in Nat /\ sendsLeft < C!Sends
              /\ elapsed + Rest + Served(i) <= Answered + 2 * Lag
         /\ rcur # <<>> /\ rcur[1].msg = C!Query =>
              sendsLeft < C!Sends /\ elapsed + Rest <= Answered + 2 * Lag
         /\ Rest \in Int
<1>1. queue \in Seq(Entries)
  BY DEF Typed
<1>2. \A i \in DOMAIN queue : i \in Nat
  BY <1>1
<1>3. \A i \in DOMAIN queue : Served(i) \in Nat
  BY <1>2, ServedTyped
<1>4. Rest \in Int
  BY RestTyped DEF Up
<1> QED
  BY <1>2, <1>3, <1>4 DEF Deadlines, BufferDue, HandDue

LEMMA DueAfter ==
  ASSUME Up' =>
           /\ \A i \in DOMAIN queue' : queue'[i].msg = C!Query =>
                sendsLeft' < C!Sends /\ elapsed' + Rest' + Served(i) <= Answered' + 2 * Lag
           /\ rcur' # <<>> /\ rcur'[1].msg = C!Query =>
                sendsLeft' < C!Sends /\ elapsed' + Rest' <= Answered' + 2 * Lag
  PROVE  BufferDue' /\ HandDue'
<1>1. C!Query' = C!Query /\ C!Sends' = C!Sends
  BY DEF C!Query, C!BuildQuery, C!EmptyFilter, C!Sends
<1>2. \A i : Served(i)' = Served(i)
  BY DEF Served, R!ServiceBound
<1> QED
  BY <1>1, <1>2 DEF BufferDue, HandDue

(* The thread keeps the deadlines of what it has in its buffer and in      *)
(* hand.                                                                   *)
LEMMA ThreadDue ==
  ASSUME Inv, ThreadInv, Clock, Deadlines, [Next]_vars, ResponderStep, ~Tick, Up'
  PROVE  /\ \A i \in DOMAIN queue' : queue'[i].msg = C!Query =>
              sendsLeft' < C!Sends /\ elapsed' + Rest' + Served(i) <= Answered' + 2 * Lag
         /\ rcur' # <<>> /\ rcur'[1].msg = C!Query =>
              sendsLeft' < C!Sends /\ elapsed' + Rest' <= Answered' + 2 * Lag
<1>0. Typed /\ R!Thread
  BY DEF Inv, ResponderStep
<1>1. elapsed \in Nat /\ elapsed' = elapsed /\ Lag \in Nat /\ R!ServiceBound \in Nat
  BY TimePasses, ServedTyped
<1>2. CASE rpc = "opening"
  <2>1. queue' = <<>> /\ rcur' = <<>>
    BY <1>0, <1>2, ThreadCounts DEF ThreadInv
  <2> QED
    BY <2>1
<1>3. CASE rpc # "opening"
  <2>1. Up
    BY <1>3, UpStep
  <2>2. /\ Rest \in Int /\ Rest' \in Int
        /\ \/ /\ queue' = queue /\ (rcur' = rcur \/ rcur' = <<>>)
              /\ queue # <<>> \/ rcur' # <<>> => Rest' <= Rest
           \/ /\ queue # <<>> /\ queue' = Tail(queue)
              /\ rcur = <<>> /\ rcur' = <<Head(queue)>>
              /\ Rest' <= Rest + R!ServiceBound
    BY <1>0, <2>1, RestThread
  <2>3. CASE queue' = queue /\ (rcur' = rcur \/ rcur' = <<>>)
             /\ (queue # <<>> \/ rcur' # <<>> => Rest' <= Rest)
    <3>1. ASSUME NEW i \in DOMAIN queue', queue'[i].msg = C!Query
          PROVE  sendsLeft' < C!Sends /\ elapsed' + Rest' + Served(i) <= Answered' + 2 * Lag
      <4>1. /\ Served(i) \in Nat /\ sendsLeft < C!Sends
            /\ elapsed + Rest + Served(i) <= Answered + 2 * Lag
        BY <1>0, <2>1, <2>3, <3>1, DueParts
      <4>2. queue # <<>>
        BY <2>3, <3>1
      <4>3. elapsed' + Rest' + Served(i) <= elapsed + Rest + Served(i)
        <5>1. ASSUME NEW h \in Nat, NEW q \in Int, NEW r \in Int, NEW s \in Nat, q <= r
              PROVE  h + q + s <= h + r + s
          BY <5>1
        <5> HIDE DEF Rest, Served
        <5> QED
          BY <1>1, <2>2, <2>3, <4>1, <4>2, <5>1
      <4> HIDE DEF Rest, Served, Answered
      <4> QED
        BY <2>2, <4>1, <4>3, DueKept
    <3>2. ASSUME rcur' # <<>>, rcur'[1].msg = C!Query
          PROVE  sendsLeft' < C!Sends /\ elapsed' + Rest' <= Answered' + 2 * Lag
      <4>1. sendsLeft < C!Sends /\ elapsed + Rest <= Answered + 2 * Lag
        BY <1>0, <2>1, <2>3, <3>2, DueParts
      <4>2. elapsed + Rest + 0 = elapsed + Rest /\ elapsed' + Rest' + 0 = elapsed' + Rest'
        BY <1>1, <2>2
      <4>3. elapsed' + Rest' + 0 <= elapsed + Rest + 0
        <5>1. ASSUME NEW h \in Nat, NEW q \in Int, NEW r \in Int, q <= r
              PROVE  h + q + 0 <= h + r + 0
          BY <5>1
        <5> HIDE DEF Rest
        <5> QED
          BY <1>1, <2>2, <2>3, <3>2, <5>1
      <4>4. elapsed + Rest + 0 <= Answered + 2 * Lag
        BY <4>1, <4>2
      <4>5. sendsLeft' < C!Sends /\ elapsed' + Rest' + 0 <= Answered' + 2 * Lag
        <5> HIDE DEF Rest, Answered
        <5> QED
          BY <2>2, <4>1, <4>3, <4>4, DueKept
      <4> QED
        BY <4>2, <4>5
    <3> QED
      BY <3>1, <3>2
  <2>4. CASE /\ queue # <<>> /\ queue' = Tail(queue)
             /\ rcur = <<>> /\ rcur' = <<Head(queue)>>
             /\ Rest' <= Rest + R!ServiceBound
    <3>0. queue \in Seq(Entries)
      BY <1>0 DEF Typed
    <3>1. ASSUME NEW i \in DOMAIN queue', queue'[i].msg = C!Query
          PROVE  sendsLeft' < C!Sends /\ elapsed' + Rest' + Served(i) <= Answered' + 2 * Lag
      <4>1. i \in Nat /\ i + 1 \in DOMAIN queue /\ queue'[i] = queue[i + 1]
        BY <2>4, <3>0
      <4>2. /\ Served(i + 1) \in Nat /\ sendsLeft < C!Sends
            /\ elapsed + Rest + Served(i + 1) <= Answered + 2 * Lag
        BY <1>0, <2>1, <3>1, <4>1, DueParts
      <4>3. Served(i) \in Nat /\ Served(i + 1) = Served(i) + R!ServiceBound
        BY <4>1, ServedTyped
      <4>4. elapsed' + Rest' + Served(i) <= elapsed + Rest + Served(i + 1)
        <5>1. ASSUME NEW h \in Nat, NEW q \in Int, NEW r \in Int, NEW s \in Nat,
                     NEW b \in Nat, q <= r + b
              PROVE  h + q + s <= h + r + (s + b)
          BY <5>1
        <5> HIDE DEF Rest, Served
        <5> QED
          BY <1>1, <2>2, <2>4, <4>3, <5>1
      <4> HIDE DEF Rest, Served, Answered
      <4> QED
        BY <2>2, <4>2, <4>3, <4>4, DueKept
    <3>2. ASSUME rcur'[1].msg = C!Query
          PROVE  sendsLeft' < C!Sends /\ elapsed' + Rest' <= Answered' + 2 * Lag
      <4>1. 1 \in DOMAIN queue /\ rcur'[1] = queue[1]
        BY <2>4, <3>0
      <4>2. /\ Served(1) \in Nat /\ sendsLeft < C!Sends
            /\ elapsed + Rest + Served(1) <= Answered + 2 * Lag
        BY <1>0, <2>1, <3>2, <4>1, DueParts
      <4>3. Served(0) \in Nat /\ Served(0 + 1) = Served(0) + R!ServiceBound
        BY ServedTyped
      <4>4. elapsed' + Rest' + 0 <= elapsed + Rest + Served(1)
        <5>1. ASSUME NEW h \in Nat, NEW q \in Int, NEW r \in Int, NEW s \in Nat,
                     NEW b \in Nat, q <= r + b
              PROVE  h + q + 0 <= h + r + (s + b)
          BY <5>1
        <5>2. 0 + 1 = 1
          OBVIOUS
        <5> HIDE DEF Rest, Served
        <5> QED
          BY <1>1, <2>2, <2>4, <4>3, <5>1, <5>2
      <4>5. sendsLeft' < C!Sends /\ elapsed' + Rest' + 0 <= Answered' + 2 * Lag
        <5> HIDE DEF Rest, Answered, Served
        <5> QED
          BY <2>2, <4>2, <4>4, DueKept
      <4>6. elapsed' + Rest' + 0 = elapsed' + Rest'
        BY <1>1, <2>2
      <4> QED
        BY <4>5, <4>6
    <3> QED
      BY <3>1, <3>2
  <2> QED
    BY <2>2, <2>3, <2>4
<1> QED
  BY <1>2, <1>3

(* So does the clock.                                                      *)
LEMMA TickDue ==
  ASSUME Inv, ThreadInv, Clock, Deadlines, [Next]_vars, Tick, Up'
  PROVE  /\ \A i \in DOMAIN queue' : queue'[i].msg = C!Query =>
              sendsLeft' < C!Sends /\ elapsed' + Rest' + Served(i) <= Answered' + 2 * Lag
         /\ rcur' # <<>> /\ rcur'[1].msg = C!Query =>
              sendsLeft' < C!Sends /\ elapsed' + Rest' <= Answered' + 2 * Lag
<1>1. R!Tick /\ UNCHANGED <<rpc, stopEvent>> /\ Typed
  BY DEF Tick, R!Tick, Inv
<1>2. Up
  BY <1>1 DEF Up
<1>3. Rest \in Int /\ Rest' = Rest - 1 /\ Rest' \in Int
  <2>1. Rest \in Int /\ Rest' = Rest - 1
    BY <1>1, <1>2, RestTick DEF Up
  <2>2. Rest - 1 \in Int
    BY <2>1
  <2> QED
    BY ONLY <2>1, <2>2
<1>4. /\ elapsed \in Nat /\ elapsed' \in Nat /\ elapsed' <= elapsed + 1
  BY TimePasses
<1>5. /\ DOMAIN queue' = DOMAIN queue /\ DOMAIN rcur' = DOMAIN rcur
      /\ \A i \in DOMAIN queue : queue'[i].msg = queue[i].msg
      /\ \A i \in DOMAIN rcur : rcur'[i].msg = rcur[i].msg
  BY <1>1, TickWaiting
<1>6. ASSUME NEW h \in Nat, NEW k \in Nat, k <= h + 1, NEW r \in Int, NEW s \in Nat
      PROVE  k + (r - 1) + s <= h + r + s
  BY <1>6
<1>7. ASSUME NEW s \in Nat PROVE elapsed' + Rest' + s <= elapsed + Rest + s
  <2> HIDE DEF Rest
  <2> QED
    BY <1>3, <1>4, <1>6
<1>8. ASSUME NEW i \in DOMAIN queue', queue'[i].msg = C!Query
      PROVE  sendsLeft' < C!Sends /\ elapsed' + Rest' + Served(i) <= Answered' + 2 * Lag
  <2>1. /\ Served(i) \in Nat /\ sendsLeft < C!Sends
        /\ elapsed + Rest + Served(i) <= Answered + 2 * Lag
    BY <1>1, <1>2, <1>5, <1>8, DueParts
  <2>2. elapsed' + Rest' + Served(i) <= elapsed + Rest + Served(i)
    BY <1>7, <2>1
  <2> HIDE DEF Rest, Served, Answered
  <2> QED
    BY <1>3, <2>1, <2>2, DueKept
<1>9. ASSUME rcur' # <<>>, rcur'[1].msg = C!Query
      PROVE  sendsLeft' < C!Sends /\ elapsed' + Rest' <= Answered' + 2 * Lag
  <2>1. rcur # <<>> /\ rcur[1].msg = C!Query
    <3>1. rcur \in Seq(Entries) /\ rcur' = [i \in DOMAIN rcur |-> R!Older(rcur[i])]
      BY <1>1 DEF Typed, R!Tick
    <3>2. rcur # <<>>
      BY <1>9, <3>1
    <3>3. 1 \in DOMAIN rcur
      BY <3>1, <3>2
    <3> QED
      BY <1>5, <1>9, <3>2, <3>3
  <2>2. sendsLeft < C!Sends /\ elapsed + Rest <= Answered + 2 * Lag
    BY <1>1, <1>2, <2>1, DueParts
  <2>3. elapsed + Rest + 0 = elapsed + Rest /\ elapsed' + Rest' + 0 = elapsed' + Rest'
    BY <1>3, <1>4
  <2>4. elapsed' + Rest' + 0 <= elapsed + Rest + 0
    BY <1>7
  <2>5. elapsed + Rest + 0 <= Answered + 2 * Lag
    BY <2>2, <2>3
  <2>6. sendsLeft' < C!Sends /\ elapsed' + Rest' + 0 <= Answered' + 2 * Lag
    <3> HIDE DEF Rest, Answered
    <3> QED
      BY <1>3, <2>2, <2>4, <2>5, DueKept
  <2> QED
    BY <2>3, <2>6
<1> QED
  BY <1>8, <1>9

(* What reaches the port waits behind a crowd that is bounded.             *)
LEMMA EnqueueDue ==
  ASSUME Inv, ThreadInv, Clock, Deadlines, [Next]_vars, elapsed' = elapsed, Up,
         UNCHANGED <<rpc, rcur>>,
         NEW n \in Nat, NEW m \in Asked, R!Enqueue(n, m),
         m = C!Query => /\ sendsLeft < C!Sends /\ elapsed <= Arrived
                        /\ Len(queue') + Len(rcur) <= Most
  PROVE  /\ \A i \in DOMAIN queue' : queue'[i].msg = C!Query =>
              sendsLeft' < C!Sends /\ elapsed' + Rest' + Served(i) <= Answered' + 2 * Lag
         /\ rcur' # <<>> /\ rcur'[1].msg = C!Query =>
              sendsLeft' < C!Sends /\ elapsed' + Rest' <= Answered' + 2 * Lag
<1>0. Typed /\ queue \in Seq(Entries) /\ rpc \in R!Looping
  BY DEF Inv, Typed, Up
<1>1. /\ rleft' \in Nat /\ rleft' <= rleft
      /\ rpc = "recv" => rleft' <= Lag \/ queue' = queue
  <2>1. rleft \in Nat /\ Lag \in Nat
    BY ServedTyped DEF ThreadInv
  <2>2. ASSUME NEW l \in Nat, NEW g \in Nat, NEW e, e = R!Earlier(l, g)
        PROVE  e \in Nat /\ e <= l /\ e <= g
    BY <2>2 DEF R!Earlier
  <2>3. \/ rleft' = R!Earlier(rleft, Lag)
        \/ rleft' = rleft /\ (rpc = "recv" => queue' = queue)
    BY DEF R!Enqueue
  <2>4. CASE rleft' = R!Earlier(rleft, Lag)
    BY <2>1, <2>2, <2>4
  <2>5. CASE rleft' = rleft /\ (rpc = "recv" => queue' = queue)
    BY <2>1, <2>5
  <2> QED
    BY <2>3, <2>4, <2>5
<1>2. Rest \in Int /\ Rest' \in Int /\ Rest' <= Rest
  BY <1>0, <1>1, RestEnqueue
<1>3. elapsed \in Nat /\ elapsed' = elapsed /\ Lag \in Nat /\ R!ServiceBound \in Nat
      /\ Most \in Nat /\ Served(Most) \in Nat /\ Arrived \in Int /\ Answered \in Int
      /\ Answered = Arrived + Served(Most)
  BY TimePasses, ServedTyped, DueLater
<1>4. ASSUME NEW s \in Nat PROVE elapsed' + Rest' + s <= elapsed + Rest + s
  <2>1. ASSUME NEW h \in Nat, NEW q \in Int, NEW r \in Int, q <= r
        PROVE  h + q + s <= h + r + s
    BY <2>1
  <2> HIDE DEF Rest
  <2> QED
    BY <1>2, <1>3, <2>1
<1>5. ASSUME NEW i \in DOMAIN queue, queue[i].msg = C!Query
      PROVE  sendsLeft' < C!Sends /\ elapsed' + Rest' + Served(i) <= Answered' + 2 * Lag
  <2>1. /\ Served(i) \in Nat /\ sendsLeft < C!Sends
        /\ elapsed + Rest + Served(i) <= Answered + 2 * Lag
    BY <1>0, <1>5, DueParts
  <2>2. elapsed' + Rest' + Served(i) <= elapsed + Rest + Served(i)
    BY <1>4, <2>1
  <2> HIDE DEF Rest, Served, Answered
  <2> QED
    BY <1>2, <2>1, <2>2, DueKept
<1>6. ASSUME rcur' # <<>>, rcur'[1].msg = C!Query
      PROVE  sendsLeft' < C!Sends /\ elapsed' + Rest' <= Answered' + 2 * Lag
  <2>2. sendsLeft < C!Sends /\ elapsed + Rest <= Answered + 2 * Lag
    BY <1>0, <1>6, DueParts
  <2>3. elapsed + Rest + 0 = elapsed + Rest /\ elapsed' + Rest' + 0 = elapsed' + Rest'
    BY <1>2, <1>3
  <2>4. elapsed' + Rest' + 0 <= elapsed + Rest + 0
    BY <1>4
  <2>5. elapsed + Rest + 0 <= Answered + 2 * Lag
    BY <2>2, <2>3
  <2>6. sendsLeft' < C!Sends /\ elapsed' + Rest' + 0 <= Answered' + 2 * Lag
    <3> HIDE DEF Rest, Answered
    <3> QED
      BY <1>2, <2>2, <2>4, <2>5, DueKept
  <2> QED
    BY <2>3, <2>6
<1>7. CASE queue' = queue
  BY <1>5, <1>6, <1>7
<1>8. CASE Len(queue) < QueueCap /\ queue' = Append(queue, R!Fresh(n, m))
  <2> DEFINE last == Len(queue) + 1
  <2>1. /\ last \in Nat /\ last # Len(queue) /\ Len(queue') = last /\ queue'[last] = R!Fresh(n, m)
        /\ queue' # <<>>
        /\ \A i \in DOMAIN queue' : i = last \/ (i \in DOMAIN queue /\ queue'[i] = queue[i])
    BY <1>0, <1>8
  <2>2. R!Fresh(n, m).msg = m
    BY DEF R!Fresh
  <2> HIDE DEF last
  <2>3. ASSUME m = C!Query
        PROVE  sendsLeft' < C!Sends /\ elapsed' + Rest' + Served(last) <= Answered' + 2 * Lag
    <3>1. sendsLeft < C!Sends /\ elapsed <= Arrived /\ last + Len(rcur) <= Most
      BY <2>1, <2>3
    <3>2. Served(last) \in Nat /\ Served(last + 1) = Served(last) + R!ServiceBound
      BY <2>1, ServedTyped
    <3>3. Rest' + Served(last) <= Served(Most) + 2 * Lag
      <4>1. CASE rcur = <<>>
        <5>1. rpc \in {"top", "announce", "recv"}
          BY <1>0, <4>1 DEF Typed, R!Looping
        <5>2. rpc = "recv" => rleft' <= Lag
          <6>1. queue' # queue
            BY <1>0, <2>1
          <6> QED
            BY <1>1, <6>1
        <5>3. Rest' <= 2 * Lag
          <6>1. CASE rpc \in {"top", "announce"}
            <7>1. Rest <= 2 * Lag
              BY <1>0, <6>1, RestTyped
            <7> HIDE DEF Rest
            <7> QED
              BY <1>2, <1>3, <7>1
          <6>2. CASE rpc = "recv"
            <7>1. Rest' = rleft' - Lag
              BY <6>2 DEF Rest
            <7>2. ASSUME NEW l \in Nat, NEW g \in Nat, l <= g PROVE l - g <= 2 * g
              BY <7>2
            <7> QED
              BY <1>1, <1>3, <5>2, <6>2, <7>1, <7>2
          <6> QED
            BY <5>1, <6>1, <6>2
        <5>4. last <= Most
          BY <1>3, <2>1, <3>1, <4>1
        <5>5. Served(last) <= Served(Most)
          BY <1>3, <2>1, <5>4, ServedTyped
        <5> HIDE DEF Rest, Served
        <5> QED
          BY <1>2, <1>3, <3>2, <5>3, <5>5
      <4>2. CASE rcur # <<>>
        <5>1. Len(rcur) \in Nat /\ Len(rcur) # 0
          BY <1>0, <4>2 DEF Typed
        <5>2. last + 1 \in Nat /\ last + 1 <= Most
          BY <1>3, <2>1, <3>1, <5>1
        <5>3. Served(last + 1) <= Served(Most)
          BY <1>3, <5>2, ServedTyped
        <5>4. Rest <= R!ServiceBound + 2 * Lag
          BY <1>0, <4>2, RestTyped DEF ThreadInv, R!Looping
        <5> HIDE DEF Rest, Served
        <5> QED
          BY <1>2, <1>3, <3>2, <5>3, <5>4
      <4> QED
        BY <4>1, <4>2
    <3>4. elapsed' + Rest' + Served(last) <= elapsed + 0 + (Served(Most) + 2 * Lag)
      <4>1. ASSUME NEW h \in Nat, NEW q \in Int, NEW s \in Nat, NEW u \in Nat, NEW l \in Nat,
                   q + s <= u + 2 * l
            PROVE  h + q + s <= h + 0 + (u + 2 * l)
        BY <4>1
      <4> HIDE DEF Rest, Served
      <4> QED
        BY <1>2, <1>3, <3>2, <3>3, <4>1
    <3>5. /\ Served(Most) + 2 * Lag \in Nat
          /\ elapsed + 0 + (Served(Most) + 2 * Lag) <= Answered + 2 * Lag
      <4>1. ASSUME NEW h \in Nat, NEW a \in Int, NEW u \in Nat, NEW l \in Nat, h <= a
            PROVE  u + 2 * l \in Nat /\ h + 0 + (u + 2 * l) <= a + u + 2 * l
        BY <4>1
      <4> HIDE DEF Arrived, Served, Answered
      <4> QED
        BY <1>3, <3>1, <4>1
    <3> HIDE DEF Rest, Served, Answered
    <3> QED
      BY <1>2, <3>1, <3>2, <3>4, <3>5, DueKept
  <2> QED
    BY <1>5, <1>6, <2>1, <2>2, <2>3
<1> QED
  BY <1>7, <1>8 DEF R!Enqueue

LEMMA QueriesNumber == NetInv => Count(net, Queries) \in Nat
BY NetCounted

(* Every step keeps every deadline.                                        *)
LEMMA DeadlinesStep ==
  ASSUME Inv, NetInv, ThreadInv, Clock, Deadlines, Crowd, Crowd', [Next]_vars
  PROVE  Deadlines'
<1>0. Typed /\ BagToSet(net) = DOMAIN net
  BY DEF Inv, BagToSet
<1>1. QueriesDue'
  BY QueriesDueStep DEF Deadlines
<1>2. AnswersDue'
  BY AnswersDueStep DEF Deadlines
<1>3. BufferDue' /\ HandDue'
  <2>1. CASE ~Up'
    BY <2>1, DueAfter
  <2>2. CASE Up' /\ Tick
    BY <2>2, TickDue, DueAfter
  <2>3. CASE Up' /\ ~Tick /\ ResponderStep
    BY <2>3, ThreadDue, DueAfter
  <2>4. CASE Up' /\ ~Tick /\ ~ResponderStep
    <3>1. Up /\ ~Stopping /\ ~Restart /\ (~Application \/ UNCHANGED vars)
      BY <2>4, UpStep
    <3>2. elapsed' = elapsed
      BY <2>4, TimePasses
    <3>3. CASE ReachResponder /\ queue' # queue
      <4>1. PICK e \in Under("responder") : R!Enqueue(arrivals + 1, e.msg)
        BY <3>3 DEF ReachResponder
      <4>2. UNCHANGED <<rpc, rcur>>
        BY <3>3 DEF ReachResponder
      <4>3. e \in DOMAIN net /\ e \in Queries /\ e.msg = C!Query
        BY <1>0, <4>1, Parties DEF Under
      <4>4. sendsLeft < C!Sends /\ elapsed <= Arrived
        <5>1. sendsLeft < C!Sends /\ elapsed + e.left <= Arrived /\ e.left \in Nat
          BY <4>3 DEF Deadlines, QueriesDue, NetInv
        <5> HIDE DEF Arrived
        <5> QED
          BY <5>1, TimePasses, DueLater
      <4>5. Len(queue') + Len(rcur) <= Most
        <5>1. /\ Len(queue') + Len(rcur') <= Waiting' + noise'
              /\ Count(net, Queries)' + Waiting' <= 1 + Broadcasts + copies'
              /\ noise' \in 0..MaxNoise /\ copies' \in 0..MaxCopies
          BY <2>4 DEF Crowd
        <5>2. Typed' /\ NetInv'
          BY InvStep, NetStep DEF Inv
        <5>3. Waiting' \in Nat
          <6>1. (Typed => Waiting \in Nat)'
            BY WaitingTyped, PTL
          <6> QED
            BY <5>2, <6>1
        <5>4. Count(net, Queries)' \in Nat
          <6>1. (NetInv => Count(net, Queries) \in Nat)'
            BY QueriesNumber, PTL
          <6> QED
            BY <5>2, <6>1
        <5>5. Len(queue') \in Nat /\ Len(rcur') \in Nat
          BY <5>2 DEF Typed
        <5>6. ASSUME NEW l \in Nat, NEW w \in Nat, NEW k \in Nat, NEW o \in 0..MaxNoise,
                     NEW c \in 0..MaxCopies, l <= w + o, k + w <= 1 + Broadcasts + c
              PROVE  l <= Most
          BY <5>6, ServedTyped DEF Most
        <5>8. noise' \in Nat /\ copies' \in Nat /\ Broadcasts \in Nat /\ Most \in Nat
          BY <5>1, ServedTyped
        <5>9. Len(queue') + Len(rcur') \in Nat
          BY <5>5
        <5>7. Len(queue') + Len(rcur') <= Most
          BY <5>1, <5>3, <5>4, <5>6, <5>8, <5>9
        <5> QED
          BY <4>2, <5>7
      <4>6. arrivals + 1 \in Nat /\ C!Query \in Asked
        BY <1>0 DEF Typed, Asked
      <4>7. R!Enqueue(arrivals + 1, C!Query)
        BY <4>1, <4>3
      <4> QED
        BY <3>1, <3>2, <4>2, <4>4, <4>5, <4>6, <4>7, EnqueueDue, DueAfter
    <3>4. CASE DisturbResponder
      <4>1. PICK m \in Noise : R!Enqueue(arrivals + 1, m)
        BY <3>4 DEF DisturbResponder
      <4>2. UNCHANGED <<rpc, rcur>>
        BY <3>4 DEF DisturbResponder
      <4>3. arrivals + 1 \in Nat /\ m \in Asked /\ m # C!Query
        BY <1>0, QueryParts DEF Typed, Asked
      <4> QED
        BY <3>1, <3>2, <4>1, <4>2, <4>3, EnqueueDue, DueAfter
    <3>5. CASE UNCHANGED <<queue, rcur, rpc, rleft>>
      <4>1. Rest' = Rest
        BY <3>5 DEF Rest
      <4>2. \A i \in DOMAIN queue : queue[i].msg = C!Query =>
              sendsLeft' < C!Sends /\ elapsed' + Rest' + Served(i) <= Answered' + 2 * Lag
        <5> TAKE i \in DOMAIN queue
        <5> HAVE queue[i].msg = C!Query
        <5>1. /\ Served(i) \in Nat /\ sendsLeft < C!Sends /\ Rest \in Int
              /\ elapsed + Rest + Served(i) <= Answered + 2 * Lag
          BY <1>0, <3>1, DueParts
        <5>2. elapsed' + Rest' + Served(i) <= elapsed + Rest + Served(i)
          <6>1. ASSUME NEW h \in Nat, NEW r \in Int, NEW s \in Nat
                PROVE  h + r + s <= h + r + s
            OBVIOUS
          <6>2. elapsed \in Nat
            BY TimePasses
          <6>3. elapsed + Rest + Served(i) <= elapsed + Rest + Served(i)
            BY <5>1, <6>1, <6>2
          <6> HIDE DEF Rest, Served
          <6> QED
            BY ONLY <3>2, <4>1, <6>3
        <5>3. Rest' \in Int
          BY <4>1, <5>1
        <5> HIDE DEF Rest, Served, Answered
        <5> QED
          BY <5>1, <5>2, <5>3, DueKept
      <4>3. rcur # <<>> /\ rcur[1].msg = C!Query =>
              sendsLeft' < C!Sends /\ elapsed' + Rest' <= Answered' + 2 * Lag
        <5> HAVE rcur # <<>> /\ rcur[1].msg = C!Query
        <5>1. sendsLeft < C!Sends /\ Rest \in Int /\ elapsed + Rest <= Answered + 2 * Lag
          BY <1>0, <3>1, DueParts
        <5>2. elapsed \in Nat /\ Answered \in Int /\ Answered' \in Int /\ Lag \in Nat
              /\ Answered <= Answered' /\ sendsLeft' < C!Sends
          BY <5>1, TimePasses, DueLater, ServedTyped
        <5>3. ASSUME NEW h \in Nat, NEW r \in Int, NEW a \in Int, NEW b \in Int, a <= b,
                     NEW l \in Nat, h + r <= a + 2 * l
              PROVE  h + r <= b + 2 * l
          BY <5>3
        <5> HIDE DEF Rest, Answered
        <5> QED
          BY <3>2, <4>1, <5>1, <5>2, <5>3
      <4> QED
        BY <3>5, <4>2, <4>3, DueAfter
    <3>6. (ReachResponder /\ queue' # queue) \/ DisturbResponder
             \/ UNCHANGED <<queue, rcur, rpc, rleft>>
      <4>1. ReachResponder => (queue' # queue \/ UNCHANGED <<queue, rcur, rpc, rleft>>)
        <5> SUFFICES ASSUME ReachResponder, queue' = queue
                     PROVE  UNCHANGED <<queue, rcur, rpc, rleft>>
          OBVIOUS
        <5>1. UNCHANGED <<rcur, rpc>>
          BY DEF ReachResponder
        <5>2. PICK e : \/ Len(queue) < QueueCap /\ R!Enqueue(arrivals + 1, e.msg)
                       \/ rleft' = rleft
          BY DEF ReachResponder
        <5>3. CASE Len(queue) < QueueCap /\ R!Enqueue(arrivals + 1, e.msg)
          <6>1. queue' = Append(queue, R!Fresh(arrivals + 1, e.msg)) /\ queue \in Seq(Entries)
            BY <1>0, <5>3 DEF R!Enqueue, Typed
          <6>2. Len(queue') = Len(queue) + 1 /\ Len(queue) \in Nat
            BY <6>1
          <6> QED
            BY <6>2
        <5> QED
          BY <5>1, <5>2, <5>3
      <4> QED
        BY <2>4, <3>1, <4>1
           DEF Next, vars, rvars, ClientStep, Network, ReachClient, Lose,
           Duplicate, DisturbClient
    <3> QED
      BY <3>3, <3>4, <3>5, <3>6
  <2> QED
    BY <2>1, <2>2, <2>3, <2>4
<1> QED
  BY <1>1, <1>2, <1>3 DEF Deadlines

-----------------------------------------------------------------------------
(* The loop takes up what is in its buffer.                                *)

(* A datagram with n ahead of it in the client's buffer is handled before  *)
(* the loop looks at the clock and finds the window over.                  *)
Turns(n) == n * C!TurnBound
InReach(n) ==
  /\ cpc = "top"    => elapsed + cleft + Turns(n) < Timeout
  /\ cpc = "handle" => elapsed + cleft + Lag + Turns(n) < Timeout
  /\ cpc = "recv" /\ n > 0 => elapsed + cleft + 2 * Lag + Turns(n - 1) < Timeout
  /\ cpc = "arm"  /\ n > 0 => elapsed + cleft + 3 * Lag + Turns(n - 1) < Timeout
  /\ cpc = "send" /\ n > 0 => elapsed + cleft + 4 * Lag + Turns(n - 1) < Timeout

Answers(m) == C!Keeps(m, Qid, Filter) /\ m.id = Names[life]

(* The responder is in the result, or will be.                             *)
Known ==
  \/ Names[life] \in DOMAIN found
  \/ cpc = "handle" /\ Answers(ccur[1])
  \/ /\ cpc \in C!Running
     /\ \E n \in Nat : n < Len(inbox) /\ Answers(inbox[n + 1]) /\ InReach(n)

(* What a number of turns takes.                                           *)
LEMMA TurnsTyped ==
  /\ \A n \in Nat : Turns(n) \in Nat /\ Turns(n + 1) = Turns(n) + 5 * Lag
  /\ \A n, m \in Nat : n <= m => Turns(n) <= Turns(m)
<1>1. C!TurnBound \in Nat /\ C!TurnBound = 5 * Lag /\ Lag \in Nat
  BY CallConstants
<1>2. ASSUME NEW s \in Nat
      PROVE  /\ \A n \in Nat : n * s \in Nat /\ (n + 1) * s = n * s + s
             /\ \A n, m \in Nat : n <= m => n * s <= m * s
  BY <1>2
<1> QED
  BY <1>1, <1>2 DEF Turns

LEMMA TurnsBefore ==
  ASSUME NEW n \in Nat, n > 0
  PROVE  n - 1 \in Nat /\ Turns(n - 1) \in Nat /\ Turns(n) = Turns(n - 1) + 5 * Lag
<1>1. n - 1 \in Nat /\ (n - 1) + 1 = n
  OBVIOUS
<1> QED
  BY <1>1, TurnsTyped

(* The loop takes up what is in reach, one datagram a turn.                *)
LEMMA InReachCall ==
  ASSUME Clock, cpc \in C!Running, C!Call, raised' = "none",
         NEW n \in Nat, InReach(n), inbox # <<>>
  PROVE  /\ cpc' \in C!Running
         /\ ~C!RecvDatagram => InReach(n)' /\ inbox' = inbox
                                /\ (cpc # "handle" => UNCHANGED <<found, ccur>>)
         /\ C!RecvDatagram /\ n > 0 => InReach(n - 1)'
<1>0. /\ elapsed \in Nat /\ cleft \in Nat /\ Lag \in Nat /\ Timeout \in Nat
      /\ Turns(n) \in Nat
  BY CallConstants, TurnsTyped DEF Clock, CallTyped
<1>1. n > 0 => n - 1 \in Nat /\ Turns(n - 1) \in Nat /\ Turns(n) = Turns(n - 1) + 5 * Lag
  BY TurnsBefore
<1>2. \A k \in Int : InReach(k)' <=>
        /\ cpc' = "top"    => elapsed' + cleft' + Turns(k) < Timeout
        /\ cpc' = "handle" => elapsed' + cleft' + Lag + Turns(k) < Timeout
        /\ cpc' = "recv" /\ k > 0 => elapsed' + cleft' + 2 * Lag + Turns(k - 1) < Timeout
        /\ cpc' = "arm"  /\ k > 0 => elapsed' + cleft' + 3 * Lag + Turns(k - 1) < Timeout
        /\ cpc' = "send" /\ k > 0 => elapsed' + cleft' + 4 * Lag + Turns(k - 1) < Timeout
  BY DEF InReach, Turns, C!TurnBound
<1> HIDE DEF Turns
<1>3. CASE C!LookAtClock
  <2>1. /\ cpc = "top" /\ cleft' = Lag
        /\ UNCHANGED <<elapsed, inbox, found, ccur>>
        /\ cpc' = IF elapsed >= Timeout THEN "closing"
                  ELSE IF sendsLeft > 0 /\ elapsed >= resendAt THEN "send" ELSE "arm"
    BY <1>3 DEF C!LookAtClock, C!Goto
  <2>2. elapsed + cleft + Turns(n) < Timeout
    BY <2>1 DEF InReach
  <2>3. cpc' \in {"send", "arm"}
    BY <1>0, <2>1, <2>2
  <2>4. n > 0 => /\ elapsed + Lag + 3 * Lag + Turns(n - 1) < Timeout
                 /\ elapsed + Lag + 4 * Lag + Turns(n - 1) < Timeout
    BY <1>0, <1>1, <2>2
  <2>5. ~C!RecvDatagram
    BY <2>1 DEF C!RecvDatagram
  <2>6. InReach(n)'
    BY <1>2, <2>1, <2>3, <2>4
  <2> QED
    BY <2>1, <2>3, <2>5, <2>6 DEF C!Running
<1>4. CASE C!SendAll
  <2>1. cpc = "send" /\ cpc' = "arm" /\ cleft' = Lag /\ UNCHANGED <<elapsed, inbox, found, ccur>>
    BY <1>4 DEF C!SendAll, C!Goto
  <2>2. n > 0 => elapsed + Lag + 3 * Lag + Turns(n - 1) < Timeout
    <3>1. n > 0 => elapsed + cleft + 4 * Lag + Turns(n - 1) < Timeout
      BY <2>1 DEF InReach
    <3> QED
      BY <1>0, <1>1, <3>1
  <2>3. InReach(n)'
    BY <1>2, <2>1, <2>2
  <2>4. ~C!RecvDatagram
    BY <2>1 DEF C!RecvDatagram
  <2> QED
    BY <2>1, <2>3, <2>4 DEF C!Running
<1>5. CASE C!Arm
  <2>1. /\ cpc = "arm" /\ cpc' = "recv" /\ cleft' = Lag
        /\ UNCHANGED <<elapsed, inbox, found, ccur>>
    BY <1>5 DEF C!Arm, C!Goto
  <2>2. n > 0 => elapsed + Lag + 2 * Lag + Turns(n - 1) < Timeout
    <3>1. n > 0 => elapsed + cleft + 3 * Lag + Turns(n - 1) < Timeout
      BY <2>1 DEF InReach
    <3> QED
      BY <1>0, <1>1, <3>1
  <2>3. InReach(n)'
    BY <1>2, <2>1, <2>2
  <2>4. ~C!RecvDatagram
    BY <2>1 DEF C!RecvDatagram
  <2> QED
    BY <2>1, <2>3, <2>4 DEF C!Running
<1>6. CASE C!RecvDatagram
  <2>1. cpc = "recv" /\ cpc' = "handle" /\ cleft' = Lag /\ elapsed' = elapsed
    BY <1>6 DEF C!RecvDatagram, C!Goto
  <2>2. n > 0 => elapsed + Lag + Lag + Turns(n - 1) < Timeout
    <3>1. n > 0 => elapsed + cleft + 2 * Lag + Turns(n - 1) < Timeout
      BY <2>1 DEF InReach
    <3> QED
      BY <1>0, <1>1, <3>1
  <2>3. n > 0 => InReach(n - 1)'
    <3>1. n - 1 \in Int
      OBVIOUS
    <3> QED
      BY <1>2, <2>1, <2>2, <3>1
  <2> QED
    BY <1>6, <2>1, <2>3 DEF C!Running
<1>7. CASE C!Keep \/ C!Ignore
  <2>1. cpc = "handle" /\ cpc' = "top" /\ cleft' = Lag /\ UNCHANGED <<elapsed, inbox>>
    BY <1>7 DEF C!Keep, C!Kept, C!Ignore, C!Goto
  <2>2. elapsed + Lag + Turns(n) < Timeout
    <3>1. elapsed + cleft + Lag + Turns(n) < Timeout
      BY <2>1 DEF InReach
    <3> QED
      BY <1>0, <3>1
  <2>3. InReach(n)'
    BY <1>2, <2>1, <2>2
  <2>4. ~C!RecvDatagram
    BY <2>1 DEF C!RecvDatagram
  <2> QED
    BY <2>1, <2>3, <2>4 DEF C!Running
<1>8. ~C!Open /\ ~C!SendFails /\ ~C!RecvTimesOut /\ ~C!HandleRaises /\ ~C!Close
  BY DEF C!Open, C!SendFails, C!RecvTimesOut, C!HandleRaises, C!Close, C!Running
<1> QED
  BY <1>3, <1>4, <1>5, <1>6, <1>7, <1>8 DEF C!Call

(* The same of the next state, said of what the datagrams are now.         *)
LEMMA KnownNext ==
  ASSUME life' = life,
         \/ Names[life] \in DOMAIN found'
         \/ cpc' = "handle" /\ Answers(ccur'[1])
         \/ /\ cpc' \in C!Running
            /\ \E n \in Nat : n < Len(inbox') /\ Answers(inbox'[n + 1]) /\ InReach(n)'
  PROVE  Known'
<1>1. \A m : Answers(m) <=> C!Keeps(m, Qid, Filter) /\ m.id = Names[life]
  BY DEF Answers
<1>2. Known' <=>
        \/ Names[life'] \in DOMAIN found'
        \/ cpc' = "handle" /\ C!Keeps(ccur'[1], Qid, Filter) /\ ccur'[1].id = Names[life']
        \/ /\ cpc' \in C!Running
           /\ \E n \in Nat : /\ n < Len(inbox')
                           /\ C!Keeps(inbox'[n + 1], Qid, Filter)
                           /\ inbox'[n + 1].id = Names[life']
                           /\ InReach(n)'
  BY DEF Known, Answers, C!Keeps, C!IsAnswer, C!Decodes, C!ValidDiscover, C!ValidAnnounce,
     C!MatchesFilter, C!WellFormed, C!Running
<1>3. CASE Names[life] \in DOMAIN found'
  BY <1>2, <1>3
<1>4. CASE cpc' = "handle" /\ Answers(ccur'[1])
  BY <1>1, <1>2, <1>4
<1>5. ASSUME cpc' \in C!Running, NEW n \in Nat, n < Len(inbox'), Answers(inbox'[n + 1]),
             InReach(n)'
      PROVE  Known'
  BY <1>1, <1>2, <1>5
<1> QED
  BY <1>3, <1>4, <1>5

(* The call goes on towards an answer it has taken up.                     *)
LEMMA KnownCall ==
  ASSUME Inv, Clock, Known, [Next]_vars, ClientStep, raised' = "none"
  PROVE  Known'
<1>0. C!Call /\ life' = life /\ inbox \in Seq(Said)
  BY DEF ClientStep, Inv, Typed
<1>2. CASE Names[life] \in DOMAIN found
  <2>1. Names[life] \in DOMAIN found'
    BY <1>0, <1>2, FoundGrows
  <2> QED
    BY <1>0, <2>1, KnownNext
<1>3. CASE cpc = "handle" /\ Answers(ccur[1])
  <2>1. C!Keep
    BY <1>0, <1>3 DEF C!Call, C!Open, C!LookAtClock, C!SendAll, C!SendFails, C!Arm,
       C!RecvDatagram, C!RecvTimesOut, C!Ignore, C!HandleRaises, C!Close, Answers,
       C!Ignores, C!Mismatches, C!Keeps, C!MatchesFilter
  <2>2. Names[life] \in DOMAIN found'
    BY <1>0, <1>3, <2>1 DEF C!Keep, C!Kept, Answers
  <2> QED
    BY <1>0, <2>2, KnownNext
<1>4. ASSUME cpc \in C!Running, NEW n \in Nat, n < Len(inbox), Answers(inbox[n + 1]), InReach(n)
      PROVE  Known'
  <2>1. inbox # <<>>
    BY <1>0, <1>4
  <2>2. /\ cpc' \in C!Running
        /\ ~C!RecvDatagram => InReach(n)' /\ inbox' = inbox
        /\ C!RecvDatagram /\ n > 0 => InReach(n - 1)'
    BY <1>0, <1>4, <2>1, InReachCall
  <2>3. CASE ~C!RecvDatagram
    <3>1. n < Len(inbox') /\ Answers(inbox'[n + 1]) /\ InReach(n)'
      BY <1>4, <2>2, <2>3
    <3> QED
      BY <1>0, <2>2, <3>1, KnownNext
  <2>4. CASE C!RecvDatagram
    <3>1. inbox' = Tail(inbox) /\ ccur' = <<Head(inbox)>> /\ cpc' = "handle"
      BY <2>4 DEF C!RecvDatagram, C!Goto
    <3>2. CASE n = 0
      <4>1. ccur'[1] = inbox[n + 1]
        BY <1>0, <1>4, <3>1, <3>2
      <4>2. Answers(ccur'[1])
        BY <1>4, <4>1
      <4> QED
        BY <1>0, <3>1, <4>2, KnownNext
    <3>3. CASE n > 0
      <4>1. /\ n - 1 \in Nat /\ n - 1 < Len(inbox')
            /\ inbox'[(n - 1) + 1] = inbox[n + 1]
        BY <1>0, <1>4, <3>1, <3>3
      <4>2. Answers(inbox'[(n - 1) + 1])
        BY <1>4, <4>1
      <4>3. InReach(n - 1)'
        BY <2>2, <2>4, <3>3
      <4> QED
        BY <1>0, <2>2, <4>1, <4>2, <4>3, KnownNext
    <3> QED
      BY <3>2, <3>3
  <2> QED
    BY <2>3, <2>4
<1> QED
  BY <1>2, <1>3, <1>4 DEF Known

(* Neither time nor what else arrives takes it away.                       *)
LEMMA KnownWaits ==
  ASSUME Inv, Clock, Known, life' = life, UNCHANGED <<cpc, ccur, found>>,
         elapsed' \in Nat, cleft' \in Nat, elapsed' + cleft' <= elapsed + cleft,
         inbox' = inbox \/ \E m : inbox' = Append(inbox, m)
  PROVE  Known'
<1>0. inbox \in Seq(Said) /\ elapsed \in Nat /\ cleft \in Nat /\ Lag \in Nat /\ Timeout \in Nat
  BY CallConstants DEF Inv, Typed, Clock, CallTyped
<1>2. ASSUME NEW n \in Nat, InReach(n)
      PROVE  InReach(n)'
  <2>1. InReach(n)' <=>
        /\ cpc = "top"    => elapsed' + cleft' + Turns(n) < Timeout
        /\ cpc = "handle" => elapsed' + cleft' + Lag + Turns(n) < Timeout
        /\ cpc = "recv" /\ n > 0 => elapsed' + cleft' + 2 * Lag + Turns(n - 1) < Timeout
        /\ cpc = "arm"  /\ n > 0 => elapsed' + cleft' + 3 * Lag + Turns(n - 1) < Timeout
        /\ cpc = "send" /\ n > 0 => elapsed' + cleft' + 4 * Lag + Turns(n - 1) < Timeout
    BY DEF InReach, Turns, C!TurnBound
  <2>2. Turns(n) \in Nat /\ (n > 0 => Turns(n - 1) \in Nat)
    BY TurnsTyped, TurnsBefore
  <2>3. ASSUME NEW t \in Nat, NEW g \in Nat, elapsed + cleft + g + t < Timeout
        PROVE  elapsed' + cleft' + g + t < Timeout
    <3>1. ASSUME NEW h \in Nat, NEW c \in Nat, NEW k \in Nat, NEW d \in Nat, k + d <= h + c,
                 h + c + g + t < Timeout
          PROVE  k + d + g + t < Timeout
      BY <1>0, <3>1
    <3> QED
      BY <1>0, <2>3, <3>1
  <2>4. ASSUME NEW t \in Nat, elapsed + cleft + t < Timeout
        PROVE  elapsed' + cleft' + t < Timeout
    <3>1. ASSUME NEW h \in Nat, NEW c \in Nat, NEW k \in Nat, NEW d \in Nat, k + d <= h + c,
                 h + c + t < Timeout
          PROVE  k + d + t < Timeout
      BY <1>0, <3>1
    <3> QED
      BY <1>0, <2>4, <3>1
  <2>5. Lag \in Nat /\ 2 * Lag \in Nat /\ 3 * Lag \in Nat /\ 4 * Lag \in Nat
    BY <1>0
  <2>6. /\ cpc = "top"    => elapsed + cleft + Turns(n) < Timeout
        /\ cpc = "handle" => elapsed + cleft + Lag + Turns(n) < Timeout
        /\ cpc = "recv" /\ n > 0 => elapsed + cleft + 2 * Lag + Turns(n - 1) < Timeout
        /\ cpc = "arm"  /\ n > 0 => elapsed + cleft + 3 * Lag + Turns(n - 1) < Timeout
        /\ cpc = "send" /\ n > 0 => elapsed + cleft + 4 * Lag + Turns(n - 1) < Timeout
    BY <1>2 DEF InReach
  <2> HIDE DEF Turns
  <2> QED
    BY ONLY <2>1, <2>2, <2>3, <2>4, <2>5, <2>6
<1>3. ASSUME cpc \in C!Running, NEW n \in Nat, n < Len(inbox), Answers(inbox[n + 1]), InReach(n)
      PROVE  Known'
  <2>1. n < Len(inbox') /\ inbox'[n + 1] = inbox[n + 1]
    BY <1>0, <1>3
  <2>2. Answers(inbox'[n + 1]) /\ InReach(n)'
    BY <1>2, <1>3, <2>1
  <2>3. cpc' \in C!Running
    BY <1>3
  <2> QED
    BY <2>1, <2>2, <2>3, KnownNext
<1>4. CASE Names[life] \in DOMAIN found \/ (cpc = "handle" /\ Answers(ccur[1]))
  <2>1. Names[life] \in DOMAIN found' \/ (cpc' = "handle" /\ Answers(ccur'[1]))
    BY <1>4
  <2> QED
    BY <2>1, KnownNext
<1> QED
  BY <1>3, <1>4 DEF Known

(* A responder that matches answers the query this call sends.             *)
LEMMA QueryAnswerable ==
  ASSUME C!Sendable, Matches(Self.fields)
  PROVE  R!Answerable(C!Query, Self.fields)
<1>1. /\ C!Query.type = "DISCOVER" /\ C!Query.qid = Qid /\ C!Query.body = "object"
      /\ C!Query.proto = TRUE
      /\ C!Query.filter = IF Filter \in {C!EmptyFilter, Hollow} THEN Absent ELSE Filter
      /\ C!Query.size <= MaxDatagram
  BY DEF C!Query, C!BuildQuery, C!Sendable, C!Encodes
<1>2. C!Query.filter # Absent => /\ C!Query.filter = Filter /\ Filter # Absent
                                 /\ C!WellFormed(Filter)
  BY <1>1 DEF C!Sendable
<1>3. R!Decodes(C!Query)
  BY <1>1, <1>2, DiscoveryAssumption
     DEF R!Decodes, R!ValidDiscover, R!WellFormed, C!WellFormed
<1>4. R!MatchesFilter(Self.fields, C!Query.filter)
  BY <1>2 DEF R!MatchesFilter, Matches, C!WellFormed
<1> QED
  BY <1>1, <1>3, <1>4 DEF R!Answerable, R!IsQuery

(* The client keeps what a responder that matches answers to it.           *)
LEMMA AnswerKept ==
  ASSUME C!Sendable, Matches(Self.fields), Self.typed, Typed,
         NEW m, m = Reply(life, Qid), C!Encodes(m)
  PROVE  Answers(m)
<1>1. life \in DOMAIN Names /\ Names[life] \in Ids
  BY DiscoveryAssumption DEF Typed
<1>2. /\ m.type = "ANNOUNCE" /\ m.qid = Qid /\ m.body = "object" /\ m.proto = TRUE
      /\ m.id = Names[life] /\ m.fields = Self.fields /\ m.typed = Self.typed
      /\ m.size <= MaxDatagram
  BY DEF Reply, R!Announce, R!BuildAnnounce, C!Encodes
<1>3. Names[life] # Absent /\ Self.fields # Absent /\ Qid # NotString
  BY <1>1, ComponentAssumption, DiscoveryAssumption
<1>4. C!Decodes(m)
  BY <1>2, <1>3 DEF C!Decodes, C!ValidAnnounce
<1>5. C!MatchesFilter(Self.fields, Filter)
  <2>1. CASE Filter = Absent
    BY <2>1 DEF C!MatchesFilter
  <2>2. CASE Filter # Absent /\ Filter = C!EmptyFilter
    <3>1. DOMAIN C!EmptyFilter = {}
      BY DEF C!EmptyFilter
    <3> QED
      BY <2>2, <3>1, ComponentAssumption DEF C!MatchesFilter
  <2>3. CASE Filter # Absent /\ C!WellFormed(Filter)
    BY <2>3 DEF C!MatchesFilter, C!WellFormed, Matches
  <2> QED
    BY <2>1, <2>2, <2>3 DEF C!Sendable, Matches
<1> QED
  BY <1>2, <1>4, <1>5 DEF Answers, C!Keeps, C!IsAnswer

(* What comes back from a send has room in the buffer and is in reach.     *)
LEMMA ArrivesInReach ==
  ASSUME Window, Clock, sendsLeft < C!Sends, elapsed <= Answered + MaxDelay,
         NEW n \in Nat, n < QueueCap,
         UNCHANGED <<cpc, elapsed>>, cleft' \in Nat, cleft' <= Lag
  PROVE  InReach(n)'
<1>1. InReach(n)' <=>
        /\ cpc' = "top"    => elapsed' + cleft' + Turns(n) < Timeout
        /\ cpc' = "handle" => elapsed' + cleft' + Lag + Turns(n) < Timeout
        /\ cpc' = "recv" /\ n > 0 => elapsed' + cleft' + 2 * Lag + Turns(n - 1) < Timeout
        /\ cpc' = "arm"  /\ n > 0 => elapsed' + cleft' + 3 * Lag + Turns(n - 1) < Timeout
        /\ cpc' = "send" /\ n > 0 => elapsed' + cleft' + 4 * Lag + Turns(n - 1) < Timeout
  BY DEF InReach, Turns, C!TurnBound
<1>2. /\ elapsed \in Nat /\ Lag \in Nat /\ Timeout \in Nat /\ MaxDelay \in Nat
      /\ Answered \in Int /\ Answered + MaxDelay + Turns(QueueCap) < Timeout + 2 * Lag
  BY CallConstants, WindowLeaves, ServedTyped DEF Clock, CallTyped, Turns
<1>3. /\ Turns(n) \in Nat /\ Turns(QueueCap) \in Nat /\ Turns(n) + 5 * Lag <= Turns(QueueCap)
  <2>1. n + 1 \in Nat /\ n + 1 <= QueueCap /\ QueueCap \in Nat
    BY ComponentAssumption
  <2>2. Turns(n + 1) <= Turns(QueueCap) /\ Turns(n + 1) = Turns(n) + 5 * Lag
    BY <2>1, TurnsTyped
  <2> QED
    BY <2>1, <2>2, TurnsTyped
<1>4. n > 0 => Turns(n - 1) \in Nat /\ Turns(n) = Turns(n - 1) + 5 * Lag
  BY TurnsBefore
<1> HIDE DEF Turns, Answered
<1>5. elapsed + 2 * Lag + Turns(n) < Timeout
  BY <1>2, <1>3
<1>6. ASSUME NEW c \in Nat, c <= Lag
      PROVE  /\ elapsed + c + Turns(n) < Timeout
             /\ elapsed + c + Lag + Turns(n) < Timeout
             /\ n > 0 => /\ elapsed + c + 2 * Lag + Turns(n - 1) < Timeout
                         /\ elapsed + c + 3 * Lag + Turns(n - 1) < Timeout
                         /\ elapsed + c + 4 * Lag + Turns(n - 1) < Timeout
  BY <1>2, <1>3, <1>4, <1>5, <1>6
<1>7. elapsed' = elapsed
  OBVIOUS
<1> QED
  BY <1>1, <1>6, <1>7

(* An exception leaves the call for good.                                  *)
LEMMA RaisedStays ==
  ASSUME [Next]_vars, raised' = "none"
  PROVE  raised = "none"
<1>1. CASE ClientStep
  BY <1>1 DEF ClientStep, C!Call, C!Open, C!LookAtClock, C!SendAll, C!SendFails, C!Arm,
     C!RecvDatagram, C!RecvTimesOut, C!Keep, C!Kept, C!Ignore, C!HandleRaises, C!Close
<1>2. CASE Tick
  BY <1>2 DEF Tick, C!Tick, cvars
<1> QED
  BY <1>1, <1>2, ClockSame

(* Known once is known for the rest of the responder's life, unless the    *)
(* call raises.                                                            *)
LEMMA KnownStep ==
  ASSUME Inv, Clock, Known, [Next]_vars, ~Restart, raised' = "none"
  PROVE  Known'
<1>1. CASE ClientStep
  BY <1>1, KnownCall
<1>2. life' = life
  BY DEF Next, vars, nvars, ClientStep, ResponderStep, Application, Stopping, Network,
     ReachResponder, ReachClient, Lose, Duplicate, DisturbResponder, DisturbClient, Tick
<1>3. cleft \in Nat /\ elapsed \in Nat /\ Lag \in Nat
  BY CallConstants DEF Clock, CallTyped
<1>4. CASE Tick
  <2>1. CASE UNCHANGED cvars
    BY <1>2, <1>3, <2>1, KnownWaits DEF cvars
  <2>2. CASE C!Tick
    <3>1. /\ UNCHANGED <<cpc, ccur, found, inbox>> /\ cleft > 0
          /\ cleft' = cleft - 1 /\ elapsed' = elapsed + 1
      BY <2>2 DEF C!Tick
    <3>2. cleft' \in Nat /\ elapsed' \in Nat /\ elapsed' + cleft' <= elapsed + cleft
      BY <1>3, <3>1
    <3> QED
      BY <1>2, <3>1, <3>2, KnownWaits
  <2> QED
    BY <1>4, <2>1, <2>2 DEF Tick
<1>5. CASE ~ClientStep /\ ~Tick
  <2>1. UNCHANGED <<cpc, elapsed, found, ccur>>
    BY <1>5, ClockSame
  <2>2. \/ UNCHANGED <<inbox, cleft>>
        \/ /\ \E m : inbox' = Append(inbox, m)
           /\ cleft' = IF cpc = "recv" THEN C!Earlier(cleft, Lag) ELSE cleft
    BY <1>5 DEF Next, vars, cvars, nvars, ResponderStep, Application, Stopping, Restart,
       Network, ReachResponder, ReachClient, Lose, Duplicate, DisturbResponder,
       DisturbClient, C!Deliver
  <2>3. cleft' \in Nat /\ cleft' <= cleft
    BY <1>3, <2>2 DEF C!Earlier
  <2>4. elapsed' \in Nat /\ elapsed' + cleft' <= elapsed + cleft
    <3>1. \A h, c, d \in Nat : d <= c => h + d <= h + c
      OBVIOUS
    <3> QED
      BY <1>3, <2>1, <2>3, <3>1
  <2> QED
    BY <1>2, <2>1, <2>2, <2>3, <2>4, KnownWaits
<1> QED
  BY <1>1, <1>4, <1>5

(* A responder that matches, and is up, drops no query: it answers each,   *)
(* or fails to and counts it.                                              *)
LEMMA ThreadAccounts ==
  ASSUME Inv, NetInv, ThreadInv, Clock, HandDue, lost \in Nat, ResponderStep,
         Up, Up', Matches(Self.fields)
  PROVE  /\ offered' = offered /\ lost' \in Nat
         /\ Count(net', Own') \in Nat /\ Waiting' \in Nat
         /\ lost' + Count(net', Own') + Waiting' >= lost + Count(net, Own) + Waiting
<1>0. Typed /\ R!Thread /\ Own' = Own /\ rpc # "opening"
  BY OwnSame DEF Inv, ResponderStep, Up, R!Looping
<1> DEFINE Now  == Count(net, Own)
           Then == Count(net', Own)
           replies == /\ rpc = "reply" /\ rpc' = "top"
                      /\ rcur[1].msg.from = Asker /\ sent' # sent
           fails   == /\ rpc = "reply" /\ rpc' = "top" /\ rcur[1].msg.from = Asker
                      /\ sent' = sent /\ rcur[1].msg.qid = Qid
           e == Token("client", Says(rcur[1].msg.qid))
<1>1. /\ net' = IF replies THEN net (+) Times(1, e) ELSE net
      /\ offered' = offered /\ lost' = IF fails THEN lost + 1 ELSE lost
  BY <1>0 DEF ResponderStep
<1>2. Waiting \in Nat /\ Waiting' \in Nat /\ Now \in Nat
  BY <1>0, ThreadWaiting, NetCounted
<1>3. rpc = "reply" => /\ rpc' = "top" /\ rcur # <<>>
                       /\ Waiting' = Waiting - Asks(rcur)
  <2>1. rpc' # "closing"
    BY DEF Up, R!Looping
  <2> QED
    BY <1>0, <2>1, ThreadCounts, ThreadWaiting DEF Typed, Origin, Inv
<1>4. rcur # <<>> => /\ rcur[1].msg = C!Query => Asks(rcur) = 1
                     /\ rcur[1].msg # C!Query => Asks(rcur) = 0
  BY <1>0, HandCounts
<1>5. CASE replies
  <2>1. /\ Then \in Nat
        /\ e \in Own => Then = Now + 1
        /\ e \notin Own => Then = Now
    BY <1>1, <1>5, CountOne
  <2>2. rcur[1].msg = C!Query => e \in Own
    BY <1>0, TokenParts, QueryParts, DiscoveryAssumption DEF Own
  <2>3. ~fails
    BY <1>5
  <2> HIDE DEF Now, Then, e, fails
  <2>4. CASE rcur[1].msg = C!Query
    BY <1>0, <1>1, <1>2, <1>3, <1>4, <1>5, <2>1, <2>2, <2>3, <2>4 DEF Now, Then
  <2>5. CASE rcur[1].msg # C!Query
    BY <1>0, <1>1, <1>2, <1>3, <1>4, <1>5, <2>1, <2>3, <2>5 DEF Now, Then
  <2> QED
    BY <2>4, <2>5
<1>6. CASE ~replies /\ rpc = "reply"
  <2>1. net' = net
    BY <1>1, <1>6
  <2>2. rcur[1].msg = C!Query => fails
    BY <1>3, <1>6, QueryParts
  <2> HIDE DEF Now, Then, e, fails, replies
  <2>3. CASE rcur[1].msg = C!Query
    BY <1>0, <1>1, <1>2, <1>3, <1>4, <1>6, <2>1, <2>2, <2>3 DEF Now
  <2>4. CASE rcur[1].msg # C!Query
    BY <1>0, <1>1, <1>2, <1>3, <1>4, <1>6, <2>1, <2>4 DEF Now
  <2> QED
    BY <2>3, <2>4
<1>7. CASE rpc # "reply"
  <2>1. net' = net /\ lost' = lost
    BY <1>1, <1>7
  <2>2. Waiting' = Waiting
    <3>1. CASE rcur' = rcur /\ queue' = queue
      BY <1>0, <3>1, ThreadWaiting
    <3>2. CASE rcur' # rcur /\ rcur' # <<>>
      BY <1>0, <3>2, ThreadWaiting
    <3>3. CASE rcur' # rcur /\ rcur' = <<>>
      <4>1. R!Discard
        BY <1>0, <1>7, <3>3 DEF R!Thread, R!OpenSocket, R!LoopTop, R!SkipAnnounce,
           R!PeriodicAnnounce, R!AnnounceTooLong, R!RecvDatagram, R!RecvTimesOut,
           R!CheckStop, R!HandleRaises, R!StartJitter, R!JitterEnds, R!Reply, R!ReplyTooLong,
           R!CloseSockets, R!Goto, Up, R!Looping
      <4>2. queue' = queue /\ rcur # <<>> /\ ~R!Answerable(rcur[1].msg, Self.fields)
        BY <3>3, <4>1 DEF R!Discard, R!PassedOver, R!Answerable, R!Mismatches,
           R!MatchesFilter
      <4>3. rcur[1].msg # C!Query
        <5> SUFFICES ASSUME rcur[1].msg = C!Query PROVE FALSE
          OBVIOUS
        <5>1. C!Sendable
          BY <4>2 DEF HandDue, Clock, CallTimes
        <5> QED
          BY <4>2, <5>1, QueryAnswerable
      <4> QED
        BY <1>2, <1>4, <3>3, <4>2, <4>3, AsksNone, WaitingTyped, <1>0 DEF Waiting, Asks
    <3>4. CASE rcur' = rcur /\ queue' # queue
      <4>1. R!PeriodicAnnounce \/ R!CloseSockets
        BY <1>0, <3>4 DEF R!Thread, R!OpenSocket, R!LoopTop, R!SkipAnnounce,
           R!AnnounceTooLong, R!RecvDatagram, R!RecvTimesOut,
           R!CheckStop, R!Discard, R!HandleRaises, R!StartJitter, R!JitterEnds, R!Reply,
           R!ReplyTooLong,
           ThreadInv
      <4> QED
        BY <4>1 DEF R!PeriodicAnnounce, R!AnnounceDue, R!CloseSockets, Up, R!Looping
    <3> QED
      BY <3>1, <3>2, <3>3, <3>4
  <2> QED
    BY <1>0, <1>1, <1>2, <2>1, <2>2
<1> QED
  BY <1>5, <1>6, <1>7

(* An answer that the client's buffer takes up is known.                   *)
LEMMA AnswerArrives ==
  ASSUME Window, Self.typed, Inv, NetInv, Clock, Clock', AnswersDue, [Next]_vars,
         Up, raised = "none", Matches(Self.fields), UNCHANGED <<life, cpc, elapsed>>,
         NEW e \in DOMAIN net, e \in Sent(life, Qid),
         sockOpen, Len(inbox) < QueueCap, C!Deliver(e.msg)
  PROVE  Known'
<1>0. Typed /\ inbox \in Seq(Said)
  BY DEF Inv, Typed
<1>1. sendsLeft < C!Sends /\ elapsed + e.left <= Answered + MaxDelay /\ e.left \in Nat
  BY DEF AnswersDue, Up, NetInv
<1>2. /\ elapsed \in Nat /\ Answered \in Int /\ MaxDelay \in Nat /\ Timeout \in Nat
      /\ Lag \in Nat /\ Turns(QueueCap) \in Nat
      /\ Answered + MaxDelay + Turns(QueueCap) < Timeout + 2 * Lag
  BY <1>1, CallConstants, WindowLeaves, ServedTyped, ComponentAssumption, TurnsTyped
     DEF Clock, CallTyped, Turns
<1>3. elapsed <= Answered + MaxDelay /\ elapsed < Timeout
  <2>1. 5 * Lag <= Turns(QueueCap)
    <3>1. QueueCap \in Nat /\ 1 <= QueueCap /\ 0 \in Nat /\ 0 + 1 = 1
      BY ComponentAssumption
    <3>2. Turns(0 + 1) = Turns(0) + 5 * Lag /\ Turns(0) \in Nat /\ Turns(1) <= Turns(QueueCap)
      BY <3>1, TurnsTyped
    <3> QED
      BY <1>2, <3>1, <3>2
  <2> HIDE DEF Answered, Turns
  <2> QED
    BY <1>1, <1>2, <2>1
<1>4. cpc \in C!Running
  BY <1>2, <1>3 DEF Clock, CallPhase, CallTurns, C!Ended
<1>5. C!Sendable /\ e.msg = Reply(life, Qid) /\ C!Encodes(e.msg)
  <2>1. C!Sendable
    BY <1>1 DEF Clock, CallTimes
  <2>2. e.to = "client" /\ e.msg = Reply(life, Qid)
    BY DEF Sent
  <2>3. C!Encodes(e.msg)
    BY <1>0, <2>2, Parties
  <2> QED
    BY <2>1, <2>2, <2>3
<1>6. Answers(e.msg)
  BY <1>0, <1>5, AnswerKept
<1>n. PICK n \in Nat : n = Len(inbox)
  BY <1>0
<1>7. /\ n < QueueCap /\ n < Len(inbox') /\ inbox'[n + 1] = e.msg
      /\ inbox' # <<>>
  BY <1>0, <1>n DEF C!Deliver
<1>8. cleft' \in Nat /\ cleft' <= Lag
  <2>1. cpc' = "recv" /\ inbox' # <<>> => cleft' <= Lag
    BY DEF Clock, CallTurns
  <2>2. cpc' \in {"top", "send", "arm", "handle"} => cleft' <= Lag
    BY DEF Clock, CallTurns
  <2> QED
    BY <1>4, <1>7, <2>1, <2>2 DEF Clock, CallTyped, C!Running
<1>9. InReach(n)'
  BY <1>1, <1>3, <1>7, <1>8, ArrivesInReach
<1> QED
  BY <1>4, <1>6, <1>7, <1>9, KnownNext

-----------------------------------------------------------------------------
(* The accounts of the exchanges, and the theorem.                         *)

(* Of a responder that is up and matches: it is known, or every exchange   *)
(* offered to it is under way, waits or was lost.                          *)
Accounted ==
  Up /\ Matches(Self.fields) /\ raised = "none" =>
    Known \/ offered <= lost + Count(net, Own) + Waiting

(* Every step keeps the account: no exchange of a responder that matches   *)
(* comes to nothing uncounted.                                             *)
LEMMA AccountedStep ==
  ASSUME Window, Self.typed, Inv, NetInv, ThreadInv, Balance, Clock, Clock', Deadlines,
         Accounted, [Next]_vars
  PROVE  Accounted'
<1> SUFFICES ASSUME Up', Matches(Self.fields), raised' = "none"
             PROVE  Known' \/ offered' <= lost' + Count(net', Own') + Waiting'
  BY DEF Accounted, Matches
<1>0. /\ Typed /\ BagToSet(net) = DOMAIN net /\ raised = "none"
      /\ Up \/ (ResponderStep /\ rpc = "opening")
      /\ ~Stopping /\ ~Restart /\ (~Application \/ UNCHANGED vars)
  BY RaisedStays, UpStep DEF Inv, BagToSet
<1>a. /\ lost \in Nat /\ offered \in Nat /\ Count(net, Own) \in Nat /\ Waiting \in Nat
  BY <1>0, NetCounted, WaitingTyped DEF Balance
<1>1. CASE ResponderStep /\ rpc = "opening"
  <2>1. rpc' = "top"
    BY <1>1 DEF ResponderStep, R!Thread, R!OpenSocket, R!LoopTop, R!SkipAnnounce,
       R!PeriodicAnnounce, R!AnnounceTooLong, R!RecvDatagram, R!RecvTimesOut,
       R!CheckStop, R!Discard, R!HandleRaises, R!StartJitter, R!JitterEnds, R!Reply,
           R!ReplyTooLong,
       R!CloseSockets, R!Goto, Up, R!Looping
  <2>2. /\ offered' = Number("responder") /\ lost' = 0 /\ net' = net
        /\ R!Thread /\ Own' = Own
    BY <1>1, <2>1, OwnSame DEF ResponderStep
  <2>3. Number("responder") = Count(net, Own)
    BY <1>0, <1>1, NumberWaiting
  <2>4. Waiting' \in Nat
    BY <2>2, ThreadWaiting
  <2> QED
    BY <1>a, <2>2, <2>3, <2>4
<1>2. CASE Up /\ Known
  BY <1>0, <1>2, KnownStep
<1>3. ASSUME Up, offered <= lost + Count(net, Own) + Waiting
      PROVE  Known' \/ offered' <= lost' + Count(net', Own') + Waiting'
  <2>1. CASE \/ ClientStep \/ ReachResponder \/ Lose \/ Duplicate \/ Tick
             \/ DisturbResponder \/ DisturbClient \/ UNCHANGED vars
    <3>1. /\ offered' \in Nat /\ lost' \in Nat
          /\ Count(net', Own') \in Nat /\ Waiting' \in Nat
          /\ lost' + Count(net', Own') + Waiting' + offered
               = lost + Count(net, Own) + Waiting + offered'
      BY <1>a, <2>1, ExchangesKept
    <3> QED
      BY <1>a, <1>3, <3>1
  <2>2. CASE ResponderStep
    <3>1. /\ offered' = offered /\ lost' \in Nat
          /\ Count(net', Own') \in Nat /\ Waiting' \in Nat
          /\ lost' + Count(net', Own') + Waiting' >= lost + Count(net, Own) + Waiting
      BY <1>a, <1>3, <2>2, ThreadAccounts DEF Deadlines
    <3> QED
      BY <1>a, <1>3, <3>1
  <2>3. CASE ReachClient
    <3>1. UNCHANGED <<queue, rcur, offered, life, cpc, elapsed>> /\ Own' = Own
      BY <2>3, OwnSame DEF ReachClient, rvars
    <3>2. PICK e \in Under("client") :
            /\ net' = net (-) Times(1, e)
            /\ \/ sockOpen /\ Len(inbox) < QueueCap /\ C!Deliver(e.msg) /\ lost' = lost
               \/ LostOne(e)
      BY <2>3 DEF ReachClient
    <3>3. /\ e \in DOMAIN net /\ e.to # "responder" /\ (Mine(e) <=> e \in Own)
          /\ (e \in Own => e \in Sent(life, Qid))
      <4>1. e \in DOMAIN net /\ e.to = "client"
        BY <1>0, <3>2 DEF Under
      <4>2. Mine(e) <=> e \in Own
        BY <1>0, <4>1, Parties
      <4> QED
        BY <4>1, <4>2 DEF Own, Queries
    <3>4. /\ Count(net', Own) \in Nat
          /\ e \in Own => Count(net', Own) = Count(net, Own) - 1
          /\ e \notin Own => Count(net', Own) = Count(net, Own)
      BY <3>2, <3>3, CountLess
    <3>5. Waiting' = Waiting
      BY <3>1 DEF Waiting, Asks
    <3>6. CASE e \in Own /\ sockOpen /\ Len(inbox) < QueueCap /\ C!Deliver(e.msg)
      <4>1. e \in Sent(life, Qid) /\ AnswersDue
        BY <3>3, <3>6 DEF Deadlines
      <4>2. Known'
        BY <1>0, <1>3, <3>1, <3>3, <3>6, <4>1, AnswerArrives
      <4> QED
        BY <4>2
    <3>7. CASE e \in Own /\ LostOne(e)
      <4>1. lost' = lost + 1
        BY <3>3, <3>7 DEF LostOne
      <4> QED
        BY <1>a, <1>3, <3>1, <3>4, <3>5, <3>7, <4>1
    <3>8. CASE e \notin Own
      <4>1. lost' = lost
        BY <3>2, <3>3, <3>8 DEF LostOne
      <4> QED
        BY <1>a, <1>3, <3>1, <3>4, <3>5, <3>8, <4>1
    <3> QED
      BY <3>2, <3>6, <3>7, <3>8
  <2> QED
    BY <1>0, <2>1, <2>2, <2>3 DEF Next, Network
<1> QED
  BY <1>0, <1>1, <1>2, <1>3 DEF Accounted

-----------------------------------------------------------------------------
(* All of it together.                                                     *)

Sure == Inv /\ Base /\ Clock /\ Crowd /\ Deadlines /\ Accounted

LEMMA SureInit == Init => Clock /\ Crowd /\ Deadlines /\ Accounted
<1> SUFFICES ASSUME Init PROVE Clock /\ Crowd /\ Deadlines /\ Accounted
  OBVIOUS
<1>1. /\ net = EmptyBag /\ rpc = "new" /\ noise = 0 /\ copies = 0
  BY DEF Init, R!Init
<1>2. ~Up
  BY <1>1 DEF Up, R!Looping
<1>3. DOMAIN net = {} /\ Count(net, Queries) = 0
  BY <1>1, CountEmpty
<1>4. Crowd
  BY <1>1, <1>2, <1>3, ComponentAssumption DEF Crowd
<1>5. Deadlines
  BY <1>2, <1>3 DEF Deadlines, QueriesDue, BufferDue, HandDue, AnswersDue
<1>6. Accounted
  BY <1>2 DEF Accounted
<1> QED
  BY <1>4, <1>5, <1>6, ClockInit

(* The parts are inductive together: each deadline needs the crowd, the    *)
(* crowd that nothing is left when a send is due.                          *)
LEMMA SureStep ==
  ASSUME Window, Self.typed, Sure, [Next]_vars
  PROVE  Sure'
<1>1. Inv' /\ Base' /\ Clock'
  BY InvStep, BaseStep, ClockStep DEF Sure
<1>2. NetInv /\ ThreadInv /\ Balance
  BY DEF Sure, Base
<1>3. Crowd'
  BY <1>2, CrowdStep DEF Sure
<1>4. Deadlines'
  BY <1>2, <1>3, DeadlinesStep DEF Sure
<1>5. Accounted'
  BY <1>1, <1>2, AccountedStep DEF Sure
<1> QED
  BY <1>1, <1>3, <1>4, <1>5 DEF Sure

(* When the call has returned, nothing of it is left on its way.           *)
LEMMA ReturnedComplete ==
  ASSUME Window, Sure
  PROVE  Complete
<1> SUFFICES ASSUME cpc = "returned", rpc \in R!Looping, ~stopEvent,
                    lost < offered, Matches(Self.fields)
             PROVE  Names[life] \in DOMAIN found
  BY DEF Complete
<1>0. /\ Inv /\ Typed /\ NetInv /\ ThreadInv /\ Balance /\ Clock /\ Deadlines /\ Accounted /\ Up
      /\ BufferDue /\ HandDue /\ QueriesDue /\ AnswersDue
  BY DEF Sure, Base, Inv, Up, Deadlines
<1>1. raised = "none" /\ elapsed >= Timeout
  BY <1>0 DEF Clock, CallPhase, CallTurns
<1>2. /\ lost \in Nat /\ offered \in Nat /\ Count(net, Own) \in Nat /\ Waiting \in Nat
  BY <1>0, NetCounted, WaitingTyped DEF Balance
<1>3. ~(sendsLeft < C!Sends /\ elapsed <= Answered + MaxDelay + 3 * Lag)
  <2> SUFFICES ASSUME sendsLeft < C!Sends, elapsed <= Answered + MaxDelay + 3 * Lag
               PROVE  FALSE
    OBVIOUS
  <2>1. /\ Answered \in Int /\ Answered + MaxDelay + QueueCap * C!TurnBound < Timeout + 2 * Lag
    BY <1>0, WindowLeaves
  <2>2. MaxDelay \in Nat /\ Lag \in Nat /\ Timeout \in Nat /\ elapsed \in Nat
    BY <1>0, CallConstants, ServedTyped DEF Clock, CallTyped
  <2>3. QueueCap * C!TurnBound \in Nat /\ QueueCap * C!TurnBound >= 5 * Lag
    <3>1. C!TurnBound \in Nat /\ C!TurnBound = 5 * Lag /\ QueueCap \in Nat /\ QueueCap >= 1
      BY CallConstants, ComponentAssumption
    <3>2. \A q, t \in Nat : q >= 1 => q * t \in Nat /\ q * t >= t
      OBVIOUS
    <3> QED
      BY <3>1, <3>2
  <2> HIDE DEF Answered
  <2> QED
    BY <1>1, <2>1, <2>2, <2>3
<1>4. Count(net, Queries) = 0 /\ Waiting = 0
  <2>1. Count(net, Queries) \in Nat
    BY <1>0, NetCounted
  <2> QED
    BY <1>0, <1>2, <1>3, <2>1, QueriesPending, WaitingPending
<1>5. Count(net, Own) = 0
  <2> SUFFICES ASSUME Count(net, Own) > 0 PROVE FALSE
    BY <1>2
  <2>1. PICK e \in DOMAIN net : e \in Own
    BY <1>0, NetBag, CountPositive
  <2>2. sendsLeft < C!Sends /\ \/ elapsed + e.left <= Arrived
                               \/ elapsed + e.left <= Answered + MaxDelay
    BY <1>0, <2>1 DEF Own, QueriesDue, AnswersDue, Up
  <2>3. /\ e.left \in Nat /\ elapsed \in Nat /\ MaxDelay \in Nat /\ Lag \in Nat
        /\ Arrived \in Int /\ Answered = Arrived + Served(Most) /\ Served(Most) \in Nat
    <3>1. resendAt \in Nat /\ elapsed \in Nat /\ C!Gap \in Nat
      BY <1>0, CallConstants DEF Clock, CallTyped
    <3>2. e.left \in Nat
      BY <1>0 DEF NetInv
    <3>3. Served(Most) \in Nat /\ MaxDelay \in Nat /\ Lag \in Nat
      BY ServedTyped
    <3>4. Answered = Arrived + Served(Most)
      BY DEF Answered
    <3>5. Arrived \in Int
      BY <3>1, <3>3 DEF Arrived
    <3> QED
      BY ONLY <3>1, <3>2, <3>3, <3>4, <3>5
  <2> HIDE DEF Answered, Arrived, Served
  <2> QED
    BY <1>3, <2>2, <2>3
<1>6. Known
  BY <1>0, <1>1, <1>2, <1>4, <1>5 DEF Accounted
<1> QED
  BY <1>6 DEF Known, C!Running

(* With a window as wide as that, and the application's fields of their    *)
(* types, the result is complete.                                          *)
THEOREM ScanIsComplete ==
  ASSUME Window, Self.typed
  PROVE  Spec => []Complete
<1>1. Init => Sure
  <2>1. Init => Inv /\ Base
    BY BaseInit, InvInit
  <2> QED
    BY <2>1, SureInit DEF Sure
<1>2. Sure /\ [Next]_vars => Sure'
  BY SureStep
<1>3. Sure => Complete
  BY ReturnedComplete
<1> QED
  BY <1>1, <1>2, <1>3, PTL DEF Spec
=============================================================================
