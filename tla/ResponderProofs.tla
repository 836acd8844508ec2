-------------------------- MODULE ResponderProofs ---------------------------
(***************************************************************************)
(* Proofs about the responder, for every value of its constants.           *)
(***************************************************************************)
EXTENDS Responder, TLAPS, SequenceTheorems

USE DEF Parked, Looping, Bound

(* Every datagram that can be in the buffer has a source and a qid.        *)
LEMMA MessagesTyped ==
  \A m \in Messages : m.from \in Hosts /\ m.qid \in Qids \cup {Absent, NotString}
BY ResponderAssumption DEF Messages, Datagrams, AnyQid, Poke, Announce, BuildAnnounce

(* Adding a fresh datagram keeps a buffer's type.                          *)
LEMMA EnqueueTyped ==
  ASSUME TypeOK, NEW n \in Nat, NEW m \in Messages, Enqueue(n, m)
  PROVE  /\ queue' \in Seq(Entry) /\ Len(queue') <= QueueCap
         /\ left' \in Nat /\ left' <= left
<1>1. CASE Len(queue) < QueueCap
  <2>1. Fresh(n, m) \in Entry
    BY ResponderAssumption DEF Entry, Fresh
  <2>2. queue' = Append(queue, Fresh(n, m))
    BY <1>1 DEF Enqueue
  <2> QED
    BY <1>1, <2>1, <2>2, ResponderAssumption DEF TypeOK, Enqueue, Earlier
<1>2. CASE ~(Len(queue) < QueueCap)
  BY <1>2 DEF TypeOK, Enqueue
<1> QED BY <1>1, <1>2

(* Ageing keeps the type and the length of a sequence of datagrams.        *)
LEMMA OlderTyped ==
  ASSUME NEW s \in Seq(Entry)
  PROVE  LET t == [i \in DOMAIN s |-> Older(s[i])]
         IN  t \in Seq(Entry) /\ Len(t) = Len(s) /\ (t = <<>> <=> s = <<>>)
<1> DEFINE t == [i \in DOMAIN s |-> Older(s[i])]
<1>1. ASSUME NEW i \in DOMAIN s PROVE Older(s[i]) \in Entry
  <2>1. s[i] \in Entry
    OBVIOUS
  <2> QED
    BY <2>1, ResponderAssumption DEF Older, Entry, Earlier
<1>2. t \in [1..Len(s) -> Entry] /\ Len(s) \in Nat
  BY <1>1
<1>3. t \in Seq(Entry) /\ Len(t) = Len(s)
  BY <1>2
<1> QED BY <1>3

(* The variables keep their types (responder.py, run and stop).            *)
THEOREM TypeCorrect == Spec => []TypeOK
<1>1. Init => TypeOK
  <2> SUFFICES ASSUME Init PROVE TypeOK
    OBVIOUS
  <2>1. queue \in Seq(Entry) /\ Len(queue) = 0
    BY DEF Init
  <2>2. cur \in Seq(Entry) /\ cur = <<>> /\ sent \in Seq(Replies)
    BY DEF Init
  <2>3. Len(queue) <= QueueCap
    BY <2>1, ResponderAssumption
  <2>4. cur # <<>> <=> \/ pc \in {"check", "handle", "jitter", "reply"}
                      \/ crash \in AboutDatagram
    BY DEF Init, AboutDatagram
  <2> QED
    BY <2>1, <2>2, <2>3, <2>4 DEF Init, TypeOK
<1>2. TypeOK /\ [Next]_vars => TypeOK'
  <2> SUFFICES ASSUME TypeOK, [Next]_vars PROVE TypeOK'
    OBVIOUS
  <2> USE ResponderAssumption
  <2>1. CASE OpenSocket
    BY <2>1 DEF TypeOK, OpenSocket, Goto, appVars, AboutDatagram
  <2>2. CASE LoopTop
    BY <2>2 DEF TypeOK, LoopTop, Goto, appVars
  <2>3. CASE SkipAnnounce
    BY <2>3 DEF TypeOK, SkipAnnounce, EnterRecv, appVars
  <2>4. CASE PeriodicAnnounce
    <3>1. Fresh(0, Announce(Absent)) \in Entry
      BY DEF Entry, Messages, Fresh
    <3>2. queue' \in Seq(Entry) /\ Len(queue') <= QueueCap
      <4>1. queue' = queue \/ (/\ Len(queue) < QueueCap
                               /\ queue' = Append(queue, Fresh(0, Announce(Absent))))
        BY <2>4 DEF PeriodicAnnounce
      <4>2. queue \in Seq(Entry) /\ Len(queue) <= QueueCap
        BY DEF TypeOK
      <4> QED
        BY <3>1, <4>1, <4>2
    <3>3. lateSends' \in Nat
      BY <2>4 DEF PeriodicAnnounce, TypeOK, Late
    <3> QED
      BY <2>4, <3>2, <3>3 DEF TypeOK, PeriodicAnnounce, EnterRecv, appVars
  <2>5. CASE AnnounceTooLong
    BY <2>5 DEF TypeOK, AnnounceTooLong, Goto, appVars, AboutDatagram
  <2>6. CASE RecvDatagram
    <3>1. Head(queue) \in Entry /\ Tail(queue) \in Seq(Entry)
          /\ Len(Tail(queue)) <= QueueCap
      BY <2>6 DEF RecvDatagram, TypeOK
    <3>2. cur' \in Seq(Entry) /\ cur' # <<>>
      BY <2>6, <3>1 DEF RecvDatagram
    <3> QED
      BY <2>6, <3>1, <3>2 DEF TypeOK, RecvDatagram, Goto, appVars
  <2>7. CASE RecvTimesOut
    BY <2>7 DEF TypeOK, RecvTimesOut, Goto, appVars
  <2>8. CASE CheckStop
    <3>1. CASE stopEvent
      BY <2>8, <3>1 DEF TypeOK, CheckStop, Goto, Drop, appVars, AboutDatagram
    <3>2. CASE ~stopEvent
      BY <2>8, <3>2 DEF TypeOK, CheckStop, Goto, appVars
    <3> QED BY <3>1, <3>2
  <2>9. CASE Discard
    BY <2>9 DEF TypeOK, Discard, Goto, Drop, appVars, AboutDatagram
  <2>91. CASE HandleRaises
    BY <2>91 DEF TypeOK, HandleRaises, Goto, appVars, AboutDatagram
  <2>10. CASE StartJitter
    BY <2>10 DEF TypeOK, StartJitter, appVars
  <2>11. CASE JitterEnds
    BY <2>11 DEF TypeOK, JitterEnds, Goto, appVars
  <2>12. CASE Reply
    <3>1. cur[1] \in Entry
      BY <2>12 DEF Reply, TypeOK
    <3>2. [n |-> cur[1].n, to |-> cur[1].msg.from, qid |-> cur[1].msg.qid]
            \in Replies
      BY <3>1, MessagesTyped DEF Replies, Entry
    <3> DEFINE r == [n |-> cur[1].n, to |-> cur[1].msg.from,
                     qid |-> cur[1].msg.qid]
    <3>3. (sent' = sent \/ sent' = Append(sent, r)) /\ lateSends' \in Nat
      BY <2>12 DEF Reply, TypeOK, Late
    <3>4. sent' \in Seq(Replies)
      <4>1. r \in Replies
        BY <3>2
      <4>2. sent \in Seq(Replies)
        BY DEF TypeOK
      <4> HIDE DEF r
      <4> QED BY <3>3, <4>1, <4>2
    <3> QED
      BY <2>12, <3>3, <3>4 DEF TypeOK, Reply, Goto, Drop, appVars, AboutDatagram
  <2>13. CASE ReplyTooLong
    BY <2>13 DEF TypeOK, ReplyTooLong, Goto, appVars, AboutDatagram
  <2>14. CASE CloseSockets
    BY <2>14 DEF TypeOK, CloseSockets, appVars
  <2>15. CASE Arrive
    <3>1. PICK m \in Wire : Enqueue(arrivals + 1, m)
      BY <2>15 DEF Arrive
    <3>2. /\ queue' \in Seq(Entry) /\ Len(queue') <= QueueCap
          /\ left' \in Nat
      BY <3>1, EnqueueTyped DEF TypeOK, Messages
    <3> QED
      BY <2>15, <3>2 DEF TypeOK, Arrive, appVars
  <2>16. CASE Start
    BY <2>16 DEF TypeOK, Start, Goto, appVars
  <2>17. CASE StopSetsEvent
    BY <2>17 DEF TypeOK, StopSetsEvent, threadVars
  <2>18. CASE StopPokes
    <3>1. Poke \in Messages
      BY DEF Messages
    <3>2. /\ queue' \in Seq(Entry) /\ Len(queue') <= QueueCap
          /\ left' \in Nat
      BY <2>18, <3>1, EnqueueTyped DEF TypeOK, StopPokes
    <3> QED
      BY <2>18, <3>2 DEF TypeOK, StopPokes
  <2>19. CASE JoinReturns
    BY <2>19 DEF TypeOK, JoinReturns, threadVars
  <2>20. CASE Tick
    <3>1. queue' \in Seq(Entry) /\ Len(queue') = Len(queue)
      BY <2>20, OlderTyped DEF Tick, TypeOK
    <3>2. cur' \in Seq(Entry) /\ (cur' = <<>> <=> cur = <<>>)
      BY <2>20, OlderTyped DEF Tick, TypeOK
    <3> QED
      BY <2>20, <3>1, <3>2 DEF TypeOK, Tick
  <2>21. CASE UNCHANGED vars
    BY <2>21 DEF TypeOK, vars, threadVars, appVars
  <2> QED
    BY <2>1, <2>2, <2>3, <2>4, <2>5, <2>6, <2>7, <2>8, <2>9, <2>91, <2>10, <2>11,
       <2>12, <2>13, <2>14, <2>15, <2>16, <2>17, <2>18, <2>19, <2>20, <2>21
       DEF Next, Thread, Stopping
<1> QED BY <1>1, <1>2, PTL DEF Spec

-----------------------------------------------------------------------------
(* How long a step may take, and the bound it puts on left.                *)
StepTakes ==
  IF pc = "recv" THEN RecvTimeout + Lag
  ELSE IF pc = "jitter" THEN JitterMax + Lag
  ELSE IF pc \in Parked THEN 0 ELSE Lag

StepBounded == left <= StepTakes

LEMMA StepsBounded == TypeOK /\ StepBounded /\ [Next]_vars => StepBounded'
<1> SUFFICES ASSUME TypeOK, StepBounded, [Next]_vars PROVE StepBounded'
  OBVIOUS
<1> USE ResponderAssumption DEF TypeOK, StepBounded, StepTakes
<1>1. CASE OpenSocket \/ LoopTop \/ AnnounceTooLong
  BY <1>1 DEF OpenSocket, LoopTop, AnnounceTooLong, Goto
<1>2. CASE SkipAnnounce \/ PeriodicAnnounce
  BY <1>2 DEF SkipAnnounce, PeriodicAnnounce, EnterRecv
<1>3. CASE RecvDatagram \/ RecvTimesOut \/ CheckStop
  BY <1>3 DEF RecvDatagram, RecvTimesOut, CheckStop, Goto
<1>4. CASE Discard \/ HandleRaises \/ StartJitter \/ JitterEnds
  BY <1>4 DEF Discard, HandleRaises, StartJitter, JitterEnds, Goto
<1>5. CASE Reply \/ ReplyTooLong \/ CloseSockets
  BY <1>5 DEF Reply, ReplyTooLong, CloseSockets, Goto
<1>6. CASE Arrive
  <2>1. PICK m \in Wire : Enqueue(arrivals + 1, m)
    BY <1>6 DEF Arrive
  <2>2. pc' = pc /\ left' <= left /\ left' \in Nat
    BY <1>6, <2>1, EnqueueTyped DEF Arrive, Messages
  <2> QED BY <2>2
<1>7. CASE StopPokes
  <2>1. Poke \in Messages
    BY DEF Messages
  <2>2. pc' = pc /\ left' <= left /\ left' \in Nat
    BY <1>7, <2>1, EnqueueTyped DEF StopPokes
  <2> QED BY <2>2
<1>8. CASE Start \/ StopSetsEvent \/ JoinReturns
  BY <1>8 DEF Start, StopSetsEvent, JoinReturns, threadVars, Goto
<1>9. CASE Tick
  BY <1>9 DEF Tick
<1>10. CASE UNCHANGED vars
  BY <1>10 DEF vars, threadVars
<1> QED
  BY <1>1, <1>2, <1>3, <1>4, <1>5, <1>6, <1>7, <1>8, <1>9, <1>10
     DEF Next, Thread, Stopping

(* The longest a thread may still take once the stop event is set: its     *)
(* present step, and the steps after it.                                   *)
AfterStep ==
  IF pc = "announce" THEN RecvTimeout + 3 * Lag
  ELSE IF pc = "handle" THEN JitterMax + 4 * Lag
  ELSE IF pc = "jitter" THEN 3 * Lag
  ELSE IF pc \in {"opening", "recv", "reply"} THEN 2 * Lag
  ELSE IF pc \in {"top", "check"} THEN Lag ELSE 0

Budget == left + AfterStep

(* Every state starts with a budget within ExitBound, and once the stop    *)
(* event is set neither the thread nor an arrival adds to what is left.    *)
LEMMA BudgetBounded ==
  TypeOK /\ StepBounded => Budget \in Nat /\ Budget <= ExitBound
BY ResponderAssumption
   DEF TypeOK, StepBounded, StepTakes, Budget, AfterStep, ExitBound

LEMMA BudgetSpent ==
  ASSUME TypeOK, stopEvent, Thread \/ Arrive
  PROVE  Budget' <= Budget /\ pc' # "new" /\ pc \notin Parked
<1> SUFFICES /\ Budget' <= Budget
             /\ pc' # "new" /\ pc \notin Parked
  OBVIOUS
<1> USE ResponderAssumption DEF Budget, AfterStep
<1>0. left \in Nat
  BY DEF TypeOK
<1>1. CASE OpenSocket \/ LoopTop \/ AnnounceTooLong
  BY <1>0, <1>1 DEF OpenSocket, LoopTop, AnnounceTooLong, Goto
<1>2. CASE SkipAnnounce \/ PeriodicAnnounce
  BY <1>0, <1>2 DEF SkipAnnounce, PeriodicAnnounce, EnterRecv
<1>3. CASE RecvDatagram \/ RecvTimesOut \/ CheckStop
  BY <1>0, <1>3 DEF RecvDatagram, RecvTimesOut, CheckStop, Goto
<1>4. CASE Discard \/ HandleRaises \/ StartJitter \/ JitterEnds
  BY <1>0, <1>4 DEF Discard, HandleRaises, StartJitter, JitterEnds, Goto
<1>5. CASE Reply \/ ReplyTooLong \/ CloseSockets
  BY <1>0, <1>5 DEF Reply, ReplyTooLong, CloseSockets, Goto
<1>6. CASE Arrive
  <2>1. PICK m \in Wire : Enqueue(arrivals + 1, m)
    BY <1>6 DEF Arrive
  <2>2. arrivals + 1 \in Nat /\ m \in Messages
    BY DEF TypeOK, Messages
  <2>3. left' <= left /\ left' \in Nat
    BY <2>1, <2>2, EnqueueTyped
  <2>4. pc' = pc /\ pc \in Bound
    BY <1>6 DEF Arrive
  <2>5. PICK k \in Nat : AfterStep = k /\ AfterStep' = k
    <3>1. AfterStep \in Nat /\ AfterStep' = AfterStep
      BY <2>4
    <3> HIDE DEF AfterStep
    <3> QED BY <3>1
  <2>6. PICK l \in Nat : left' = l /\ l <= left
    BY <1>0, <2>3
  <2>7. l + k <= left + k
    BY <1>0, <2>6
  <2>8. Budget' <= Budget
    <3> HIDE DEF AfterStep
    <3> QED BY <2>5, <2>6, <2>7
  <2> QED BY <2>4, <2>8
<1> QED
  BY <1>1, <1>2, <1>3, <1>4, <1>5, <1>6 DEF Thread

(* While join() waits, the thread needs no more than is left of the exit   *)
(* bound since join() began.                                               *)
JoinInv ==
  /\ app # "idle" => stopEvent
  /\ app = "joining" => /\ pc # "new"
                        /\ joinLeft <= JoinTimeout
                        /\ pc # "exited" =>
                             Budget + JoinTimeout <= ExitBound + joinLeft
  /\ StopIsClean

LEMMA JoinInvInductive ==
  ASSUME JoinOutlastsThread, TypeOK, TypeOK', StepBounded, StepBounded',
         JoinInv, [Next]_vars
  PROVE  JoinInv'
<1> USE DEF JoinInv, StopIsClean
<1>1. PICK bound \in Nat : ExitBound = bound /\ ExitBound' = bound
  BY ResponderAssumption DEF ExitBound
<1>2. PICK b \in Nat : Budget = b /\ b <= bound
  BY <1>1, BudgetBounded
<1>3. PICK bn \in Nat : Budget' = bn /\ bn <= bound
  <2>1. (TypeOK /\ StepBounded => Budget \in Nat /\ Budget <= ExitBound)'
    BY BudgetBounded, PTL
  <2> QED BY <1>1, <2>1
<1>4. PICK j \in Nat : joinLeft = j
  BY DEF TypeOK
<1>5. PICK jn \in Nat : joinLeft' = jn
  BY DEF TypeOK
<1>6. JoinTimeout \in Nat
  BY ResponderAssumption
<1>7. CASE Thread \/ Arrive
  <2>1. UNCHANGED appVars
    BY <1>7 DEF Thread, OpenSocket, LoopTop, SkipAnnounce, PeriodicAnnounce,
       AnnounceTooLong, RecvDatagram, RecvTimesOut, CheckStop, Discard, HandleRaises,
       StartJitter, JitterEnds, Reply, ReplyTooLong, CloseSockets, Arrive
  <2>2. CASE app = "idle"
    BY <2>1, <2>2 DEF appVars
  <2>3. CASE app # "idle"
    <3>1. Budget' <= Budget /\ pc' # "new" /\ pc \notin Parked
      BY <1>7, <2>3, BudgetSpent
    <3>2. app' # "idle" => stopEvent'
      BY <2>1 DEF appVars
    <3>3. app' = app /\ joinLeft' = joinLeft
      BY <2>1 DEF appVars
    <3>4. bn <= b
      BY <1>2, <1>3, <3>1
    <3>5. app # "returned"
      BY <3>1
    <3>6. app = "joining" => j <= JoinTimeout /\ b + JoinTimeout <= bound + j
      BY <1>1, <1>2, <1>4, <3>1
    <3>7. app = "joining" => bn + JoinTimeout <= bound + j
      BY <1>6, <3>4, <3>6
    <3> QED BY <1>1, <1>3, <1>4, <3>1, <3>2, <3>3, <3>5, <3>6, <3>7
  <2> QED BY <2>2, <2>3
<1>8. CASE Start
  BY <1>8 DEF Start, appVars
<1>9. CASE StopSetsEvent
  BY <1>9 DEF StopSetsEvent, threadVars
<1>10. CASE StopPokes
  <2>1. app' # "idle" => stopEvent'
    BY <1>10 DEF StopPokes
  <2>2. app' = "joining" => pc' # "new" /\ joinLeft' = JoinTimeout
    BY <1>10 DEF StopPokes
  <2>3. app' # "returned"
    BY <1>10 DEF StopPokes
  <2>4. bn + JoinTimeout <= bound + JoinTimeout /\ JoinTimeout <= JoinTimeout
    BY <1>3, <1>6
  <2>5. app' = "joining" => /\ joinLeft' <= JoinTimeout
                            /\ Budget' + JoinTimeout <= ExitBound' + joinLeft'
    BY <1>1, <1>3, <2>2, <2>4
  <2> QED BY <2>1, <2>2, <2>3, <2>5
<1>11. CASE JoinReturns
  <2>1. app' = "returned" /\ pc' = pc /\ stopEvent'
    BY <1>11 DEF JoinReturns, threadVars
  <2>2. CASE pc = "exited"
    BY <2>1, <2>2
  <2>3. CASE pc # "exited"
    <3>1. j = 0 /\ b + JoinTimeout <= bound + j
      BY <1>1, <1>2, <1>4, <1>11, <2>3 DEF JoinReturns
    <3>2. bound < JoinTimeout
      BY <1>1 DEF JoinOutlastsThread
    <3> QED BY <1>6, <3>1, <3>2
  <2> QED BY <2>2, <2>3
<1>12. CASE Tick
  <2>1. pc' = pc /\ app' = app /\ (app # "idle" => stopEvent')
    BY <1>12 DEF Tick
  <2>2. CASE app = "joining" /\ pc # "exited"
    <3>1. bn = b - 1
      <4>1. PICK k \in Nat : AfterStep = k /\ AfterStep' = k
        BY <2>1, ResponderAssumption DEF AfterStep
      <4>2. PICK l \in Nat : left = l /\ left' = l - 1
        BY <1>12, <2>2 DEF Tick, TypeOK
      <4> QED BY <1>2, <1>3, <4>1, <4>2 DEF Budget
    <3>2. jn = j - 1
      BY <1>4, <1>5, <1>12, <2>2 DEF Tick
    <3>3. j <= JoinTimeout /\ b + JoinTimeout <= bound + j
      BY <1>1, <1>2, <1>4, <2>2
    <3>4. jn <= JoinTimeout /\ bn + JoinTimeout <= bound + jn
      BY <1>6, <3>1, <3>2, <3>3
    <3> QED BY <1>1, <1>3, <1>5, <2>1, <2>2, <3>4
  <2>3. CASE app = "joining" /\ pc = "exited"
    <3>1. jn = j - 1 /\ j <= JoinTimeout
      BY <1>4, <1>5, <1>12, <2>3 DEF Tick
    <3>2. jn <= JoinTimeout
      BY <1>6, <3>1
    <3> QED BY <1>5, <2>1, <2>3, <3>2
  <2>4. CASE app # "joining"
    BY <2>1, <2>4
  <2> QED BY <2>2, <2>3, <2>4
<1>13. CASE UNCHANGED vars
  BY <1>13 DEF vars, threadVars, appVars, Budget, AfterStep
<1> QED
  BY <1>7, <1>8, <1>9, <1>10, <1>11, <1>12, <1>13 DEF Next, Stopping

(* Every step stays within its time, whatever arrives meanwhile.           *)
LEMMA StepBoundedAlways == Spec => []StepBounded
<1>1. Init => StepBounded
  BY ResponderAssumption DEF Init, StepBounded, StepTakes
<1> QED
  BY <1>1, StepsBounded, TypeCorrect, PTL DEF Spec

(* stop() returns only when its thread has ended, if its timeout exceeds   *)
(* the longest way out of the loop (responder.py, stop and run).           *)
THEOREM StopSafe ==
  ASSUME JoinOutlastsThread PROVE Spec => []StopIsClean
<1>1. Init => JoinInv
  BY DEF Init, JoinInv, StopIsClean
<1>2. TypeOK /\ TypeOK' /\ StepBounded /\ StepBounded' /\ JoinInv
        /\ [Next]_vars => JoinInv'
  BY JoinOutlastsThread, JoinInvInductive
<1>3. JoinInv => StopIsClean
  BY DEF JoinInv
<1> QED
  BY <1>1, <1>2, <1>3, TypeCorrect, StepBoundedAlways, PTL DEF Spec

-----------------------------------------------------------------------------
(* What may still leave after the stop event: nothing was sent late while  *)
(* the thread is on its way to a send.                                     *)
LateInv ==
  /\ lateSends \in {0, 1}
  /\ ~stopEvent => lateSends = 0
  /\ pc \in {"announce", "handle", "jitter", "reply"} => lateSends = 0

(* At most one datagram leaves after the stop event is set (responder.py,  *)
(* run: each send is one test of the event away from the next).            *)
THEOREM LastWordHolds == Spec => []LastWord
<1> USE DEF LateInv
<1>1. Init => LateInv
  BY DEF Init
<1>2. TypeOK /\ LateInv /\ [Next]_vars => LateInv'
  <2> SUFFICES ASSUME TypeOK, LateInv, [Next]_vars PROVE LateInv'
    OBVIOUS
  <2>0. stopEvent \in BOOLEAN
    BY DEF TypeOK
  <2>1. CASE OpenSocket \/ AnnounceTooLong \/ SkipAnnounce \/ RecvDatagram
             \/ RecvTimesOut \/ CloseSockets \/ ReplyTooLong
    BY <2>1 DEF OpenSocket, AnnounceTooLong, SkipAnnounce, RecvDatagram,
       RecvTimesOut, CloseSockets, ReplyTooLong, Goto, EnterRecv, appVars
  <2>2. CASE LoopTop \/ CheckStop
    BY <2>2 DEF LoopTop, CheckStop, Goto, appVars
  <2>3. CASE PeriodicAnnounce
    BY <2>3 DEF PeriodicAnnounce, Late, EnterRecv, appVars
  <2>4. CASE Discard \/ HandleRaises \/ StartJitter \/ JitterEnds
    BY <2>4 DEF Discard, HandleRaises, StartJitter, JitterEnds, Goto, appVars
  <2>5. CASE Reply
    BY <2>5 DEF Reply, Late, Goto, appVars
  <2>6. CASE Arrive \/ Start
    BY <2>6 DEF Arrive, Start, Goto, appVars
  <2>7. CASE StopSetsEvent \/ StopPokes \/ JoinReturns
    BY <2>7 DEF StopSetsEvent, StopPokes, JoinReturns, threadVars
  <2>8. CASE Tick
    BY <2>8 DEF Tick
  <2>9. CASE UNCHANGED vars
    BY <2>9 DEF vars, threadVars, appVars
  <2> QED
    BY <2>1, <2>2, <2>3, <2>4, <2>5, <2>6, <2>7, <2>8, <2>9
       DEF Next, Thread, Stopping
<1>3. LateInv => LastWord
  BY DEF LastWord
<1> QED BY <1>1, <1>2, <1>3, TypeCorrect, PTL DEF Spec

-----------------------------------------------------------------------------
(* A thread on its way to a reply has a query in hand that it answers; one *)
(* that has replied had its sockets.                                       *)
CauseInv ==
  /\ pc \in {"jitter", "reply"} => Answerable(cur[1].msg, Self.fields)
  /\ pc \in {"new", "opening"} => sent = <<>>
  /\ EndsForACause

(* The thread ends for stop(), for want of its sockets, for an announce    *)
(* that cannot be encoded or for a harmful datagram in hand, and for       *)
(* nothing else (responder.py, run).                                       *)
THEOREM EndsOnlyForACause == Spec => []EndsForACause
<1> USE DEF CauseInv, EndsForACause
<1>1. Init => CauseInv
  BY DEF Init
<1>2. TypeOK /\ CauseInv /\ [Next]_vars => CauseInv'
  <2> SUFFICES ASSUME TypeOK, CauseInv, [Next]_vars PROVE CauseInv'
    OBVIOUS
  <2>0. /\ stopEvent \in BOOLEAN
        /\ crash # "none" => pc \in {"closing", "exited"}
        /\ cur # <<>> <=> \/ pc \in {"check", "handle", "jitter", "reply"}
                          \/ crash \in AboutDatagram
    BY DEF TypeOK
  <2>1. CASE OpenSocket
    BY <2>0, <2>1 DEF OpenSocket, Goto, appVars, AboutDatagram
  <2>2. CASE SkipAnnounce \/ RecvDatagram \/ RecvTimesOut \/ CloseSockets
    BY <2>2 DEF SkipAnnounce, RecvDatagram, RecvTimesOut, CloseSockets, Goto,
       EnterRecv, appVars
  <2>3. CASE LoopTop \/ CheckStop
    BY <2>3 DEF LoopTop, CheckStop, Goto, appVars
  <2>4. CASE PeriodicAnnounce
    BY <2>4 DEF PeriodicAnnounce, EnterRecv, appVars
  <2>5. CASE AnnounceTooLong
    BY <2>5 DEF AnnounceTooLong, AnnounceDue, Goto, appVars
  <2>6. CASE HandleRaises
    BY <2>6 DEF HandleRaises, Goto, appVars, Harmful, AboutDatagram
  <2>7. CASE Discard \/ StartJitter \/ JitterEnds \/ Reply
    BY <2>7 DEF Discard, StartJitter, JitterEnds, Reply, Goto, appVars
  <2>8. CASE ReplyTooLong
    BY <2>8 DEF ReplyTooLong, Goto, appVars, Harmful, AboutDatagram
  <2>9. CASE Arrive \/ Start
    BY <2>9 DEF Arrive, Start, Goto, appVars
  <2>10. CASE StopSetsEvent \/ StopPokes \/ JoinReturns
    BY <2>10 DEF StopSetsEvent, StopPokes, JoinReturns, threadVars
  <2>11. CASE Tick
    <3>1. pc' = pc /\ crash' = crash /\ stopEvent' = stopEvent /\ sent' = sent
      BY <2>11 DEF Tick
    <3>2. cur' = <<>> <=> cur = <<>>
      BY <2>11 DEF Tick, TypeOK
    <3>3. cur # <<>> => cur'[1].msg = cur[1].msg
      BY <2>11 DEF Tick, TypeOK, Older
    <3> QED
      BY <2>0, <3>1, <3>2, <3>3
  <2>12. CASE UNCHANGED vars
    BY <2>12 DEF vars, threadVars, appVars
  <2> QED
    BY <2>1, <2>2, <2>3, <2>4, <2>5, <2>6, <2>7, <2>8, <2>9, <2>10, <2>11,
       <2>12 DEF Next, Thread, Stopping
<1>3. CauseInv => EndsForACause
  OBVIOUS
<1> QED BY <1>1, <1>2, <1>3, TypeCorrect, PTL DEF Spec

-----------------------------------------------------------------------------
(* The longest from the end of the present step to the next look at        *)
(* next_announce.                                                          *)
UntilLook ==
  IF pc = "recv" THEN JitterMax + 6 * Lag
  ELSE IF pc = "check" THEN JitterMax + 5 * Lag
  ELSE IF pc = "handle" THEN JitterMax + 4 * Lag
  ELSE IF pc = "jitter" THEN 3 * Lag
  ELSE IF pc = "reply" THEN 2 * Lag
  ELSE IF pc = "top" THEN Lag ELSE 0

CadenceInv ==
  pc \in Looping =>
    sinceAnnounce + left + UntilLook < AnnounceInterval + TurnBound

(* The periodic announce is never late by a turn of the loop               *)
(* (responder.py, run: next_announce is looked at once a turn).            *)
THEOREM CadenceHolds == Spec => []AnnounceCadence
<1> USE ResponderAssumption DEF CadenceInv, UntilLook, TurnBound
<1>1. AnnounceInterval > 0 /\ Init => CadenceInv
  BY DEF Init
<1>2. AnnounceInterval > 0 /\ TypeOK /\ StepBounded /\ CadenceInv /\ [Next]_vars
        => CadenceInv'
  <2> SUFFICES ASSUME AnnounceInterval > 0, TypeOK, CadenceInv, [Next]_vars
               PROVE  CadenceInv'
    OBVIOUS
  <2>0. left \in Nat /\ sinceAnnounce \in Nat
    BY DEF TypeOK
  <2>1. CASE OpenSocket
    BY <2>0, <2>1 DEF OpenSocket, Goto
  <2>2. CASE LoopTop \/ RecvDatagram \/ RecvTimesOut \/ CheckStop
    BY <2>0, <2>2 DEF LoopTop, RecvDatagram, RecvTimesOut, CheckStop, Goto
  <2>3. CASE SkipAnnounce
    BY <2>0, <2>3 DEF SkipAnnounce, EnterRecv, AnnounceDue
  <2>4. CASE PeriodicAnnounce
    BY <2>0, <2>4 DEF PeriodicAnnounce, EnterRecv
  <2>5. CASE Discard \/ HandleRaises \/ StartJitter \/ JitterEnds \/ Reply
    BY <2>0, <2>5 DEF Discard, HandleRaises, StartJitter, JitterEnds, Reply, Goto
  <2>6. CASE AnnounceTooLong \/ ReplyTooLong \/ CloseSockets \/ Start
    BY <2>6 DEF AnnounceTooLong, ReplyTooLong, CloseSockets, Start, Goto
  <2>7. CASE StopSetsEvent \/ JoinReturns \/ UNCHANGED vars
    BY <2>7 DEF StopSetsEvent, JoinReturns, vars, threadVars
  <2>8. CASE Arrive \/ StopPokes
    <3>1. pc' = pc /\ sinceAnnounce' = sinceAnnounce
      BY <2>8 DEF Arrive, StopPokes
    <3>2. left' <= left /\ left' \in Nat
      <4>1. CASE Arrive
        <5>1. PICK m \in Wire : Enqueue(arrivals + 1, m)
          BY <4>1 DEF Arrive
        <5>2. arrivals + 1 \in Nat /\ m \in Messages
          BY DEF TypeOK, Messages
        <5> QED BY <5>1, <5>2, EnqueueTyped
      <4>2. CASE StopPokes
        <5>1. Poke \in Messages
          BY DEF Messages
        <5> QED BY <2>0, <4>2, <5>1, EnqueueTyped DEF StopPokes
      <4> QED BY <2>8, <4>1, <4>2
    <3>3. PICK l \in Nat : left' = l /\ l <= left
      BY <2>0, <3>2
    <3>4. PICK u \in Nat : UntilLook = u /\ UntilLook' = u
      BY <3>1
    <3>5. PICK t \in Nat : TurnBound = t
      OBVIOUS
    <3>6. pc \in Looping => sinceAnnounce + left + u < AnnounceInterval + t
      <4> HIDE DEF UntilLook, TurnBound
      <4> QED BY <3>4, <3>5
    <3>7. pc \in Looping => sinceAnnounce + l + u < AnnounceInterval + t
      BY <2>0, <3>3, <3>6
    <3> HIDE DEF UntilLook, TurnBound
    <3> QED BY <3>1, <3>3, <3>4, <3>5, <3>7
  <2>9. CASE Tick
    BY <2>0, <2>9 DEF Tick
  <2> QED
    BY <2>1, <2>2, <2>3, <2>4, <2>5, <2>6, <2>7, <2>8, <2>9
       DEF Next, Thread, Stopping
<1>3. TypeOK /\ CadenceInv => AnnounceCadence
  BY DEF TypeOK, AnnounceCadence
<1>4. ~(AnnounceInterval > 0) => AnnounceCadence
  BY DEF AnnounceCadence
<1>5. CASE AnnounceInterval > 0
  BY <1>1, <1>2, <1>3, <1>5, TypeCorrect, StepBoundedAlways, PTL DEF Spec
<1>6. CASE ~(AnnounceInterval > 0)
  BY <1>4, <1>6, PTL
<1> QED BY <1>5, <1>6

-----------------------------------------------------------------------------
(* The order of the replies.                                               *)

(* Datagrams of number 0 did not come from the wire.                       *)
Precedes(a, b) == b.n # 0 => a.n < b.n

(* What waits, what is in hand and what was sent follow each other in the  *)
(* order of arrival, and only what came over the wire has a number.        *)
Numbered(e, last) ==
  /\ e.n \in Nat /\ e.n <= last
  /\ Answerable(e.msg, Self.fields) => e.n # 0 /\ e.msg \in Wire

Waiting(q, last) ==
  /\ \A i \in DOMAIN q : Numbered(q[i], last)
  /\ \A i, j \in DOMAIN q : i < j => Precedes(q[i], q[j])

Asked(r) ==
  \E m \in Wire : /\ Answerable(m, Self.fields)
                  /\ m.from = r.to /\ m.qid = r.qid

OrderInv ==
  /\ Waiting(queue, arrivals)
  /\ cur # <<>> => /\ Numbered(cur[1], arrivals)
                   /\ \A j \in DOMAIN queue : Precedes(cur[1], queue[j])
  /\ \A i, j \in DOMAIN sent : i < j => sent[i].n < sent[j].n
  /\ \A i \in DOMAIN sent :
       /\ sent[i].n <= arrivals
       /\ Asked(sent[i])
       /\ cur # <<>> => Precedes(sent[i], cur[1])
       /\ \A j \in DOMAIN queue : Precedes(sent[i], queue[j])
  /\ pc \in {"jitter", "reply"} => Answerable(cur[1].msg, Self.fields)

(* What this responder itself sends is no query.                           *)
LEMMA OwnAreNoQueries ==
  ~Answerable(Poke, Self.fields) /\ ~Answerable(Announce(Absent), Self.fields)
BY DEF Answerable, IsQuery, Decodes, Poke, Announce, BuildAnnounce

(* A datagram that arrives goes behind all others.                         *)
LEMMA ArrivalFollows ==
  ASSUME TypeOK, OrderInv, Arrive \/ StopPokes \/ PeriodicAnnounce
  PROVE  OrderInv'
<1> DEFINE last == arrivals'
<1>1. arrivals \in Nat /\ last \in Nat /\ arrivals <= last
  BY DEF TypeOK, Arrive, StopPokes, PeriodicAnnounce, appVars
<1>2. /\ cur' = cur /\ sent' = sent
      /\ pc' \in {"jitter", "reply"} => pc \in {"jitter", "reply"}
  BY DEF Arrive, StopPokes, PeriodicAnnounce, EnterRecv
<1>3. \/ queue' = queue
      \/ \E e : /\ queue' = Append(queue, e) /\ Numbered(e, last)
                /\ e.n = 0 \/ e.n > arrivals
  <2>1. CASE Arrive
    <3>1. PICK m \in Wire : Enqueue(arrivals + 1, m)
      BY <2>1 DEF Arrive
    <3> DEFINE e == Fresh(arrivals + 1, m)
    <3>2. Numbered(e, last) /\ e.n > arrivals
      BY <1>1, <2>1 DEF Numbered, Arrive, Fresh
    <3>3. queue' = queue \/ queue' = Append(queue, e)
      BY <3>1 DEF Enqueue
    <3> HIDE DEF e
    <3> QED
      BY <3>2, <3>3
  <2>2. CASE StopPokes
    <3> DEFINE e == Fresh(0, Poke)
    <3>1. Numbered(e, last) /\ e.n = 0
      BY <1>1, OwnAreNoQueries DEF Numbered, Fresh
    <3>2. queue' = queue \/ queue' = Append(queue, e)
      BY <2>2 DEF StopPokes, Enqueue
    <3> HIDE DEF e
    <3> QED
      BY <3>1, <3>2
  <2>3. CASE PeriodicAnnounce
    <3> DEFINE e == Fresh(0, Announce(Absent))
    <3>1. Numbered(e, last) /\ e.n = 0
      BY <1>1, OwnAreNoQueries DEF Numbered, Fresh
    <3>2. queue' = queue \/ queue' = Append(queue, e)
      BY <2>3 DEF PeriodicAnnounce
    <3> HIDE DEF e
    <3> QED
      BY <3>1, <3>2
  <2> QED
    BY <2>1, <2>2, <2>3
<1> HIDE DEF last
<1>4. \A e : Numbered(e, arrivals) => Numbered(e, last)
  BY <1>1 DEF Numbered
<1>5. \A i \in DOMAIN sent : /\ sent[i].n \in Nat
                             /\ sent[i].n <= arrivals /\ sent[i].n <= last
  <2> SUFFICES ASSUME NEW i \in DOMAIN sent
               PROVE  /\ sent[i].n \in Nat
                      /\ sent[i].n <= arrivals /\ sent[i].n <= last
    OBVIOUS
  <2>1. sent[i] \in Replies
    BY DEF TypeOK
  <2> QED
    BY <1>1, <2>1 DEF OrderInv, Replies
<1>6. CASE queue' = queue
  BY <1>2, <1>4, <1>5, <1>6 DEF OrderInv, Waiting, Asked, last
<1>7. CASE \E e : /\ queue' = Append(queue, e) /\ Numbered(e, last)
                  /\ e.n = 0 \/ e.n > arrivals
  <2>1. PICK e : /\ queue' = Append(queue, e) /\ Numbered(e, last)
                 /\ e.n = 0 \/ e.n > arrivals
    BY <1>7
  <2>2. queue \in Seq(Entry)
    BY DEF TypeOK
  <2> DEFINE l == Len(queue)
  <2>3. /\ DOMAIN queue = 1..l /\ DOMAIN queue' = 1..(l + 1) /\ l \in Nat
        /\ queue'[l + 1] = e /\ \A i \in 1..l : queue'[i] = queue[i]
    BY <2>1, <2>2
  <2> HIDE DEF l
  <2>4. \A a : a.n \in Nat /\ a.n <= arrivals => Precedes(a, e)
    BY <1>1, <2>1 DEF Precedes, Numbered
  <2>5. Waiting(queue', last)
    <3>1. \A i \in DOMAIN queue' : Numbered(queue'[i], last)
      BY <1>4, <2>1, <2>3 DEF OrderInv, Waiting
    <3>2. ASSUME NEW i \in DOMAIN queue', NEW j \in DOMAIN queue', i < j
          PROVE  Precedes(queue'[i], queue'[j])
      <4>1. i \in 1..l /\ (j \in 1..l \/ j = l + 1)
        BY <2>3, <3>2
      <4>2. Numbered(queue[i], arrivals)
        BY <2>3, <4>1 DEF OrderInv, Waiting
      <4> QED
        BY <2>3, <2>4, <3>2, <4>1, <4>2 DEF OrderInv, Waiting, Numbered
    <3> QED
      BY <3>1, <3>2 DEF Waiting
  <2>6. cur # <<>> => \A j \in DOMAIN queue' : Precedes(cur[1], queue'[j])
    BY <2>3, <2>4 DEF OrderInv, Numbered
  <2>7. \A i \in DOMAIN sent :
          \A j \in DOMAIN queue' : Precedes(sent[i], queue'[j])
    BY <1>5, <2>3, <2>4 DEF OrderInv
  <2> QED
    BY <1>2, <1>4, <1>5, <2>5, <2>6, <2>7 DEF OrderInv, Asked, last
<1> QED
  BY <1>3, <1>6, <1>7

LEMMA ReceiveFollows ==
  ASSUME TypeOK, OrderInv, RecvDatagram
  PROVE  OrderInv'
<1>1. queue \in Seq(Entry) /\ queue # <<>>
  BY DEF TypeOK, RecvDatagram
<1> DEFINE l == Len(queue)
<1>2. /\ queue' = Tail(queue) /\ cur' # <<>> /\ cur'[1] = queue[1]
      /\ sent' = sent /\ arrivals' = arrivals /\ pc' = "check"
  BY <1>1 DEF RecvDatagram, Goto
<1>3. /\ l \in Nat /\ l > 0 /\ DOMAIN queue = 1..l /\ DOMAIN queue' = 1..(l - 1)
      /\ \A i \in 1..(l - 1) : queue'[i] = queue[i + 1]
  BY <1>1, <1>2
<1> HIDE DEF l
<1>4. 1 \in DOMAIN queue
      /\ \A i \in DOMAIN queue' : i + 1 \in DOMAIN queue /\ 1 < i + 1
  BY <1>3
<1>5. Waiting(queue', arrivals)
  BY <1>3, <1>4 DEF OrderInv, Waiting
<1>6. /\ Numbered(cur'[1], arrivals)
      /\ \A j \in DOMAIN queue' : Precedes(cur'[1], queue'[j])
  BY <1>2, <1>3, <1>4 DEF OrderInv, Waiting
<1>7. \A i \in DOMAIN sent :
        /\ Precedes(sent[i], cur'[1])
        /\ \A j \in DOMAIN queue' : Precedes(sent[i], queue'[j])
  BY <1>2, <1>3, <1>4 DEF OrderInv
<1> QED
  BY <1>2, <1>5, <1>6, <1>7 DEF OrderInv, Asked

(* The reply in hand is sent after all that were.                          *)
LEMMA ReplyFollows ==
  ASSUME TypeOK, OrderInv, Reply
  PROVE  OrderInv'
<1>1. /\ cur # <<>> /\ cur' = <<>> /\ queue' = queue /\ arrivals' = arrivals
      /\ pc' = "top" /\ pc = "reply"
  BY DEF TypeOK, Reply, Goto, Drop
<1>2. CASE sent' = sent
  BY <1>1, <1>2 DEF OrderInv, Asked
<1>3. CASE sent' # sent
  <2> DEFINE r == [n |-> cur[1].n, to |-> cur[1].msg.from,
                   qid |-> cur[1].msg.qid]
  <2>1. sent' = Append(sent, r)
    BY <1>3 DEF Reply
  <2>2. Answerable(cur[1].msg, Self.fields) /\ Numbered(cur[1], arrivals)
    BY <1>1 DEF OrderInv
  <2>3. /\ cur[1].n \in Nat /\ cur[1].n # 0 /\ cur[1].n <= arrivals
        /\ cur[1].msg \in Wire
    BY <2>2 DEF Numbered
  <2>4. Asked(r) /\ r.n = cur[1].n
    BY <2>2, <2>3 DEF Asked
  <2> HIDE DEF r
  <2>5. sent \in Seq(Replies)
    BY DEF TypeOK
  <2> DEFINE l == Len(sent)
  <2>6. /\ DOMAIN sent = 1..l /\ DOMAIN sent' = 1..(l + 1) /\ l \in Nat
        /\ sent'[l + 1] = r /\ \A i \in 1..l : sent'[i] = sent[i]
    BY <2>1, <2>5
  <2> HIDE DEF l
  <2>7. \A i \in DOMAIN sent : sent[i].n < r.n
    BY <1>1, <2>3, <2>4 DEF OrderInv, Precedes
  <2>8. ASSUME NEW i \in DOMAIN sent', NEW j \in DOMAIN sent', i < j
        PROVE  sent'[i].n < sent'[j].n
    <3>1. i \in 1..l /\ (j \in 1..l \/ j = l + 1)
      BY <2>6, <2>8
    <3> QED
      BY <2>6, <2>7, <2>8, <3>1 DEF OrderInv
  <2>9. \A i \in DOMAIN sent' :
          /\ sent'[i].n <= arrivals
          /\ Asked(sent'[i])
          /\ \A j \in DOMAIN queue : Precedes(sent'[i], queue[j])
    <3>1. \A j \in DOMAIN queue : Precedes(r, queue[j])
      BY <1>1, <2>4 DEF OrderInv, Precedes
    <3> QED
      BY <2>3, <2>4, <2>6, <3>1 DEF OrderInv
  <2> QED
    BY <1>1, <2>6, <2>8, <2>9 DEF OrderInv, Asked
<1> QED
  BY <1>2, <1>3

(* Time changes nothing but the ages.                                      *)
LEMMA TickKeepsOrder ==
  ASSUME TypeOK, OrderInv, Tick
  PROVE  OrderInv'
<1>1. /\ pc' = pc /\ arrivals' = arrivals /\ sent' = sent
      /\ queue' = [i \in DOMAIN queue |-> Older(queue[i])]
      /\ cur' = [i \in DOMAIN cur |-> Older(cur[i])]
  BY DEF Tick
<1>2. \A e : Older(e).n = e.n /\ Older(e).msg = e.msg
  BY DEF Older
<1>3. cur' # <<>> => cur # <<>> /\ cur'[1] = Older(cur[1])
  BY <1>1 DEF TypeOK
<1>4. DOMAIN queue' = DOMAIN queue
      /\ \A i \in DOMAIN queue : queue'[i] = Older(queue[i])
  BY <1>1
<1>5. Waiting(queue', arrivals)
  BY <1>2, <1>4 DEF OrderInv, Waiting, Numbered, Precedes
<1>6. pc \in {"jitter", "reply"} => cur'[1] = Older(cur[1])
  BY <1>1 DEF TypeOK
<1>7. \A a, e : /\ Precedes(Older(a), Older(e)) <=> Precedes(a, e)
                /\ Precedes(a, Older(e)) <=> Precedes(a, e)
                /\ Numbered(Older(e), arrivals) <=> Numbered(e, arrivals)
  BY <1>2 DEF Precedes, Numbered
<1>8. cur' # <<>> => /\ Numbered(cur'[1], arrivals)
                     /\ \A j \in DOMAIN queue' : Precedes(cur'[1], queue'[j])
  BY <1>3, <1>4, <1>7 DEF OrderInv
<1>9. \A i \in DOMAIN sent :
        /\ cur' # <<>> => Precedes(sent[i], cur'[1])
        /\ \A j \in DOMAIN queue' : Precedes(sent[i], queue'[j])
  BY <1>3, <1>4, <1>7 DEF OrderInv
<1>10. pc' \in {"jitter", "reply"} => Answerable(cur'[1].msg, Self.fields)
  BY <1>1, <1>2, <1>6 DEF OrderInv
<1> QED
  BY <1>1, <1>5, <1>8, <1>9, <1>10 DEF OrderInv, Asked

LEMMA OrderStep ==
  ASSUME TypeOK, OrderInv, [Next]_vars
  PROVE  OrderInv'
<1>1. CASE Arrive \/ StopPokes \/ PeriodicAnnounce
  BY <1>1, ArrivalFollows
<1>2. CASE RecvDatagram
  BY <1>2, ReceiveFollows
<1>3. CASE Reply
  BY <1>3, ReplyFollows
<1>4. CASE Tick
  BY <1>4, TickKeepsOrder
<1>5. CASE /\ queue' = queue /\ sent' = sent /\ arrivals' = arrivals
           /\ cur' = cur \/ cur' = <<>>
           /\ pc' \in {"jitter", "reply"} =>
                /\ cur' = cur
                /\ Answerable(cur[1].msg, Self.fields)
  BY <1>5 DEF OrderInv, Asked
<1>6. CASE CloseSockets
  <2>1. /\ DOMAIN queue' = {} /\ sent' = sent /\ arrivals' = arrivals
        /\ cur' = cur /\ pc' = "exited"
    BY <1>6 DEF CloseSockets, appVars
  <2> QED
    BY <2>1 DEF OrderInv, Waiting, Asked
<1>7. CASE OpenSocket \/ LoopTop \/ SkipAnnounce \/ AnnounceTooLong \/ RecvTimesOut
  BY <1>5, <1>7 DEF OpenSocket, LoopTop, SkipAnnounce, AnnounceTooLong,
     RecvTimesOut, EnterRecv, Goto, appVars
<1>8. CASE CheckStop \/ Discard \/ HandleRaises \/ StartJitter \/ JitterEnds
           \/ ReplyTooLong
  BY <1>5, <1>8 DEF CheckStop, Discard, HandleRaises, StartJitter, JitterEnds, ReplyTooLong,
     Goto, Drop, OrderInv, appVars
<1>9. CASE Start \/ StopSetsEvent \/ JoinReturns \/ UNCHANGED vars
  BY <1>5, <1>9 DEF Start, StopSetsEvent, JoinReturns, Goto, vars, threadVars,
     appVars, OrderInv
<1> QED
  BY <1>1, <1>2, <1>3, <1>4, <1>6, <1>7, <1>8, <1>9 DEF Next, Thread, Stopping

(* Replies leave in the order their queries arrived, at most one for each, *)
(* to the source of a matching query and with its qid, whatever pokes,     *)
(* announces and losses come in between (responder.py, run).               *)
THEOREM RepliesDisciplined == Spec => []ReplyDiscipline
<1>1. Init => OrderInv
  BY DEF Init, OrderInv, Waiting
<1>2. TypeOK /\ OrderInv /\ [Next]_vars => OrderInv'
  BY OrderStep
<1>3. OrderInv => ReplyDiscipline
  BY DEF OrderInv, Asked, ReplyDiscipline
<1> QED
  BY <1>1, <1>2, <1>3, TypeCorrect, PTL DEF Spec

-----------------------------------------------------------------------------
(* The time a query waits.                                                 *)

(* The longest from the end of the present step to the receipt of the head *)
(* of the buffer, and to the reply to the query in hand.                   *)
ToReceive ==
  IF pc = "check" THEN JitterMax + 6 * Lag
  ELSE IF pc = "handle" THEN JitterMax + 5 * Lag
  ELSE IF pc = "jitter" THEN 4 * Lag
  ELSE IF pc = "reply" THEN 3 * Lag
  ELSE IF pc = "top" THEN 2 * Lag
  ELSE IF pc = "announce" THEN Lag ELSE 0

ToReply ==
  IF pc = "check" THEN JitterMax + 3 * Lag
  ELSE IF pc = "handle" THEN JitterMax + 2 * Lag
  ELSE IF pc = "jitter" THEN Lag ELSE 0

Wait    == left + ToReceive
OwnWait == left + ToReply

Turns(n) == n * ServiceBound

(* The datagram at place i is received before its age is that of a full    *)
(* buffer's last one, even if every step takes its longest, and the query  *)
(* in hand is answered within its own steps.                               *)
InTurn(age, i) == age + Wait + Turns(i) <= Turns(QueueCap) + ServiceBound

BacklogInv ==
  /\ pc \in {"new", "opening", "exited"} => queue = <<>>
  /\ pc = "recv" /\ queue # <<>> => left <= Lag
  /\ pc \in Looping => \A i \in DOMAIN queue : InTurn(queue[i].age, i)
  /\ pc \in {"check", "handle", "jitter", "reply"} =>
       cur[1].age + OwnWait <= Turns(QueueCap) + JitterMax + 4 * Lag

LEMMA TurnsTyped ==
  /\ ServiceBound \in Nat /\ JitterMax \in Nat /\ Lag \in Nat
  /\ ServiceBound = JitterMax + 7 * Lag
  /\ \A n \in Nat : Turns(n) \in Nat /\ Turns(n + 1) = Turns(n) + ServiceBound
  /\ \A m, n \in Nat : m <= n => Turns(m) <= Turns(n)
  /\ Turns(1) = ServiceBound
  /\ Turns(QueueCap) \in Nat
<1>1. ServiceBound \in Nat /\ JitterMax \in Nat /\ Lag \in Nat
      /\ ServiceBound = JitterMax + 7 * Lag
  BY ResponderAssumption DEF ServiceBound
<1>2. ASSUME NEW t \in Nat, NEW m \in Nat, NEW n \in Nat
      PROVE  /\ n * t \in Nat /\ (n + 1) * t = n * t + t /\ 1 * t = t
             /\ m <= n => m * t <= n * t
  BY <1>2
<1> HIDE DEF ServiceBound
<1> QED
  BY <1>1, <1>2, ResponderAssumption DEF Turns

LEMMA WaitsTyped ==
  TypeOK => Wait \in Nat /\ OwnWait \in Nat
BY ResponderAssumption DEF TypeOK, Wait, OwnWait, ToReceive, ToReply

LEMMA AgesTyped ==
  TypeOK =>
    /\ queue \in Seq(Entry)
    /\ \A i \in DOMAIN queue : queue[i].age \in Nat
    /\ cur # <<>> => cur[1].age \in Nat
<1> SUFFICES ASSUME TypeOK
             PROVE  /\ queue \in Seq(Entry)
                    /\ \A i \in DOMAIN queue : queue[i].age \in Nat
                    /\ cur # <<>> => cur[1].age \in Nat
  OBVIOUS
<1>1. queue \in Seq(Entry) /\ cur \in Seq(Entry)
  BY DEF TypeOK
<1>2. \A e \in Entry : e.age \in Nat
  BY ResponderAssumption DEF Entry
<1>3. \A i \in DOMAIN queue : queue[i] \in Entry
  BY <1>1
<1>4. cur # <<>> => cur[1] \in Entry
  BY <1>1
<1> QED
  BY <1>1, <1>2, <1>3, <1>4

(* Between two receives the thread only comes nearer to the next one, and  *)
(* to the reply.                                                           *)
LEMMA WaitsShrink ==
  ASSUME TypeOK, TypeOK', StepBounded, BacklogInv, Thread, pc' \in Looping,
         pc # "opening", ~RecvDatagram
  PROVE  /\ queue # <<>> => Wait' <= Wait
         /\ pc' \in {"check", "handle", "jitter", "reply"} =>
              OwnWait' <= OwnWait /\ cur' = cur
              /\ pc \in {"check", "handle", "jitter", "reply"}
<1> USE ResponderAssumption DEF Wait, OwnWait, ToReceive, ToReply
<1>0. left \in Nat
  BY DEF TypeOK
<1>1. CASE LoopTop \/ RecvTimesOut
  BY <1>0, <1>1 DEF LoopTop, RecvTimesOut, Goto
<1>2. CASE SkipAnnounce \/ PeriodicAnnounce
  <2>1. pc = "announce" /\ pc' = "recv" /\ (queue' # <<>> => left' = Lag)
    BY <1>2 DEF SkipAnnounce, PeriodicAnnounce, EnterRecv
  <2>2. queue # <<>> => queue' # <<>>
    BY <1>2 DEF SkipAnnounce, PeriodicAnnounce, TypeOK
  <2> QED
    BY <1>0, <2>1, <2>2
<1>3. CASE CheckStop \/ Discard
  BY <1>0, <1>3 DEF CheckStop, Discard, Goto
<1>4. CASE StartJitter \/ JitterEnds
  BY <1>0, <1>4 DEF StartJitter, JitterEnds, Goto
<1>5. CASE Reply
  BY <1>0, <1>5 DEF Reply, Goto
<1>6. CASE \/ OpenSocket \/ AnnounceTooLong \/ HandleRaises \/ ReplyTooLong
           \/ CloseSockets
  <2>1. pc = "opening" \/ pc' = "closing" \/ pc' = "exited"
    BY <1>6 DEF OpenSocket, AnnounceTooLong, HandleRaises, ReplyTooLong,
       CloseSockets, Goto
  <2> QED
    BY <2>1
<1> QED
  BY <1>1, <1>2, <1>3, <1>4, <1>5, <1>6 DEF Thread

(* A thread with something in its buffer is within a service time of its   *)
(* next receive.                                                           *)
LEMMA WaitBounded ==
  TypeOK /\ StepBounded /\ (pc = "recv" => left <= Lag) /\ pc \in Looping
    => Wait <= ServiceBound
BY ResponderAssumption
   DEF TypeOK, StepBounded, StepTakes, Wait, ToReceive, ServiceBound

(* A datagram put behind those that wait is in turn, and they stay so.     *)
LEMMA RoomForAll ==
  ASSUME TypeOK, TypeOK', StepBounded', BacklogInv, pc' \in Looping,
         queue # <<>> => pc \in Looping /\ Wait' <= Wait,
         pc' = "recv" /\ queue' # <<>> => left' <= Lag,
         \/ queue' = queue
         \/ /\ Len(queue) < QueueCap
            /\ \E n, m : queue' = Append(queue, Fresh(n, m))
  PROVE  \A i \in DOMAIN queue' : InTurn(queue[i].age, i)'
<1>1. PICK k \in Nat, s \in Nat :
      /\ Turns(QueueCap) = k /\ ServiceBound = s
      /\ \A n \in Nat : Turns(n) \in Nat
      /\ \A m, n \in Nat : m <= n => Turns(m) <= Turns(n)
  BY TurnsTyped
<1>2. PICK w \in Nat : Wait = w
  BY WaitsTyped
<1>3. PICK wn \in Nat : Wait' = wn
  <2>1. (TypeOK => Wait \in Nat /\ OwnWait \in Nat)'
    BY WaitsTyped, PTL
  <2> QED
    BY <2>1
<1>4. queue \in Seq(Entry) /\ \A i \in DOMAIN queue : queue[i].age \in Nat
  BY AgesTyped
<1>5. \A i : InTurn(queue[i].age, i)' <=> queue'[i].age + wn + Turns(i) <= k + s
  <2>1. Turns(QueueCap)' = k /\ ServiceBound' = s /\ \A i : Turns(i)' = Turns(i)
    BY <1>1 DEF Turns, ServiceBound
  <2> QED
    BY <1>3, <2>1 DEF InTurn
<1>6. ASSUME NEW i \in DOMAIN queue
      PROVE  queue[i].age + wn + Turns(i) <= k + s
  <2>1. wn <= w /\ InTurn(queue[i].age, i) /\ queue[i].age \in Nat
    BY <1>2, <1>3, <1>4, <1>6 DEF BacklogInv
  <2>2. queue[i].age + w + Turns(i) <= k + s
    BY <1>1, <1>2, <2>1 DEF InTurn
  <2>3. i \in Nat /\ Turns(i) \in Nat
    <3>1. i \in 1..Len(queue)
      BY <1>4
    <3>2. i \in Nat
      BY <3>1
    <3> QED
      BY <1>1, <3>2
  <2>4. PICK a \in Nat, t \in Nat : queue[i].age = a /\ Turns(i) = t
    BY <2>1, <2>3
  <2>5. a + wn + t <= k + s
    BY <2>1, <2>2, <2>4
  <2> QED
    BY <2>4, <2>5
<1>7. CASE queue' = queue
  BY <1>5, <1>6, <1>7
<1>8. CASE /\ Len(queue) < QueueCap
           /\ \E n, m : queue' = Append(queue, Fresh(n, m))
  <2>1. PICK n, m : queue' = Append(queue, Fresh(n, m))
    BY <1>8
  <2> DEFINE l == Len(queue)
  <2>2. Fresh(n, m).age = 0
    BY DEF Fresh
  <2>3. /\ l \in Nat /\ DOMAIN queue = 1..l /\ DOMAIN queue' = 1..(l + 1)
        /\ queue'[l + 1] = Fresh(n, m) /\ \A i \in 1..l : queue'[i] = queue[i]
        /\ queue' # <<>>
    BY <1>4, <2>1
  <2>4. wn <= s
    <3>1. (TypeOK /\ StepBounded /\ (pc = "recv" => left <= Lag)
             /\ pc \in Looping => Wait <= ServiceBound)'
      BY WaitBounded, PTL
    <3> QED
      BY <1>1, <1>3, <2>3, <3>1 DEF ServiceBound
  <2>5. l + 1 \in Nat /\ QueueCap \in Nat /\ l + 1 <= QueueCap
    <3>1. PICK c \in Nat : QueueCap = c
      BY ResponderAssumption
    <3>2. l < c
      BY <1>8, <3>1
    <3> HIDE DEF l
    <3> QED
      BY <2>3, <3>1, <3>2
  <2>6. Turns(l + 1) <= k /\ Turns(l + 1) \in Nat
    BY <1>1, <2>5
  <2>7. 0 + wn + Turns(l + 1) <= k + s
    <3>1. PICK t \in Nat : Turns(l + 1) = t
      BY <2>6
    <3> HIDE DEF l
    <3>2. 0 + wn + t <= k + s
      BY <2>4, <2>6, <3>1
    <3> QED
      BY <3>1, <3>2
  <2> HIDE DEF l
  <2> QED
    BY <1>5, <1>6, <2>2, <2>3, <2>7
<1> QED
  BY <1>7, <1>8

(* The head is taken in hand; the others move up by one place.             *)
LEMMA ReceiveInTurn ==
  ASSUME TypeOK, TypeOK', BacklogInv, RecvDatagram
  PROVE  BacklogInv'
<1>1. PICK k \in Nat, s \in Nat :
      /\ Turns(QueueCap) = k /\ ServiceBound = s
      /\ JitterMax \in Nat /\ Lag \in Nat
      /\ s = JitterMax + 7 * Lag
      /\ \A n \in Nat : Turns(n) \in Nat /\ Turns(n + 1) = Turns(n) + s
      /\ Turns(1) = s
  BY TurnsTyped
<1>2. /\ queue \in Seq(Entry) /\ queue # <<>>
      /\ \A i \in DOMAIN queue : queue[i].age \in Nat
  BY AgesTyped DEF RecvDatagram
<1>3. /\ pc = "recv" /\ pc' = "check" /\ left' = Lag /\ left \in Nat
      /\ queue' = Tail(queue) /\ cur' = <<Head(queue)>>
  BY DEF RecvDatagram, Goto, TypeOK
<1> DEFINE l == Len(queue)
<1>4. /\ l \in Nat /\ l > 0 /\ DOMAIN queue = 1..l /\ DOMAIN queue' = 1..(l - 1)
      /\ \A i \in 1..(l - 1) : queue'[i] = queue[i + 1]
      /\ cur'[1] = queue[1]
  BY <1>2, <1>3
<1> HIDE DEF l
<1>5. Wait = left /\ Wait' = s /\ OwnWait' = JitterMax + 4 * Lag
  BY <1>1, <1>3 DEF Wait, OwnWait, ToReceive, ToReply
<1>6. \A i \in DOMAIN queue : queue[i].age + left + Turns(i) <= k + s
  BY <1>1, <1>3, <1>5 DEF BacklogInv, InTurn
<1>7. Turns(QueueCap)' = k /\ ServiceBound' = s /\ \A i : Turns(i)' = Turns(i)
  BY <1>1 DEF Turns, ServiceBound
<1>8. ASSUME NEW i \in DOMAIN queue'
      PROVE  InTurn(queue[i].age, i)'
  <2>1. i \in Nat /\ i + 1 \in DOMAIN queue /\ queue'[i] = queue[i + 1]
    BY <1>4
  <2>2. /\ queue[i + 1].age \in Nat /\ Turns(i) \in Nat
        /\ Turns(i + 1) = Turns(i) + s
        /\ queue[i + 1].age + left + Turns(i + 1) <= k + s
    BY <1>1, <1>2, <1>6, <2>1
  <2>3. PICK a \in Nat, t \in Nat : queue[i + 1].age = a /\ Turns(i) = t
    BY <2>2
  <2>4. a + left + (t + s) <= k + s
    BY <2>2, <2>3
  <2>5. a + s + t <= k + s
    BY <1>3, <2>4
  <2> QED
    BY <1>7, <1>5, <2>1, <2>3, <2>5 DEF InTurn
<1>9. cur'[1].age + OwnWait' <= k + JitterMax + 4 * Lag
  <2>1. 1 \in DOMAIN queue
    BY <1>4
  <2>2. queue[1].age \in Nat /\ queue[1].age + left + s <= k + s
    BY <1>1, <1>2, <1>6, <2>1
  <2>3. PICK a \in Nat : queue[1].age = a
    BY <2>2
  <2>4. a + left + s <= k + s
    BY <2>2, <2>3
  <2>5. a <= k
    BY <1>3, <2>4
  <2>6. a + (JitterMax + 4 * Lag) <= k + JitterMax + 4 * Lag
    BY <1>1, <2>5
  <2> QED
    BY <1>4, <1>5, <2>3, <2>6
<1>10. (cur[1].age + OwnWait <= Turns(QueueCap) + JitterMax + 4 * Lag)'
  BY <1>7, <1>9
<1> QED
  BY <1>3, <1>8, <1>10 DEF BacklogInv

(* A unit of time is taken from the step's and added to the ages.          *)
LEMMA TickInTurn ==
  ASSUME TypeOK, TypeOK', BacklogInv, Tick
  PROVE  BacklogInv'
<1>1. PICK k \in Nat, s \in Nat :
      /\ Turns(QueueCap) = k /\ ServiceBound = s
      /\ JitterMax \in Nat /\ Lag \in Nat
      /\ \A n \in Nat : Turns(n) \in Nat
  BY TurnsTyped
<1>2. /\ queue \in Seq(Entry) /\ \A i \in DOMAIN queue : queue[i].age \in Nat
      /\ cur # <<>> => cur[1].age \in Nat
  BY AgesTyped
<1>3. /\ pc' = pc /\ DOMAIN queue' = DOMAIN queue
      /\ \A i \in DOMAIN queue : queue'[i] = Older(queue[i])
      /\ cur # <<>> => cur'[1] = Older(cur[1])
  BY DEF Tick, TypeOK
<1>4. ASSUME NEW e, e.age \in Nat
      PROVE  Older(e).age \in Nat /\ Older(e).age <= e.age + 1
  BY <1>4, ResponderAssumption DEF Older, Earlier
<1>5. pc \in Looping => left > 0 /\ left' = left - 1 /\ left \in Nat
  BY DEF Tick, TypeOK
<1>6. PICK tv \in Nat : ToReceive = tv /\ ToReceive' = tv
  BY <1>3, ResponderAssumption DEF ToReceive
<1>7. PICK ty \in Nat : ToReply = ty /\ ToReply' = ty
  BY <1>3, ResponderAssumption DEF ToReply
<1>8. pc \in Looping => Wait \in Nat /\ Wait > 0 /\ Wait' = Wait - 1
                         /\ OwnWait \in Nat /\ OwnWait > 0 /\ OwnWait' = OwnWait - 1
  BY <1>5, <1>6, <1>7 DEF Wait, OwnWait
<1>9. Turns(QueueCap)' = k /\ ServiceBound' = s /\ \A i : Turns(i)' = Turns(i)
  BY <1>1 DEF Turns, ServiceBound
<1>10. pc \in {"new", "opening", "exited"} => queue' = <<>>
  BY <1>3 DEF BacklogInv, Tick
<1>11. pc = "recv" /\ queue' # <<>> => left' <= Lag
  <2>1. queue' # <<>> => queue # <<>>
    BY DEF Tick
  <2> QED
    BY <1>1, <1>5, <2>1 DEF BacklogInv
<1>12. ASSUME pc \in Looping, NEW i \in DOMAIN queue'
       PROVE  InTurn(queue[i].age, i)'
  <2>1. InTurn(queue[i].age, i) /\ queue[i].age \in Nat /\ i \in Nat
    BY <1>2, <1>3, <1>12 DEF BacklogInv
  <2>2. queue'[i].age \in Nat /\ queue'[i].age <= queue[i].age + 1
    BY <1>3, <1>4, <1>12, <2>1
  <2>3. queue[i].age + Wait + Turns(i) <= k + s /\ Turns(i) \in Nat
    BY <1>1, <2>1 DEF InTurn
  <2>4. PICK w \in Nat : Wait = w /\ w > 0 /\ Wait' = w - 1
    BY <1>8, <1>12
  <2>5. PICK a \in Nat, an \in Nat, t \in Nat :
          queue[i].age = a /\ queue'[i].age = an /\ Turns(i) = t
    BY <2>1, <2>2, <2>3
  <2>6. a + w + t <= k + s /\ an <= a + 1
    BY <2>2, <2>3, <2>4, <2>5
  <2>7. an + (w - 1) + t <= k + s
    BY <2>4, <2>6
  <2> QED
    BY <1>9, <2>4, <2>5, <2>7 DEF InTurn
<1>13. ASSUME pc \in {"check", "handle", "jitter", "reply"}
       PROVE  (cur[1].age + OwnWait <= Turns(QueueCap) + JitterMax + 4 * Lag)'
  <2>1. cur # <<>> /\ pc \in Looping
    BY <1>13 DEF TypeOK
  <2>2. /\ cur[1].age \in Nat /\ cur'[1].age \in Nat
        /\ cur'[1].age <= cur[1].age + 1
    BY <1>2, <1>3, <1>4, <2>1
  <2>3. PICK o \in Nat : OwnWait = o /\ o > 0 /\ OwnWait' = o - 1
    BY <1>8, <2>1
  <2>4. PICK b \in Nat : k + JitterMax + 4 * Lag = b
    BY <1>1
  <2>5. cur[1].age + o <= b
    BY <1>1, <1>13, <2>3, <2>4 DEF BacklogInv
  <2>6. cur'[1].age + (o - 1) <= b
    BY <2>2, <2>3, <2>5
  <2> QED
    BY <1>9, <2>3, <2>4, <2>6
<1> QED
  BY <1>3, <1>10, <1>11, <1>12, <1>13 DEF BacklogInv

(* Whatever arrives, the thread's step is not made longer.                 *)
LEMMA ArrivalsInTurn ==
  ASSUME TypeOK, TypeOK', StepBounded', BacklogInv, Arrive \/ StopPokes
  PROVE  BacklogInv'
<1>1. \/ UNCHANGED <<queue, left>>
      \/ /\ pc \in Bound
         /\ Len(queue) < QueueCap
         /\ \E n, m : queue' = Append(queue, Fresh(n, m))
         /\ left' = IF pc = "recv" THEN Earlier(left, Lag) ELSE left
  BY DEF Arrive, StopPokes, Enqueue
<1>2. pc' = pc /\ cur' = cur /\ left \in Nat
  BY DEF Arrive, StopPokes, TypeOK
<1>3. Lag \in Nat
  BY ResponderAssumption
<1>4. left' \in Nat /\ left' <= left
  BY <1>1, <1>2, <1>3 DEF Earlier
<1>5. pc' = "recv" /\ queue' # <<>> => left' <= Lag
  BY <1>1, <1>2, <1>3 DEF Earlier, BacklogInv
<1>6. pc' \in {"new", "opening", "exited"} => queue' = <<>>
  BY <1>1, <1>2 DEF BacklogInv
<1>7. PICK l \in Nat, ln \in Nat : left = l /\ left' = ln /\ ln <= l
  BY <1>2, <1>4
<1>8. PICK ty \in Nat : ToReply = ty /\ ToReply' = ty
  BY <1>2, ResponderAssumption DEF ToReply
<1>9. PICK tv \in Nat : ToReceive = tv /\ ToReceive' = tv
  BY <1>2, ResponderAssumption DEF ToReceive
<1>10. Wait' <= Wait /\ OwnWait = l + ty /\ OwnWait' = ln + ty
  BY <1>7, <1>8, <1>9 DEF Wait, OwnWait
<1>11. ASSUME pc' \in Looping
       PROVE  \A i \in DOMAIN queue' : InTurn(queue[i].age, i)'
  <2>1. \/ queue' = queue
        \/ /\ Len(queue) < QueueCap
           /\ \E n, m : queue' = Append(queue, Fresh(n, m))
    BY <1>1
  <2>2. queue # <<>> => pc \in Looping /\ Wait' <= Wait
    BY <1>2, <1>10, <1>11
  <2> QED
    BY <1>5, <1>11, <2>1, <2>2, RoomForAll
<1>12. ASSUME pc \in {"check", "handle", "jitter", "reply"}
       PROVE  (cur[1].age + OwnWait <= Turns(QueueCap) + JitterMax + 4 * Lag)'
  <2>1. PICK b \in Nat : Turns(QueueCap) + JitterMax + 4 * Lag = b
    BY TurnsTyped
  <2>2. (Turns(QueueCap) + JitterMax + 4 * Lag)' = b
    BY <2>1 DEF Turns, ServiceBound
  <2>3. PICK a \in Nat : cur[1].age = a
    BY <1>12, AgesTyped DEF TypeOK
  <2>4. a + (l + ty) <= b
    BY <1>10, <1>12, <2>1, <2>3 DEF BacklogInv
  <2>5. a + (ln + ty) <= b
    BY <1>7, <2>4
  <2> QED
    BY <1>2, <1>10, <2>2, <2>3, <2>5
<1> QED
  BY <1>2, <1>5, <1>6, <1>11, <1>12 DEF BacklogInv

LEMMA BacklogStep ==
  ASSUME TypeOK, TypeOK', StepBounded, StepBounded', BacklogInv, [Next]_vars
  PROVE  BacklogInv'
<1>1. CASE RecvDatagram
  BY <1>1, ReceiveInTurn
<1>2. CASE Tick
  BY <1>2, TickInTurn
<1>3. CASE Arrive \/ StopPokes
  BY <1>3, ArrivalsInTurn
<1>4. CASE Thread /\ ~RecvDatagram /\ pc' \in Looping /\ pc # "opening"
  <2>1. /\ queue # <<>> => Wait' <= Wait
        /\ pc' \in {"check", "handle", "jitter", "reply"} =>
             OwnWait' <= OwnWait /\ cur' = cur
             /\ pc \in {"check", "handle", "jitter", "reply"}
    BY <1>4, WaitsShrink
  <2>2. \/ queue' = queue
        \/ /\ Len(queue) < QueueCap
           /\ \E n, m : queue' = Append(queue, Fresh(n, m))
    BY <1>4 DEF Thread, OpenSocket, LoopTop, SkipAnnounce, PeriodicAnnounce,
       AnnounceTooLong, RecvTimesOut, CheckStop, Discard, HandleRaises, StartJitter,
       JitterEnds, Reply, ReplyTooLong, CloseSockets
  <2>3. pc' = "recv" /\ queue' # <<>> => left' <= Lag
    <3>1. pc' = "recv" => SkipAnnounce \/ PeriodicAnnounce
      BY <1>4 DEF Thread, OpenSocket, LoopTop, AnnounceTooLong, RecvTimesOut,
         CheckStop, Discard, HandleRaises, StartJitter, JitterEnds, Reply, ReplyTooLong,
         CloseSockets, Goto
    <3>2. Lag \in Nat
      BY ResponderAssumption
    <3> QED
      BY <3>1, <3>2 DEF SkipAnnounce, PeriodicAnnounce, EnterRecv
  <2>4. pc \in Looping
    BY <1>4 DEF Thread, OpenSocket, LoopTop, SkipAnnounce, PeriodicAnnounce,
       AnnounceTooLong, RecvTimesOut, CheckStop, Discard, HandleRaises, StartJitter,
       JitterEnds, Reply, ReplyTooLong, CloseSockets
  <2>5. \A i \in DOMAIN queue' : InTurn(queue[i].age, i)'
    BY <1>4, <2>1, <2>2, <2>3, <2>4, RoomForAll
  <2>6. ASSUME pc' \in {"check", "handle", "jitter", "reply"}
        PROVE  (cur[1].age + OwnWait <= Turns(QueueCap) + JitterMax + 4 * Lag)'
    <3>1. PICK b \in Nat : Turns(QueueCap) + JitterMax + 4 * Lag = b
      BY TurnsTyped
    <3>2. (Turns(QueueCap) + JitterMax + 4 * Lag)' = b
      BY <3>1 DEF Turns, ServiceBound
    <3>3. PICK a \in Nat : cur[1].age = a
      BY <2>1, <2>6, AgesTyped DEF TypeOK
    <3>4. PICK o \in Nat : OwnWait = o
      BY WaitsTyped
    <3>5. PICK on \in Nat : OwnWait' = on
      <4>1. (TypeOK => Wait \in Nat /\ OwnWait \in Nat)'
        BY WaitsTyped, PTL
      <4> QED
        BY <4>1
    <3>6. a + o <= b
      BY <2>1, <2>6, <3>1, <3>3, <3>4 DEF BacklogInv
    <3>7. on <= o
      BY <2>1, <2>6, <3>4, <3>5
    <3>8. a + on <= b
      BY <3>6, <3>7
    <3> QED
      BY <2>1, <2>6, <3>2, <3>3, <3>5, <3>8
  <2> QED
    BY <1>4, <2>3, <2>5, <2>6 DEF BacklogInv
<1>5. CASE Thread /\ pc = "opening"
  <2>1. queue' = <<>> /\ pc' \in {"top", "exited"}
    BY <1>5 DEF Thread, OpenSocket, LoopTop, SkipAnnounce, PeriodicAnnounce,
       AnnounceTooLong, RecvDatagram, RecvTimesOut, CheckStop, Discard, HandleRaises,
       StartJitter, JitterEnds, Reply, ReplyTooLong, CloseSockets, Goto,
       BacklogInv
  <2> QED
    BY <2>1 DEF BacklogInv
<1>6. CASE Thread /\ pc' \notin Looping /\ pc # "opening"
  <2>1. pc' = "closing" \/ (pc' = "exited" /\ queue' = <<>>)
    BY <1>6 DEF Thread, OpenSocket, LoopTop, SkipAnnounce, PeriodicAnnounce,
       AnnounceTooLong, RecvDatagram, RecvTimesOut, CheckStop, Discard, HandleRaises,
       StartJitter, JitterEnds, Reply, ReplyTooLong, CloseSockets, Goto,
       EnterRecv
  <2> QED
    BY <2>1 DEF BacklogInv
<1>7. CASE Start
  BY <1>7 DEF Start, Goto, BacklogInv
<1>8. CASE StopSetsEvent \/ JoinReturns \/ UNCHANGED vars
  BY <1>8 DEF StopSetsEvent, JoinReturns, vars, threadVars, BacklogInv, InTurn,
     Wait, OwnWait, ToReceive, ToReply, Turns, ServiceBound
<1> QED
  BY <1>1, <1>2, <1>3, <1>4, <1>5, <1>6, <1>7, <1>8 DEF Next, Stopping

(* A query is answered within one service time for itself and one for each *)
(* datagram the buffer may hold ahead of it, less three steps, whatever    *)
(* comes in behind it (responder.py, run: one query at a time, a jitter    *)
(* sleep for each).                                                        *)
THEOREM BacklogIsBounded == Spec => []BacklogBound
<1>1. Init => BacklogInv
  BY DEF Init, BacklogInv
<1>2. TypeOK /\ TypeOK' /\ StepBounded /\ StepBounded' /\ BacklogInv
        /\ [Next]_vars => BacklogInv'
  BY BacklogStep
<1>3. TypeOK /\ BacklogInv => BacklogBound
  <2> SUFFICES ASSUME TypeOK, BacklogInv, pc = "reply"
               PROVE  cur[1].age <= (QueueCap + 1) * ServiceBound - 3 * Lag
    BY DEF BacklogBound
  <2>1. PICK k \in Nat, s \in Nat : Turns(QueueCap) = k /\ ServiceBound = s
    BY TurnsTyped
  <2> DEFINE full == (QueueCap + 1) * ServiceBound
  <2>2. full = k + s
    <3>1. QueueCap \in Nat /\ Turns(QueueCap + 1) = k + s
      BY <2>1, TurnsTyped, ResponderAssumption
    <3> QED
      BY <3>1 DEF Turns
  <2>3. PICK a \in Nat : cur[1].age = a
    BY AgesTyped DEF TypeOK
  <2>4. PICK o \in Nat : OwnWait = o
    BY WaitsTyped
  <2>5. a + o <= k + JitterMax + 4 * Lag
    BY <2>1, <2>3, <2>4 DEF BacklogInv
  <2>6. JitterMax \in Nat /\ Lag \in Nat /\ s = JitterMax + 7 * Lag
    BY <2>1, TurnsTyped
  <2>7. a <= full - 3 * Lag
    <3> HIDE DEF full
    <3> QED
      BY <2>2, <2>5, <2>6
  <2> QED
    BY <2>3, <2>7, Zenon
<1> QED
  BY <1>1, <1>2, <1>3, TypeCorrect, StepBoundedAlways, PTL DEF Spec
=============================================================================
