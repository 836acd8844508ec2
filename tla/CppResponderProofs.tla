------------------------- MODULE CppResponderProofs -------------------------
(***************************************************************************)
(* Proofs about the C++ responder, for every value of its constants: any   *)
(* number of starts, arrivals and datagrams in the buffer, any timing.     *)
(***************************************************************************)
EXTENDS CppResponder, ProtocolProofs, CppJsonProofs, SequenceTheorems

USE DEF Running

-----------------------------------------------------------------------------
(* Types.                                                                  *)

Messages == Wire \cup {Poke, Announce(Absent)}
Entry    == [n : 0..MaxArrivals, msg : Messages]

(* Whatever reaches the socket, the buffer keeps its type and its bound.   *)
LEMMA EnqueueTyped ==
  ASSUME TypeOK, NEW n \in 0..MaxArrivals, NEW m \in Messages, Enqueue(n, m)
  PROVE  /\ queue' \in Seq(Entry) /\ Len(queue') <= QueueCap
         /\ left' \in Nat /\ left' <= left
<1>1. queue \in Seq(Entry) /\ Len(queue) <= QueueCap /\ left \in Nat
  BY DEF TypeOK, Entry, Messages
<1> DEFINE e == [n |-> n, msg |-> m]
<1>2. e \in Entry
  BY DEF Entry
<1>3. queue' = queue \/ (Len(queue) < QueueCap /\ queue' = Append(queue, e))
  BY DEF Enqueue
<1>4. left' = left \/ (left' = Lag /\ Lag < left)
  BY <1>1, CppResponderAssumption DEF Enqueue
<1>5. queue' \in Seq(Entry) /\ Len(queue') <= QueueCap
  <2> HIDE DEF e
  <2> QED
    BY <1>1, <1>2, <1>3, CppResponderAssumption
<1> QED
  BY <1>1, <1>4, <1>5, CppResponderAssumption

(* An arrival, or a poke that reaches this socket.                         *)
LEMMA ArriveTyped ==
  ASSUME TypeOK, Arrive
  PROVE  /\ queue' \in Seq(Entry) /\ Len(queue') <= QueueCap
         /\ left' \in Nat /\ left' <= left
<1>1. PICK m \in Wire : Enqueue(arrivals + 1, m)
  BY DEF Arrive
<1>2. arrivals + 1 \in 0..MaxArrivals
  BY CppResponderAssumption DEF Arrive, TypeOK
<1>3. m \in Messages
  BY DEF Messages
<1> QED
  BY <1>1, <1>2, <1>3, EnqueueTyped

LEMMA PokeTyped ==
  ASSUME TypeOK, StopPokes
  PROVE  /\ queue' \in Seq(Entry) /\ Len(queue') <= QueueCap
         /\ left' \in Nat /\ left' <= left
<1>1. Enqueue(0, Poke) \/ UNCHANGED <<queue, left>>
  BY DEF StopPokes
<1>2. 0 \in 0..MaxArrivals /\ Poke \in Messages
  BY CppResponderAssumption DEF Messages
<1>3. CASE Enqueue(0, Poke)
  BY <1>2, <1>3, EnqueueTyped
<1>4. CASE UNCHANGED <<queue, left>>
  BY <1>4 DEF TypeOK, Entry, Messages
<1> QED
  BY <1>1, <1>3, <1>4

(* The variables keep their types, over any number of lives of the thread  *)
(* (Responder.cpp, start, run and stop).                                   *)
LEMMA TypeStep ==
  ASSUME TypeOK, LifecycleAgrees, [Next]_vars
  PROVE  TypeOK'
<1> USE CppResponderAssumption
<1>1. CASE Begin \/ JitterEnds \/ CloseSendSocket
  BY <1>1 DEF TypeOK, Begin, JitterEnds, CloseSendSocket, Goto, Shared, appVars
<1>2. CASE LoopTop
  BY <1>2 DEF TypeOK, LoopTop, Goto, Shared, appVars
<1>3. CASE RecvDatagram
  <2>1. queue \in Seq(Entry) /\ queue # <<>> /\ Len(queue) <= QueueCap
    BY <1>3 DEF TypeOK, RecvDatagram, Entry, Messages
  <2>2. Tail(queue) \in Seq(Entry) /\ Len(Tail(queue)) <= QueueCap
    BY <2>1
  <2>3. queue' \in Seq(Entry) /\ Len(queue') <= QueueCap /\ cur' # <<>>
    BY <1>3, <2>2 DEF RecvDatagram
  <2> QED
    BY <1>3, <2>3 DEF TypeOK, RecvDatagram, Goto, Shared, appVars, Entry, Messages
<1>4. CASE RecvTimesOut
  BY <1>4 DEF TypeOK, RecvTimesOut, Goto, Shared, appVars
<1>5. CASE CheckStop
  BY <1>5 DEF TypeOK, CheckStop, Goto, Shared, appVars
<1>6. CASE Discard
  BY <1>6 DEF TypeOK, Discard, DiscardedTo, Goto, Shared, appVars
<1>7. CASE StartJitter
  BY <1>7 DEF TypeOK, StartJitter, Goto, Shared, appVars
<1>8. CASE Reply
  <2>1. lateSends' \in Nat
    BY <1>8 DEF TypeOK, Reply, Late
  <2> QED
    BY <1>8, <2>1 DEF TypeOK, Reply, Goto, Shared, appVars
<1>9. CASE PeriodicAnnounce
  <2>1. queue \in Seq(Entry) /\ Len(queue) <= QueueCap
    BY DEF TypeOK, Entry, Messages
  <2>2. [n |-> 0, msg |-> Announce(Absent)] \in Entry
    BY DEF Entry, Messages
  <2>3. \/ queue' = queue
        \/ /\ Len(queue) < QueueCap
           /\ queue' = Append(queue, [n |-> 0, msg |-> Announce(Absent)])
    BY <1>9 DEF PeriodicAnnounce
  <2>4. queue' \in Seq(Entry) /\ Len(queue') <= QueueCap
    BY <2>1, <2>2, <2>3
  <2>5. lateSends' \in Nat
    BY <1>9 DEF TypeOK, PeriodicAnnounce, Late
  <2> QED
    BY <1>9, <2>4, <2>5
       DEF TypeOK, PeriodicAnnounce, Goto, Shared, appVars, Entry, Messages
<1>10. CASE SkipAnnounce
  BY <1>10 DEF TypeOK, SkipAnnounce, Goto, Shared, appVars
<1>11. CASE Arrive
  <2>1. queue' \in Seq(Entry) /\ Len(queue') <= QueueCap /\ left' \in Nat
    BY <1>11, ArriveTyped
  <2> QED
    BY <1>11, <2>1 DEF TypeOK, Arrive, appVars, Entry, Messages
<1>12. CASE Start \/ StartFails \/ StartRefused
  <2>1. queue' = <<>>
    BY <1>12 DEF Start, StartFails, StartRefused
  <2>2. queue' \in Seq(Entry) /\ Len(queue') <= QueueCap
    BY <2>1
  <2>3. starts' \in 0..MaxStarts
    BY <1>12 DEF TypeOK, Start, StartFails, StartRefused
  <2>4. ~joinable => cur = <<>>
    BY DEF TypeOK, LifecycleAgrees
  <2>5. CASE Start
    BY <2>2, <2>3, <2>4, <2>5 DEF TypeOK, Start, Goto, Entry, Messages
  <2>6. CASE StartFails \/ StartRefused
    BY <2>2, <2>3, <2>6 DEF TypeOK, StartFails, StartRefused, Entry, Messages
  <2> QED
    BY <1>12, <2>5, <2>6
<1>13. CASE StopSetsFlag
  BY <1>13 DEF TypeOK, StopSetsFlag, threadVars
<1>14. CASE StopPokes
  <2>1. queue' \in Seq(Entry) /\ Len(queue') <= QueueCap /\ left' \in Nat
    BY <1>14, PokeTyped
  <2> QED
    BY <1>14, <2>1 DEF TypeOK, StopPokes, Entry, Messages
<1>15. CASE JoinReturns
  <2>1. queue' \in Seq(Entry) /\ Len(queue') <= QueueCap
    BY <1>15 DEF JoinReturns
  <2> QED
    BY <1>15, <2>1 DEF TypeOK, JoinReturns, Entry, Messages
<1>16. CASE Tick
  BY <1>16 DEF TypeOK, Tick, appVars
<1>17. CASE UNCHANGED vars
  BY <1>17 DEF TypeOK, vars, threadVars, appVars
<1> QED
  BY <1>1, <1>2, <1>3, <1>4, <1>5, <1>6, <1>7, <1>8, <1>9, <1>10, <1>11,
     <1>12, <1>13, <1>14, <1>15, <1>16, <1>17 DEF Next, Thread, Stopping

(* Thread, handle and socket agree, also after a start that failed; while  *)
(* stop() is under way there is a thread, and the flag is set.             *)
LifeInv ==
  /\ LifecycleAgrees
  /\ app # "idle" => joinable /\ stopFlag
  /\ pc \in {"closing", "ended"} => stopFlag

LEMMA LifeStep ==
  ASSUME TypeOK, LifeInv, [Next]_vars
  PROVE  LifeInv'
<1> USE DEF LifeInv, LifecycleAgrees
<1>1. CASE Begin \/ LoopTop \/ RecvDatagram \/ RecvTimesOut
  BY <1>1 DEF Begin, LoopTop, RecvDatagram, RecvTimesOut, Goto, Shared, appVars
<1>2. CASE CheckStop \/ Discard \/ StartJitter \/ JitterEnds
  BY <1>2 DEF CheckStop, Discard, DiscardedTo, StartJitter, JitterEnds, Goto,
       Shared, appVars
<1>3. CASE Reply \/ PeriodicAnnounce \/ SkipAnnounce \/ CloseSendSocket
  BY <1>3 DEF Reply, PeriodicAnnounce, SkipAnnounce, CloseSendSocket, Goto,
       Shared, appVars
<1>4. CASE Arrive \/ Tick
  BY <1>4 DEF Arrive, Tick, appVars
<1>5. CASE Start \/ StartFails \/ StartRefused
  BY <1>5 DEF Start, StartFails, StartRefused, Goto
<1>6. CASE StopSetsFlag \/ StopPokes \/ JoinReturns
  BY <1>6 DEF TypeOK, StopSetsFlag, StopPokes, JoinReturns, threadVars
<1>7. CASE UNCHANGED vars
  BY <1>7 DEF vars, threadVars, appVars
<1> QED
  BY <1>1, <1>2, <1>3, <1>4, <1>5, <1>6, <1>7 DEF Next, Thread, Stopping

LEMMA LifeAlways == Spec => [](TypeOK /\ LifeInv)
<1>1. Init => TypeOK
  <2> SUFFICES ASSUME Init PROVE TypeOK
    OBVIOUS
  <2>1. queue \in Seq(Entry) /\ Len(queue) <= QueueCap
    BY CppResponderAssumption DEF Init
  <2>2. /\ cur # <<>> => pc \in {"check", "handle", "jitter", "reply"}
        /\ pc \in {"handle", "jitter", "reply"} => cur # <<>>
    BY DEF Init
  <2>3. starts \in 0..MaxStarts /\ arrivals \in 0..MaxArrivals
    BY CppResponderAssumption DEF Init
  <2>4. /\ canSend \in BOOLEAN /\ sockOpen \in BOOLEAN /\ joinable \in BOOLEAN
        /\ stopFlag \in BOOLEAN /\ refused \in BOOLEAN
    BY DEF Init
  <2>5. /\ pc \in {"none", "ended"} \cup Running
        /\ app \in {"idle", "poking", "joining"}
    BY DEF Init
  <2>6. left \in Nat /\ nextIn \in Int /\ lateSends \in Nat /\ sinceStop \in Nat
    BY DEF Init
  <2> QED
    BY <2>1, <2>2, <2>3, <2>4, <2>5, <2>6 DEF TypeOK, Entry, Messages
<1>2. Init => LifeInv
  BY DEF Init, LifeInv, LifecycleAgrees
<1>3. TypeOK /\ LifeInv /\ [Next]_vars => TypeOK' /\ LifeInv'
  BY TypeStep, LifeStep DEF LifeInv
<1> QED
  BY <1>1, <1>2, <1>3, PTL DEF Spec

(* The variables keep their types, over any number of lives of the thread  *)
(* (Responder.cpp, start, run and stop).                                   *)
THEOREM CppTypeCorrect == Spec => []TypeOK
BY LifeAlways, PTL

(* Whatever start() runs into and however often it is called again, the    *)
(* thread, its handle and the socket are there together or not at all,     *)
(* except that a refused thread leaves its socket (Responder.cpp:80-120).  *)
THEOREM LifecycleHolds == Spec => []LifecycleAgrees
BY LifeAlways, PTL DEF LifeInv

(* Nothing but stop() ends the thread: no datagram and no refused socket   *)
(* (Responder.cpp, run).                                                   *)
THEOREM CppStaysAlive == Spec => []AliveUntilStop
BY LifeAlways, PTL DEF LifeInv, AliveUntilStop

-----------------------------------------------------------------------------
(* What leaves after the flag is set.                                      *)

(* What was sent late so far, against the sends that the rest of the turn  *)
(* has.                                                                    *)
LateInv ==
  /\ lateSends \in 0..2
  /\ pc # "none" /\ ~stopFlag => lateSends = 0
  /\ pc \in {"begin", "handle", "jitter", "reply"} => lateSends = 0
  /\ pc = "announce" => lateSends \in 0..1

(* At most two datagrams leave after stop() has set the flag, in each life *)
(* (Responder.cpp, run: the flag is tested twice a turn).                  *)
THEOREM LastWordsHold == Spec => []LastWords
<1> USE DEF LateInv
<1>1. Init => LateInv
  BY DEF Init
<1>2. TypeOK /\ LifeInv /\ LateInv /\ [Next]_vars => LateInv'
  <2> SUFFICES ASSUME TypeOK, LifeInv, LateInv, [Next]_vars PROVE LateInv'
    OBVIOUS
  <2>0. stopFlag \in BOOLEAN
    BY DEF TypeOK
  <2>1. CASE Begin \/ LoopTop \/ RecvDatagram \/ RecvTimesOut
    BY <2>1 DEF Begin, LoopTop, RecvDatagram, RecvTimesOut, Goto, Shared, appVars
  <2>2. CASE CheckStop \/ Discard \/ StartJitter \/ JitterEnds
    BY <2>2 DEF CheckStop, Discard, DiscardedTo, StartJitter, JitterEnds, Goto,
         Shared, appVars
  <2>3. CASE Reply
    <3>1. lateSends = 0 /\ lateSends' \in {0, 1} /\ (~stopFlag => lateSends' = 0)
      BY <2>3 DEF Reply, Late
    <3> QED
      BY <2>3, <3>1 DEF Reply, Goto, Shared, appVars
  <2>4. CASE PeriodicAnnounce
    <3>1. lateSends \in {0, 1} /\ lateSends' \in {0, 1, 2}
          /\ (~stopFlag => lateSends' = 0)
      BY <2>4 DEF PeriodicAnnounce, Late
    <3> QED
      BY <2>4, <3>1 DEF PeriodicAnnounce, Goto, Shared, appVars
  <2>5. CASE SkipAnnounce \/ CloseSendSocket
    BY <2>5 DEF SkipAnnounce, CloseSendSocket, Goto, Shared, appVars
  <2>6. CASE Arrive \/ Tick
    BY <2>6 DEF Arrive, Tick, appVars
  <2>7. CASE Start \/ StartFails \/ StartRefused
    BY <2>7 DEF LifeInv, LifecycleAgrees, Start, StartFails, StartRefused, Goto
  <2>8. CASE StopSetsFlag \/ StopPokes \/ JoinReturns
    BY <2>8 DEF StopSetsFlag, StopPokes, JoinReturns, threadVars
  <2>9. CASE UNCHANGED vars
    BY <2>9 DEF vars, threadVars, appVars
  <2> QED
    BY <2>1, <2>2, <2>3, <2>4, <2>5, <2>6, <2>7, <2>8, <2>9
       DEF Next, Thread, Stopping
<1>3. LateInv => LastWords
  BY DEF LastWords
<1> QED
  BY <1>1, <1>2, <1>3, LifeAlways, PTL DEF Spec

-----------------------------------------------------------------------------
(* How long the thread runs on.                                            *)

(* How long a step may take, and the bound it puts on left.                *)
StepTakes ==
  IF pc = "recv" THEN RecvTimeout + Lag
  ELSE IF pc = "jitter" THEN JitterMax + Lag
  ELSE IF pc \in {"none", "ended"} THEN 0 ELSE Lag

StepBounded == left <= StepTakes

LEMMA Numbers ==
  /\ RecvTimeout \in Nat /\ JitterMax \in Nat /\ Lag \in Nat
  /\ AnnounceInterval \in Nat
BY CppResponderAssumption

LEMMA StepsBounded ==
  ASSUME TypeOK, LifeInv, StepBounded, [Next]_vars
  PROVE  StepBounded'
<1> USE Numbers DEF StepBounded, StepTakes
<1>0. left \in Nat
  BY DEF TypeOK
<1>1. CASE Begin \/ LoopTop \/ RecvDatagram \/ RecvTimesOut
  BY <1>0, <1>1 DEF Begin, LoopTop, RecvDatagram, RecvTimesOut, Goto
<1>2. CASE CheckStop \/ Discard \/ StartJitter \/ JitterEnds
  BY <1>0, <1>2 DEF CheckStop, Discard, DiscardedTo, StartJitter, JitterEnds, Goto
<1>3. CASE Reply \/ PeriodicAnnounce \/ SkipAnnounce \/ CloseSendSocket
  BY <1>0, <1>3 DEF Reply, PeriodicAnnounce, SkipAnnounce, CloseSendSocket, Goto
<1>4. CASE Arrive
  <2>1. pc' = pc /\ left' \in Nat /\ left' <= left
    BY <1>4, ArriveTyped DEF Arrive
  <2> QED
    BY <1>0, <2>1
<1>5. CASE StopPokes
  <2>1. pc' = pc /\ left' \in Nat /\ left' <= left
    BY <1>5, PokeTyped DEF StopPokes
  <2> QED
    BY <1>0, <2>1
<1>6. CASE Start \/ StartFails \/ StartRefused
  BY <1>0, <1>6 DEF Start, StartFails, StartRefused, Goto
<1>7. CASE StopSetsFlag \/ JoinReturns
  BY <1>0, <1>7 DEF StopSetsFlag, JoinReturns, threadVars
<1>8. CASE Tick
  BY <1>0, <1>8 DEF Tick
<1>9. CASE UNCHANGED vars
  BY <1>0, <1>9 DEF vars, threadVars
<1> QED
  BY <1>1, <1>2, <1>3, <1>4, <1>5, <1>6, <1>7, <1>8, <1>9
     DEF Next, Thread, Stopping

LEMMA StepBoundedAlways == Spec => []StepBounded
<1>1. Init => StepBounded
  BY Numbers DEF Init, StepBounded, StepTakes
<1>2. TypeOK /\ LifeInv /\ StepBounded /\ [Next]_vars => StepBounded'
  BY StepsBounded
<1> QED
  BY <1>1, <1>2, LifeAlways, PTL DEF Spec

(* What the thread may still take, once the flag is set, after its present *)
(* step; and what it may take in all.                                      *)
AfterStep ==
  IF pc = "handle" THEN JitterMax + 5 * Lag
  ELSE IF pc = "jitter" THEN 4 * Lag
  ELSE IF pc = "reply" THEN 3 * Lag
  ELSE IF pc \in {"begin", "recv", "announce"} THEN 2 * Lag
  ELSE IF pc \in {"top", "check"} THEN Lag ELSE 0

Budget == left + AfterStep

LEMMA BudgetBounded ==
  TypeOK /\ StepBounded => Budget \in Nat /\ Budget <= ExitBound
BY Numbers DEF TypeOK, StepBounded, StepTakes, Budget, AfterStep, ExitBound

LEMMA ThreadSpends ==
  ASSUME TypeOK, stopFlag, Thread
  PROVE  Budget' <= Budget
<1> USE Numbers DEF Budget, AfterStep
<1>0. left \in Nat
  BY DEF TypeOK
<1>1. CASE Begin \/ LoopTop \/ RecvDatagram \/ RecvTimesOut
  BY <1>0, <1>1 DEF Begin, LoopTop, RecvDatagram, RecvTimesOut, Goto
<1>2. CASE CheckStop \/ Discard \/ StartJitter \/ JitterEnds
  BY <1>0, <1>2 DEF CheckStop, Discard, DiscardedTo, StartJitter, JitterEnds, Goto
<1>3. CASE Reply \/ PeriodicAnnounce \/ SkipAnnounce \/ CloseSendSocket
  BY <1>0, <1>3 DEF Reply, PeriodicAnnounce, SkipAnnounce, CloseSendSocket, Goto
<1> QED
  BY <1>1, <1>2, <1>3 DEF Thread

(* A thread that was told to stop has taken no more than it had when it    *)
(* was told.                                                               *)
QuickInv ==
  /\ pc # "none" /\ ~stopFlag => sinceStop = 0
  /\ pc # "none" /\ stopFlag => sinceStop + Budget <= ExitBound
  /\ StopIsQuick

LEMMA QuickStep ==
  ASSUME TypeOK, TypeOK', LifeInv, StepBounded, StepBounded', QuickInv,
         [Next]_vars
  PROVE  QuickInv'
<1>1. PICK bound \in Nat : ExitBound = bound /\ ExitBound' = bound
  BY Numbers DEF ExitBound
<1>2. PICK b \in Nat : Budget = b /\ b <= bound
  BY <1>1, BudgetBounded
<1>3. PICK bn \in Nat : Budget' = bn /\ bn <= bound
  <2>1. (TypeOK /\ StepBounded => Budget \in Nat /\ Budget <= ExitBound)'
    BY BudgetBounded, PTL
  <2> QED
    BY <1>1, <2>1
<1>4. PICK t \in Nat : sinceStop = t
  BY DEF TypeOK
<1>5. t <= bound /\ (pc # "none" /\ stopFlag => t + b <= bound)
      /\ (pc # "none" /\ ~stopFlag => t = 0)
  BY <1>1, <1>2, <1>4 DEF QuickInv, StopIsQuick
<1>6. CASE sinceStop' = sinceStop /\ stopFlag' = stopFlag
           /\ (pc' # "none" => pc # "none")
           /\ (pc' # "none" /\ stopFlag => bn <= b)
  <2>1. pc' # "none" /\ stopFlag' => t + bn <= bound
    BY <1>2, <1>3, <1>4, <1>5, <1>6
  <2> QED
    BY <1>1, <1>3, <1>4, <1>5, <1>6, <2>1 DEF QuickInv, StopIsQuick
<1>7. CASE Thread
  <2>1. sinceStop' = sinceStop /\ stopFlag' = stopFlag /\ pc # "none"
    BY <1>7 DEF Thread, Begin, LoopTop, RecvDatagram, RecvTimesOut, CheckStop,
         Discard, DiscardedTo, StartJitter, JitterEnds, Reply, PeriodicAnnounce,
         SkipAnnounce, CloseSendSocket, Shared, appVars
  <2>2. stopFlag => bn <= b
    BY <1>2, <1>3, <1>7, ThreadSpends
  <2> QED
    BY <1>6, <2>1, <2>2
<1>8. CASE Arrive \/ StopPokes
  <2>1. pc' = pc /\ sinceStop' = sinceStop /\ stopFlag' = stopFlag
    BY <1>8 DEF Arrive, StopPokes, appVars
  <2>2. PICK l \in Nat, ln \in Nat : left = l /\ left' = ln /\ ln <= l
    BY <1>8, ArriveTyped, PokeTyped DEF TypeOK
  <2>3. PICK k \in Nat : AfterStep = k /\ AfterStep' = k
    BY <2>1, Numbers DEF AfterStep
  <2>4. b = l + k /\ bn = ln + k
    BY <1>2, <1>3, <2>2, <2>3 DEF Budget
  <2>5. bn <= b
    BY ONLY <2>2, <2>3, <2>4, l \in Nat, ln \in Nat, k \in Nat
  <2> QED
    BY <1>6, <2>1, <2>5
<1>9. CASE Start
  BY <1>1, <1>9 DEF Start, Goto, QuickInv, StopIsQuick
<1>10. CASE StartFails \/ StartRefused
  <2>1. pc' = "none" /\ sinceStop' = sinceStop
    BY <1>10 DEF StartFails, StartRefused, LifeInv, LifecycleAgrees
  <2> QED
    BY <1>1, <1>4, <1>5, <2>1 DEF QuickInv, StopIsQuick
<1>11. CASE StopSetsFlag
  <2>1. pc # "none" /\ pc' = pc /\ sinceStop' = sinceStop /\ stopFlag'
        /\ left' = left
    BY <1>11 DEF StopSetsFlag, threadVars, LifeInv, LifecycleAgrees
  <2>2. bn = b
    BY <1>2, <1>3, <2>1 DEF Budget, AfterStep
  <2>3. t + bn <= bound
    BY <1>2, <1>5, <2>1, <2>2
  <2> QED
    BY <1>1, <1>3, <1>4, <1>5, <2>1, <2>3 DEF QuickInv, StopIsQuick
<1>12. CASE JoinReturns
  <2>1. pc' = "none" /\ sinceStop' = sinceStop
    BY <1>12 DEF JoinReturns
  <2> QED
    BY <1>1, <1>4, <1>5, <2>1 DEF QuickInv, StopIsQuick
<1>13. CASE Tick
  <2>1. pc' = pc /\ pc # "none" /\ stopFlag' = stopFlag
        /\ left \in Nat /\ left > 0 /\ left' = left - 1
        /\ sinceStop' = IF stopFlag THEN t + 1 ELSE t
    BY <1>4, <1>13 DEF Tick, appVars, TypeOK
  <2>2. PICK k \in Nat : AfterStep = k /\ AfterStep' = k
    BY <2>1, Numbers DEF AfterStep
  <2>3. b = left + k /\ bn = left' + k
    BY <1>2, <1>3, <2>2 DEF Budget
  <2>4. bn = b - 1
    BY <2>1, <2>2, <2>3
  <2>5. CASE stopFlag
    <3>1. t + 1 + bn <= bound /\ t + 1 <= bound
      BY <1>5, <2>1, <2>4, <2>5
    <3> QED
      BY <1>1, <1>3, <2>1, <2>5, <3>1 DEF QuickInv, StopIsQuick
  <2>6. CASE ~stopFlag
    BY <1>1, <1>5, <2>1, <2>6 DEF QuickInv, StopIsQuick
  <2> QED
    BY <2>5, <2>6
<1>14. CASE UNCHANGED vars
  <2>1. sinceStop' = sinceStop /\ stopFlag' = stopFlag /\ pc' = pc /\ left' = left
    BY <1>14 DEF vars, threadVars, appVars
  <2>2. bn = b
    BY <1>2, <1>3, <2>1 DEF Budget, AfterStep
  <2> QED
    BY <1>6, <2>1, <2>2
<1> QED
  BY <1>7, <1>8, <1>9, <1>10, <1>11, <1>12, <1>13, <1>14 DEF Next, Stopping

(* stop() has its thread within ExitBound, although join() has no limit of *)
(* its own, whether the poke comes or not (Responder.cpp:122-137).         *)
THEOREM StopsQuickly == Spec => []StopIsQuick
<1>1. Init => QuickInv
  BY Numbers DEF Init, QuickInv, StopIsQuick, ExitBound
<1>2. TypeOK /\ TypeOK' /\ LifeInv /\ StepBounded /\ StepBounded' /\ QuickInv
        /\ [Next]_vars => QuickInv'
  BY QuickStep
<1>3. QuickInv => StopIsQuick
  BY DEF QuickInv
<1> QED
  BY <1>1, <1>2, <1>3, LifeAlways, StepBoundedAlways, PTL DEF Spec

-----------------------------------------------------------------------------
(* The periodic announce.                                                  *)

(* What is left of the present turn after the present step.                *)
RestOfTurn ==
  IF pc = "top" THEN RecvTimeout + JitterMax + 6 * Lag
  ELSE IF pc = "recv" THEN JitterMax + 5 * Lag
  ELSE IF pc = "check" THEN JitterMax + 4 * Lag
  ELSE IF pc = "handle" THEN JitterMax + 3 * Lag
  ELSE IF pc = "jitter" THEN 2 * Lag
  ELSE IF pc = "reply" THEN Lag ELSE 0

Turn == left + RestOfTurn

Announces == AnnounceInterval > 0 /\ canSend /\ pc \in Running \ {"begin"}

(* The turn ends before the announce is later than the bound.              *)
CadenceInv ==
  /\ nextIn >= -TurnBound
  /\ Announces => Turn <= TurnBound + nextIn

LEMMA TurnGoesOn ==
  ASSUME TypeOK, Thread, pc \notin {"begin", "announce"}
  PROVE  Turn' <= Turn /\ nextIn' = nextIn /\ canSend' = canSend
<1> USE Numbers DEF Turn, RestOfTurn
<1>0. left \in Nat
  BY DEF TypeOK
<1>1. CASE Begin \/ LoopTop \/ RecvDatagram \/ RecvTimesOut
  BY <1>0, <1>1 DEF Begin, LoopTop, RecvDatagram, RecvTimesOut, Goto
<1>2. CASE CheckStop \/ Discard \/ StartJitter \/ JitterEnds
  BY <1>0, <1>2 DEF CheckStop, Discard, DiscardedTo, StartJitter, JitterEnds, Goto
<1>3. CASE Reply \/ PeriodicAnnounce \/ SkipAnnounce \/ CloseSendSocket
  BY <1>0, <1>3 DEF Reply, PeriodicAnnounce, SkipAnnounce, CloseSendSocket, Goto
<1> QED
  BY <1>1, <1>2, <1>3 DEF Thread

LEMMA TurnNat == TypeOK => Turn \in Nat /\ nextIn \in Int /\ TurnBound \in Nat
BY Numbers DEF TypeOK, Turn, RestOfTurn, TurnBound

LEMMA CadenceStep ==
  ASSUME TypeOK, TypeOK', LifeInv, CadenceInv, [Next]_vars
  PROVE  CadenceInv'
<1>1. PICK bound \in Nat : TurnBound = bound /\ TurnBound' = bound
  BY Numbers DEF TurnBound
<1>2. PICK u \in Nat : Turn = u
  BY TurnNat
<1>3. PICK un \in Nat : Turn' = un
  <2>1. (TypeOK => Turn \in Nat /\ nextIn \in Int /\ TurnBound \in Nat)'
    BY TurnNat, PTL
  <2> QED
    BY <2>1
<1>4. PICK x \in Int : nextIn = x
  BY DEF TypeOK
<1>5. x >= -bound /\ (Announces => u <= bound + x)
  BY <1>1, <1>2, <1>4 DEF CadenceInv
<1>6. CASE nextIn' = nextIn /\ (Announces' => Announces) /\ un <= u
  <2>1. u <= bound + x => un <= bound + x
    BY <1>6
  <2> QED
    BY <1>1, <1>3, <1>4, <1>5, <1>6, <2>1 DEF CadenceInv
<1>7. CASE nextIn' \in Nat /\ un <= bound
  <2>1. PICK y \in Nat : nextIn' = y
    BY <1>7
  <2>2. y >= -bound /\ un <= bound + y
    BY ONLY <1>7, y \in Nat, bound \in Nat, un \in Nat
  <2> QED
    BY <1>1, <1>3, <2>1, <2>2 DEF CadenceInv
<1>8. CASE nextIn' = nextIn /\ ~Announces'
  BY <1>1, <1>4, <1>5, <1>8 DEF CadenceInv
<1>9. CASE Thread
  <2>1. CASE pc \notin {"begin", "announce"}
    <3>1. un <= u /\ nextIn' = nextIn /\ canSend' = canSend
      BY <1>2, <1>3, <1>9, <2>1, TurnGoesOn
    <3>2. pc \in Running
      BY <1>9 DEF Thread, Begin, LoopTop, RecvDatagram, RecvTimesOut, CheckStop,
           Discard, DiscardedTo, StartJitter, JitterEnds, Reply,
           PeriodicAnnounce, SkipAnnounce, CloseSendSocket
    <3> QED
      BY <1>6, <2>1, <3>1, <3>2, Numbers DEF Announces
  <2>2. CASE Begin
    <3>1. nextIn' \in Nat /\ pc' = "top" /\ left' = Lag
      BY <2>2 DEF Begin, Goto
    <3>2. un = bound
      BY <1>1, <1>3, <3>1, Numbers DEF Turn, RestOfTurn, TurnBound
    <3> QED
      BY <1>7, <3>1, <3>2
  <2>3. CASE PeriodicAnnounce
    <3>1. nextIn' \in Nat /\ pc' = "top" /\ left' = Lag
      BY <2>3, Numbers DEF PeriodicAnnounce, Goto
    <3>2. un = bound
      BY <1>1, <1>3, <3>1, Numbers DEF Turn, RestOfTurn, TurnBound
    <3> QED
      BY <1>7, <3>1, <3>2
  <2>4. CASE SkipAnnounce
    <3>1. nextIn' = nextIn /\ canSend' = canSend /\ pc' = "top" /\ left' = Lag
          /\ ~AnnounceDue
      BY <2>4 DEF SkipAnnounce, Goto
    <3>2. un = bound
      BY <1>1, <1>3, <3>1, Numbers DEF Turn, RestOfTurn, TurnBound
    <3>3. ~Announces' \/ nextIn' \in Nat
      BY <3>1, <1>4, Numbers DEF Announces, AnnounceDue
    <3> QED
      BY <1>7, <1>8, <3>1, <3>2, <3>3
  <2>5. pc \in {"begin", "announce"} => Begin \/ PeriodicAnnounce \/ SkipAnnounce
    BY <1>9 DEF Thread, LoopTop, RecvDatagram, RecvTimesOut, CheckStop,
         Discard, DiscardedTo, StartJitter, JitterEnds, Reply, CloseSendSocket
  <2> QED
    BY <2>1, <2>2, <2>3, <2>4, <2>5
<1>10. CASE Arrive \/ StopPokes
  <2>1. pc' = pc /\ nextIn' = nextIn /\ canSend' = canSend
    BY <1>10 DEF Arrive, StopPokes
  <2>2. PICK l \in Nat, ln \in Nat : left = l /\ left' = ln /\ ln <= l
    BY <1>10, ArriveTyped, PokeTyped DEF TypeOK
  <2>3. PICK k \in Nat : RestOfTurn = k /\ RestOfTurn' = k
    BY <2>1, Numbers DEF RestOfTurn
  <2>4. u = l + k /\ un = ln + k
    BY <1>2, <1>3, <2>2, <2>3 DEF Turn
  <2>5. un <= u
    BY ONLY <2>2, <2>3, <2>4, l \in Nat, ln \in Nat, k \in Nat
  <2> QED
    BY <1>6, <2>1, <2>5 DEF Announces
<1>11. CASE Start \/ StartFails \/ StartRefused
  <2>1. nextIn' = nextIn /\ ~Announces'
    BY <1>11 DEF Start, StartFails, StartRefused, Goto, Announces, LifeInv,
         LifecycleAgrees
  <2> QED
    BY <1>8, <2>1
<1>12. CASE StopSetsFlag \/ UNCHANGED vars
  <2>1. pc' = pc /\ nextIn' = nextIn /\ canSend' = canSend /\ left' = left
    BY <1>12 DEF StopSetsFlag, vars, threadVars
  <2>2. un = u
    BY <1>2, <1>3, <2>1 DEF Turn, RestOfTurn
  <2> QED
    BY <1>6, <2>1, <2>2 DEF Announces
<1>13. CASE JoinReturns
  BY <1>8, <1>13 DEF JoinReturns, Announces
<1>14. CASE Tick
  <2>1. pc' = pc /\ canSend' = canSend
        /\ left \in Nat /\ left > 0 /\ left' = left - 1
    BY <1>14 DEF Tick, TypeOK
  <2>2. PICK k \in Nat : RestOfTurn = k /\ RestOfTurn' = k
    BY <2>1, Numbers DEF RestOfTurn
  <2>3. u = left + k /\ un = left' + k
    BY <1>2, <1>3, <2>2 DEF Turn
  <2>4. un = u - 1
    BY <2>1, <2>2, <2>3
  <2>5. CASE Announces
    <3>1. nextIn' = x - 1
      BY <1>4, <1>14, <2>5 DEF Tick, Announces
    <3>2. u <= bound + x
      BY <1>5, <2>5
    <3>3. un <= bound + (x - 1) /\ x - 1 >= -bound
      BY ONLY <2>4, <3>2, u \in Nat, un \in Nat, x \in Int, bound \in Nat
    <3> QED
      BY <1>1, <1>3, <3>1, <3>3 DEF CadenceInv
  <2>6. CASE ~Announces
    <3>1. nextIn' = nextIn /\ ~Announces'
      BY <1>14, <2>1, <2>6, Numbers DEF Tick, Announces
    <3> QED
      BY <1>8, <3>1
  <2> QED
    BY <2>5, <2>6
<1> QED
  BY <1>9, <1>10, <1>11, <1>12, <1>13, <1>14 DEF Next, Stopping

(* The periodic announce is never later than one turn of the loop, however *)
(* many queries come and however often the responder is started again      *)
(* (Responder.cpp:223-236).                                                *)
THEOREM AnnouncesKeepCadence == Spec => []AnnounceCadence
<1>1. Init => CadenceInv
  BY Numbers DEF Init, CadenceInv, Announces, TurnBound
<1>2. TypeOK /\ TypeOK' /\ LifeInv /\ CadenceInv /\ [Next]_vars => CadenceInv'
  BY CadenceStep
<1>3. CadenceInv => AnnounceCadence
  BY DEF CadenceInv, AnnounceCadence
<1> QED
  BY <1>1, <1>2, <1>3, LifeAlways, PTL DEF Spec

-----------------------------------------------------------------------------
(* The replies.                                                            *)

(* What Json.hpp takes for a query on the wire is one that json.loads      *)
(* reads the same and decode() accepts.                                    *)
WireIsValid ==
  \A d \in Wire : d.cpp # Absent /\ d.cpp.type = "DISCOVER" =>
                   ReadAlike(d) /\ ValidDiscover(d)

(* Every qid is the JSON of some text.                                     *)
JsonIsWritten ==
  \A q \in Qids : \E text \in Seq(Chars) :
    /\ DOMAIN Json[q] = DOMAIN text
    /\ \A i \in DOMAIN text : Json[q][i] \in Writings(text[i])

Replies == {[n |-> k, qid |-> q, reads |-> Echoed(q)] : k \in Nat, q \in Qids}

(* Datagrams of number 0 did not come from the wire.                       *)
Precedes(a, b) == b.n # 0 => a.n < b.n

Numbered(e, last) ==
  /\ e.n \in Nat /\ e.n <= last
  /\ CppAnswerable(e.msg, Self.fields) =>
       /\ e.n # 0 /\ Answerable(e.msg, Self.fields)
       /\ e.msg.cpp.qid = e.msg.qid

(* What waits, what is in hand and what was sent follow each other in the  *)
(* order of arrival.                                                       *)
Waiting(q, last) ==
  /\ \A i \in DOMAIN q : Numbered(q[i], last)
  /\ \A i, j \in DOMAIN q : i < j => Precedes(q[i], q[j])

OrderInv ==
  /\ Waiting(queue, arrivals)
  /\ cur # <<>> => /\ Numbered(cur[1], arrivals)
                   /\ \A j \in DOMAIN queue : Precedes(cur[1], queue[j])
  /\ sent \in Seq(Replies)
  /\ \A i, j \in DOMAIN sent : i < j => sent[i].n < sent[j].n
  /\ \A i \in DOMAIN sent :
       /\ sent[i].n <= arrivals
       /\ cur # <<>> => Precedes(sent[i], cur[1])
       /\ \A j \in DOMAIN queue : Precedes(sent[i], queue[j])
  /\ pc \in {"jitter", "reply"} => CppAnswerable(cur[1].msg, Self.fields)

(* What this responder itself sends is no query.                           *)
LEMMA OwnAreNoQueries ==
  ~CppAnswerable(Poke, Self.fields) /\ ~CppAnswerable(Announce(Absent), Self.fields)
BY DEF CppAnswerable, Poke, Announce, BuildAnnounce

LEMMA QueriesAreAnswerable ==
  ASSUME WireIsValid, NEW d \in Wire, CppAnswerable(d, Self.fields)
  PROVE  Answerable(d, Self.fields) /\ d.cpp.qid = d.qid
<1>1. ReadAlike(d) /\ ValidDiscover(d)
  BY DEF WireIsValid, CppAnswerable
<1> QED
  BY <1>1, RespondersAgree DEF ReadAlike

(* A datagram that arrives goes behind all others.                         *)
LEMMA ArrivalFollows ==
  ASSUME WireIsValid, TypeOK, OrderInv, [Next]_vars, Arrive \/ StopPokes \/ PeriodicAnnounce
  PROVE  OrderInv'
<1> DEFINE last == arrivals'
<1>1. arrivals \in Nat /\ last \in Nat /\ arrivals <= last
  BY DEF TypeOK, Arrive, StopPokes, PeriodicAnnounce, Shared
<1>2. /\ cur' = cur /\ sent' = sent
      /\ pc' \in {"jitter", "reply"} => pc \in {"jitter", "reply"}
  BY DEF Arrive, StopPokes, PeriodicAnnounce, Goto
<1>3. \/ queue' = queue
      \/ \E e : /\ queue' = Append(queue, e) /\ Numbered(e, last)
                /\ e.n = 0 \/ e.n > arrivals
  <2>1. CASE Arrive
    <3>1. PICK m \in Wire : Enqueue(arrivals + 1, m)
      BY <2>1 DEF Arrive
    <3> DEFINE e == [n |-> arrivals + 1, msg |-> m]
    <3>2. Numbered(e, last) /\ e.n > arrivals
      BY <1>1, <2>1, QueriesAreAnswerable DEF Numbered, Arrive
    <3>3. queue' = queue \/ queue' = Append(queue, e)
      BY <3>1 DEF Enqueue
    <3> HIDE DEF e
    <3> QED
      BY <3>2, <3>3
  <2>2. CASE StopPokes
    <3> DEFINE e == [n |-> 0, msg |-> Poke]
    <3>1. Numbered(e, last) /\ e.n = 0
      BY <1>1, OwnAreNoQueries DEF Numbered
    <3>2. queue' = queue \/ queue' = Append(queue, e)
      BY <2>2 DEF StopPokes, Enqueue
    <3> HIDE DEF e
    <3> QED
      BY <3>1, <3>2
  <2>3. CASE PeriodicAnnounce
    <3> DEFINE e == [n |-> 0, msg |-> Announce(Absent)]
    <3>1. Numbered(e, last) /\ e.n = 0
      BY <1>1, OwnAreNoQueries DEF Numbered
    <3>2. queue' = queue \/ queue' = Append(queue, e)
      BY <2>3 DEF PeriodicAnnounce
    <3> HIDE DEF e
    <3> QED
      BY <3>1, <3>2
  <2> QED
    BY <2>1, <2>2, <2>3
<1> HIDE DEF last
<1>4. \A e : Numbered(e, arrivals) => Numbered(e, last)
  BY <1>1 DEF Numbered
<1>5. \A i \in DOMAIN sent : sent[i].n \in Nat /\ sent[i].n <= arrivals /\ sent[i].n <= last
  BY <1>1 DEF OrderInv, Replies
<1>6. CASE queue' = queue
  BY <1>2, <1>4, <1>5, <1>6 DEF OrderInv, Waiting, last
<1>7. CASE \E e : /\ queue' = Append(queue, e) /\ Numbered(e, last)
                  /\ e.n = 0 \/ e.n > arrivals
  <2>1. PICK e : /\ queue' = Append(queue, e) /\ Numbered(e, last)
                 /\ e.n = 0 \/ e.n > arrivals
    BY <1>7
  <2>2. queue \in Seq(Entry)
    BY DEF TypeOK, Entry, Messages
  <2> DEFINE l == Len(queue)
  <2>3. /\ DOMAIN queue = 1..l /\ DOMAIN queue' = 1..(l + 1) /\ l \in Nat
        /\ queue'[l + 1] = e /\ \A i \in 1..l : queue'[i] = queue[i]
    BY <2>1, <2>2
  <2> HIDE DEF l
  <2>4. \A a : a.n \in Nat /\ a.n <= arrivals => Precedes(a, e)
    BY <1>1, <2>1 DEF Precedes, Numbered
  <2>5. Waiting(queue', last)
    <3>1. \A i \in DOMAIN queue' : Numbered(queue'[i], last)
      BY <1>4, <2>1, <2>3 DEF OrderInv, Waiting
    <3>2. ASSUME NEW i \in DOMAIN queue', NEW j \in DOMAIN queue', i < j
          PROVE  Precedes(queue'[i], queue'[j])
      <4>1. i \in 1..l /\ (j \in 1..l \/ j = l + 1)
        BY <2>3, <3>2
      <4>2. Numbered(queue[i], arrivals)
        BY <2>3, <4>1 DEF OrderInv, Waiting
      <4> QED
        BY <2>3, <2>4, <3>2, <4>1, <4>2 DEF OrderInv, Waiting, Numbered
    <3> QED
      BY <3>1, <3>2 DEF Waiting
  <2>6. cur # <<>> => \A j \in DOMAIN queue' : Precedes(cur[1], queue'[j])
    BY <2>3, <2>4 DEF OrderInv, Numbered
  <2>7. \A i \in DOMAIN sent : \A j \in DOMAIN queue' : Precedes(sent[i], queue'[j])
    BY <1>5, <2>3, <2>4 DEF OrderInv
  <2> QED
    BY <1>2, <1>4, <1>5, <2>5, <2>6, <2>7 DEF OrderInv, last
<1> QED
  BY <1>3, <1>6, <1>7

LEMMA ReceiveFollows ==
  ASSUME TypeOK, OrderInv, RecvDatagram
  PROVE  OrderInv'
<1>1. queue \in Seq(Entry) /\ queue # <<>>
  BY DEF TypeOK, Entry, Messages, RecvDatagram
<1> DEFINE l == Len(queue)
<1>2. /\ queue' = Tail(queue) /\ cur' # <<>> /\ cur'[1] = queue[1]
      /\ sent' = sent /\ arrivals' = arrivals /\ pc' = "check"
  BY <1>1 DEF RecvDatagram, Shared, Goto
<1>3. /\ l \in Nat /\ l > 0 /\ DOMAIN queue = 1..l /\ DOMAIN queue' = 1..(l - 1)
      /\ \A i \in 1..(l - 1) : queue'[i] = queue[i + 1]
  BY <1>1, <1>2
<1> HIDE DEF l
<1>4. 1 \in DOMAIN queue
      /\ \A i \in DOMAIN queue' : i + 1 \in DOMAIN queue /\ 1 < i + 1
  BY <1>3
<1>5. Waiting(queue', arrivals)
  BY <1>3, <1>4 DEF OrderInv, Waiting
<1>6. /\ Numbered(cur'[1], arrivals)
      /\ \A j \in DOMAIN queue' : Precedes(cur'[1], queue'[j])
  BY <1>2, <1>3, <1>4 DEF OrderInv, Waiting
<1>7. \A i \in DOMAIN sent :
        /\ Precedes(sent[i], cur'[1])
        /\ \A j \in DOMAIN queue' : Precedes(sent[i], queue'[j])
  BY <1>2, <1>3, <1>4 DEF OrderInv
<1> QED
  BY <1>2, <1>5, <1>6, <1>7 DEF OrderInv

(* The reply in hand is sent after all that were.                          *)
LEMMA ReplyFollows ==
  ASSUME TypeOK, OrderInv, Reply
  PROVE  OrderInv'
<1>1. /\ cur # <<>> /\ cur' = <<>> /\ queue' = queue /\ arrivals' = arrivals
      /\ pc' = "announce" /\ pc = "reply"
  BY DEF TypeOK, Reply, Shared, Goto
<1>2. CASE sent' = sent
  BY <1>1, <1>2 DEF OrderInv
<1>3. CASE sent' # sent
  <2> DEFINE r == [n |-> cur[1].n, qid |-> cur[1].msg.cpp.qid,
                   reads |-> Echoed(cur[1].msg.cpp.qid)]
  <2>1. sent' = Append(sent, r)
    BY <1>3 DEF Reply
  <2>2. CppAnswerable(cur[1].msg, Self.fields) /\ Numbered(cur[1], arrivals)
    BY <1>1 DEF OrderInv
  <2>3. cur[1].n \in Nat /\ cur[1].n # 0 /\ cur[1].n <= arrivals
        /\ cur[1].msg.cpp.qid \in Qids
    BY <2>2, ProtocolAssumption
       DEF Numbered, Answerable, IsQuery, Decodes, ValidDiscover
  <2>4. r \in Replies /\ r.n = cur[1].n
    BY <2>3 DEF Replies
  <2> HIDE DEF r
  <2>5. sent \in Seq(Replies)
    BY DEF OrderInv
  <2> DEFINE l == Len(sent)
  <2>6. /\ DOMAIN sent = 1..l /\ DOMAIN sent' = 1..(l + 1) /\ l \in Nat
        /\ sent'[l + 1] = r /\ \A i \in 1..l : sent'[i] = sent[i]
        /\ sent' \in Seq(Replies)
    BY <2>1, <2>4, <2>5
  <2> HIDE DEF l
  <2>7. \A i \in DOMAIN sent : sent[i].n < r.n
    BY <1>1, <2>3, <2>4 DEF OrderInv, Precedes
  <2>8. ASSUME NEW i \in DOMAIN sent', NEW j \in DOMAIN sent', i < j
        PROVE  sent'[i].n < sent'[j].n
    <3>1. i \in 1..l /\ (j \in 1..l \/ j = l + 1)
      BY <2>6, <2>8
    <3> QED
      BY <2>6, <2>7, <2>8, <3>1 DEF OrderInv
  <2>9. \A i \in DOMAIN sent' :
          /\ sent'[i].n <= arrivals
          /\ \A j \in DOMAIN queue : Precedes(sent'[i], queue[j])
    <3>1. \A j \in DOMAIN queue : Precedes(r, queue[j])
      BY <1>1, <2>4 DEF OrderInv, Precedes
    <3> QED
      BY <2>3, <2>4, <2>6, <3>1 DEF OrderInv
  <2> QED
    BY <1>1, <2>6, <2>8, <2>9 DEF OrderInv
<1> QED
  BY <1>2, <1>3

LEMMA OrderStep ==
  ASSUME WireIsValid, TypeOK, OrderInv, [Next]_vars
  PROVE  OrderInv'
<1>1. CASE Arrive \/ StopPokes \/ PeriodicAnnounce
  BY <1>1, ArrivalFollows
<1>2. CASE RecvDatagram
  BY <1>2, ReceiveFollows
<1>3. CASE Reply
  BY <1>3, ReplyFollows
<1>4. CASE /\ queue' = queue /\ sent' = sent /\ arrivals' = arrivals
           /\ cur' = cur \/ cur' = <<>>
           /\ pc' \in {"jitter", "reply"} =>
                /\ cur' = cur
                /\ CppAnswerable(cur[1].msg, Self.fields)
  BY <1>4 DEF OrderInv
<1>5. CASE /\ queue' = <<>> /\ sent' = sent /\ arrivals' = arrivals /\ cur' = cur
           /\ pc' \in {"jitter", "reply"} => pc \in {"jitter", "reply"}
  <2>1. DOMAIN queue' = {}
    BY <1>5
  <2> QED
    BY <1>5, <2>1 DEF OrderInv, Waiting
<1>6. CASE Begin \/ LoopTop \/ RecvTimesOut \/ SkipAnnounce \/ CloseSendSocket
  BY <1>4, <1>6 DEF Begin, LoopTop, RecvTimesOut, SkipAnnounce, CloseSendSocket,
     Goto, Shared
<1>7. CASE CheckStop \/ Discard \/ StartJitter \/ JitterEnds
  BY <1>4, <1>7 DEF CheckStop, Discard, DiscardedTo, StartJitter, JitterEnds,
     Goto, Shared, OrderInv
<1>8. CASE StopSetsFlag \/ Tick \/ UNCHANGED vars
  BY <1>4, <1>8 DEF StopSetsFlag, Tick, vars, threadVars, OrderInv
<1>9. CASE Start \/ StartFails \/ StartRefused \/ JoinReturns
  BY <1>5, <1>9 DEF Start, StartFails, StartRefused, JoinReturns, Goto
<1> QED
  BY <1>1, <1>2, <1>3, <1>6, <1>7, <1>8, <1>9 DEF Next, Thread, Stopping

(* What a Python client reads of an echoed qid.                            *)
LEMMA EchoedReads ==
  ASSUME JsonIsWritten, NEW q \in Qids
  PROVE  Echoed(q) = IF HasHalf(Json[q])
                     THEN Unreadable ELSE PythonReads(Json[q])
<1> DEFINE json == Json[q]
<1>1. PICK text \in Seq(Chars) :
        /\ DOMAIN json = DOMAIN text
        /\ \A i \in DOMAIN text : json[i] \in Writings(text[i])
  BY DEF JsonIsWritten
<1>2. Echoed(q) = PythonReads(Echo(json))
  BY ProtocolAssumption DEF Echoed
<1> HIDE DEF json
<1>3. \A i \in DOMAIN text : text[i] \in Chars
  OBVIOUS
<1>4. CASE HasHalf(json)
  BY <1>2, <1>4, PairIsUnreadable DEF json
<1>5. CASE ~HasHalf(json)
  <2>1. PythonReads(Echo(json)) = text
    BY <1>1, <1>5, EchoReadsBack
  <2>2. \A i \in DOMAIN json : /\ Len(json[i]) # 2 /\ DOMAIN json[i] = {1}
                               /\ json[i][1].of = text[i]
                               /\ text[i] \notin Halves
    <3>1. \A i \in DOMAIN json : \A k \in DOMAIN json[i] :
            json[i][k].of \notin Halves
      BY <1>5 DEF HasHalf
    <3>2. ASSUME NEW i \in DOMAIN json
          PROVE  /\ Len(json[i]) # 2 /\ DOMAIN json[i] = {1}
                 /\ json[i][1].of = text[i]
                 /\ text[i] \notin Halves
      <4>1. text[i] \in Chars /\ json[i] \in Writings(text[i])
        BY <1>1, <1>3
      <4>2. /\ Len(json[i]) = 1 /\ DOMAIN json[i] = {1}
            /\ json[i][1].of = text[i] /\ text[i] \notin Halves
        BY <3>1, <4>1, OneItem
      <4>3. 1 # 2
        OBVIOUS
      <4> QED
        BY <4>2, <4>3, Zenon
    <3> QED
      BY <3>2, Zenon
  <2>3. \A i \in DOMAIN json : json[i][1] # Raw("half")
    <3>1. Raw("half").of = "half" /\ "half" \notin Chars
      BY DEF Raw, Chars
    <3> QED
      BY <1>1, <1>3, <2>2, <3>1
  <2>4. ~ \E i \in DOMAIN json : \E k \in DOMAIN json[i] : json[i][k] = Raw("half")
    BY <2>2, <2>3
  <2>5. PythonReads(json) = [i \in DOMAIN json |->
          IF Len(json[i]) = 2 THEN "astral"
          ELSE IF json[i][1].of \in Halves THEN "lone" ELSE json[i][1].of]
    BY <2>4, Zenon DEF PythonReads
  <2>6. PythonReads(json) = [i \in DOMAIN text |-> text[i]]
    BY <1>1, <2>2, <2>5
  <2> QED
    BY <1>2, <1>5, <2>1, <2>2, <2>6 DEF json
<1> QED
  BY <1>4, <1>5

LEMMA OrderIsAsPython ==
  ASSUME JsonIsWritten, TypeOK, OrderInv
  PROVE  AnswersAsPython
<1>1. pc \in {"jitter", "reply"} =>
        Answerable(cur[1].msg, Self.fields) /\ cur[1].msg.cpp.qid = cur[1].msg.qid
  BY DEF TypeOK, OrderInv, Numbered
<1>2. ASSUME NEW i \in DOMAIN sent
      PROVE  sent[i].reads =
               IF HasHalf(Json[sent[i].qid])
               THEN Unreadable ELSE PythonReads(Json[sent[i].qid])
  <2>1. sent[i] \in Replies
    BY DEF OrderInv
  <2>2. sent[i].qid \in Qids /\ sent[i].reads = Echoed(sent[i].qid)
    BY <2>1 DEF Replies
  <2> QED
    BY <2>2, EchoedReads
<1> QED
  BY <1>1, <1>2, Zenon DEF AnswersAsPython, OrderInv

(* On valid queries the C++ responder answers as a Python one would, in    *)
(* the order of arrival and each at most once, across restarts, lost       *)
(* replies and its own announces and pokes coming back; and the client     *)
(* reads its qid in the answer unless it was written with surrogates        *)
(* (Responder.cpp:197-221, Json.hpp).                                      *)
THEOREM CppAnswersAsPython ==
  ASSUME WireIsValid, JsonIsWritten
  PROVE  Spec => []AnswersAsPython
<1>1. Init => OrderInv
  BY DEF Init, OrderInv, Waiting
<1>2. TypeOK /\ OrderInv /\ [Next]_vars => OrderInv'
  BY OrderStep
<1>3. TypeOK /\ OrderInv => AnswersAsPython
  BY OrderIsAsPython
<1> QED
  BY <1>1, <1>2, <1>3, LifeAlways, PTL DEF Spec
=============================================================================
