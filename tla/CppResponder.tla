---------------------------- MODULE CppResponder ----------------------------
(***************************************************************************)
(* mu2edaq_discovery::Responder, the C++ responder: start() opens the      *)
(* socket and creates the thread, stop() (which the destructor calls) ends *)
(* it and waits without a time limit, and start() may follow stop().       *)
(*                                                                         *)
(* Time is as in the module Responder: left is what the thread's present   *)
(* step may still take, at most Lag for a computing step or a wake-up.     *)
(* One thread of the application calls start() and stop(), and start()     *)
(* only on a responder that does not run (on one that does, the assignment *)
(* to thread_ ends the program).                                           *)
(***************************************************************************)
EXTENDS Protocol, CppJson

CONSTANTS
  Wire,              \* datagrams other programs may send to the port
  Self,              \* the identity of this responder: id, fields, ...
  Json,              \* how each qid is written by who sends it
  RecvTimeout,       \* the 0.5 s of SO_RCVTIMEO
  JitterMax,         \* the 250 ms of jitter_ms
  AnnounceInterval,  \* announce_interval, 0 for none
  Lag,               \* longest computing step or wake-up
  QueueCap,          \* datagrams the socket buffers
  MaxArrivals,       \* bound: datagrams that arrive from the wire
  MaxStarts          \* bound: calls of start()

ASSUME CppResponderAssumption ==
  /\ Wire \subseteq Datagrams
  /\ Self \in [from : Hosts, id : Ids, fields : [FilterKeys -> Values],
               typed : BOOLEAN, size : Nat]
  /\ RecvTimeout \in Nat \ {0} /\ JitterMax \in Nat
  /\ AnnounceInterval \in Nat /\ Lag \in Nat
  /\ QueueCap \in Nat \ {0} /\ MaxArrivals \in Nat /\ MaxStarts \in Nat

VARIABLES
  pc,         \* where the thread is, none if there is none
  left,       \* time its present step may still take
  queue,      \* the socket's receive buffer
  cur,        \* the datagram in hand, as a sequence of at most one
  canSend,    \* send_sock >= 0
  nextIn,     \* time until next_announce, negative when it is overdue
  sockOpen,   \* sock_ >= 0
  joinable,   \* thread_.joinable()
  stopFlag,   \* stop_flag_
  app,        \* where the application is in stop()
  refused,    \* history: the last start() could not create its thread
  starts,     \* calls of start() so far
  arrivals,   \* datagrams that arrived from the wire so far
  sent,       \* history: the replies, in order
  lateSends,  \* history: datagrams sent since the flag was set
  sinceStop   \* history: time the thread has run since the flag was set

threadVars == <<pc, left, queue, cur, canSend, nextIn, sent, lateSends>>
appVars    == <<sockOpen, joinable, stopFlag, app, refused, starts>>
vars       == <<threadVars, appVars, arrivals, sinceStop>>

Running == {"begin", "top", "recv", "check", "handle", "jitter", "reply",
            "announce", "closing"}

Announce(qid) == BuildAnnounce(Self.from, Self.id, Self.fields, Self.typed,
                               qid, Self.size)
Poke == [BuildAnnounce(Self.from, Self.id, Self.fields, FALSE, Absent, 0)
           EXCEPT !.body = "garbage", !.size = 0, !.cpp = Absent]

Init ==
  /\ pc = "none" /\ left = 0
  /\ queue = <<>> /\ cur = <<>>
  /\ canSend = TRUE /\ nextIn = 0
  /\ sockOpen = FALSE /\ joinable = FALSE /\ stopFlag = FALSE
  /\ app = "idle" /\ refused = FALSE
  /\ starts = 0 /\ arrivals = 0
  /\ sent = <<>> /\ lateSends = 0 /\ sinceStop = 0

-----------------------------------------------------------------------------
(* The socket.                                                             *)

Enqueue(n, msg) ==
  IF sockOpen /\ Len(queue) < QueueCap
  THEN /\ queue' = Append(queue, [n |-> n, msg |-> msg])
       /\ left' = IF pc = "recv" /\ left > Lag THEN Lag ELSE left
  ELSE UNCHANGED <<queue, left>>

Arrive ==
  /\ sockOpen
  /\ arrivals < MaxArrivals
  /\ arrivals' = arrivals + 1
  /\ \E m \in Wire : Enqueue(arrivals + 1, m)
  /\ UNCHANGED <<pc, cur, canSend, nextIn, sent, lateSends, appVars, sinceStop>>

-----------------------------------------------------------------------------
(* The thread: one action per step of run().                               *)

Goto(label) == pc' = label /\ left' = Lag
Late        == lateSends' = IF stopFlag THEN lateSends + 1 ELSE lateSends
Shared      == <<appVars, arrivals, sinceStop>>

(* send_sock may be refused; the thread then receives and says nothing.    *)
(* next_announce is now.                                                   *)
Begin ==
  /\ pc = "begin"
  /\ canSend' \in BOOLEAN
  /\ nextIn' = 0
  /\ Goto("top")
  /\ UNCHANGED <<queue, cur, sent, lateSends, Shared>>

(* Faulty variant of LoopTop: while (true).                                *)
LoopTopForever ==
  /\ pc = "top"
  /\ pc' = "recv"
  /\ left' = IF queue = <<>> THEN RecvTimeout + Lag ELSE Lag
  /\ UNCHANGED <<queue, cur, canSend, nextIn, sent, lateSends, Shared>>

(* while (!stop_flag_), then recvfrom() starts.                            *)
LoopTop ==
  /\ pc = "top"
  /\ IF stopFlag THEN Goto("closing")
     ELSE /\ pc' = "recv"
          /\ left' = IF queue = <<>> THEN RecvTimeout + Lag ELSE Lag
  /\ UNCHANGED <<queue, cur, canSend, nextIn, sent, lateSends, Shared>>

RecvDatagram ==
  /\ pc = "recv"
  /\ queue # <<>>
  /\ cur' = <<Head(queue)>>
  /\ queue' = Tail(queue)
  /\ Goto("check")
  /\ UNCHANGED <<canSend, nextIn, sent, lateSends, Shared>>

(* Faulty variant of RecvTimesOut: a timeout breaks the loop.              *)
RecvTimeoutBreaks ==
  /\ pc = "recv"
  /\ queue = <<>>
  /\ left <= Lag
  /\ Goto("closing")
  /\ UNCHANGED <<queue, cur, canSend, nextIn, sent, lateSends, Shared>>

(* recvfrom() returns -1; unlike the Python loop this one goes on.         *)
RecvTimesOut ==
  /\ pc = "recv"
  /\ queue = <<>>
  /\ left <= Lag
  /\ Goto("check")
  /\ UNCHANGED <<queue, cur, canSend, nextIn, sent, lateSends, Shared>>

(* Faulty variant of CheckStop: no look at what recvfrom() returned.       *)
CheckStopOnly ==
  /\ pc = "check"
  /\ IF stopFlag THEN Goto("closing") /\ cur' = <<>>
     ELSE Goto("handle") /\ UNCHANGED cur
  /\ UNCHANGED <<queue, canSend, nextIn, sent, lateSends, Shared>>

(* if (stop_flag_) break, and nothing to handle if nothing came.           *)
CheckStop ==
  /\ pc = "check"
  /\ IF stopFlag THEN Goto("closing") /\ cur' = <<>>
     ELSE Goto(IF cur = <<>> THEN "announce" ELSE "handle") /\ UNCHANGED cur
  /\ UNCHANGED <<queue, canSend, nextIn, sent, lateSends, Shared>>

(* The datagram is dropped and the thread goes to label.                   *)
DiscardedTo(label) ==
  /\ pc = "handle"
  /\ ~CppAnswerable(cur[1].msg, Self.fields)
  /\ cur' = <<>>
  /\ Goto(label)
  /\ UNCHANGED <<queue, canSend, nextIn, sent, lateSends, Shared>>

(* Faulty variants of Discard: back to the loop's top as in Python, past   *)
(* the announce, and a break.                                              *)
DiscardContinues == DiscardedTo("top")
DiscardBreaks    == DiscardedTo("closing")

(* An empty or malformed datagram, another type, no match.                 *)
Discard == DiscardedTo("announce")

(* Faulty variant of StartJitter: any DISCOVER.                            *)
StartJitterUnmatched ==
  /\ pc = "handle"
  /\ cur[1].msg.cpp # Absent /\ cur[1].msg.cpp.type = "DISCOVER"
  /\ pc' = "jitter"
  /\ \E jitter \in 0..JitterMax : left' = jitter + Lag
  /\ UNCHANGED <<queue, cur, canSend, nextIn, sent, lateSends, Shared>>

(* The reply is built, then sleep_for(jitter_ms(rng)).                     *)
StartJitter ==
  /\ pc = "handle"
  /\ CppAnswerable(cur[1].msg, Self.fields)
  /\ pc' = "jitter"
  /\ \E jitter \in 0..JitterMax : left' = jitter + Lag
  /\ UNCHANGED <<queue, cur, canSend, nextIn, sent, lateSends, Shared>>

JitterEnds ==
  /\ pc = "jitter"
  /\ left <= Lag
  /\ Goto("reply")
  /\ UNCHANGED <<queue, cur, canSend, nextIn, sent, lateSends, Shared>>

(* What a client reads of the qid it is answered with: a qid that is not a *)
(* string comes back as the empty one.                                     *)
Echoed(qid) ==
  IF qid = Absent THEN Absent
  ELSE IF qid = NotString THEN <<>> ELSE PythonReads(Echo(Json[qid]))

(* sendto(), of any length and with any result.                            *)
Reply ==
  /\ pc = "reply"
  /\ \/ /\ canSend
        /\ sent' = Append(sent, [n |-> cur[1].n, qid |-> cur[1].msg.cpp.qid,
                                 reads |-> Echoed(cur[1].msg.cpp.qid)])
        /\ Late
     \/ UNCHANGED <<sent, lateSends>>
  /\ cur' = <<>>
  /\ Goto("announce")
  /\ UNCHANGED <<queue, canSend, nextIn, Shared>>

(* The periodic announce, if there is one and it is due, at the end of     *)
(* every turn; multicast loopback may bring it back.                       *)
AnnounceDue == AnnounceInterval > 0 /\ canSend /\ nextIn <= 0

(* Faulty variant of PeriodicAnnounce: those that were missed are sent.    *)
AnnounceCatchesUp ==
  /\ pc = "announce"
  /\ AnnounceDue
  /\ nextIn' = nextIn + AnnounceInterval
  /\ Late
  /\ Goto("announce")
  /\ UNCHANGED <<queue, cur, canSend, sent, Shared>>

PeriodicAnnounce ==
  /\ pc = "announce"
  /\ AnnounceDue
  /\ nextIn' = AnnounceInterval
  /\ \/ Late /\ UNCHANGED queue
     \/ /\ Len(queue) < QueueCap
        /\ Late
        /\ queue' = Append(queue, [n |-> 0, msg |-> Announce(Absent)])
     \/ UNCHANGED <<queue, lateSends>>
  /\ Goto("top")
  /\ UNCHANGED <<cur, canSend, sent, Shared>>

SkipAnnounce ==
  /\ pc = "announce"
  /\ ~AnnounceDue
  /\ Goto("top")
  /\ UNCHANGED <<queue, cur, canSend, nextIn, sent, lateSends, Shared>>

(* send_sock is closed and the thread's function returns; sock_ stays open *)
(* until stop() has joined.                                                *)
CloseSendSocket ==
  /\ pc = "closing"
  /\ pc' = "ended" /\ left' = 0
  /\ UNCHANGED <<queue, cur, canSend, nextIn, sent, lateSends, Shared>>

Thread ==
  \/ Begin \/ LoopTop \/ RecvDatagram \/ RecvTimesOut \/ CheckStop
  \/ Discard \/ StartJitter \/ JitterEnds \/ Reply
  \/ PeriodicAnnounce \/ SkipAnnounce \/ CloseSendSocket

-----------------------------------------------------------------------------
(* The application.                                                        *)

(* start() succeeds.                                                       *)
Start ==
  /\ app = "idle" /\ ~joinable /\ starts < MaxStarts
  /\ starts' = starts + 1
  /\ sockOpen' = TRUE /\ queue' = <<>>
  /\ stopFlag' = FALSE /\ joinable' = TRUE /\ refused' = FALSE
  /\ Goto("begin")
  /\ lateSends' = 0 /\ sinceStop' = 0
  /\ UNCHANGED <<cur, canSend, nextIn, sent, app, arrivals>>

(* socket(), bind() or the membership fails: start() closes and throws.    *)
StartFails ==
  /\ app = "idle" /\ ~joinable /\ starts < MaxStarts
  /\ starts' = starts + 1
  /\ sockOpen' = FALSE /\ queue' = <<>>
  /\ UNCHANGED <<pc, left, cur, canSend, nextIn, sent, lateSends, joinable,
                 stopFlag, app, refused, arrivals, sinceStop>>

(* The thread cannot be created: start() throws with the socket open.      *)
StartRefused ==
  /\ app = "idle" /\ ~joinable /\ starts < MaxStarts
  /\ starts' = starts + 1
  /\ sockOpen' = TRUE /\ queue' = <<>>
  /\ stopFlag' = FALSE /\ refused' = TRUE
  /\ UNCHANGED <<pc, left, cur, canSend, nextIn, sent, lateSends, joinable,
                 app, arrivals, sinceStop>>

(* Faulty variant of StopSetsFlag: the poke alone.                         *)
StopSetsNothing ==
  /\ app = "idle" /\ joinable
  /\ app' = "poking"
  /\ UNCHANGED <<threadVars, sockOpen, joinable, stopFlag, refused, starts,
                 arrivals, sinceStop>>

(* stop() of a responder that runs; of any other it returns at once.       *)
StopSetsFlag ==
  /\ app = "idle" /\ joinable
  /\ stopFlag' = TRUE
  /\ app' = "poking"
  /\ UNCHANGED <<threadVars, sockOpen, joinable, refused, starts, arrivals,
                 sinceStop>>

(* The poke reaches this socket, or another of the port, or none.          *)
StopPokes ==
  /\ app = "poking"
  /\ Enqueue(0, Poke) \/ UNCHANGED <<queue, left>>
  /\ app' = "joining"
  /\ UNCHANGED <<pc, cur, canSend, nextIn, sent, lateSends, sockOpen, joinable,
                 stopFlag, refused, starts, arrivals, sinceStop>>

(* Faulty variant of JoinReturns: the socket is left to the next start().  *)
JoinLeavesSocket ==
  /\ app = "joining"
  /\ pc = "ended"
  /\ pc' = "none"
  /\ joinable' = FALSE
  /\ app' = "idle"
  /\ UNCHANGED <<left, queue, cur, canSend, nextIn, sent, lateSends, sockOpen,
                 stopFlag, refused, starts, arrivals, sinceStop>>

(* join() returns when the thread has ended; then sock_ is closed.         *)
JoinReturns ==
  /\ app = "joining"
  /\ pc = "ended"
  /\ pc' = "none"
  /\ joinable' = FALSE /\ sockOpen' = FALSE /\ queue' = <<>>
  /\ app' = "idle"
  /\ UNCHANGED <<left, cur, canSend, nextIn, sent, lateSends, stopFlag, refused,
                 starts, arrivals, sinceStop>>

Stopping == StopPokes \/ JoinReturns

-----------------------------------------------------------------------------
(* One unit of time.                                                       *)
Tick ==
  /\ pc \in Running
  /\ left > 0
  /\ left' = left - 1
  /\ nextIn' = IF AnnounceInterval > 0 /\ canSend /\ pc # "begin"
               THEN nextIn - 1 ELSE nextIn
  /\ sinceStop' = IF stopFlag THEN sinceStop + 1 ELSE sinceStop
  /\ UNCHANGED <<pc, queue, cur, canSend, sent, lateSends, appVars, arrivals>>

Next == Thread \/ Arrive \/ Start \/ StartFails \/ StartRefused
          \/ StopSetsFlag \/ Stopping \/ Tick

(* As for the Python responder.                                            *)
Spec == /\ Init /\ [][Next]_vars
        /\ WF_vars(Thread) /\ WF_vars(Stopping) /\ WF_vars(Tick)

-----------------------------------------------------------------------------
(* Properties.                                                             *)

(* Every variable keeps its type.                                          *)
TypeOK ==
  /\ pc \in {"none", "ended"} \cup Running
  /\ left \in Nat /\ nextIn \in Int
  /\ queue \in Seq([n : 0..MaxArrivals,
                    msg : Wire \cup {Poke, Announce(Absent)}])
  /\ Len(queue) <= QueueCap
  /\ cur # <<>> => pc \in {"check", "handle", "jitter", "reply"}
  /\ pc \in {"handle", "jitter", "reply"} => cur # <<>>
  /\ canSend \in BOOLEAN /\ sockOpen \in BOOLEAN /\ joinable \in BOOLEAN
  /\ stopFlag \in BOOLEAN /\ refused \in BOOLEAN
  /\ app \in {"idle", "poking", "joining"}
  /\ starts \in 0..MaxStarts /\ arrivals \in 0..MaxArrivals
  /\ lateSends \in Nat /\ sinceStop \in Nat

(* Whenever the application is not in stop(), thread, handle and socket    *)
(* agree: all three are there, or none is, across restarts and failed      *)
(* starts; only a thread that could not be created leaves its socket open. *)
LifecycleAgrees ==
  /\ joinable <=> pc # "none"
  /\ joinable => sockOpen
  /\ ~joinable /\ sockOpen => refused

(* The thread of a responder that was not stopped runs.                    *)
AliveUntilStop == pc \in {"closing", "ended"} => stopFlag

(* The longest a thread runs on once the flag is set, which is how long    *)
(* stop() keeps its caller.                                                *)
ExitBound ==
  LET idle == RecvTimeout + 3 * Lag
      busy == JitterMax + 6 * Lag
  IN  IF idle < busy THEN busy ELSE idle

StopIsQuick == sinceStop <= ExitBound

(* After the flag is set at most two datagrams leave: the reply in hand,   *)
(* and the announce that ends the same turn.                               *)
LastWords == lateSends <= 2

(* The periodic announce is late by at most one turn of the loop, from the *)
(* first one, due at once, and again after a restart.                      *)
TurnBound == RecvTimeout + JitterMax + 7 * Lag

AnnounceCadence == pc \in Running => nextIn >= -TurnBound

(* Replies leave in the order of their queries, once each, and only to who *)
(* asked what a Python responder of the same identity would have answered, *)
(* so that a scan sees no difference (Responder.hpp:3-7): the client reads *)
(* the qid it sent, except that it cannot decode an answer to one that was *)
(* written with surrogates.                                                *)
AnswersAsPython ==
  /\ \A i, j \in DOMAIN sent : i < j => sent[i].n < sent[j].n
  /\ pc \in {"jitter", "reply"} =>
       Answerable(cur[1].msg, Self.fields) /\ cur[1].msg.cpp.qid = cur[1].msg.qid
  /\ \A i \in DOMAIN sent :
       LET json == Json[sent[i].qid]
       IN  sent[i].reads = IF HasHalf(json) THEN Unreadable ELSE PythonReads(json)

(* stop() returns: join() has no time limit, so the thread must end.       *)
StopReturns == app = "poking" ~> app = "idle"

(* A query in the buffer that matches comes up for its reply unless stop() *)
(* is called.                                                              *)
QueriesAreTakenUp ==
  \A n \in 1..MaxArrivals :
    (joinable /\ \E i \in DOMAIN queue :
        queue[i].n = n /\ CppAnswerable(queue[i].msg, Self.fields))
      ~> stopFlag \/ (pc = "reply" /\ cur[1].n = n)
=============================================================================
