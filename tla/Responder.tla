----------------------------- MODULE Responder ------------------------------
(***************************************************************************)
(* mu2edaq_discovery.Responder: the daemon thread an application embeds to *)
(* answer DISCOVER queries, and the application's start() and stop().      *)
(*                                                                         *)
(* Time is discrete.  left is the time the thread's present step may still *)
(* take: a receive takes up to its timeout, a jitter sleep what was drawn, *)
(* every computing step and every wake-up at most Lag.  Tick passes one    *)
(* unit everywhere and cannot overrun a step, so the upper bounds below    *)
(* are real ones, for a machine that schedules a runnable thread in Lag.   *)
(*                                                                         *)
(* The port is shared (SO_REUSEPORT): a unicast to 127.0.0.1, like the     *)
(* empty datagram stop() sends to wake its thread, reaches one socket of   *)
(* the port, this one or another.                                          *)
(***************************************************************************)
EXTENDS Protocol, Sequences

CONSTANTS
  Wire,              \* datagrams other programs may send to the port
  Self,              \* the identity of this responder: id, fields, ...
  RecvTimeout,       \* the 0.5 s of sock.settimeout
  JitterMax,         \* Responder.JITTER_MAX
  JoinTimeout,       \* the 2.0 s of stop()
  AnnounceInterval,  \* announce_interval, 0 for none
  Lag,               \* longest computing step or wake-up
  QueueCap,          \* datagrams the socket buffers
  MaxArrivals,       \* bound: datagrams that arrive from the wire
  MaxAge             \* bound: a datagram's age is counted up to here

ASSUME ResponderAssumption ==
  /\ Wire \subseteq Datagrams
  /\ Self \in [from : Hosts, id : Ids, fields : [FilterKeys -> Values],
               typed : BOOLEAN, size : Nat]
  /\ RecvTimeout \in Nat \ {0}
  /\ JitterMax \in Nat /\ JoinTimeout \in Nat /\ AnnounceInterval \in Nat
  /\ Lag \in Nat /\ QueueCap \in Nat \ {0}
  /\ MaxArrivals \in Nat /\ MaxAge \in Nat

VARIABLES
  pc,             \* where the thread is
  left,           \* time its present step may still take
  queue,          \* the socket's receive buffer
  cur,            \* the datagram in hand, as a sequence of at most one; one
                  \* that an exception was raised about stays in hand
  arrivals,       \* datagrams that arrived from the wire so far
  sinceAnnounce,  \* time since next_announce was last set
  stopEvent,      \* _stop_event
  app,            \* where the application is in stop()
  joinLeft,       \* what is left of join()'s timeout
  crash,          \* where the exception came from that ends the thread
  sent,           \* history: the replies, in order
  lateSends       \* history: datagrams sent since the stop event was set

threadVars == <<pc, left, queue, cur, sinceAnnounce, crash, sent, lateSends>>
appVars    == <<stopEvent, app, joinLeft>>
vars       == <<threadVars, arrivals, appVars>>

Parked  == {"new", "exited"}                 \* no step in progress
Looping == {"top", "announce", "recv", "check", "handle", "jitter", "reply"}
Bound   == Looping \cup {"closing"}          \* the socket is open

(* A received datagram: n numbers those that came over the wire, 0 is one  *)
(* the responder caused itself (a poke, its own looped back announce).     *)
Poke        == [from |-> Self.from, size |-> 0, body |-> "garbage",
                proto |-> FALSE, type |-> "OTHER", qid |-> Absent,
                filter |-> Absent, id |-> Absent, fields |-> Absent,
                typed |-> FALSE, cpp |-> Absent]
Announce(qid) == BuildAnnounce(Self.from, Self.id, Self.fields, Self.typed,
                               qid, Self.size)
Messages    == Wire \cup {Poke, Announce(Absent)}
Entry       == [n : Nat, msg : Messages, age : 0..MaxAge]
Replies     == [n : Nat, to : Hosts, qid : Qids \cup {Absent, NotString}]

Earlier(a, b) == IF a < b THEN a ELSE b
Fresh(n, msg) == [n |-> n, msg |-> msg, age |-> 0]
Older(e)      == [n |-> e.n, msg |-> e.msg, age |-> Earlier(e.age + 1, MaxAge)]

Init ==
  /\ pc = "new" /\ left = 0
  /\ queue = <<>> /\ cur = <<>>
  /\ arrivals = 0
  /\ sinceAnnounce = 0
  /\ stopEvent = FALSE
  /\ app = "idle" /\ joinLeft = 0
  /\ crash = "none"
  /\ sent = <<>> /\ lateSends = 0

-----------------------------------------------------------------------------
(* The socket.                                                             *)

(* e arrives: dropped by a full buffer; a thread that waits in recvfrom()  *)
(* is woken.                                                               *)
Enqueue(n, msg) ==
  IF Len(queue) < QueueCap
  THEN /\ queue' = Append(queue, Fresh(n, msg))
       /\ left' = IF pc = "recv" THEN Earlier(left, Lag) ELSE left
  ELSE UNCHANGED <<queue, left>>

(* Another program's datagram reaches the port, by multicast, broadcast or *)
(* unicast.                                                                *)
Arrive ==
  /\ pc \in Bound
  /\ arrivals < MaxArrivals
  /\ arrivals' = arrivals + 1
  /\ \E m \in Wire : Enqueue(arrivals + 1, m)
  /\ UNCHANGED <<pc, cur, sinceAnnounce, crash, sent, lateSends, appVars>>

-----------------------------------------------------------------------------
(* The thread: one action per step of run().                               *)

Goto(label) == pc' = label /\ left' = Lag
Drop        == cur' = <<>>
Late        == lateSends' = IF stopEvent THEN lateSends + 1 ELSE lateSends

(* _open_socket binds and joins the group, then the second socket is made; *)
(* an OSError is the thread's end.  One from the second leaves the first   *)
(* open, and nobody reads from it.                                         *)
OpenSocket ==
  /\ pc = "opening"
  /\ \/ Goto("top") /\ sinceAnnounce' = 0 /\ UNCHANGED crash
     \/ /\ pc' = "exited" /\ left' = 0
        /\ crash' = "open"
        /\ UNCHANGED sinceAnnounce
  /\ UNCHANGED <<queue, cur, sent, lateSends, arrivals, appVars>>

(* Faulty variant of LoopTop: while True.                                  *)
LoopTopForever ==
  /\ pc = "top"
  /\ Goto("announce")
  /\ UNCHANGED <<queue, cur, sinceAnnounce, crash, sent, lateSends, arrivals,
                 appVars>>

(* while not self._stop_event.is_set()                                     *)
LoopTop ==
  /\ pc = "top"
  /\ IF stopEvent THEN Goto("closing") ELSE Goto("announce")
  /\ UNCHANGED <<queue, cur, sinceAnnounce, crash, sent, lateSends, arrivals,
                 appVars>>

(* recvfrom() starts: it returns at once if something is there.            *)
EnterRecv(q) ==
  /\ pc' = "recv"
  /\ left' = IF q = <<>> THEN RecvTimeout + Lag ELSE Lag

AnnounceDue == AnnounceInterval > 0 /\ sinceAnnounce >= AnnounceInterval

(* No periodic announce, or its time has not come.                         *)
SkipAnnounce ==
  /\ pc = "announce"
  /\ ~AnnounceDue
  /\ EnterRecv(queue)
  /\ UNCHANGED <<queue, cur, sinceAnnounce, crash, sent, lateSends, arrivals,
                 appVars>>

(* The periodic announce goes to the group, and by multicast loopback may  *)
(* come back; an OSError from sendto() is ignored.                         *)
PeriodicAnnounce ==
  /\ pc = "announce"
  /\ AnnounceDue
  /\ Encodes(Announce(Absent))
  /\ sinceAnnounce' = 0
  /\ \/ Late /\ queue' = queue
     \/ /\ Len(queue) < QueueCap
        /\ Late
        /\ queue' = Append(queue, Fresh(0, Announce(Absent)))
     \/ UNCHANGED <<queue, lateSends>>
  /\ EnterRecv(queue')
  /\ UNCHANGED <<cur, crash, sent, arrivals, appVars>>

(* encode() raises ProtocolError, which is no OSError: out of the loop,    *)
(* through finally, and out of the thread.                                 *)
AnnounceTooLong ==
  /\ pc = "announce"
  /\ AnnounceDue
  /\ ~Encodes(Announce(Absent))
  /\ crash' = "announce"
  /\ Goto("closing")
  /\ UNCHANGED <<queue, cur, sinceAnnounce, sent, lateSends, arrivals, appVars>>

(* recvfrom() returns a datagram.                                          *)
RecvDatagram ==
  /\ pc = "recv"
  /\ queue # <<>>
  /\ cur' = <<Head(queue)>>
  /\ queue' = Tail(queue)
  /\ Goto("check")
  /\ UNCHANGED <<sinceAnnounce, crash, sent, lateSends, arrivals, appVars>>

(* Faulty variants of RecvTimesOut: on to the tests with nothing received, *)
(* and the timeout taken for an error of the socket, which breaks the      *)
(* loop.                                                                   *)
RecvTimeoutFallsThrough ==
  /\ pc = "recv"
  /\ queue = <<>>
  /\ left <= Lag
  /\ Goto("check")
  /\ UNCHANGED <<queue, cur, sinceAnnounce, crash, sent, lateSends, arrivals,
                 appVars>>

RecvTimeoutBreaks ==
  /\ pc = "recv"
  /\ queue = <<>>
  /\ left <= Lag
  /\ Goto("closing")
  /\ UNCHANGED <<queue, cur, sinceAnnounce, crash, sent, lateSends, arrivals,
                 appVars>>

(* socket.timeout: continue.                                               *)
RecvTimesOut ==
  /\ pc = "recv"
  /\ queue = <<>>
  /\ left <= Lag
  /\ Goto("top")
  /\ UNCHANGED <<queue, cur, sinceAnnounce, crash, sent, lateSends, arrivals,
                 appVars>>

(* Faulty variant of CheckStop: no second look at the event.               *)
NoSecondCheck ==
  /\ pc = "check"
  /\ Goto("handle")
  /\ UNCHANGED <<queue, cur, sinceAnnounce, crash, sent, lateSends, arrivals,
                 appVars>>

(* if self._stop_event.is_set(): break                                     *)
CheckStop ==
  /\ pc = "check"
  /\ IF stopEvent THEN Goto("closing") /\ Drop
                  ELSE Goto("handle") /\ UNCHANGED cur
  /\ UNCHANGED <<queue, sinceAnnounce, crash, sent, lateSends, arrivals,
                 appVars>>

(* Faulty variants of Discard: an inner loop that receives until something *)
(* matches, and a break.                                                   *)
DiscardAndReceive ==
  /\ pc = "handle"
  /\ PassedOver(cur[1].msg, Self.fields)
  /\ Drop
  /\ EnterRecv(queue)
  /\ UNCHANGED <<queue, sinceAnnounce, crash, sent, lateSends, arrivals,
                 appVars>>

DiscardAndBreak ==
  /\ pc = "handle"
  /\ PassedOver(cur[1].msg, Self.fields)
  /\ Drop
  /\ Goto("closing")
  /\ UNCHANGED <<queue, sinceAnnounce, crash, sent, lateSends, arrivals,
                 appVars>>

(* ProtocolError, not a DISCOVER, or no match: continue.                   *)
Discard ==
  /\ pc = "handle"
  /\ PassedOver(cur[1].msg, Self.fields)
  /\ Drop
  /\ Goto("top")
  /\ UNCHANGED <<queue, sinceAnnounce, crash, sent, lateSends, arrivals,
                 appVars>>

(* RecursionError out of decode(), or re.error out of matches_filter(): no *)
(* ProtocolError, so out of the loop.                                      *)
HandleRaises ==
  /\ pc = "handle"
  /\ Breaks(cur[1].msg)
  /\ crash' = IF DecodeBreaks(cur[1].msg) THEN "decode" ELSE "match"
  /\ Goto("closing")
  /\ UNCHANGED <<queue, cur, sinceAnnounce, sent, lateSends, arrivals, appVars>>

(* Faulty variants of StartJitter: twice the jitter, and any DISCOVER.     *)
StartLongJitter ==
  /\ pc = "handle"
  /\ Answerable(cur[1].msg, Self.fields)
  /\ pc' = "jitter"
  /\ \E jitter \in 0..2 * JitterMax : left' = jitter + Lag
  /\ UNCHANGED <<queue, cur, sinceAnnounce, crash, sent, lateSends, arrivals,
                 appVars>>

StartJitterUnmatched ==
  /\ pc = "handle"
  /\ IsQuery(cur[1].msg)
  /\ pc' = "jitter"
  /\ \E jitter \in 0..JitterMax : left' = jitter + Lag
  /\ UNCHANGED <<queue, cur, sinceAnnounce, crash, sent, lateSends, arrivals,
                 appVars>>

(* time.sleep(random.uniform(0, self.JITTER_MAX))                          *)
StartJitter ==
  /\ pc = "handle"
  /\ Answerable(cur[1].msg, Self.fields)
  /\ pc' = "jitter"
  /\ \E jitter \in 0..JitterMax : left' = jitter + Lag
  /\ UNCHANGED <<queue, cur, sinceAnnounce, crash, sent, lateSends, arrivals,
                 appVars>>

JitterEnds ==
  /\ pc = "jitter"
  /\ left <= Lag
  /\ Goto("reply")
  /\ UNCHANGED <<queue, cur, sinceAnnounce, crash, sent, lateSends, arrivals,
                 appVars>>

(* The reply goes to the query's source with the query's qid, unless       *)
(* sendto() raises OSError.                                                *)
Reply ==
  /\ pc = "reply"
  /\ Encodes(Announce(cur[1].msg.qid))
  /\ \/ /\ sent' = Append(sent, [n |-> cur[1].n, to |-> cur[1].msg.from,
                                 qid |-> cur[1].msg.qid])
        /\ Late
     \/ UNCHANGED <<sent, lateSends>>
  /\ Drop
  /\ Goto("top")
  /\ UNCHANGED <<queue, sinceAnnounce, crash, arrivals, appVars>>

(* Faulty variant of ReplyTooLong: the reply is tried again and again.     *)
ReplyTooLongRetried ==
  /\ pc = "reply"
  /\ ~Encodes(Announce(cur[1].msg.qid))
  /\ Goto("reply")
  /\ UNCHANGED <<queue, cur, sinceAnnounce, crash, sent, lateSends, arrivals,
                 appVars>>

(* encode() of the reply is outside any try of the loop.                   *)
ReplyTooLong ==
  /\ pc = "reply"
  /\ ~Encodes(Announce(cur[1].msg.qid))
  /\ crash' = "reply"
  /\ Goto("closing")
  /\ UNCHANGED <<queue, cur, sinceAnnounce, sent, lateSends, arrivals, appVars>>

(* finally: both sockets are closed and the thread ends.                   *)
CloseSockets ==
  /\ pc = "closing"
  /\ pc' = "exited" /\ left' = 0
  /\ queue' = <<>>
  /\ UNCHANGED <<cur, sinceAnnounce, crash, sent, lateSends, arrivals, appVars>>

Thread ==
  \/ OpenSocket \/ LoopTop
  \/ SkipAnnounce \/ PeriodicAnnounce \/ AnnounceTooLong
  \/ RecvDatagram \/ RecvTimesOut \/ CheckStop
  \/ Discard \/ HandleRaises \/ StartJitter \/ JitterEnds
  \/ Reply \/ ReplyTooLong \/ CloseSockets

-----------------------------------------------------------------------------
(* The application.                                                        *)

(* start() of a thread that was never started.  A second start() raises    *)
(* RuntimeError and changes nothing.                                       *)
Start ==
  /\ app = "idle"
  /\ pc = "new"
  /\ Goto("opening")
  /\ UNCHANGED <<queue, cur, sinceAnnounce, crash, sent, lateSends, arrivals,
                 appVars>>

(* stop(), first step: the event is set.  It may be called at any time,    *)
(* again after it returned, and before start().                            *)
StopSetsEvent ==
  /\ app \in {"idle", "returned"}
  /\ stopEvent' = TRUE
  /\ app' = "poking"
  /\ UNCHANGED <<threadVars, arrivals, joinLeft>>

(* stop(), second step: the poke reaches this socket, or another socket of *)
(* the port, or none; then join() begins, which raises RuntimeError on a   *)
(* thread that was not started.                                            *)
StopPokes ==
  /\ app = "poking"
  /\ \/ pc \in Bound /\ Enqueue(0, Poke)
     \/ UNCHANGED <<queue, left>>
  /\ IF pc = "new" THEN app' = "idle" /\ UNCHANGED joinLeft
                   ELSE app' = "joining" /\ joinLeft' = JoinTimeout
  /\ UNCHANGED <<pc, cur, sinceAnnounce, crash, sent, lateSends, arrivals,
                 stopEvent>>

(* join() returns when the thread has ended or its timeout has passed.     *)
JoinReturns ==
  /\ app = "joining"
  /\ pc = "exited" \/ joinLeft = 0
  /\ app' = "returned"
  /\ joinLeft' = 0
  /\ UNCHANGED <<threadVars, arrivals, stopEvent>>

(* stop() once entered goes on to its end.                                 *)
Stopping == StopPokes \/ JoinReturns

-----------------------------------------------------------------------------
(* One unit of time.                                                       *)
Tick ==
  /\ pc \in Parked \/ left > 0
  /\ app = "joining" => joinLeft > 0
  /\ left' = IF pc \in Parked THEN left ELSE left - 1
  /\ joinLeft' = IF app = "joining" THEN joinLeft - 1 ELSE joinLeft
  /\ sinceAnnounce' = IF AnnounceInterval > 0 /\ pc \in Looping
                      THEN sinceAnnounce + 1 ELSE sinceAnnounce
  /\ queue' = [i \in DOMAIN queue |-> Older(queue[i])]
  /\ cur' = [i \in DOMAIN cur |-> Older(cur[i])]
  /\ UNCHANGED <<pc, arrivals, crash, sent, lateSends, stopEvent, app>>

Next == Thread \/ Arrive \/ Start \/ StopSetsEvent \/ Stopping \/ Tick

(* The scheduler runs a runnable thread, the clock advances, and an        *)
(* application that called stop() is not abandoned half way; nobody owes   *)
(* the responder a datagram, a start() or a stop().                        *)
Fairness == WF_vars(Thread) /\ WF_vars(Stopping) /\ WF_vars(Tick)

Spec == Init /\ [][Next]_vars /\ Fairness

-----------------------------------------------------------------------------
(* Properties.                                                             *)

(* The exceptions raised about the datagram in hand.                       *)
AboutDatagram == {"decode", "match", "reply"}

(* Every variable keeps its type: a datagram is in hand from its receipt   *)
(* to its reply and no longer, unless it made the thread end.              *)
TypeOK ==
  /\ pc \in Parked \cup Bound \cup {"opening"}
  /\ left \in Nat /\ joinLeft \in Nat /\ sinceAnnounce \in Nat
  /\ queue \in Seq(Entry) /\ Len(queue) <= QueueCap
  /\ cur \in Seq(Entry)
  /\ cur # <<>> <=> \/ pc \in {"check", "handle", "jitter", "reply"}
                    \/ crash \in AboutDatagram
  /\ arrivals \in Nat /\ lateSends \in Nat
  /\ stopEvent \in BOOLEAN
  /\ app \in {"idle", "poking", "joining", "returned"}
  /\ crash \in {"none", "open", "announce"} \cup AboutDatagram
  /\ crash # "none" => pc \in {"closing", "exited"}
  /\ sent \in Seq(Replies)

(* The longest a thread can take to end once the stop event is set: from   *)
(* just past the loop's test, through a full receive timeout, or from just *)
(* past the second test, through a jitter sleep and a reply.               *)
ExitBound ==
  LET idle == RecvTimeout + 4 * Lag
      busy == JitterMax + 5 * Lag
  IN  IF idle < busy THEN busy ELSE idle

(* stop()'s timeout is longer than that: 2.0 s against 0.5 s and 0.25 s.   *)
JoinOutlastsThread == ExitBound < JoinTimeout

(* When stop() has returned the thread has ended and its sockets are       *)
(* closed, whoever got the poke and whatever else was queued: join() never *)
(* gives up on a thread that still runs.  (responder.py: stop, run)        *)
StopIsClean == app = "returned" => pc = "exited"

(* After the stop event is set at most one more datagram leaves: the       *)
(* announce or the reply that was already past its test.                   *)
LastWord == lateSends <= 1

(* What ends the thread of a responder: a text nested too deep, a glob     *)
(* that cannot be compiled, a reply that is too long to encode.            *)
Harmful(m) ==
  Breaks(m) \/ (Answerable(m, Self.fields) /\ ~Encodes(Announce(m.qid)))

(* The thread ends because stop() was called, because it never had its     *)
(* sockets, because its own announce is too long, or by a harmful datagram *)
(* that it has just taken in hand; nothing else that comes over the wire,  *)
(* no timeout and no failed send ends it.  (responder.py: run)             *)
EndsForACause ==
  pc \in {"closing", "exited"} =>
    \/ stopEvent
    \/ crash = "open" /\ sent = <<>> /\ cur = <<>>
    \/ crash = "announce" /\ AnnounceInterval > 0 /\ ~Encodes(Announce(Absent))
    \/ crash \in AboutDatagram /\ Harmful(cur[1].msg)

(* Once its socket is open, the thread lives until stop() is called: it    *)
(* "answers DISCOVER queries" (responder.py:23).                           *)
AliveUntilStop == pc \in {"closing", "exited"} => stopEvent \/ crash = "open"

(* One turn of the loop between two looks at next_announce.                *)
TurnBound == RecvTimeout + JitterMax + 7 * Lag

(* The periodic announce is late by less than one turn of the loop,        *)
(* however many queries arrive in between.                                 *)
AnnounceCadence ==
  AnnounceInterval > 0 /\ pc \in Looping =>
    sinceAnnounce < AnnounceInterval + TurnBound

(* Time to serve one datagram, from the receive to the loop's top.         *)
ServiceBound == JitterMax + 7 * Lag

(* A query is answered within a service time for itself and for every      *)
(* datagram the buffer may hold ahead of it (but for the three steps that  *)
(* the first and the last do not need), never later.                       *)
BacklogBound ==
  pc = "reply" => cur[1].age <= (QueueCap + 1) * ServiceBound - 3 * Lag

(* A query is answered within the jitter, give or take the scheduling of   *)
(* the five steps from its receipt to its reply (responder.py:25 and       *)
(* PROTOCOL.md:48).                                                        *)
ReplyWithinJitter ==
  pc = "reply" => cur[1].age <= JitterMax + 5 * Lag

(* Replies leave in the order their queries arrived, at most one for each  *)
(* query, and each goes to a source that asked a question this responder   *)
(* matches, with that question's qid.                                      *)
ReplyDiscipline ==
  /\ \A i, j \in DOMAIN sent : i < j => sent[i].n < sent[j].n
  /\ \A i \in DOMAIN sent :
       \E m \in Wire : /\ Answerable(m, Self.fields)
                      /\ m.from = sent[i].to /\ m.qid = sent[i].qid

(* A thread that was started ends after stop(), even one that was stopped  *)
(* before start() or before it had its socket, and whoever got the poke.   *)
ThreadEnds == stopEvent /\ pc # "new" ~> pc = "exited"

(* A matching query in the buffer comes up for its reply unless stop() is  *)
(* called or a harmful datagram is ahead of it: later queries cannot       *)
(* overtake it, and neither can announces, malformed datagrams, pokes or   *)
(* failed sends starve it.                                                 *)
QueriesAreTakenUp ==
  \A n \in 1..MaxArrivals :
    (\E i \in DOMAIN queue :
        /\ queue[i].n = n /\ Answerable(queue[i].msg, Self.fields)
        /\ \A j \in 1..i - 1 : ~Harmful(queue[j].msg)
        /\ cur # <<>> => ~Harmful(cur[1].msg)
        /\ Encodes(Announce(Absent)))
      ~> stopEvent \/ (pc = "reply" /\ cur[1].n = n)
=============================================================================
