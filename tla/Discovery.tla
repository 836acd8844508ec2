----------------------------- MODULE Discovery ------------------------------
(***************************************************************************)
(* A scan over a network: one call of discover() (the module Client), one  *)
(* Responder (the module of that name), and the datagrams between them,    *)
(* which are lost, duplicated, reordered and delayed up to MaxDelay.       *)
(*                                                                         *)
(* A query is multicast and broadcast; routes says which of the two reach  *)
(* the responder's host (the switches of the DAQ network confine multicast *)
(* to one of them).  Other clients' datagrams reach the responder too.     *)
(*                                                                         *)
(* The responder's process may die at any time and be run again: each of   *)
(* its lives draws an id of its own, and the answers of an earlier one may *)
(* still be under way.                                                     *)
(***************************************************************************)
EXTENDS Integers, Sequences, FiniteSets, Bags

CONSTANTS
  FilterKeys, ForeignKeys, Values, Qids, QidSize, Ids, Hosts, MaxDatagram,
  Absent, NotString, NotObject, BadGlob, Hollow,
  Asker, Qid, Filter, QuerySize, Timeout, Retries, Broadcasts,
  Self, RecvTimeout, JitterMax, JoinTimeout, Lag, QueueCap,
  Names,      \* bound: the ids of the lives the process may have, in order
  Noise,      \* what other programs send to the two ports
  MaxNoise,   \* bound: how many of those
  MaxDelay,   \* longest time on the network
  MaxLost,    \* bound: datagrams lost on the network
  MaxCopies   \* bound: datagrams duplicated on the network

VARIABLES
  cpc, cleft, elapsed, now, sendsLeft, resendAt, inbox, ccur, found,
  sockOpen, raised, wire, carrivals, inTime,
  rpc, rleft, queue, rcur, arrivals, sinceAnnounce, stopEvent, app,
  joinLeft, crash, sent, lateSends,
  routes,    \* the routes that reach the responder
  net,       \* the datagrams under way, a bag
  life,      \* which of its lives the responder's process is in
  first,     \* history: the one it was in when the call began
  offered,   \* history: exchanges this life may have: queries, and copies
  lost,      \* history: those of them that came to nothing
  copies,    \* datagrams duplicated so far
  noise      \* datagrams from others so far

cvars == <<cpc, cleft, elapsed, now, sendsLeft, resendAt, inbox, ccur, found,
           sockOpen, raised, wire, carrivals, inTime>>
rvars == <<rpc, rleft, queue, rcur, arrivals, sinceAnnounce, stopEvent, app,
           joinLeft, crash, sent, lateSends>>
nvars == <<routes, net, life, first, offered, lost, copies, noise>>
vars  == <<cvars, rvars, nvars>>

R == INSTANCE Responder WITH
       pc <- rpc, left <- rleft, cur <- rcur,
       Wire <- Noise, AnnounceInterval <- 0, MaxArrivals <- MaxNoise,
       MaxAge <- 0

C == INSTANCE Client WITH
       pc <- cpc, left <- cleft, cur <- ccur, arrivals <- carrivals,
       Wire <- Noise \cup {R!Announce(Qid)}, QueueCap <- QueueCap,
       MaxArrivals <- MaxLost

(* The identifiers, of calls and of lives, are drawn with uuid4(): no two  *)
(* lives have the same, and no other program asks under the one that this  *)
(* call has drawn.                                                         *)
ASSUME DiscoveryAssumption ==
  /\ Names \in Seq(Ids) /\ Names # <<>>
  /\ \A i, j \in DOMAIN Names : Names[i] = Names[j] => i = j
  /\ Qid \in Qids /\ Absent \notin Qids
  /\ \A m \in Noise : m.type = "DISCOVER" => m.qid # Qid

(* What the two components assume, and the bounds.                         *)
ASSUME ComponentAssumption ==
  /\ NotString \notin Qids /\ Absent \notin Ids
  /\ C!EmptyFilter \notin {Absent, NotObject, Hollow} /\ Self.fields # Absent
  /\ Timeout \in Nat /\ Retries \in Nat /\ C!Gap * C!Sends = Timeout
  /\ Broadcasts \in Nat /\ Lag \in Nat
  /\ RecvTimeout \in Nat /\ JitterMax \in Nat
  /\ QueueCap \in Nat \ {0}
  /\ {MaxDelay, MaxNoise, MaxCopies} \subseteq Nat

Routes == {"multicast"} \cup IF Broadcasts > 0 THEN {"broadcast"} ELSE {}

Init ==
  /\ C!Init /\ R!Init
  /\ routes \in SUBSET Routes
  /\ net = EmptyBag
  /\ life = 1 /\ first = 1
  /\ offered = 0 /\ lost = 0 /\ copies = 0 /\ noise = 0

Token(to, msg) == [to |-> to, msg |-> msg, left |-> MaxDelay]
Times(n, e)    == IF n = 0 THEN EmptyBag ELSE [x \in {e} |-> n]
Under(to)      == {e \in BagToSet(net) : e.to = to}

(* The datagrams under way in either direction, each copy for itself.      *)
Number(to) == Cardinality(UNION {{e} \X (1..net[e]) : e \in Under(to)})

(* Of the present life: what its instance_id goes into, and what of this   *)
(* call it may still answer, or has answered.                              *)
Says(qid) == [R!Announce(qid) EXCEPT !.id = Names[life]]
Mine(e)   == e.to = "responder" \/ (e.msg.id = Names[life] /\ e.msg.qid = Qid)

LostOne(e) == lost' = IF Mine(e) THEN lost + 1 ELSE lost

-----------------------------------------------------------------------------
(* The client's side: what send_all() sends goes on its way, as far as the *)
(* route reaches.                                                          *)
ClientStep ==
  /\ C!Call
  /\ LET reaching == {i \in DOMAIN wire' : wire'[i].route \in routes}
         n        == IF wire' = wire THEN 0 ELSE Cardinality(reaching)
     IN  /\ net' = net (+) Times(n, Token("responder", C!Query))
         /\ offered' = offered + n
  /\ first' = IF cpc = "idle" THEN life ELSE first
  /\ UNCHANGED <<rvars, routes, life, lost, copies, noise>>

(* Faulty variant of ResponderStep: the reply is sent twice, by either     *)
(* route, as the client does with its queries.                             *)
ResponderStepTwice ==
  /\ R!Thread
  /\ LET asked    == rcur[1].msg
         replying == rpc = "reply" /\ rpc' = "top" /\ asked.from = Asker
         failing  == replying /\ sent' = sent /\ asked.qid = Qid
         opens    == rpc = "opening" /\ rpc' = "top"
     IN  /\ net' = IF replying /\ sent' # sent
                   THEN net (+) Times(2, Token("client", Says(asked.qid)))
                   ELSE net
         /\ offered' = IF opens THEN Number("responder") ELSE offered
         /\ lost' = IF opens THEN 0 ELSE IF failing THEN lost + 1 ELSE lost
  /\ UNCHANGED <<cvars, routes, life, first, copies, noise>>

(* The responder's side: a reply to the client goes on its way, or is lost *)
(* where sendto() fails.  A socket that opens may take what is under way.  *)
ResponderStep ==
  /\ R!Thread
  /\ LET asked    == rcur[1].msg
         replying == rpc = "reply" /\ rpc' = "top" /\ asked.from = Asker
         failing  == replying /\ sent' = sent /\ asked.qid = Qid
         opens    == rpc = "opening" /\ rpc' = "top"
     IN  /\ net' = IF replying /\ sent' # sent
                   THEN net (+) Times(1, Token("client", Says(asked.qid)))
                   ELSE net
         /\ offered' = IF opens THEN Number("responder") ELSE offered
         /\ lost' = IF opens THEN 0 ELSE IF failing THEN lost + 1 ELSE lost
  /\ UNCHANGED <<cvars, routes, life, first, copies, noise>>

(* The application that embeds the responder starts it, and calls stop().  *)
Application ==
  /\ R!Start \/ R!StopSetsEvent
  /\ UNCHANGED <<cvars, nvars>>

(* Its process dies and is run again: nothing is kept, and the constructor *)
(* draws a new instance_id.                                                *)
Restart ==
  /\ life < Len(Names)
  /\ rpc # "new"
  /\ life' = life + 1
  /\ rpc' = "new" /\ rleft' = 0 /\ queue' = <<>> /\ rcur' = <<>>
  /\ arrivals' = 0 /\ sinceAnnounce' = 0 /\ stopEvent' = FALSE
  /\ app' = "idle" /\ joinLeft' = 0 /\ crash' = "none"
  /\ sent' = <<>> /\ lateSends' = 0
  /\ UNCHANGED <<cvars, routes, net, first, offered, lost, copies, noise>>

(* stop() goes on, once called.                                            *)
Stopping ==
  /\ R!Stopping
  /\ UNCHANGED <<cvars, nvars>>

-----------------------------------------------------------------------------
(* The network.  A datagram is gone where nobody has the port open or the  *)
(* buffer is full.                                                         *)

ReachResponder ==
  \E e \in Under("responder") :
    /\ net' = net (-) Times(1, e)
    /\ IF rpc \in R!Bound /\ Len(queue) < QueueCap
       THEN R!Enqueue(arrivals + 1, e.msg) /\ arrivals' = arrivals + 1
              /\ UNCHANGED lost
       ELSE lost' = lost + 1 /\ UNCHANGED <<queue, rleft, arrivals>>
    /\ UNCHANGED <<cvars, rpc, rcur, sinceAnnounce, stopEvent, app, joinLeft,
                   crash, sent, lateSends, routes, life, first, offered,
                   copies, noise>>

ReachClient ==
  \E e \in Under("client") :
    /\ net' = net (-) Times(1, e)
    /\ IF sockOpen /\ Len(inbox) < QueueCap
       THEN C!Deliver(e.msg) /\ UNCHANGED lost
       ELSE LostOne(e) /\ UNCHANGED <<inbox, cleft, inTime>>
    /\ UNCHANGED <<rvars, cpc, elapsed, now, sendsLeft, resendAt, ccur, found,
                   sockOpen, raised, wire, carrivals, routes, life, first,
                   offered, copies, noise>>

Lose ==
  /\ lost < MaxLost
  /\ \E e \in BagToSet(net) : net' = net (-) Times(1, e) /\ LostOne(e)
  /\ UNCHANGED <<cvars, rvars, routes, life, first, offered, copies, noise>>

Duplicate ==
  /\ copies < MaxCopies
  /\ \E e \in BagToSet(net) :
       /\ net' = net (+) Times(1, e)
       /\ offered' = IF Mine(e) THEN offered + 1 ELSE offered
  /\ copies' = copies + 1
  /\ UNCHANGED <<cvars, rvars, routes, life, first, lost, noise>>

(* Somebody else's datagram reaches the responder, or the client.          *)
DisturbResponder ==
  /\ rpc \in R!Bound
  /\ noise < MaxNoise
  /\ noise' = noise + 1
  /\ \E m \in Noise : R!Enqueue(arrivals + 1, m)
  /\ arrivals' = arrivals + 1
  /\ UNCHANGED <<cvars, rpc, rcur, sinceAnnounce, stopEvent, app, joinLeft,
                 crash, sent, lateSends, routes, net, life, first, offered,
                 lost, copies>>

DisturbClient ==
  /\ sockOpen
  /\ noise < MaxNoise
  /\ noise' = noise + 1
  /\ \E m \in Noise : C!Deliver(m)
  /\ UNCHANGED <<rvars, cpc, elapsed, now, sendsLeft, resendAt, ccur, found,
                 sockOpen, raised, wire, carrivals, routes, net, life, first,
                 offered, lost, copies>>

(* One unit of time, for everyone; no datagram stays longer than MaxDelay. *)
Aged(e)  == [e EXCEPT !.left = @ - 1]
Fresh(e) == [e EXCEPT !.left = @ + 1]

Tick ==
  /\ \A e \in BagToSet(net) : e.left > 0
  /\ net' = [e \in {Aged(f) : f \in BagToSet(net)} |-> net[Fresh(e)]]
  /\ R!Tick
  /\ IF cpc \in {"idle"} \cup C!Ended THEN UNCHANGED cvars ELSE C!Tick
  /\ UNCHANGED <<routes, life, first, offered, lost, copies, noise>>

Network == ReachResponder \/ ReachClient

Next == ClientStep \/ ResponderStep \/ Application \/ Stopping \/ Restart
          \/ Network \/ Lose \/ Duplicate \/ DisturbResponder \/ DisturbClient \/ Tick

(* Both programs run, datagrams travel, time passes; nobody owes a start,  *)
(* a stop or a call.                                                       *)
Fairness ==
  /\ WF_vars(ClientStep) /\ WF_vars(ResponderStep)
  /\ WF_vars(Stopping) /\ WF_vars(Network) /\ WF_vars(Tick)

Spec == Init /\ [][Next]_vars /\ Fairness

-----------------------------------------------------------------------------
(* Properties.                                                             *)

(* Every variable keeps its type; no more exchanges come to nothing than   *)
(* there were queries, as no query is answered twice.                      *)
TypeOK ==
  /\ routes \in SUBSET Routes
  /\ IsABag(net)
  /\ \A e \in BagToSet(net) : e.to \in {"client", "responder"}
                              /\ e.left \in 0..MaxDelay
  /\ lost \in 0..offered

(* A query sent at the last moment is still answered within the window:    *)
(* two ways on the network, the jitter of every copy that may be ahead of  *)
(* it, and turns of the client's loop, those that each send may have been  *)
(* late and those that a full buffer takes, fit in the spread of the       *)
(* resends.                                                                *)
Window ==
  2 * MaxDelay + (1 + Broadcasts + MaxCopies + MaxNoise) * R!ServiceBound
    + (C!Sends - 1 + QueueCap) * C!TurnBound < C!Gap

(* What the filter asks for, said without the code's matcher: what is no   *)
(* dict, and a glob that cannot be compiled, asks for nobody.              *)
Matches(fields) ==
  \/ Filter = Absent
  \/ /\ Filter \notin {NotObject, Hollow}
     /\ \A k \in DOMAIN Filter : Filter[k] # BadGlob /\ fields[k] \in Filter[k]

(* If the responder matches and is up when the call returns, and any one   *)
(* of the exchanges its present life may have had, by whatever route and   *)
(* try, came through, then it is in the result, under its present id.      *)
Complete ==
  /\ cpc = "returned" /\ rpc \in R!Looping /\ ~stopEvent
  /\ lost < offered /\ Matches(Self.fields)
  => Names[life] \in DOMAIN found

(* Who does not match is not in the result, even where another responder   *)
(* answers whatever it is asked.                                           *)
Sound == \A i \in DOMAIN found : Matches(found[i].fields)

(* No ghosts: an id in the result is of a life the responder had while the *)
(* call went on, or of another responder that answered it or announced     *)
(* itself; what an earlier life answered to an earlier call is not taken   *)
(* for an answer to this one.                                              *)
NoGhosts ==
  \A i \in DOMAIN found :
    \/ \E l \in first..life : i = Names[l]
    \/ \E m \in Noise : m.id = i /\ m.qid \in {Absent, Qid}

(* The scan is one of those of the module Scan.                            *)
Abstract == INSTANCE Scan WITH
  Matching <- {i \in {Names[l] : l \in DOMAIN Names} : Matches(Self.fields)} \cup
              {m.id : m \in {w \in Noise : w.id # Absent
                                            /\ Matches(w.fields)}},
  phase    <- IF cpc = "idle" THEN "idle"
              ELSE IF cpc = "returned" THEN "done"
              ELSE IF cpc = "failed" THEN "failed" ELSE "asking",
  result   <- DOMAIN found

IsAScan == Abstract!Spec
=============================================================================
