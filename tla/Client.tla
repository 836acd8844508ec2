------------------------------- MODULE Client -------------------------------
(***************************************************************************)
(* mu2edaq_discovery.discover(): one call of the client, from the socket   *)
(* it opens to the list it returns.  Whatever comes from the network comes *)
(* by Arrive; the module Discovery puts a responder there.                 *)
(*                                                                         *)
(* Time is as in the module Responder: left is what the present step may   *)
(* still take, at most Lag for a computing step or a wake-up, and Tick     *)
(* passes one unit.  elapsed is the time since the deadline was set, so    *)
(* that time.monotonic() >= deadline reads elapsed >= Timeout.             *)
(***************************************************************************)
EXTENDS Protocol, Sequences

CONSTANTS
  Wire,         \* datagrams that may reach the client's port
  Asker,        \* the client's address
  Qid,          \* the identifier this call draws
  Filter,       \* the filter argument, Absent for None
  QuerySize,    \* length of the query without its qid
  Timeout,      \* the timeout argument
  Retries,      \* the retries argument
  Broadcasts,   \* number of broadcast addresses
  Lag,          \* longest computing step or wake-up
  QueueCap,     \* datagrams the socket buffers
  MaxArrivals   \* bound: datagrams that arrive during the call

(* max(1, retries), and the spread of the resends over the window.  The    *)
(* unit of time is one that divides the window evenly.                     *)
Sends == IF Retries < 1 THEN 1 ELSE Retries
Gap   == Timeout \div Sends

ASSUME ClientAssumption ==
  /\ Wire \subseteq Datagrams
  /\ Asker \in Hosts /\ Qid \in Qids
  /\ Filter \in {Absent, NotObject, Hollow} \cup Filters
  /\ QuerySize \in Nat /\ Timeout \in Nat /\ Retries \in Nat
  /\ Gap * Sends = Timeout
  /\ Broadcasts \in Nat /\ Lag \in Nat
  /\ QueueCap \in Nat \ {0} /\ MaxArrivals \in Nat

VARIABLES
  pc,         \* where the call is
  left,       \* time its present step may still take
  elapsed,    \* time since the deadline was set
  now,        \* the local variable now
  sendsLeft,  \* sends_left
  resendAt,   \* resend_at
  inbox,      \* the socket's receive buffer
  cur,        \* the datagram in hand, as a sequence of at most one
  found,      \* the dict found, by instance id
  sockOpen,   \* the socket is open
  raised,     \* the exception that leaves the call, if one does
  wire,       \* the datagrams of the last send_all, in order
  arrivals,   \* datagrams that arrived so far
  inTime      \* history: the ids of answers that arrived in good time

vars == <<pc, left, elapsed, now, sendsLeft, resendAt, inbox, cur, found,
          sockOpen, raised, wire, arrivals, inTime>>

Running == {"top", "send", "arm", "recv", "handle"}
Ended   == {"returned", "failed"}

Earlier(a, b) == IF a < b THEN a ELSE b

Query == BuildQuery(Asker, Qid, Filter, QuerySize)

Init ==
  /\ pc = "idle" /\ left = 0 /\ elapsed = 0 /\ now = 0
  /\ sendsLeft = Sends /\ resendAt = 0
  /\ inbox = <<>> /\ cur = <<>>
  /\ found = [i \in {} |-> Absent]
  /\ sockOpen = FALSE /\ raised = "none"
  /\ wire = <<>> /\ arrivals = 0 /\ inTime = {}

Goto(label) == pc' = label /\ left' = Lag

-----------------------------------------------------------------------------
(* The call, one action per step.                                          *)

(* A filter that is false is not sent and not validated; any other must be *)
(* well formed, and the query must fit.                                    *)
Sendable ==
  /\ Filter \in {Absent, EmptyFilter, Hollow} \/ WellFormed(Filter)
  /\ Encodes(Query)

(* The socket is opened, given its options and bound, then the query is    *)
(* built.  The broadcast setting, the system or the query may raise an     *)
(* exception, which leaves before the try that closes the socket: with no  *)
(* socket yet, or with one that is left to the garbage collector.          *)
Open ==
  /\ pc = "idle"
  /\ \/ Sendable /\ Goto("top") /\ sockOpen' = TRUE /\ UNCHANGED raised
     \/ /\ pc' = "failed" /\ left' = 0
        /\ raised' = "setup"
        /\ sockOpen' \in BOOLEAN
  /\ UNCHANGED <<elapsed, now, sendsLeft, resendAt, inbox, cur, found, wire,
                 arrivals, inTime>>

(* Faulty variants of LookAtClock: every turn restarts the window, and the *)
(* loop ends with the last send.                                           *)
WindowRestarts ==
  /\ pc = "top"
  /\ elapsed' = 0 /\ now' = 0
  /\ Goto(IF sendsLeft > 0 /\ resendAt = 0 THEN "send" ELSE "arm")
  /\ UNCHANGED <<sendsLeft, resendAt, inbox, cur, found, sockOpen, raised,
                 wire, arrivals, inTime>>

LeavesAfterLastSend ==
  /\ pc = "top"
  /\ now' = elapsed
  /\ Goto(IF elapsed >= Timeout \/ sendsLeft = 0 THEN "closing"
          ELSE IF elapsed >= resendAt THEN "send" ELSE "arm")
  /\ UNCHANGED <<elapsed, sendsLeft, resendAt, inbox, cur, found, sockOpen,
                 raised, wire, arrivals, inTime>>

(* now = time.monotonic(): break at the deadline, send if it is time to.   *)
LookAtClock ==
  /\ pc = "top"
  /\ now' = elapsed
  /\ Goto(IF elapsed >= Timeout THEN "closing"
          ELSE IF sendsLeft > 0 /\ elapsed >= resendAt THEN "send" ELSE "arm")
  /\ UNCHANGED <<elapsed, sendsLeft, resendAt, inbox, cur, found, sockOpen,
                 raised, wire, arrivals, inTime>>

(* Faulty variants of SendAll: the next send is left where it was, and it  *)
(* is put a whole window away.                                             *)
SendNotRescheduled ==
  /\ pc = "send"
  /\ wire' = <<[query |-> Query, route |-> "multicast"]>>
  /\ sendsLeft' = sendsLeft - 1
  /\ Goto("arm")
  /\ UNCHANGED <<elapsed, now, resendAt, inbox, cur, found, sockOpen, raised,
                 arrivals, inTime>>

SendOnceAWindow ==
  /\ pc = "send"
  /\ wire' = <<[query |-> Query, route |-> "multicast"]>>
  /\ sendsLeft' = sendsLeft - 1
  /\ resendAt' = now + Timeout
  /\ Goto("arm")
  /\ UNCHANGED <<elapsed, now, inbox, cur, found, sockOpen, raised, arrivals,
                 inTime>>

(* send_all: the multicast, then each broadcast address, of which any may  *)
(* be refused by the system without a word.                                *)
SendAll ==
  /\ pc = "send"
  /\ \E accepted \in 0..Broadcasts :
       wire' = [i \in 1..1 + accepted |->
                  [query |-> Query,
                   route |-> IF i = 1 THEN "multicast" ELSE "broadcast"]]
  /\ sendsLeft' = sendsLeft - 1
  /\ resendAt' = now + Gap
  /\ Goto("arm")
  /\ UNCHANGED <<elapsed, now, inbox, cur, found, sockOpen, raised, arrivals,
                 inTime>>

(* Faulty variant of SendFails: no finally around the loop.                *)
SendFailureLeaks ==
  /\ pc = "send"
  /\ raised' = "send"
  /\ pc' = "failed" /\ left' = 0
  /\ UNCHANGED <<elapsed, now, sendsLeft, resendAt, inbox, cur, found,
                 sockOpen, wire, arrivals, inTime>>

(* An OSError from the multicast leaves through the finally.               *)
SendFails ==
  /\ pc = "send"
  /\ raised' = "send"
  /\ Goto("closing")
  /\ UNCHANGED <<elapsed, now, sendsLeft, resendAt, inbox, cur, found,
                 sockOpen, wire, arrivals, inTime>>

(* Faulty variant of Wait: the timeout argument itself.                    *)
WaitFromNow == Timeout

(* settimeout() counts from the clock as it was read at the loop's top,    *)
(* then recvfrom() starts.  A timeout of zero would make the socket        *)
(* non-blocking, and one below zero is a ValueError.                       *)
Wait == (IF sendsLeft > 0 THEN Earlier(Timeout, resendAt) ELSE Timeout) - now

Arm ==
  /\ pc = "arm"
  /\ wire' = <<>>
  /\ IF Wait > 0
     THEN /\ pc' = "recv"
          /\ left' = IF inbox = <<>> THEN Wait + Lag ELSE Lag
          /\ UNCHANGED raised
     ELSE Goto("closing") /\ raised' = "wait"
  /\ UNCHANGED <<elapsed, now, sendsLeft, resendAt, inbox, cur, found,
                 sockOpen, arrivals, inTime>>

RecvDatagram ==
  /\ pc = "recv"
  /\ inbox # <<>>
  /\ cur' = <<Head(inbox)>>
  /\ inbox' = Tail(inbox)
  /\ Goto("handle")
  /\ UNCHANGED <<elapsed, now, sendsLeft, resendAt, found, sockOpen, raised,
                 wire, arrivals, inTime>>

(* socket.timeout: continue.                                               *)
RecvTimesOut ==
  /\ pc = "recv"
  /\ inbox = <<>>
  /\ left <= Lag
  /\ Goto("top")
  /\ UNCHANGED <<elapsed, now, sendsLeft, resendAt, inbox, cur, found,
                 sockOpen, raised, wire, arrivals, inTime>>

(* The datagram in hand goes into found under key, beside what is known.   *)
Kept(key, known) ==
  /\ found' = [i \in known \cup {key} |-> IF i = key THEN cur[1] ELSE found[i]]
  /\ cur' = <<>>
  /\ Goto("top")
  /\ UNCHANGED <<elapsed, now, sendsLeft, resendAt, inbox, sockOpen, raised,
                 wire, arrivals, inTime>>

(* Faulty variants of Keep: under the sender's address, the latest answer  *)
(* alone, and whatever its qid or its fields.                              *)
KeepByAddress ==
  pc = "handle" /\ Keeps(cur[1], Qid, Filter) /\ Kept(cur[1].from, DOMAIN found)

KeepLatest == pc = "handle" /\ Keeps(cur[1], Qid, Filter) /\ Kept(cur[1].id, {})

KeepAnyQid ==
  /\ pc = "handle"
  /\ Keeps([cur[1] EXCEPT !.qid = Qid], Qid, Filter)
  /\ Kept(cur[1].id, DOMAIN found)

KeepUnfiltered ==
  pc = "handle" /\ Keeps(cur[1], Qid, Absent) /\ Kept(cur[1].id, DOMAIN found)

(* An answer to this query, or an unsolicited announce, that passes the    *)
(* filter replaces what was known of its instance.                         *)
Keep ==
  /\ pc = "handle"
  /\ Keeps(cur[1], Qid, Filter)
  /\ Kept(cur[1].id, DOMAIN found)

(* ProtocolError, no answer to this query, or no match: continue.          *)
Ignore ==
  /\ pc = "handle"
  /\ Ignores(cur[1], Qid, Filter)
  /\ cur' = <<>>
  /\ Goto("top")
  /\ UNCHANGED <<elapsed, now, sendsLeft, resendAt, inbox, found, sockOpen,
                 raised, wire, arrivals, inTime>>

(* RecursionError out of decode(), or re.error out of matches_filter():    *)
(* through the finally and out of the call.                                *)
HandleRaises ==
  /\ pc = "handle"
  /\ BreaksCall(cur[1], Qid, Filter)
  /\ raised' = IF DecodeBreaks(cur[1]) THEN "decode" ELSE "match"
  /\ cur' = <<>>
  /\ Goto("closing")
  /\ UNCHANGED <<elapsed, now, sendsLeft, resendAt, inbox, found, sockOpen,
                 wire, arrivals, inTime>>

(* finally: sock.close(), and the return or the exception.                 *)
Close ==
  /\ pc = "closing"
  /\ pc' = IF raised = "none" THEN "returned" ELSE "failed"
  /\ left' = 0
  /\ sockOpen' = FALSE
  /\ inbox' = <<>>
  /\ UNCHANGED <<elapsed, now, sendsLeft, resendAt, cur, found, raised, wire,
                 arrivals, inTime>>

Call == Open \/ LookAtClock \/ SendAll \/ SendFails \/ Arm \/ RecvDatagram
          \/ RecvTimesOut \/ Keep \/ Ignore \/ HandleRaises \/ Close

-----------------------------------------------------------------------------
(* The network and the clock.                                              *)

(* One turn of the loop: look, send, arm, receive and handle.              *)
TurnBound == 5 * Lag

(* m reaches the socket.  It came in good time if the loop, after taking   *)
(* all that may be ahead of it, still looks at the clock in time.          *)
Deliver(m) ==
  IF Len(inbox) < QueueCap
  THEN /\ inbox' = Append(inbox, m)
       /\ left' = IF pc = "recv" THEN Earlier(left, Lag) ELSE left
       /\ inTime' = IF /\ Keeps(m, Qid, Filter)
                       /\ elapsed + QueueCap * TurnBound - 3 * Lag < Timeout
                    THEN inTime \cup {m.id} ELSE inTime
  ELSE UNCHANGED <<inbox, left, inTime>>

Arrive ==
  /\ sockOpen /\ pc \notin Ended
  /\ arrivals < MaxArrivals
  /\ arrivals' = arrivals + 1
  /\ \E m \in Wire : Deliver(m)
  /\ UNCHANGED <<pc, elapsed, now, sendsLeft, resendAt, cur, found, sockOpen,
                 raised, wire>>

Tick ==
  /\ pc \in Running \cup {"closing"}
  /\ left > 0
  /\ left' = left - 1
  /\ elapsed' = elapsed + 1
  /\ UNCHANGED <<pc, now, sendsLeft, resendAt, inbox, cur, found, sockOpen,
                 raised, wire, arrivals, inTime>>

Next == Call \/ Arrive \/ Tick

Spec == Init /\ [][Next]_vars /\ WF_vars(Call) /\ WF_vars(Tick)

-----------------------------------------------------------------------------
(* Properties.                                                             *)

(* Every variable keeps its type.                                          *)
TypeOK ==
  /\ pc \in {"idle", "closing"} \cup Running \cup Ended
  /\ left \in Nat /\ elapsed \in Nat /\ now \in Nat
  /\ sendsLeft \in 0..Sends /\ resendAt \in Nat
  /\ inbox \in Seq(Wire) /\ Len(inbox) <= QueueCap
  /\ cur \in Seq(Wire) /\ (cur # <<>> <=> pc = "handle")
  /\ DOMAIN found \subseteq Ids
  /\ \A i \in DOMAIN found : found[i] \in Wire
  /\ sockOpen \in BOOLEAN
  /\ raised \in {"none", "setup", "send", "wait", "decode", "match"}
  /\ Len(wire) <= 1 + Broadcasts
  /\ arrivals \in Nat /\ inTime \subseteq Ids

(* The call neither returns before the window is over nor outlasts it by   *)
(* more than a turn of its loop, however much arrives and whatever it is.  *)
OnTime ==
  /\ pc \in Running => elapsed <= Timeout + TurnBound
  /\ pc = "returned" => elapsed >= Timeout

(* recvfrom() is never entered without a positive timeout, which would     *)
(* leave the call with BlockingIOError or ValueError: the clock read at    *)
(* the loop's top is behind both the deadline and the next resend.         *)
NeverWithoutWait == raised # "wait"

(* The queries go out Gap apart, late by at most a turn each.              *)
Prompt == Lag + (Sends - 1) * TurnBound < Gap

(* On a machine as prompt as that, all the sends are made before the call  *)
(* returns, spread over the window as they are.                            *)
AllSendsMade == pc = "returned" => sendsLeft = 0

(* An answer that arrived in good time is in the result: junk, duplicates  *)
(* and resends in between do not crowd it out.                             *)
InTimeAnswersCount == pc = "returned" => inTime \subseteq DOMAIN found

(* Once the loop is entered, the socket is closed when the call ends, by   *)
(* return or by any exception: the clock's, the sender's, the parser's.    *)
SocketReleased == pc \in Ended /\ raised # "setup" => ~sockOpen

(* The call comes back.                                                    *)
CallEnds == pc = "top" ~> pc \in Ended
=============================================================================
