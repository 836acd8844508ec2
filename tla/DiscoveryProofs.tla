-------------------------- MODULE DiscoveryProofs ---------------------------
(***************************************************************************)
(* Proofs about a scan over the network, for every value of the constants: *)
(* any number of lives, any noise, any delay, loss and duplication.        *)
(***************************************************************************)
EXTENDS Discovery, FiniteSetTheorems, TLAPS

(* Only the client puts anything into the result, and only what passes the *)
(* filter.                                                                 *)
LEMMA FoundGrows ==
  ASSUME [Next]_vars
  PROVE  \/ found' = found
         \/ /\ C!Keeps(ccur[1], Qid, Filter)
            /\ DOMAIN found' = DOMAIN found \cup {ccur[1].id}
            /\ \A i \in DOMAIN found' :
                 found'[i] = IF i = ccur[1].id THEN ccur[1] ELSE found[i]
<1>1. CASE ClientStep
  <2>1. CASE C!Keep
    BY <2>1 DEF C!Keep, C!Kept
  <2>2. CASE ~C!Keep
    BY <1>1, <2>2 DEF ClientStep, C!Call, C!Open, C!LookAtClock, C!SendAll,
         C!SendFails, C!Arm, C!RecvDatagram, C!RecvTimesOut, C!Ignore,
         C!HandleRaises, C!Close
  <2> QED
    BY <2>1, <2>2
<1>2. CASE ~ClientStep
  BY <1>2 DEF Next, vars, cvars, nvars, ResponderStep, Application, Restart,
       Stopping, Network, ReachResponder, ReachClient, Lose, Duplicate,
       DisturbResponder, DisturbClient, Tick, C!Tick
<1> QED
  BY <1>1, <1>2

(* Who does not match the filter is in no result, whatever the network     *)
(* delivers (client.py, discover: matches_filter on each announce).        *)
THEOREM ScanIsSound == Spec => []Sound
<1>1. Init => Sound
  BY DEF Init, C!Init, Sound
<1>2. ASSUME Sound, [Next]_vars
      PROVE  Sound'
  <2>1. CASE found' = found
    BY <1>2, <2>1 DEF Sound, Matches
  <2>2. CASE found' # found
    <3>1. /\ C!Keeps(ccur[1], Qid, Filter)
          /\ DOMAIN found' = DOMAIN found \cup {ccur[1].id}
          /\ \A i \in DOMAIN found' :
               found'[i] = IF i = ccur[1].id THEN ccur[1] ELSE found[i]
      BY <1>2, <2>2, FoundGrows
    <3>2. Matches(ccur[1].fields)
      BY <3>1 DEF C!Keeps, C!MatchesFilter, Matches
    <3> QED
      BY <1>2, <3>1, <3>2 DEF Sound, Matches
  <2> QED
    BY <2>1, <2>2
<1> QED
  BY <1>1, <1>2, PTL DEF Spec

-----------------------------------------------------------------------------
(* Bags.                                                                   *)

LEMMA BagAdd ==
  ASSUME NEW b, NEW e, NEW n
  PROVE  BagToSet(b (+) Times(n, e)) \subseteq BagToSet(b) \cup {e}
BY DEF BagToSet, (+), Times, EmptyBag, SetToBag

LEMMA BagTake ==
  ASSUME NEW b, NEW e, NEW n
  PROVE  BagToSet(b (-) Times(n, e)) \subseteq BagToSet(b)
BY DEF BagToSet, (-)

-----------------------------------------------------------------------------
(* What is under way, and where it comes from.                             *)

(* What may be sent to the responder, and to the client.                   *)
Asked == Noise \cup {R!Poke, C!Query}
Reply(l, qid) == [R!Announce(qid) EXCEPT !.id = Names[l]]
Said  == Noise \cup {Reply(l, qid) : l \in DOMAIN Names, qid \in Qids}

Entries == [n : Nat, msg : Asked, age : {0}]
Tokens  == [to : {"responder"}, msg : Asked, left : Int]
             \cup [to : {"client"}, msg : Said, left : Int]

Typed ==
  /\ life \in 1..Len(Names) /\ first \in 1..life
  /\ arrivals \in Nat
  /\ queue \in Seq(Entries) /\ rcur \in Seq(Entries)
  /\ rpc \in {"check", "handle", "jitter", "reply"} => rcur # <<>>
  /\ inbox \in Seq(Said) /\ ccur \in Seq(Said)
  /\ cpc = "handle" => ccur # <<>>
  /\ BagToSet(net) \subseteq Tokens

(* A query under this call's identifier is under way only once the call    *)
(* has begun.                                                              *)
Question(m) == m.type = "DISCOVER" /\ m.qid = Qid => cpc # "idle"

(* An answer is somebody else's, or of one of the lives the responder had; *)
(* to this call only a life that it had during the call has answered.      *)
Answer(m) ==
  \/ m \in Noise
  \/ /\ m.fields = Self.fields /\ m.qid \in Qids
     /\ \E l \in 1..life : /\ m.id = Names[l]
                           /\ m.qid = Qid => cpc # "idle" /\ first <= l

(* The datagrams under way to the responder, and to the client.            *)
Pending == {queue[i].msg : i \in DOMAIN queue} \cup {rcur[i].msg : i \in DOMAIN rcur}
             \cup {e.msg : e \in Under("responder")}
Heard   == {inbox[i] : i \in DOMAIN inbox} \cup {ccur[i] : i \in DOMAIN ccur}
             \cup {e.msg : e \in Under("client")}

Origin ==
  /\ \A m \in Pending : Question(m)
  /\ \A m \in Heard : Answer(m)
  /\ rpc \in {"jitter", "reply"} => R!Answerable(rcur[1].msg, Self.fields)
  /\ cpc = "idle" => DOMAIN found = {}

Inv == Typed /\ Origin

(* Who is asked under this call's identifier is asked by this call.        *)
LEMMA AskedQuestions ==
  ASSUME NEW m \in Noise \cup {R!Poke}
  PROVE  Question(m)
BY DiscoveryAssumption DEF R!Poke, Question

(* What was a question or an answer stays one while the call goes on and   *)
(* the responder is run again.                                             *)
LEMMA Lasting ==
  ASSUME Typed, life' \in Nat, life' >= life, first' \in Nat,
         cpc # "idle" => cpc' # "idle" /\ first' = first,
         NEW m
  PROVE  /\ Question(m) => Question(m)'
         /\ Answer(m) => Answer(m)'
<1>1. Question(m) => Question(m)'
  BY DEF Question
<1>2. life \in Nat /\ first \in Nat /\ Len(Names) \in Nat
  BY DiscoveryAssumption DEF Typed
<1>3. ASSUME NEW l \in 1..life, m.id = Names[l], m.qid = Qid => cpc # "idle" /\ first <= l
      PROVE  l \in 1..life' /\ (m.qid = Qid => cpc' # "idle" /\ first' <= l)
  BY <1>2, <1>3
<1>4. Answer(m) => Answer(m)'
  BY <1>3 DEF Answer
<1> QED
  BY <1>1, <1>4

(* A sequence that grows at its end, or loses its head.                    *)
LEMMA AppendParts ==
  ASSUME NEW S, NEW s \in Seq(S), NEW x \in S
  PROVE  /\ Append(s, x) \in Seq(S)
         /\ \A i \in DOMAIN Append(s, x) :
              Append(s, x)[i] = x \/ \E j \in DOMAIN s : Append(s, x)[i] = s[j]
<1>1. Append(s, x) \in Seq(S) /\ DOMAIN Append(s, x) = 1..Len(s) + 1
      /\ DOMAIN s = 1..Len(s)
  OBVIOUS
<1>2. ASSUME NEW i \in 1..Len(s) + 1
      PROVE  Append(s, x)[i] = x \/ (i \in 1..Len(s) /\ Append(s, x)[i] = s[i])
  OBVIOUS
<1> QED
  BY <1>1, <1>2

LEMMA TailParts ==
  ASSUME NEW S, NEW s \in Seq(S), s # <<>>
  PROVE  /\ Tail(s) \in Seq(S) /\ Head(s) \in S /\ 1 \in DOMAIN s /\ Head(s) = s[1]
         /\ \A i \in DOMAIN Tail(s) : \E j \in DOMAIN s : Tail(s)[i] = s[j]
<1>1. Tail(s) \in Seq(S) /\ DOMAIN Tail(s) = 1..Len(s) - 1
      /\ DOMAIN s = 1..Len(s) /\ Len(s) \in Nat /\ Len(s) >= 1
  OBVIOUS
<1>2. ASSUME NEW i \in 1..Len(s) - 1
      PROVE  i + 1 \in 1..Len(s) /\ Tail(s)[i] = s[i + 1]
  BY <1>1
<1>3. Head(s) = s[1] /\ Head(s) \in S
  BY <1>1
<1> QED
  BY <1>1, <1>2, <1>3

(* The origin of what is under way carries over a step that adds only      *)
(* questions and answers to it.                                            *)
LEMMA Carry ==
  ASSUME Typed, Origin, life' \in Nat, life' >= life, first' \in Nat,
         cpc # "idle" => cpc' # "idle" /\ first' = first,
         \A m \in Pending' : m \in Pending \/ Question(m)',
         \A m \in Heard' : m \in Heard \/ Answer(m)'
  PROVE  (\A m \in Pending : Question(m))' /\ (\A m \in Heard : Answer(m))'
BY Lasting DEF Origin

-----------------------------------------------------------------------------
(* The responder's side.                                                   *)

(* What one step of its thread does with the datagrams it has.             *)
LEMMA ThreadMoves ==
  ASSUME Typed, Origin, R!Thread
  PROVE  /\ \/ queue' = queue /\ rcur' \in {rcur, <<>>}
            \/ queue # <<>> /\ queue' = Tail(queue) /\ rcur' = <<Head(queue)>>
            \/ queue' = <<>> /\ rcur' = rcur
         /\ rpc' \in {"check", "handle", "jitter", "reply"} => rcur' # <<>>
         /\ rpc' \in {"jitter", "reply"} =>
              R!Answerable(rcur'[1].msg, Self.fields)
         /\ arrivals' = arrivals
<1> USE DEF R!Goto, R!Drop, R!EnterRecv, R!Late, Typed, Origin
<1>1. CASE R!RecvDatagram
  BY <1>1 DEF R!RecvDatagram
<1>2. CASE R!PeriodicAnnounce \/ R!AnnounceTooLong
  BY <1>2 DEF R!PeriodicAnnounce, R!AnnounceTooLong, R!AnnounceDue
<1>3. CASE R!OpenSocket \/ R!LoopTop \/ R!SkipAnnounce \/ R!RecvTimesOut
             \/ R!Discard \/ R!HandleRaises \/ R!Reply \/ R!ReplyTooLong
             \/ R!CloseSockets
  BY <1>3 DEF R!OpenSocket, R!LoopTop, R!SkipAnnounce, R!RecvTimesOut,
       R!Discard, R!HandleRaises, R!Reply, R!ReplyTooLong, R!CloseSockets
<1>4. CASE R!CheckStop \/ R!StartJitter \/ R!JitterEnds
  BY <1>4 DEF R!CheckStop, R!StartJitter, R!JitterEnds
<1> QED
  BY <1>1, <1>2, <1>3, <1>4 DEF R!Thread

(* Whoever is answered asked a question, under an identifier.              *)
LEMMA AnswerableAsks ==
  ASSUME NEW m, NEW fields, R!Answerable(m, fields)
  PROVE  m.type = "DISCOVER" /\ m.qid \in Qids
BY DEF R!Answerable, R!IsQuery, R!Decodes, R!ValidDiscover

(* The parts of the reply a life sends.                                    *)
LEMMA ReplyParts ==
  ASSUME NEW l \in DOMAIN Names, NEW qid \in Qids
  PROVE  /\ Reply(l, qid) \in Said
         /\ Reply(l, qid).id = Names[l] /\ Reply(l, qid).qid = qid
         /\ Reply(l, qid).fields = Self.fields
<1>1. Reply(l, qid) \in Said
  BY DEF Said
<1> DEFINE a == R!Announce(qid)
<1>2. a.qid = qid /\ a.fields = Self.fields
  BY DEF R!Announce, R!BuildAnnounce
<1>3. DOMAIN a = {"from", "size", "body", "proto", "type", "qid", "filter",
                  "id", "fields", "typed", "cpp"}
  BY DEF R!Announce, R!BuildAnnounce
<1>4. LET b == [a EXCEPT !.id = Names[l]]
      IN  b.id = Names[l] /\ b.qid = a.qid /\ b.fields = a.fields
  BY <1>3
<1> QED
  BY <1>1, <1>2, <1>4 DEF Reply

(* What the thread has is what was pending.                                *)
LEMMA ThreadKeeps ==
  ASSUME Typed, Origin, R!Thread
  PROVE  /\ queue' \in Seq(Entries) /\ rcur' \in Seq(Entries)
         /\ \A i \in DOMAIN queue' : queue'[i].msg \in Pending
         /\ \A i \in DOMAIN rcur' : rcur'[i].msg \in Pending
<1>0. queue \in Seq(Entries) /\ rcur \in Seq(Entries)
  BY DEF Typed
<1>1. CASE queue' = queue /\ rcur' \in {rcur, <<>>}
  <2>1. queue' \in Seq(Entries) /\ \A i \in DOMAIN queue' : queue'[i].msg \in Pending
    BY <1>0, <1>1 DEF Pending
  <2>2. CASE rcur' = rcur
    BY <1>0, <2>1, <2>2 DEF Pending
  <2>3. CASE rcur' = <<>>
    BY <2>1, <2>3
  <2> QED
    BY <1>1, <2>2, <2>3
<1>2. CASE queue # <<>> /\ queue' = Tail(queue) /\ rcur' = <<Head(queue)>>
  <2>1. /\ Tail(queue) \in Seq(Entries) /\ Head(queue) \in Entries
        /\ 1 \in DOMAIN queue /\ Head(queue) = queue[1]
        /\ \A i \in DOMAIN Tail(queue) : \E j \in DOMAIN queue : Tail(queue)[i] = queue[j]
    BY <1>0, <1>2, TailParts
  <2>2. rcur' \in Seq(Entries) /\ \A i \in DOMAIN rcur' : rcur'[i] = queue[1]
    BY <1>2, <2>1
  <2> QED
    BY <1>2, <2>1, <2>2 DEF Pending
<1>3. CASE queue' = <<>> /\ rcur' = rcur
  BY <1>0, <1>3 DEF Pending
<1> QED
  BY <1>1, <1>2, <1>3, ThreadMoves

(* The responder answers questions, and puts nothing else on the network.  *)
LEMMA ResponderKeeps ==
  ASSUME Typed, Origin, ResponderStep
  PROVE  Typed' /\ Origin'
<1>1. R!Thread /\ UNCHANGED <<cvars, life, first>>
  BY DEF ResponderStep
<1>2. UNCHANGED <<cpc, inbox, ccur, found, life, first>>
  BY <1>1 DEF cvars
<1>3. life \in DOMAIN Names /\ life \in 1..life /\ first <= life /\ life \in Nat
      /\ first \in Nat
  BY DiscoveryAssumption DEF Typed
<1> DEFINE new == Says(rcur[1].msg.qid)
           sends == rpc = "reply" /\ net' = net (+) Times(1, Token("client", new))
<1>4. sends \/ net' = net
  BY DEF ResponderStep
<1>5. ASSUME sends PROVE new \in Said /\ Answer(new)
  <2>1. rcur # <<>> /\ rcur \in Seq(Entries) /\ 1 \in DOMAIN rcur
    BY <1>5 DEF Typed
  <2>2. rcur[1].msg.type = "DISCOVER" /\ rcur[1].msg.qid \in Qids
    BY <1>5, AnswerableAsks DEF Origin
  <2>3. rcur[1].msg \in Pending
    BY <2>1 DEF Pending
  <2>4. rcur[1].msg.qid = Qid => cpc # "idle"
    BY <2>2, <2>3 DEF Origin, Question
  <2>5. new = Reply(life, rcur[1].msg.qid)
    BY DEF Says, Reply
  <2> QED
    BY <1>3, <2>2, <2>4, <2>5, ReplyParts DEF Answer
<1>6. ASSUME NEW e \in BagToSet(net')
      PROVE  e \in BagToSet(net) \/ (sends /\ e = Token("client", new))
  BY <1>4, <1>6, BagAdd
<1>7. ASSUME sends
      PROVE  /\ Token("client", new) \in Tokens
             /\ Token("client", new).to = "client" /\ Token("client", new).msg = new
  BY <1>5, <1>7, ComponentAssumption DEF Token, Tokens
<1>8. Typed'
  BY <1>2, <1>6, <1>7, ThreadKeeps, ThreadMoves, <1>1 DEF Typed
<1>9. \A m \in Pending' : m \in Pending \/ Question(m)'
  BY <1>1, <1>6, <1>7, ThreadKeeps DEF Pending, Under
<1>10. ASSUME NEW m \in Heard' PROVE m \in Heard \/ (sends /\ m = new)
  BY <1>2, <1>6, <1>7 DEF Heard, Under
<1>11. \A m : Answer(m) => Answer(m)'
  BY <1>2 DEF Answer
<1>12. (\A m \in Pending : Question(m))' /\ (\A m \in Heard : Answer(m))'
  BY <1>2, <1>3, <1>5, <1>9, <1>10, <1>11, Carry
<1> QED
  BY <1>1, <1>2, <1>8, <1>12, ThreadMoves DEF Origin

(* A datagram that reaches the responder's port.                           *)
LEMMA EnqueueKeeps ==
  ASSUME Typed, NEW n \in Nat, NEW m \in Asked, R!Enqueue(n, m)
  PROVE  /\ queue' \in Seq(Entries)
         /\ \A i \in DOMAIN queue' :
              queue'[i].msg = m \/ \E j \in DOMAIN queue : queue'[i] = queue[j]
<1>1. R!Fresh(n, m) \in Entries /\ R!Fresh(n, m).msg = m
  BY DEF R!Fresh, Entries
<1>2. queue' = Append(queue, R!Fresh(n, m)) \/ queue' = queue
  BY DEF R!Enqueue
<1>3. queue \in Seq(Entries)
  BY DEF Typed
<1>4. CASE queue' = queue
  BY <1>3, <1>4
<1>5. CASE queue' = Append(queue, R!Fresh(n, m))
  BY <1>1, <1>3, <1>5, AppendParts
<1> QED
  BY <1>2, <1>4, <1>5

(* A datagram that reaches the client's port.                              *)
LEMMA DeliverKeeps ==
  ASSUME Typed, NEW m \in Said, C!Deliver(m)
  PROVE  /\ inbox' \in Seq(Said)
         /\ \A i \in DOMAIN inbox' :
              inbox'[i] = m \/ \E j \in DOMAIN inbox : inbox'[i] = inbox[j]
<1>1. inbox' = Append(inbox, m) \/ inbox' = inbox
  BY DEF C!Deliver
<1>2. inbox \in Seq(Said)
  BY DEF Typed
<1>3. CASE inbox' = inbox
  BY <1>2, <1>3
<1>4. CASE inbox' = Append(inbox, m)
  BY <1>2, <1>4, AppendParts
<1> QED
  BY <1>1, <1>3, <1>4

(* What everyone but the client, the responder and a restart leaves alone. *)
Quiet ==
  UNCHANGED <<cpc, ccur, found, life, first, rcur>> /\ rpc' \in {rpc, "opening"}

LEMMA QuietKeeps ==
  ASSUME Typed, Origin, Quiet,
         arrivals' \in Nat, queue' \in Seq(Entries), inbox' \in Seq(Said),
         BagToSet(net') \subseteq Tokens,
         \A i \in DOMAIN queue' : queue'[i].msg \in Pending \/ Question(queue'[i].msg),
         \A i \in DOMAIN inbox' : inbox'[i] \in Heard \/ Answer(inbox'[i]),
         \A e \in BagToSet(net') : \E f \in BagToSet(net) : e.to = f.to /\ e.msg = f.msg
  PROVE  Typed' /\ Origin'
<1>1. life \in Nat /\ first \in Nat
  BY DiscoveryAssumption DEF Typed
<1>2. \A m : (Question(m) <=> Question(m)') /\ (Answer(m) <=> Answer(m)')
  BY DEF Quiet, Question, Answer
<1>3. \A m \in Pending' : m \in Pending \/ Question(m)'
  BY <1>2 DEF Pending, Under, Quiet
<1>4. \A m \in Heard' : m \in Heard \/ Answer(m)'
  BY <1>2 DEF Heard, Under, Quiet
<1>5. (\A m \in Pending : Question(m))' /\ (\A m \in Heard : Answer(m))'
  BY <1>2, <1>3, <1>4 DEF Origin
<1> QED
  BY <1>5 DEF Typed, Origin, Quiet

(* Everybody else's steps.                                                 *)
LEMMA OthersKeep ==
  ASSUME Typed, Origin,
         Application \/ Stopping \/ ReachResponder \/ ReachClient \/ Lose
           \/ Duplicate \/ DisturbResponder \/ DisturbClient
  PROVE  Typed' /\ Origin'
<1>0. /\ arrivals \in Nat /\ arrivals + 1 \in Nat /\ 0 \in Nat
      /\ queue \in Seq(Entries) /\ inbox \in Seq(Said) /\ BagToSet(net) \subseteq Tokens
  BY DEF Typed
<1>a. /\ \A i \in DOMAIN queue : queue[i].msg \in Pending
      /\ \A i \in DOMAIN inbox : inbox[i] \in Heard
  BY DEF Pending, Heard
<1>b. ASSUME NEW e, e \in Under("responder")
      PROVE  e.msg \in Asked /\ e.msg \in Pending
  BY <1>b, <1>0 DEF Under, Tokens, Pending
<1>c. ASSUME NEW e, e \in Under("client")
      PROVE  e.msg \in Said /\ e.msg \in Heard
  BY <1>c, <1>0 DEF Under, Tokens, Heard
<1>1. CASE Application
  <2>1. Quiet /\ UNCHANGED <<arrivals, queue, inbox, net>>
    BY <1>1 DEF Application, R!Start, R!StopSetsEvent, R!Goto, R!threadVars,
         cvars, nvars, Quiet
  <2> QED
    BY <2>1, <1>0, <1>a, QuietKeeps
<1>2. CASE Stopping
  <2>1. Quiet /\ UNCHANGED <<arrivals, inbox, net>>
    BY <1>2 DEF Stopping, R!Stopping, R!StopPokes, R!JoinReturns, R!threadVars,
         cvars, nvars, Quiet
  <2>2. queue' = queue \/ R!Enqueue(0, R!Poke)
    BY <1>2 DEF Stopping, R!Stopping, R!StopPokes, R!JoinReturns, R!threadVars
  <2>3. R!Poke \in Asked /\ Question(R!Poke)
    BY AskedQuestions DEF Asked
  <2>4. /\ queue' \in Seq(Entries)
        /\ \A i \in DOMAIN queue' :
             queue'[i].msg \in Pending \/ Question(queue'[i].msg)
    BY <1>0, <1>a, <2>2, <2>3, EnqueueKeeps
  <2> QED
    BY <2>1, <2>4, <1>0, <1>a, QuietKeeps
<1>3. CASE ReachResponder
  <2>1. PICK e \in Under("responder") :
          /\ net' = net (-) Times(1, e)
          /\ \/ R!Enqueue(arrivals + 1, e.msg) /\ arrivals' = arrivals + 1
             \/ UNCHANGED <<queue, arrivals>>
    BY <1>3 DEF ReachResponder
  <2>2. Quiet /\ inbox' = inbox
    BY <1>3 DEF ReachResponder, cvars, Quiet
  <2>3. /\ queue' \in Seq(Entries) /\ arrivals' \in Nat
        /\ \A i \in DOMAIN queue' : queue'[i].msg \in Pending
    BY <1>0, <1>a, <1>b, <2>1, EnqueueKeeps
  <2>4. BagToSet(net') \subseteq BagToSet(net)
    BY <2>1, BagTake
  <2> QED
    BY <2>2, <2>3, <2>4, <1>0, <1>a, QuietKeeps
<1>4. CASE ReachClient
  <2>1. PICK e \in Under("client") :
          /\ net' = net (-) Times(1, e)
          /\ C!Deliver(e.msg) \/ inbox' = inbox
    BY <1>4 DEF ReachClient
  <2>2. Quiet /\ UNCHANGED <<queue, arrivals>>
    BY <1>4 DEF ReachClient, rvars, Quiet
  <2>3. /\ inbox' \in Seq(Said)
        /\ \A i \in DOMAIN inbox' : inbox'[i] \in Heard
    BY <1>0, <1>a, <1>c, <2>1, DeliverKeeps
  <2>4. BagToSet(net') \subseteq BagToSet(net)
    BY <2>1, BagTake
  <2> QED
    BY <2>2, <2>3, <2>4, <1>0, <1>a, QuietKeeps
<1>5. CASE Lose \/ Duplicate
  <2>1. Quiet /\ UNCHANGED <<arrivals, queue, inbox>>
    BY <1>5 DEF Lose, Duplicate, cvars, rvars, Quiet
  <2>2. PICK e \in BagToSet(net) :
          net' = net (-) Times(1, e) \/ net' = net (+) Times(1, e)
    BY <1>5 DEF Lose, Duplicate
  <2>3. BagToSet(net') \subseteq BagToSet(net)
    BY <2>2, BagTake, BagAdd
  <2> QED
    BY <2>1, <2>3, <1>0, <1>a, QuietKeeps
<1>6. CASE DisturbResponder
  <2>1. PICK m \in Noise : R!Enqueue(arrivals + 1, m)
    BY <1>6 DEF DisturbResponder
  <2>2. Quiet /\ UNCHANGED <<inbox, net>> /\ arrivals' = arrivals + 1
    BY <1>6 DEF DisturbResponder, cvars, Quiet
  <2>3. m \in Asked /\ Question(m)
    BY AskedQuestions DEF Asked
  <2>4. /\ queue' \in Seq(Entries)
        /\ \A i \in DOMAIN queue' :
             queue'[i].msg \in Pending \/ Question(queue'[i].msg)
    BY <1>0, <1>a, <2>1, <2>3, EnqueueKeeps
  <2> QED
    BY <2>2, <2>4, <1>0, <1>a, QuietKeeps
<1>7. CASE DisturbClient
  <2>1. PICK m \in Noise : C!Deliver(m)
    BY <1>7 DEF DisturbClient
  <2>2. Quiet /\ UNCHANGED <<queue, arrivals, net>>
    BY <1>7 DEF DisturbClient, rvars, Quiet
  <2>3. m \in Said /\ Answer(m)
    BY DEF Said, Answer
  <2>4. /\ inbox' \in Seq(Said)
        /\ \A i \in DOMAIN inbox' : inbox'[i] \in Heard \/ Answer(inbox'[i])
    BY <1>0, <1>a, <2>1, <2>3, DeliverKeeps
  <2> QED
    BY <2>2, <2>4, <1>0, <1>a, QuietKeeps
<1> QED
  BY <1>1, <1>2, <1>3, <1>4, <1>5, <1>6, <1>7

(* A new life knows nothing, and has asked nothing yet.                    *)
LEMMA RestartKeeps ==
  ASSUME Typed, Origin, Restart
  PROVE  Typed' /\ Origin'
<1>1. /\ life' = life + 1 /\ life' \in 1..Len(Names) /\ first' = first
      /\ life \in Nat /\ first \in 1..life' /\ first \in Nat
  BY DiscoveryAssumption DEF Restart, Typed
<1>2. /\ queue' = <<>> /\ rcur' = <<>> /\ rpc' = "new" /\ arrivals' = 0
      /\ UNCHANGED <<cpc, inbox, ccur, found, net>>
  BY DEF Restart, cvars
<1>3. (\A m \in Pending : Question(m))' /\ (\A m \in Heard : Answer(m))'
  <2>1. Pending' \subseteq Pending /\ Heard' \subseteq Heard
    BY <1>2 DEF Pending, Heard, Under
  <2> QED
    BY <1>1, <1>2, <2>1, Carry
<1>4. Typed'
  BY <1>1, <1>2 DEF Typed
<1> QED
  BY <1>2, <1>3, <1>4 DEF Origin

(* Time changes no datagram but its age.                                   *)
LEMMA OlderEntries ==
  ASSUME NEW s \in Seq(Entries)
  PROVE  LET t == [i \in DOMAIN s |-> R!Older(s[i])]
         IN  /\ t \in Seq(Entries) /\ (s # <<>> => t # <<>>)
             /\ DOMAIN t = DOMAIN s
             /\ \A i \in DOMAIN s : t[i].msg = s[i].msg
<1> DEFINE t == [i \in DOMAIN s |-> R!Older(s[i])]
<1>1. ASSUME NEW i \in DOMAIN s
      PROVE  R!Older(s[i]) \in Entries /\ R!Older(s[i]).msg = s[i].msg
  <2>1. s[i] \in Entries
    OBVIOUS
  <2>2. R!Earlier(s[i].age + 1, 0) = 0
    BY <2>1 DEF R!Earlier, Entries
  <2> QED
    BY <2>1, <2>2 DEF R!Older, Entries
<1>2. t \in [1..Len(s) -> Entries] /\ Len(s) \in Nat
  BY <1>1
<1>3. t \in Seq(Entries) /\ Len(t) = Len(s) /\ (s # <<>> => t # <<>>)
  BY <1>2
<1> QED
  BY <1>1, <1>3

LEMMA TickKeeps ==
  ASSUME Typed, Origin, Tick
  PROVE  Typed' /\ Origin'
<1>1. /\ queue' = [i \in DOMAIN queue |-> R!Older(queue[i])]
      /\ rcur' = [i \in DOMAIN rcur |-> R!Older(rcur[i])]
      /\ UNCHANGED <<rpc, arrivals, life, first>>
      /\ net' = [e \in {Aged(f) : f \in BagToSet(net)} |-> net[Fresh(e)]]
  BY DEF Tick, R!Tick
<1>2. UNCHANGED <<cpc, inbox, ccur, found>>
  BY DEF Tick, C!Tick, cvars
<1>3. queue \in Seq(Entries) /\ rcur \in Seq(Entries) /\ BagToSet(net) \subseteq Tokens
      /\ life \in Nat /\ first \in Nat
  BY DiscoveryAssumption DEF Typed
<1>4. /\ queue' \in Seq(Entries) /\ DOMAIN queue' = DOMAIN queue
      /\ \A i \in DOMAIN queue : queue'[i].msg = queue[i].msg
  BY <1>1, <1>3, OlderEntries
<1>5. /\ rcur' \in Seq(Entries) /\ DOMAIN rcur' = DOMAIN rcur
      /\ \A i \in DOMAIN rcur : rcur'[i].msg = rcur[i].msg
      /\ rcur # <<>> => rcur' # <<>>
  BY <1>1, <1>3, OlderEntries
<1>6. ASSUME NEW e \in BagToSet(net')
      PROVE  e \in Tokens /\ \E f \in BagToSet(net) : e.to = f.to /\ e.msg = f.msg
  <2>1. PICK f \in BagToSet(net) : e = Aged(f)
    BY <1>1, <1>6 DEF BagToSet
  <2>2. f \in Tokens
    BY <1>3, <2>1
  <2>3. Aged(f) \in Tokens /\ Aged(f).to = f.to /\ Aged(f).msg = f.msg
    BY <2>2 DEF Aged, Tokens
  <2> QED
    BY <2>1, <2>3
<1>7. Typed'
  BY <1>1, <1>2, <1>4, <1>5, <1>6 DEF Typed
<1>8. Pending' \subseteq Pending /\ Heard' \subseteq Heard
  <2>1. ASSUME NEW i \in DOMAIN queue' PROVE queue'[i].msg \in Pending
    BY <1>4 DEF Pending
  <2>2. ASSUME NEW i \in DOMAIN rcur' PROVE rcur'[i].msg \in Pending
    BY <1>5 DEF Pending
  <2>3. ASSUME NEW e \in Under("responder")' PROVE e.msg \in Pending
    BY <1>6 DEF Pending, Under
  <2>4. ASSUME NEW e \in Under("client")' PROVE e.msg \in Heard
    BY <1>6 DEF Heard, Under
  <2>5. Pending' \subseteq Pending
    BY <2>1, <2>2, <2>3 DEF Pending
  <2>6. Heard' \subseteq Heard
    BY <1>2, <2>4 DEF Heard
  <2> QED
    BY <2>5, <2>6
<1>9. (\A m \in Pending : Question(m))' /\ (\A m \in Heard : Answer(m))'
  BY <1>1, <1>2, <1>3, <1>8, Carry
<1>10. rpc \in {"jitter", "reply"} => rcur'[1].msg = rcur[1].msg
  <2>1. rcur # <<>> => 1 \in DOMAIN rcur
    BY <1>3
  <2> QED
    BY <1>5, <2>1 DEF Typed
<1> QED
  BY <1>1, <1>2, <1>7, <1>9, <1>10 DEF Origin

-----------------------------------------------------------------------------
(* The client's side.                                                      *)

(* A step of the call keeps of its datagrams what it has, in order.        *)
LEMMA CallMoves ==
  ASSUME Typed, C!Call
  PROVE  /\ cpc' # "idle"
         /\ inbox' \in Seq(Said) /\ ccur' \in Seq(Said)
         /\ cpc' = "handle" => ccur' # <<>>
         /\ \A i \in DOMAIN inbox' : inbox'[i] \in Heard
         /\ \A i \in DOMAIN ccur' : ccur'[i] \in Heard
<1>0. inbox \in Seq(Said) /\ ccur \in Seq(Said)
  BY DEF Typed
<1> USE DEF C!Goto
<1>1. CASE C!RecvDatagram
  <2>1. /\ Tail(inbox) \in Seq(Said) /\ Head(inbox) \in Said
        /\ 1 \in DOMAIN inbox /\ Head(inbox) = inbox[1]
        /\ \A i \in DOMAIN Tail(inbox) : \E j \in DOMAIN inbox : Tail(inbox)[i] = inbox[j]
    BY <1>0, <1>1, TailParts DEF C!RecvDatagram
  <2>2. inbox' = Tail(inbox) /\ ccur' = <<Head(inbox)>> /\ cpc' = "handle"
    BY <1>1 DEF C!RecvDatagram
  <2>3. ccur' \in Seq(Said) /\ ccur' # <<>> /\ \A i \in DOMAIN ccur' : ccur'[i] = inbox[1]
    BY <2>1, <2>2
  <2> QED
    BY <2>1, <2>2, <2>3 DEF Heard
<1>2. CASE ~C!RecvDatagram
  <2>1. /\ cpc' \notin {"idle", "handle"}
        /\ inbox' \in {inbox, <<>>} /\ ccur' \in {ccur, <<>>}
    BY <1>2 DEF C!Call, C!Open, C!LookAtClock, C!SendAll, C!SendFails, C!Arm,
         C!RecvTimesOut, C!Keep, C!Kept, C!Ignore, C!HandleRaises, C!Close
  <2>2. CASE inbox' = inbox /\ ccur' = ccur
    BY <1>0, <2>1, <2>2 DEF Heard
  <2>3. CASE inbox' = <<>> /\ ccur' = ccur
    BY <1>0, <2>1, <2>3 DEF Heard
  <2>4. CASE inbox' = inbox /\ ccur' = <<>>
    BY <1>0, <2>1, <2>4 DEF Heard
  <2>5. CASE inbox' = <<>> /\ ccur' = <<>>
    BY <1>0, <2>1, <2>5
  <2> QED
    BY <2>1, <2>2, <2>3, <2>4, <2>5
<1> QED
  BY <1>1, <1>2

LEMMA ClientKeeps ==
  ASSUME Typed, Origin, ClientStep
  PROVE  Typed' /\ Origin'
<1>1. C!Call /\ UNCHANGED <<rpc, queue, rcur, arrivals, life>>
  BY DEF ClientStep, rvars
<1>2. first' = IF cpc = "idle" THEN life ELSE first
  BY DEF ClientStep
<1>3. life \in Nat /\ first \in Nat /\ first' \in 1..life /\ first' \in Nat
  BY <1>2, DiscoveryAssumption DEF Typed
<1>4. PICK n : net' = net (+) Times(n, Token("responder", C!Query))
  BY DEF ClientStep
<1> DEFINE q == Token("responder", C!Query)
<1>5. q \in Tokens /\ q.to = "responder" /\ q.msg = C!Query
  BY ComponentAssumption DEF Token, Tokens, Asked
<1>6. BagToSet(net') \subseteq BagToSet(net) \cup {q}
  BY <1>4, BagAdd
<1>7. Question(C!Query)'
  BY <1>1, CallMoves DEF Question
<1>8. ASSUME NEW m \in Pending' PROVE m \in Pending \/ Question(m)'
  <2>1. m \in Pending \/ m = C!Query
    BY <1>1, <1>5, <1>6 DEF Pending, Under
  <2> QED
    BY <1>7, <2>1
<1>9. ASSUME NEW m \in Heard' PROVE m \in Heard
  BY <1>1, <1>5, <1>6, CallMoves DEF Heard, Under
<1>10. (\A m \in Pending : Question(m))' /\ (\A m \in Heard : Answer(m))'
  BY <1>1, <1>2, <1>3, <1>8, <1>9, CallMoves, Carry
<1>11. Typed'
  BY <1>1, <1>3, <1>5, <1>6, CallMoves DEF Typed
<1> QED
  BY <1>1, <1>10, <1>11, CallMoves DEF Origin

(* Every step keeps the origins.                                           *)
LEMMA InvStep ==
  ASSUME Inv, [Next]_vars
  PROVE  Inv'
<1>1. CASE UNCHANGED vars
  BY <1>1 DEF vars, cvars, rvars, nvars, Inv, Typed, Origin, Pending,
     Heard, Under, Question, Answer
<1> QED
  BY <1>1, ClientKeeps, ResponderKeeps, OthersKeep, RestartKeeps, TickKeeps
  DEF Next, Network, Inv

(* The invariant holds of every scan.                                      *)
LEMMA InvInit == Init => Inv
<1> SUFFICES ASSUME Init PROVE Inv
  OBVIOUS
<1>1. /\ queue = <<>> /\ rcur = <<>> /\ inbox = <<>> /\ ccur = <<>>
      /\ net = EmptyBag /\ life = 1 /\ first = 1 /\ arrivals = 0
      /\ rpc = "new" /\ cpc = "idle" /\ DOMAIN found = {}
  BY DEF Init, C!Init, R!Init
<1>2. Len(Names) \in Nat /\ Len(Names) >= 1
  BY DiscoveryAssumption
<1>3. BagToSet(net) = {}
  BY <1>1 DEF EmptyBag, SetToBag, BagToSet
<1>4. Typed
  BY <1>1, <1>2, <1>3 DEF Typed
<1>5. Pending = {} /\ Heard = {}
  BY <1>1, <1>3 DEF Pending, Heard, Under
<1> QED
  BY <1>1, <1>4, <1>5 DEF Inv, Origin

LEMMA InvAlways == Spec => []Inv
BY InvInit, InvStep, PTL DEF Spec

-----------------------------------------------------------------------------
(* What follows for the scan.                                              *)

(* What the client puts into the result is an answer.                      *)
LEMMA FoundAnswers ==
  ASSUME Inv, [Next]_vars, found' # found
  PROVE  /\ C!Keeps(ccur[1], Qid, Filter) /\ Answer(ccur[1])
         /\ DOMAIN found' = DOMAIN found \cup {ccur[1].id}
         /\ cpc = "handle" /\ cpc' = "top" /\ UNCHANGED <<life, first>>
<1>1. ClientStep /\ C!Keep
  BY FoundGrows DEF Next, vars, cvars, nvars, ResponderStep, Application, Restart,
       Stopping, Network, ReachResponder, ReachClient, Lose, Duplicate,
       DisturbResponder, DisturbClient, Tick, C!Tick, ClientStep, C!Call, C!Open,
       C!LookAtClock, C!SendAll, C!SendFails, C!Arm, C!RecvDatagram,
       C!RecvTimesOut, C!Ignore, C!HandleRaises, C!Close
<1>2. cpc = "handle" /\ cpc' = "top" /\ UNCHANGED <<life, first>>
  BY <1>1 DEF ClientStep, C!Keep, C!Kept, C!Goto
<1>3. 1 \in DOMAIN ccur
  BY <1>2 DEF Inv, Typed
<1>4. Answer(ccur[1])
  BY <1>3 DEF Inv, Origin, Heard
<1> QED
  BY <1>1, <1>2, <1>4, FoundGrows

(* Once the call has begun, first is settled, and lives only follow.       *)
LEMMA LivesGoOn ==
  ASSUME Inv, [Next]_vars
  PROVE  /\ life \in Nat /\ life' \in Nat /\ life' >= life
         /\ cpc # "idle" => first' = first
<1>1. life \in Nat
  BY DiscoveryAssumption DEF Inv, Typed
<1>2. life' = life \/ life' = life + 1
  BY DEF Next, vars, nvars, ClientStep, ResponderStep, Application, Restart,
       Stopping, Network, ReachResponder, ReachClient, Lose, Duplicate,
       DisturbResponder, DisturbClient, Tick
<1>3. cpc # "idle" => first' = first
  BY DEF Next, vars, nvars, ClientStep, ResponderStep, Application, Restart,
       Stopping, Network, ReachResponder, ReachClient, Lose, Duplicate,
       DisturbResponder, DisturbClient, Tick
<1> QED
  BY <1>1, <1>2, <1>3

(* Nobody who was gone before the call is in its result, whatever of his   *)
(* is still under way, and however often the responder is run again during *)
(* the call (responder.py: instance_id; client.py, discover: qid).         *)
THEOREM NoGhostsFound == Spec => []NoGhosts
<1>1. Init => NoGhosts
  BY DEF Init, C!Init, NoGhosts
<1>2. ASSUME Inv, NoGhosts, [Next]_vars
      PROVE  NoGhosts'
  <2>1. /\ life \in Nat /\ life' \in Nat /\ life' >= life
        /\ cpc # "idle" => first' = first
    BY <1>2, LivesGoOn
  <2>2. first \in Nat
    BY <1>2, <2>1 DEF Inv, Typed
  <2>3. CASE found' = found
    <3>1. CASE cpc = "idle"
      BY <1>2, <2>3, <3>1 DEF Inv, Origin, NoGhosts
    <3>2. CASE cpc # "idle"
      <4>1. first..life \subseteq first'..life'
        BY <2>1, <2>2, <3>2
      <4> QED
        BY <1>2, <2>3, <4>1 DEF NoGhosts
    <3> QED
      BY <3>1, <3>2
  <2>4. CASE found' # found
    <3>1. /\ C!Keeps(ccur[1], Qid, Filter) /\ Answer(ccur[1])
          /\ DOMAIN found' = DOMAIN found \cup {ccur[1].id}
          /\ UNCHANGED <<life, first>>
      BY <1>2, <2>4, FoundAnswers
    <3>2. ccur[1].qid \in {Absent, Qid}
      BY <3>1 DEF C!Keeps, C!IsAnswer
    <3>3. \/ ccur[1] \in Noise
          \/ \E l \in first..life : ccur[1].id = Names[l]
      BY <2>1, <2>2, <3>1, <3>2, DiscoveryAssumption DEF Answer
    <3> QED
      BY <1>2, <3>1, <3>2, <3>3 DEF NoGhosts
  <2> QED
    BY <2>3, <2>4
<1> QED
  BY <1>1, <1>2, InvAlways, PTL DEF Spec

(* How the phases of the call go on.                                       *)
LEMMA PhaseMoves ==
  ASSUME [Next]_vars
  PROVE  \/ cpc' = cpc
         \/ cpc = "idle" /\ cpc' \in {"top", "failed"}
         \/ /\ cpc \notin {"idle", "returned", "failed"}
            /\ cpc' # "idle"
<1>1. CASE ClientStep
  BY <1>1 DEF ClientStep, C!Call, C!Goto, C!Open, C!LookAtClock, C!SendAll,
       C!SendFails, C!Arm, C!RecvDatagram, C!RecvTimesOut, C!Keep, C!Kept,
       C!Ignore, C!HandleRaises, C!Close
<1>2. CASE ~ClientStep
  BY <1>2 DEF Next, vars, cvars, nvars, ResponderStep, Application, Restart,
       Stopping, Network, ReachResponder, ReachClient, Lose, Duplicate,
       DisturbResponder, DisturbClient, Tick, C!Tick
<1> QED
  BY <1>1, <1>2

(* Every step of the system is one of the scan of the module Scan, or none *)
(* of its business: all but the liveness of IsAScan, for any network.      *)
THEOREM ScanIsImplemented ==
  Spec => Abstract!Init /\ [][Abstract!Next]_(Abstract!vars)
<1>1. Init => Abstract!Init
  BY DEF Init, C!Init, Abstract!Init
<1>2. ASSUME Inv, [Next]_vars
      PROVE  [Abstract!Next]_(Abstract!vars)
  <2>1. CASE found' = found
    <3>1. cpc' = cpc => UNCHANGED Abstract!vars
      BY <2>1 DEF Abstract!vars
    <3>2. cpc = "idle" /\ cpc' \in {"top", "failed"} => Abstract!Begin
      BY <2>1 DEF Abstract!Begin
    <3>3. cpc \notin {"idle", "returned", "failed"} /\ cpc' # "idle"
            => Abstract!End \/ UNCHANGED Abstract!vars
      BY <2>1 DEF Abstract!End, Abstract!vars
    <3> QED
      BY <1>2, <3>1, <3>2, <3>3, PhaseMoves DEF Abstract!Next
  <2>2. CASE found' # found
    <3> DEFINE id == ccur[1].id
    <3>1. /\ C!Keeps(ccur[1], Qid, Filter) /\ Answer(ccur[1])
          /\ DOMAIN found' = DOMAIN found \cup {id}
          /\ cpc = "handle" /\ cpc' = "top"
      BY <1>2, <2>2, FoundAnswers
    <3>2. /\ Matches(ccur[1].fields) /\ id # Absent
      BY <3>1 DEF C!Keeps, C!IsAnswer, C!MatchesFilter, Matches, C!Decodes,
         C!ValidAnnounce
    <3>3. \/ ccur[1] \in Noise
          \/ ccur[1].fields = Self.fields /\ \E l \in DOMAIN Names : id = Names[l]
      BY <1>2, <3>1, DiscoveryAssumption DEF Answer, Inv, Typed
    <3> DEFINE all == {i \in {Names[l] : l \in DOMAIN Names} : Matches(Self.fields)}
                        \cup {m.id : m \in {w \in Noise : w.id # Absent
                                                    /\ Matches(w.fields)}}
    <3>4. id \in all
      BY <3>2, <3>3
    <3>5. CASE id \in DOMAIN found
      <4>1. DOMAIN found' = DOMAIN found
        BY <3>1, <3>5
      <4> QED
        BY <3>1, <4>1 DEF Abstract!vars
    <3>6. CASE id \notin DOMAIN found
      BY <3>1, <3>4, <3>6 DEF Abstract!Next, Abstract!Learn
    <3> QED
      BY <3>5, <3>6
  <2> QED
    BY <2>1, <2>2
<1> QED
  BY <1>1, <1>2, InvAlways, PTL DEF Spec

-----------------------------------------------------------------------------
(* Counting the datagrams of a bag.                                        *)

(* Each datagram of a kind that is under way, each copy for itself.        *)
Each(b, S)  == UNION {{e} \X (1..b[e]) : e \in DOMAIN b \cap S}
Count(b, S) == Cardinality(Each(b, S))

ABag(b) == IsABag(b) /\ IsFiniteSet(DOMAIN b)

(* A set that another one maps onto is finite, and no larger.              *)
LEMMA Surjected ==
  ASSUME NEW S, NEW T, IsFiniteSet(S), NEW f \in [S -> T],
         \A t \in T : \E s \in S : f[s] = t
  PROVE  IsFiniteSet(T) /\ Cardinality(T) <= Cardinality(S)
<1>1. f \in Surjection(S, T)
  BY DEF Surjection
<1> QED
  BY <1>1, FS_Surjection

(* The copies of the datagrams of a kind, counted.                         *)
LEMMA EachFinite ==
  ASSUME NEW b, ABag(b), NEW S
  PROVE  IsFiniteSet(Each(b, S)) /\ Count(b, S) \in Nat
<1> DEFINE D == DOMAIN b \cap S
           U == {{e} \X (1..b[e]) : e \in D}
<1>1. IsFiniteSet(D)
  BY FS_Intersection DEF ABag
<1>2. IsFiniteSet(U)
  <2> DEFINE f == [e \in D |-> {e} \X (1..b[e])]
  <2>1. f \in [D -> U] /\ \A t \in U : \E e \in D : f[e] = t
    OBVIOUS
  <2> HIDE DEF f, D, U
  <2> QED
    BY <1>1, <2>1, Surjected
<1>3. ASSUME NEW e \in D PROVE IsFiniteSet({e} \X (1..b[e]))
  <2>1. b[e] \in Int /\ 1 \in Int
    BY DEF ABag, IsABag
  <2>2. IsFiniteSet(1..b[e]) /\ IsFiniteSet({e})
    BY <2>1, FS_Interval, FS_Singleton
  <2> QED
    BY <2>2, FS_Product
<1>4. \A T \in U : IsFiniteSet(T)
  BY <1>3
<1>5. IsFiniteSet(UNION U)
  BY <1>2, <1>4, FS_UNION
<1>6. Each(b, S) = UNION U
  BY DEF Each
<1> QED
  BY <1>5, <1>6, FS_CardinalityType DEF Count

(* What is in a count, and what one of none means.                         *)
LEMMA EachMember ==
  ASSUME NEW b, NEW S, NEW x
  PROVE  x \in Each(b, S) <=> \E e \in DOMAIN b \cap S : \E i \in 1..b[e] : x = <<e, i>>
<1>1. ASSUME NEW e PROVE x \in {e} \X (1..b[e]) <=> \E i \in 1..b[e] : x = <<e, i>>
  OBVIOUS
<1> QED
  BY <1>1 DEF Each

(* Where some are counted, there is one.                                   *)
LEMMA CountPositive ==
  ASSUME NEW b, ABag(b), NEW S, Count(b, S) > 0
  PROVE  \E e \in DOMAIN b : e \in S
<1>1. SUFFICES ASSUME DOMAIN b \cap S = {} PROVE FALSE
  OBVIOUS
<1>2. Each(b, S) = {}
  BY <1>1 DEF Each
<1> QED
  BY <1>2, FS_EmptySet DEF Count

(* n more of a datagram.                                                   *)
Had(b, e) == IF e \in DOMAIN b THEN b[e] ELSE 0

(* What adding n copies makes of a bag.                                    *)
LEMMA AddedBag ==
  ASSUME NEW b, ABag(b), NEW e, NEW n \in Nat, NEW c, c = b (+) Times(n, e)
  PROVE  /\ Had(b, e) \in Nat
         /\ \A x : x \in DOMAIN c <=> x \in DOMAIN b \/ (n # 0 /\ x = e)
         /\ e \in DOMAIN c => c[e] = Had(b, e) + n
         /\ \A x \in DOMAIN c : x # e => c[x] = b[x]
         /\ ABag(c)
<1>1. \A x \in DOMAIN b : b[x] \in Nat /\ b[x] > 0
  BY DEF ABag, IsABag
<1>2. Had(b, e) \in Nat
  BY <1>1 DEF Had
<1>3. DOMAIN Times(n, e) = (IF n = 0 THEN {} ELSE {e})
      /\ \A x \in DOMAIN Times(n, e) : Times(n, e)[x] = n
  BY DEF Times, EmptyBag, SetToBag
<1>4. /\ n = 0 => DOMAIN c = DOMAIN b
      /\ n # 0 => DOMAIN c = DOMAIN b \cup {e}
  BY <1>3 DEF (+)
<1>5. /\ e \in DOMAIN c => c[e] = Had(b, e) + n
      /\ \A x \in DOMAIN c : x # e => c[x] = b[x]
  <2> SUFFICES ASSUME NEW x \in DOMAIN c
               PROVE  /\ x = e => c[x] = Had(b, e) + n
                      /\ x # e => c[x] = b[x]
    OBVIOUS
  <2>1. c[x] = (IF x \in DOMAIN b THEN b[x] ELSE 0)
                 + (IF x \in DOMAIN Times(n, e) THEN Times(n, e)[x] ELSE 0)
    BY DEF (+)
  <2>2. CASE x = e
    BY <1>1, <1>3, <1>4, <2>1, <2>2 DEF Had
  <2>3. CASE x # e
    BY <1>1, <1>3, <1>4, <2>1, <2>3
  <2> QED
    BY <2>2, <2>3
<1>6. IsABag(c)
  <2>1. c = [x \in DOMAIN c |-> c[x]]
    BY DEF (+)
  <2>2. \A x \in DOMAIN c : c[x] \in {k \in Nat : k > 0}
    BY <1>1, <1>2, <1>4, <1>5 DEF Had
  <2> QED
    BY <2>1, <2>2 DEF IsABag
<1>7. IsFiniteSet(DOMAIN c)
  BY <1>4, FS_AddElement DEF ABag
<1> QED
  BY <1>2, <1>4, <1>5, <1>6, <1>7 DEF ABag

(* And of the count of each kind.                                          *)
LEMMA CountAdd ==
  ASSUME NEW b, ABag(b), NEW e, NEW n \in Nat, NEW c, c = b (+) Times(n, e),
         NEW S
  PROVE  Count(c, S) = Count(b, S) + (IF e \in S THEN n ELSE 0)
<1> DEFINE old == Had(b, e)
           new == {e} \X (old + 1 .. old + n)
<1> HIDE DEF new
<1>1. /\ old \in Nat /\ ABag(c)
      /\ \A x : x \in DOMAIN c <=> x \in DOMAIN b \/ (n # 0 /\ x = e)
      /\ e \in DOMAIN c => c[e] = old + n
      /\ \A x \in DOMAIN c : x # e => c[x] = b[x]
  BY AddedBag
<1>2. Count(b, S) \in Nat /\ IsFiniteSet(Each(b, S))
  BY EachFinite
<1>3. CASE e \notin S
  <2>1. DOMAIN c \cap S = DOMAIN b \cap S
    BY <1>1, <1>3
  <2>2. \A x \in DOMAIN b \cap S : c[x] = b[x]
    BY <1>1, <1>3, <2>1
  <2>3. Each(c, S) = Each(b, S)
    BY <2>1, <2>2 DEF Each
  <2> QED
    BY <1>2, <1>3, <2>3 DEF Count
<1>4. CASE e \in S
  <2> USE DEF new
  <2>1. IsFiniteSet(new) /\ Cardinality(new) = n
    <3>1. \A k \in Nat : IsFiniteSet(k + 1 .. k + n) /\ Cardinality(k + 1 .. k + n) = n
      <4>1. \A k \in Nat : /\ k + 1 \in Int /\ k + n \in Int
                           /\ (IF k + 1 > k + n THEN 0 ELSE (k + n) - (k + 1) + 1) = n
        OBVIOUS
      <4> QED
        BY <4>1, FS_Interval
    <3>2. IsFiniteSet(old + 1 .. old + n) /\ Cardinality(old + 1 .. old + n) = n
      BY <1>1, <3>1
    <3>3. IsFiniteSet({e}) /\ Cardinality({e}) = 1
      BY FS_Singleton
    <3> DEFINE I == old + 1 .. old + n
    <3> HIDE DEF I
    <3>4. IsFiniteSet({e} \X I) /\ Cardinality({e} \X I) = 1 * n
      BY <3>2, <3>3, FS_Product DEF I
    <3> QED
      BY <3>4 DEF I
  <2>2. Each(c, S) = Each(b, S) \cup new
    <3>1. ASSUME NEW x PROVE x \in Each(c, S) <=> x \in Each(b, S) \cup new
      <4>1. x \in Each(c, S) <=> \E d \in DOMAIN c \cap S : \E i \in 1..c[d] : x = <<d, i>>
        BY EachMember
      <4>2. x \in Each(b, S) <=> \E d \in DOMAIN b \cap S : \E i \in 1..b[d] : x = <<d, i>>
        BY EachMember
      <4>3. x \in new <=> \E i \in old + 1 .. old + n : x = <<e, i>>
        OBVIOUS
      <4>4. ASSUME NEW i PROVE /\ e \in DOMAIN c => (i \in 1..c[e] <=>
                                   i \in 1..old \/ i \in old + 1 .. old + n)
                               /\ e \in DOMAIN b => 1..b[e] = 1..old
                               /\ e \notin DOMAIN b => old = 0
                               /\ e \notin DOMAIN c => n = 0 /\ e \notin DOMAIN b
        BY <1>1 DEF Had
      <4>5. ASSUME NEW d, d # e
            PROVE  d \in DOMAIN c \cap S <=> d \in DOMAIN b \cap S
        BY <1>1, <4>5
      <4>6. \A d : d # e /\ d \in DOMAIN b => c[d] = b[d]
        BY <1>1
      <4>7. (\E i \in 1..c[e] : e \in DOMAIN c /\ x = <<e, i>>)
              <=> \/ \E i \in 1..b[e] : e \in DOMAIN b /\ x = <<e, i>>
                  \/ \E i \in old + 1 .. old + n : x = <<e, i>>
        <5>1. CASE e \in DOMAIN c
          <6>1. CASE e \in DOMAIN b
            BY <4>4, <5>1, <6>1
          <6>2. CASE e \notin DOMAIN b
            <7>1. \A i : i \notin 1..old
              BY <4>4, <6>2
            <7> QED
              BY <4>4, <5>1, <6>2, <7>1
          <6> QED
            BY <6>1, <6>2
        <5>2. CASE e \notin DOMAIN c
          <6>1. \A i : i \notin old + 1 .. old + n
            BY <1>1, <4>4, <5>2
          <6> QED
            BY <4>4, <5>2, <6>1
        <5> QED
          BY <5>1, <5>2
      <4> HIDE DEF old, new
      <4>8. ASSUME NEW d, d # e
            PROVE  (d \in DOMAIN c \cap S /\ \E i \in 1..c[d] : x = <<d, i>>)
                     <=> (d \in DOMAIN b \cap S /\ \E i \in 1..b[d] : x = <<d, i>>)
        BY <4>5, <4>6, <4>8
      <4> QED
        BY <1>4, <4>1, <4>2, <4>3, <4>7, <4>8
    <3> HIDE DEF new
    <3> QED
      BY <3>1
  <2>3. Each(b, S) \cap new = {}
    <3>1. ASSUME NEW x \in Each(b, S), x \in new PROVE FALSE
      <4>1. PICK d \in DOMAIN b \cap S : \E i \in 1..b[d] : x = <<d, i>>
        BY <3>1, EachMember
      <4>2. PICK i \in 1..b[d] : x = <<d, i>>
        BY <4>1
      <4>3. PICK j \in old + 1 .. old + n : x = <<e, j>>
        BY <3>1
      <4>4. d = e /\ i = j
        BY <4>2, <4>3
      <4> QED
        BY <1>1, <4>1, <4>2, <4>3, <4>4 DEF Had
    <3> QED
      BY <3>1
  <2>4. Cardinality(Each(c, S)) = Cardinality(Each(b, S)) + n - Cardinality({})
    BY <1>2, <2>1, <2>2, <2>3, FS_Union
  <2> QED
    BY <1>2, <1>4, <2>4, FS_EmptySet DEF Count
<1> QED
  BY <1>3, <1>4

(* One less.                                                               *)
LEMMA CountTake ==
  ASSUME NEW b, ABag(b), NEW e \in DOMAIN b, NEW c, c = b (-) Times(1, e)
  PROVE  /\ ABag(c) /\ DOMAIN c \subseteq DOMAIN b
         /\ \A S : Count(b, S) = Count(c, S) + (IF e \in S THEN 1 ELSE 0)
<1>1. \A x \in DOMAIN b : b[x] \in Nat /\ b[x] > 0
  BY DEF ABag, IsABag
<1> DEFINE less == [x \in DOMAIN b |-> IF x = e THEN b[x] - 1 ELSE b[x]]
<1>2. c = [x \in {d \in DOMAIN less : less[d] > 0} |-> less[x]]
  <2> DEFINE g == [x \in DOMAIN b |-> IF x \in DOMAIN Times(1, e)
                                      THEN b[x] - Times(1, e)[x] ELSE b[x]]
  <2>1. c = [x \in {d \in DOMAIN g : g[d] > 0} |-> g[x]]
    BY Zenon DEF (-)
  <2>2. g = less
    <3>1. \A x : x \in DOMAIN Times(1, e) <=> x = e
      BY DEF Times
    <3>2. Times(1, e)[e] = 1
      BY DEF Times
    <3> QED
      BY <3>1, <3>2
  <2> HIDE DEF g, less
  <2> QED
    BY <2>1, <2>2
<1>3. DOMAIN c = {x \in DOMAIN b : x # e \/ b[e] > 1}
      /\ \A x \in DOMAIN c : c[x] = IF x = e THEN b[x] - 1 ELSE b[x]
  <2>1. DOMAIN c = {d \in DOMAIN less : less[d] > 0}
        /\ \A x \in DOMAIN c : c[x] = less[x]
    <3> HIDE DEF less
    <3> QED
      BY <1>2
  <2>2. DOMAIN less = DOMAIN b
        /\ \A x \in DOMAIN b : less[x] = IF x = e THEN b[x] - 1 ELSE b[x]
    OBVIOUS
  <2> HIDE DEF less
  <2> QED
    BY <1>1, <2>1, <2>2
<1>4. ABag(c)
  <2>1. c = [x \in DOMAIN c |-> c[x]]
    BY <1>2
  <2>2. \A x \in DOMAIN c : c[x] \in {k \in Nat : k > 0}
    BY <1>1, <1>3
  <2>3. DOMAIN c \subseteq DOMAIN b
    BY <1>3
  <2>4. IsFiniteSet(DOMAIN c)
    BY <2>3, FS_Subset DEF ABag
  <2> QED
    BY <2>1, <2>2, <2>4 DEF ABag, IsABag
<1>5. b = c (+) Times(1, e)
  <2> HIDE DEF less
  <2> DEFINE d == c (+) Times(1, e)
  <2>0. d = c (+) Times(1, e) /\ 1 \in Nat /\ 1 # 0
    OBVIOUS
  <2> HIDE DEF d
  <2>1. /\ \A x : x \in DOMAIN d <=> x \in DOMAIN c \/ x = e
        /\ d[e] = Had(c, e) + 1
        /\ \A x \in DOMAIN d : x # e => d[x] = c[x]
    BY <1>4, <2>0, AddedBag
  <2>2. d = [x \in DOMAIN d |-> d[x]] /\ b = [x \in DOMAIN b |-> b[x]]
    BY <2>0 DEF (+), ABag, IsABag
  <2>3. DOMAIN d = DOMAIN b
    BY <1>3, <2>1
  <2>4. \A x \in DOMAIN b : d[x] = b[x]
    BY <1>1, <1>3, <2>1, <2>3 DEF Had
  <2> QED
    BY <2>0, <2>2, <2>3, <2>4
<1>6. ASSUME NEW S PROVE Count(b, S) = Count(c, S) + (IF e \in S THEN 1 ELSE 0)
  BY <1>4, <1>5, CountAdd
<1> QED
  BY <1>3, <1>4, <1>6

(* The same kinds, or more.                                                *)
LEMMA CountWider ==
  ASSUME NEW b, ABag(b), NEW S, NEW T, DOMAIN b \cap S \subseteq T
  PROVE  Count(b, S) <= Count(b, T)
<1>1. ASSUME NEW x \in Each(b, S) PROVE x \in Each(b, T)
  BY EachMember
<1>2. Each(b, S) \in SUBSET Each(b, T)
  BY <1>1
<1> QED
  BY <1>2, EachFinite, FS_Subset DEF Count

(* What grows older is counted as before.                                  *)
LEMMA CountAged ==
  ASSUME NEW b, ABag(b), \A e \in DOMAIN b : Fresh(Aged(e)) = e,
         NEW c, c = [e \in {Aged(f) : f \in DOMAIN b} |-> b[Fresh(e)]]
  PROVE  /\ ABag(c)
         /\ \A S : (\A e \in DOMAIN b : e \in S <=> Aged(e) \in S)
                     => Count(c, S) = Count(b, S)
<1> DEFINE D == DOMAIN b
           E == {Aged(f) : f \in D}
<1>1. DOMAIN c = E /\ \A f \in D : c[Aged(f)] = b[f]
  OBVIOUS
<1>2. ABag(c)
  <2>1. IsFiniteSet(E)
    <3> DEFINE g == [f \in D |-> Aged(f)]
    <3>1. g \in [D -> E] /\ \A t \in E : \E s \in D : g[s] = t
      OBVIOUS
    <3>2. IsFiniteSet(D)
      BY DEF ABag
    <3> HIDE DEF g, D, E
    <3> QED
      BY <3>1, <3>2, Surjected
  <2>2. c = [e \in E |-> c[e]]
    OBVIOUS
  <2>3. \A e \in E : c[e] \in {k \in Nat : k > 0}
    BY <1>1 DEF ABag, IsABag
  <2> QED
    BY <1>1, <2>1, <2>2, <2>3 DEF ABag, IsABag
<1>3. ASSUME NEW S, \A e \in D : e \in S <=> Aged(e) \in S
      PROVE  Count(c, S) = Count(b, S)
  <2> DEFINE B == Each(b, S)
             g == [x \in B |-> <<Aged(x[1]), x[2]>>]
  <2>1. ASSUME NEW x \in B PROVE /\ x = <<x[1], x[2]>> /\ x[1] \in D \cap S
                                 /\ x[2] \in 1..b[x[1]]
    <3>1. PICK e \in D \cap S : \E i \in 1..b[e] : x = <<e, i>>
      BY EachMember
    <3> QED
      BY <3>1
  <2>2. ASSUME NEW x \in B PROVE g[x] \in Each(c, S)
    <3>1. x[1] \in D \cap S /\ x[2] \in 1..b[x[1]]
      BY <2>1
    <3>2. Aged(x[1]) \in DOMAIN c \cap S /\ c[Aged(x[1])] = b[x[1]]
      BY <1>1, <1>3, <3>1
    <3>3. g[x] = <<Aged(x[1]), x[2]>>
      OBVIOUS
    <3> HIDE DEF g
    <3> QED
      BY <3>1, <3>2, <3>3, EachMember
  <2>3. ASSUME NEW x \in B, NEW y \in B, g[x] = g[y] PROVE x = y
    <3>1. Aged(x[1]) = Aged(y[1]) /\ x[2] = y[2]
      BY <2>3
    <3>2. x[1] \in D /\ y[1] \in D
      BY <2>1
    <3>3. x[1] = y[1]
      BY <3>1, <3>2
    <3> QED
      BY <2>1, <3>1, <3>3
  <2>4. ASSUME NEW y \in Each(c, S) PROVE \E x \in B : g[x] = y
    <3>1. PICK e \in DOMAIN c \cap S : \E i \in 1..c[e] : y = <<e, i>>
      BY EachMember
    <3>2. PICK i \in 1..c[e] : y = <<e, i>>
      BY <3>1
    <3>3. PICK f \in D : e = Aged(f)
      BY <1>1
    <3>4. f \in D \cap S /\ i \in 1..b[f]
      BY <1>1, <1>3, <3>2, <3>3
    <3>5. <<f, i>> \in B
      BY <3>4, EachMember
    <3>6. g[<<f, i>>] = y
      BY <3>2, <3>3, <3>5
    <3> QED
      BY <3>5, <3>6
  <2>5. g \in Bijection(B, Each(c, S))
    <3>1. g \in [B -> Each(c, S)] /\ DOMAIN g = B
      BY <2>2
    <3> HIDE DEF g, B
    <3> QED
      BY <2>3, <2>4, <3>1 DEF Bijection, Injection, IsInjective, Surjection
  <2> HIDE DEF g
  <2> QED
    BY <2>5, EachFinite, FS_Bijection DEF Count, ExistsBijection
<1> QED
  BY <1>2, <1>3

Queries      == [to : {"responder"}, msg : {C!Query}, left : Int]
Sent(l, qid) == [to : {"client"}, msg : {Reply(l, qid)}, left : Int]
Own          == Queries \cup Sent(life, Qid)

Asks(s) == Cardinality({i \in DOMAIN s : s[i].msg = C!Query})
Waiting == Asks(queue) + Asks(rcur)

NetInv ==
  /\ IsABag(net) /\ IsFiniteSet(DOMAIN net)
  /\ \A e \in DOMAIN net :
       /\ e.left \in 0..MaxDelay
       /\ \/ e \in Queries
          \/ \E l \in 1..life, qid \in Qids :
               /\ e \in Sent(l, qid) /\ C!Encodes(Reply(l, qid))
               /\ l = life => rpc \notin {"new", "opening"}

ThreadInv ==
  /\ rpc \in {"new", "opening", "closing", "exited"} \cup R!Looping
  /\ rpc \in {"new", "opening"} => queue = <<>> /\ rcur = <<>>
  /\ rpc \in {"top", "announce", "recv"} => rcur = <<>>
  /\ Len(rcur) <= 1
  /\ app # "idle" => stopEvent
  /\ rleft \in Nat
  /\ rpc \in {"top", "announce", "check", "handle", "reply"} => rleft <= Lag
  /\ rpc = "jitter" => rleft <= JitterMax + Lag
  /\ rpc = "recv" /\ queue # <<>> => rleft <= Lag

Balance ==
  lost \in Nat /\ offered \in Nat /\ lost + Count(net, Own) + Waiting <= offered

-----------------------------------------------------------------------------
(* The queries of the call among the datagrams of a buffer.                *)

LEMMA AsksTyped ==
  ASSUME NEW S, NEW s \in Seq(S)
  PROVE  /\ IsFiniteSet({i \in DOMAIN s : s[i].msg = C!Query})
         /\ Asks(s) \in Nat /\ Asks(s) <= Len(s)
<1> DEFINE I == {i \in DOMAIN s : s[i].msg = C!Query}
<1>1. 1 \in Int /\ Len(s) \in Nat /\ Len(s) \in Int /\ DOMAIN s = 1..Len(s)
  OBVIOUS
<1>2. IsFiniteSet(1..Len(s)) /\ Cardinality(1..Len(s)) = IF 1 > Len(s) THEN 0 ELSE Len(s) - 1 + 1
  BY <1>1, FS_Interval
<1>3. I \subseteq 1..Len(s)
  BY <1>1
<1> HIDE DEF I
<1>4. IsFiniteSet(I) /\ Cardinality(I) <= Cardinality(1..Len(s))
  BY <1>2, <1>3, FS_Subset
<1>5. Cardinality(I) \in Nat
  BY <1>4, FS_CardinalityType
<1> QED
  BY <1>1, <1>2, <1>4, <1>5 DEF Asks, I

LEMMA AsksNone == Asks(<<>>) = 0
<1>1. {i \in DOMAIN <<>> : <<>>[i].msg = C!Query} = {}
  OBVIOUS
<1> QED
  BY <1>1, FS_EmptySet DEF Asks

LEMMA AsksPositive ==
  ASSUME NEW s, Asks(s) > 0
  PROVE  \E i \in DOMAIN s : s[i].msg = C!Query
<1>1. SUFFICES ASSUME {i \in DOMAIN s : s[i].msg = C!Query} = {} PROVE FALSE
  OBVIOUS
<1> QED
  BY <1>1, FS_EmptySet DEF Asks

LEMMA AsksSame ==
  ASSUME NEW s, NEW t, DOMAIN t = DOMAIN s, \A i \in DOMAIN s : t[i].msg = s[i].msg
  PROVE  Asks(t) = Asks(s)
<1>1. {i \in DOMAIN t : t[i].msg = C!Query} = {i \in DOMAIN s : s[i].msg = C!Query}
  OBVIOUS
<1> QED
  BY <1>1 DEF Asks

(* A datagram appended, taken from the head, or alone, counts if it is the *)
(* query.                                                                  *)
LEMMA AsksAppend ==
  ASSUME NEW S, NEW s \in Seq(S), NEW x \in S
  PROVE  /\ x.msg = C!Query => Asks(Append(s, x)) = Asks(s) + 1
         /\ x.msg # C!Query => Asks(Append(s, x)) = Asks(s)
<1> DEFINE I == {i \in DOMAIN s : s[i].msg = C!Query}
           t == Append(s, x)
           J == {i \in DOMAIN t : t[i].msg = C!Query}
           n == Len(s) + 1
<1>1. DOMAIN t = 1..n /\ DOMAIN s = 1..Len(s) /\ Len(s) \in Nat /\ t[n] = x
      /\ \A i \in DOMAIN s : t[i] = s[i]
  OBVIOUS
<1>2. n \notin I /\ n \in DOMAIN t /\ \A i : i \in DOMAIN t <=> i = n \/ i \in DOMAIN s
  BY <1>1
<1>3. IsFiniteSet(I)
  BY AsksTyped
<1> HIDE DEF t, n
<1>4. CASE x.msg = C!Query
  <2>1. J = I \cup {n}
    BY <1>1, <1>2, <1>4
  <2>2. Cardinality(I \cup {n}) = Cardinality(I) + 1
    BY <1>2, <1>3, FS_AddElement
  <2> QED
    BY <1>4, <2>1, <2>2 DEF Asks, t
<1>5. CASE x.msg # C!Query
  <2>1. J = I
    BY <1>1, <1>2, <1>5
  <2> QED
    BY <1>5, <2>1 DEF Asks, t
<1> QED
  BY <1>4, <1>5

LEMMA AsksTail ==
  ASSUME NEW S, NEW s \in Seq(S), s # <<>>
  PROVE  /\ s[1].msg = C!Query => Asks(s) = Asks(Tail(s)) + 1
         /\ s[1].msg # C!Query => Asks(s) = Asks(Tail(s))
<1> DEFINE t == Tail(s)
           I == {i \in DOMAIN s : s[i].msg = C!Query}
           J == {i \in DOMAIN t : t[i].msg = C!Query}
           K == I \ {1}
           g == [i \in J |-> i + 1]
<1>1. /\ DOMAIN t = 1..Len(s) - 1 /\ DOMAIN s = 1..Len(s) /\ Len(s) \in Nat
      /\ Len(s) >= 1 /\ \A i \in DOMAIN t : t[i] = s[i + 1]
      /\ t \in Seq(S)
  OBVIOUS
<1> HIDE DEF t
<1>2. \A i \in J : i \in Nat /\ i + 1 \in K
  BY <1>1
<1>3. ASSUME NEW k \in K PROVE k - 1 \in J /\ (k - 1) + 1 = k /\ k \in Nat
  <2>1. k \in 1..Len(s) /\ k # 1 /\ s[k].msg = C!Query
    BY <1>1
  <2>2. k - 1 \in DOMAIN t /\ (k - 1) + 1 = k
    BY <1>1, <2>1
  <2> QED
    BY <1>1, <2>1, <2>2
<1>4. g \in Bijection(J, K)
  <2>1. g \in [J -> K] /\ DOMAIN g = J
    BY <1>2
  <2>2. \A i, j \in J : g[i] = g[j] => i = j
    BY <1>2
  <2>3. \A k \in K : \E j \in J : g[j] = k
    <3> SUFFICES ASSUME NEW k \in K PROVE \E j \in J : g[j] = k
      OBVIOUS
    <3>1. k - 1 \in J /\ g[k - 1] = k
      BY <1>3
    <3> QED
      BY <3>1
  <2> HIDE DEF g, J, K
  <2> QED
    BY <2>1, <2>2, <2>3 DEF Bijection, Injection, IsInjective, Surjection
<1>5. IsFiniteSet(J) /\ IsFiniteSet(I) /\ Cardinality(J) \in Nat
  BY <1>1, AsksTyped, FS_CardinalityType
<1>6. Cardinality(K) = Cardinality(J) /\ IsFiniteSet(K)
  <2> HIDE DEF g, J, K
  <2> QED
    BY <1>4, <1>5, FS_Bijection DEF ExistsBijection
<1>7. CASE s[1].msg = C!Query
  <2>1. I = K \cup {1} /\ 1 \notin K
    BY <1>1, <1>7
  <2>2. Cardinality(I) = Cardinality(K) + 1
    BY <1>6, <2>1, FS_AddElement
  <2> QED
    BY <1>6, <1>7, <2>2 DEF Asks, t
<1>8. CASE s[1].msg # C!Query
  <2>1. I = K
    BY <1>8
  <2> QED
    BY <1>6, <1>8, <2>1 DEF Asks, t
<1> QED
  BY <1>7, <1>8

LEMMA AsksOne ==
  ASSUME NEW x \in Entries
  PROVE  /\ x.msg = C!Query => Asks(<<x>>) = 1
         /\ x.msg # C!Query => Asks(<<x>>) = 0
<1>1. <<>> \in Seq(Entries)
  OBVIOUS
<1>2. /\ x.msg = C!Query => Asks(Append(<<>>, x)) = Asks(<<>>) + 1
      /\ x.msg # C!Query => Asks(Append(<<>>, x)) = Asks(<<>>)
  BY <1>1, AsksAppend
<1>3. Append(<<>>, x) = <<x>>
  OBVIOUS
<1> QED
  BY <1>2, <1>3, AsksNone

-----------------------------------------------------------------------------
(* Whose a datagram is.                                                    *)

(* No other program sends what this call sends.                            *)
LEMMA QueryParts ==
  /\ C!Query.type = "DISCOVER" /\ C!Query.qid = Qid /\ C!Query.from = Asker
  /\ C!Query \notin Noise /\ C!Query # R!Poke
<1>1. C!Query.type = "DISCOVER" /\ C!Query.qid = Qid /\ C!Query.from = Asker
  BY DEF C!Query, C!BuildQuery
<1> QED
  BY <1>1, DiscoveryAssumption DEF R!Poke

(* A question under the call's identifier is the call's.                   *)
LEMMA OnlyQuery ==
  ASSUME NEW m \in Asked, m.type = "DISCOVER", m.qid = Qid
  PROVE  m = C!Query
BY DiscoveryAssumption DEF Asked, R!Poke

(* What is under way, and whose it is: Mine tells the datagrams that are   *)
(* counted.                                                                *)
LEMMA Parties ==
  ASSUME Typed, NetInv, NEW e \in DOMAIN net
  PROVE  /\ e.left \in 0..MaxDelay
         /\ e = [to |-> e.to, msg |-> e.msg, left |-> e.left]
         /\ e.to = "responder" <=> e \in Queries
         /\ e.to # "responder" =>
              /\ e.to = "client"
              /\ \E l \in 1..life, qid \in Qids :
                   e.msg = Reply(l, qid) /\ e.msg.id = Names[l] /\ e.msg.qid = qid
                   /\ C!Encodes(e.msg)
         /\ e \in Queries => e.msg = C!Query
         /\ e.to # "responder" =>
              (e \in Sent(life, Qid) <=> e.msg.id = Names[life] /\ e.msg.qid = Qid)
         /\ Mine(e) <=> e \in Own
<1>0. /\ e.left \in 0..MaxDelay
      /\ \/ e \in Queries
         \/ \E l \in 1..life, qid \in Qids :
              e \in Sent(l, qid) /\ C!Encodes(Reply(l, qid))
  BY DEF NetInv
<1>a. life \in DOMAIN Names /\ 1..life \subseteq DOMAIN Names
  BY DiscoveryAssumption DEF Typed
<1>1. CASE e \in Queries
  <2>1. /\ e.to = "responder" /\ e.msg = C!Query
        /\ e = [to |-> e.to, msg |-> e.msg, left |-> e.left]
    BY <1>1 DEF Queries
  <2> QED
    BY <1>0, <1>1, <2>1 DEF Mine, Own
<1>2. ASSUME e \notin Queries
      PROVE  /\ e.to = "client" /\ e = [to |-> e.to, msg |-> e.msg, left |-> e.left]
             /\ \E l \in 1..life, qid \in Qids :
                  e.msg = Reply(l, qid) /\ e.msg.id = Names[l] /\ e.msg.qid = qid
                  /\ C!Encodes(e.msg)
             /\ e \in Sent(life, Qid) <=> e.msg.id = Names[life] /\ e.msg.qid = Qid
  <2>1. PICK l \in 1..life, qid \in Qids : e \in Sent(l, qid) /\ C!Encodes(Reply(l, qid))
    BY <1>0, <1>2
  <2>2. /\ e.to = "client" /\ e.msg = Reply(l, qid)
        /\ e = [to |-> e.to, msg |-> e.msg, left |-> e.left]
    BY <2>1 DEF Sent
  <2>3. Reply(l, qid).id = Names[l] /\ Reply(l, qid).qid = qid
    BY <1>a, ReplyParts
  <2>4. Names[l] = Names[life] => l = life
    BY <1>a, DiscoveryAssumption
  <2>5. Reply(life, Qid).id = Names[life] /\ Reply(life, Qid).qid = Qid
    BY <1>a, DiscoveryAssumption, ReplyParts
  <2>6. e \in Sent(life, Qid) <=> e.msg.id = Names[life] /\ e.msg.qid = Qid
    <3>1. ASSUME e \in Sent(life, Qid) PROVE e.msg = Reply(life, Qid)
      BY <3>1 DEF Sent
    <3>2. ASSUME e.msg.id = Names[life], e.msg.qid = Qid PROVE l = life /\ qid = Qid
      BY <2>2, <2>3, <2>4, <3>2
    <3> QED
      BY <2>1, <2>5, <3>1, <3>2
  <2> QED
    BY <2>1, <2>2, <2>3, <2>6
<1>3. CASE e \notin Queries
  BY <1>0, <1>2, <1>3 DEF Mine, Own
<1> QED
  BY <1>1, <1>3

(* So far as counting goes, the network is a finite bag.                   *)
LEMMA NetBag == NetInv => ABag(net)
BY DEF NetInv, ABag

(* A life that opens its port has not answered anything.                   *)
LEMMA NumberWaiting ==
  ASSUME Typed, NetInv, rpc = "opening"
  PROVE  Number("responder") = Count(net, Own)
<1>1. Under("responder") = DOMAIN net \cap Own
  <2>1. ASSUME NEW e \in DOMAIN net PROVE e.to = "responder" <=> e \in Own
    <3>1. CASE e \in Queries
      BY <3>1, Parties DEF Own
    <3>2. CASE e \notin Queries
      <4>1. PICK l \in 1..life, qid \in Qids : e \in Sent(l, qid) /\ l # life
        BY <3>2 DEF NetInv
      <4>2. l \in DOMAIN Names /\ life \in DOMAIN Names
        BY DiscoveryAssumption DEF Typed
      <4>3. e.msg.id = Names[l] /\ Names[l] # Names[life]
        BY <4>1, <4>2, ReplyParts, DiscoveryAssumption DEF Sent
      <4> QED
        BY <3>2, <4>3, Parties DEF Own
    <3> QED
      BY <3>1, <3>2
  <2> QED
    BY <2>1 DEF Under, BagToSet
<1> QED
  BY <1>1 DEF Number, Count, Each

(* The responder's thread and its buffer.                                  *)
LEMMA ThreadStep ==
  ASSUME Typed, ThreadInv, R!Thread
  PROVE  ThreadInv'
<1> USE ComponentAssumption DEF ThreadInv, R!Goto, R!Drop, R!Looping, R!Late
<1>0. rcur \in Seq(Entries) /\ queue \in Seq(Entries) /\ Len(<<>>) = 0
  BY DEF Typed
<1>1. CASE R!OpenSocket \/ R!LoopTop \/ R!AnnounceTooLong \/ R!RecvTimesOut
  BY <1>0, <1>1 DEF R!OpenSocket, R!LoopTop, R!AnnounceTooLong, R!RecvTimesOut,
     R!appVars
<1>2. CASE R!SkipAnnounce
  BY <1>0, <1>2 DEF R!SkipAnnounce, R!EnterRecv, R!appVars
<1>3. CASE R!PeriodicAnnounce
  BY <1>3 DEF R!PeriodicAnnounce, R!AnnounceDue
<1>4. CASE R!RecvDatagram
  <2>1. Len(rcur') = 1
    BY <1>4 DEF R!RecvDatagram
  <2> QED
    BY <1>4, <2>1 DEF R!RecvDatagram, R!appVars
<1>5. CASE R!CheckStop \/ R!Discard \/ R!HandleRaises \/ R!Reply \/ R!ReplyTooLong
  BY <1>0, <1>5 DEF R!CheckStop, R!Discard, R!HandleRaises, R!Reply, R!ReplyTooLong,
     R!appVars
<1>6. CASE R!StartJitter
  BY <1>0, <1>6 DEF R!StartJitter, R!appVars
<1>7. CASE R!JitterEnds
  BY <1>0, <1>7 DEF R!JitterEnds, R!appVars
<1>8. CASE R!CloseSockets
  BY <1>0, <1>8 DEF R!CloseSockets, R!appVars
<1> QED
  BY <1>1, <1>2, <1>3, <1>4, <1>5, <1>6, <1>7, <1>8 DEF R!Thread

(* What reaches a buffer that is open.                                     *)
LEMMA ThreadEnqueue ==
  ASSUME Typed, ThreadInv, rpc \in R!Bound, NEW n, NEW m, R!Enqueue(n, m),
         UNCHANGED <<rpc, rcur, stopEvent>>, app' # "idle" => stopEvent
  PROVE  ThreadInv'
<1> USE ComponentAssumption DEF ThreadInv, R!Looping, R!Bound
<1>1. CASE Len(queue) < QueueCap
  <2>1. rleft' \in Nat /\ rleft' <= rleft /\ (rpc = "recv" => rleft' <= Lag)
    BY <1>1 DEF R!Enqueue, R!Earlier
  <2> QED
    BY <2>1
<1>2. CASE ~(Len(queue) < QueueCap)
  BY <1>2 DEF R!Enqueue
<1> QED
  BY <1>1, <1>2

LEMMA ThreadTick ==
  ASSUME Typed, ThreadInv, R!Tick
  PROVE  ThreadInv'
<1>1. /\ UNCHANGED <<rpc, app, stopEvent>>
      /\ rleft' = IF rpc \in R!Parked THEN rleft ELSE rleft - 1
      /\ rpc \in R!Parked \/ rleft > 0
      /\ queue' = [i \in DOMAIN queue |-> R!Older(queue[i])]
      /\ rcur' = [i \in DOMAIN rcur |-> R!Older(rcur[i])]
  BY DEF R!Tick
<1>2. rleft' \in Nat /\ rleft' <= rleft /\ rleft \in Nat
  BY <1>1 DEF ThreadInv
<1>3. /\ queue = <<>> <=> queue' = <<>>
      /\ rcur = <<>> <=> rcur' = <<>>
      /\ Len(rcur) <= 1 => Len(rcur') <= 1
  <2>0. queue \in Seq(Entries) /\ rcur \in Seq(Entries)
    BY DEF Typed
  <2>1. queue' \in Seq(Entries) /\ DOMAIN queue' = DOMAIN queue
    BY <1>1, <2>0, OlderEntries
  <2>2. rcur' \in Seq(Entries) /\ DOMAIN rcur' = DOMAIN rcur
    BY <1>1, <2>0, OlderEntries
  <2>3. ASSUME NEW s \in Seq(Entries), NEW t \in Seq(Entries), DOMAIN t = DOMAIN s
        PROVE  Len(t) = Len(s) /\ (s = <<>> <=> t = <<>>)
    <3>1. Len(t) = Len(s)
      BY <2>3
    <3> QED
      BY <3>1
  <2> QED
    BY <2>0, <2>1, <2>2, <2>3
<1> QED
  BY <1>1, <1>2, <1>3, ComponentAssumption DEF ThreadInv

(* Every step keeps the thread where its buffer says.                      *)
LEMMA ThreadInvStep ==
  ASSUME Typed, ThreadInv, [Next]_vars
  PROVE  ThreadInv'
<1>1. CASE UNCHANGED rvars
  BY <1>1 DEF ThreadInv, rvars
<1>2. CASE ResponderStep
  BY <1>2, ThreadStep DEF ResponderStep
<1>3. CASE Application
  BY <1>3, ComponentAssumption
     DEF Application, R!Start, R!StopSetsEvent, R!Goto, R!threadVars,
     R!appVars, ThreadInv
<1>4. CASE Restart
  <2>1. Len(<<>>) = 0
    OBVIOUS
  <2> QED
    BY <1>4, <2>1, ComponentAssumption DEF Restart, ThreadInv
<1>5. CASE Stopping
  <2>1. CASE R!JoinReturns
    BY <2>1 DEF R!JoinReturns, R!threadVars, ThreadInv
  <2>2. CASE R!StopPokes
    <3>1. /\ UNCHANGED <<rpc, rcur, stopEvent>> /\ app = "poking"
          /\ (rpc \in R!Bound /\ R!Enqueue(0, R!Poke)) \/ UNCHANGED <<queue, rleft>>
      BY <2>2 DEF R!StopPokes
    <3>2. stopEvent
      BY <3>1 DEF ThreadInv
    <3>3. CASE UNCHANGED <<queue, rleft>>
      BY <3>1, <3>2, <3>3 DEF ThreadInv
    <3> QED
      BY <3>1, <3>2, <3>3, ThreadEnqueue
  <2> QED
    BY <1>5, <2>1, <2>2 DEF Stopping, R!Stopping
<1>6. CASE ReachResponder
  <2>1. PICK e : \/ rpc \in R!Bound /\ R!Enqueue(arrivals + 1, e.msg)
                 \/ UNCHANGED <<queue, rleft>>
    BY <1>6 DEF ReachResponder
  <2>2. UNCHANGED <<rpc, rcur, stopEvent, app>>
    BY <1>6 DEF ReachResponder
  <2>3. CASE UNCHANGED <<queue, rleft>>
    BY <2>2, <2>3 DEF ThreadInv
  <2>4. app' # "idle" => stopEvent
    BY <2>2 DEF ThreadInv
  <2> QED
    BY <2>1, <2>2, <2>3, <2>4, ThreadEnqueue
<1>7. CASE DisturbResponder
  <2>1. PICK m : R!Enqueue(arrivals + 1, m)
    BY <1>7 DEF DisturbResponder
  <2>2. UNCHANGED <<rpc, rcur, stopEvent, app>> /\ rpc \in R!Bound
    BY <1>7 DEF DisturbResponder
  <2>3. app' # "idle" => stopEvent
    BY <2>2 DEF ThreadInv
  <2> QED
    BY <2>1, <2>2, <2>3, ThreadEnqueue
<1>8. CASE Tick
  BY <1>8, ThreadTick DEF Tick
<1> QED
  BY <1>1, <1>2, <1>3, <1>4, <1>5, <1>6, <1>7, <1>8
  DEF Next, vars, Network, ClientStep, ReachClient, Lose, Duplicate, DisturbClient

-----------------------------------------------------------------------------
(* The datagrams under way.                                                *)

(* How a step of the call sends.                                           *)
LEMMA ClientSends ==
  ASSUME ClientStep
  PROVE  \E n \in Nat :
           /\ net' = net (+) Times(n, Token("responder", C!Query))
           /\ offered' = offered + n
           /\ n <= 1 + Broadcasts
           /\ n # 0 => C!SendAll
<1> DEFINE reaching == {i \in DOMAIN wire' : wire'[i].route \in routes}
           n == IF wire' = wire THEN 0 ELSE Cardinality(reaching)
<1>1. /\ net' = net (+) Times(n, Token("responder", C!Query))
      /\ offered' = offered + n
  BY DEF ClientStep
<1>2. CASE C!SendAll
  <2>1. PICK accepted \in 0..Broadcasts : DOMAIN wire' = 1..1 + accepted
    BY <1>2 DEF C!SendAll
  <2>2. accepted \in Nat /\ accepted <= Broadcasts /\ Broadcasts \in Nat
    BY ComponentAssumption
  <2>3. 1 \in Int /\ 1 + accepted \in Int /\ ~(1 > 1 + accepted) /\ (1 + accepted) - 1 + 1 = 1 + accepted
    BY <2>2
  <2>4. IsFiniteSet(1..1 + accepted) /\ Cardinality(1..1 + accepted) = 1 + accepted
    BY <2>3, FS_Interval
  <2>5. reaching \subseteq 1..1 + accepted
    BY <2>1
  <2> HIDE DEF reaching
  <2>6. IsFiniteSet(reaching) /\ Cardinality(reaching) <= 1 + accepted
    BY <2>4, <2>5, FS_Subset
  <2>7. Cardinality(reaching) \in Nat
    BY <2>6, FS_CardinalityType
  <2>8. n \in Nat /\ n <= 1 + Broadcasts
    BY <2>2, <2>6, <2>7
  <2> HIDE DEF n
  <2> QED
    BY <1>1, <1>2, <2>8
<1>3. CASE ~C!SendAll
  <2>1. wire' = wire \/ wire' = <<>>
    BY <1>3 DEF ClientStep, C!Call, C!Open, C!LookAtClock, C!SendFails, C!Arm,
       C!RecvDatagram, C!RecvTimesOut, C!Keep, C!Kept, C!Ignore, C!HandleRaises, C!Close
  <2>2. wire' = <<>> => reaching = {}
    OBVIOUS
  <2>3. n = 0
    BY <2>1, <2>2, FS_EmptySet
  <2>4. 0 <= 1 + Broadcasts
    BY ComponentAssumption
  <2> HIDE DEF n
  <2> QED
    BY <1>1, <2>3, <2>4
<1> QED
  BY <1>2, <1>3

(* What is put on the network, and what is taken off it.                   *)
LEMMA NetAdd ==
  ASSUME Typed, NetInv, UNCHANGED <<life, rpc>> \/ (life' = life /\ rpc' \notin {"new", "opening"}),
         NEW n \in Nat, NEW e, net' = net (+) Times(n, e),
         n # 0 => /\ e.left \in 0..MaxDelay
                  /\ \/ e \in Queries
                     \/ \E qid \in Qids :
                          /\ e \in Sent(life, qid) /\ C!Encodes(Reply(life, qid))
                          /\ rpc' \notin {"new", "opening"}
                     \/ e \in DOMAIN net
  PROVE  NetInv'
<1>0. ABag(net)
  BY NetBag
<1>1. /\ ABag(net') /\ \A x : x \in DOMAIN net' <=> x \in DOMAIN net \/ (n # 0 /\ x = e)
  BY <1>0, AddedBag
<1>2. life \in 1..life
  BY DiscoveryAssumption DEF Typed
<1>3. ASSUME NEW x \in DOMAIN net
      PROVE  /\ x.left \in 0..MaxDelay
             /\ \/ x \in Queries
                \/ \E l \in 1..life', qid \in Qids :
                     /\ x \in Sent(l, qid) /\ C!Encodes(Reply(l, qid))
                     /\ l = life' => rpc' \notin {"new", "opening"}
  BY <1>3 DEF NetInv
<1>4. ASSUME NEW x \in DOMAIN net'
      PROVE  /\ x.left \in 0..MaxDelay
             /\ \/ x \in Queries
                \/ \E l \in 1..life', qid \in Qids :
                     /\ x \in Sent(l, qid) /\ C!Encodes(Reply(l, qid))
                     /\ l = life' => rpc' \notin {"new", "opening"}
  BY <1>1, <1>2, <1>3
<1> QED
  BY <1>1, <1>4 DEF NetInv, ABag, Queries, Sent, Reply

(* A datagram less, and all of them older by one unit.                     *)
LEMMA NetTake ==
  ASSUME Typed, NetInv, UNCHANGED <<life, rpc>>,
         NEW e \in DOMAIN net, net' = net (-) Times(1, e)
  PROVE  NetInv'
<1>1. ABag(net') /\ DOMAIN net' \subseteq DOMAIN net
  BY NetBag, CountTake
<1> QED
  BY <1>1 DEF NetInv, ABag, Queries, Sent, Reply

(* What a datagram is when it is older.                                    *)
LEMMA AgedParts ==
  ASSUME Typed, NetInv, NEW e \in DOMAIN net
  PROVE  /\ Fresh(Aged(e)) = e
         /\ Aged(e).to = e.to /\ Aged(e).msg = e.msg /\ Aged(e).left = e.left - 1
         /\ e \in Queries <=> Aged(e) \in Queries
         /\ \A l, qid : e \in Sent(l, qid) <=> Aged(e) \in Sent(l, qid)
<1>1. e = [to |-> e.to, msg |-> e.msg, left |-> e.left] /\ e.left \in Int
  BY Parties
<1>2. Aged(e) = [to |-> e.to, msg |-> e.msg, left |-> e.left - 1]
  BY <1>1 DEF Aged
<1>3. Fresh(Aged(e)) = [to |-> e.to, msg |-> e.msg, left |-> e.left - 1 + 1]
  BY <1>2 DEF Fresh
<1>4. e.left - 1 + 1 = e.left /\ e.left - 1 \in Int
  BY <1>1
<1> HIDE DEF Aged
<1>5. e \in Queries <=> Aged(e) \in Queries
  BY <1>1, <1>2, <1>4 DEF Queries
<1>6. \A l, qid : e \in Sent(l, qid) <=> Aged(e) \in Sent(l, qid)
  BY <1>1, <1>2, <1>4 DEF Sent
<1> QED
  BY <1>1, <1>2, <1>3, <1>4, <1>5, <1>6

LEMMA NetAged ==
  ASSUME Typed, NetInv, UNCHANGED <<life, rpc>>, \A e \in BagToSet(net) : e.left > 0,
         net' = [e \in {Aged(f) : f \in BagToSet(net)} |-> net[Fresh(e)]]
  PROVE  /\ NetInv'
         /\ \A S : (\A e \in DOMAIN net : e \in S <=> Aged(e) \in S)
                     => Count(net', S) = Count(net, S)
<1>0. BagToSet(net) = DOMAIN net
  BY DEF BagToSet
<1>1. ABag(net) /\ \A e \in DOMAIN net : Fresh(Aged(e)) = e
  BY NetBag, AgedParts
<1>2. /\ ABag(net')
      /\ \A S : (\A e \in DOMAIN net : e \in S <=> Aged(e) \in S)
                  => Count(net', S) = Count(net, S)
  BY <1>0, <1>1, CountAged
<1>3. ASSUME NEW x \in DOMAIN net'
      PROVE  /\ x.left \in 0..MaxDelay
             /\ \/ x \in Queries
                \/ \E l \in 1..life, qid \in Qids :
                     /\ x \in Sent(l, qid) /\ C!Encodes(Reply(l, qid))
                     /\ l = life => rpc \notin {"new", "opening"}
  <2>1. PICK e \in DOMAIN net : x = Aged(e)
    BY <1>0
  <2>2. e.left > 0 /\ e.left \in 0..MaxDelay /\ MaxDelay \in Nat
    BY <1>0, ComponentAssumption DEF NetInv
  <2>3. x.left \in 0..MaxDelay
    BY <2>1, <2>2, AgedParts
  <2> QED
    BY <2>1, <2>3, AgedParts DEF NetInv
<1> QED
  BY <1>2, <1>3 DEF NetInv, ABag, Queries, Sent, Reply

(* What a step of the responder does to what is counted.                   *)
LEMMA ThreadCounts ==
  ASSUME Inv, ThreadInv, R!Thread
  PROVE  /\ \/ queue' = queue /\ rcur' = rcur
            \/ queue' = queue /\ rcur' = <<>>
            \/ queue # <<>> /\ queue' = Tail(queue) /\ rcur = <<>> /\ rcur' = <<Head(queue)>>
            \/ queue' = <<>> /\ rcur' = rcur
         /\ rpc = "reply" => \/ queue' = queue /\ rcur' = <<>> /\ rpc' = "top"
                             \/ queue' = queue /\ rcur' = rcur /\ sent' = sent /\ rpc' = "closing"
         /\ rpc \notin {"new", "opening"} => rpc' \notin {"new", "opening"}
         /\ rpc # "reply" => sent' = sent
         /\ rpc = "opening" => queue' = queue /\ rcur' = rcur
<1> USE DEF R!Goto, R!Drop, R!EnterRecv, R!Late, ThreadInv
<1>1. CASE R!RecvDatagram
  BY <1>1 DEF R!RecvDatagram
<1>2. CASE R!PeriodicAnnounce \/ R!AnnounceTooLong
  BY <1>2 DEF R!PeriodicAnnounce, R!AnnounceTooLong, R!AnnounceDue
<1>3. CASE R!OpenSocket \/ R!LoopTop \/ R!SkipAnnounce \/ R!RecvTimesOut
             \/ R!Discard \/ R!HandleRaises \/ R!CloseSockets
  BY <1>3 DEF R!OpenSocket, R!LoopTop, R!SkipAnnounce, R!RecvTimesOut,
       R!Discard, R!HandleRaises, R!CloseSockets
<1>4. CASE R!CheckStop \/ R!StartJitter \/ R!JitterEnds
  BY <1>4 DEF R!CheckStop, R!StartJitter, R!JitterEnds
<1>5. CASE R!Reply
  <2>1. queue' = queue /\ rcur' = <<>> /\ rpc = "reply" /\ rpc' = "top"
    BY <1>5 DEF R!Reply
  <2> QED
    BY <2>1
<1>6. CASE R!ReplyTooLong
  <2>1. queue' = queue /\ rcur' = rcur /\ sent' = sent /\ rpc = "reply"
          /\ rpc' = "closing"
    BY <1>6 DEF R!ReplyTooLong
  <2> QED
    BY <2>1
<1> QED
  BY <1>1, <1>2, <1>3, <1>4, <1>5, <1>6 DEF R!Thread

(* How many of the call's queries a buffer and a thread have.              *)
LEMMA WaitingTyped ==
  ASSUME Typed
  PROVE  /\ Waiting \in Nat /\ Asks(queue) \in Nat /\ Asks(rcur) \in Nat
         /\ Asks(queue) <= Len(queue) /\ Asks(rcur) <= Len(rcur)
<1>1. queue \in Seq(Entries) /\ rcur \in Seq(Entries)
  BY DEF Typed
<1>2. Asks(queue) \in Nat /\ Asks(queue) <= Len(queue)
  BY <1>1, AsksTyped
<1>3. Asks(rcur) \in Nat /\ Asks(rcur) <= Len(rcur)
  BY <1>1, AsksTyped
<1> QED
  BY <1>2, <1>3 DEF Waiting

(* One that is taken up is counted in hand.                                *)
LEMMA HeadCounts ==
  ASSUME Typed, queue # <<>>
  PROVE  Asks(queue) = Asks(Tail(queue)) + Asks(<<Head(queue)>>)
<1>1. queue \in Seq(Entries)
  BY DEF Typed
<1>2. Head(queue) = queue[1] /\ Head(queue) \in Entries /\ Tail(queue) \in Seq(Entries)
  BY <1>1, TailParts
<1>3. Asks(Tail(queue)) \in Nat
  BY <1>2, AsksTyped
<1>4. CASE Head(queue).msg = C!Query
  <2>1. Asks(queue) = Asks(Tail(queue)) + 1
    BY <1>1, <1>2, <1>4, AsksTail
  <2>2. Asks(<<Head(queue)>>) = 1
    BY <1>2, <1>4, AsksOne
  <2> QED
    BY <2>1, <2>2
<1>5. CASE Head(queue).msg # C!Query
  <2>1. Asks(queue) = Asks(Tail(queue))
    BY <1>1, <1>2, <1>5, AsksTail
  <2>2. Asks(<<Head(queue)>>) = 0
    BY <1>2, <1>5, AsksOne
  <2> QED
    BY <1>3, <2>1, <2>2
<1> QED
  BY <1>4, <1>5

LEMMA OneLong ==
  ASSUME NEW S, NEW s \in Seq(S), Len(s) <= 1, s # <<>>
  PROVE  Len(s) = 1 /\ s = <<s[1]>> /\ s[1] \in S
<1>1. Len(s) \in Nat /\ DOMAIN s = 1..Len(s)
  OBVIOUS
<1>2. Len(s) # 0
  OBVIOUS
<1>3. Len(s) = 1
  BY <1>1, <1>2
<1> QED
  BY <1>3

(* There is at most one datagram in hand.                                  *)
LEMMA HandCounts ==
  ASSUME Typed, ThreadInv
  PROVE  /\ rcur = <<>> => Asks(rcur) = 0
         /\ rcur # <<>> => /\ rcur = <<rcur[1]>> /\ rcur[1] \in Entries
                           /\ rcur[1].msg = C!Query => Asks(rcur) = 1
                           /\ rcur[1].msg # C!Query => Asks(rcur) = 0
         /\ Asks(rcur) <= 1
<1>1. rcur = <<>> => Asks(rcur) = 0
  BY AsksNone
<1>2. rcur # <<>> => rcur = <<rcur[1]>> /\ rcur[1] \in Entries
  <2>1. rcur \in Seq(Entries) /\ Len(rcur) <= 1
    BY DEF Typed, ThreadInv
  <2> QED
    BY <2>1, OneLong
<1>3. ASSUME rcur # <<>>
      PROVE  /\ rcur[1].msg = C!Query => Asks(rcur) = 1
             /\ rcur[1].msg # C!Query => Asks(rcur) = 0
  <2>1. /\ rcur[1].msg = C!Query => Asks(<<rcur[1]>>) = 1
        /\ rcur[1].msg # C!Query => Asks(<<rcur[1]>>) = 0
    BY <1>2, <1>3, AsksOne
  <2> QED
    BY <1>2, <1>3, <2>1
<1> QED
  BY <1>1, <1>2, <1>3

(* Its steps only lose of them what they have in hand.                     *)
LEMMA ThreadWaiting ==
  ASSUME Inv, ThreadInv, R!Thread
  PROVE  /\ Waiting' \in Nat /\ Waiting \in Nat /\ Waiting' <= Waiting
         /\ rcur' = rcur /\ queue' = queue => Waiting' = Waiting
         /\ rpc = "reply" /\ rpc' = "top" => Waiting' = Waiting - Asks(rcur)
         /\ rcur' # rcur /\ rcur' # <<>> => Waiting' = Waiting
<1>1. Typed
  BY DEF Inv
<1>2. Waiting \in Nat /\ Asks(queue) \in Nat /\ Asks(rcur) \in Nat
  BY <1>1, WaitingTyped
<1>3. Waiting' = Asks(queue') + Asks(rcur') /\ Waiting = Asks(queue) + Asks(rcur)
  BY DEF Waiting, Asks
<1>4. CASE queue' = queue /\ rcur' = rcur
  <2>1. Asks(queue') = Asks(queue) /\ Asks(rcur') = Asks(rcur)
    BY <1>4
  <2>2. rpc = "reply" /\ rpc' = "top" => Asks(rcur) = 0
    BY <1>4, ThreadCounts, AsksNone
  <2> QED
    BY <1>2, <1>3, <1>4, <2>1, <2>2
<1>5. CASE queue' = queue /\ rcur' = <<>>
  <2>1. Asks(queue') = Asks(queue) /\ Asks(rcur') = 0
    BY <1>5, AsksNone
  <2>2. rcur' = rcur => Asks(rcur) = 0
    BY <1>5, AsksNone
  <2> QED
    BY <1>2, <1>3, <1>5, <2>1, <2>2
<1>6. CASE queue # <<>> /\ queue' = Tail(queue) /\ rcur = <<>> /\ rcur' = <<Head(queue)>>
  <2>1. Asks(queue) = Asks(queue') + Asks(rcur') /\ Asks(rcur) = 0
    BY <1>1, <1>6, HeadCounts, AsksNone
  <2>2. rpc # "reply"
    BY <1>6, ThreadCounts
  <2>3. rcur' # rcur
    BY <1>6
  <2> QED
    BY <1>2, <1>3, <2>1, <2>2, <2>3
<1>7. CASE queue' = <<>> /\ rcur' = rcur /\ queue' # queue
  <2>1. Asks(queue') = 0 /\ Asks(rcur') = Asks(rcur)
    BY <1>7, AsksNone
  <2>2. rpc # "reply"
    BY <1>7, ThreadCounts
  <2> QED
    BY <1>2, <1>3, <1>7, <2>1, <2>2
<1> QED
  BY <1>4, <1>5, <1>6, <1>7, ThreadCounts

(* What reaches the buffer is counted in it.                               *)
LEMMA EnqueueWaiting ==
  ASSUME Typed, NEW n \in Nat, NEW m \in Asked, R!Enqueue(n, m), rcur' = rcur
  PROVE  /\ Waiting' \in Nat /\ Waiting \in Nat
         /\ m # C!Query => Waiting' = Waiting
         /\ Waiting' <= Waiting + 1
         /\ Len(queue) < QueueCap /\ m = C!Query => Waiting' = Waiting + 1
<1>1. R!Fresh(n, m) \in Entries /\ R!Fresh(n, m).msg = m
  BY DEF R!Fresh, Entries
<1>2. queue \in Seq(Entries) /\ Asks(queue) \in Nat /\ Asks(rcur) \in Nat
  BY WaitingTyped DEF Typed
<1>3. Waiting' = Asks(queue') + Asks(rcur) /\ Waiting = Asks(queue) + Asks(rcur)
  BY DEF Waiting, Asks
<1>4. CASE Len(queue) < QueueCap
  <2>1. queue' = Append(queue, R!Fresh(n, m))
    BY <1>4 DEF R!Enqueue
  <2>2. /\ m = C!Query => Asks(queue') = Asks(queue) + 1
        /\ m # C!Query => Asks(queue') = Asks(queue)
    BY <1>1, <1>2, <2>1, AsksAppend
  <2> QED
    BY <1>2, <1>3, <2>2
<1>5. CASE ~(Len(queue) < QueueCap)
  <2>1. Asks(queue') = Asks(queue)
    BY <1>5 DEF R!Enqueue
  <2> QED
    BY <1>2, <1>3, <1>5, <2>1
<1> QED
  BY <1>4, <1>5

(* Time leaves them as they are.                                           *)
LEMMA TickWaiting ==
  ASSUME Typed, R!Tick
  PROVE  /\ Waiting' = Waiting /\ Waiting \in Nat
         /\ Len(queue') = Len(queue) /\ Len(rcur') = Len(rcur)
         /\ DOMAIN queue' = DOMAIN queue /\ DOMAIN rcur' = DOMAIN rcur
         /\ \A i \in DOMAIN queue : queue'[i].msg = queue[i].msg
         /\ \A i \in DOMAIN rcur : rcur'[i].msg = rcur[i].msg
<1>1. queue \in Seq(Entries) /\ rcur \in Seq(Entries)
  BY DEF Typed
<1>2. queue' = [i \in DOMAIN queue |-> R!Older(queue[i])]
      /\ rcur' = [i \in DOMAIN rcur |-> R!Older(rcur[i])]
  BY DEF R!Tick
<1>3. /\ queue' \in Seq(Entries) /\ DOMAIN queue' = DOMAIN queue
      /\ \A i \in DOMAIN queue : queue'[i].msg = queue[i].msg
  BY <1>1, <1>2, OlderEntries
<1>4. /\ rcur' \in Seq(Entries) /\ DOMAIN rcur' = DOMAIN rcur
      /\ \A i \in DOMAIN rcur : rcur'[i].msg = rcur[i].msg
  BY <1>1, <1>2, OlderEntries
<1>5. Asks(queue') = Asks(queue) /\ Asks(rcur') = Asks(rcur)
  BY <1>3, <1>4, AsksSame
<1>6. Waiting' = Asks(queue') + Asks(rcur') /\ Waiting = Asks(queue) + Asks(rcur)
  BY DEF Waiting, Asks
<1>7. Len(queue') = Len(queue) /\ Len(rcur') = Len(rcur)
  BY <1>1, <1>3, <1>4
<1> QED
  BY <1>3, <1>4, <1>5, <1>6, <1>7, WaitingTyped

LEMMA NetSame ==
  ASSUME Typed, NetInv, net' = net, life' = life,
         rpc' \in {"new", "opening"} => rpc \in {"new", "opening"}
  PROVE  NetInv'
BY DEF NetInv, Queries, Sent, Reply

(* What is put on its way when the client asks and the responder replies.  *)
LEMMA TokenParts ==
  ASSUME Typed
  PROVE  /\ Token("responder", C!Query) \in Queries
         /\ Token("responder", C!Query).left = MaxDelay /\ MaxDelay \in 0..MaxDelay
         /\ \A qid \in Qids : /\ Token("client", Says(qid)) \in Sent(life, qid)
                              /\ Says(qid) = Reply(life, qid)
                              /\ Token("client", Says(qid)).to = "client"
                              /\ Token("client", Says(qid)).left = MaxDelay
                              /\ Token("client", Says(qid)).msg = Says(qid)
<1>1. MaxDelay \in Int /\ MaxDelay \in Nat
  BY ComponentAssumption
<1> QED
  BY <1>1 DEF Token, Queries, Sent, Says, Reply

(* What a reply puts on its way, and what is counted of it.                *)
LEMMA ReplySends ==
  ASSUME Inv, ThreadInv, ResponderStep
  PROVE  \/ net' = net
         \/ /\ rpc = "reply" /\ rpc' = "top" /\ rcur # <<>>
            /\ rcur[1].msg.from = Asker /\ rcur[1].msg.qid \in Qids
            /\ C!Encodes(Says(rcur[1].msg.qid))
            /\ rcur[1].msg.qid = Qid => rcur[1].msg = C!Query
            /\ net' = net (+) Times(1, Token("client", Says(rcur[1].msg.qid)))
<1> SUFFICES ASSUME net' # net
             PROVE  /\ rpc = "reply" /\ rpc' = "top" /\ rcur # <<>>
                    /\ rcur[1].msg.from = Asker /\ rcur[1].msg.qid \in Qids
                    /\ C!Encodes(Says(rcur[1].msg.qid))
                    /\ rcur[1].msg.qid = Qid => rcur[1].msg = C!Query
                    /\ net' = net (+) Times(1, Token("client", Says(rcur[1].msg.qid)))
  OBVIOUS
<1>1. /\ R!Thread /\ rpc = "reply" /\ sent' # sent /\ rcur[1].msg.from = Asker
      /\ net' = net (+) Times(1, Token("client", Says(rcur[1].msg.qid)))
  BY DEF ResponderStep
<1>2. R!Reply
  BY <1>1 DEF R!Thread, R!OpenSocket, R!LoopTop, R!SkipAnnounce, R!PeriodicAnnounce,
     R!AnnounceTooLong, R!RecvDatagram, R!RecvTimesOut, R!CheckStop, R!Discard,
     R!HandleRaises, R!StartJitter, R!JitterEnds, R!ReplyTooLong, R!CloseSockets
<1>3. rpc' = "top" /\ R!Encodes(R!Announce(rcur[1].msg.qid))
  BY <1>2 DEF R!Reply, R!Goto
<1>4. rcur # <<>> /\ R!Answerable(rcur[1].msg, Self.fields) /\ rcur \in Seq(Entries)
  BY <1>1 DEF Inv, Typed, Origin
<1>5. rcur[1].msg.type = "DISCOVER" /\ rcur[1].msg.qid \in Qids
  BY <1>4, AnswerableAsks
<1>6. rcur[1].msg \in Asked
  <2>1. 1 \in DOMAIN rcur
    BY <1>4, TailParts
  <2>2. rcur[1] \in Entries
    BY <1>4, <2>1
  <2> QED
    BY <2>2 DEF Entries
<1>7. rcur[1].msg.qid = Qid => rcur[1].msg = C!Query
  BY <1>5, <1>6, OnlyQuery
<1>8. C!Encodes(Says(rcur[1].msg.qid))
  <2>1. \A q : Says(q).size = R!Announce(q).size
    BY DEF Says, R!Announce, R!BuildAnnounce
  <2> QED
    BY <1>3, <2>1 DEF C!Encodes, R!Encodes
<1> QED
  BY <1>1, <1>3, <1>4, <1>5, <1>7, <1>8

(* Every step keeps what may be under way.                                 *)
LEMMA NetStep ==
  ASSUME Inv, NetInv, ThreadInv, [Next]_vars
  PROVE  NetInv'
<1>0. Typed /\ BagToSet(net) = DOMAIN net
  BY DEF Inv, BagToSet
<1>1. CASE ClientStep
  <2>1. PICK n \in Nat : net' = net (+) Times(n, Token("responder", C!Query))
    BY <1>1, ClientSends
  <2>2. UNCHANGED <<life, rpc>>
    BY <1>1 DEF ClientStep, rvars
  <2> QED
    BY <1>0, <2>1, <2>2, NetAdd, TokenParts
<1>2. CASE ResponderStep
  <2>1. R!Thread /\ life' = life
    BY <1>2 DEF ResponderStep
  <2>2. rpc' \in {"new", "opening"} => rpc \in {"new", "opening"}
    BY <2>1, ThreadCounts
  <2>3. CASE net' = net
    BY <1>0, <2>1, <2>2, <2>3, NetSame
  <2>4. CASE net' # net
    <3> DEFINE qid == rcur[1].msg.qid
               e   == Token("client", Says(qid))
    <3>1. /\ rpc' = "top" /\ qid \in Qids /\ C!Encodes(Says(qid))
          /\ net' = net (+) Times(1, e)
      BY <1>2, <2>4, ReplySends
    <3>2. e \in Sent(life, qid) /\ C!Encodes(Reply(life, qid)) /\ e.left \in 0..MaxDelay
      BY <1>0, <3>1, TokenParts
    <3> HIDE DEF e, qid
    <3>3. \E q \in Qids : /\ e \in Sent(life, q) /\ C!Encodes(Reply(life, q))
                          /\ rpc' \notin {"new", "opening"}
      BY <3>1, <3>2
    <3>4. 1 \in Nat /\ (life' = life /\ rpc' \notin {"new", "opening"})
      BY <2>1, <3>1
    <3> QED
      BY <1>0, <3>1, <3>2, <3>3, <3>4, NetAdd
  <2> QED
    BY <2>3, <2>4
<1>3. CASE Restart
  <2>1. net' = net /\ life' = life + 1 /\ life \in Nat
    BY <1>0, <1>3, DiscoveryAssumption DEF Restart, Typed
  <2>2. \A l \in 1..life : l \in 1..life' /\ l # life'
    BY <2>1
  <2> QED
    BY <2>1, <2>2 DEF NetInv, Queries, Sent, Reply
<1>4. CASE ReachResponder \/ ReachClient \/ Lose
  <2>1. UNCHANGED <<life, rpc>> /\ \E e \in DOMAIN net : net' = net (-) Times(1, e)
    BY <1>0, <1>4 DEF ReachResponder, ReachClient, Lose, rvars, Under
  <2> QED
    BY <1>0, <2>1, NetTake
<1>5. CASE Duplicate
  <2>1. UNCHANGED <<life, rpc>>
    BY <1>5 DEF Duplicate, rvars
  <2>2. PICK e \in DOMAIN net : net' = net (+) Times(1, e)
    BY <1>0, <1>5 DEF Duplicate
  <2>3. e.left \in 0..MaxDelay /\ 1 \in Nat
    BY DEF NetInv
  <2> QED
    BY <1>0, <2>1, <2>2, <2>3, NetAdd
<1>6. CASE Tick
  BY <1>0, <1>6, NetAged DEF Tick, R!Tick
<1>7. CASE Application \/ Stopping \/ DisturbResponder \/ DisturbClient \/ UNCHANGED vars
  <2>1. net' = net /\ life' = life
    BY <1>7 DEF Application, Stopping, DisturbResponder, DisturbClient, vars, nvars
  <2>2. rpc' \in {"new", "opening"} => rpc \in {"new", "opening"}
    BY <1>7 DEF Application, R!Start, R!StopSetsEvent, R!threadVars, R!Goto, Stopping,
       R!Stopping, R!StopPokes, R!JoinReturns, DisturbResponder, DisturbClient,
       vars, rvars
  <2> QED
    BY <1>0, <2>1, <2>2, NetSame
<1> QED
  BY <1>1, <1>2, <1>3, <1>4, <1>5, <1>6, <1>7 DEF Next, Network

-----------------------------------------------------------------------------
(* The balance of the exchanges.                                           *)

(* Within a life the same datagrams are counted.                           *)
LEMMA OwnSame ==
  ASSUME life' = life
  PROVE  Own' = Own
BY DEF Own, Queries, Sent, Reply

(* A datagram of a kind more, or less.                                     *)
LEMMA CountOne ==
  ASSUME NetInv, NEW e, net' = net (+) Times(1, e), NEW S
  PROVE  /\ Count(net, S) \in Nat /\ Count(net', S) \in Nat
         /\ e \in S => Count(net', S) = Count(net, S) + 1
         /\ e \notin S => Count(net', S) = Count(net, S)
<1>1. ABag(net) /\ 1 \in Nat
  BY NetBag
<1>2. Count(net', S) = Count(net, S) + (IF e \in S THEN 1 ELSE 0)
  BY <1>1, CountAdd
<1>3. Count(net, S) \in Nat
  BY <1>1, EachFinite
<1> QED
  BY <1>2, <1>3

LEMMA CountLess ==
  ASSUME NetInv, NEW e \in DOMAIN net, net' = net (-) Times(1, e), NEW S
  PROVE  /\ Count(net, S) \in Nat /\ Count(net', S) \in Nat
         /\ e \in S => Count(net', S) = Count(net, S) - 1
         /\ e \notin S => Count(net', S) = Count(net, S)
<1>1. ABag(net)
  BY NetBag
<1>2. ABag(net') /\ Count(net, S) = Count(net', S) + (IF e \in S THEN 1 ELSE 0)
  BY <1>1, CountTake
<1>3. Count(net, S) \in Nat /\ Count(net', S) \in Nat
  BY <1>1, <1>2, EachFinite
<1> QED
  BY <1>2, <1>3

LEMMA NetCounted ==
  ASSUME NetInv, NEW S
  PROVE  Count(net, S) \in Nat
BY NetBag, EachFinite

(* What keeps the balance even: an exchange that is offered is under way,  *)
(* one that arrives waits, and one that is lost is counted.                *)
LEMMA ExchangesKept ==
  ASSUME Inv, NetInv, lost \in Nat, offered \in Nat,
         \/ ClientStep \/ ReachResponder \/ Lose \/ Duplicate \/ Tick
         \/ Application \/ Stopping \/ DisturbResponder \/ DisturbClient
         \/ UNCHANGED vars
  PROVE  /\ offered' \in Nat /\ lost' \in Nat
         /\ Count(net', Own') \in Nat /\ Waiting' \in Nat
         /\ lost' + Count(net', Own') + Waiting' + offered
              = lost + Count(net, Own) + Waiting + offered'
<1>0. Typed /\ BagToSet(net) = DOMAIN net
  BY DEF Inv, BagToSet
<1> DEFINE Now == Count(net, Own)
<1>a. /\ offered \in Nat /\ Now \in Nat /\ Waiting \in Nat
  BY <1>0, NetCounted, WaitingTyped
<1>b. Own' = Own
  <2>1. life' = life
    BY DEF ClientStep, ReachResponder, Lose, Duplicate, Tick, Application, Stopping,
       DisturbResponder, DisturbClient, vars, nvars
  <2> QED
    BY <2>1, OwnSame
<1>1. CASE ClientStep
  <2>1. PICK n \in Nat : /\ net' = net (+) Times(n, Token("responder", C!Query))
                         /\ offered' = offered + n
    BY <1>1, ClientSends
  <2>2. UNCHANGED <<lost, queue, rcur>>
    BY <1>1 DEF ClientStep, rvars
  <2>3. Waiting' = Waiting
    BY <2>2 DEF Waiting, Asks
  <2>4. Token("responder", C!Query) \in Own
    BY <1>0, TokenParts DEF Own
  <2>5. Count(net', Own) = Now + n
    BY <2>1, <2>4, NetBag, CountAdd
  <2> HIDE DEF Now
  <2> QED
    BY <1>a, <1>b, <2>1, <2>2, <2>3, <2>5 DEF Now
<1>2. CASE ReachResponder
  <2>1. UNCHANGED <<rcur, offered>>
    BY <1>2 DEF ReachResponder
  <2>2. PICK e \in Under("responder") :
          /\ net' = net (-) Times(1, e)
          /\ \/ Len(queue) < QueueCap /\ R!Enqueue(arrivals + 1, e.msg) /\ lost' = lost
             \/ lost' = lost + 1 /\ queue' = queue
    BY <1>2 DEF ReachResponder
  <2>3. e \in DOMAIN net /\ e \in Queries /\ e \in Own /\ e.msg = C!Query
    BY <1>0, <2>2, Parties DEF Under, Own
  <2>4. Count(net', Own) = Now - 1 /\ Count(net', Own) \in Nat
    BY <2>2, <2>3, CountLess
  <2>5. CASE Len(queue) < QueueCap /\ R!Enqueue(arrivals + 1, e.msg) /\ lost' = lost
    <3>1. arrivals + 1 \in Nat /\ C!Query \in Asked
      BY <1>0 DEF Typed, Asked
    <3>2. Waiting' = Waiting + 1
      BY <1>0, <2>1, <2>3, <2>5, <3>1, EnqueueWaiting
    <3> QED
      BY <1>a, <1>b, <2>1, <2>4, <2>5, <3>2
  <2>6. CASE lost' = lost + 1 /\ queue' = queue
    <3>1. Waiting' = Waiting
      BY <2>1, <2>6 DEF Waiting, Asks
    <3> QED
      BY <1>a, <1>b, <2>1, <2>4, <2>6, <3>1
  <2> QED
    BY <2>2, <2>5, <2>6
<1>3. CASE Lose
  <2>1. UNCHANGED <<queue, rcur, offered>>
    BY <1>3 DEF Lose, rvars
  <2>2. PICK e \in DOMAIN net : net' = net (-) Times(1, e) /\ LostOne(e)
    BY <1>0, <1>3 DEF Lose
  <2>3. Mine(e) <=> e \in Own
    BY <1>0, Parties
  <2>4. /\ Count(net', Own) \in Nat
        /\ e \in Own => Count(net', Own) = Now - 1
        /\ e \notin Own => Count(net', Own) = Now
    BY <2>2, CountLess
  <2>5. Waiting' = Waiting
    BY <2>1 DEF Waiting, Asks
  <2>6. lost' = IF e \in Own THEN lost + 1 ELSE lost
    BY <2>2, <2>3 DEF LostOne
  <2> HIDE DEF Now
  <2> QED
    BY <1>a, <1>b, <2>1, <2>4, <2>5, <2>6 DEF Now
<1>4. CASE Duplicate
  <2>1. UNCHANGED <<queue, rcur, lost>>
    BY <1>4 DEF Duplicate, rvars
  <2>2. PICK e \in DOMAIN net : /\ net' = net (+) Times(1, e)
                                /\ offered' = IF Mine(e) THEN offered + 1 ELSE offered
    BY <1>0, <1>4 DEF Duplicate
  <2>3. Mine(e) <=> e \in Own
    BY <1>0, Parties
  <2>4. /\ Count(net', Own) \in Nat
        /\ e \in Own => Count(net', Own) = Now + 1
        /\ e \notin Own => Count(net', Own) = Now
    BY <2>2, CountOne
  <2>5. Waiting' = Waiting
    BY <2>1 DEF Waiting, Asks
  <2> HIDE DEF Now
  <2> QED
    BY <1>a, <1>b, <2>1, <2>2, <2>3, <2>4, <2>5 DEF Now
<1>5. CASE Tick
  <2>1. UNCHANGED <<life, rpc, offered, lost>> /\ R!Tick
    BY <1>5 DEF Tick, R!Tick
  <2>2. Waiting' = Waiting
    BY <1>0, <2>1, TickWaiting
  <2>3. \A e \in DOMAIN net : e \in Own <=> Aged(e) \in Own
    BY <1>0, AgedParts DEF Own
  <2>4. Count(net', Own) = Now
    BY <1>0, <1>5, <2>1, <2>3, NetAged DEF Tick
  <2> HIDE DEF Now
  <2> QED
    BY <1>a, <1>b, <2>1, <2>2, <2>4 DEF Now
<1>6. CASE Application \/ Stopping \/ DisturbResponder \/ DisturbClient \/ UNCHANGED vars
  <2>1. UNCHANGED <<net, offered, lost, rcur>>
    BY <1>6 DEF Application, Stopping, DisturbResponder, DisturbClient, vars,
       nvars, rvars, R!Start, R!StopSetsEvent, R!threadVars, R!Stopping, R!StopPokes,
       R!JoinReturns
  <2>2. \/ queue' = queue
        \/ \E n \in Nat, m \in Noise \cup {R!Poke} : R!Enqueue(n, m)
    <3>1. arrivals + 1 \in Nat /\ 0 \in Nat
      BY <1>0 DEF Typed
    <3> QED
      BY <1>6, <3>1 DEF Application, Stopping, DisturbResponder, DisturbClient, vars,
         rvars, R!Start, R!StopSetsEvent, R!threadVars, R!Stopping, R!StopPokes,
         R!JoinReturns
  <2>3. CASE queue' = queue
    <3>1. Waiting' = Waiting
      BY <2>1, <2>3 DEF Waiting, Asks
    <3> QED
      BY <1>a, <1>b, <2>1, <3>1
  <2>4. ASSUME NEW n \in Nat, NEW m \in Noise \cup {R!Poke}, R!Enqueue(n, m)
        PROVE  Waiting' = Waiting
    <3>1. m \in Asked /\ m # C!Query
      BY QueryParts DEF Asked
    <3> QED
      BY <1>0, <2>1, <2>4, <3>1, EnqueueWaiting
  <2> QED
    BY <1>a, <1>b, <2>1, <2>2, <2>3, <2>4
<1> QED
  BY <1>1, <1>2, <1>3, <1>4, <1>5, <1>6

(* Each exchange that is offered is under way, or waits, or has ended, in  *)
(* an answer or in nothing: what has come to nothing is counted once.      *)
LEMMA BalanceStep ==
  ASSUME Inv, NetInv, ThreadInv, Balance, [Next]_vars
  PROVE  Balance'
<1>0. Typed /\ BagToSet(net) = DOMAIN net
  BY DEF Inv, BagToSet
<1> DEFINE Now == Count(net, Own)
           Then == Count(net', Own')
<1>a. /\ lost \in Nat /\ offered \in Nat /\ Now \in Nat /\ Waiting \in Nat
      /\ lost + Now + Waiting <= offered
  BY <1>0, NetCounted, WaitingTyped DEF Balance
<1>b. SUFFICES lost' \in Nat /\ offered' \in Nat /\ lost' + Then + Waiting' <= offered'
  BY DEF Balance
<1>1. CASE \/ ClientStep \/ ReachResponder \/ Lose \/ Duplicate \/ Tick
           \/ Application \/ Stopping \/ DisturbResponder \/ DisturbClient
           \/ UNCHANGED vars
  <2>1. /\ offered' \in Nat /\ lost' \in Nat /\ Then \in Nat /\ Waiting' \in Nat
        /\ lost' + Then + Waiting' + offered = lost + Now + Waiting + offered'
    BY <1>a, <1>1, ExchangesKept
  <2> HIDE DEF Now, Then
  <2>2. PICK k \in Nat, d \in Nat, v \in Nat, r \in Nat :
          k = lost' /\ d = Then /\ v = Waiting' /\ r = offered'
    BY <2>1, Zenon
  <2>3. k + d + v + offered = lost + Now + Waiting + r
    BY <2>1, <2>2, Zenon
  <2>4. k + d + v <= r
    BY <1>a, <2>3
  <2> QED
    BY <2>2, <2>4, Zenon
<1>2. CASE ResponderStep
  <2>1. R!Thread /\ life' = life /\ Own' = Own
    BY <1>2, OwnSame DEF ResponderStep
  <2>2. Waiting' \in Nat /\ Waiting' <= Waiting
        /\ (rpc = "reply" /\ rpc' = "top" => Waiting' = Waiting - Asks(rcur))
    BY <2>1, ThreadWaiting
  <2>3. CASE rpc = "opening" /\ rpc' = "top"
    <3>1. offered' = Number("responder") /\ lost' = 0 /\ net' = net
      BY <1>2, <2>3 DEF ResponderStep
    <3>2. Number("responder") = Now
      BY <1>0, <2>3, NumberWaiting
    <3>3. Waiting' = 0
      <4>1. queue' = <<>> /\ rcur' = <<>>
        BY <2>1, <2>3, ThreadCounts DEF ThreadInv
      <4> QED
        BY <4>1, AsksNone DEF Waiting, Asks
    <3> QED
      BY <1>a, <2>1, <3>1, <3>2, <3>3
  <2>4. CASE ~(rpc = "opening" /\ rpc' = "top")
    <3> DEFINE failing == /\ rpc = "reply" /\ rpc' = "top" /\ rcur[1].msg.from = Asker
                          /\ sent' = sent /\ rcur[1].msg.qid = Qid
    <3>1. offered' = offered /\ lost' = IF failing THEN lost + 1 ELSE lost
      BY <1>2, <2>4 DEF ResponderStep
    <3>2. CASE net' = net
      <4>1. failing => Waiting' = Waiting - 1
        <5> SUFFICES ASSUME failing PROVE Waiting' = Waiting - 1
          OBVIOUS
        <5>1. rcur # <<>> /\ R!Answerable(rcur[1].msg, Self.fields)
          BY DEF Inv, Typed, Origin
        <5>2. rcur[1].msg \in Asked
          BY <1>0, <5>1, HandCounts DEF Entries
        <5>3. rcur[1].msg = C!Query
          BY <5>1, <5>2, AnswerableAsks, OnlyQuery
        <5> QED
          BY <1>0, <2>2, <5>1, <5>3, HandCounts
      <4> HIDE DEF failing
      <4> QED
        BY <1>a, <2>1, <2>2, <3>1, <3>2, <4>1
    <3>3. CASE net' # net
      <4> DEFINE qid == rcur[1].msg.qid
                 e   == Token("client", Says(qid))
      <4>1. /\ rpc = "reply" /\ rpc' = "top" /\ rcur # <<>> /\ qid \in Qids
            /\ qid = Qid => rcur[1].msg = C!Query
            /\ net' = net (+) Times(1, e)
        BY <1>2, <3>3, ReplySends
      <4>2. ~failing
        BY <1>2, <3>3 DEF ResponderStep
      <4>3. e \in Own => qid = Qid
        <5>1. e.to = "client" /\ e.msg = Reply(life, qid) /\ life \in DOMAIN Names
          BY <1>0, <4>1, TokenParts, DiscoveryAssumption DEF Typed
        <5>2. Reply(life, qid).qid = qid /\ Reply(life, Qid).qid = Qid
          BY <4>1, <5>1, ReplyParts, DiscoveryAssumption
        <5> HIDE DEF e, qid
        <5>3. e \in Own => e.msg = Reply(life, Qid)
          BY <5>1 DEF Own, Queries, Sent
        <5> QED
          BY <5>1, <5>2, <5>3
      <4>4. qid = Qid => Waiting' = Waiting - 1
        BY <1>0, <2>2, <4>1, HandCounts
      <4>5. /\ e \in Own => Count(net', Own) = Now + 1
            /\ e \notin Own => Count(net', Own) = Now
        BY <4>1, CountOne
      <4> HIDE DEF e, qid, failing
      <4> QED
        BY <1>a, <2>1, <2>2, <3>1, <4>2, <4>3, <4>4, <4>5
    <3> QED
      BY <3>2, <3>3
  <2> QED
    BY <2>3, <2>4
<1>3. CASE Restart
  <2>1. /\ net' = net /\ life' = life + 1 /\ life \in Nat /\ life' \in DOMAIN Names
        /\ queue' = <<>> /\ rcur' = <<>> /\ UNCHANGED <<offered, lost>>
    BY <1>0, <1>3, DiscoveryAssumption DEF Restart, Typed
  <2>2. Waiting' = 0
    BY <2>1, AsksNone DEF Waiting, Asks
  <2>3. DOMAIN net \cap Own' \subseteq Own
    <3> SUFFICES ASSUME NEW e \in DOMAIN net, e \in Own' PROVE e \in Own
      OBVIOUS
    <3>1. Own' = Queries \cup Sent(life', Qid)
      BY DEF Own, Queries, Sent, Reply
    <3>2. CASE e \in Queries
      BY <3>2 DEF Own
    <3>3. CASE e \notin Queries
      <4>1. e.msg = Reply(life', Qid)
        BY <3>1, <3>3 DEF Sent
      <4>2. e.msg.id = Names[life']
        BY <2>1, <4>1, ReplyParts, DiscoveryAssumption
      <4>3. PICK l \in 1..life : e.msg.id = Names[l]
        BY <1>0, <3>3, Parties
      <4>4. l \in DOMAIN Names /\ l # life'
        BY <1>0, <2>1, DiscoveryAssumption DEF Typed
      <4> QED
        BY <2>1, <4>2, <4>3, <4>4, DiscoveryAssumption
    <3> QED
      BY <3>2, <3>3
  <2>4. Count(net, Own') <= Now /\ Count(net, Own') \in Nat
    BY <2>3, NetBag, CountWider, NetCounted
  <2> HIDE DEF Now
  <2> QED
    BY <1>a, <2>1, <2>2, <2>4
<1>4. CASE ReachClient
  <2>1. UNCHANGED <<life, queue, rcur, offered>> /\ Own' = Own
    BY <1>4, OwnSame DEF ReachClient, rvars
  <2>2. PICK e \in DOMAIN net : net' = net (-) Times(1, e) /\ (lost' = lost \/ LostOne(e))
    BY <1>0, <1>4 DEF ReachClient, Under
  <2>3. Mine(e) <=> e \in Own
    BY <1>0, Parties
  <2>4. /\ e \in Own => Count(net', Own) = Now - 1
        /\ e \notin Own => Count(net', Own) = Now
    BY <2>2, CountLess
  <2>5. lost' = lost \/ (lost' = lost + 1 /\ e \in Own)
    BY <2>2, <2>3 DEF LostOne
  <2>6. Waiting' = Waiting
    BY <2>1 DEF Waiting, Asks
  <2> QED
    BY <1>a, <2>1, <2>4, <2>5, <2>6
<1> QED
  BY <1>1, <1>2, <1>3, <1>4 DEF Next, Network

-----------------------------------------------------------------------------
Base == NetInv /\ ThreadInv /\ Balance /\ routes \in SUBSET Routes

(* At first nothing is under way, and nothing is counted.                  *)
LEMMA CountEmpty ==
  /\ IsABag(EmptyBag) /\ DOMAIN EmptyBag = {}
  /\ \A S : Count(EmptyBag, S) = 0
<1>1. IsABag(EmptyBag) /\ DOMAIN EmptyBag = {}
  BY DEF EmptyBag, SetToBag, IsABag
<1>2. \A S : Each(EmptyBag, S) = {}
  BY <1>1 DEF Each
<1> QED
  BY <1>1, <1>2, FS_EmptySet DEF Count

LEMMA BaseInit == Init => Base
<1> SUFFICES ASSUME Init PROVE Base
  OBVIOUS
<1>1. /\ net = EmptyBag /\ lost = 0 /\ offered = 0 /\ routes \in SUBSET Routes
      /\ rpc = "new" /\ rleft = 0 /\ queue = <<>> /\ rcur = <<>> /\ app = "idle"
  BY DEF Init, R!Init
<1>2. NetInv
  BY <1>1, CountEmpty, FS_EmptySet DEF NetInv
<1>3. ThreadInv
  <2>1. Len(<<>>) = 0
    OBVIOUS
  <2> QED
    BY <1>1, <2>1, ComponentAssumption DEF ThreadInv
<1>4. Waiting = 0
  BY <1>1, AsksNone DEF Waiting
<1>5. Balance
  BY <1>1, <1>4, CountEmpty DEF Balance
<1> QED
  BY <1>1, <1>2, <1>3, <1>5 DEF Base

LEMMA BaseStep ==
  ASSUME Inv, Base, [Next]_vars
  PROVE  Base'
<1>1. routes' = routes
  BY DEF Next, vars, nvars, ClientStep, ResponderStep, Application, Restart, Stopping,
     Network, ReachResponder, ReachClient, Lose, Duplicate, DisturbResponder,
     DisturbClient, Tick
<1>2. Typed
  BY DEF Inv
<1>3. Routes' = Routes
  BY DEF Routes
<1> QED
  BY <1>1, <1>2, NetStep, ThreadInvStep, BalanceStep DEF Base

(* The accounts hold in every state.                                       *)
LEMMA BaseAlways == Spec => [](Inv /\ Base)
BY InvAlways, BaseInit, BaseStep, PTL DEF Spec

(* Every variable keeps its type, and of what is offered to a responder no *)
(* more comes to nothing than was offered, however datagrams are lost,     *)
(* duplicated and answered to an earlier life.                             *)
THEOREM ScanTypeCorrect == Spec => []TypeOK
<1>1. Inv /\ Base => TypeOK
  <2> SUFFICES ASSUME Inv, Base PROVE TypeOK
    OBVIOUS
  <2>1. Typed /\ NetInv /\ Balance /\ routes \in SUBSET Routes
    BY DEF Inv, Base
  <2>2. IsABag(net) /\ BagToSet(net) = DOMAIN net
    BY <2>1 DEF NetInv, BagToSet
  <2>3. \A e \in DOMAIN net : e.to \in {"client", "responder"} /\ e.left \in 0..MaxDelay
    BY <2>1, Parties
  <2>4. Waiting \in Nat /\ Count(net, Own) \in Nat
    BY <2>1, WaitingTyped, NetCounted
  <2>5. lost \in 0..offered
    BY <2>1, <2>4 DEF Balance
  <2> QED
    BY <2>1, <2>2, <2>3, <2>5 DEF TypeOK
<1> QED
  BY <1>1, BaseAlways, PTL
=============================================================================
