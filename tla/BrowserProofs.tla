--------------------------- MODULE BrowserProofs ---------------------------
(***************************************************************************)
(* Proofs about the browser window, for any number of overlapping worker   *)
(* threads and any configuration.                                          *)
(***************************************************************************)
EXTENDS Browser, FiniteSetTheorems, TLAPS

PostedEvent == [kind : {"results", "failed", "delete", "deferred", "clear"},
                of : Workers, found : SUBSET Records]

(* The types the arguments below need.                                     *)
Typed ==
  /\ worker \in Workers \cup {NoWorker}
  /\ stage \in [Workers -> {"free", "probing", "reported", "finishing", "finished"}]
  /\ posted \in Seq(PostedEvent)
  /\ pass \in BOOLEAN

(* What an event is for; the deletion of a thread takes two events, one    *)
(* after the other.                                                        *)
Slot(e) == IF e.kind \in {"results", "failed"} THEN "report"
           ELSE IF e.kind = "clear" THEN "clear" ELSE "delete"

(* A thread has one event of each at most,                                 *)
Once ==
  \A i \in DOMAIN posted, j \in DOMAIN posted :
    posted[i].of = posted[j].of /\ Slot(posted[i]) = Slot(posted[j]) => i = j

(* its report before the others,                                           *)
ReportFirst ==
  \A i \in DOMAIN posted, j \in DOMAIN posted :
    /\ posted[i].of = posted[j].of
    /\ Slot(posted[i]) = "report" /\ Slot(posted[j]) # "report"
    => i < j

(* and has come as far as they say.  Only the last of them may outlive the *)
(* thread, and not the pass in which the thread was deleted.               *)
Staged ==
  \A i \in DOMAIN posted :
    LET s == stage[posted[i].of]
    IN  /\ Slot(posted[i]) = "report" => s \in {"reported", "finishing", "finished"}
        /\ Slot(posted[i]) = "delete" => s \in {"finishing", "finished"}
        /\ Slot(posted[i]) = "clear"  => s = "finished" \/ (s = "free" /\ pass)

(* A thread in self.worker that has ended, or is deleted even, will be     *)
(* forgotten, in the latter case in this pass.                             *)
ClearPosted == \E i \in DOMAIN posted : posted[i].kind = "clear"

Remembered ==
  worker # NoWorker =>
    /\ stage[worker] \in {"finished", "free"} => ClearPosted
    /\ stage[worker] = "free" => pass

IInv == Typed /\ Once /\ ReportFirst /\ Staged /\ Remembered /\ ButtonAnswered

(* Every posted event is of some thread.                                   *)
LEMMA EventsHaveThreads ==
  ASSUME posted \in Seq(PostedEvent)
  PROVE  \A i \in DOMAIN posted : posted[i].of \in Workers
<1>1. \A i \in DOMAIN posted : posted[i] \in PostedEvent
  OBVIOUS
<1> QED
  BY <1>1 DEF PostedEvent

(* refresh() keeps all of it, whoever calls it: between two passes a       *)
(* thread that is free has no event left.                                  *)
LEMMA RefreshKeeps ==
  ASSUME IInv, Refresh, ~pass, posted' = posted, pass' = pass
  PROVE  IInv'
<1>1. CASE worker # NoWorker /\ Running(worker)
  BY <1>1 DEF IInv, Typed, Once, ReportFirst, Staged, Remembered, ClearPosted,
              ButtonAnswered, Refresh, threads
<1>2. CASE ~(worker # NoWorker /\ Running(worker))
  <2>1. PICK w \in Workers : /\ stage[w] = "free" /\ worker' = w
                             /\ stage' = [stage EXCEPT ![w] = "probing"]
    BY <1>2 DEF Refresh
  <2>2. Typed'
    BY <2>1 DEF IInv, Typed
  <2>3. \A x \in Workers : x # w => stage'[x] = stage[x]
    BY <2>1 DEF IInv, Typed
  <2>4. stage'[w] = "probing"
    BY <2>1 DEF IInv, Typed
  <2>5. \A i \in DOMAIN posted : posted[i].of \in Workers
    BY EventsHaveThreads DEF IInv, Typed
  <2>6. \A i \in DOMAIN posted : posted[i].of # w
    BY <2>1 DEF IInv, Staged, Slot
  <2>7. Staged'
    BY <2>3, <2>5, <2>6 DEF IInv, Staged
  <2>8. Once' /\ ReportFirst'
    BY DEF IInv, Once, ReportFirst
  <2>9. Remembered' /\ ButtonAnswered'
    BY <2>1, <2>4 DEF Remembered, ButtonAnswered
  <2> QED
    BY <2>2, <2>7, <2>8, <2>9 DEF IInv
<1> QED
  BY <1>1, <1>2

(* A thread's step posts one event at the end of the queue.                *)
LEMMA PostKeeps ==
  ASSUME Typed, NEW w \in Workers, NEW found \in SUBSET Records,
         NEW kind \in {"results", "failed", "delete", "clear"},
         posted' = Append(posted, Event(kind, w, found))
  PROVE  /\ posted' \in Seq(PostedEvent)
         /\ Len(posted) \in Nat /\ DOMAIN posted = 1..Len(posted)
         /\ DOMAIN posted' = DOMAIN posted \cup {Len(posted) + 1}
         /\ Len(posted) + 1 \notin DOMAIN posted
         /\ \A i \in DOMAIN posted : posted'[i] = posted[i]
         /\ posted'[Len(posted) + 1] = Event(kind, w, found)
<1>1. Event(kind, w, found) \in PostedEvent
  BY DEF Event, PostedEvent
<1> QED
  BY <1>1 DEF Typed

(* The steps of a thread, which it takes in this order.                    *)
LEMMA ThreadKeeps ==
  ASSUME IInv, NEW w \in Workers, NEW found \in SUBSET Records,
         NEW from, NEW to, NEW kind, Thread(w, from, to, kind, found),
         \/ from = "probing" /\ to = "reported" /\ kind \in {"results", "failed"}
         \/ from = "reported" /\ to = "finishing" /\ kind = "delete"
         \/ from = "finishing" /\ to = "finished" /\ kind = "clear"
  PROVE  IInv'
<1> DEFINE n == Len(posted) + 1
           e == Event(kind, w, found)
<1>1. /\ posted' \in Seq(PostedEvent)
      /\ DOMAIN posted' = DOMAIN posted \cup {n}
      /\ \A i \in DOMAIN posted : i \in Nat /\ i < n
      /\ \A i \in DOMAIN posted : posted'[i] = posted[i]
      /\ posted'[n] = e
  <2>1. kind \in {"results", "failed", "delete", "clear"}
    OBVIOUS
  <2> QED
    BY <2>1, PostKeeps DEF IInv, Thread
<1>2. e.kind = kind /\ e.of = w
  BY DEF Event
<1> HIDE DEF n, e
<1>3. stage[w] = from /\ stage' = [stage EXCEPT ![w] = to]
      /\ worker' = worker /\ button' = button /\ pass' = pass
  BY DEF Thread
<1>4. Typed'
  BY <1>1, <1>3 DEF IInv, Typed
<1>5. stage'[w] = to /\ \A x \in Workers : x # w => stage'[x] = stage[x]
  BY <1>3 DEF IInv, Typed
<1>6. \A i \in DOMAIN posted : posted[i].of \in Workers
  BY EventsHaveThreads DEF IInv, Typed
<1>7. ASSUME NEW i \in DOMAIN posted, posted[i].of = w
      PROVE  /\ Slot(posted[i]) # Slot(e) /\ Slot(e) # "report"
             /\ Slot(posted[i]) = "report" => to \in {"finishing", "finished"}
             /\ Slot(posted[i]) = "delete" => to = "finished"
             /\ Slot(posted[i]) # "clear"
  BY <1>2, <1>3, <1>7 DEF IInv, Staged, Slot
<1>8. \A i \in DOMAIN posted : Slot(posted[i]) \in {"report", "delete", "clear"}
  BY DEF Slot
<1>9. Staged'
  <2>1. ASSUME NEW i \in DOMAIN posted
        PROVE  LET s == stage'[posted'[i].of]
               IN  /\ Slot(posted'[i]) = "report" =>
                        s \in {"reported", "finishing", "finished"}
                   /\ Slot(posted'[i]) = "delete" => s \in {"finishing", "finished"}
                   /\ Slot(posted'[i]) = "clear" =>
                        s = "finished" \/ (s = "free" /\ pass')
    <3>1. CASE posted[i].of = w
      BY <1>1, <1>5, <1>7, <3>1
    <3>2. CASE posted[i].of # w
      BY <1>1, <1>3, <1>5, <1>6, <3>2 DEF IInv, Staged
    <3> QED
      BY <3>1, <3>2
  <2>2. /\ Slot(e) = "report" => to = "reported"
        /\ Slot(e) = "delete" => to = "finishing"
        /\ Slot(e) = "clear"  => to = "finished"
    BY <1>2 DEF Slot
  <2>3. posted'[n].of = w /\ stage'[posted'[n].of] = to
    BY <1>1, <1>2, <1>5
  <2> QED
    BY <1>1, <2>1, <2>2, <2>3 DEF Staged
<1>10. Once'
  <2> SUFFICES ASSUME NEW i \in DOMAIN posted', NEW j \in DOMAIN posted',
                      posted'[i].of = posted'[j].of,
                      Slot(posted'[i]) = Slot(posted'[j])
               PROVE  i = j
    BY DEF Once
  <2>1. CASE i \in DOMAIN posted /\ j \in DOMAIN posted
    BY <1>1, <2>1 DEF IInv, Once
  <2>2. CASE i = n /\ j \in DOMAIN posted
    BY <1>1, <1>2, <1>7, <2>2
  <2>3. CASE i \in DOMAIN posted /\ j = n
    BY <1>1, <1>2, <1>7, <2>3
  <2> QED
    BY <1>1, <2>1, <2>2, <2>3
<1>11. ReportFirst'
  <2> SUFFICES ASSUME NEW i \in DOMAIN posted', NEW j \in DOMAIN posted',
                      posted'[i].of = posted'[j].of,
                      Slot(posted'[i]) = "report", Slot(posted'[j]) # "report"
               PROVE  i < j
    BY DEF ReportFirst
  <2>1. CASE i \in DOMAIN posted /\ j \in DOMAIN posted
    BY <1>1, <2>1 DEF IInv, ReportFirst
  <2>2. CASE i = n /\ j \in DOMAIN posted
    BY <1>1, <1>2, <1>7, <2>2
  <2>3. CASE i \in DOMAIN posted /\ j = n
    BY <1>1, <2>3
  <2> QED
    BY <1>1, <2>1, <2>2, <2>3
<1>12. Remembered'
  <2>1. ClearPosted => ClearPosted'
    BY <1>1 DEF ClearPosted
  <2>2. to = "finished" => ClearPosted'
    BY <1>1, <1>2 DEF ClearPosted
  <2>3. to # "free"
    OBVIOUS
  <2> QED
    BY <1>3, <1>5, <2>1, <2>2, <2>3 DEF IInv, Typed, Remembered
<1>13. ButtonAnswered'
  <2> SUFFICES ASSUME ~button
               PROVE  \/ \E x \in Workers : stage'[x] = "probing"
                      \/ \E i \in DOMAIN posted' :
                           posted'[i].kind \in {"results", "failed"}
    BY <1>3 DEF ButtonAnswered
  <2>1. CASE \E i \in DOMAIN posted : posted[i].kind \in {"results", "failed"}
    BY <1>1, <2>1
  <2>2. CASE stage[w] = "probing"
    BY <1>1, <1>2, <1>3, <2>2
  <2>3. CASE \E x \in Workers : x # w /\ stage[x] = "probing"
    BY <1>5, <2>3
  <2> QED
    BY <2>1, <2>2, <2>3 DEF IInv, ButtonAnswered
<1> QED
  BY <1>4, <1>9, <1>10, <1>11, <1>12, <1>13 DEF IInv

(* An event is taken from the head of the queue.                           *)
LEMMA TakeKeeps ==
  ASSUME Typed, NEW kind, Takes(kind)
  PROVE  /\ posted' \in Seq(PostedEvent)
         /\ 1 \in DOMAIN posted /\ posted[1] = Head(posted)
         /\ Head(posted).kind = kind
         /\ pass' = (posted' # <<>>)
         /\ \A i \in DOMAIN posted' :
              i + 1 \in DOMAIN posted /\ posted'[i] = posted[i + 1] /\ i \in Nat \ {0}
         /\ \A i \in DOMAIN posted :
              i # 1 => i - 1 \in DOMAIN posted' /\ posted'[i - 1] = posted[i]
<1>1. posted \in Seq(PostedEvent) /\ posted # <<>>
  BY DEF Typed, Takes, TakesAndPosts
<1>2. posted' = Tail(posted)
  <2>1. posted' = Tail(posted) \o <<>> /\ Tail(posted) \in Seq(PostedEvent)
    BY <1>1 DEF Takes, TakesAndPosts
  <2> QED
    BY <2>1
<1>3. Head(posted).kind = kind /\ pass' = (posted' # <<>>)
  BY DEF Takes, TakesAndPosts
<1> QED
  BY <1>1, <1>2, <1>3

(* What is left of the queue is in order, whatever was taken, if it took   *)
(* no thread back.                                                         *)
LEMMA TakeKeepsOrder ==
  ASSUME IInv, NEW kind, Takes(kind)
  PROVE  /\ Once' /\ ReportFirst'
         /\ pass' \in BOOLEAN
         /\ kind # "clear" /\ ClearPosted => ClearPosted' /\ pass'
         /\ DOMAIN posted' # {} => pass'
<1>1. /\ 1 \in DOMAIN posted /\ posted[1] = Head(posted)
      /\ Head(posted).kind = kind
      /\ pass' = (posted' # <<>>)
      /\ \A i \in DOMAIN posted' :
           i + 1 \in DOMAIN posted /\ posted'[i] = posted[i + 1] /\ i \in Nat \ {0}
      /\ \A i \in DOMAIN posted :
           i # 1 => i - 1 \in DOMAIN posted' /\ posted'[i - 1] = posted[i]
  BY TakeKeeps DEF IInv
<1>2. DOMAIN posted' # {} => pass'
  <2>1. posted' = <<>> => DOMAIN posted' = {}
    OBVIOUS
  <2> QED
    BY <1>1, <2>1
<1>3. Once'
  <2> SUFFICES ASSUME NEW i \in DOMAIN posted', NEW j \in DOMAIN posted',
                      posted'[i].of = posted'[j].of,
                      Slot(posted'[i]) = Slot(posted'[j])
               PROVE  i = j
    BY DEF Once
  <2>1. i + 1 = j + 1
    BY <1>1 DEF IInv, Once
  <2> QED
    BY <1>1, <2>1
<1>4. ReportFirst'
  <2> SUFFICES ASSUME NEW i \in DOMAIN posted', NEW j \in DOMAIN posted',
                      posted'[i].of = posted'[j].of,
                      Slot(posted'[i]) = "report", Slot(posted'[j]) # "report"
               PROVE  i < j
    BY DEF ReportFirst
  <2>1. i + 1 < j + 1
    BY <1>1 DEF IInv, ReportFirst
  <2> QED
    BY <1>1, <2>1
<1>5. kind # "clear" /\ ClearPosted => ClearPosted' /\ pass'
  <2> SUFFICES ASSUME kind # "clear", NEW i \in DOMAIN posted,
                      posted[i].kind = "clear"
               PROVE  ClearPosted' /\ pass'
    BY DEF ClearPosted
  <2>1. i # 1
    BY <1>1
  <2>2. i - 1 \in DOMAIN posted' /\ posted'[i - 1].kind = "clear"
    BY <1>1, <2>1
  <2> QED
    BY <1>2, <2>2 DEF ClearPosted
<1> QED
  BY <1>1, <1>2, <1>3, <1>4, <1>5

(* What is left is staged as it was, where the stages are, and the pass    *)
(* goes on.                                                                *)
LEMMA TakeKeepsStaged ==
  ASSUME IInv, NEW kind, Takes(kind), stage' = stage
  PROVE  Staged'
<1>1. \A i \in DOMAIN posted' : i + 1 \in DOMAIN posted /\ posted'[i] = posted[i + 1]
  BY TakeKeeps DEF IInv
<1>2. DOMAIN posted' # {} => pass'
  BY TakeKeepsOrder
<1> QED
  BY <1>1, <1>2 DEF IInv, Staged

(* An answer that is still to come is so, unless it is taken.              *)
LEMMA TakeKeepsAnswer ==
  ASSUME IInv, NEW kind, kind \notin {"results", "failed"}, Takes(kind),
         button' = button,
         \A x \in Workers : stage[x] = "probing" => stage'[x] = "probing"
  PROVE  ButtonAnswered'
<1>1. /\ 1 \in DOMAIN posted /\ posted[1].kind = kind
      /\ \A i \in DOMAIN posted :
           i # 1 => i - 1 \in DOMAIN posted' /\ posted'[i - 1] = posted[i]
  BY TakeKeeps DEF IInv
<1> SUFFICES ASSUME ~button
             PROVE  \/ \E x \in Workers : stage'[x] = "probing"
                    \/ \E i \in DOMAIN posted' :
                         posted'[i].kind \in {"results", "failed"}
  BY DEF ButtonAnswered
<1>2. CASE \E x \in Workers : stage[x] = "probing"
  BY <1>2
<1>3. CASE \E i \in DOMAIN posted : posted[i].kind \in {"results", "failed"}
  BY <1>1, <1>3
<1> QED
  BY <1>2, <1>3 DEF IInv, ButtonAnswered

(* A thread's answer: the button is enabled.                               *)
LEMMA AnswerKeeps ==
  ASSUME IInv, NEW kind \in {"results", "failed"}, Takes(kind), button' = TRUE,
         worker' = worker, stage' = stage
  PROVE  IInv'
<1>1. Typed'
  BY TakeKeeps, TakeKeepsOrder DEF IInv, Typed
<1>2. Once' /\ ReportFirst' /\ Staged'
  BY TakeKeepsOrder, TakeKeepsStaged
<1>3. Remembered'
  <2>1. ClearPosted => ClearPosted' /\ pass'
    BY TakeKeepsOrder
  <2> QED
    BY <2>1 DEF IInv, Remembered
<1>4. ButtonAnswered'
  BY DEF ButtonAnswered
<1> QED
  BY <1>1, <1>2, <1>3, <1>4 DEF IInv

(* The second slot of finished.                                            *)
LEMMA ClearKeeps ==
  ASSUME IInv, OnClear
  PROVE  IInv'
<1>1. Takes("clear") /\ worker' = NoWorker /\ stage' = stage /\ button' = button
  BY DEF OnClear
<1>2. Typed'
  BY <1>1, TakeKeeps, TakeKeepsOrder DEF IInv, Typed
<1>3. Once' /\ ReportFirst' /\ Staged'
  BY <1>1, TakeKeepsOrder, TakeKeepsStaged
<1>4. Remembered'
  BY <1>1 DEF Remembered
<1>5. ButtonAnswered'
  BY <1>1, TakeKeepsAnswer
<1> QED
  BY <1>2, <1>3, <1>4, <1>5 DEF IInv

(* The thread that is deleted has no other event left but the one that     *)
(* clears self.worker, and if it is self.worker, that one is left.         *)
LEMMA DeferredKeeps ==
  ASSUME IInv, OnDeferredDelete
  PROVE  IInv'
<1> DEFINE w == Head(posted).of
<1>1. /\ Takes("deferred") /\ stage[w] = "finished"
      /\ stage' = [stage EXCEPT ![w] = "free"]
      /\ worker' = worker /\ button' = button
  BY DEF OnDeferredDelete
<1>2. /\ posted' \in Seq(PostedEvent)
      /\ 1 \in DOMAIN posted /\ posted[1] = Head(posted)
      /\ Head(posted).kind = "deferred"
      /\ \A i \in DOMAIN posted' :
           i + 1 \in DOMAIN posted /\ posted'[i] = posted[i + 1] /\ i \in Nat \ {0}
  BY <1>1, TakeKeeps DEF IInv
<1>3. posted[1].of = w /\ Slot(posted[1]) = "delete"
  BY <1>2 DEF Slot
<1>4. \A i \in DOMAIN posted : posted[i].of \in Workers
  BY EventsHaveThreads DEF IInv, Typed
<1>5. w \in Workers
  BY <1>2, <1>3, <1>4
<1> HIDE DEF w
<1>6. stage'[w] = "free" /\ \A x \in Workers : x # w => stage'[x] = stage[x]
  BY <1>1, <1>5 DEF IInv, Typed
<1>7. /\ Once' /\ ReportFirst' /\ pass' \in BOOLEAN
      /\ ClearPosted => ClearPosted' /\ pass'
      /\ DOMAIN posted' # {} => pass'
  BY <1>1, TakeKeepsOrder
<1>8. Typed'
  BY <1>1, <1>2, <1>7 DEF IInv, Typed
<1>9. ASSUME NEW i \in DOMAIN posted', posted'[i].of = w
      PROVE  Slot(posted'[i]) = "clear"
  <2>1. /\ i + 1 \in DOMAIN posted /\ posted'[i] = posted[i + 1]
        /\ i + 1 # 1 /\ ~(i + 1 < 1)
    BY <1>2
  <2>2. Slot(posted[i + 1]) # "delete"
    BY <1>2, <1>3, <1>9, <2>1 DEF IInv, Once
  <2>3. Slot(posted[i + 1]) # "report"
    BY <1>2, <1>3, <1>9, <2>1 DEF IInv, ReportFirst
  <2>4. Slot(posted[i + 1]) \in {"report", "delete", "clear"}
    BY DEF Slot
  <2> QED
    BY <2>1, <2>2, <2>3, <2>4
<1>10. Staged'
  <2> SUFFICES ASSUME NEW i \in DOMAIN posted'
               PROVE  LET s == stage'[posted'[i].of]
                      IN  /\ Slot(posted'[i]) = "report" =>
                               s \in {"reported", "finishing", "finished"}
                          /\ Slot(posted'[i]) = "delete" =>
                               s \in {"finishing", "finished"}
                          /\ Slot(posted'[i]) = "clear" =>
                               s = "finished" \/ (s = "free" /\ pass')
    BY DEF Staged
  <2>1. CASE posted'[i].of = w
    BY <1>6, <1>7, <1>9, <2>1
  <2>2. CASE posted'[i].of # w
    <3>1. stage'[posted'[i].of] = stage[posted[i + 1].of]
      BY <1>2, <1>4, <1>6, <2>2
    <3> QED
      BY <1>2, <1>7, <3>1 DEF IInv, Staged
  <2> QED
    BY <2>1, <2>2
<1>11. Remembered'
  BY <1>1, <1>6, <1>7 DEF IInv, Typed, Remembered
<1>12. ButtonAnswered'
  BY <1>1, <1>6, TakeKeepsAnswer
<1> QED
  BY <1>7, <1>8, <1>10, <1>11, <1>12 DEF IInv

(* The first slot moves the thread's deletion from the head of the queue   *)
(* to its end.                                                             *)
LEMMA DeleteLaterKeeps ==
  ASSUME IInv, OnDeleteLater
  PROVE  /\ IInv'
         /\ \A i \in DOMAIN posted' :
              \/ \E j \in DOMAIN posted : posted'[i] = posted[j]
              \/ posted'[i].found = {}
<1> DEFINE n == Len(posted)
           e == Event("deferred", Head(posted).of, {})
           from(i) == IF i = n THEN 1 ELSE i + 1
<1>0. posted \in Seq(PostedEvent) /\ posted # <<>>
  BY DEF OnDeleteLater, TakesAndPosts, IInv, Typed
<1>1. /\ Head(posted).kind = "delete"
      /\ posted' = Tail(posted) \o <<e>> /\ pass' = (posted' # <<>>)
      /\ button' = button /\ worker' = worker /\ stage' = stage
  BY DEF OnDeleteLater, TakesAndPosts, threads
<1>2. /\ n \in Nat /\ n >= 1 /\ DOMAIN posted = 1..n /\ 1 \in DOMAIN posted
      /\ posted[1] = Head(posted)
  BY <1>0
<1>3. \A i \in DOMAIN posted : posted[i].of \in Workers
  BY EventsHaveThreads DEF IInv, Typed
<1>4. e \in PostedEvent /\ e.kind = "deferred" /\ e.of = posted[1].of /\ e.found = {}
  BY <1>2, <1>3 DEF Event, PostedEvent
<1> HIDE DEF e
<1> DEFINE t == Tail(posted)
<1>17. /\ t \in Seq(PostedEvent) /\ Len(t) = n - 1
      /\ \A i \in 1..n : i # n => i + 1 \in 1..n /\ t[i] = posted[i + 1]
  <2>1. t \in Seq(PostedEvent) /\ Len(t) = n - 1
    BY <1>0
  <2>2. \A i \in 1..(n - 1) : t[i] = posted[i + 1]
    BY <1>0
  <2> HIDE DEF n, t
  <2>3. \A i \in 1..n : i # n => i + 1 \in 1..n /\ i \in 1..(n - 1)
    BY <1>2
  <2> QED
    BY <2>1, <2>2, <2>3
<1>5. /\ posted' \in Seq(PostedEvent)
      /\ DOMAIN posted' = 1..n
      /\ posted'[n] = e
      /\ \A i \in 1..n : i # n => i + 1 \in 1..n /\ posted'[i] = posted[i + 1]
  <2> HIDE DEF t, n
  <2>1. posted' = t \o <<e>>
    BY <1>1 DEF t
  <2>2. /\ posted' \in Seq(PostedEvent) /\ Len(posted') = n
        /\ posted'[n] = e /\ \A i \in 1..(n - 1) : posted'[i] = t[i]
    BY <1>2, <1>4, <1>17, <2>1
  <2>3. \A i \in 1..n : i # n => i \in 1..(n - 1)
    BY <1>2
  <2> QED
    BY <1>2, <1>17, <2>2, <2>3
<1>6. pass' = TRUE
  <2> HIDE DEF n
  <2>1. n \in DOMAIN posted'
    BY <1>2, <1>5
  <2>2. posted' # <<>>
    BY <2>1
  <2> QED
    BY <1>1, <2>2
<1>7. \A i \in 1..n : /\ from(i) \in DOMAIN posted
                      /\ posted'[i].of = posted[from(i)].of
                      /\ Slot(posted'[i]) = Slot(posted[from(i)])
  <2>1. Slot(e) = Slot(posted[1])
    BY <1>1, <1>2, <1>4 DEF Slot
  <2> QED
    BY <1>2, <1>4, <1>5, <2>1
<1>8. \A i \in 1..n, j \in 1..n : from(i) = from(j) => i = j
  <2> SUFFICES ASSUME NEW i \in 1..n, NEW j \in 1..n, from(i) = from(j)
               PROVE  i = j
    OBVIOUS
  <2> HIDE DEF n
  <2>1. CASE i = n \/ j = n
    BY <1>2, <2>1
  <2>2. CASE i # n /\ j # n
    BY <1>2, <2>2
  <2> QED
    BY <2>1, <2>2
<1>9. Slot(posted[1]) = "delete"
  BY <1>1, <1>2 DEF Slot
<1>10. Once'
  <2> SUFFICES ASSUME NEW i \in DOMAIN posted', NEW j \in DOMAIN posted',
                      posted'[i].of = posted'[j].of,
                      Slot(posted'[i]) = Slot(posted'[j])
               PROVE  i = j
    BY DEF Once
  <2> HIDE DEF from, n
  <2>1. from(i) = from(j)
    BY <1>5, <1>7 DEF IInv, Once
  <2> QED
    BY <1>5, <1>8, <2>1
<1>11. ReportFirst'
  <2> SUFFICES ASSUME NEW i \in DOMAIN posted', NEW j \in DOMAIN posted',
                      posted'[i].of = posted'[j].of,
                      Slot(posted'[i]) = "report", Slot(posted'[j]) # "report"
               PROVE  i < j
    BY DEF ReportFirst
  <2>1. from(i) # 1
    BY <1>5, <1>7, <1>9
  <2>2. from(i) < from(j)
    <3> HIDE DEF from, n
    <3> QED
      BY <1>5, <1>7 DEF IInv, ReportFirst
  <2> QED
    <3>1. i \in 1..n /\ j \in 1..n /\ i # n
      BY <1>5, <2>1
    <3>2. i < n
      <4> HIDE DEF n
      <4> QED
        BY <1>2, <3>1
    <3>3. CASE j = n
      BY <3>2, <3>3
    <3>4. CASE j # n
      <4>1. i + 1 < j + 1
        BY <2>2, <3>1, <3>4
      <4> QED
        BY <3>1, <4>1
    <3> QED
      BY <3>3, <3>4
<1>12. Staged'
  <2> SUFFICES ASSUME NEW i \in DOMAIN posted'
               PROVE  LET s == stage[posted'[i].of]
                      IN  /\ Slot(posted'[i]) = "report" =>
                               s \in {"reported", "finishing", "finished"}
                          /\ Slot(posted'[i]) = "delete" =>
                               s \in {"finishing", "finished"}
                          /\ Slot(posted'[i]) = "clear" =>
                               s = "finished" \/ (s = "free" /\ pass')
    BY <1>1 DEF Staged
  <2> HIDE DEF from, n
  <2>1. /\ from(i) \in DOMAIN posted
        /\ posted'[i].of = posted[from(i)].of
        /\ Slot(posted'[i]) = Slot(posted[from(i)])
    BY <1>5, <1>7
  <2> QED
    BY <1>6, <2>1 DEF IInv, Staged
<1>18. \A i \in DOMAIN posted :
        i # 1 => i - 1 \in 1..n /\ posted'[i - 1] = posted[i]
  <2> SUFFICES ASSUME NEW i \in DOMAIN posted, i # 1
               PROVE  i - 1 \in 1..n /\ posted'[i - 1] = posted[i]
    OBVIOUS
  <2> HIDE DEF n
  <2>1. i \in Int /\ i - 1 \in 1..n /\ i - 1 # n /\ (i - 1) + 1 = i
    BY <1>2
  <2> QED
    BY <1>5, <2>1
<1>13. Remembered'
  <2>1. ClearPosted => ClearPosted'
    <3> SUFFICES ASSUME NEW i \in DOMAIN posted, posted[i].kind = "clear"
                 PROVE  ClearPosted'
      BY DEF ClearPosted
    <3>1. i # 1
      BY <1>1, <1>2
    <3>2. i - 1 \in 1..n /\ posted'[i - 1] = posted[i]
      BY <1>18, <3>1
    <3> QED
      BY <1>5, <3>2 DEF ClearPosted
  <2> QED
    BY <1>1, <1>6, <2>1 DEF IInv, Remembered, threads
<1>14. ButtonAnswered'
  <2> SUFFICES ASSUME ~button
               PROVE  \/ \E x \in Workers : stage'[x] = "probing"
                      \/ \E i \in DOMAIN posted' :
                           posted'[i].kind \in {"results", "failed"}
    BY <1>1 DEF ButtonAnswered
  <2>1. CASE \E x \in Workers : stage[x] = "probing"
    BY <1>1, <2>1 DEF threads
  <2>2. CASE \E i \in DOMAIN posted : posted[i].kind \in {"results", "failed"}
    <3>1. PICK i \in DOMAIN posted : posted[i].kind \in {"results", "failed"}
      BY <2>2
    <3>2. i # 1
      BY <1>1, <1>2, <3>1
    <3>3. i - 1 \in 1..n /\ posted'[i - 1] = posted[i]
      BY <1>18, <3>2
    <3> QED
      BY <1>5, <3>1, <3>3
  <2> QED
    BY <2>1, <2>2 DEF IInv, ButtonAnswered
<1>15. Typed'
  BY <1>1, <1>5, <1>6 DEF IInv, Typed, threads
<1>16. \A i \in DOMAIN posted' : \/ \E j \in DOMAIN posted : posted'[i] = posted[j]
                                 \/ posted'[i].found = {}
  BY <1>2, <1>4, <1>5
<1> QED
  BY <1>10, <1>11, <1>12, <1>13, <1>14, <1>15, <1>16 DEF IInv

(* What a thread may find.                                                 *)
LEMMA FoundIsThere ==
  ASSUME NEW w \in Workers, NEW all \in Answers
  PROVE  /\ {r \in all : Passes(r, asks[w].filter)} \in SUBSET Records
         /\ IsFiniteSet({r \in all : Passes(r, asks[w].filter)})
<1>1. IsFiniteSet(all) /\ {r \in all : Passes(r, asks[w].filter)} \in SUBSET all
  BY BrowserAssumption
<1>2. {r \in all : Passes(r, asks[w].filter)} \in SUBSET Records
  BY DEF Records
<1> QED
  BY <1>1, <1>2, FS_Subset

(* The invariant is inductive.                                             *)
LEMMA Inductive == Spec => []IInv
<1>1. Init => IInv
  <2> SUFFICES ASSUME Init PROVE IInv
    OBVIOUS
  <2>1. posted = <<>> /\ posted \in Seq(PostedEvent) /\ DOMAIN posted = {}
    BY DEF Init
  <2>2. Typed
    BY <2>1 DEF Init, Typed
  <2> QED
    BY <2>1, <2>2 DEF Init, IInv, Once, ReportFirst, Staged, Remembered,
                      ButtonAnswered
<1>2. IInv /\ [Next]_vars => IInv'
  <2> SUFFICES ASSUME IInv, [Next]_vars PROVE IInv'
    OBVIOUS
  <2>1. CASE FirstProbe \/ ProbeClicked \/ FilterEntered \/ ProbeAgain \/ TimerFires
    <3>1. Refresh /\ ~pass /\ posted' = posted /\ pass' = pass
      BY <2>1 DEF FirstProbe, ProbeClicked, FilterEntered, ProbeAgain, TimerFires,
                  AtHand, Idle, queue
    <3> QED
      BY <3>1, RefreshKeeps
  <2>2. CASE \/ EditFilter \/ ToggleAuto \/ OpenMenu \/ Dismiss \/ CopyRows
             \/ CopyAll \/ Close \/ CloseReturns \/ UNCHANGED vars
    <3>1. UNCHANGED <<button, threads, queue>>
      BY <2>2 DEF EditFilter, ToggleAuto, OpenMenu, Dismiss, CopyRows, CopyAll,
                  Copy, Close, CloseReturns, vars
    <3> QED
      BY <3>1 DEF IInv, Typed, Once, ReportFirst, Staged, Remembered, ClearPosted,
                  ButtonAnswered, threads, queue
  <2>3. CASE OnResults
    BY <2>3, AnswerKeeps DEF OnResults, threads
  <2>4. CASE OnError
    BY <2>4, AnswerKeeps DEF OnError, threads
  <2>5. CASE OnDeleteLater
    BY <2>5, DeleteLaterKeeps
  <2>6. CASE OnDeferredDelete
    BY <2>6, DeferredKeeps
  <2>7. CASE OnClear
    BY <2>7, ClearKeeps
  <2>8. ASSUME NEW w \in Workers, ReportResults(w) PROVE IInv'
    <3>1. PICK all \in Answers :
            Thread(w, "probing", "reported", "results",
                   {r \in all : Passes(r, asks[w].filter)})
      BY <2>8 DEF ReportResults
    <3> QED
      BY <3>1, FoundIsThere, ThreadKeeps
  <2>9. ASSUME NEW w \in Workers, ReportError(w) PROVE IInv'
    BY <2>9, ThreadKeeps DEF ReportError
  <2>10. ASSUME NEW w \in Workers, FinishPostsDelete(w) PROVE IInv'
    BY <2>10, ThreadKeeps DEF FinishPostsDelete
  <2>11. ASSUME NEW w \in Workers, FinishPostsClear(w) PROVE IInv'
    BY <2>11, ThreadKeeps DEF FinishPostsClear
  <2> QED
    BY <2>1, <2>2, <2>3, <2>4, <2>5, <2>6, <2>7, <2>8, <2>9, <2>10, <2>11
    DEF Next, Events, Menu, Worker
<1> QED
  BY <1>1, <1>2, PTL DEF Spec

(* The Probe button is never dead (refresh, _on_results, _on_error).       *)
THEOREM ButtonNeverDead == Spec => []ButtonAnswered
BY Inductive, PTL DEF IInv

(* Wherever Python code may call isRunning() on self.worker, that thread   *)
(* is not deleted: the slot that clears self.worker is taken in the pass   *)
(* in which the thread is deleted (gui.py:279-280).                        *)
THEOREM WorkerNeverDangles == Spec => []WorkerExists
<1>1. IInv => WorkerExists
  BY DEF IInv, Remembered, WorkerExists, Idle
<1> QED
  BY <1>1, Inductive, PTL

-----------------------------------------------------------------------------
(* What is shown and what is copied.                                       *)

(* The rows of the tree are those of self.records; the columns have all    *)
(* their fields; an open menu is about rows that are still there, unless   *)
(* the table was replaced under it.                                        *)
View ==
  /\ IsFiniteSet(records)
  /\ \A i \in DOMAIN posted : IsFiniteSet(posted[i].found)
  /\ tree.shows = "nothing" => records = {}
  /\ tree.shows = "rows" => tree.groups = Groups(records) /\ tree.red = Red(records)
  /\ \A g \in tree.groups : g \subseteq records
  /\ \A r \in records : r.meta \subseteq columns
  /\ menu # NoMenu =>
       /\ menu = [rows |-> menu.rows, all |-> menu.all, stale |-> menu.stale]
       /\ menu.stale \/ menu.rows \subseteq records
  /\ CopyIsWhole

(* A finite set has more than the element x exactly if it has another one. *)
LEMMA Several ==
  ASSUME NEW S, IsFiniteSet(S), NEW x \in S
  PROVE  Cardinality(S) > 1 <=> \E y \in S : y # x
<1>1. Cardinality(S) \in Nat
  BY FS_CardinalityType
<1>2. Cardinality({x}) = 1
  BY FS_Singleton
<1>3. /\ Cardinality({x}) <= Cardinality(S)
      /\ Cardinality(S) = Cardinality({x}) => S = {x}
  <2>1. {x} \in SUBSET S
    OBVIOUS
  <2> QED
    BY <2>1, FS_Subset
<1>4. CASE \E y \in S : y # x
  BY <1>1, <1>2, <1>3, <1>4
<1>5. CASE ~ \E y \in S : y # x
  <2>1. S = {x}
    BY <1>5
  <2> QED
    BY <1>2, <1>5, <2>1
<1> QED
  BY <1>4, <1>5

(* conflict_keys(): a record's endpoint is one of them exactly if a record *)
(* of another id has it.                                                   *)
LEMMA RedIsConflict ==
  ASSUME NEW found, IsFiniteSet(found), NEW r \in found
  PROVE  r \in Red(found) <=>
           \E s \in found : s.id # r.id /\ s.endpoint = r.endpoint
<1> DEFINE there == {s \in found : s.endpoint = r.endpoint}
           ids   == {s.id : s \in there}
           id    == [s \in there |-> s.id]
<1>1. IsFiniteSet(there)
  BY FS_Subset
<1>2. id \in Surjection(there, ids)
  BY DEF Surjection
<1>3. IsFiniteSet(ids)
  BY <1>1, <1>2, FS_Surjection
<1>4. r.id \in ids
  OBVIOUS
<1>5. Cardinality(ids) > 1 <=> \E i \in ids : i # r.id
  <2> HIDE DEF ids
  <2> QED
    BY <1>3, <1>4, Several
<1>6. r \in Red(found) <=> Cardinality(ids) > 1
  BY Zenon DEF Red, ConflictKeys
<1>7. (\E i \in ids : i # r.id) <=>
        \E s \in found : s.id # r.id /\ s.endpoint = r.endpoint
  BY Zenon
<1> QED
  BY <1>5, <1>6, <1>7

(* A table of new rows: OnResults, whatever was there.                     *)
LEMMA ResultsKeepView ==
  ASSUME Typed, View, OnResults
  PROVE  View'
<1> DEFINE found == Head(posted).found
<1>1. /\ 1 \in DOMAIN posted /\ posted[1] = Head(posted)
      /\ \A i \in DOMAIN posted' :
           i + 1 \in DOMAIN posted /\ posted'[i] = posted[i + 1]
  BY TakeKeeps DEF OnResults
<1>2. IsFiniteSet(records') /\ \A i \in DOMAIN posted' : IsFiniteSet(posted'[i].found)
  BY <1>1 DEF View, OnResults
<1>3. /\ records' = found /\ columns' = ColumnsFor(found)
      /\ tree' = IF found = {} THEN Placeholder("nothing", Asked)
                 ELSE [shows |-> "rows", groups |-> Groups(found),
                       red |-> Red(found), asked |-> Asked]
  BY DEF OnResults, Populate
<1> HIDE DEF found
<1>4. \A g \in Groups(found) : g \subseteq found
  BY DEF Groups
<1>5. /\ tree'.shows = "nothing" => records' = {}
      /\ tree'.shows = "rows" => /\ tree'.groups = Groups(records')
                                 /\ tree'.red = Red(records')
      /\ \A g \in tree'.groups : g \subseteq records'
  BY <1>3, <1>4 DEF Placeholder
<1>6. \A r \in records' : r.meta \subseteq columns'
  BY <1>3 DEF ColumnsFor
<1>7. menu' # NoMenu =>
        /\ menu' = [rows |-> menu'.rows, all |-> menu'.all, stale |-> menu'.stale]
        /\ menu'.stale \/ menu'.rows \subseteq records'
  BY DEF View, OnResults
<1>8. CopyIsWhole'
  BY DEF View, OnResults, CopyIsWhole, AsJson
<1> QED
  BY <1>2, <1>5, <1>6, <1>7, <1>8 DEF View

(* A copy of rows whose fields are all columns, unless the rows are stale. *)
LEMMA CopyKeepsView ==
  ASSUME View, NEW meant, NEW stale, Copy(meant, stale),
         stale \/ meant \subseteq records
  PROVE  View'
<1>1. PICK holds, late :
        /\ clipboard' = [meant |-> meant, holds |-> holds, stale |-> late]
        /\ \/ holds = {AsJson(r) : r \in meant} /\ late = FALSE
           \/ holds = {AsText(r) : r \in meant} /\ late = stale
  BY DEF Copy
<1>2. {h.id : h \in holds} = {r.id : r \in meant}
  <2>1. \A r \in meant : AsJson(r).id = r.id /\ AsText(r).id = r.id
    BY DEF AsJson, AsText
  <2>2. /\ \A h \in holds : \E r \in meant : h.id = r.id
        /\ \A r \in meant : \E h \in holds : h.id = r.id
    BY <1>1, <2>1, Zenon
  <2> QED
    BY <2>2
<1>3. ASSUME meant \subseteq records
      PROVE  \A r \in meant : AsText(r) = AsJson(r)
  <2>1. \A r \in meant : r.meta \cap columns = r.meta
    BY <1>3 DEF View
  <2> QED
    BY <2>1 DEF AsJson, AsText
<1>4. ASSUME meant \subseteq records
      PROVE  {AsText(r) : r \in meant} = {AsJson(r) : r \in meant}
  BY <1>3, <1>4
<1>5. late \/ holds = {AsJson(r) : r \in meant}
  BY <1>1, <1>4
<1>6. CopyIsWhole'
  BY <1>1, <1>2, <1>5 DEF CopyIsWhole, AsJson
<1>7. UNCHANGED <<view, queue>> /\ menu' = NoMenu
  BY DEF Copy
<1> QED
  BY <1>6, <1>7 DEF View, view, queue

(* Whatever a thread posts keeps it, and so does what leaves the table and *)
(* the menu alone.                                                         *)
LEMMA StepKeepsView ==
  ASSUME Typed, View, UNCHANGED <<view, hand>>,
         \A i \in DOMAIN posted' : IsFiniteSet(posted'[i].found)
  PROVE  View'
BY DEF View, view, hand, CopyIsWhole, AsJson

LEMMA PostedStaysFinite ==
  ASSUME Typed, View, NEW w \in Workers, NEW found \in SUBSET Records,
         NEW from, NEW to, NEW kind \in {"results", "failed", "delete", "clear"},
         Thread(w, from, to, kind, found), IsFiniteSet(found)
  PROVE  View'
<1>1. /\ DOMAIN posted' = DOMAIN posted \cup {Len(posted) + 1}
      /\ \A i \in DOMAIN posted : posted'[i] = posted[i]
      /\ posted'[Len(posted) + 1] = Event(kind, w, found)
  BY PostKeeps DEF Thread
<1>2. posted'[Len(posted) + 1].found = found
  BY <1>1 DEF Event
<1>3. \A i \in DOMAIN posted : IsFiniteSet(posted[i].found)
  BY DEF View
<1>4. \A i \in DOMAIN posted' : IsFiniteSet(posted'[i].found)
  BY <1>1, <1>2, <1>3
<1>5. UNCHANGED <<view, hand>>
  BY DEF Thread
<1> QED
  BY <1>4, <1>5, StepKeepsView

(* The invariant of the view is inductive, given the types.                *)
LEMMA ViewInductive == Spec => []View
<1>1. Init => View
  <2> SUFFICES ASSUME Init PROVE View
    OBVIOUS
  <2>1. DOMAIN posted = {} /\ IsFiniteSet({})
    BY FS_EmptySet DEF Init
  <2> QED
    BY <2>1 DEF Init, View, Placeholder, CopyIsWhole
<1>2. IInv /\ View /\ [Next]_vars => View'
  <2> SUFFICES ASSUME IInv, Typed, View, [Next]_vars PROVE View'
    BY DEF IInv
  <2>1. CASE \/ FirstProbe \/ ProbeClicked \/ FilterEntered \/ EditFilter
             \/ TimerFires \/ ToggleAuto \/ Close \/ CloseReturns
             \/ UNCHANGED vars
    <3>1. UNCHANGED <<view, hand>> /\ UNCHANGED posted
      BY <2>1 DEF FirstProbe, ProbeClicked, FilterEntered, EditFilter, TimerFires,
                  ToggleAuto, Close, CloseReturns, vars, queue
    <3> QED
      BY <3>1, StepKeepsView DEF View
  <2>2. CASE OnResults
    BY <2>2, ResultsKeepView
  <2>3. CASE OnError
    <3>1. \A i \in DOMAIN posted' : IsFiniteSet(posted'[i].found)
      BY <2>3, TakeKeeps DEF View, OnError
    <3>2. UNCHANGED <<records, columns, menu, clipboard>>
      BY <2>3 DEF OnError, hand
    <3>3. tree'.shows = "failed" /\ tree'.groups = {}
      BY <2>3 DEF OnError, Placeholder
    <3>4. CopyIsWhole'
      BY <3>2 DEF View, CopyIsWhole, AsJson
    <3> QED
      BY <3>1, <3>2, <3>3, <3>4 DEF View
  <2>4. CASE OnDeferredDelete \/ OnClear
    <3>1. \A i \in DOMAIN posted' : IsFiniteSet(posted'[i].found)
      BY <2>4, TakeKeeps DEF View, OnDeferredDelete, OnClear
    <3> QED
      BY <2>4, <3>1, StepKeepsView DEF OnDeferredDelete, OnClear
  <2>11. CASE OnDeleteLater
    <3>1. \A i \in DOMAIN posted' : IsFiniteSet(posted'[i].found)
      BY <2>11, DeleteLaterKeeps, FS_EmptySet DEF View
    <3> QED
      BY <2>11, <3>1, StepKeepsView DEF OnDeleteLater
  <2>5. CASE OpenMenu
    <3>1. PICK rows \in {{}} \cup tree.groups \cup {{r} : r \in UNION tree.groups} :
            menu' = [rows |-> rows, all |-> records # {}, stale |-> FALSE]
      BY <2>5 DEF OpenMenu
    <3>2. rows \subseteq records
      BY DEF View
    <3>3. UNCHANGED <<view, posted, clipboard>>
      BY <2>5 DEF OpenMenu, queue
    <3>4. menu' = [rows |-> menu'.rows, all |-> menu'.all, stale |-> menu'.stale]
          /\ menu'.rows = rows
      BY <3>1
    <3>5. CopyIsWhole'
      BY <3>3 DEF View, CopyIsWhole, AsJson
    <3> QED
      BY <3>2, <3>3, <3>4, <3>5 DEF View, view
  <2>6. CASE Dismiss \/ ProbeAgain
    <3>1. UNCHANGED <<view, posted, clipboard>> /\ menu' = NoMenu
      BY <2>6 DEF Dismiss, ProbeAgain, queue
    <3>2. CopyIsWhole'
      BY <3>1 DEF View, CopyIsWhole, AsJson
    <3> QED
      BY <3>1, <3>2 DEF View, view
  <2>7. CASE CopyRows
    BY <2>7, CopyKeepsView DEF CopyRows, View
  <2>8. CASE CopyAll
    BY <2>8, CopyKeepsView DEF CopyAll
  <2>9. ASSUME NEW w \in Workers, ReportResults(w) PROVE View'
    <3>1. PICK all \in Answers :
            Thread(w, "probing", "reported", "results",
                   {r \in all : Passes(r, asks[w].filter)})
      BY <2>9 DEF ReportResults
    <3> QED
      BY <3>1, FoundIsThere, PostedStaysFinite
  <2>10. ASSUME NEW w \in Workers,
                ReportError(w) \/ FinishPostsDelete(w) \/ FinishPostsClear(w)
         PROVE  View'
    BY <2>10, FS_EmptySet, PostedStaysFinite
    DEF ReportError, FinishPostsDelete, FinishPostsClear
  <2> QED
    BY <2>1, <2>2, <2>3, <2>4, <2>5, <2>6, <2>7, <2>8, <2>9, <2>10, <2>11
    DEF Next, Events, Menu, Worker
<1> QED
  BY <1>1, <1>2, Inductive, PTL DEF Spec

(* What the tree shows is what self.records holds, each record once, under *)
(* its app, in red exactly if another instance claims its endpoint         *)
(* (populate, conflict_keys).                                              *)
THEOREM TreeShowsRecords == Spec => []ShownIsKept
<1>1. View => ShownIsKept
  <2> SUFFICES ASSUME View PROVE ShownIsKept
    OBVIOUS
  <2> SUFFICES ASSUME tree.shows = "rows"
               PROVE  /\ \A r \in records :
                           /\ {g \in tree.groups : r \in g} =
                                {{s \in records : s.app = r.app}}
                           /\ r \in tree.red <=>
                                \E s \in records :
                                  s.id # r.id /\ s.endpoint = r.endpoint
                      /\ UNION tree.groups = records
    BY DEF View, ShownIsKept
  <2>1. tree.groups = Groups(records) /\ tree.red = Red(records)
        /\ IsFiniteSet(records)
    BY DEF View
  <2>2. ASSUME NEW r \in records
        PROVE  {g \in Groups(records) : r \in g} = {{s \in records : s.app = r.app}}
    BY Zenon DEF Groups
  <2>3. ASSUME NEW r \in records
        PROVE  r \in Red(records) <=>
                 \E s \in records : s.id # r.id /\ s.endpoint = r.endpoint
    BY <2>1, RedIsConflict
  <2>4. UNION Groups(records) = records
    <3>1. UNION Groups(records) \subseteq records
      BY DEF Groups
    <3>2. ASSUME NEW r \in records PROVE r \in UNION Groups(records)
      <4>1. /\ {s \in records : s.app = r.app} \in Groups(records)
            /\ r \in {s \in records : s.app = r.app}
        BY Zenon DEF Groups
      <4> QED
        BY <4>1
    <3> QED
      BY <3>1, <3>2
  <2> QED
    BY <2>1, <2>2, <2>3, <2>4
<1> QED
  BY <1>1, ViewInductive, PTL

(* A copy is whole whatever arrived while the menu was open, unless the    *)
(* table was replaced under it (build_context_menu, record_text).          *)
THEOREM CopiesAreWhole == Spec => []CopyIsWhole
BY ViewInductive, PTL DEF View

-----------------------------------------------------------------------------
(* Types, and how many events the threads leave behind.                    *)

(* The variables but for posted.                                           *)
Shaped ==
  /\ window \in {"open", "closing", "closed"}
  /\ {due, auto, timer, button} \subseteq BOOLEAN
  /\ timer <=> auto /\ window = "open"
  /\ records \subseteq Records /\ columns \subseteq ColumnsFor(Records)
  /\ tree.shows \in {"probing", "nothing", "failed", "rows"}
  /\ menu # NoMenu => menu.rows \subseteq Records /\ window = "open"

(* Each thread owes its report, its deletion and the end of self.worker:   *)
(* no more than three events for each are in the queue.                    *)
LEMMA PostedBounded ==
  ASSUME IInv
  PROVE  Len(posted) <= 3 * Cardinality(Workers)
<1> DEFINE D == DOMAIN posted
<1> DEFINE Kinds == {"report", "delete", "clear"}
<1> DEFINE T == Workers \X Kinds
<1> DEFINE f == [i \in D |-> <<posted[i].of, Slot(posted[i])>>]
<1>1. D = 1..Len(posted) /\ Len(posted) \in Nat
  BY DEF IInv, Typed
<1>2. Cardinality(D) = Len(posted)
  <2>1. PICK l \in Nat : Len(posted) = l
    BY <1>1
  <2>2. Cardinality(1..l) = IF 1 > l THEN 0 ELSE l - 1 + 1
    BY FS_Interval
  <2>3. Cardinality(1..l) = l
    BY <2>2
  <2> QED
    BY <1>1, <2>1, <2>3
<1>3. IsFiniteSet(Kinds) /\ Cardinality(Kinds) = 3
  <2>1. /\ IsFiniteSet({"report"}) /\ Cardinality({"report"}) = 1
        /\ "delete" \notin {"report"} /\ "clear" \notin {"report", "delete"}
    BY FS_Singleton
  <2>2. /\ IsFiniteSet({"report"} \cup {"delete"})
        /\ Cardinality({"report"} \cup {"delete"}) = 2
    BY <2>1, FS_AddElement
  <2>3. {"report"} \cup {"delete"} = {"report", "delete"}
    OBVIOUS
  <2>4. /\ IsFiniteSet({"report", "delete"} \cup {"clear"})
        /\ Cardinality({"report", "delete"} \cup {"clear"}) = 3
    BY <2>1, <2>2, <2>3, FS_AddElement
  <2>5. {"report", "delete"} \cup {"clear"} = Kinds
    OBVIOUS
  <2> QED
    BY <2>4, <2>5
<1>4. IsFiniteSet(T) /\ Cardinality(T) = Cardinality(Workers) * Cardinality(Kinds)
  BY <1>3, FS_Product, BrowserAssumption
<1>5. f \in Injection(D, T)
  <2>1. \A i \in D : posted[i].of \in Workers
    BY EventsHaveThreads DEF IInv, Typed
  <2>2. \A i \in D : <<posted[i].of, Slot(posted[i])>> \in T
    BY <2>1 DEF Slot
  <2>3. f \in [D -> T]
    <3> HIDE DEF T
    <3> QED
      BY <2>2
  <2>4. ASSUME NEW i \in D, NEW j \in D, f[i] = f[j]
        PROVE  i = j
    <3>1. posted[i].of = posted[j].of /\ Slot(posted[i]) = Slot(posted[j])
      BY <2>4
    <3> QED
      BY <3>1 DEF IInv, Once
  <2> HIDE DEF D, T, f
  <2> QED
    BY <2>3, <2>4 DEF Injection, IsInjective
<1>6. Cardinality(D) <= Cardinality(T)
  BY <1>4, <1>5, FS_Injection
<1>7. Cardinality(Workers) \in Nat
  BY FS_CardinalityType, BrowserAssumption
<1> HIDE DEF D, T, Kinds
<1>8. Len(posted) <= Cardinality(Workers) * 3
  BY <1>2, <1>3, <1>4, <1>6
<1> QED
  BY <1>7, <1>8

(* refresh() and the steps of the threads leave the rest alone, except     *)
(* that the former disables the button.                                    *)
LEMMA ShapedAlways == Spec => []Shaped
<1>1. Init => Shaped
  <2> SUFFICES ASSUME Init PROVE Shaped
    OBVIOUS
  <2>1. auto \in BOOLEAN
    BY BrowserAssumption DEF Init
  <2> QED
    BY <2>1 DEF Init, Shaped, Placeholder
<1>2. IInv /\ View /\ Shaped /\ [Next]_vars => Shaped'
  <2> SUFFICES ASSUME IInv, View, Shaped, [Next]_vars PROVE Shaped'
    OBVIOUS
  <2>0. Refresh => button' \in BOOLEAN
    BY DEF Refresh, Shaped
  <2>1. CASE FirstProbe \/ ProbeClicked \/ FilterEntered \/ TimerFires
    <3>1. UNCHANGED <<window, auto, timer, view, hand>>
      BY <2>1 DEF FirstProbe, ProbeClicked, FilterEntered, TimerFires, clock
    <3>2. due' = FALSE \/ due' = due
      BY <2>1 DEF FirstProbe, ProbeClicked, FilterEntered, TimerFires, clock
    <3>3. button' \in BOOLEAN
      BY <2>0, <2>1 DEF FirstProbe, ProbeClicked, FilterEntered, TimerFires
    <3>4. due' \in BOOLEAN
      BY <3>2 DEF Shaped
    <3> QED
      BY <3>1, <3>3, <3>4 DEF Shaped, view, hand
  <2>2. CASE ProbeAgain \/ Dismiss
    BY <2>0, <2>2 DEF Shaped, ProbeAgain, Dismiss, clock, view
  <2>3. CASE EditFilter \/ UNCHANGED vars
    BY <2>3 DEF Shaped, EditFilter, vars, clock, view, hand
  <2>4. CASE ToggleAuto
    BY <2>4 DEF Shaped, ToggleAuto, AtHand, Idle, view, hand
  <2>5. CASE Close \/ CloseReturns
    <3>1. UNCHANGED <<due, auto, button, view, hand>>
      BY <2>5 DEF Close, CloseReturns, clock
    <3>2. window' \in {"closing", "closed"}
      BY <2>5 DEF Close, CloseReturns
    <3>3. timer' = FALSE
      <4>1. CASE Close
        BY <4>1 DEF Close
      <4>2. CASE CloseReturns
        <5>1. timer' = timer /\ window = "closing"
          BY <4>2 DEF CloseReturns, clock
        <5>2. timer \in BOOLEAN /\ ~timer
          BY <5>1 DEF Shaped
        <5> QED
          BY <5>1, <5>2
      <4> QED
        BY <2>5, <4>1, <4>2
    <3>4. menu' = NoMenu
      <4>1. CASE Close
        BY <3>1, <4>1 DEF Close, AtHand, Idle, hand
      <4>2. CASE CloseReturns
        BY <3>1, <4>2 DEF CloseReturns, Shaped, hand
      <4> QED
        BY <2>5, <4>1, <4>2
    <3> QED
      BY <3>1, <3>2, <3>3, <3>4 DEF Shaped, view
  <2>6. CASE OnResults
    <3> DEFINE found == Head(posted).found
    <3>1. found \subseteq Records
      <4>1. 1 \in DOMAIN posted /\ posted[1] = Head(posted)
        BY <2>6, TakeKeeps DEF IInv, OnResults
      <4>2. posted[1] \in PostedEvent
        BY <4>1 DEF IInv, Typed
      <4> QED
        BY <4>1, <4>2 DEF PostedEvent
    <3>2. records' = found /\ columns' = ColumnsFor(found)
          /\ tree'.shows \in {"nothing", "rows"}
      BY <2>6 DEF OnResults, Populate, Placeholder
    <3>3. columns' \subseteq ColumnsFor(Records)
      BY <3>1, <3>2 DEF ColumnsFor
    <3>4. menu' # NoMenu => menu # NoMenu /\ menu'.rows = menu.rows
      BY <2>6 DEF OnResults, View
    <3>5. UNCHANGED <<window, due, auto, timer>> /\ button' = TRUE
      BY <2>6 DEF OnResults, clock
    <3> QED
      BY <3>1, <3>2, <3>3, <3>4, <3>5 DEF Shaped
  <2>7. CASE OnError
    BY <2>7 DEF Shaped, OnError, Placeholder, clock, hand
  <2>8. CASE OnDeleteLater \/ OnDeferredDelete \/ OnClear
    BY <2>8 DEF Shaped, OnDeleteLater, OnDeferredDelete, OnClear, clock, view, hand
  <2>9. CASE OpenMenu
    <3>1. PICK rows \in {{}} \cup tree.groups \cup {{r} : r \in UNION tree.groups} :
            menu' = [rows |-> rows, all |-> records # {}, stale |-> FALSE]
      BY <2>9 DEF OpenMenu
    <3>2. rows \subseteq records
      BY DEF View
    <3> QED
      BY <2>9, <3>1, <3>2 DEF Shaped, OpenMenu, AtHand, Idle, clock, view
  <2>10. CASE CopyRows \/ CopyAll
    BY <2>10 DEF Shaped, CopyRows, CopyAll, Copy, clock, view
  <2>11. ASSUME NEW w \in Workers, Worker(w) PROVE Shaped'
    <3>1. UNCHANGED <<window, clock, button, view, hand>>
      BY <2>11 DEF Worker, ReportResults, ReportError, FinishPostsDelete,
                   FinishPostsClear, Thread
    <3> QED
      BY <3>1 DEF Shaped, clock, view, hand
  <2> QED
    BY <2>1, <2>2, <2>3, <2>4, <2>5, <2>6, <2>7, <2>8, <2>9, <2>10, <2>11
    DEF Next, Events, Menu
<1> QED
  BY <1>1, <1>2, Inductive, ViewInductive, PTL DEF Spec

(* The types, and no thread leaves more than three events behind, however  *)
(* many probes overlap (the signals of DiscoveryWorker and QThread).       *)
THEOREM BrowserTypeCorrect == Spec => []TypeOK
<1>1. IInv /\ Shaped => TypeOK
  BY PostedBounded DEF IInv, Typed, PostedEvent, Shaped, TypeOK
<1> QED
  BY <1>1, Inductive, ShapedAlways, PTL

-----------------------------------------------------------------------------
(* What a probe asks for.                                                  *)

(* A list without blank texts.                                             *)
Plain(texts) == IsSequence(texts) /\ \A i \in DOMAIN texts : texts[i] # <<>>

LEMMA SequenceDomain ==
  ASSUME NEW s, IsSequence(s)
  PROVE  \E n \in Nat : n = Len(s) /\ DOMAIN s = 1..n
BY DEF IsSequence

(* Nothing is taken from a list without blank texts.                       *)
LEMMA PlainStays ==
  ASSUME NEW texts, Plain(texts)
  PROVE  NotBlank(texts) = texts
<1>1. PICK n \in Nat : DOMAIN texts = 1..n /\ n = Len(texts)
  BY SequenceDomain DEF Plain
<1> DEFINE there == {i \in DOMAIN texts : texts[i] # <<>>}
           upTo(i) == Cardinality({j \in there : j <= i})
<1>2. there = 1..n
  BY <1>1 DEF Plain
<1>3. Cardinality(1..n) = n
  BY FS_Interval
<1>4. ASSUME NEW i \in 1..n PROVE upTo(i) = i
  <2>1. {j \in there : j <= i} = 1..i
    BY <1>2, <1>4
  <2>2. Cardinality(1..i) = i
    BY FS_Interval
  <2> QED
    BY <2>1, <2>2
<1>5. ASSUME NEW m \in 1..n PROVE (CHOOSE i \in there : upTo(i) = m) = m
  <2> HIDE DEF upTo
  <2>1. m \in there /\ upTo(m) = m /\ \A i \in there : upTo(i) = m => i = m
    BY <1>2, <1>4, <1>5
  <2> HIDE DEF there
  <2> QED
    BY <2>1
<1>6. NotBlank(texts) = [m \in 1..Cardinality(there) |->
                           texts[CHOOSE i \in there : upTo(i) = m]]
  BY Zenon DEF NotBlank
<1> HIDE DEF there, upTo
<1>7. NotBlank(texts) = [m \in 1..n |-> texts[m]]
  BY <1>2, <1>3, <1>5, <1>6
<1>8. texts = [m \in 1..n |-> texts[m]]
  <2>1. texts \in Seq({texts[i] : i \in DOMAIN texts})
    BY DEF Plain, IsSequence
  <2> QED
    BY <1>1, <2>1
<1> QED
  BY <1>7, <1>8

(* What is kept of a list is such a list.                                  *)
LEMMA NotBlankIsPlain ==
  ASSUME NEW texts, IsSequence(texts)
  PROVE  Plain(NotBlank(texts))
<1>1. PICK n \in Nat : DOMAIN texts = 1..n
  BY SequenceDomain
<1> DEFINE there == {i \in DOMAIN texts : texts[i] # <<>>}
           upTo(i) == Cardinality({j \in there : j <= i})
           c == Cardinality(there)
           kept == NotBlank(texts)
<1>2. kept = [m \in 1..c |-> texts[CHOOSE i \in there : upTo(i) = m]]
  BY Zenon DEF NotBlank
<1>3. IsFiniteSet(there) /\ there \subseteq 1..n
  <2>1. IsFiniteSet(1..n) /\ there \in SUBSET (1..n)
    BY <1>1, FS_Interval
  <2> QED
    BY <2>1, FS_Subset
<1>4. c \in Nat
  BY <1>3, FS_CardinalityType
<1>5. ASSUME NEW i \in there
      PROVE  /\ IsFiniteSet({j \in there : j <= i})
             /\ upTo(i) \in 1..c
  <2>1. {j \in there : j <= i} \in SUBSET there
    OBVIOUS
  <2>2. /\ IsFiniteSet({j \in there : j <= i})
        /\ upTo(i) <= c
    BY <1>3, <2>1, FS_Subset
  <2>3. upTo(i) \in Nat
    BY <2>2, FS_CardinalityType
  <2>4. upTo(i) # 0
    <3>1. i \in {j \in there : j <= i}
      BY <1>3, <1>5
    <3> QED
      BY <2>2, <3>1, FS_EmptySet
  <2> HIDE DEF upTo, c
  <2> QED
    BY <1>4, <2>2, <2>3, <2>4
<1>6. ASSUME NEW i \in there, NEW k \in there, i < k
      PROVE  upTo(i) # upTo(k)
  <2>1. {j \in there : j <= i} \in SUBSET {j \in there : j <= k}
    BY <1>3, <1>6
  <2>2. k \in {j \in there : j <= k} /\ k \notin {j \in there : j <= i}
    BY <1>3, <1>6
  <2>3. IsFiniteSet({j \in there : j <= k})
    BY <1>5
  <2> QED
    BY <2>1, <2>2, <2>3, FS_Subset
<1> DEFINE f == [i \in there |-> upTo(i)]
<1>7. f \in Injection(there, 1..c)
  <2>1. f \in [there -> 1..c]
    <3> HIDE DEF upTo, c, there
    <3> QED
      BY <1>5
  <2>2. ASSUME NEW i \in there, NEW k \in there, f[i] = f[k]
        PROVE  i = k
    <3>1. i \in Nat /\ k \in Nat
      BY <1>3
    <3>2. f[i] = upTo(i) /\ f[k] = upTo(k)
      BY Zenon
    <3>3. upTo(i) = upTo(k)
      BY <2>2, <3>2, Zenon
    <3>4. ~(i < k) /\ ~(k < i)
      <4> HIDE DEF upTo, there, f
      <4> QED
        BY <1>6, <3>3, Zenon
    <3> HIDE DEF upTo, there, f
    <3> QED
      BY <3>1, <3>4
  <2> HIDE DEF f
  <2> QED
    BY <2>1, <2>2 DEF Injection, IsInjective
<1>8. IsFiniteSet(1..c) /\ Cardinality(1..c) = c
  BY <1>4, FS_Interval
<1>9. f \in Surjection(there, 1..c)
  <2> HIDE DEF f, c
  <2>1. Cardinality(there) = Cardinality(1..c)
    BY <1>8 DEF c
  <2> QED
    BY <1>7, <1>8, <2>1, FS_Injection
<1>10. ASSUME NEW m \in 1..c
       PROVE  (CHOOSE i \in there : upTo(i) = m) \in there
  <2>1. \E i \in there : f[i] = m
    <3> HIDE DEF f, c
    <3> QED
      BY <1>9, <1>10 DEF Surjection
  <2>2. \E i \in there : upTo(i) = m
    BY <2>1, Zenon
  <2> HIDE DEF upTo, there
  <2> QED
    BY <2>2
<1>11. DOMAIN kept = 1..c /\ \A m \in 1..c : kept[m] # <<>>
  <2>1. \A i \in there : texts[i] # <<>>
    OBVIOUS
  <2> HIDE DEF kept, there, upTo, c
  <2> QED
    BY <1>2, <1>10, <2>1
<1>12. IsSequence(kept)
  <2> HIDE DEF kept
  <2>1. kept = [m \in 1..c |-> kept[m]]
    <3>1. kept = [m \in DOMAIN kept |-> kept[m]]
      <4> HIDE DEF there, upTo, c
      <4> QED
        BY <1>2
    <3> QED
      BY <1>11, <3>1
  <2> HIDE DEF c
  <2> QED
    BY <1>4, <1>11, <2>1 DEF IsSequence
<1> QED
  BY <1>11, <1>12 DEF Plain

(* A setting that was parsed is parsed again to itself.                    *)
LEMMA ParsedTwice ==
  ASSUME NEW value, IsSetting(value),
         ParseBroadcastSetting(value) # Refused
  PROVE  ParseBroadcastSetting(List(ParseBroadcastSetting(value)))
           = ParseBroadcastSetting(value)
<1> DEFINE parsed == ParseBroadcastSetting(value)
<1>1. \A texts : ParseBroadcastSetting(List(texts)) = NotBlank(texts)
  BY DEF ParseBroadcastSetting, SaysOn, SaysOff, List, Null
<1>2. Plain(<<>>) /\ Plain(<<<<Limited>>>>)
  BY DEF Plain, IsSequence
<1>3. CASE SaysOn(value) \/ SaysOff(value)
  <2>1. parsed \in {<<>>, <<<<Limited>>>>}
    BY <1>3 DEF ParseBroadcastSetting
  <2> QED
    BY <1>1, <1>2, <2>1, PlainStays
<1>4. CASE ~SaysOn(value) /\ ~SaysOff(value) /\ value.form = "text"
  <2>1. parsed = [i \in DOMAIN value.words |-> <<value.words[i]>>]
    BY <1>4 DEF ParseBroadcastSetting
  <2>2. IsSequence(value.words)
    BY <1>4 DEF IsSetting
  <2>3. PICK n \in Nat : DOMAIN value.words = 1..n
    BY <2>2, SequenceDomain
  <2>4. Plain(parsed)
    BY <2>1, <2>3 DEF Plain, IsSequence
  <2> QED
    BY <1>1, <2>4, PlainStays
<1>5. CASE ~SaysOn(value) /\ ~SaysOff(value) /\ value.form = "list"
  <2>1. parsed = NotBlank(value.texts)
    BY <1>5 DEF ParseBroadcastSetting
  <2>2. Plain(parsed)
    BY <1>5, <2>1, NotBlankIsPlain DEF IsSetting
  <2> QED
    BY <1>1, <2>2, PlainStays
<1> QED
  BY <1>3, <1>4, <1>5 DEF ParseBroadcastSetting

(* The command line tool has no trouble where the browser has none, and    *)
(* makes the same call.                                                    *)
LEMMA SameOptions ==
  ASSUME NEW told, ~Fails(told, GuiNames)
  PROVE  /\ ~Fails(told, CliNames)
         /\ \A f : Call(f, Options(told, CliNames)) = Call(f, Options(told, GuiNames))
<1>1. /\ CliNames \subseteq GuiNames
      /\ "port" \in CliNames /\ "timeout" \in CliNames
  BY DEF CliNames, GuiNames, Defaults
<1>2. LET cli == Options(told, CliNames)
          gui == Options(told, GuiNames)
      IN  cli.port = gui.port /\ cli.timeout = gui.timeout
          /\ cli.broadcast = gui.broadcast
  BY <1>1 DEF Options
<1> QED
  BY <1>1, <1>2 DEF Call, Fails

(* Each of the sessions has settings that can be parsed twice.             *)
LEMMA BroadcastAsTold ==
  ASSUME NEW s \in Sessions, ~Fails(s.given, GuiNames)
  PROVE  LET told == Options(s.given, GuiNames).broadcast
         IN  ParseBroadcastSetting(List(told)) = told
<1> DEFINE args == s.given.args
           env  == s.given.env.broadcast
           file == LoadConfig(s.given.file)
           cfg  == FileBroadcast(file)
           resolved == ResolveBroadcast(args.noBroadcast, args.addrs, env, cfg)
<1>1. /\ Options(s.given, GuiNames).broadcast = resolved
      /\ resolved # Refused /\ file # NotMapping
  BY DEF Options, Fails, Broadcast
<1>2. IsSetting(List(args.addrs)) /\ IsSetting(env) /\ IsSetting(cfg)
      /\ IsSetting(Bool(TRUE))
  BY <1>1, BrowserAssumption DEF IsSetting, List, Bool
<1> HIDE DEF args, env, cfg
<1>3. CASE args.noBroadcast
  <2>1. IsSetting(Bool(FALSE)) /\ ParseBroadcastSetting(Bool(FALSE)) = <<>>
    BY DEF IsSetting, Bool, ParseBroadcastSetting, SaysOn, SaysOff, Null
  <2>2. resolved = <<>>
    BY <1>3 DEF ResolveBroadcast
  <2>3. ParseBroadcastSetting(Bool(FALSE)) # Refused
    BY <1>1, <2>1, <2>2
  <2> QED
    BY <1>1, <2>1, <2>2, <2>3, ParsedTwice
<1>4. CASE ~args.noBroadcast
  <2>1. PICK value : IsSetting(value) /\ resolved = ParseBroadcastSetting(value)
    BY <1>2, <1>4 DEF ResolveBroadcast
  <2> QED
    BY <1>1, <2>1, ParsedTwice
<1> QED
  BY <1>3, <1>4

(* With at most one --filter, and neither it nor its glob empty, the two   *)
(* tools understand the same.                                              *)
LEMMA OneFilter ==
  ASSUME NEW pairs, IsSequence(pairs), GuiFilter(pairs) # Refused,
         ~(Len(pairs) > 1), pairs # <<NoText>>, \A i \in DOMAIN pairs : pairs[i].glob # Blank
  PROVE  CliFilter(pairs) = GuiFilter(pairs)
<1> DEFINE last(k) == CHOOSE i \in DOMAIN pairs :
                        /\ pairs[i].key = k
                        /\ \A j \in DOMAIN pairs : j > i => pairs[j].key # k
           told(k) == Glob(pairs[last(k)])
           some == \E i \in DOMAIN pairs : pairs[i] \in {Bare, NoText}
           keys == {pairs[i].key : i \in DOMAIN pairs}
<1>1. CliFilter(pairs) = IF some THEN Refused ELSE [k \in keys |-> told(k)]
  BY Zenon DEF CliFilter
<1>2. PICK n \in Nat : n = Len(pairs) /\ DOMAIN pairs = 1..n
  BY SequenceDomain
<1>3. CASE n = 0
  <2>1. DOMAIN pairs = {} /\ pairs = <<>>
    BY <1>2, <1>3 DEF IsSequence
  <2>2. keys = {} /\ ~some
    BY <2>1
  <2>3. GuiFilter(pairs) = NoFilter
    BY <2>1 DEF GuiFilter
  <2> HIDE DEF keys, told, some
  <2> QED
    BY <1>1, <2>2, <2>3 DEF NoFilter
<1>4. CASE n = 1
  <2> DEFINE arg == pairs[1]
  <2>1. DOMAIN pairs = {1} /\ pairs # <<>>
    BY <1>2, <1>4
  <2>6. pairs = <<arg>> /\ arg # NoText
    BY <1>2, <1>4, <2>1 DEF IsSequence
  <2>2. /\ arg # Bare /\ arg.glob # Blank
        /\ GuiFilter(pairs) = [k \in {arg.key} |-> arg.glob]
    BY <1>2, <1>4, <2>1, <2>6 DEF GuiFilter
  <2>3. keys = {arg.key} /\ ~some
    BY <2>1, <2>2, <2>6
  <2>4. last(arg.key) = 1
    BY <2>1
  <2>5. told(arg.key) = arg.glob
    BY <2>2, <2>4 DEF Glob
  <2> HIDE DEF keys, told, some
  <2> QED
    BY <1>1, <2>2, <2>3, <2>5
<1> QED
  BY <1>2, <1>3, <1>4

(* The toolbar holds what was told until the user edits it, and what a     *)
(* running thread was given comes from the toolbar and the options.        *)
AsTold ==
  /\ \E s \in Sessions : given = s.given
  /\ ~Fails(given, GuiNames) /\ options = Options(given, GuiNames)
  /\ GuiFilter(given.args.filter) # Refused
  /\ DOMAIN filter \subseteq FilterKeys
  /\ "filter" \in may \/ filter = GuiFilter(given.args.filter)
  /\ asks = [w \in Workers |-> asks[w]]
  /\ \A w \in Workers : Running(w) =>
       /\ asks[w].broadcast = ParseBroadcastSetting(List(options.broadcast))
       /\ \/ "filter" \in may
          \/ asks[w] = Call(GuiFilter(given.args.filter), options)

LEMMA RefreshKeepsTold ==
  ASSUME Typed, AsTold, Refresh, UNCHANGED <<config, filter>>
  PROVE  AsTold'
<1>1. CASE UNCHANGED threads
  BY <1>1 DEF AsTold, Running, threads, config
<1>2. CASE \E w \in Workers : /\ stage' = [stage EXCEPT ![w] = "probing"]
                              /\ asks' = [asks EXCEPT ![w] = CallsWith]
  <2>1. PICK w \in Workers : /\ stage' = [stage EXCEPT ![w] = "probing"]
                             /\ asks' = [asks EXCEPT ![w] = CallsWith]
    BY <1>2
  <2>2. UNCHANGED <<given, options, may, filter>>
    BY DEF config
  <2>3. /\ CallsWith.broadcast = ParseBroadcastSetting(List(options.broadcast))
        /\ "filter" \in may \/ CallsWith = Call(GuiFilter(given.args.filter), options)
    BY DEF AsTold, CallsWith, Call
  <2>4. /\ asks' = [x \in Workers |-> asks'[x]]
        /\ asks'[w] = CallsWith
        /\ \A x \in Workers : x # w => asks'[x] = asks[x]
    <3> HIDE DEF CallsWith
    <3> QED
      BY <2>1 DEF AsTold
  <2>5. \A x \in Workers : x # w => stage'[x] = stage[x]
    BY <2>1 DEF Typed
  <2> QED
    BY <2>2, <2>3, <2>4, <2>5 DEF AsTold, Running
<1> QED
  BY <1>1, <1>2 DEF Refresh

(* A thread that has ended, and is deleted, was not running.               *)
LEMMA FreedKeepsTold ==
  ASSUME IInv, AsTold, OnDeferredDelete
  PROVE  AsTold'
<1> DEFINE w == Head(posted).of
<1>1. 1 \in DOMAIN posted /\ posted[1] = Head(posted)
  BY TakeKeeps DEF IInv, OnDeferredDelete
<1>2. w \in Workers
  BY <1>1, EventsHaveThreads DEF IInv, Typed
<1>3. UNCHANGED <<given, options, may, filter>>
  BY DEF OnDeferredDelete, config
<1>4. /\ asks' = [asks EXCEPT ![w] = Refused]
      /\ stage' = [stage EXCEPT ![w] = "free"]
  BY DEF OnDeferredDelete
<1> HIDE DEF w
<1>5. /\ asks' = [x \in Workers |-> asks'[x]]
      /\ \A x \in Workers : x # w => asks'[x] = asks[x]
  BY <1>2, <1>4 DEF AsTold
<1>6. /\ stage'[w] = "free"
      /\ \A x \in Workers : x # w => stage'[x] = stage[x]
  BY <1>2, <1>4 DEF IInv, Typed
<1> QED
  BY <1>3, <1>5, <1>6 DEF AsTold, Running

LEMMA ToldAlways == Spec => []AsTold
<1>1. Init => AsTold
  <2> SUFFICES ASSUME Init PROVE AsTold
    OBVIOUS
  <2>1. \A w \in Workers : ~Running(w)
    BY DEF Init, Running
  <2>2. DOMAIN filter \subseteq FilterKeys
    <3>1. filter = GuiFilter(given.args.filter) /\ filter # Refused
      BY DEF Init
    <3> QED
      BY <3>1 DEF GuiFilter, NoFilter
  <2>3. \E s \in Sessions : given = s.given
    BY DEF Init
  <2>4. asks = [w \in Workers |-> asks[w]]
    BY DEF Init
  <2>5. /\ ~Fails(given, GuiNames) /\ options = Options(given, GuiNames)
        /\ filter = GuiFilter(given.args.filter) /\ filter # Refused
    BY DEF Init
  <2> QED
    BY <2>1, <2>2, <2>3, <2>4, <2>5 DEF AsTold
<1>2. IInv /\ AsTold /\ [Next]_vars => AsTold'
  <2> SUFFICES ASSUME IInv, AsTold, [Next]_vars PROVE AsTold'
    OBVIOUS
  <2>1. CASE FirstProbe \/ ProbeClicked \/ FilterEntered \/ ProbeAgain \/ TimerFires
    BY <2>1, RefreshKeepsTold
    DEF FirstProbe, ProbeClicked, FilterEntered, ProbeAgain, TimerFires, IInv
  <2>2. CASE EditFilter
    <3>1. DOMAIN filter' \subseteq FilterKeys
      BY <2>2, BrowserAssumption DEF EditFilter
    <3>2. "filter" \in may /\ UNCHANGED <<given, options, may, stage, asks>>
      BY <2>2 DEF EditFilter, config, threads
    <3> QED
      BY <3>1, <3>2 DEF AsTold, Running
  <2>3. CASE \/ ToggleAuto \/ OpenMenu \/ Dismiss \/ CopyRows \/ CopyAll
             \/ Close \/ CloseReturns \/ OnResults \/ OnError \/ OnDeleteLater
             \/ OnClear \/ UNCHANGED vars
    <3>1. UNCHANGED <<given, options, may, filter, stage, asks>>
      BY <2>3 DEF ToggleAuto, OpenMenu, Dismiss, CopyRows, CopyAll, Copy, Close,
                  CloseReturns, OnResults, OnError, OnDeleteLater, OnClear, vars,
                  config, threads
    <3> QED
      BY <3>1 DEF AsTold, Running
  <2>4. CASE OnDeferredDelete
    BY <2>4, FreedKeepsTold
  <2>5. ASSUME NEW w \in Workers, Worker(w) PROVE AsTold'
    <3>1. UNCHANGED <<given, options, may, filter, asks>>
      BY <2>5 DEF Worker, ReportResults, ReportError, FinishPostsDelete,
                  FinishPostsClear, Thread, config
    <3>2. \A x \in Workers : Running(x)' => Running(x)
      BY <2>5 DEF Worker, ReportResults, ReportError, FinishPostsDelete,
                  FinishPostsClear, Thread, Running, IInv, Typed
    <3> QED
      BY <3>1, <3>2 DEF AsTold
  <2> QED
    BY <2>1, <2>2, <2>3, <2>4, <2>5 DEF Next, Events, Menu
<1> QED
  BY <1>1, <1>2, Inductive, PTL DEF Spec

(* Every probe under way uses the transports of the status bar, wherever   *)
(* the setting came from, and is, toolbar untouched, the call that         *)
(* mu2edaq-discover would make.                                            *)
THEOREM BrowserCallsAsTold == Spec => []CallsAsTold
<1>1. AsTold => CallsAsTold
  <2> SUFFICES ASSUME AsTold, NEW w \in Workers, Running(w)
               PROVE  /\ asks[w].broadcast = Targets
                      /\ \/ "filter" \in may
                         \/ Len(given.args.filter) > 1
                         \/ given.args.filter = <<NoText>>
                         \/ \E i \in DOMAIN given.args.filter :
                              given.args.filter[i].glob = Blank
                         \/ asks[w] = CliMain(given)
    BY DEF CallsAsTold
  <2>1. PICK s \in Sessions : given = s.given
    BY DEF AsTold
  <2>2. asks[w].broadcast = Targets
    BY <2>1, BroadcastAsTold DEF AsTold, Targets
  <2>3. ASSUME "filter" \notin may, ~(Len(given.args.filter) > 1),
               given.args.filter # <<NoText>>,
               \A i \in DOMAIN given.args.filter : given.args.filter[i].glob # Blank
        PROVE  asks[w] = CliMain(given)
    <3>1. IsSequence(given.args.filter)
      BY <2>1, BrowserAssumption
    <3>2. CliFilter(given.args.filter) = GuiFilter(given.args.filter)
      BY <2>3, <3>1, OneFilter DEF AsTold
    <3>3. /\ ~Fails(given, CliNames)
          /\ asks[w] = Call(CliFilter(given.args.filter), Options(given, CliNames))
      BY <2>3, <3>2, SameOptions DEF AsTold
    <3>4. CliFilter(given.args.filter) # Refused
      BY <3>2 DEF AsTold
    <3> QED
      BY <3>3, <3>4, Zenon DEF CliMain
  <2> QED
    BY <2>2, <2>3
<1> QED
  BY <1>1, ToldAlways, PTL
=============================================================================
