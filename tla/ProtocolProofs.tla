--------------------------- MODULE ProtocolProofs ---------------------------
(***************************************************************************)
(* What the two responders answer, compared for every datagram, every      *)
(* filter and every set of field values.                                   *)
(***************************************************************************)
EXTENDS Protocol, TLAPS

(* On a filter that decode() accepts the two matchers agree, although the  *)
(* Python one looks at every key of the filter and the C++ one at the keys *)
(* it knows.  (protocol.matches_filter, Responder::matches_filter)         *)
THEOREM MatchersAgree ==
  ASSUME NEW fields, NEW filter, filter # Absent => WellFormed(filter)
  PROVE  CppMatchesFilter(fields, filter) <=> MatchesFilter(fields, filter)
<1>1. CASE filter = Absent
  BY <1>1 DEF CppMatchesFilter, MatchesFilter
<1>2. CASE filter # Absent
  <2>1. WellFormed(filter)
    BY <1>2
  <2>2. DOMAIN filter \cap FilterKeys = DOMAIN filter
    BY <2>1 DEF WellFormed
  <2>3. \A k \in DOMAIN filter : filter[k] # NotString /\ k \in FilterKeys
    BY <2>1 DEF WellFormed
  <2>4. filter \notin {NotObject, Hollow}
    BY <2>1 DEF WellFormed
  <2> QED
    BY <1>2, <2>2, <2>3, <2>4 DEF CppMatchesFilter, MatchesFilter
<1> QED
  BY <1>1, <1>2

(* decode() and matches_filter() between them settle every datagram: it is *)
(* answered, passed over, or ends the thread, and what is answered is      *)
(* neither of the others.  (Responder.run)                                 *)
THEOREM EveryDatagramIsSettled ==
  ASSUME NEW d, NEW fields
  PROVE  /\ Answerable(d, fields) \/ PassedOver(d, fields) \/ Breaks(d)
         /\ Answerable(d, fields) => ~PassedOver(d, fields) /\ ~Breaks(d)
<1>1. CASE IsQuery(d)
  <2>1. ~DecodeBreaks(d)
    BY <1>1 DEF IsQuery, Decodes, DecodeBreaks
  <2>2. d.filter # Absent => WellFormed(d.filter)
    BY <1>1 DEF IsQuery, Decodes, ValidDiscover
  <2>3. \/ MatchesFilter(fields, d.filter) \/ Mismatches(fields, d.filter)
        \/ MatchBreaks(d.filter)
    BY DEF MatchesFilter, Mismatches, MatchBreaks
  <2>4. MatchesFilter(fields, d.filter) =>
          ~Mismatches(fields, d.filter) /\ ~MatchBreaks(d.filter)
    BY DEF MatchesFilter, Mismatches, MatchBreaks
  <2> QED
    BY <1>1, <2>1, <2>3, <2>4 DEF Answerable, PassedOver, Breaks
<1>2. CASE ~IsQuery(d)
  BY <1>2 DEF Answerable, PassedOver, Breaks
<1> QED
  BY <1>1, <1>2

(* The same for the client: a datagram is kept, ignored, or ends the call. *)
(* (discover)                                                              *)
THEOREM EveryAnswerIsSettled ==
  ASSUME NEW d, NEW qid, NEW filter
  PROVE  /\ \/ Keeps(d, qid, filter) \/ Ignores(d, qid, filter)
            \/ BreaksCall(d, qid, filter)
         /\ Keeps(d, qid, filter) =>
              ~Ignores(d, qid, filter) /\ ~BreaksCall(d, qid, filter)
<1>1. CASE IsAnswer(d, qid)
  <2>1. ~DecodeBreaks(d)
    BY <1>1 DEF IsAnswer, Decodes, DecodeBreaks
  <2>2. \/ MatchesFilter(d.fields, filter) \/ Mismatches(d.fields, filter)
        \/ MatchBreaks(filter)
    BY DEF MatchesFilter, Mismatches, MatchBreaks
  <2>3. MatchesFilter(d.fields, filter) =>
          ~Mismatches(d.fields, filter) /\ ~MatchBreaks(filter)
    BY DEF MatchesFilter, Mismatches, MatchBreaks
  <2> QED
    BY <1>1, <2>1, <2>2, <2>3 DEF Keeps, Ignores, BreaksCall
<1>2. CASE ~IsAnswer(d, qid)
  BY <1>2 DEF Keeps, Ignores, BreaksCall
<1> QED
  BY <1>1, <1>2

(* A valid query of which both parsers read the same is answered by both   *)
(* responders or by neither.  (decode, Responder::run)                     *)
THEOREM RespondersAgree ==
  ASSUME NEW d, NEW fields, ValidDiscover(d), ReadAlike(d)
  PROVE  CppAnswerable(d, fields) <=> Answerable(d, fields)
<1>1. /\ d.size <= MaxDatagram /\ d.body = "object"
      /\ d.cpp.proto = d.proto /\ d.cpp.type = d.type /\ d.cpp.filter = d.filter
  BY DEF ReadAlike
<1>2. CppMatchesFilter(fields, d.filter) <=> MatchesFilter(fields, d.filter)
  BY MatchersAgree DEF ValidDiscover
<1>3. IsQuery(d) <=> d.proto /\ d.type = "DISCOVER"
  BY <1>1 DEF IsQuery, Decodes
<1>4. d.cpp # Absent
  BY DistinctAssumption DEF ReadAlike
<1> QED
  BY <1>1, <1>2, <1>3, <1>4 DEF Answerable, CppAnswerable

(* A query that the client builds and can encode is answered by a          *)
(* responder in either language exactly if its fields pass the filter that *)
(* the caller gave; with a filter that is false, every responder answers.  *)
(* (build_query, encode, decode, Responder.run, Responder::run)            *)
THEOREM QueriesAreAnswered ==
  ASSUME NEW from, NEW qid \in Qids, NEW size, NEW fields,
         NEW filter \in {Absent, Hollow} \cup Filters,
         filter \in {Absent, Hollow, EmptyFilter} \/ WellFormed(filter),
         Encodes(BuildQuery(from, qid, filter, size))
  PROVE  LET query == BuildQuery(from, qid, filter, size)
         IN  /\ Answerable(query, fields) <=>
                  filter = Hollow \/ MatchesFilter(fields, filter)
             /\ CppAnswerable(query, fields) <=> Answerable(query, fields)
<1> DEFINE query == BuildQuery(from, qid, filter, size)
           sent  == IF filter \in {EmptyFilter, Hollow} THEN Absent ELSE filter
<1>1. /\ query.filter = sent /\ query.qid = qid /\ query.proto
      /\ query.type = "DISCOVER" /\ query.body = "object"
      /\ query.cpp = [proto |-> TRUE, type |-> "DISCOVER", qid |-> qid,
                      filter |-> sent]
  BY DEF BuildQuery
<1>2. query.size <= MaxDatagram
  BY DEF Encodes
<1>3. sent # Absent => WellFormed(sent)
  OBVIOUS
<1>4. ValidDiscover(query)
  BY <1>1, <1>3 DEF ValidDiscover
<1>5. sent \in AnyFilter
  BY DEF AnyFilter
<1>6. query.cpp \in CppReadings
  BY <1>1, <1>5 DEF CppReadings, Types, AnyQid
<1>7. ReadAlike(query)
  <2> HIDE DEF query, sent
  <2> QED
    BY <1>1, <1>2, <1>6 DEF ReadAlike
<1>8. IsQuery(query)
  BY <1>1, <1>2, <1>4 DEF IsQuery, Decodes
<1>9. MatchesFilter(fields, sent) <=> filter = Hollow \/ MatchesFilter(fields, filter)
  <2>1. CASE filter = EmptyFilter
    BY <2>1, DistinctAssumption DEF MatchesFilter, EmptyFilter
  <2>2. CASE filter # EmptyFilter
    BY <2>2 DEF MatchesFilter
  <2> QED
    BY <2>1, <2>2
<1>10. Answerable(query, fields) <=> filter = Hollow \/ MatchesFilter(fields, filter)
  BY <1>1, <1>8, <1>9 DEF Answerable
<1>11. CppAnswerable(query, fields) <=> Answerable(query, fields)
  BY <1>4, <1>7, RespondersAgree
<1> QED
  BY <1>10, <1>11
=============================================================================
