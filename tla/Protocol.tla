------------------------------ MODULE Protocol ------------------------------
(***************************************************************************)
(* The wire protocol mu2edaq-discovery/1: the datagrams, what decode()     *)
(* accepts, how a filter is matched, and what the two responders and the   *)
(* client do with a datagram.  Pure operators, no state.                   *)
(*                                                                         *)
(* A datagram is a record of what the code can tell apart.  A glob is the  *)
(* set of values it matches, so fnmatch(value, glob) is membership; sizes  *)
(* are naturals in no particular unit.                                     *)
(*                                                                         *)
(* Two exceptions leave the Python code.  json.loads() raises              *)
(* RecursionError on a text that is nested too deep, which decode() does   *)
(* not catch, and fnmatch() raises re.error on a glob that re.compile()    *)
(* refuses, such as [z-a] on the older of the interpreters supported, 3.9  *)
(* among them (the others read it as a glob that nothing matches).         *)
(***************************************************************************)
EXTENDS Integers

CONSTANTS
  FilterKeys,   \* protocol.FILTER_KEYS
  ForeignKeys,  \* other keys a peer may put into a filter
  Values,       \* values of the fields a filter can name
  Qids,         \* query identifiers
  QidSize,      \* length of each identifier
  Ids,          \* instance identifiers
  Hosts,        \* socket addresses
  MaxDatagram,  \* protocol.MAX_DATAGRAM
  Absent,       \* the key is missing from the JSON object
  NotString,    \* the key's value is not a JSON string
  NotObject,    \* the key's value is not a JSON object
  BadGlob,      \* a glob that re.compile() refuses
  Hollow        \* a filter argument that is false but no dict: [], ''

ASSUME ProtocolAssumption ==
  /\ MaxDatagram \in Nat
  /\ QidSize \in [Qids -> Nat]
  /\ FilterKeys \cap ForeignKeys = {}
  /\ Absent \notin Qids /\ NotString \notin Qids

(* JSON objects a "filter" may be: keys it should not have included.       *)
Filters == UNION {[K -> {NotString, BadGlob} \cup SUBSET Values] :
                    K \in SUBSET (FilterKeys \cup ForeignKeys)}

EmptyFilter == [k \in {} |-> {}]

-----------------------------------------------------------------------------
(* Filters.                                                                *)

(* _validate_filter: an object with known keys and string patterns.        *)
WellFormed(filter) ==
  /\ filter \notin {NotObject, Hollow}
  /\ DOMAIN filter \subseteq FilterKeys
  /\ \A k \in DOMAIN filter : filter[k] # NotString

(* protocol.matches_filter, used by the responder on a decoded query and   *)
(* by the client on its own, unvalidated, argument, returns True.          *)
MatchesFilter(fields, filter) ==
  filter # Absent =>
    /\ filter \notin {NotObject, Hollow}
    /\ \A k \in DOMAIN filter :
         /\ k \in FilterKeys /\ filter[k] \notin {NotString, BadGlob}
         /\ fields[k] \in filter[k]

(* It may return False: one of the keys makes it.                          *)
Mismatches(fields, filter) ==
  /\ filter # Absent
  /\ \/ filter \in {NotObject, Hollow}
     \/ \E k \in DOMAIN filter :
          \/ k \notin FilterKeys \/ filter[k] = NotString
          \/ filter[k] # BadGlob /\ fields[k] \notin filter[k]

(* It may raise re.error.  Where another key mismatches, the order of the  *)
(* keys, which is the sender's, decides which it is.                       *)
MatchBreaks(filter) ==
  /\ filter \notin {Absent, NotObject, Hollow}
  /\ \E k \in DOMAIN filter \cap FilterKeys : filter[k] = BadGlob

(* The C++ Responder::matches_filter looks up the three keys it knows and  *)
(* takes whatever it cannot read as a match; to fnmatch(3) a bad glob is   *)
(* one that nothing matches.                                               *)
CppMatchesFilter(fields, filter) ==
  filter \notin {Absent, NotObject} =>
    \A k \in DOMAIN filter \cap FilterKeys :
      filter[k] # NotString => filter[k] # BadGlob /\ fields[k] \in filter[k]

-----------------------------------------------------------------------------
(* Datagrams.  body says how far json.loads and the dict test get: nested  *)
(* is a text that raises RecursionError.  typed says that every mandatory  *)
(* ANNOUNCE field has its type, meta included.                             *)
(*                                                                         *)
(* cpp is what Json::parse makes of the first MAX_DATAGRAM bytes, which is *)
(* all that the C++ responder receives: nothing, or an object.  It is a    *)
(* reading of its own: Json.hpp refuses numbers that json.loads takes,     *)
(* takes control characters that json.loads refuses, finds the first of    *)
(* two equal keys where Python keeps the last, and may parse what is cut.  *)

Types       == {"DISCOVER", "ANNOUNCE", "OTHER"}
AnyQid      == Qids \cup {Absent, NotString}
AnyFilter   == {Absent, NotObject} \cup Filters
CppReadings == [proto : BOOLEAN, type : Types, qid : AnyQid, filter : AnyFilter]

ASSUME DistinctAssumption ==
  /\ Absent \notin CppReadings
  /\ EmptyFilter \notin {Absent, NotObject, Hollow}

Datagrams ==
  [from : Hosts, size : Nat, body : {"garbage", "nested", "value", "object"},
   proto : BOOLEAN, type : Types, qid : AnyQid, filter : AnyFilter,
   id : {Absent} \cup Ids, fields : {Absent} \cup [FilterKeys -> Values],
   typed : BOOLEAN, cpp : {Absent} \cup CppReadings]

(* The two parsers get the same object out of d.                           *)
ReadAlike(d) ==
  /\ d.size <= MaxDatagram /\ d.body = "object"
  /\ d.cpp \in CppReadings
  /\ d.cpp = [proto |-> d.proto, type |-> d.type, qid |-> d.qid,
              filter |-> d.filter]

ValidDiscover(d) ==
  /\ d.qid \in Qids
  /\ d.filter # Absent => WellFormed(d.filter)

ValidAnnounce(d) ==
  d.typed /\ d.id # Absent /\ d.fields # Absent /\ d.qid # NotString

(* decode() returns a message, where it does not raise an exception.       *)
Decodes(d) ==
  /\ d.size <= MaxDatagram
  /\ d.body = "object"
  /\ d.proto
  /\ \/ d.type = "DISCOVER" /\ ValidDiscover(d)
     \/ d.type = "ANNOUNCE" /\ ValidAnnounce(d)

(* decode() raises RecursionError; any other exception is ProtocolError.   *)
DecodeBreaks(d) == d.size <= MaxDatagram /\ d.body = "nested"

(* build_query: a filter that is false is not sent.  The caller sees an    *)
(* exception where any other is not well formed, so the operator is used   *)
(* only where it is.                                                       *)
BuildQuery(from, qid, filter, size) ==
  LET sent == IF filter \in {EmptyFilter, Hollow} THEN Absent ELSE filter
  IN  [from |-> from, size |-> size + QidSize[qid], body |-> "object",
       proto |-> TRUE, type |-> "DISCOVER", qid |-> qid, filter |-> sent,
       id |-> Absent, fields |-> Absent, typed |-> FALSE,
       cpp |-> [proto |-> TRUE, type |-> "DISCOVER", qid |-> qid,
                filter |-> sent]]

(* build_announce: the size is the instance's own plus the echoed qid.     *)
(* Nothing validates the fields the application passed in.                 *)
BuildAnnounce(from, id, fields, typed, qid, size) ==
  [from |-> from,
   size |-> size + (IF qid = Absent THEN 0 ELSE QidSize[qid]),
   body |-> "object", proto |-> TRUE, type |-> "ANNOUNCE", qid |-> qid,
   filter |-> Absent, id |-> id, fields |-> fields, typed |-> typed,
   cpp |-> [proto |-> TRUE, type |-> "ANNOUNCE", qid |-> qid,
            filter |-> Absent]]

(* encode() raises ProtocolError on a message that is too long.            *)
Encodes(msg) == msg.size <= MaxDatagram

-----------------------------------------------------------------------------
(* What the endpoints make of a datagram.                                  *)

(* The Python responder takes a datagram for a query it decodes.           *)
IsQuery(d) == Decodes(d) /\ d.type = "DISCOVER"

(* What it does with one: it answers what matches, it passes over what it  *)
(* cannot decode, is no query or does not match, or the loop breaks.       *)
Answerable(d, fields) == IsQuery(d) /\ MatchesFilter(fields, d.filter)

PassedOver(d, fields) ==
  ~DecodeBreaks(d) /\ (IsQuery(d) => Mismatches(fields, d.filter))

Breaks(d) == DecodeBreaks(d) \/ (IsQuery(d) /\ MatchBreaks(d.filter))

(* The C++ responder wants an object with the right type and proto, and    *)
(* neither needs nor checks a qid: one that is not a string is echoed as   *)
(* the empty string.                                                       *)
CppAnswerable(d, fields) ==
  /\ d.cpp # Absent
  /\ d.cpp.proto /\ d.cpp.type = "DISCOVER"
  /\ CppMatchesFilter(fields, d.cpp.filter)

(* The client takes an ANNOUNCE without a qid or with its own for an       *)
(* answer, and keeps it if it passes the filter it asked for.              *)
IsAnswer(d, qid) ==
  Decodes(d) /\ d.type = "ANNOUNCE" /\ d.qid \in {Absent, qid}

Keeps(d, qid, filter) == IsAnswer(d, qid) /\ MatchesFilter(d.fields, filter)

Ignores(d, qid, filter) ==
  ~DecodeBreaks(d) /\ (IsAnswer(d, qid) => Mismatches(d.fields, filter))

BreaksCall(d, qid, filter) ==
  DecodeBreaks(d) \/ (IsAnswer(d, qid) /\ MatchBreaks(filter))
=============================================================================
