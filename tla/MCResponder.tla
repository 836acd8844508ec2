---------------------------- MODULE MCResponder -----------------------------
(***************************************************************************)
(* A responder of app "daq" on a small wire, for TLC.                      *)
(***************************************************************************)
EXTENDS Responder

CONSTANTS daq, vnc, client1, client2, node, q1, q2, id1

MCFilterKeys  == {"app"}
MCForeignKeys == {"uptime"}
MCValues      == {daq, vnc}
MCQids        == {q1, q2}
MCQidSize     == [q \in MCQids |-> IF q = q1 THEN 1 ELSE 2]
MCHosts       == {client1, client2, node}

Everybody == BuildQuery(client1, q1, EmptyFilter, 1)
ForUs     == BuildQuery(client2, q2, [k \in {"app"} |-> {daq}], 1)
ForOthers == BuildQuery(client2, q1, [k \in {"app"} |-> {vnc}], 1)
(* No qid and a filter that is no object: the Python side refuses both.    *)
Malformed == [Everybody EXCEPT !.qid = Absent, !.filter = NotObject,
                               !.cpp.qid = Absent, !.cpp.filter = NotObject]

(* No object, and a text nested too deep for json.loads().                 *)
Garbage   == [Everybody EXCEPT !.body = "garbage", !.cpp = Absent]
Nested    == [Everybody EXCEPT !.body = "nested", !.cpp = Absent]
(* A glob that cannot be compiled.                                         *)
Unusable  == BuildQuery(client2, q1, [k \in {"app"} |-> BadGlob], 1)

OneQuery  == {Everybody}
MixedWire == {Everybody, ForUs, ForOthers, Malformed}
AnyWire   == {Everybody, ForOthers, Garbage, Nested, Unusable}

SelfOfSize(size) == [from |-> node, id |-> id1,
                     fields |-> [k \in {"app"} |-> daq],
                     typed |-> TRUE, size |-> size]
(* MaxDatagram is 4: with either qid the reply fits; with none it does.    *)
Small == SelfOfSize(2)
(* Fits without a qid and with q1; with q2 the reply is one too long.      *)
Tight == SelfOfSize(3)
(* Too long even without a qid.                                            *)
Large == SelfOfSize(5)
=============================================================================
