------------------------------ MODULE MCClient ------------------------------
(***************************************************************************)
(* A call of discover() for app "daq", for TLC.                            *)
(***************************************************************************)
EXTENDS Client

CONSTANTS daq, vnc, client1, node1, node2, q1, q2, id1, id2

MCFilterKeys  == {"app"}
MCForeignKeys == {"uptime"}
MCValues      == {daq, vnc}
MCQids        == {q1, q2}
MCQidSize     == [q \in MCQids |-> 1]
MCHosts       == {client1, node1, node2}
MCFilter      == [k \in {"app"} |-> {daq}]

App(value) == [k \in {"app"} |-> value]

Answer      == BuildAnnounce(node1, id1, App(daq), TRUE, q1, 2)
Unsolicited == BuildAnnounce(node2, id2, App(daq), TRUE, Absent, 2)
Stale       == BuildAnnounce(node2, id2, App(daq), TRUE, q2, 2)
(* From a responder that answers whatever the filter says.                 *)
OffTopic    == BuildAnnounce(node2, id2, App(vnc), TRUE, q1, 2)
(* meta holds a number, which nothing on the sending side refuses.         *)
Untyped     == BuildAnnounce(node2, id2, App(daq), FALSE, q1, 2)
Oversize    == BuildAnnounce(node2, id2, App(daq), TRUE, q1, 4)
Echo        == BuildQuery(node2, q1, EmptyFilter, 1)

Nested      == [Answer EXCEPT !.body = "nested"]
Garbage     == [Answer EXCEPT !.body = "garbage"]

AnyWire  == {Answer, Unsolicited, Stale, OffTopic, Untyped, Oversize, Echo,
             Nested, Garbage}
=============================================================================
