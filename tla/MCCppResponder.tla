--------------------------- MODULE MCCppResponder ---------------------------
(***************************************************************************)
(* A C++ responder of app "daq" on a small wire, for TLC.                  *)
(***************************************************************************)
EXTENDS CppResponder

CONSTANTS daq, vnc, client1, client2, node, q1, q2, id1

MCFilterKeys  == {"app"}
MCForeignKeys == {"uptime"}
MCValues      == {daq, vnc}
MCQids        == {q1, q2}
MCQidSize     == [q \in MCQids |-> 1]
MCHosts       == {client1, client2, node}
MCSelf        == [from |-> node, id |-> id1,
                  fields |-> [k \in {"app"} |-> daq],
                  typed |-> TRUE, size |-> 2]

(* Characters of each kind and form that is no surrogate, and a pair.      *)
MCJson == [q \in MCQids |->
             IF q = q1
             THEN <<<<Raw("plain")>>, <<Escape("special")>>, <<Code("control")>>,
                    <<Code("accent")>>, <<Raw("wide")>>, <<Code("special")>>,
                    <<Raw("astral")>>>>
             ELSE <<<<Raw("plain")>>, <<Code("high"), Code("low")>>>>]

ASSUME JsonAssumption ==
  \A q \in MCQids : \A i \in DOMAIN MCJson[q] :
    \E c \in Chars : MCJson[q][i] \in Writings(c)

ForUs     == BuildQuery(client1, q1, [k \in {"app"} |-> {daq}], 1)
ForOthers == BuildQuery(client2, q1, [k \in {"app"} |-> {vnc}], 1)
Beyond    == BuildQuery(client1, q2, EmptyFilter, 1)
(* A key no responder knows, which the Python side refuses.                *)
Uptime    == LET filter == [k \in {"uptime"} |-> {vnc}]
             IN  [ForOthers EXCEPT !.filter = filter, !.cpp.filter = filter]

WellFormedWire == {ForUs, ForOthers, Beyond}
LooseWire      == {ForUs, Uptime}
=============================================================================
