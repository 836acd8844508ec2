---------------------------- MODULE MCDiscovery -----------------------------
(***************************************************************************)
(* One scan for app "daq" and one responder, for TLC.                      *)
(***************************************************************************)
EXTENDS Discovery

CONSTANTS daq, vnc, client1, client2, node, other, q1, q2, id1, id2, id3

MCFilterKeys  == {"app"}
MCForeignKeys == {"uptime"}
MCValues      == {daq, vnc}
MCQids        == {q1, q2}
MCQidSize     == [q \in MCQids |-> 1]
MCHosts       == {client1, client2, node, other}
MCFilter      == [k \in {"app"} |-> {daq}]

Wire == INSTANCE Protocol

(* Another client's query, and a responder that answers whatever it is     *)
(* asked.                                                                  *)
Someone  == Wire!BuildQuery(client2, q2, Wire!EmptyFilter, 1)
OffTopic ==
  Wire!BuildAnnounce(other, id2, [k \in {"app"} |-> vnc], TRUE, q1, 2)
MCNoise  == {Someone, OffTopic}

(* What the first life answered to an earlier call from the same port, and *)
(* that call's query, late.                                                *)
Stale == Wire!BuildAnnounce(node, id1, [k \in {"app"} |-> daq], TRUE, q2, 2)
Late  == Wire!BuildQuery(client1, q2, Wire!EmptyFilter, 1)

(* A text that ends whoever decodes it.                                    *)
Nested    == [OffTopic EXCEPT !.body = "nested"]
WithStale == {OffTopic, Stale, Late, Nested}

MCSelf == [from |-> node, id |-> id1, fields |-> [k \in {"app"} |-> daq],
           typed |-> TRUE, size |-> 2]

OneLife  == <<id1>>
TwoLives == <<id1, id3>>

(* The bounds give the last query time to be answered, and the application *)
(* gave the fields their types.                                            *)
ASSUME CompleteHolds == Window /\ Self.typed
=============================================================================
