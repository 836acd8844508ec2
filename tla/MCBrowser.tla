----------------------------- MODULE MCBrowser -----------------------------
(***************************************************************************)
(* A browser that may find up to three instances, two of which claim one   *)
(* endpoint, for TLC.                                                      *)
(***************************************************************************)
EXTENDS Browser

CONSTANTS vnc, dashboard, node1, node2, id1, id2, id3, user, subnet

vnc1       == [id |-> id1, app |-> vnc, endpoint |-> node1, meta |-> {user}]
vnc2       == [id |-> id2, app |-> vnc, endpoint |-> node1, meta |-> {}]
dashboard1 == [id |-> id3, app |-> dashboard, endpoint |-> node2, meta |-> {}]

MCAnswers == {{vnc1, vnc2, dashboard1}}

MCKeys     == {"app"}
Nobody     == [k \in {"app"} |-> {}]
MCFilters  == {NoFilter, Nobody}
Once       == {<<NoFilter, Nobody>>}

NoEnv   == [port |-> Absent, timeout |-> Absent, interval |-> Absent,
            broadcast |-> Null]
NoFile  == [k \in {} |-> Absent]
Default == [args |-> NoArgs, env |-> NoEnv, file |-> NoFile]

FilterArg(key, glob) == [key |-> key, glob |-> glob]

(* Broadcast settings and filters from each source, some with two sources  *)
(* that differ, and some that main() refuses.                              *)
Configured ==
  {Default,
   [Default EXCEPT !.args.noBroadcast = TRUE, !.env.broadcast = Text(<<On>>),
                   !.args.filter = <<FilterArg("app", {vnc})>>],
   [Default EXCEPT !.args.addrs = <<<<subnet>>, <<>>>>,
                   !.args.filter = <<FilterArg("app", Blank)>>],
   [Default EXCEPT !.env.broadcast = Text(<<Limited, subnet>>),
                   !.args.filter = <<FilterArg("pid", {id1})>>],
   [Default EXCEPT !.env.broadcast = Text(<<Off>>),
                   !.file = [discovery |-> [broadcast |-> List(<<<<subnet>>>>)]]],
   [Default EXCEPT !.file = [broadcast |-> Bool(FALSE)],
                   !.args.filter = <<Bare, FilterArg("app", {vnc})>>],
   [Default EXCEPT !.file = [broadcast |-> Other]],
   [Default EXCEPT !.args.filter = <<Bare>>],
   [Default EXCEPT !.args.filter = <<NoText>>],
   [Default EXCEPT !.file = NotMapping],
   [Default EXCEPT !.file = [discovery |-> NotMapping]],
   [Default EXCEPT !.env.timeout = NotNumber]}

(* Every configuration while Auto is on; the user who checks and unchecks  *)
(* Auto, the one who edits the filter once, and the one who opens a menu.  *)
MCSessions ==
  [given : Configured, auto : {TRUE}, may : {{}}]
    \cup [given : {Default}, auto : {TRUE}, may : {{"filter"}}]
    \cup [given : {Default}, auto : {FALSE}, may : {{"auto"}, {"menu"}}]

(* Each source gives a zero, against another value in the next one.        *)
Zeros ==
  [given : {[Default EXCEPT !.args.timeout = 0, !.env.timeout = 5],
            [Default EXCEPT !.args.port = 0, !.file = [port |-> 28998]],
            [Default EXCEPT !.env.timeout = ZeroText, !.file = [timeout |-> 5]],
            [Default EXCEPT !.env.interval = Blank,
                            !.file = [discovery |-> [interval |-> 0]]]},
   auto : BOOLEAN, may : {{}}]
=============================================================================
