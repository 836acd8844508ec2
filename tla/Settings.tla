------------------------------ MODULE Settings ------------------------------
(***************************************************************************)
(* How the command line, the environment, the configuration file and the   *)
(* defaults become the call of discover() that the two tools make (main()  *)
(* of cli.py and of gui.py), and how a broadcast setting becomes a list of *)
(* addresses (client.py).                                                  *)
(*                                                                         *)
(* A text is the sequence of its words; commas and white space separate    *)
(* them.  An address of one word is a real one; with more it resolves to   *)
(* nothing.  A filter is a function from keys to globs, and a glob the set *)
(* of the values it matches.                                               *)
(***************************************************************************)
EXTENDS Naturals, Sequences, FiniteSets

CONSTANTS
  Absent,     \* a value no one gave
  Blank,      \* the empty text
  ZeroText,   \* the text "0", as the environment gives it
  On, Off,    \* words that switch the broadcast on and off
  Limited,    \* the word 255.255.255.255
  NotNumber,  \* a text that int() and float() refuse
  NotMapping, \* a value that has no get(): null, a list, a text
  Refused,    \* any exception that ends the tool
  Bare,       \* a --filter argument without "="
  NoText,     \* an empty --filter argument
  FilterKeys  \* protocol.FILTER_KEYS

(* What a broadcast setting may be in Python and YAML.                     *)
Null        == [form |-> "null"]
Bool(b)     == [form |-> "bool", on |-> b]
Text(words) == [form |-> "text", words |-> words]
List(texts) == [form |-> "list", texts |-> texts]
Other       == [form |-> "other"]

(* Both have their parts in an order, and end.                             *)
IsSequence(s)    == s \in Seq({s[i] : i \in DOMAIN s})
IsSetting(value) ==
  /\ value.form = "text" => IsSequence(value.words)
  /\ value.form = "list" => IsSequence(value.texts)

SaysOn(value) ==
  \/ value = Null
  \/ value.form = "bool" /\ value.on
  \/ value.form = "text" /\ value.words = <<On>>

SaysOff(value) ==
  \/ value.form = "bool" /\ ~value.on
  \/ value.form = "text" /\ value.words \in {<<>>, <<Off>>}

(* The texts that are not blank, in their order: the nth of them is the    *)
(* one up to which there are n.                                            *)
NotBlank(texts) ==
  LET there   == {i \in DOMAIN texts : texts[i] # <<>>}
      upTo(i) == Cardinality({j \in there : j <= i})
  IN  [n \in 1..Cardinality(there) |->
         texts[CHOOSE i \in there : upTo(i) = n]]

(* The texts of a list are addresses as they stand, except blank ones; a   *)
(* single text is split into its words.                                    *)
ParseBroadcastSetting(value) ==
  IF SaysOn(value) THEN <<<<Limited>>>>
  ELSE IF SaysOff(value) THEN <<>>
  ELSE IF value.form = "text"
       THEN [i \in DOMAIN value.words |-> <<value.words[i]>>]
  ELSE IF value.form = "list"
       THEN NotBlank(value.texts)
  ELSE Refused

(* resolve_broadcast; an empty environment variable is Null here, as it is *)
(* passed over like one that is not set.                                   *)
ResolveBroadcast(noBroadcast, addrs, env, cfg) ==
  IF noBroadcast THEN <<>>
  ELSE ParseBroadcastSetting(
         IF addrs # <<>> THEN List(addrs)
         ELSE IF env # Null THEN env
         ELSE IF cfg # Null THEN cfg
         ELSE Bool(TRUE))

-----------------------------------------------------------------------------
(* --filter.  An argument is Bare, NoText or a key with a glob; no value   *)
(* of a record is empty, so that the empty glob matches none.              *)

NoFilter == [k \in {} |-> {}]

Passes(record, filter) == \A k \in DOMAIN filter : record[k] \in filter[k]

Glob(arg) == IF arg.glob = Blank THEN {} ELSE arg.glob

(* _parse_filter: the last of the arguments with the same key stays.       *)
CliFilter(pairs) ==
  LET all     == DOMAIN pairs
      last(k) == CHOOSE i \in all : /\ pairs[i].key = k
                                    /\ \A j \in all : j > i => pairs[j].key # k
  IN  IF \E i \in all : pairs[i] \in {Bare, NoText} THEN Refused
      ELSE [k \in {pairs[i].key : i \in all} |-> Glob(pairs[last(k)])]

(* The browser has one --filter, the last, which it passes over when it is *)
(* empty, and shows it in its toolbar, where an empty glob is no filter.   *)
GuiFilter(pairs) ==
  LET arg == pairs[Len(pairs)]
  IN  IF pairs = <<>> \/ arg = NoText THEN NoFilter
      ELSE IF arg = Bare \/ arg.key \notin FilterKeys THEN Refused
      ELSE IF arg.glob = Blank THEN NoFilter
      ELSE [k \in {arg.key} |-> arg.glob]

-----------------------------------------------------------------------------
(* The options.                                                            *)

(* The settings stand in the file as they are, or under "discovery".  (An  *)
(* empty file is an empty mapping.)                                        *)
LoadConfig(file) ==
  IF file = NotMapping THEN NotMapping
  ELSE IF "discovery" \in DOMAIN file THEN file.discovery ELSE file

Get(cfg, name) == IF name \in DOMAIN cfg THEN cfg[name] ELSE Absent

(* What argparse gives where the command line has no options.  (The group  *)
(* is told as the port is; the interface and the retries by arguments only.)*)
NoArgs == [port |-> Absent, timeout |-> Absent, interval |-> Absent,
           filter |-> <<>>, noBroadcast |-> FALSE, addrs |-> <<>>]

Defaults == [port |-> 28999, timeout |-> 2, interval |-> 10]

(* args.x or os.environ.get(...) or cfg.get(...) or default, as a number.  *)
NumberOption(given, name) ==
  LET truthy == SelectSeq(<<given.args[name], given.env[name],
                            Get(LoadConfig(given.file), name), Defaults[name]>>,
                          LAMBDA v : v \notin {Absent, Blank, 0})
  IN  IF Head(truthy) = NotNumber THEN Refused
      ELSE IF Head(truthy) = ZeroText THEN 0 ELSE Head(truthy)

(* cfg.get("broadcast").                                                   *)
FileBroadcast(cfg) ==
  IF Get(cfg, "broadcast") = Absent THEN Null ELSE cfg.broadcast

(* resolve_broadcast(), as main() calls it.                                *)
Broadcast(given) ==
  ResolveBroadcast(given.args.noBroadcast, given.args.addrs,
                   given.env.broadcast, FileBroadcast(LoadConfig(given.file)))

(* main() builds its options from what the four sources give, unless that  *)
(* raises: the file is asked for its broadcast setting in any case.        *)
Fails(given, names) ==
  \/ LoadConfig(given.file) = NotMapping
  \/ \E n \in names : NumberOption(given, n) = Refused
  \/ Broadcast(given) = Refused

Options(given, names) ==
  [n \in names \cup {"broadcast"} |->
     IF n = "broadcast" THEN Broadcast(given) ELSE NumberOption(given, n)]

CliNames == {"port", "timeout"}
GuiNames == DOMAIN Defaults

(* The call of discover(): build_query() refuses a key it does not know,   *)
(* and the broadcast setting is parsed a second time.                      *)
Call(filter, options) ==
  IF ~(DOMAIN filter \subseteq FilterKeys) THEN Refused
  ELSE [filter    |-> filter,
        port      |-> options.port,
        timeout   |-> options.timeout,
        broadcast |-> ParseBroadcastSetting(List(options.broadcast))]

(* The call mu2edaq-discover makes, unless it ends with an error.          *)
CliMain(given) ==
  LET filter == CliFilter(given.args.filter)
  IN  IF Fails(given, CliNames) \/ filter = Refused THEN Refused
      ELSE Call(filter, Options(given, CliNames))
=============================================================================
