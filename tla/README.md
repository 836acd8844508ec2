# A TLA+ model of mu2edaq-discovery

mu2edaq-discovery lets the applications of the Mu2e data acquisition announce
themselves: an application embeds a *responder*; an operator runs a *client*
that multicasts and broadcasts a query and lists the answers. This directory
holds a model of that system, the TLC configurations that check it, and proofs
for the TLA+ proof system. Everything is read from the code at one commit;
documents, comments and tests are cited where the code says something else.

## 1. The system

| Component | Source | State | Operations | What is hard |
|---|---|---|---|---|
| Wire protocol | `protocol.py` | none | build, encode, decode, validate, match | two implementations that should agree |
| Python responder | `responder.py` | stop event, socket, next announce | `start`, `stop`, the loop of `run` | the thread, the application and the port's other sockets interleave; time-outs; exceptions |
| Python client | `client.py` | found, deadline, resend time, sends left | `discover` | time, resends, losses, failures half way |
| C++ responder | `Responder.cpp` | socket, thread, stop flag | constructor, `start`, `stop`, destructor, `run` | restart, time-outs, concurrent callers |
| C++ JSON | `Json.hpp` | none | parse, dump | escapes and code points beyond `\uFFFF` |
| Command line | `cli.py`, `discovery.yaml` | none | precedence of options, environment, file; `--filter` | zero and empty values; two tools with code of their own |
| Browser window | `gui.py` | worker, timer, filter, records, columns, table | refresh, results, error, menu, copy, close | queued signals of worker threads; a menu with an event loop of its own |
| Tests, manuals, scripts, packaging | `tests`, `man`, `doc`, ... | none | | read as promises |

They interact in two ways. Client and responder exchange datagrams: a DISCOVER
to port 28999 by multicast, broadcast or unicast, an ANNOUNCE by unicast to the
query's source, and unsolicited ANNOUNCEs to the group. The application shares
with the responder's thread the stop event and nothing else: `stop()` sets it,
sends an empty datagram to its own port to end the `recvfrom()`, and joins the
thread for at most 2 s. The port is shared under `SO_REUSEPORT`, so that
datagram may end up in another socket; then the 0.5 s receive time-out does the
work.

What makes each component correct:

* responder: it answers what it matches and nothing else, in order and once; it
  lives until it is stopped (which is not so; what ends it is known); `stop()` leaves no thread behind; announces keep
  their interval; a reply is late by a bounded time;
* client: it returns on time, after all its sends, with every answer that came
  in time, and nothing that is not an answer; it lets go of its socket;
* scan: one exchange that comes through is enough to find a responder, under the
  id it has now, and no life of it that was over before is listed;
* C++ responder: as the Python one, and thread, handle, socket and flag agree
  through failed starts, stops and restarts;
* options: the source that ranks first wins, and the two tools make the same call;
* browser: no sequence of overlapping probes and late signals leaves it dead, lets
  its code meet a deleted thread, shows what it does not keep, or copies half a record;
  Auto catches up with the filter.

The hazards behind these are listed, each at its line, in `PROJECT.json`.

## 2. Modules

| Module | Models |
|---|---|
| `Protocol` | messages, validation and matching as pure operators, for the Python side and, where it differs, the C++ side |
| `Responder` | `Responder.run`, `start()` and `stop()` |
| `Client` | one call of `discover()` |
| `Scan` | abstract: what a scan promises |
| `Discovery` | `Client` and `Responder` (both by `INSTANCE`) over a network, the responder's process dying and run again; implements `Scan` |
| `CppJson` | how the C++ side reads and writes a string, and what Python reads of that |
| `CppResponder` | `start()`, `stop()` and `run()` of the C++ responder; uses `Protocol` and `CppJson` |
| `Settings` | from arguments, environment and file to the call of `discover()`, for both tools |
| `Browser` | the window of the GUI, its timer, worker threads and context menu; uses `Settings` |
| `ProtocolProofs`, `ResponderProofs`, `ClientProofs`, `DiscoveryProofs`, `CppJsonProofs`, `CppResponderProofs`, `BrowserProofs` | theorems about the module of that name |
| `CompleteProofs` | the proof of `Complete` of `Discovery`; extends `DiscoveryProofs` |
| `MCResponder`, `MCClient`, `MCDiscovery`, `MCCppResponder`, `MCBrowser` | constants for TLC |

**Data.** A datagram is a record of what the code can tell apart: how far
`json.loads` gets, the protocol and type, the qid, the filter, the identity, and
a size. A glob is the set of values it matches, so that `fnmatch(value, glob)`
is membership. A size is a number in no particular unit; the size of a reply is
that of the instance's own fields plus that of the echoed qid, which is all the
overflow of `MAX_DATAGRAM` depends on. A missing key, a value that is no string
and a filter that is no object are the model values `Absent`, `NotString` and
`NotObject`; an argument that is false but no dict is `Hollow`.

Two exceptions leave the Python code. `decode()` turns two kinds of exception into
`ProtocolError`, and `RecursionError`, which `json.loads()` raises on a text
that is nested too deep (`body = "nested"`), is neither. `fnmatch()` raises `re.error`
on a glob that `re.compile()` refuses (`BadGlob`): on the older of the interpreters
that `setup.cfg` admits, 3.9 among them, that is a glob with a reversed range.
Where another key of the filter mismatches, the order of the keys decides whether
the glob is looked at, so `Mismatches` and `MatchBreaks` may both hold, and the
model takes either way. `EveryDatagramIsSettled` says that there is always one.

What the C++ side reads of a datagram is a record of its own, `cpp`, because the two
parsers differ: `Json.hpp` refuses numbers that `json.loads()` takes (`1e999`, `NaN`),
takes control characters that it refuses, finds the first of two equal keys where
Python keeps the last, and is given the first 1400 bytes of what Python refuses as too
long, which may well parse. `ReadAlike` says that the two readings are one;
theorems that compare the responders assume it.

**Control.** One action is one step of the code between two points where
another party can act: each test of the stop event, each receive, the sleep, the
send are actions of their own; the local computation between them is not.
`pc` names the step.

**Time.** Deadlines, time-outs, the jitter and `join()` are the substance of
this code, so time is explicit and discrete. `left` is the time the present step
may still take: what was drawn for the sleep, the time-out for a receive, and at
most `Lag` for a computing step or for the wake-up from a wait. `Tick` passes
one unit for everything at once, and cannot pass a step's limit; a step may
finish at any time before it. So every bound proved or checked is a bound for a
machine that schedules a runnable thread within `Lag`, and no property depends
on a thread being instantaneous.

**Faulty variants.** A definition headed *Faulty variant of X* is `X` with a
plausible mistake in it. No specification uses it; it is there so that one can
see which property such a mistake would break.

### Responder

`OpenSocket` (`_open_socket` and the set-up before the loop, which may fail and
end the thread), `LoopTop` (the `while` test), `SkipAnnounce`,
`PeriodicAnnounce`, `AnnounceTooLong`, `RecvDatagram`, `RecvTimesOut`,
`CheckStop` (the second test), `Discard`, `HandleRaises` (an exception out of
`decode()` or `matches_filter()`), `StartJitter`, `JitterEnds`, `Reply`,
`ReplyTooLong`, `CloseSockets` are the thread. `crash` says where the exception came
from that ended it, and the datagram it was raised about stays in hand, which is how
`EndsForACause` can tell a cause from a pretext. `Start`, `StopSetsEvent`,
`StopPokes`, `JoinReturns` are the application; it may stop at any time, twice,
and before it starts (then `join()` raises, and the event stays set). `Arrive`
is any datagram of `Wire`. A periodic announce may be looped back to the socket;
a poke may miss it; a `sendto()` may fail. `sent` and `lateSends` are history.

### Client

`Open`, `LookAtClock`, `SendAll`, `SendFails`, `Arm` (`settimeout()` from the
`now` read earlier), `RecvDatagram`, `RecvTimesOut`, `Keep`, `Ignore`,
`HandleRaises`, `Close`. `Open` is the whole set-up: the broadcast setting, the
socket's options, the interface's address, `bind()`, `build_query()` and `encode()`
may raise, and all of them but the first do so with the socket open and before the
`try`, so that it is left to the garbage collector (`raised = "setup"`, which
`SocketReleased` excepts). Any broadcast address may refuse the send without a word; the multicast may
raise. `inTime` is history: the answers that reached the socket while there was
time left to take up a full buffer.

### Discovery and Scan

A datagram is under way for up to `MaxDelay` and may be lost, duplicated and
overtaken. `routes` says which of multicast and broadcast reach the host. Other
programs send to both ports, among them a responder that answers whatever it is
asked and a late answer to an earlier call from the same port. The application
starts and stops the responder during the scan.

`Restart` is the death of the responder's process and its next run: `queue`,
thread and event are gone, what is on the network or in the client's buffer is
not, and the constructor draws a new `instance_id`. `life` counts the lives and
`Names` gives the id of each; `first` is history: the life at the moment the call
began. `offered` counts the exchanges that the present life may have and `lost`
those of them that came to nothing, for whatever reason, so that `Complete` can
say *if any one of them came through*. `NoGhosts` says where an id in the result
may come from: from a life the responder had during the call, or from another
program that answered this call or announced itself. It rests on identifiers
drawn with `uuid4()`: `DiscoveryAssumption` has it that nobody else asks under
the qid of this call and that no two lives draw one id. An exchange is one of this
call: what the responder answers to an earlier call from the same port is under
way like any other datagram, and counts for nothing.

`Scan` knows no messages: a scan learns of matching instances, one at a time, and
ends.

### CppResponder and CppJson

`Begin`, `LoopTop`, `RecvDatagram`, `RecvTimesOut`, `CheckStop`, `Discard`,
`StartJitter`, `JitterEnds`, `Reply`, `PeriodicAnnounce`, `SkipAnnounce` and
`CloseSendSocket` are the thread; `Start`, `StartFails` (a socket call throws),
`StartRefused` (the thread cannot be created), `StopSetsFlag`, `StopPokes` and
`JoinReturns` are the application, of which the destructor is one more `stop()`.
It differs from the Python responder in what its properties say: an object may
be started again; `join()` has no time limit, so `stop()` must come back by the
thread's own steps (`StopReturns`, and within a bound `StopIsQuick`); a receive
that times out goes on to the announce; the announce ends each turn and is first
due at once; two datagrams, a reply and an announce, may leave after the flag is
set (`LastWords`); the socket is closed by `stop()`, not by the thread; if the
second socket is refused the thread runs and is mute; replies are not held to
`MAX_DATAGRAM`. What it reads of a datagram is `cpp`, and filters are read as
`CppMatchesFilter` has it. The application is
one thread that does not start what runs, which is the use the header shows;
otherwise the program ends in `std::terminate`.

`CppJson` follows a string through `parse_string`, `append_utf8`, `write_string`
and the client's `bytes.decode()` and `json.loads()`. A text is a sequence of
characters of seven kinds (plain, with a letter escape, other control characters,
of two, three and four bytes in UTF-8, and half of a surrogate pair by itself, which a
Python string may hold), and `Writings` are the ways JSON allows for each: as it is,
with an escape, with the `\u` code that any character may be written with, with two
codes. A half of a pair, which `append_utf8` writes as three bytes, is no UTF-8, and
what holds one is `Unreadable`. `Reply` records with `Echoed` what the client reads of
the qid it sent. Of `Json.hpp` that is what the responder's behaviour depends on: what
the grammar of values makes of a datagram is `cpp` in `Protocol`, and no number in a
query is looked at.

### Settings and Browser

A text is the sequence of its words, so that the words that switch the broadcast
on and off, lists, blanks and several addresses in one text can be told apart,
and an address of several words, which a list may hold, resolves to nothing.
`NumberOption` is the chain of `or`s, in which the number 0 is false and the
environment's text `"0"` is not; `int()` and `float()` refuse a text that is no number
(`NotNumber`). `LoadConfig` takes the file with or without its `discovery` key; a key
that holds nothing, or a list, is `NotMapping`, of which `main()` then asks `get()`.
`Fails` is every way in which `main()` ends with an exception or an error before it
has its options. `CliFilter` and `GuiFilter` are the two tools' readings of
`--filter`: the browser passes over an empty argument (`NoText`), which
`mu2edaq-discover` refuses, takes the last of several, and reads a blank glob as no
filter; `CallsAsTold` excepts these three and no others. `CliMain` is the call that
`mu2edaq-discover` makes in the end, which `CallsAsTold` compares with the browser's.

`Browser` has the user (`ProbeClicked`, `FilterEntered` and `EditFilter` in the
toolbar, `ToggleAuto`, `Close`), the context menu (`OpenMenu`, `Dismiss`,
`CopyRows`, `CopyAll`, `ProbeAgain`), the timers (`FirstProbe`, `TimerFires`), the
threads (`ReportResults`, `ReportError`, `FinishPostsDelete`, `FinishPostsClear`) and
the events they post (`OnResults`, `OnError`, `OnDeleteLater`, `OnDeferredDelete`,
`OnClear`).

The end of a thread is five steps. When `run()` has returned, `isRunning()` turns
false and the two slots of `finished` (`gui.py:279-280`) are posted one after the
other (`FinishPostsDelete`, `FinishPostsClear`), as both are called in the window's
thread. The first, `deleteLater`, posts a deferred deletion (`OnDeleteLater`); that
deletes the thread (`OnDeferredDelete`), and since the destructor of a `QThread` waits
for a thread that has not quite ended, not before it has posted its second slot. The
second makes `self.worker` `None`, whichever worker is there (`OnClear`). So the three
events of a thread may be taken in the order delete, deferred, clear, where the
thread is gone while `self.worker` still names it, and a refresh between the first
step and the last starts a thread that `OnClear` then forgets, so that two probes
overlap. Both are in the model and reachable.

That nobody meets the deleted thread rests on `pass`. Qt's event loop sends all
that is posted, including what is posted meanwhile, before it turns to timers and the
user; no Python code that looks at `self.worker` runs within such a pass (`Idle`). An
event that waits in the queue when the deferred deletion is taken is taken in the same
pass. A thread that is slow between its two slots makes the destructor wait, so its
second slot is in the queue by then, too. `WorkerExists` is about every moment
outside a pass. A menu's loop is one more event loop, with passes of its own, and
no event opens a menu.

A thread may be reused once it is deleted, so that the number of probes is not
bounded, only the number of threads at one time. An instance's host and port are one
`endpoint`.

`menu.exec()` runs an event loop of its own: while the menu is open, events are
taken and timers fire, but the window's other widgets are out of reach
(`AtHand`). The rows a menu is about are those of the click; `record_text` reads
`self.columns`, and `Copy All` reads `self.records`, when the action is chosen.
`menu.stale` is history: the table was replaced under the menu. A session, chosen
at the start, says what the user does besides pressing buttons (edit the filter,
switch Auto, or open menus); that is a bound on TLC's work only, and the proofs do not use it.
The answer to a probe passes the filter of the call, which is what `Discovery`
promises (`Sound`).

## 3. Runs

| Run | Question | Bounds |
|---|---|---|
| `responder_stop` | Is `stop()` clean, what else ends the loop, in every interleaving? | 2 datagrams of 5 kinds: one that matches, one that does not, no JSON, nested too deep, a bad glob; receive time-out 2, jitter 0..1, `Lag` 1, announces every 2; `JoinTimeout` 8, the least above `ExitBound` |
| `responder_queue` | How late may a reply be, and are replies in order and to the right client? | 3 datagrams of 4 kinds (two clients, a foreign filter, a malformed one) on a buffer of 2 |
| `responder_crash` | What remains true when a message is too long to send? | announce and replies both too long, the same 5 kinds |
| `responder_oversize` | *violation*: does the thread live until it is stopped? | a reply is one unit too long with one of two qids |
| `responder_jitter` | *violation*: is a reply within one jitter? | two queries |
| `client` | Is a call on time, complete and correct, and does it let go of its socket? | a set-up that may fail; 3 datagrams of 9 kinds, two sends, one broadcast address, `Lag` 1; 885 thousand states |
| `scan_routes` | Is one exchange, over either route, enough? Is it a scan? | 2 sends over 2 routes, 2 losses, 1 life; 290 thousand states |
| `scan_faults` | The same with a copy, other programs' datagrams and a restart: is the list complete, to the point, and without ghosts? | 1 send, 1 loss, 1 copy, 1 foreign datagram of 3 kinds, 2 lives; 3.5 million states |
| `cpp_lifecycle` | Do thread, handle, socket and flag of the C++ responder agree over restarts; is `stop()` quick; does it answer as the Python one, with the qid it was sent? | 2 starts, each of which may fail; 2 arrivals of 3 well formed queries, one with a surrogate pair; times as in `responder_stop`; 213 thousand states |
| `cpp_loose` | *violation*: does it answer as the Python one whatever the query? | a filter with a foreign key |
| `browser` | Is the button never dead, the worker never met deleted, the table what is kept, a copy whole, a probe the call that is told and that the command line would make; does Auto catch up? | 2 threads, a network of 3 instances (2 in conflict); 12 configurations with Auto, of which `main()` refuses 6; with the default one also a user who edits the filter once, to one that nothing passes, one who turns Auto on and off, and one who opens menus; 782 thousand states |
| `browser_zero` | *violation*: does the first source that gives a value win? | a zero from each source |

Why they are enough. The stop race involves one datagram in hand, one queued and
a poke, so two arrivals and a buffer of two cover it, a full buffer included. The
backlog bound is reached by a buffer that is full behind a datagram in hand:
three arrivals. The client's loop meets each kind of datagram after each other
kind with three arrivals, and its two sends include the first, the one that is
resent and the wait after the last. The times are small but distinct: the jitter
is shorter than the receive time-out, and every step can be late, so each order
of time-outs that the real values (0.25 s, 0.5 s, 2.0 s) allow occurs. The second
start of the C++ object is the first that meets what an earlier life left behind;
nothing is counted over lives, so a third would add none, and the proofs do
without that bound. A ghost needs two lives: one whose answer is late and one to
be mistaken for; the noise includes such an answer from before the call. Two
threads are what an overlap takes, and a third could only repeat what the second
does: all bookkeeping is about one thread in `self.worker` and one in the event at
hand; the safety properties are also proved for any number. `may` says what a
user does besides probing, and `Edits` which edits of the filter there are: the four
kinds of session are disjoint, because their product is beyond what a run can visit,
and what one kind of gesture does to another (an edit under a menu, say) is left to
the theorems, of which all the safety properties of `browser` are some, and for which
`Sessions` and `Edits` are any. Three instances are
two in conflict and one that is not, of two apps, one with `meta`, and the filter
divides them. In the two scans `Lag` is 0, which leaves the lateness of single
steps to the component's own runs; `MCDiscovery` asserts `Window`, the condition
on the time-out under which the last query can still be answered, and that the
application's fields have their types. Without such a condition `Complete` is
false; that this one suffices, whatever `Lag` is, is proved.

Deadlock checking is off: an application that never calls `start()`, and one
whose thread has ended, may rest for ever.

**Fairness.** A runnable thread runs and the clock advances (`WF` of the
thread's steps and of `Tick`); a `stop()` that was entered goes on; in
`Discovery` a datagram that is not lost is delivered; in `Browser` a probe ends
(`CallEnds` of `Client`), Qt delivers what is posted, fires an active timer and
returns from `closeEvent()`. Nothing makes anyone call `start()`, `stop()` or
`discover()`, close a menu, or touch the window, and no datagram is owed. These
are the guarantees of an operating system that is not overloaded for ever.

**Four disagreements** are kept as runs that must fail:

* `responder_oversize`: `encode()` of a reply stands outside every `try` of the
  loop, so a reply over 1400 bytes raises `ProtocolError` out of `run()`. The
  class says the thread answers queries until it is stopped. What does hold is
  `EndsForACause`.
* `responder_jitter`: the jitter is slept in the receive loop, so queries wait
  for one another's jitter. `PROTOCOL.md` gives 0-250 ms; a client's own
  broadcast copy already doubles that. `BacklogBound` is what does hold.
* `cpp_loose`: `Responder::matches_filter` takes a filter it cannot read, or whose
  keys it does not know, as a match; the Python side and `PROTOCOL.md` do not.
  On valid queries that both parsers read alike the two agree (`RespondersAgree`).
* `browser_zero`: options are combined with `or`, to which a zero says nothing, so
  that `--timeout 0` gives way to the environment, against the precedence that the
  manuals, two docstrings and `discovery.yaml` state.

**Smaller ones** are in the models, where the properties say exactly what holds
instead:

* of several `--filter` arguments with one key, `mu2edaq-discover` keeps the last
  (`CliFilter`), while its manual says that all filters must match
  (`mu2edaq-discover.1:49-50`);
* a copy as text of rows whose table was replaced under the open menu has the
  fields that are columns by then, where the manual of the browser promises a whole
  record (`mu2edaq-discover-gui.1:72-75`): the `stale` case of `CopyIsWhole`;
* the browser passes over an empty `--filter` and probes for everything, where
  `mu2edaq-discover` ends with an error (`GuiFilter`, `CliFilter`);
* `decode()` says that it parses "or raise[s] ProtocolError"; a datagram that is
  nested too deep raises `RecursionError` through it, which ends the thread, and in
  the client the call (`EndsForACause`, `SocketReleased`);
* a valid query whose glob `re.compile()` refuses, which depends on the interpreter,
  raises `re.error` out of `matches_filter()` and ends the thread, too;
* a set-up of `discover()` that fails half way leaves its socket to the garbage
  collector (`SocketReleased` excepts it);
* a qid with a character beyond `\uFFFF`, which `json.dumps()` writes as a
  surrogate pair, comes back from a C++ responder as bytes that no Python client
  decodes (`PairIsUnreadable`). The client's own qids are hexadecimal, so that
  takes a client of another make;
* after a restart that falls within a call, the result may list both lives.

## 4. Proofs

All theorems hold for all values of the constants that satisfy the assumptions of
the module (`ProtocolAssumption`, `ResponderAssumption`, `ClientAssumption`,
`DiscoveryAssumption`, `ComponentAssumption`, `CppResponderAssumption`,
`BrowserAssumption`), and further ones only where the table has them.
`ComponentAssumption` says in `Discovery` what `Client` and `Responder` assume of
their constants (a theorem about `Discovery` cannot cite the assumptions of modules
it instantiates) and that the bounds are natural numbers.

| Theorem | Module | Says | Further assumption |
|---|---|---|---|
| `MatchersAgree`, `RespondersAgree` | `ProtocolProofs` | on well formed filters the two `matches_filter` are one; on every valid query that is read alike both responders answer or neither | `ReadAlike` |
| `QueriesAreAnswered` | `ProtocolProofs` | a query the client can build and encode is answered, in either language, exactly if the fields pass the caller's filter | |
| `EveryDatagramIsSettled`, `EveryAnswerIsSettled` | `ProtocolProofs` | each datagram is answered (kept), passed over, or ends the thread (the call), and the first excludes the others | |
| `TypeCorrect`, `LastWordHolds`, `CadenceHolds` | `ResponderProofs` | `TypeOK`, `LastWord`, `AnnounceCadence` | |
| `StopSafe` | `ResponderProofs` | `StopIsClean` | `JoinOutlastsThread`: `ExitBound < JoinTimeout` |
| `EndsOnlyForACause` | `ResponderProofs` | `EndsForACause` | |
| `RepliesDisciplined`, `BacklogIsBounded` | `ResponderProofs` | `ReplyDiscipline`, `BacklogBound` | |
| `TypeCorrect`, `ReturnsOnTime`, `AlwaysWaits` | `ClientProofs` | `TypeOK`, `OnTime`, `NeverWithoutWait` | |
| `SendsAreMade` | `ClientProofs` | `AllSendsMade` | `Prompt`: the lateness of all resends is less than the gap between two |
| `SocketIsReleased`, `GoodTimeIsKept` | `ClientProofs` | `SocketReleased`, `InTimeAnswersCount` | |
| `ScanIsSound`, `NoGhostsFound` | `DiscoveryProofs` | `Sound`, `NoGhosts` | |
| `ScanTypeCorrect` | `DiscoveryProofs` | `TypeOK`: of the exchanges offered no more come to nothing than were offered | |
| `ScanIsComplete` | `CompleteProofs` | `Complete`: who matches, is up, and had one exchange that came through, is in the result | `Window`; `Self.typed`: the application's fields have their types |
| `ScanIsImplemented` | `DiscoveryProofs` | every behaviour of `Discovery` is, step by step, one of `Scan`, or stutters | |
| `EchoReadsBack`, `PairIsUnreadable` | `CppJsonProofs` | which strings survive the C++ responder | |
| `CppTypeCorrect`, `LifecycleHolds`, `CppStaysAlive`, `LastWordsHold`, `StopsQuickly`, `AnnouncesKeepCadence` | `CppResponderProofs` | `TypeOK`, `LifecycleAgrees`, `AliveUntilStop`, `LastWords`, `StopIsQuick`, `AnnounceCadence` | |
| `CppAnswersAsPython` | `CppResponderProofs` | `AnswersAsPython` | `WireIsValid`: every query is one that `decode()` accepts (`cpp_loose` shows that it is needed) and is read alike; `JsonIsWritten`: every qid is the JSON of some text |
| `ButtonNeverDead`, `WorkerNeverDangles`, `TreeShowsRecords`, `CopiesAreWhole` | `BrowserProofs` | `ButtonAnswered`, `WorkerExists`, `ShownIsKept`, `CopyIsWhole` | |
| `BrowserTypeCorrect`, `BrowserCallsAsTold` | `BrowserProofs` | `TypeOK`, `CallsAsTold` | |

**Responder.** `TypeOK` is inductive; what it needs is stated as lemmas about the
buffer. `StopIsClean` is not inductive: nothing in it says why `join()` should
have time left when the thread ends. The strengthening gives each step of the
thread a *budget*, the longest time it may need from there to the end once the
event is set (`left` plus the steps to come), and says that while the application
joins, the budget is at most what is left of `join()`'s time. `StepsBounded` says
that `left` never exceeds its step's limit, `BudgetBounded` that any budget is at
most `ExitBound` when `join()` starts, `BudgetSpent` that a step never increases
it and a tick takes from both sides. With `ExitBound < JoinTimeout` the budget
outlasts the thread, whoever received the poke: the proof never uses the poke.
`EndsForACause` needs to be told what the thread has in hand on its way to a reply
(`CauseInv`): a reply that cannot be encoded is a cause only if it was due.
`CadenceHolds` is the same kind of argument with the time a turn of the loop may
still take before it looks at `next_announce` again.

**The responder's queue.** `ReplyDiscipline` needs an order that spans three
pieces of state: what was sent, the datagram in hand and what waits carry numbers
that grow from each to the next, up to `arrivals`, but for the responder's own
datagrams, whose number is 0 and which no query ever has; and whoever is about to
be answered asked. `BacklogBound` is about the moment of the reply; its
strengthening says, of every datagram at every place of the buffer, that its age
and the longest time it may still wait there stay within the bound: for each
datagram ahead of it one `ServiceBound`, and for the thread what the present step
and those to the next receive may take. A step of the thread never adds to that, a
tick moves one unit from the wait to the age, and a datagram that arrives takes
the last place, which the buffer's limit bounds. TLC checked these invariants on
`responder_queue` before they were proved.

**Client.** `ClockInv` says of every step how much of the window a turn may use
up from the time `now` it acts on: `OnTime` and `NeverWithoutWait` are about a
clock that was read earlier, and hold only because each step between the reading
and the wait adds at most `Lag`. `AllSendsMade` needs `ScheduleInv`: the *n*-th
resend comes to its turn no later than `Latest(n)`, as each of the sends before it
is late by at most a turn, and `Prompt` puts the last of them inside the window.
`InTimeAnswersCount` says only where an answer ends up; in between, `InTimeInv`
says that it is in the result, in hand, or in the buffer with few enough others
before it that the loop, at its slowest, comes to it while the window is open
(`InReach`).

**Discovery.** `Sound` follows from the client's second look at the filter alone.
`NoGhosts` needs to know where every datagram under way comes from: `Origin` says,
of the network, the buffers and the datagrams in hand at both ends, that a query
under this call's qid is under way only once the call has begun, and that an
answer to it is by a life that was up during the call. `ScanIsImplemented` shows
each action of the composition to be `Begin`, `Learn` or `End` of `Scan`, or to
change nothing that `Scan` knows; its one real case is `Keep`, where `Origin`
gives that the id learnt is of a matching instance.

`lost \in 0..offered`, in `TypeOK`, is about what is not in sight any more, so it
needs an account of what is. `Count` counts the datagrams of a kind under way,
each copy for itself, and `Waiting` the queries in the responder's buffer and hand;
`Balance` says that what was lost, what is under way and what waits never add up to
more than was offered. That a new life begins with what is under way
(`NumberWaiting`), and that an earlier life's answers are none of its own, is where
the ids must differ.

**Completeness.** `Complete` is about a moment at which everything is over, and
rests on an account of the moments before it. `Accounted` is the other half of
`Balance`: of a responder that is up and matches, while the call has not raised,
either it is *known* (in the result, in the client's hand, or in its buffer and in
reach of the loop) or the whole of what was offered is lost, under way or waiting.
When the call returns, nothing may be under way or waiting any more, so an exchange
that was not lost leaves only *known*, and of that only the result. What makes
everything be over in time are three invariants that need each other:

* `Clock`: the *n*-th send is made no later than `Latest(n)`, each of those before
  it late by a turn at most, and a call that returns has run for its time-out;
* `Deadlines`: each query under way arrives by `Arrived`, one delay after its send;
  each query that waits has an end of its service, one `ServiceBound` for each
  datagram ahead of it, by `Answered`; each answer is with the client a delay later.
  `Rest` is what the thread may take until the datagram in hand is done with;
* `Crowd`: no more queries are under way and waiting than one send makes, with the
  copies, and the rest of the buffer is other programs' datagrams. That there is
  no second send's worth is due to `Deadlines` and `Window`: when a send is due,
  nothing of the one before it is left (`NothingLeft`).

`Window` is the sum of these: two delays, the service of a crowd, the turns by
which the sends may be late and those it takes the loop to empty its buffer. A
single turn for both, with which TLC is content where `Lag` is 0, does not carry
the argument: `InReach` says how many turns a datagram in the buffer still needs.
The accounts also settle what `lost` may count: an answer of the present life to an
earlier call from the same port is not of this call, and counting its loss would
outrun `offered`; `scan_faults` has the query of such a call in its noise. TLC
checked all of these invariants, with `Lag` 0 and with `Lag` 1, before they were
proved.

**C++ responder.** `LifeInv` couples flag, handle, socket and thread, among them
that a thread that is past its loop was told to stop; `LateInv` counts for each
step what may still be sent after the flag. For `StopIsQuick` a budget again:
`sinceStop` plus what the thread may still take never exceeds `ExitBound`, as a
step of the thread spends and a tick moves one unit from the one to the other.
For the cadence, the rest of the present turn fits in what the announce may still
be late. For `AnswersAsPython`, `OrderInv` says that what was sent, the datagram
in hand and what waits in the buffer follow each other in the order of arrival
(the responder's own announces and pokes, which come back without a number, are
no queries), and that only what is to be answered comes to the jitter; that the
qid reads back is `EchoReadsBack`, for texts of any length.

**Browser.** `ButtonAnswered` and `WorkerExists` rest on `IInv`. `ButtonAnswered`
alone is not inductive: the deletion frees a thread, and nothing in it says that this
is not the one thread that probes. `Once` and `ReportFirst` say that a thread has one
report, one deletion (first its slot, then the deferred event) and one clear posted,
the report before the others; `Staged`, that the thread has come as far as these say,
and that only its clear may outlive it, and not the pass in which it was deleted.
For `WorkerExists`, `Remembered` says that if the thread in `self.worker` has ended,
or is deleted even, its clear is posted, in the latter case within a pass: a pass
ends when nothing is posted, so at its end the worker that was deleted is forgotten.
`View` is for the table and the copies: the groups are those of the records, the
columns have all their fields, and the rows of an open menu are rows of the table
unless the menu is stale. `TypeOK` holds a bound on the posted events, a statement about
the length of a sequence of which only single elements are known: `Once` makes
the events inject into the threads times three kinds. `CallsAsTold` compares what the
window's calls are made of with what `mu2edaq-discover` computes from the same
arguments, environment and file, which is a property of `Settings`: a list that was parsed once is itself when
it is parsed again (`Plain`), and the two readings of `--filter` are one where there
is at most one argument, neither empty nor with a blank glob (`OneFilter`);
the invariant says that the options a window holds are those it was started with,
and the filter of each thread is of one that was typed.

**Only model-checked.** Liveness (`ThreadEnds`, `QueriesAreTakenUp`, `CallEnds`,
`StopReturns`, `AutoCatchesUp`, and that a scan ends, in `IsAScan`): the prover
handles neither fairness' `ENABLED` nor induction over data. Every invariant and
every action property that a passing run checks is a theorem, and so is the safety
part of `IsAScan` (`ScanIsImplemented`).

## 5. What is not modelled

* of `Json.hpp`: numbers, nesting and the grammar of values: what they make of a
  datagram is one of its fields;
* that the two `fnmatch` agree: a glob is a set of values, or a bad one, so their
  differences in backslashes, `[!...]` against `[^...]`, slashes and locale are left
  out;
* two threads of a C++ application in `start()` and `stop()` at once, and a
  `start()` of a responder that runs;
* of the options: the group, the interface and the retries, which are told like
  those that are modelled or by arguments alone; YAML's syntax, exit codes; the
  texts `_targets()` makes of options that lack `broadcast`, which `main()` never
  builds;
* of the browser: the expansion and the order of the rows, the copies of single
  fields, the texts of the status bar but for the transports, styles; the threads
  that outlive the window after `closeEvent()`'s 3 s are modelled, what Qt does to
  a `QThread` that is destroyed while it runs is not;
* an application that passes a port or `meta` that cannot be encoded, and a name
  resolver slower than `Lag`;
* the `started` field, which Python recomputes at every message;
* `socket` errors of `recvfrom()` other than the time-out, and a `sendto()` that
  blocks;
* several responders that are up in one scan: deduplication is by id, and each
  answer is independent of the others but for the client's buffer, which `client`
  covers;
* the order of the list returned, tables, JSON output, packaging.

## 6. What could follow

In the order of what it would add:

1. `Discovery` with a C++ responder in place of the Python one, so that replies too
   long for the client are seen to be lost; each side of that is modelled, and
   `RespondersAgree` and `CppAnswersAsPython` say where the two responders differ.
2. The misuse of the C++ object by two threads, if the header were to allow it.
