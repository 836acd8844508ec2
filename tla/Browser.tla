------------------------------ MODULE Browser ------------------------------
(***************************************************************************)
(* mu2edaq-discover-gui: the window, its timer, and the worker threads     *)
(* that call discover().  A worker reports by a signal; a signal from      *)
(* another thread is an event posted to the window's thread, which takes   *)
(* the events in order, one at a time, between the user's actions.         *)
(*                                                                         *)
(* A QThread is running until run() has returned.  Then, with isRunning()  *)
(* false already, the two slots of finished are posted one after the other:*)
(* deleteLater, and the lambda that sets self.worker to None whichever     *)
(* worker is there by then.  deleteLater posts one more event, which       *)
(* deletes the thread, and waits for its end if need be.                   *)
(*                                                                         *)
(* The event loop takes all that is posted in one pass, what is posted     *)
(* meanwhile included, before it looks at timers and the user.             *)
(***************************************************************************)
EXTENDS Settings

CONSTANTS
  Sessions,    \* what is configured, whether --auto is given, and what the
               \* user does besides probing: "auto", "filter", "menu"
  Filters,     \* what the user may set the toolbar's filter to,
  Edits,       \* and from what: pairs of filters
  Answers,     \* what a network may answer to an open query: sets of records
  Workers,     \* bound: threads that exist at one time
  NoWorker,    \* None in self.worker
  NoMenu,      \* no context menu is open
  Nothing      \* nothing was copied yet

ASSUME BrowserAssumption ==
  /\ NoWorker \notin Workers
  /\ IsFiniteSet(Workers)
  /\ \A all \in Answers : IsFiniteSet(all)
  /\ \A f \in Filters : DOMAIN f \subseteq FilterKeys
  /\ \A s \in Sessions :
       /\ s.auto \in BOOLEAN
       /\ IsSequence(s.given.args.filter) /\ IsSequence(s.given.args.addrs)
       /\ IsSetting(s.given.env.broadcast)
       /\ \/ LoadConfig(s.given.file) = NotMapping
          \/ IsSetting(FileBroadcast(LoadConfig(s.given.file)))

(* id, app, endpoint, host and name, and meta: the columns besides the     *)
(* core ones, of which every record has all.                               *)
Records == UNION Answers

VARIABLES
  given,     \* what was configured
  options,   \* self.options
  may,       \* what the user does
  window,    \* open, closing (in closeEvent) or closed
  due,       \* the first refresh, by a timer of 0 ms, is still to come
  auto,      \* the Auto box is checked
  timer,     \* self.timer is active
  filter,    \* the filter in the toolbar
  button,    \* the Probe action is enabled
  worker,    \* self.worker
  stage,     \* for each worker: free (or deleted), probing, reported,
             \* finishing (it has posted deleteLater), finished
  asks,      \* for each worker: its call of discover()
  posted,    \* events posted to the window's thread
  pass,      \* the window's thread is in a pass over them
  records,   \* self.records
  columns,   \* self.columns, without the core ones
  tree,      \* what the tree shows, and (history) the filter it was asked with
  menu,      \* the context menu: the rows it is about, whether Copy All is
             \* enabled, and (history) whether the table changed under it
  clipboard  \* what was copied, and (history) what was meant

config  == <<given, options, may>>
clock   == <<due, auto, timer>>
threads == <<worker, stage, asks>>
queue   == <<posted, pass>>
view    == <<records, columns, tree>>
hand    == <<menu, clipboard>>
vars    == <<config, window, clock, filter, button, threads, queue, view, hand>>

Running(w) == stage[w] \in {"probing", "reported"}

Placeholder(text, asked) ==
  [shows |-> text, groups |-> {}, red |-> {}, asked |-> asked]

(* main() and __init__.                                                    *)
Init ==
  /\ \E s \in Sessions : given = s.given /\ auto = s.auto /\ may = s.may
  /\ ~Fails(given, GuiNames) /\ options = Options(given, GuiNames)
  /\ filter = GuiFilter(given.args.filter) /\ filter # Refused
  /\ window = "open" /\ due = TRUE /\ timer = auto
  /\ button = TRUE
  /\ worker = NoWorker
  /\ stage = [w \in Workers |-> "free"]
  /\ asks = [w \in Workers |-> Refused]
  /\ posted = <<>> /\ pass = FALSE
  /\ records = {} /\ columns = {} /\ tree = Placeholder("probing", filter)
  /\ menu = NoMenu /\ clipboard = Nothing

-----------------------------------------------------------------------------
(* Probing.                                                                *)

(* The transports _targets() names in the status bar.                      *)
Targets == options.broadcast

(* Faulty variant of CallsWith: the argument is left out, and discover()   *)
(* has its default.                                                        *)
CallsWithDefault ==
  [Call(filter, options) EXCEPT !.broadcast = ParseBroadcastSetting(Bool(TRUE))]

(* The worker gets the options and the filter as they are now, and run()   *)
(* calls discover() with them.                                             *)
CallsWith == Call(filter, options)

(* refresh(): nothing if self.worker is running, else a new thread.        *)
Refresh ==
  IF worker # NoWorker /\ Running(worker)
  THEN UNCHANGED <<button, threads>>
  ELSE /\ button' = FALSE
       /\ \E w \in {x \in Workers : stage[x] = "free"} :
            /\ worker' = w
            /\ stage' = [stage EXCEPT ![w] = "probing"]
            /\ asks' = [asks EXCEPT ![w] = CallsWith]

(* The loop has no event in hand: Python code that reads self.worker may   *)
(* run.                                                                    *)
Idle == window = "open" /\ ~pass

FirstProbe ==
  /\ Idle /\ due
  /\ due' = FALSE
  /\ Refresh
  /\ UNCHANGED <<config, window, auto, timer, filter, queue, view, hand>>

(* An open menu takes the mouse and the keyboard.                          *)
AtHand == Idle /\ menu = NoMenu

(* The Probe button and F5, and Enter in the filter, which does not ask    *)
(* whether the button is enabled.                                          *)
ProbeClicked ==
  /\ AtHand /\ button
  /\ Refresh
  /\ UNCHANGED <<config, window, clock, filter, queue, view, hand>>

FilterEntered ==
  /\ AtHand
  /\ Refresh
  /\ UNCHANGED <<config, window, clock, filter, queue, view, hand>>

(* The user types, which starts nothing.                                   *)
EditFilter ==
  /\ AtHand /\ "filter" \in may
  /\ filter' \in {f \in Filters : <<filter, f>> \in Edits}
  /\ UNCHANGED <<config, window, clock, button, threads, queue, view, hand>>

(* Faulty variant of TimerFires: the timer is a single shot.               *)
TimerFiresOnce ==
  /\ Idle /\ timer
  /\ Refresh
  /\ timer' = FALSE
  /\ UNCHANGED <<config, window, due, auto, filter, queue, view, hand>>

TimerFires ==
  /\ Idle /\ timer
  /\ Refresh
  /\ UNCHANGED <<config, window, clock, filter, queue, view, hand>>

(* _toggle_auto(), which a new interval calls too: that only restarts the  *)
(* timer.                                                                  *)
ToggleAuto ==
  /\ AtHand /\ "auto" \in may
  /\ auto' = ~auto
  /\ timer' = auto'
  /\ UNCHANGED <<config, window, due, filter, button, threads, queue, view, hand>>

-----------------------------------------------------------------------------
(* A worker's thread.                                                      *)

Event(kind, w, found) == [kind |-> kind, of |-> w, found |-> found]

(* One step of a thread: its stage, and what it posts.                     *)
Thread(w, from, to, kind, found) ==
  /\ stage[w] = from
  /\ stage' = [stage EXCEPT ![w] = to]
  /\ posted' = Append(posted, Event(kind, w, found))
  /\ UNCHANGED <<config, window, clock, filter, button, worker, asks, pass, view,
                 hand>>

(* discover() returns what answers its filter (Sound of the module         *)
(* Discovery), or raises.                                                  *)
ReportResults(w) ==
  \E all \in Answers :
    Thread(w, "probing", "reported", "results",
           {r \in all : Passes(r, asks[w].filter)})

ReportError(w) == Thread(w, "probing", "reported", "failed", {})

(* run() has returned.                                                     *)
FinishPostsDelete(w) == Thread(w, "reported", "finishing", "delete", {})
FinishPostsClear(w)  == Thread(w, "finishing", "finished", "clear", {})

-----------------------------------------------------------------------------
(* The events the window's thread takes.                                   *)

TakesAndPosts(kind, more) ==
  /\ window # "closing"
  /\ posted # <<>>
  /\ Head(posted).kind = kind
  /\ posted' = Tail(posted) \o more
  /\ pass' = (posted' # <<>>)

Takes(kind) == TakesAndPosts(kind, <<>>)

Asked == asks[Head(posted).of].filter

(* columns_for(): the keys that flatten() finds besides the core fields.   *)
ColumnsFor(found) == UNION {r.meta : r \in found}

(* Endpoints that more than one id claims.                                 *)
ConflictKeys(found) ==
  {e \in {r.endpoint : r \in found} :
     Cardinality({r.id : r \in {s \in found : s.endpoint = e}}) > 1}

(* populate(): a group per app, the records of a conflict in red.          *)
Groups(found) ==
  {{r \in found : r.app = app} : app \in {r.app : r \in found}}

Red(found) == {r \in found : r.endpoint \in ConflictKeys(found)}

Populate(found) ==
  /\ columns' = ColumnsFor(found)
  /\ tree' = IF found = {} THEN Placeholder("nothing", Asked)
             ELSE [shows |-> "rows", groups |-> Groups(found),
                   red |-> Red(found), asked |-> Asked]

(* Faulty variant of OnResults: an empty answer is shown and not kept.     *)
OnResultsKeepsOld ==
  /\ Takes("results")
  /\ button' = TRUE
  /\ records' = IF Head(posted).found = {} THEN records ELSE Head(posted).found
  /\ Populate(Head(posted).found)
  /\ menu' = IF menu = NoMenu THEN menu ELSE [menu EXCEPT !.stale = TRUE]
  /\ UNCHANGED <<config, window, clock, filter, threads, clipboard>>

OnResults ==
  /\ Takes("results")
  /\ button' = TRUE
  /\ records' = Head(posted).found
  /\ Populate(Head(posted).found)
  /\ menu' = IF menu = NoMenu THEN menu ELSE [menu EXCEPT !.stale = TRUE]
  /\ UNCHANGED <<config, window, clock, filter, threads, clipboard>>

(* Faulty variants of OnError: the Probe action stays disabled, and the    *)
(* header is reset with the rows.                                          *)
OnErrorButtonOff ==
  /\ Takes("failed")
  /\ tree' = Placeholder("failed", Asked)
  /\ UNCHANGED <<config, window, clock, filter, button, threads, records, columns,
                 hand>>

OnErrorResetsHeader ==
  /\ Takes("failed")
  /\ button' = TRUE
  /\ columns' = {}
  /\ tree' = Placeholder("failed", Asked)
  /\ UNCHANGED <<config, window, clock, filter, threads, records, hand>>

(* The rows go, self.records and self.columns stay.                        *)
OnError ==
  /\ Takes("failed")
  /\ button' = TRUE
  /\ tree' = Placeholder("failed", Asked)
  /\ UNCHANGED <<config, window, clock, filter, threads, records, columns, hand>>

(* The first slot of finished.                                             *)
OnDeleteLater ==
  /\ TakesAndPosts("delete", <<Event("deferred", Head(posted).of, {})>>)
  /\ UNCHANGED <<config, window, clock, filter, button, threads, view, hand>>

(* The thread is deleted; its destructor waits until it has ended.         *)
OnDeferredDelete ==
  /\ Takes("deferred")
  /\ stage[Head(posted).of] = "finished"
  /\ stage' = [stage EXCEPT ![Head(posted).of] = "free"]
  /\ asks' = [asks EXCEPT ![Head(posted).of] = Refused]
  /\ UNCHANGED <<config, window, clock, filter, button, worker, view, hand>>

(* Faulty variant of OnClear: the thread is not forgotten.                 *)
OnClearForgetsNone ==
  /\ Takes("clear")
  /\ UNCHANGED <<config, window, clock, filter, button, threads, view, hand>>

(* The second slot: self.worker is None, even if refresh() has put a new   *)
(* worker there.                                                           *)
OnClear ==
  /\ Takes("clear")
  /\ worker' = NoWorker
  /\ UNCHANGED <<config, window, clock, filter, button, stage, asks, view, hand>>

-----------------------------------------------------------------------------
(* The context menu runs an event loop of its own: what was posted is      *)
(* taken and the timer fires while it is open.                             *)

(* build_context_menu() for a row, a class, or neither.  Bound: a session  *)
(* ends its copying with one copy.                                         *)
OpenMenu ==
  /\ AtHand /\ "menu" \in may
  /\ clipboard = Nothing
  /\ \E rows \in {{}} \cup tree.groups \cup {{r} : r \in UNION tree.groups} :
       menu' = [rows |-> rows, all |-> records # {}, stale |-> FALSE]
  /\ UNCHANGED <<config, window, clock, filter, button, threads, queue, view,
                 clipboard>>

Dismiss ==
  /\ Idle /\ menu # NoMenu
  /\ menu' = NoMenu
  /\ UNCHANGED <<config, window, clock, filter, button, threads, queue, view,
                 clipboard>>

(* record_json() has every field of a record, record_text() those that are *)
(* columns now, which the core fields always are.                          *)
AsJson(r) == [id |-> r.id, meta |-> r.meta]
AsText(r) == [id |-> r.id, meta |-> r.meta \cap columns]

(* _copy(), of JSON or of text, which alone may suffer from a table that   *)
(* was replaced.                                                           *)
Copy(meant, stale) ==
  /\ clipboard' \in
       {[meant |-> meant, holds |-> {AsJson(r) : r \in meant}, stale |-> FALSE],
        [meant |-> meant, holds |-> {AsText(r) : r \in meant}, stale |-> stale]}
  /\ menu' = NoMenu
  /\ UNCHANGED <<config, window, clock, filter, button, threads, queue, view>>

(* Copy Record and Copy Class: the rows are those of the click that opened *)
(* the menu.  (The copies of one field take its value from there, too.)    *)
CopyRows ==
  /\ Idle /\ menu # NoMenu /\ menu.rows # {}
  /\ Copy(menu.rows, menu.stale)

(* Copy All Resources: what self.records is now.                           *)
CopyAll ==
  /\ Idle /\ menu # NoMenu /\ menu.all
  /\ Copy(records, FALSE)

ProbeAgain ==
  /\ Idle /\ menu # NoMenu
  /\ menu' = NoMenu
  /\ Refresh
  /\ UNCHANGED <<config, window, clock, filter, queue, view, clipboard>>

-----------------------------------------------------------------------------
(* Faulty variant of Close: the timer goes on.                             *)
CloseTimerOn ==
  /\ AtHand
  /\ window' = IF worker # NoWorker /\ Running(worker) THEN "closing" ELSE "closed"
  /\ UNCHANGED <<config, clock, filter, button, threads, queue, view, hand>>

(* closeEvent(): worker.wait(3000) if self.worker is running.              *)
Close ==
  /\ AtHand
  /\ timer' = FALSE
  /\ window' = IF worker # NoWorker /\ Running(worker) THEN "closing" ELSE "closed"
  /\ UNCHANGED <<config, due, auto, filter, button, threads, queue, view, hand>>

(* The worker has ended, or 3 s are over.                                  *)
CloseReturns ==
  /\ window = "closing"
  /\ window' = "closed"
  /\ UNCHANGED <<config, clock, filter, button, threads, queue, view, hand>>

-----------------------------------------------------------------------------
Events == OnResults \/ OnError \/ OnDeleteLater \/ OnDeferredDelete \/ OnClear

Worker(w) ==
  \/ ReportResults(w) \/ ReportError(w)
  \/ FinishPostsDelete(w) \/ FinishPostsClear(w)

Menu == OpenMenu \/ Dismiss \/ CopyRows \/ CopyAll \/ ProbeAgain

Next ==
  \/ FirstProbe \/ ProbeClicked \/ FilterEntered \/ EditFilter
  \/ TimerFires \/ ToggleAuto \/ Events \/ Menu \/ Close \/ CloseReturns
  \/ \E w \in Workers : Worker(w)

(* discover() returns or raises and its thread ends (the module Client has *)
(* CallEnds); Qt delivers what was posted and fires a timer that is active.*)
(* No one need ever touch the window.                                      *)
Fairness ==
  /\ WF_vars(FirstProbe) /\ WF_vars(TimerFires)
  /\ WF_vars(Events) /\ WF_vars(CloseReturns)
  /\ \A w \in Workers : WF_vars(Worker(w))

Spec == Init /\ [][Next]_vars /\ Fairness

-----------------------------------------------------------------------------
(* Properties.                                                             *)

(* Every variable has its type, a thread has at most three events posted:  *)
(* its report, its deletion and the end of self.worker; and the timer runs *)
(* while the box is checked and the window open.                           *)
TypeOK ==
  /\ window \in {"open", "closing", "closed"}
  /\ {due, auto, timer, button, pass} \subseteq BOOLEAN
  /\ timer <=> auto /\ window = "open"
  /\ worker \in Workers \cup {NoWorker}
  /\ stage \in [Workers -> {"free", "probing", "reported", "finishing", "finished"}]
  /\ posted \in Seq([kind : {"results", "failed", "delete", "deferred", "clear"},
                     of : Workers, found : SUBSET Records])
  /\ Len(posted) <= 3 * Cardinality(Workers)
  /\ records \subseteq Records /\ columns \subseteq ColumnsFor(Records)
  /\ tree.shows \in {"probing", "nothing", "failed", "rows"}
  /\ menu # NoMenu => menu.rows \subseteq Records /\ window = "open"

(* Whoever disabled the Probe action, an answer that enables it again is   *)
(* still to come, however the probes and their late events overlap: the    *)
(* button is never dead (refresh, _on_results, _on_error).                 *)
ButtonAnswered ==
  ~button =>
    \/ \E w \in Workers : stage[w] = "probing"
    \/ \E i \in DOMAIN posted : posted[i].kind \in {"results", "failed"}

(* Whenever refresh() or closeEvent() may call isRunning() on self.worker, *)
(* that thread is not deleted: the first slot of finished may have deleted *)
(* it (deleteLater, gui.py:279) before the second has cleared self.worker, *)
(* but only within a pass over the events, however late the thread posts   *)
(* the second and whatever is posted in between.                           *)
WorkerExists == Idle /\ worker # NoWorker => stage[worker] # "free"

(* What the tree shows is what the copy actions would copy (self.records): *)
(* each record once, under its app, in red exactly if another instance     *)
(* claims its endpoint.                                                    *)
ShownIsKept ==
  /\ tree.shows = "nothing" => records = {}
  /\ tree.shows = "rows" =>
       /\ \A r \in records :
            /\ {g \in tree.groups : r \in g} = {{s \in records : s.app = r.app}}
            /\ r \in tree.red <=>
                 \E s \in records : s.id # r.id /\ s.endpoint = r.endpoint
       /\ UNION tree.groups = records

(* A probe under way uses the transports the status bar names (_targets),  *)
(* wherever the setting came from and although it is parsed twice; and as  *)
(* long as the user leaves the toolbar alone it is the call that           *)
(* mu2edaq-discover would make with the same arguments, environment and    *)
(* file ("the two cannot drift", cli.py:22), except where --filter is read *)
(* differently: the browser takes the last of several, passes over an      *)
(* empty argument and asks for everything when the glob is blank.          *)
CallsAsTold ==
  \A w \in Workers : Running(w) =>
    /\ asks[w].broadcast = Targets
    /\ \/ "filter" \in may
       \/ Len(given.args.filter) > 1
       \/ given.args.filter = <<NoText>>
       \/ \E i \in DOMAIN given.args.filter : given.args.filter[i].glob = Blank
       \/ asks[w] = CliMain(given)

(* Whatever arrives while the context menu is open, a copy is of what the  *)
(* user pointed at, and whole, except the text of rows of a table that was *)
(* replaced under the menu; Copy All is whole even when the last probe     *)
(* failed and the rows are gone (record_text reads self.columns late).     *)
CopyIsWhole ==
  clipboard # Nothing =>
    /\ {h.id : h \in clipboard.holds} = {r.id : r \in clipboard.meant}
    /\ \/ clipboard.stale
       \/ clipboard.holds = {AsJson(r) : r \in clipboard.meant}

(* While Auto is checked and the window open, probe follows probe for      *)
(* ever, whatever fails and whatever the user does besides; and once the   *)
(* filter is left alone, what is shown was asked with that filter, late    *)
(* answers of forgotten workers notwithstanding (_current_filter, refresh).*)
AutoCatchesUp ==
  /\ <>[](auto /\ window = "open") => []<>(\E w \in Workers : stage[w] = "probing")
  /\ \A f \in Filters :
       <>[](auto /\ window = "open" /\ filter = f) => <>[](tree.asked = f)

(* gui.py:9-10: "Configuration precedence: command line > environment >    *)
(* config file > defaults".  Options are combined by `or`, to which a zero *)
(* says nothing.                                                           *)
FirstGivenWins ==
  \A name \in DOMAIN Defaults :
    LET said == SelectSeq(<<given.args[name], given.env[name],
                            Get(LoadConfig(given.file), name)>>,
                          LAMBDA v : v \notin {Absent, Blank})
    IN  said # <<>> =>
          options[name] = IF Head(said) = ZeroText THEN 0 ELSE Head(said)
=============================================================================
