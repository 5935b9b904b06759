------------------------------ MODULE Dashboard ------------------------------
(***************************************************************************)
(* The dashboard page: the refresh coordinator                             *)
(* (frontend/src/utils/refreshCoordinator.ts), the WebSocket client        *)
(* (frontend/src/api/monitorSocket.ts) and the view that uses them         *)
(* (frontend/src/views/OmmsDashboard.vue), with HTTP requests that are     *)
(* answered in any order or fail, by a server that answers all but the log *)
(* page through its Redis cache (app/utils/cache.py).                      *)
(*                                                                         *)
(* A panel is one of the four results a refresh loads.  What the user has  *)
(* chosen for it is a filter (group, machine tag, only errors) and a page. *)
(* Everything that runs without an await, a timer or an event in between   *)
(* is one step: when the last answer of a round comes in, the coordinator  *)
(* goes on before anything else happens in the page.                       *)
(***************************************************************************)
EXTENDS Naturals, FiniteSets

CONSTANTS
  Panels,       \* a set of "total", "os", "process" and "log"
  Filters,      \* what the user can filter by
  NoFilter,     \* the filter the page starts with
  Pages,        \* pages of the log panel
  None,         \* no rows yet
  MaxVersion,   \* bound on the changes of the data
  MaxChoices,   \* bound on the selections the user makes
  MaxFailures   \* bound on the requests that fail

ASSUME PanelAssumption == Panels \subseteq {"total", "os", "process", "log"} /\ Panels # {}
ASSUME SelectionAssumption == NoFilter \in Filters /\ Pages \subseteq Nat /\ 1 \in Pages
ASSUME BoundAssumption == MaxVersion \in Nat /\ MaxChoices \in Nat /\ MaxFailures \in Nat

VARIABLES
  version,    \* of the monitoring data on the server
  cached,     \* no older data are in the server's cache or being put there
  sel,        \* the filter and page chosen for each panel
  rows,       \* what each panel shows: the selection and version of an answer
  requests,   \* the HTTP requests under way
  refreshing, \* the coordinator's flags
  pending,
  auto,       \* autoRefresh
  visible,    \* not document.hidden
  timer,      \* the interval of refreshTimer, "none" when it is not set
  socket,     \* the state of the WebSocket client
  mounted,    \* until onBeforeUnmount
  choices,    \* how many selections and failures there have been
  failures

data == <<version, cached, sel, rows>>
coordinator == <<requests, refreshing, pending>>
page == <<auto, visible, timer, socket, mounted>>
budget == <<choices, failures>>
vars == <<data, coordinator, page, budget>>

Selection == [filter : Filters, page : Pages]

\* A request belongs to the current round, to a round given up earlier or to
\* a selection.  It is alone while no other request of its panel has been
\* under way since it was sent; no tells requests of a panel apart.  Its
\* answer is made from data no older than since.
Request == [panel : Panels, no : Nat \ {0}, sel : Selection, since : Nat,
            kind : {"round", "past", "user"}, alone : BOOLEAN]

TypeOK ==
  /\ version \in 0 .. MaxVersion /\ cached \in 0 .. version
  /\ sel \in [Panels -> Selection]
  /\ rows \in [Panels -> [sel : Selection, version : Nat] \cup {None}]
  /\ requests \subseteq Request
  /\ \A r, q \in requests : r.panel = q.panel /\ r.no = q.no => r = q
  /\ refreshing \in BOOLEAN /\ pending \in BOOLEAN
  /\ auto \in BOOLEAN /\ visible \in BOOLEAN /\ mounted \in BOOLEAN
  /\ timer \in {"none", "fallback", "reconcile"}
  /\ socket \in {"connecting", "open", "waiting", "closed"}
  /\ choices \in 0 .. MaxChoices /\ failures \in 0 .. MaxFailures

-----------------------------------------------------------------------------
(* Requests.                                                               *)

Unused(rs, p) ==
  CHOOSE n \in 1 .. Cardinality(rs) + 1 : \A r \in rs : r.panel = p => r.no # n

\* The oldest data an answer for panel p can be made from: get_logs queries
\* MySQL, the other lists and the totals come through the cache.
Oldest(p) == IF p = "log" THEN version ELSE cached

\* rs with one more request for each panel of ps, for the selections s.
Send(rs, ps, s, kind) ==
  {[r EXCEPT !.alone = @ /\ r.panel \notin ps] : r \in rs} \cup
  {[panel |-> p, no |-> Unused(rs, p), sel |-> s[p], since |-> Oldest(p), kind |-> kind,
    alone |-> \A r \in rs : r.panel # p] : p \in ps}

\* rs when the round is given up: Promise.all rejects, its other requests go on.
GiveUp(rs) == {[r EXCEPT !.kind = IF @ = "round" THEN "past" ELSE @] : r \in rs}

-----------------------------------------------------------------------------
(* createRefreshCoordinator.                                               *)

\* request(): remembered while a round runs, a new round otherwise.
Ask ==
  IF refreshing
  THEN pending' = TRUE /\ UNCHANGED <<requests, refreshing>>
  ELSE /\ refreshing' = TRUE
       /\ pending' = FALSE
       /\ requests' = Send(requests, Panels, sel, "round")

\* Mutant of EndRound: the loop looks at pending no more.
EndRoundOnce(rs, s) ==
  /\ refreshing' = FALSE
  /\ requests' = rs
  /\ UNCHANGED pending

\* Mutant of EndRound: pending is reset once, before the loop.
EndRoundForever(rs, s) ==
  /\ refreshing' = pending
  /\ requests' = IF pending THEN Send(rs, Panels, s, "round") ELSE rs
  /\ UNCHANGED pending

\* refreshOnce() is over, rs are the requests still under way: another round
\* when one was asked for meanwhile.
EndRound(rs, s) ==
  /\ pending' = FALSE
  /\ refreshing' = pending
  /\ requests' = IF pending THEN Send(rs, Panels, s, "round") ELSE rs

-----------------------------------------------------------------------------
(* The timer and the modes of the page.                                    *)

\* getAutoRefreshInterval: 30 seconds connected, 5 seconds otherwise.
Interval(enabled, connected, shown) ==
  IF ~enabled \/ ~shown THEN "none" ELSE IF connected THEN "reconcile" ELSE "fallback"

Connected == socket = "open"

\* startAutoRefresh does nothing when the timer is set.
StartTimer(running, enabled, connected, shown) ==
  IF running # "none" THEN running ELSE Interval(enabled, connected, shown)

\* requestAutoRefresh
AskAutomatic(enabled, shown) ==
  IF Interval(enabled, Connected, shown) # "none" THEN Ask ELSE UNCHANGED coordinator

\* onMounted: the first round, the socket and the timer.
Init ==
  /\ version = 0 /\ cached = 0
  /\ sel = [p \in Panels |-> [filter |-> NoFilter, page |-> 1]]
  /\ rows = [p \in Panels |-> None]
  /\ requests = Send({}, Panels, sel, "round")
  /\ refreshing = TRUE /\ pending = FALSE
  /\ auto = TRUE /\ visible \in BOOLEAN
  /\ socket = "connecting"
  /\ timer = Interval(auto, FALSE, visible)
  /\ mounted = TRUE
  /\ choices = 0 /\ failures = 0

-----------------------------------------------------------------------------
(* The server.                                                             *)

Change ==
  /\ version < MaxVersion
  /\ version' = version + 1
  /\ UNCHANGED <<cached, sel, rows, coordinator, page, budget>>

\* The entries older than some version are gone, by invalidation or TTL, and
\* no leader is left that could store an older one.
Expire ==
  /\ cached < version
  /\ cached' \in cached + 1 .. version
  /\ UNCHANGED <<version, sel, rows, coordinator, page, budget>>

\* Mutant of Answer: an answer without a page number is not told from one with.
AnswerWithoutPage(r) ==
  /\ rows' = [rows EXCEPT ![r.panel] = [sel |-> r.sel, version |-> r.since]]
  /\ sel' = IF r.panel = "log" THEN [sel EXCEPT !["log"].page = None] ELSE sel
  /\ requests' = requests \ {r}
  /\ UNCHANGED <<version, cached, refreshing, pending, page, budget>>

\* The answer to r: the panel shows it, whatever is selected by now and however
\* old it is.  The log panel takes the page over too.
Answer(r) ==
  LET rest == requests \ {r}
      lastOfRound == r.kind = "round" /\ \A q \in rest : q.kind # "round"
  IN  /\ \E v \in r.since .. version :
           rows' = [rows EXCEPT ![r.panel] = [sel |-> r.sel, version |-> v]]
      /\ sel' = IF r.panel = "log" THEN [sel EXCEPT !["log"].page = r.sel.page] ELSE sel
      /\ IF lastOfRound THEN EndRound(rest, sel')
         ELSE requests' = rest /\ UNCHANGED <<refreshing, pending>>
      /\ UNCHANGED <<version, cached, page, budget>>

\* r fails or its answer is incomplete.  loadLogRows catches the error, the
\* other loads reject and end the round with it.
Fail(r) ==
  LET rest == requests \ {r}
      lastOfRound == r.kind = "round" /\ \A q \in rest : q.kind # "round"
  IN  /\ failures < MaxFailures
      /\ failures' = failures + 1
      /\ \/ /\ r.kind = "round" /\ r.panel # "log"
            /\ EndRound(GiveUp(rest), sel)
         \/ /\ lastOfRound /\ r.panel = "log"
            /\ EndRound(rest, sel)
         \/ /\ r.kind # "round" \/ (r.panel = "log" /\ ~lastOfRound)
            /\ requests' = rest
            /\ UNCHANGED <<refreshing, pending>>
      /\ UNCHANGED <<data, page, choices>>

-----------------------------------------------------------------------------
(* The user, who reaches a page that is not hidden.                        *)

\* Mutant of Choose: the rows are filtered in the page, nothing is requested.
ChooseWithoutLoad(p, s) ==
  /\ mounted /\ visible /\ choices < MaxChoices
  /\ p # "total" /\ s # sel[p]
  /\ s.page = 1 \/ (p = "log" /\ s.filter = sel[p].filter)
  /\ choices' = choices + 1
  /\ sel' = [sel EXCEPT ![p] = s]
  /\ UNCHANGED <<version, cached, rows, coordinator, page, failures>>

\* A filter change leads to the first page; only logs have pages.  The panel
\* is loaded outside of the coordinator.
Choose(p, s) ==
  /\ mounted /\ visible /\ choices < MaxChoices
  /\ p # "total" /\ s # sel[p]
  /\ s.page = 1 \/ (p = "log" /\ s.filter = sel[p].filter)
  /\ choices' = choices + 1
  /\ sel' = [sel EXCEPT ![p] = s]
  /\ requests' = Send(requests, {p}, sel', "user")
  /\ UNCHANGED <<version, cached, rows, refreshing, pending, page, failures>>

\* The refresh button, which takes no clicks while it shows the page loading.
Refresh ==
  /\ mounted /\ visible /\ ~refreshing
  /\ Ask
  /\ UNCHANGED <<data, page, budget>>

\* The automatic refresh switch and its watcher.
SwitchAuto ==
  /\ mounted /\ visible
  /\ auto' = ~auto
  /\ timer' = IF auto THEN "none" ELSE StartTimer(timer, TRUE, Connected, visible)
  /\ pending' = (pending /\ auto')
  /\ UNCHANGED <<data, requests, refreshing, visible, socket, mounted, budget>>

\* handleVisibilityChange
Hide ==
  /\ mounted /\ visible
  /\ visible' = FALSE /\ timer' = "none"
  /\ pending' = FALSE
  /\ UNCHANGED <<data, requests, refreshing, auto, socket, mounted, budget>>

\* Mutant of Show: the timer is left to the next change of the connection.
ShowWithoutTimer ==
  /\ mounted /\ ~visible
  /\ visible' = TRUE
  /\ AskAutomatic(auto, TRUE)
  /\ UNCHANGED <<data, auto, timer, socket, mounted, budget>>

Show ==
  /\ mounted /\ ~visible
  /\ visible' = TRUE
  /\ AskAutomatic(auto, TRUE)
  /\ timer' = StartTimer(timer, auto, Connected, TRUE)
  /\ UNCHANGED <<data, auto, socket, mounted, budget>>

\* Mutant of Unmount: the timer is stopped before the socket is closed.
UnmountTimerFirst ==
  /\ mounted
  /\ mounted' = FALSE /\ socket' = "closed"
  /\ timer' = Interval(auto, FALSE, visible)
  /\ UNCHANGED <<data, coordinator, auto, visible, budget>>

\* onBeforeUnmount: closing the socket reports a status change, which starts
\* the timer again; it is stopped after that.
Unmount ==
  /\ mounted
  /\ mounted' = FALSE /\ socket' = "closed"
  /\ timer' = "none"
  /\ UNCHANGED <<data, coordinator, auto, visible, budget>>

-----------------------------------------------------------------------------
(* Timers and events.                                                      *)

\* The interval timer fires, but not while the socket waits to reconnect: each
\* closing starts the interval of 5 seconds anew, and the reconnect timer of 3
\* seconds that is set with it is due first.
Tick ==
  /\ timer # "none" /\ socket # "waiting"
  /\ AskAutomatic(auto, visible)
  /\ UNCHANGED <<data, page, budget>>

\* onStatusChange stops the timer and starts it for the new status.
Status(connected) ==
  /\ timer' = Interval(auto, connected, visible)
  /\ UNCHANGED <<data, coordinator, auto, visible, mounted, budget>>

SocketOpens == socket = "connecting" /\ socket' = "open" /\ Status(TRUE)

\* onclose, also of a connection that was never established.
SocketCloses == socket \in {"connecting", "open"} /\ socket' = "waiting" /\ Status(FALSE)

\* The reconnect timer.
Reconnect ==
  /\ socket = "waiting" /\ socket' = "connecting"
  /\ UNCHANGED <<data, coordinator, auto, visible, timer, mounted, budget>>

\* A hello or refresh event.
Event ==
  /\ socket = "open"
  /\ AskAutomatic(auto, visible)
  /\ UNCHANGED <<data, page, budget>>

-----------------------------------------------------------------------------

User ==
  \/ \E p \in Panels, s \in Selection : Choose(p, s)
  \/ Refresh \/ SwitchAuto \/ Hide \/ Show \/ Unmount

Network ==
  \/ Change \/ Expire
  \/ \E r \in requests : Answer(r) \/ Fail(r)
  \/ SocketOpens \/ SocketCloses \/ Reconnect \/ Event

Next == User \/ Network \/ Tick

Spec == Init /\ [][Next]_vars

\* Every request is answered or fails (the client gives up after 10 seconds),
\* timers fire, and what is cached expires.  An interval started over and over
\* never fires: Tick is not enabled all the time then, because the socket
\* waits in between.
Fairness ==
  /\ \A p \in Panels, n \in 1 .. MaxChoices + MaxFailures + 1 :
       WF_vars(\E r \in requests : r.panel = p /\ r.no = n /\ (Answer(r) \/ Fail(r)))
  /\ WF_vars(Tick)
  /\ WF_vars(Reconnect)
  /\ WF_vars(Expire)

FairSpec == Spec /\ Fairness

-----------------------------------------------------------------------------
(* Properties.                                                             *)

RoundRequests == {r \in requests : r.kind = "round"}

\* The flags and the requests agree: while refreshing is set some request of
\* the round is still to come back and end it, so the flag cannot stay set and
\* swallow every later refresh; a request of a round is never left behind
\* without it; the coordinator never loads a panel twice at a time; and a
\* follow-up is owed only while a round is there to start it and the page is
\* visible and in automatic mode, so what is hidden or switched off loads no
\* more by itself.
CoordinatorExact ==
  /\ refreshing <=> RoundRequests # {}
  /\ \A r, q \in RoundRequests : r.panel = q.panel => r = q
  /\ pending => refreshing /\ auto /\ visible

\* Whatever order switch, visibility and connection change in, the timer runs
\* exactly at the rate of the current mode, and nothing runs after unmounting.
TimerMatchesMode ==
  timer = IF mounted THEN Interval(auto, Connected, visible) ELSE "none"

\* An answer to the only request of its panel shows the current selection, and
\* for the log panel nothing older than what is shown: only requests of one
\* panel that overlap can show rows of another selection or send the logs back
\* in time.  The other panels can go back in time by the server's cache too.
LoneAnswerIsCurrent ==
  [][\A r \in requests \ requests' :
       r.alone /\ rows'[r.panel] # rows[r.panel] =>
         /\ rows'[r.panel].sel = sel[r.panel]
         /\ r.panel = "log" /\ rows["log"] # None =>
              rows'["log"].version >= rows["log"].version]_vars

Consistent == \A p \in Panels : rows[p] = [sel |-> sel[p], version |-> version]

\* A page that stays open, visible and in automatic mode ends up showing the
\* newest data for what is selected, whatever answers came late, from the cache
\* or not at all, once its socket is no longer closed over and over.
Converges ==
  <>[](mounted /\ auto /\ visible /\ socket # "waiting") => <>[]Consistent

\* A refresh that a visible page in automatic mode asks for is not dropped: a
\* round is under way after it, and if one was before, another is owed.
AsksAreHeeded ==
  [][(Refresh \/ Show \/ Event \/ Tick) /\ auto /\ visible' =>
       refreshing' /\ (refreshing => pending')]_vars

\* The page refreshes as a refresh coordinator promises: rounds load all panels
\* and follow one another, one is owed exactly from when it is asked for during
\* another until it starts or the page is hidden or switched to manual, and
\* every round ends, whatever comes back late or fails.
Rounds == INSTANCE Refresher
  WITH Loads <- Panels, loading <- {r.panel : r \in RoundRequests}, owed <- pending,
       automatic <- auto /\ visible

KeepsRefreshing == Rounds!Spec /\ AsksAreHeeded

\* "Only one round of refreshing is allowed at a time"
\* (OmmsDashboard.vue:416): no request of an earlier round is under way in a
\* later one.
OneRoundAtATime == refreshing => \A r \in requests : r.kind # "past"

\* "Polling every 5 seconds is resumed when the connection is lost"
\* (OmmsDashboard.vue:638): a page that stays open, visible and in automatic
\* mode without a connection goes on refreshing.
PollsWhenDisconnected ==
  <>[](mounted /\ auto /\ visible /\ ~Connected) => []<>refreshing

=============================================================================
