-------------------------------- MODULE Home --------------------------------
(***************************************************************************)
(* The home page (src/ui/home.vue) over the socket it keeps open: the      *)
(* connection monitor that dials again, what the page shows of the         *)
(* connection (home_socketctl.js), the modal in which a wizard runs        *)
(* (Connector.tla says what happens in it), the tabs of the sessions, and  *)
(* the title of the document (app.js).                                     *)
(*                                                                         *)
(* The delay of a retry is left out: time is not modelled.  The indicators *)
(* on a tab and the windows are layout.                                    *)
(***************************************************************************)
EXTENDS Socket, SequencesExt

CONSTANTS
  MaxTabs,     \* bound: tabs at the same time
  MaxClosing   \* bound: tabs the user has asked to close that are still there

ASSUME HomeAssumption == MaxTabs \in Nat \ {0} /\ MaxClosing \in Nat \ {0}

TabIds == 1 .. MaxTabs

VARIABLES
  retryTimer,  \* monitor.retryTimer is pending
  unmounted,   \* monitor.unmounted
  status,      \* what the page says of the connection
  acquired,    \* connector.acquired, and busy with it
  inputting,   \* connector.inputting: the modal is there
  wizardOn,    \* the connection of its wizard, NoOpen if that is gone
  tabs,        \* tab.tabs
  current,     \* tab.current, counted from 1: 0 is no tab
  closes,      \* the calls of closeTab that await control.close: <<tab, index>>
  overtaken,   \* history: the tabs in front of which one has gone while they closed
  title,       \* the count and the star in the document's title
  tabUpdateIndicator  \* the timer that takes the star away is pending

pageVars == <<retryTimer, unmounted, status>>
modalVars == <<acquired, inputting, wizardOn>>
tabVars == <<tabs, current, closes, overtaken, title, tabUpdateIndicator>>
vars == <<socketVars, pageVars, modalVars, tabVars>>

\* A tab: its session is on a connection, or has ended.
Tab == [id : TabIds, on : Opens \cup {NoOpen}, closing : BOOLEAN]

HomeTypeOK ==
  /\ SocketTypeOK
  /\ {retryTimer, unmounted, acquired, inputting, tabUpdateIndicator} \subseteq BOOLEAN
  /\ status \in {"connecting", "connected", "unmeasurable", "disconnected"}
  /\ wizardOn \in Opens \cup {NoOpen}
  /\ tabs \in BoundedSeq(Tab, MaxTabs)
  /\ \A i, j \in DOMAIN tabs : tabs[i].id = tabs[j].id => i = j
  /\ current \in 0 .. MaxTabs
  /\ closes \subseteq TabIds \X TabIds
  /\ overtaken \subseteq TabIds
  /\ title \in [tabs : 0 .. MaxTabs, star : BOOLEAN]

\* mounted: the monitor opens the connection, and a launcher joins it.
Init ==
  /\ openSerial = 1 /\ promise = 1
  /\ phase = [s \in Opens |-> IF s = 1 THEN "dialing" ELSE "none"]
  /\ handler = NoOpen
  /\ \E launched \in BOOLEAN :
       /\ acquired = launched
       /\ waiting = [s \in Opens |->
                       IF s # 1 THEN {}
                       ELSE IF launched THEN Callers ELSE {"monitor"}]
  /\ awaiting = FALSE /\ missed = 0 /\ stalled = FALSE
  /\ retryTimer = FALSE /\ unmounted = FALSE /\ status = "connecting"
  /\ inputting = FALSE /\ wizardOn = NoOpen
  /\ tabs = <<>> /\ current = 0 /\ closes = {} /\ overtaken = {}
  /\ title = [tabs |-> 0, star |-> FALSE] /\ tabUpdateIndicator = FALSE

---------------------------------------------------------------------------
(* The connection and its callbacks (home_socketctl.js)                    *)

\* scheduleConnectionMonitorReconnect, in a step that sets the timer or leaves it.
\* Mutant: only after a connection that was there.
ScheduleAgain == retryTimer' = (retryTimer \/ (~unmounted /\ handler # NoOpen))
Schedule == retryTimer' = (retryTimer \/ ~unmounted)

\* close and failed, of an attempt or a handler that is still the socket's.
ShowDisconnected ==
  /\ status' = "disconnected"
  /\ inputting' = FALSE
  /\ wizardOn' = NoOpen
  /\ Schedule
  /\ UNCHANGED unmounted

\* getStreamThenRun calls end, whatever has come of the attempt.
EndRun(callers) == acquired' = (acquired /\ "connect" \notin callers)

\* runConnect's callback has the stream: the wizard is built and shown, or it throws.
RunOn(s) ==
  \/ inputting' = TRUE /\ wizardOn' = s
  \/ UNCHANGED <<inputting, wizardOn>>

\* connected, and everyone who has waited goes on.
Connect(s) ==
  /\ DialSucceeds(s)
  /\ status' = "connected"
  /\ retryTimer' = FALSE
  /\ EndRun(waiting[s])
  /\ IF "connect" \in waiting[s] THEN RunOn(s) ELSE UNCHANGED <<inputting, wizardOn>>
  /\ UNCHANGED <<unmounted, tabVars>>

\* failed is called if the attempt is still the socket's, and the monitor's own catch
\* schedules in any case.
ConnectFails(s) ==
  /\ DialFails(s)
  /\ EndRun(waiting[s])
  /\ IF ~IsCancelled(s) THEN ShowDisconnected
     ELSE /\ IF "monitor" \in waiting[s] THEN Schedule ELSE UNCHANGED retryTimer
          /\ UNCHANGED <<unmounted, status, inputting, wizardOn>>
  /\ UNCHANGED tabVars

ConnectIsCancelled(s) == DialIsCancelled(s) /\ UNCHANGED <<pageVars, modalVars, tabVars>>

CancelledConnectEnds(s) ==
  /\ CleanupEnds(s)
  /\ EndRun(waiting[s])
  /\ IF "monitor" \in waiting[s] THEN Schedule ELSE UNCHANGED retryTimer
  /\ UNCHANGED <<unmounted, status, inputting, wizardOn, tabVars>>

Disconnect == Break /\ UNCHANGED <<pageVars, modalVars, tabVars>>

\* The sessions of a handler that is cleared are over.
EndSessions(s) ==
  [i \in DOMAIN tabs |-> [tabs[i] EXCEPT !.on = IF @ = s THEN NoOpen ELSE @]]

\* The callback close, if nobody has taken the handler's place.
Disconnected(s) ==
  /\ ClearEnds(s)
  /\ tabs' = EndSessions(s)
  /\ IF IsActive(s) THEN ShowDisconnected
     ELSE /\ wizardOn' = IF wizardOn = s THEN NoOpen ELSE wizardOn
          /\ UNCHANGED <<pageVars, inputting>>
  /\ UNCHANGED <<acquired, current, closes, overtaken, title, tabUpdateIndicator>>

Echo ==
  /\ EchoAnswered
  /\ status' = "connected"
  /\ UNCHANGED <<retryTimer, unmounted, modalVars, tabVars>>

\* echo(ECHO_FAILED), and the connection is cleared.
EchoFails ==
  /\ MissesHeartbeat
  /\ status' = "unmeasurable"
  /\ UNCHANGED <<retryTimer, unmounted, modalVars, tabVars>>

Heartbeat == (Probe \/ Stall) /\ UNCHANGED <<pageVars, modalVars, tabVars>>

---------------------------------------------------------------------------
(* Who asks for the connection                                             *)

\* connection.get while there is none, and the callback connecting.
Dial(callers) ==
  \/ JoinOpen(callers) /\ UNCHANGED status
  \/ Open(callers) /\ status' = "connecting"

\* startConnectionMonitor.
StartConnectionMonitor ==
  IF Alive THEN UNCHANGED <<socketVars, status>> ELSE Dial({"monitor"})

Retry ==
  /\ retryTimer
  /\ retryTimer' = FALSE
  /\ StartConnectionMonitor
  /\ UNCHANGED <<unmounted, modalVars, tabVars>>

OnOnline ==
  /\ ~unmounted
  /\ retryTimer' = FALSE
  /\ StartConnectionMonitor
  /\ UNCHANGED <<unmounted, modalVars, tabVars>>

\* beforeUnmount.
Leave ==
  /\ ~unmounted
  /\ unmounted' = TRUE
  /\ retryTimer' = FALSE
  /\ CloseSocket
  /\ inputting' = FALSE /\ wizardOn' = NoOpen
  /\ UNCHANGED <<status, acquired, tabVars>>

---------------------------------------------------------------------------
(* The modal                                                               *)

\* connectNew and connectPreset: runConnect, which is held by one at a time.
RunConnect ==
  /\ ~unmounted /\ ~inputting /\ ~acquired
  /\ IF Alive
     THEN RunOn(handler) /\ UNCHANGED <<socketVars, status, acquired>>
     ELSE /\ Dial({"connect"})
          /\ acquired' = TRUE
          /\ UNCHANGED <<inputting, wizardOn>>
  /\ UNCHANGED <<retryTimer, unmounted, tabVars>>

\* cancelConnection; and openNewPresetEditor, which leaves for the editor.
CancelConnection ==
  /\ inputting
  /\ inputting' = FALSE /\ wizardOn' = NoOpen
  /\ UNCHANGED <<socketVars, pageVars, acquired, tabVars>>

---------------------------------------------------------------------------
(* The tabs, and the document's title                                      *)

\* App.updateTabTitleInfo.
UpdateTabTitleInfo(list, updated) ==
  title' = [tabs |-> Len(list), star |-> Len(list) > 0 /\ updated]

\* App.tabUpdated, and tabOpened.
TabUpdated(list) ==
  /\ UpdateTabTitleInfo(list, TRUE)
  /\ tabUpdateIndicator' = TRUE

\* App.tabClosed.
TabClosed(list) ==
  /\ UpdateTabTitleInfo(list, tabUpdateIndicator)
  /\ tabUpdateIndicator' = (tabUpdateIndicator /\ list # <<>>)

FreshId ==
  CHOOSE t \in TabIds : /\ \A i \in DOMAIN tabs : tabs[i].id # t
                        /\ \A c \in closes : c[1] # t

MayOpenTab ==
  \E t \in TabIds : /\ \A i \in DOMAIN tabs : tabs[i].id # t
                    /\ \A c \in closes : c[1] # t

\* connectionSucceed, with addToTab.  The await between the two halves of switchTab is
\* for a control that returns at once, and whatever else moves the tabs is called from
\* another task.  It throws if current is beyond the tabs.
ConnectionSucceed ==
  /\ inputting /\ wizardOn # NoOpen /\ Len(tabs) < MaxTabs /\ MayOpenTab
  /\ LET list == Append(tabs, [id |-> FreshId, on |-> wizardOn, closing |-> FALSE])
     IN /\ tabs' = list
        /\ current' = IF current <= Len(list) THEN Len(list) ELSE current
        /\ TabUpdated(list)
  /\ inputting' = FALSE /\ wizardOn' = NoOpen
  /\ UNCHANGED <<socketVars, pageVars, acquired, closes, overtaken>>

SwitchTab(i) ==
  /\ ~unmounted /\ i # current /\ current <= Len(tabs)
  /\ current' = i
  /\ UNCHANGED <<socketVars, pageVars, modalVars, tabs, closes, overtaken, title,
                 tabUpdateIndicator>>

\* tabUpdated: something has come of the session.
Output(i) ==
  /\ ~unmounted /\ tabs[i].on # NoOpen
  /\ TabUpdated(tabs)
  /\ UNCHANGED <<socketVars, pageVars, modalVars, tabs, current, closes, overtaken>>

\* tabStopped: the remote has ended.
SessionEnds(i) ==
  /\ tabs[i].on # NoOpen
  /\ tabs' = [tabs EXCEPT ![i].on = NoOpen]
  /\ UNCHANGED <<socketVars, pageVars, modalVars, current, closes, overtaken, title,
                 tabUpdateIndicator>>

\* closeTab up to the await ...
CloseTab(i) ==
  /\ ~unmounted /\ ~tabs[i].closing /\ Cardinality(closes) < MaxClosing
  /\ tabs' = [tabs EXCEPT ![i].closing = TRUE]
  /\ closes' = closes \cup {<<tabs[i].id, i>>}
  /\ UNCHANGED <<socketVars, pageVars, modalVars, current, overtaken, title,
                 tabUpdateIndicator>>

\* splice(index, 1) takes nothing out beyond the end.
\* Mutant: it is the tab in front that is removed.
SpliceCurrent(index) == RemoveAt(tabs, current)
Splice(index) == IF index > Len(tabs) THEN tabs ELSE RemoveAt(tabs, index)

\* The tabs that are being closed behind an index: theirs is of before one has gone.
Behind(index) == {tabs[i].id : i \in {j \in DOMAIN tabs : j > index /\ tabs[j].closing}}

\* ... and after it: removeFromTab(index), with the index of that time.
TabCloses(c) ==
  /\ c \in closes
  /\ closes' = closes \ {c}
  /\ overtaken' = overtaken \cup Behind(c[2])
  /\ LET rest == Splice(c[2])
     IN /\ tabs' = rest
        /\ current' = IF c[2] = Len(tabs) THEN Len(rest) ELSE c[2]
        /\ IF unmounted THEN UNCHANGED <<title, tabUpdateIndicator>> ELSE TabClosed(rest)
  /\ UNCHANGED <<socketVars, pageVars, modalVars>>

\* The timer of App.tabUpdated.
StarEnds ==
  /\ tabUpdateIndicator
  /\ tabUpdateIndicator' = FALSE
  /\ UpdateTabTitleInfo(tabs, FALSE)
  /\ UNCHANGED <<socketVars, pageVars, modalVars, tabs, current, closes, overtaken>>

---------------------------------------------------------------------------
Next ==
  \/ \E s \in Opens : \/ Connect(s) \/ ConnectFails(s) \/ ConnectIsCancelled(s)
                      \/ CancelledConnectEnds(s) \/ Disconnected(s)
  \/ Disconnect \/ Echo \/ EchoFails \/ Heartbeat
  \/ Retry \/ OnOnline \/ Leave
  \/ RunConnect \/ CancelConnection \/ ConnectionSucceed
  \/ \E i \in DOMAIN tabs : SwitchTab(i) \/ Output(i) \/ SessionEnds(i) \/ CloseTab(i)
  \/ \E c \in closes : TabCloses(c)
  \/ StarEnds

Spec == Init /\ [][Next]_vars

\* The browser's timers fire and its promises settle.  A dial ends one way or the
\* other: the WebSocket opens in time or is closed, and a server that does not go on
\* with the handshake closes it.
FairSpec ==
  /\ Spec
  /\ WF_vars(Retry)
  /\ WF_vars(Probe /\ Heartbeat)
  /\ WF_vars(EchoFails)
  /\ \A s \in Opens :
       /\ WF_vars(Connect(s) \/ ConnectFails(s) \/ ConnectIsCancelled(s))
       /\ WF_vars(CancelledConnectEnds(s))
       /\ WF_vars(Disconnected(s))
  /\ \A t \in TabIds : WF_vars(\E c \in closes : c[1] = t /\ TabCloses(c))

---------------------------------------------------------------------------
(* Properties                                                              *)

Attempted == openSerial # NoOpen /\ phase[openSerial] = "dialing"

\* What the page shows is what is: the one connection that is served is the socket's;
\* the page says connected exactly when there is one, unless an attempt or a clearing
\* is under way; the connect button is
\* held only by a run that awaits an attempt; a session on a tab is on a connection
\* that has not been taken down; the title counts the tabs; the tab in front is one of
\* them, until the close of a tab is overtaken by that of one before it.  Callbacks of
\* a handler that was replaced, and runs that join another's attempt, must not upset it
\* (Socket.open, home_socketctl.js, runConnect, tabClosed, removeFromTab).
PageTellsTruth ==
  /\ \A s \in Opens : phase[s] = "serving" => handler = s
  /\ Alive => status = "connected"
  /\ status = "connected" => handler # NoOpen
  /\ status = "connecting" => Attempted \/ unmounted
  /\ acquired <=> \E s \in Opens : "connect" \in waiting[s]
  /\ \A i \in DOMAIN tabs :
       tabs[i].on # NoOpen => phase[tabs[i].on] \in {"serving", "clearing"}
  /\ ~unmounted => title = [tabs |-> Len(tabs), star |-> tabUpdateIndicator]
  /\ overtaken = {} => IF tabs = <<>> THEN current = 0 ELSE current \in DOMAIN tabs

\* Whatever fails, and in whatever order the retry timer, the online event, a new
\* command and the clearing of the last connection come: the page dials again and
\* again until it is connected to a server that answers or has been left; that one
\* has stopped to answer is noticed (scheduleConnectionMonitorReconnect, sendEcho).
KeepsTrying == []<>(unmounted \/ Attempted \/ (Alive /\ ~stalled))

\* A page that was left keeps no connection and no timer, not even of an attempt that
\* was under way (beforeUnmount, Socket.close).
LeavesNothing ==
  unmounted ~> [](~retryTimer /\ ~Alive /\ \A s \in Opens : phase[s] = "none")

Closing == {tabs[i].id : i \in {j \in DOMAIN tabs : tabs[j].closing}}

\* A tab the user has closed disappears in the end, however its close overlaps with
\* those of tabs behind it, with the end of its session and with that of the
\* connection; only if a tab in front of it goes first, it may stay (closeTab, tabClosed,
\* removeFromTab).
ClosedTabGoes == \A t \in TabIds : t \in Closing ~> t \notin Closing \/ t \in overtaken
=============================================================================
