----------------------------- MODULE HomeProofs -----------------------------
(***************************************************************************)
(* PageTellsTruth as a theorem: for any number of attempts, connections,   *)
(* tabs and closes.  A close knows the index of its tab from before its    *)
(* await, so TabsAreShown says what is so until one is overtaken.          *)
(***************************************************************************)
EXTENDS Home, FiniteSetTheorems, SequenceTheorems, TLAPS

\* The types of what the page shows and of what that depends on.
ShownTypeOK ==
  /\ openSerial \in Opens \cup {NoOpen}
  /\ phase \in [Opens -> Phases]
  /\ handler \in Opens \cup {NoOpen}
  /\ promise \in Opens \cup {NoOpen}
  /\ waiting \in [Opens -> SUBSET Callers]
  /\ acquired \in BOOLEAN /\ tabUpdateIndicator \in BOOLEAN
  /\ wizardOn \in Opens \cup {NoOpen}
  /\ tabs \in Seq(Tab)

\* One handler is served at a time: an attempt that may still install its streams was
\* started when there was none, and is the last one.
OneIsServed ==
  /\ \A s \in Opens : phase[s] = "serving" => handler = s
  /\ Attempted => ~Alive

\* Who waits, waits for an attempt that is under way; so does who will join.
WaitingIsForAnAttempt ==
  /\ \A s \in Opens : waiting[s] # {} => phase[s] \in {"dialing", "cancelled"}
  /\ promise # NoOpen => phase[promise] \in {"dialing", "cancelled"}
  /\ \A s, t \in Opens : "connect" \in waiting[s] /\ "connect" \in waiting[t] => s = t
  /\ acquired <=> \E s \in Opens : "connect" \in waiting[s]

StatusIsTrue ==
  /\ Alive => status = "connected"
  /\ status = "connected" => handler # NoOpen
  /\ status = "connecting" => Attempted \/ unmounted

\* A connection that sessions may be on.
Up(s) == phase[s] \in {"serving", "clearing"}

WizardIsUp == wizardOn # NoOpen => Up(wizardOn)
SessionsAreUp == \A i \in DOMAIN tabs : tabs[i].on # NoOpen => Up(tabs[i].on)

\* Until a close is overtaken, its index is that of its tab.
ClosesAreAimed ==
  \A c \in closes : /\ c[2] \in DOMAIN tabs
                    /\ tabs[c[2]].id = c[1] /\ tabs[c[2]].closing

TabsAreShown ==
  /\ ~unmounted => title = [tabs |-> Len(tabs), star |-> tabUpdateIndicator]
  /\ closes \subseteq TabIds \X (Nat \ {0})
  /\ overtaken = {} => /\ IF tabs = <<>> THEN current = 0 ELSE current \in DOMAIN tabs
                       /\ ClosesAreAimed

IInv == /\ ShownTypeOK /\ OneIsServed /\ WaitingIsForAnAttempt /\ StatusIsTrue
        /\ WizardIsUp /\ SessionsAreUp /\ TabsAreShown

USE SocketAssumption DEF NoOpen

---------------------------------------------------------------------------
(* Facts of several steps                                                  *)

\* What is in the list of tabs is a tab on a connection that was opened, or on none.
LEMMA TabsAreTabs ==
  ASSUME ShownTypeOK, NEW i \in DOMAIN tabs
  PROVE  tabs[i] \in Tab /\ tabs[i].id \in TabIds /\ tabs[i].on \in Opens \cup {NoOpen}
<1>1. tabs[i] \in Tab
  BY LenProperties DEF ShownTypeOK
<1> QED
  BY <1>1 DEF Tab

\* A step that takes no connection down and leaves the tabs alone.
LEMMA TabsStay ==
  ASSUME IInv, UNCHANGED tabVars, unmounted => unmounted',
         \A s \in Opens : Up(s) => Up(s)'
  PROVE  SessionsAreUp' /\ TabsAreShown'
<1>1. TabsAreShown'
  BY DEF IInv, TabsAreShown, ClosesAreAimed, tabVars
<1>2. SessionsAreUp'
  BY TabsAreTabs DEF IInv, SessionsAreUp, tabVars
<1> QED
  BY <1>1, <1>2

\* A step of the tabs, which leaves the connection and the modal alone.
LEMMA SocketStays ==
  ASSUME IInv, UNCHANGED <<socketVars, pageVars, modalVars>>
  PROVE  /\ OneIsServed' /\ WaitingIsForAnAttempt' /\ StatusIsTrue' /\ WizardIsUp'
         /\ tabs' \in Seq(Tab) /\ tabUpdateIndicator' \in BOOLEAN => ShownTypeOK'
         /\ \A s \in Opens : Up(s)' <=> Up(s)
  BY DEF IInv, ShownTypeOK, OneIsServed, WaitingIsForAnAttempt, StatusIsTrue, WizardIsUp,
         Up, Alive, Attempted, socketVars, pageVars, modalVars

---------------------------------------------------------------------------
(* The connection and its callbacks                                        *)

\* An attempt installs its streams: it is the last one, so nothing is served.
LEMMA ConnectStep ==
  ASSUME IInv, NEW s \in Opens, Connect(s)
  PROVE  IInv'
<1> USE DEF Connect, DialSucceeds, IsCancelled, Settle, EndRun, RunOn,
        socketVars, pageVars, modalVars
<1> USE DEF IInv, ShownTypeOK, Phases, Opens
<1>1. ShownTypeOK'
  BY DEF tabVars
<1>2. OneIsServed'
  BY DEF OneIsServed, Alive, Attempted
<1>3. WaitingIsForAnAttempt'
  BY DEF WaitingIsForAnAttempt, Alive
<1>4. StatusIsTrue'
  BY DEF StatusIsTrue, OneIsServed, Alive, Attempted
<1>5. WizardIsUp'
  BY DEF WizardIsUp, Up, OneIsServed, Alive
<1>6. SessionsAreUp' /\ TabsAreShown'
  <2>1. \A t \in Opens : Up(t) => Up(t)'
    BY DEF Up, OneIsServed, Alive
  <2> QED
    BY <2>1, TabsStay
<1> QED
  BY <1>1, <1>2, <1>3, <1>4, <1>5, <1>6

\* An attempt that fails counts only if it is the last one.
LEMMA ConnectFailsStep ==
  ASSUME IInv, NEW s \in Opens, ConnectFails(s)
  PROVE  IInv'
<1> USE DEF ConnectFails, DialFails, IsCancelled, Settle, EndRun, ShowDisconnected,
        socketVars, pageVars, modalVars
<1> USE DEF IInv, ShownTypeOK, Phases, Opens
<1>1. ShownTypeOK'
  BY DEF tabVars
<1>2. OneIsServed'
  BY DEF OneIsServed, Alive, Attempted
<1>3. WaitingIsForAnAttempt'
  BY DEF WaitingIsForAnAttempt, Alive
<1>4. StatusIsTrue'
  BY DEF StatusIsTrue, OneIsServed, Alive, Attempted
<1>5. WizardIsUp'
  BY DEF WizardIsUp, Up, OneIsServed, Alive
<1>6. SessionsAreUp' /\ TabsAreShown'
  <2>1. \A t \in Opens : Up(t) => Up(t)'
    BY DEF Up, OneIsServed, Alive
  <2> QED
    BY <2>1, TabsStay
<1> QED
  BY <1>1, <1>2, <1>3, <1>4, <1>5, <1>6

\* An attempt that was given up is cleaned up, and nobody is told before that is done.
LEMMA ConnectIsCancelledStep ==
  ASSUME IInv, NEW s \in Opens, ConnectIsCancelled(s)
  PROVE  IInv'
<1> USE DEF ConnectIsCancelled, DialIsCancelled, IsCancelled,
        socketVars, pageVars, modalVars
<1> USE DEF IInv, ShownTypeOK, Phases, Opens
<1>1. ShownTypeOK'
  BY DEF tabVars
<1>2. OneIsServed'
  BY DEF OneIsServed, Alive, Attempted
<1>3. WaitingIsForAnAttempt'
  BY DEF WaitingIsForAnAttempt, Alive
<1>4. StatusIsTrue'
  BY DEF StatusIsTrue, OneIsServed, Alive, Attempted
<1>5. WizardIsUp'
  BY DEF WizardIsUp, Up, OneIsServed, Alive
<1>6. SessionsAreUp' /\ TabsAreShown'
  <2>1. \A t \in Opens : Up(t) => Up(t)'
    BY DEF Up, OneIsServed, Alive
  <2> QED
    BY <2>1, TabsStay
<1> QED
  BY <1>1, <1>2, <1>3, <1>4, <1>5, <1>6

\* Those who have waited for it go on, and may try again.
LEMMA CancelledConnectEndsStep ==
  ASSUME IInv, NEW s \in Opens, CancelledConnectEnds(s)
  PROVE  IInv'
<1> USE DEF CancelledConnectEnds, CleanupEnds, Settle, EndRun,
        socketVars, pageVars, modalVars
<1> USE DEF IInv, ShownTypeOK, Phases, Opens
<1>1. ShownTypeOK'
  BY DEF tabVars
<1>2. OneIsServed'
  BY DEF OneIsServed, Alive, Attempted
<1>3. WaitingIsForAnAttempt'
  BY DEF WaitingIsForAnAttempt, Alive
<1>4. StatusIsTrue'
  BY DEF StatusIsTrue, OneIsServed, Alive, Attempted
<1>5. WizardIsUp'
  BY DEF WizardIsUp, Up, OneIsServed, Alive
<1>6. SessionsAreUp' /\ TabsAreShown'
  <2>1. \A t \in Opens : Up(t) => Up(t)'
    BY DEF Up, OneIsServed, Alive
  <2> QED
    BY <2>1, TabsStay
<1> QED
  BY <1>1, <1>2, <1>3, <1>4, <1>5, <1>6

\* A connection that breaks still has its sessions until it is cleared.
LEMMA DisconnectStep ==
  ASSUME IInv, Disconnect
  PROVE  IInv'
<1> USE DEF Disconnect, Break,
        socketVars, pageVars, modalVars
<1> USE DEF IInv, ShownTypeOK, Phases, Opens
<1>1. ShownTypeOK'
  BY DEF tabVars
<1>2. OneIsServed'
  BY DEF OneIsServed, Alive, Attempted
<1>3. WaitingIsForAnAttempt'
  BY DEF WaitingIsForAnAttempt, Alive
<1>4. StatusIsTrue'
  BY DEF StatusIsTrue, OneIsServed, Alive, Attempted
<1>5. WizardIsUp'
  BY DEF WizardIsUp, Up, OneIsServed, Alive
<1>6. SessionsAreUp' /\ TabsAreShown'
  <2>1. \A t \in Opens : Up(t) => Up(t)'
    BY DEF Up, OneIsServed, Alive
  <2> QED
    BY <2>1, TabsStay
<1> QED
  BY <1>1, <1>2, <1>3, <1>4, <1>5, <1>6

\* An answer to a probe says connected, also in a handler that is being cleared.
LEMMA EchoStep ==
  ASSUME IInv, Echo
  PROVE  IInv'
<1> USE DEF Echo, EchoAnswered,
        socketVars, pageVars, modalVars
<1> USE DEF IInv, ShownTypeOK, Phases, Opens
<1>1. ShownTypeOK'
  BY DEF tabVars
<1>2. OneIsServed'
  BY DEF OneIsServed, Alive, Attempted
<1>3. WaitingIsForAnAttempt'
  BY DEF WaitingIsForAnAttempt, Alive
<1>4. StatusIsTrue'
  BY DEF StatusIsTrue, OneIsServed, Alive, Attempted
<1>5. WizardIsUp'
  BY DEF WizardIsUp, Up, OneIsServed, Alive
<1>6. SessionsAreUp' /\ TabsAreShown'
  <2>1. \A t \in Opens : Up(t) => Up(t)'
    BY DEF Up, OneIsServed, Alive
  <2> QED
    BY <2>1, TabsStay
<1> QED
  BY <1>1, <1>2, <1>3, <1>4, <1>5, <1>6

\* The second miss clears the handler.
LEMMA EchoFailsStep ==
  ASSUME IInv, EchoFails
  PROVE  IInv'
<1> USE DEF EchoFails, MissesHeartbeat,
        socketVars, pageVars, modalVars
<1> USE DEF IInv, ShownTypeOK, Phases, Opens
<1>1. ShownTypeOK'
  BY DEF tabVars
<1>2. OneIsServed'
  BY DEF OneIsServed, Alive, Attempted
<1>3. WaitingIsForAnAttempt'
  BY DEF WaitingIsForAnAttempt, Alive
<1>4. StatusIsTrue'
  BY DEF StatusIsTrue, OneIsServed, Alive, Attempted
<1>5. WizardIsUp'
  BY DEF WizardIsUp, Up, OneIsServed, Alive
<1>6. SessionsAreUp' /\ TabsAreShown'
  <2>1. \A t \in Opens : Up(t) => Up(t)'
    BY DEF Up, OneIsServed, Alive
  <2> QED
    BY <2>1, TabsStay
<1> QED
  BY <1>1, <1>2, <1>3, <1>4, <1>5, <1>6

\* A probe changes nothing that is shown.
LEMMA HeartbeatStep ==
  ASSUME IInv, Heartbeat
  PROVE  IInv'
<1> USE DEF Heartbeat, Probe, Stall,
        socketVars, pageVars, modalVars
<1> USE DEF IInv, ShownTypeOK, Phases, Opens
<1>1. ShownTypeOK'
  BY DEF tabVars
<1>2. OneIsServed'
  BY DEF OneIsServed, Alive, Attempted
<1>3. WaitingIsForAnAttempt'
  BY DEF WaitingIsForAnAttempt, Alive
<1>4. StatusIsTrue'
  BY DEF StatusIsTrue, OneIsServed, Alive, Attempted
<1>5. WizardIsUp'
  BY DEF WizardIsUp, Up, OneIsServed, Alive
<1>6. SessionsAreUp' /\ TabsAreShown'
  <2>1. \A t \in Opens : Up(t) => Up(t)'
    BY DEF Up, OneIsServed, Alive
  <2> QED
    BY <2>1, TabsStay
<1> QED
  BY <1>1, <1>2, <1>3, <1>4, <1>5, <1>6

\* Leaving gives up every attempt and clears the handler.
LEMMA LeaveStep ==
  ASSUME IInv, Leave
  PROVE  IInv'
<1> USE DEF Leave, CloseSocket, CancelOpens,
        socketVars, pageVars, modalVars
<1> USE DEF IInv, ShownTypeOK, Phases, Opens
<1>1. ShownTypeOK'
  BY DEF tabVars
<1>2. OneIsServed'
  BY DEF OneIsServed, Alive, Attempted
<1>3. WaitingIsForAnAttempt'
  BY DEF WaitingIsForAnAttempt, Alive
<1>4. StatusIsTrue'
  BY DEF StatusIsTrue, OneIsServed, Alive, Attempted
<1>5. WizardIsUp'
  BY DEF WizardIsUp, Up, OneIsServed, Alive
<1>6. SessionsAreUp' /\ TabsAreShown'
  <2>1. \A t \in Opens : Up(t) => Up(t)'
    BY DEF Up, OneIsServed, Alive
  <2> QED
    BY <2>1, TabsStay
<1> QED
  BY <1>1, <1>2, <1>3, <1>4, <1>5, <1>6

\* The modal goes without the connection.
LEMMA CancelConnectionStep ==
  ASSUME IInv, CancelConnection
  PROVE  IInv'
<1> USE DEF CancelConnection,
        socketVars, pageVars, modalVars
<1> USE DEF IInv, ShownTypeOK, Phases, Opens
<1>1. ShownTypeOK'
  BY DEF tabVars
<1>2. OneIsServed'
  BY DEF OneIsServed, Alive, Attempted
<1>3. WaitingIsForAnAttempt'
  BY DEF WaitingIsForAnAttempt, Alive
<1>4. StatusIsTrue'
  BY DEF StatusIsTrue, OneIsServed, Alive, Attempted
<1>5. WizardIsUp'
  BY DEF WizardIsUp, Up, OneIsServed, Alive
<1>6. SessionsAreUp' /\ TabsAreShown'
  <2>1. \A t \in Opens : Up(t) => Up(t)'
    BY DEF Up, OneIsServed, Alive
  <2> QED
    BY <2>1, TabsStay
<1> QED
  BY <1>1, <1>2, <1>3, <1>4, <1>5, <1>6

\* A handler that was cleared is gone from the tabs; if it was still the socket's, the
\* modal goes too.
LEMMA DisconnectedStep ==
  ASSUME IInv, NEW s \in Opens, Disconnected(s)
  PROVE  IInv'
<1> USE DEF Disconnected, ClearEnds, IsActive, ShowDisconnected, pageVars
<1> USE DEF IInv, Phases
<1>1. /\ tabs' \in Seq(Tab) /\ Len(tabs') = Len(tabs) /\ DOMAIN tabs' = DOMAIN tabs
      /\ \A i \in DOMAIN tabs :
           /\ tabs'[i].on = IF tabs[i].on = s THEN NoOpen ELSE tabs[i].on
           /\ tabs'[i].id = tabs[i].id /\ tabs'[i].closing = tabs[i].closing
  <2> DEFINE new(i) == [tabs[i] EXCEPT !.on = IF @ = s THEN NoOpen ELSE @]
  <2>1. tabs' = [i \in 1 .. Len(tabs) |-> new(i)] /\ Len(tabs) \in Nat
    BY LenProperties DEF EndSessions, ShownTypeOK
  <2>2. \A i \in 1 .. Len(tabs) :
          /\ new(i) \in Tab /\ new(i).on = IF tabs[i].on = s THEN NoOpen ELSE tabs[i].on
          /\ new(i).id = tabs[i].id /\ new(i).closing = tabs[i].closing
    BY TabsAreTabs, LenProperties DEF ShownTypeOK, Tab
  <2> HIDE DEF new
  <2>3. tabs' \in [1 .. Len(tabs) -> Tab]
    BY <2>1, <2>2
  <2>4. tabs' \in Seq(Tab)
    BY <2>1, <2>3, SeqDef
  <2>5. Len(tabs') = Len(tabs)
    BY <2>1, <2>3, <2>4, LenProperties
  <2> QED
    BY <2>1, <2>2, <2>4, <2>5, LenProperties DEF ShownTypeOK
<1>2. ShownTypeOK'
  BY <1>1 DEF ShownTypeOK
<1>3. OneIsServed'
  BY DEF ShownTypeOK, OneIsServed, Alive, Attempted, Opens
<1>4. WaitingIsForAnAttempt'
  BY DEF ShownTypeOK, WaitingIsForAnAttempt
<1>5. StatusIsTrue'
  BY DEF ShownTypeOK, StatusIsTrue, Alive, Attempted, Opens
<1>6. WizardIsUp'
  BY DEF ShownTypeOK, WizardIsUp, Up
<1>7. SessionsAreUp'
  <2> SUFFICES ASSUME NEW i \in DOMAIN tabs, tabs[i].on # NoOpen, tabs[i].on # s
               PROVE  phase'[tabs[i].on] \in {"serving", "clearing"}
    BY <1>1 DEF SessionsAreUp, Up
  <2>1. tabs[i].on \in Opens \ {s} /\ Up(tabs[i].on)
    BY TabsAreTabs DEF SessionsAreUp
  <2> QED
    BY <2>1 DEF Up, ShownTypeOK
<1>8. TabsAreShown'
  <2>1. tabs' = <<>> <=> tabs = <<>>
    BY <1>1, EmptySeq DEF ShownTypeOK
  <2> QED
    BY <1>1, <2>1 DEF TabsAreShown, ClosesAreAimed
<1> QED
  BY <1>2, <1>3, <1>4, <1>5, <1>6, <1>7, <1>8

---------------------------------------------------------------------------
(* Who asks for the connection                                             *)

\* Whoever comes joins the attempt that is under way, or starts one; a run only when
\* none holds the button.
LEMMA DialStep ==
  ASSUME IInv, NEW callers \in SUBSET Callers, Dial(callers), ~Alive,
         "connect" \in callers => ~acquired,
         acquired' = (acquired \/ "connect" \in callers),
         UNCHANGED <<unmounted, wizardOn, tabVars>>
  PROVE  IInv'
<1> USE DEF IInv, ShownTypeOK, Phases, Opens
<1>1. ShownTypeOK'
  BY DEF Dial, JoinOpen, Open, tabVars
<1>2. CASE JoinOpen(callers) /\ UNCHANGED status
  <2> USE <1>2 DEF JoinOpen
  <2>1. OneIsServed' /\ StatusIsTrue' /\ WizardIsUp' /\ \A s \in Opens : Up(s) => Up(s)'
    BY DEF OneIsServed, StatusIsTrue, WizardIsUp, Up, Alive, Attempted
  <2>2. WaitingIsForAnAttempt'
    BY DEF WaitingIsForAnAttempt
  <2>3. SessionsAreUp' /\ TabsAreShown'
    BY <2>1, TabsStay
  <2> QED
    BY <1>1, <2>1, <2>2, <2>3
<1>3. CASE Open(callers) /\ status' = "connecting"
  <2>1. PICK s \in Opens :
          /\ phase[s] = "none" /\ handler # s
          /\ openSerial' = s /\ promise' = s
          /\ phase' = [phase EXCEPT ![s] = "dialing"]
          /\ waiting' = [waiting EXCEPT ![s] = callers]
    BY <1>3 DEF Open
  <2> USE <1>3, <2>1 DEF Open
  <2>2. OneIsServed'
    BY DEF OneIsServed, Alive, Attempted
  <2>3. WaitingIsForAnAttempt'
    BY DEF WaitingIsForAnAttempt
  <2>4. StatusIsTrue'
    BY DEF StatusIsTrue, Alive, Attempted
  <2>5. WizardIsUp' /\ \A t \in Opens : Up(t) => Up(t)'
    BY DEF WizardIsUp, Up
  <2>6. SessionsAreUp' /\ TabsAreShown'
    BY <2>5, TabsStay
  <2> QED
    BY <1>1, <2>2, <2>3, <2>4, <2>5, <2>6
<1> QED
  BY <1>2, <1>3 DEF Dial

\* A step that the invariant does not see.
LEMMA Stutter ==
  ASSUME IInv, UNCHANGED <<socketVars, status, unmounted, acquired, wizardOn, tabVars>>
  PROVE  IInv'
  BY DEF IInv, ShownTypeOK, OneIsServed, WaitingIsForAnAttempt, StatusIsTrue, WizardIsUp,
         SessionsAreUp, TabsAreShown, ClosesAreAimed, Up, Alive, Attempted, socketVars,
         tabVars

\* The monitor dials only while it is not connected, and holds no button.
LEMMA MonitorStep ==
  ASSUME IInv, Retry \/ OnOnline
  PROVE  IInv'
<1>1. /\ StartConnectionMonitor /\ acquired \in BOOLEAN
      /\ UNCHANGED <<unmounted, acquired, wizardOn, tabVars>>
  BY DEF Retry, OnOnline, modalVars, IInv, ShownTypeOK
<1>2. CASE Alive
  BY <1>1, <1>2, Stutter DEF StartConnectionMonitor, tabVars
<1>3. CASE ~Alive
  <2>1. Dial({"monitor"}) /\ {"monitor"} \in SUBSET Callers /\ "connect" \notin {"monitor"}
    BY <1>1, <1>3 DEF StartConnectionMonitor, Callers
  <2> QED
    BY <1>1, <1>3, <2>1, DialStep
<1> QED
  BY <1>2, <1>3

\* A run on a connection that is there has its wizard on it; another one dials.
LEMMA RunConnectStep ==
  ASSUME IInv, RunConnect
  PROVE  IInv'
<1>1. CASE Alive
  <2> USE <1>1 DEF RunConnect, RunOn
  <2>1. UNCHANGED <<socketVars, status, unmounted, acquired, tabVars>>
    OBVIOUS
  <2>2. wizardOn' = wizardOn \/ (wizardOn' = handler /\ handler \in Opens)
    BY DEF IInv, ShownTypeOK, Alive
  <2>3. CASE wizardOn' = wizardOn
    BY <2>1, <2>3, Stutter DEF socketVars, tabVars
  <2>4. CASE wizardOn' = handler /\ handler \in Opens
    BY <2>1, <2>4, TabsStay
       DEF IInv, ShownTypeOK, OneIsServed, WaitingIsForAnAttempt, StatusIsTrue, WizardIsUp,
           Up, Alive, Attempted, socketVars, tabVars
  <2> QED
    BY <2>2, <2>3, <2>4
<1>2. CASE ~Alive
  <2>1. /\ Dial({"connect"}) /\ {"connect"} \in SUBSET Callers
        /\ ~acquired /\ acquired' = (acquired \/ "connect" \in {"connect"})
        /\ UNCHANGED <<unmounted, wizardOn, tabVars>>
    BY <1>2 DEF RunConnect, Callers
  <2> QED
    BY <1>2, <2>1, DialStep
<1> QED
  BY <1>1, <1>2

---------------------------------------------------------------------------
(* The tabs                                                                *)

\* There is an identity for a new tab.
LEMMA FreshIsAnId == MayOpenTab => FreshId \in TabIds
  BY DEF MayOpenTab, FreshId

\* A new tab is on the connection of its wizard, which is up.
LEMMA ConnectionSucceedStep ==
  ASSUME IInv, ConnectionSucceed
  PROVE  IInv'
<1> DEFINE tab == [id |-> FreshId, on |-> wizardOn, closing |-> FALSE]
<1> USE DEF ConnectionSucceed, pageVars, socketVars, IInv
<1>1. tab \in Tab /\ tab.on = wizardOn
  BY FreshIsAnId DEF Tab, ShownTypeOK
<1> HIDE DEF tab
<1>2. /\ tabs' = Append(tabs, tab) /\ tabs' \in Seq(Tab) /\ Len(tabs) \in Nat
      /\ Len(tabs') = Len(tabs) + 1 /\ DOMAIN tabs' = 1 .. Len(tabs')
      /\ DOMAIN tabs = 1 .. Len(tabs)
      /\ \A i \in DOMAIN tabs' : tabs'[i] = IF i = Len(tabs) + 1 THEN tab ELSE tabs[i]
  <2>1. tabs' = Append(tabs, tab)
    BY DEF tab
  <2>2. tabs \in Seq(Tab) /\ Len(tabs) \in Nat /\ DOMAIN tabs = 1 .. Len(tabs)
    BY LenProperties DEF ShownTypeOK
  <2>3. /\ tabs' \in Seq(Tab) /\ Len(tabs') = Len(tabs) + 1
        /\ \A i \in 1 .. Len(tabs) : tabs'[i] = tabs[i]
        /\ tabs'[Len(tabs) + 1] = tab
    BY <1>1, <2>1, <2>2, AppendProperties
  <2>4. DOMAIN tabs' = 1 .. Len(tabs')
    BY <2>3, LenProperties
  <2>5. \A i \in 1 .. Len(tabs) + 1 : tabs'[i] = IF i = Len(tabs) + 1 THEN tab ELSE tabs[i]
    BY ONLY <2>2, <2>3
  <2> QED
    BY ONLY <2>1, <2>2, <2>3, <2>4, <2>5
<1>3. ShownTypeOK'
  BY <1>2 DEF ShownTypeOK, TabUpdated
<1>4. OneIsServed' /\ WaitingIsForAnAttempt' /\ StatusIsTrue' /\ WizardIsUp'
  BY DEF OneIsServed, WaitingIsForAnAttempt, StatusIsTrue, WizardIsUp, Alive, Attempted
<1>5. SessionsAreUp'
  BY <1>1, <1>2 DEF SessionsAreUp, WizardIsUp, Up
<1>6. TabsAreShown'
  <2>1. title' = [tabs |-> Len(tabs'), star |-> tabUpdateIndicator']
    <3>1. tabUpdateIndicator' = TRUE
          /\ title' = [tabs |-> Len(tabs'), star |-> Len(tabs') > 0 /\ TRUE]
      BY DEF TabUpdated, UpdateTabTitleInfo
    <3>2. (Len(tabs') > 0 /\ TRUE) = TRUE
      BY <1>2
    <3> QED
      BY <3>1, <3>2
  <2>2. tabs' # <<>>
    BY <1>2, EmptySeq
  <2>3. overtaken = {} => current' \in DOMAIN tabs'
    <3>1. current' = IF current <= Len(tabs') THEN Len(tabs') ELSE current
      BY DEF tab
    <3>2. overtaken = {} => current \in 0 .. Len(tabs)
      BY <1>2 DEF TabsAreShown
    <3> QED
      BY <1>2, <3>1, <3>2
  <2>4. overtaken = {} => ClosesAreAimed'
    BY <1>2 DEF TabsAreShown, ClosesAreAimed
  <2> QED
    BY <2>1, <2>2, <2>3, <2>4 DEF TabsAreShown
<1> QED
  BY <1>3, <1>4, <1>5, <1>6

\* The tab in front is one of the tabs.
LEMMA SwitchTabStep ==
  ASSUME IInv, NEW i \in DOMAIN tabs, SwitchTab(i)
  PROVE  IInv'
<1> USE DEF SwitchTab
<1>1. tabs # <<>>
  BY EmptySeq, LenProperties DEF IInv, ShownTypeOK
<1>2. TabsAreShown'
  BY <1>1 DEF IInv, TabsAreShown, ClosesAreAimed, pageVars
<1>3. SessionsAreUp' /\ ShownTypeOK'
  BY SocketStays, TabsAreTabs DEF IInv, SessionsAreUp, ShownTypeOK
<1> QED
  BY <1>2, <1>3, SocketStays DEF IInv

\* A star is shown with at least one tab.
LEMMA OutputStep ==
  ASSUME IInv, NEW i \in DOMAIN tabs, Output(i)
  PROVE  IInv'
<1> USE DEF Output, TabUpdated, UpdateTabTitleInfo
<1>1. Len(tabs) > 0
  BY LenProperties DEF IInv, ShownTypeOK
<1>2. TabsAreShown'
  BY <1>1 DEF IInv, TabsAreShown, ClosesAreAimed
<1>3. SessionsAreUp' /\ ShownTypeOK'
  BY SocketStays, TabsAreTabs DEF IInv, SessionsAreUp, ShownTypeOK
<1> QED
  BY <1>2, <1>3, SocketStays DEF IInv

\* A change of one tab.
LEMMA OneTabChanges ==
  ASSUME ShownTypeOK, NEW i \in DOMAIN tabs, NEW tab \in Tab,
         tabs' = [tabs EXCEPT ![i] = tab]
  PROVE  /\ tabs' \in Seq(Tab) /\ Len(tabs') = Len(tabs) /\ DOMAIN tabs' = DOMAIN tabs
         /\ \A j \in DOMAIN tabs : tabs'[j] = IF j = i THEN tab ELSE tabs[j]
         /\ tabs # <<>> /\ tabs' # <<>>
<1>1. tabs \in Seq(Tab) /\ DOMAIN tabs = 1 .. Len(tabs) /\ Len(tabs) \in Nat
  BY LenProperties DEF ShownTypeOK
<1>2. tabs' \in Seq(Tab) /\ Len(tabs') = Len(tabs)
      /\ \A j \in DOMAIN tabs : tabs'[j] = IF j = i THEN tab ELSE tabs[j]
  BY <1>1, ExceptSeq
<1>3. DOMAIN tabs' = DOMAIN tabs
  BY <1>1, <1>2, LenProperties
<1>4. tabs # <<>> /\ tabs' # <<>>
  BY <1>1, <1>2, EmptySeq
<1> QED
  BY <1>2, <1>3, <1>4

\* A session that has ended is on no connection.
LEMMA SessionEndsStep ==
  ASSUME IInv, NEW i \in DOMAIN tabs, SessionEnds(i)
  PROVE  IInv'
<1> DEFINE tab == [tabs[i] EXCEPT !.on = NoOpen]
<1> USE DEF SessionEnds
<1>1. /\ tab \in Tab /\ tab.on = NoOpen /\ tabs' = [tabs EXCEPT ![i] = tab]
      /\ tab.id = tabs[i].id /\ tab.closing = tabs[i].closing
  BY TabsAreTabs DEF IInv, Tab
<1> HIDE DEF tab
<1>2. /\ tabs' \in Seq(Tab) /\ Len(tabs') = Len(tabs) /\ DOMAIN tabs' = DOMAIN tabs
      /\ \A j \in DOMAIN tabs : tabs'[j] = IF j = i THEN tab ELSE tabs[j]
      /\ tabs # <<>> /\ tabs' # <<>>
  BY <1>1, OneTabChanges DEF IInv
<1>3. TabsAreShown'
  BY <1>1, <1>2 DEF IInv, TabsAreShown, ClosesAreAimed, pageVars
<1>4. ShownTypeOK'
  BY <1>2, SocketStays DEF IInv, ShownTypeOK
<1>5. SessionsAreUp'
  BY <1>1, <1>2, TabsAreTabs, SocketStays DEF IInv, SessionsAreUp
<1> QED
  BY <1>3, <1>4, <1>5, SocketStays DEF IInv

\* At the time of the click, the index is that of the tab.
LEMMA CloseTabStep ==
  ASSUME IInv, NEW i \in DOMAIN tabs, CloseTab(i)
  PROVE  IInv'
<1> DEFINE tab == [tabs[i] EXCEPT !.closing = TRUE]
<1> USE DEF CloseTab
<1>1. /\ tab \in Tab /\ tab.on = tabs[i].on /\ tabs' = [tabs EXCEPT ![i] = tab]
      /\ tab.id = tabs[i].id /\ tab.closing
  BY TabsAreTabs DEF IInv, Tab
<1> HIDE DEF tab
<1>2. /\ tabs' \in Seq(Tab) /\ Len(tabs') = Len(tabs) /\ DOMAIN tabs' = DOMAIN tabs
      /\ \A j \in DOMAIN tabs : tabs'[j] = IF j = i THEN tab ELSE tabs[j]
      /\ tabs # <<>> /\ tabs' # <<>>
  BY <1>1, OneTabChanges DEF IInv
<1>3. closes' = closes \cup {<<tabs[i].id, i>>}
      /\ tabs[i].id \in TabIds /\ i \in Nat \ {0} /\ i \in DOMAIN tabs'
  BY <1>2, TabsAreTabs, LenProperties DEF IInv, ShownTypeOK
<1>4. overtaken = {} => ClosesAreAimed'
  <2> SUFFICES ASSUME overtaken = {}, NEW c \in closes'
               PROVE  /\ c[2] \in DOMAIN tabs'
                      /\ tabs'[c[2]].id = c[1] /\ tabs'[c[2]].closing
    BY DEF ClosesAreAimed
  <2>1. CASE c \in closes
    BY <1>1, <1>2, <2>1 DEF IInv, TabsAreShown, ClosesAreAimed
  <2>2. CASE c = <<tabs[i].id, i>>
    BY <1>1, <1>2, <2>2
  <2> QED
    BY <1>3, <2>1, <2>2
<1>5. TabsAreShown'
  BY <1>2, <1>3, <1>4 DEF IInv, TabsAreShown, pageVars
<1>6. ShownTypeOK'
  BY <1>2, SocketStays DEF IInv, ShownTypeOK
<1>7. SessionsAreUp'
  BY <1>1, <1>2, TabsAreTabs, SocketStays DEF IInv, SessionsAreUp
<1> QED
  BY <1>5, <1>6, <1>7, SocketStays DEF IInv

\* What RemoveAt leaves of a sequence.
LEMMA RemoveAtProperties ==
  ASSUME NEW S, NEW seq \in Seq(S), NEW i \in 1 .. Len(seq)
  PROVE  /\ RemoveAt(seq, i) \in Seq(S)
         /\ Len(RemoveAt(seq, i)) = Len(seq) - 1
         /\ \A j \in 1 .. Len(seq) - 1 : RemoveAt(seq, i)[j] \in {seq[k] : k \in 1 .. Len(seq)}
         /\ \A j \in 1 .. i - 1 : RemoveAt(seq, i)[j] = seq[j]
<1> DEFINE front == SubSeq(seq, 1, i - 1)
           back == SubSeq(seq, i + 1, Len(seq))
<1>1. Len(seq) \in Nat /\ i \in Nat /\ \A k \in 1 .. Len(seq) : seq[k] \in S
  BY LenProperties
<1>2. /\ front \in Seq(S) /\ Len(front) = i - 1
      /\ \A k \in 1 .. i - 1 : front[k] = seq[k]
  <2>1. \A k \in 1 .. i - 1 : seq[k] \in S
    BY <1>1
  <2>2. 1 \in Int /\ i - 1 \in Int
    BY <1>1
  <2> QED
    BY <1>1, <2>1, <2>2, SubSeqProperties
<1>3. /\ back \in Seq(S) /\ Len(back) = Len(seq) - i
      /\ \A k \in 1 .. Len(seq) - i : back[k] = seq[i + k]
  <2>1. \A k \in i + 1 .. Len(seq) : seq[k] \in S
    BY <1>1
  <2>2. i + 1 \in Int /\ Len(seq) \in Int
    BY <1>1
  <2> QED
    BY <1>1, <2>1, <2>2, SubSeqProperties
<1> HIDE DEF front, back
<1>4. /\ front \o back \in Seq(S) /\ Len(front \o back) = Len(seq) - 1
      /\ \A j \in 1 .. Len(seq) - 1 :
           (front \o back)[j] = IF j <= i - 1 THEN front[j] ELSE back[j - (i - 1)]
  BY <1>1, <1>2, <1>3, ConcatProperties
<1>5. \A j \in 1 .. Len(seq) - 1 : (front \o back)[j] \in {seq[k] : k \in 1 .. Len(seq)}
  <2> SUFFICES ASSUME NEW j \in 1 .. Len(seq) - 1
               PROVE  \E k \in 1 .. Len(seq) : (front \o back)[j] = seq[k]
    OBVIOUS
  <2>1. CASE j <= i - 1
    BY <1>1, <1>2, <1>4, <2>1
  <2>2. CASE j > i - 1
    <3> DEFINE k == j - (i - 1)
    <3>1. k \in 1 .. Len(seq) - i /\ i + k \in 1 .. Len(seq)
      BY <1>1, <2>2
    <3>2. (front \o back)[j] = back[k]
      BY <1>1, <1>4, <2>2
    <3> HIDE DEF k
    <3> QED
      BY <1>3, <3>1, <3>2
  <2>3. j <= i - 1 \/ j > i - 1
    BY <1>1
  <2> QED
    BY <2>1, <2>2, <2>3
<1>6. RemoveAt(seq, i) = front \o back
  BY DEF RemoveAt, front, back
<1>7. \A j \in 1 .. i - 1 : (front \o back)[j] = seq[j]
  BY <1>1, <1>2, <1>4
<1> QED
  BY <1>4, <1>5, <1>6, <1>7

\* The tab that goes leaves the others in their order, and one of them in front; those
\* before it keep their index, and those behind it are overtaken if they are closing.
\* A close that is aimed past the end was overtaken before.
LEMMA TabClosesStep ==
  ASSUME IInv, NEW c \in closes, TabCloses(c)
  PROVE  IInv'
<1> DEFINE i == c[2]
<1>1. /\ tabs \in Seq(Tab) /\ Len(tabs) \in Nat /\ DOMAIN tabs = 1 .. Len(tabs)
      /\ i \in Nat \ {0}
  BY LenProperties DEF IInv, ShownTypeOK, TabsAreShown
<1>2. /\ tabs' = Splice(i) /\ closes' = closes \ {c}
      /\ overtaken' = overtaken \cup Behind(i)
      /\ current' = IF i = Len(tabs) THEN Len(tabs') ELSE i
      /\ \/ unmounted /\ UNCHANGED <<title, tabUpdateIndicator>>
         \/ ~unmounted /\ TabClosed(tabs')
      /\ UNCHANGED <<socketVars, pageVars, modalVars>>
  BY DEF TabCloses
<1> HIDE DEF i
<1>3. /\ tabs' \in Seq(Tab) /\ Len(tabs') \in Nat /\ DOMAIN tabs' = 1 .. Len(tabs')
      /\ \A j \in DOMAIN tabs' : \E k \in DOMAIN tabs : tabs'[j] = tabs[k]
      /\ i <= Len(tabs) => /\ Len(tabs') = Len(tabs) - 1
                           /\ \A j \in 1 .. i - 1 : tabs'[j] = tabs[j]
  <2>1. CASE i > Len(tabs)
    <3>1. tabs' = tabs
      BY <1>2, <2>1 DEF Splice
    <3>2. ~(i <= Len(tabs))
      BY <1>1, <2>1
    <3> QED
      BY <1>1, <3>1, <3>2
  <2>2. CASE i <= Len(tabs)
    <3>1. tabs' = RemoveAt(tabs, i) /\ i \in 1 .. Len(tabs)
      <4>1. ~(i > Len(tabs)) /\ i \in 1 .. Len(tabs)
        BY <1>1, <2>2
      <4> QED
        BY <1>2, <4>1 DEF Splice
    <3>2. /\ tabs' \in Seq(Tab) /\ Len(tabs') = Len(tabs) - 1
          /\ \A j \in 1 .. Len(tabs) - 1 : tabs'[j] \in {tabs[k] : k \in 1 .. Len(tabs)}
          /\ \A j \in 1 .. i - 1 : tabs'[j] = tabs[j]
      BY <1>1, <3>1, RemoveAtProperties
    <3>3. Len(tabs') \in Nat /\ DOMAIN tabs' = 1 .. Len(tabs')
      BY <3>2, LenProperties
    <3> QED
      BY <1>1, <3>2, <3>3
  <2>3. i > Len(tabs) \/ i <= Len(tabs)
    BY <1>1
  <2> QED
    BY <2>1, <2>2, <2>3
<1>4. ShownTypeOK'
  <2>1. tabUpdateIndicator' \in BOOLEAN
    BY <1>2 DEF IInv, ShownTypeOK, TabClosed
  <2> QED
    BY <1>2, <1>3, <2>1, SocketStays DEF IInv, ShownTypeOK
<1>5. SessionsAreUp'
  BY <1>2, <1>3, TabsAreTabs, SocketStays DEF IInv, SessionsAreUp
<1>6. ~unmounted' => title' = [tabs |-> Len(tabs'), star |-> tabUpdateIndicator']
  <2>1. tabs' = <<>> <=> Len(tabs') = 0
    BY <1>3, EmptySeq
  <2> QED
    BY <1>2, <1>3, <2>1 DEF TabClosed, UpdateTabTitleInfo, pageVars, IInv, ShownTypeOK
<1>7. ASSUME overtaken' = {}
      PROVE  /\ IF tabs' = <<>> THEN current' = 0 ELSE current' \in DOMAIN tabs'
             /\ ClosesAreAimed'
  <2>1. overtaken = {} /\ Behind(i) = {}
    BY <1>2, <1>7
  <2>2. /\ i \in 1 .. Len(tabs) /\ ClosesAreAimed
        /\ tabs[i].id = c[1]
    BY <1>1, <2>1 DEF IInv, TabsAreShown, ClosesAreAimed, i
  <2>3. IF tabs' = <<>> THEN current' = 0 ELSE current' \in DOMAIN tabs'
    <3>1. tabs' = <<>> <=> Len(tabs') = 0
      BY <1>3, EmptySeq
    <3> QED
      BY <1>1, <1>2, <1>3, <2>2, <3>1
  <2>4. ASSUME NEW d \in closes'
        PROVE  d[2] \in DOMAIN tabs' /\ tabs'[d[2]].id = d[1] /\ tabs'[d[2]].closing
    <3>1. /\ d \in closes /\ d # c /\ d[2] \in 1 .. Len(tabs)
          /\ tabs[d[2]].id = d[1] /\ tabs[d[2]].closing
      BY <1>1, <1>2, <2>2 DEF ClosesAreAimed
    <3>2. d[2] # i
      <4>1. c = <<c[1], c[2]>> /\ d = <<d[1], d[2]>>
        BY <3>1 DEF IInv, TabsAreShown
      <4> QED
        BY <2>2, <3>1, <4>1 DEF i
    <3>3. ~(d[2] > i)
      BY <1>1, <2>1, <3>1 DEF Behind
    <3>4. d[2] \in 1 .. i - 1
      BY <1>1, <3>1, <3>2, <3>3
    <3> QED
      BY <1>1, <1>3, <2>2, <3>1, <3>4
  <2> QED
    BY <2>3, <2>4 DEF ClosesAreAimed
<1>8. TabsAreShown'
  <2>1. closes' \subseteq TabIds \X (Nat \ {0})
    BY <1>2 DEF IInv, TabsAreShown
  <2> QED
    BY <1>2, <1>6, <1>7, <2>1 DEF TabsAreShown, pageVars
<1> QED
  BY <1>2, <1>4, <1>5, <1>8, SocketStays DEF IInv

\* The star goes with its timer.
LEMMA StarEndsStep ==
  ASSUME IInv, StarEnds
  PROVE  IInv'
<1> USE DEF StarEnds, UpdateTabTitleInfo
<1>1. TabsAreShown'
  BY DEF IInv, TabsAreShown, ClosesAreAimed, pageVars
<1>2. SessionsAreUp' /\ ShownTypeOK'
  BY SocketStays, TabsAreTabs DEF IInv, SessionsAreUp, ShownTypeOK
<1> QED
  BY <1>1, <1>2, SocketStays DEF IInv

---------------------------------------------------------------------------
(* The theorem                                                             *)

\* At first there are no tabs, and the one attempt is waited for.
LEMMA InitHolds == Init => IInv
<1> SUFFICES ASSUME Init
             PROVE  IInv
  OBVIOUS
<1> USE DEF Init, Opens
<1>1. ShownTypeOK
  <2>1. tabs \in Seq(Tab)
    BY EmptySeq
  <2>2. waiting \in [Opens -> SUBSET Callers]
    BY DEF Callers
  <2>3. openSerial \in Opens /\ promise \in Opens /\ phase \in [Opens -> Phases]
    BY DEF Phases
  <2>4. acquired \in BOOLEAN /\ tabUpdateIndicator \in BOOLEAN
    OBVIOUS
  <2> QED
    BY <2>1, <2>2, <2>3, <2>4 DEF ShownTypeOK
<1>2. OneIsServed /\ StatusIsTrue /\ WizardIsUp
  BY DEF OneIsServed, StatusIsTrue, WizardIsUp, Alive, Attempted
<1>3. WaitingIsForAnAttempt
  BY DEF WaitingIsForAnAttempt, Callers
<1>4. SessionsAreUp
  BY EmptySeq DEF SessionsAreUp
<1>5. TabsAreShown
  BY EmptySeq DEF TabsAreShown, ClosesAreAimed
<1> QED
  BY <1>1, <1>2, <1>3, <1>4, <1>5 DEF IInv

\* Each action by its lemma.
LEMMA StepHolds ==
  ASSUME IInv, [Next]_vars
  PROVE  IInv'
<1>1. CASE UNCHANGED vars
  BY <1>1, Stutter DEF vars, pageVars, modalVars
<1>2. CASE \E s \in Opens : \/ Connect(s) \/ ConnectFails(s) \/ ConnectIsCancelled(s)
                            \/ CancelledConnectEnds(s) \/ Disconnected(s)
  BY <1>2, ConnectStep, ConnectFailsStep, ConnectIsCancelledStep, CancelledConnectEndsStep,
     DisconnectedStep
<1>3. CASE Disconnect \/ Echo \/ EchoFails \/ Heartbeat \/ Leave \/ CancelConnection
  BY <1>3, DisconnectStep, EchoStep, EchoFailsStep, HeartbeatStep, LeaveStep,
     CancelConnectionStep
<1>4. CASE Retry \/ OnOnline \/ RunConnect
  BY <1>4, MonitorStep, RunConnectStep
<1>5. CASE \E i \in DOMAIN tabs : SwitchTab(i) \/ Output(i) \/ SessionEnds(i) \/ CloseTab(i)
  BY <1>5, SwitchTabStep, OutputStep, SessionEndsStep, CloseTabStep
<1>6. CASE ConnectionSucceed \/ StarEnds \/ \E c \in closes : TabCloses(c)
  BY <1>6, ConnectionSucceedStep, StarEndsStep, TabClosesStep
<1> QED
  BY <1>1, <1>2, <1>3, <1>4, <1>5, <1>6 DEF Next

\* What the page shows is what is, for any number of attempts, connections,
\* tabs and closes (socket.js, home_socketctl.js, home.vue).
THEOREM PageIsTrue == Spec => []PageTellsTruth
<1>1. IInv => PageTellsTruth
  <2> SUFFICES ASSUME IInv
               PROVE  PageTellsTruth
    OBVIOUS
  <2>1. \A i \in DOMAIN tabs : tabs[i].on # NoOpen => phase[tabs[i].on] \in {"serving", "clearing"}
    BY DEF IInv, SessionsAreUp, Up
  <2> QED
    BY <2>1 DEF IInv, PageTellsTruth, OneIsServed, StatusIsTrue, WaitingIsForAnAttempt,
                TabsAreShown
<1> QED
  BY <1>1, InitHolds, StepHolds, PTL DEF Spec
=============================================================================
