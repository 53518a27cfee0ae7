--------------------------- MODULE HandlerProofs ---------------------------
(***************************************************************************)
(* The inductive invariant of the server end, for any number of slots,     *)
(* machines and frames in transit, and whatever is at the other end.       *)
(*                                                                         *)
(* The properties are not inductive by themselves: that a machine is       *)
(* closed once follows from how stream.closed, FSM.closed, FSM.s and FSM.m *)
(* are kept in step while the handler goroutine is in the middle of        *)
(* something.  IInv says how.                                              *)
(***************************************************************************)
EXTENDS OpenHandler, SequenceTheorems, TLAPS

\* A machine that was not booted has no history.
Unborn == \A m \in Sessions : m > machines => /\ remote[m] = "none"
                                              /\ closes[m] = 0
                                              /\ releases[m] = 0

\* A slot's machine writes to that slot, so no two slots have the same.
Housed == \A s \in Slots : fsmMachine[s] # NoSession =>
            /\ fsmMachine[s] \in 1 .. machines
            /\ home[fsmMachine[s]] = s

\* FSM.closed tells whether the slot's machine has been closed, and one that is
\* no longer in its slot has been through everything.
Accounted ==
  \A m \in Sessions : m <= machines =>
    IF fsmMachine[home[m]] = m
      THEN /\ closes[m] = IF fsmClosed[home[m]] THEN 1 ELSE 0
           /\ releases[m] = 0
           /\ remote[m] # "none"
      ELSE /\ closes[m] = 1
           /\ releases[m] = 1
           /\ remote[m] = "ended"

\* The handler goroutine is inside FSM.close or FSM.release of slot s.
InClose(s) == pc = "closing" /\ cur = s
InRelease(s) == pc \in {"closing", "releasing"} /\ cur = s /\ why # "close"

\* How the four fields of a slot go together.
SlotsInStep ==
  \A s \in Slots :
    /\ fsmRunning[s] => fsmMachine[s] # NoSession
    /\ fsmMachine[s] # NoSession /\ ~fsmRunning[s] => InRelease(s)
    /\ fsmRunning[s] => (strClosed[s] <=> fsmClosed[s])
    /\ fsmMachine[s] # NoSession /\ fsmClosed[s] /\ ~InClose(s)
         => remote[fsmMachine[s]] = "ended"

\* What the handler goroutine knows at each of its steps.
HandlerAt ==
  /\ pc \in {"signal", "tick", "closing", "releasing", "reply"} => cur \in Slots
  /\ pc = "signal" => /\ why \in {"ok", "failed"}
                      /\ why = "ok" => fsmRunning[cur]
  /\ pc = "tick" => fsmRunning[cur]
  /\ pc = "closing" => why \in {"close", "completed", "shutdown"}
  /\ pc = "releasing" => why \in {"completed", "shutdown"}
  /\ pc \in {"closing", "releasing"} => fsmMachine[cur] # NoSession /\ fsmClosed[cur]
  /\ pc = "reply" => fsmMachine[cur] = NoSession \/ fsmClosed[cur]

\* shutdown leaves nothing behind.
Swept ==
  /\ pc = "shutdown" \/ why = "shutdown" =>
       \A s \in Slots : s < cur => fsmMachine[s] = NoSession
  /\ pc = "done" => \A s \in Slots : fsmMachine[s] = NoSession

IInv == /\ ServerTypeOK
        /\ Unborn
        /\ Housed
        /\ Accounted
        /\ SlotsInStep
        /\ HandlerAt
        /\ Swept

---------------------------------------------------------------------------
(* The constants: HeaderMaxData and the bounds are natural numbers.        *)

LEMMA SlotsFacts ==
  /\ Slots \subseteq Nat
  /\ Sessions \subseteq Nat
  /\ NoSession \notin Sessions
  /\ 0 \in Slots
BY WireAssumption DEF Slots, Sessions, NoSession

LEMMA InitIInv ==
  ASSUME HandlerInit
  PROVE  IInv
<1> USE SlotsFacts DEF HandlerInit
<1>1. ServerTypeOK
  <2>1. /\ "none" \in RemoteStates
        /\ "none" \in Replies
        /\ "none" \in Purposes
        /\ "read" \in Steps
    BY DEF RemoteStates, Replies, Purposes, Steps
  <2>2. /\ NoSession \in 0 .. MaxSession
        /\ 0 \in 0 .. MaxSlot + 1
        /\ 0 \in 0 .. MaxSession
    BY WireAssumption DEF NoSession
  <2> QED
    BY <2>1, <2>2 DEF ServerTypeOK
<1>2. Unborn
  BY DEF Unborn
<1>3. Housed
  BY DEF Housed
<1>4. Accounted
  BY WireAssumption DEF Accounted, Sessions
<1>5. SlotsInStep
  BY DEF SlotsInStep
<1>6. HandlerAt
  BY DEF HandlerAt
<1>7. Swept
  BY DEF Swept
<1> QED
  BY <1>1, <1>2, <1>3, <1>4, <1>5, <1>6, <1>7 DEF IInv

---------------------------------------------------------------------------
(* Steps that only move the handler goroutine.                             *)

LEMMA MoveKeepsIInv ==
  ASSUME IInv,
         UNCHANGED <<slotVars, machines, home, remote, conn, closes, releases>>,
         reply' \in [Sessions -> Replies], cancelled' \in [Sessions -> BOOLEAN],
         senderPaused' \in BOOLEAN, needWait' \in BOOLEAN,
         pc' \in Steps, cur' \in 0 .. MaxSlot + 1, why' \in Purposes,
         \A s \in Slots : InRelease(s) => InRelease(s)',
         \A s \in Slots : InClose(s) /\ ~InClose(s)' => remote[fsmMachine[s]] = "ended",
         HandlerAt', Swept'
  PROVE  IInv'
<1> USE DEF slotVars
<1>1. ServerTypeOK'
  BY DEF IInv, ServerTypeOK
<1>2. Unborn' /\ Housed' /\ Accounted'
  BY DEF IInv, Unborn, Housed, Accounted
<1>3. SlotsInStep'
  BY DEF IInv, SlotsInStep
<1> QED
  BY <1>1, <1>2, <1>3 DEF IInv

LEMMA StepsFacts ==
  /\ {"read", "signal", "tick", "closing", "releasing", "reply", "shutdown", "done"} = Steps
  /\ {"none", "ok", "failed", "input", "refuse", "close", "completed", "shutdown"} = Purposes
  /\ 0 \in 0 .. MaxSlot + 1
  /\ \A s \in Slots : s \in 0 .. MaxSlot + 1 /\ s + 1 \in 0 .. MaxSlot + 1
BY WireAssumption DEF Steps, Purposes, Slots

LEMMA ControlKeepsIInv ==
  ASSUME IInv,
         HandleEcho \/ HandlePause \/ HandleResume \/ HandleUnknownSignal \/ ReadFails
  PROVE  IInv'
<1>1. /\ UNCHANGED <<slotVars, machineVars>>
      /\ pc = "read"
      /\ \/ UNCHANGED <<pc, cur, why>>
         \/ pc' = "shutdown" /\ cur' = 0 /\ why' = "none"
      /\ senderPaused' \in BOOLEAN
      /\ needWait' \in BOOLEAN
  BY DEF IInv, ServerTypeOK, HandleEcho, HandlePause, HandleResume, HandleUnknownSignal,
         ReadFails, Reads, EndConnection, Goto, handlerVars
<1>2. HandlerAt' /\ Swept'
  BY <1>1, SlotsFacts DEF IInv, HandlerAt, Swept, slotVars
<1> QED
  BY <1>1, <1>2, MoveKeepsIInv, StepsFacts
  DEF IInv, ServerTypeOK, InClose, InRelease, machineVars

\* All that a tick can come to.
LEMMA TickEffects ==
  ASSUME NEW s \in Slots, HandleTick(s)
  PROVE  /\ UNCHANGED <<slotVars, machines, home, remote, conn, cancelled, closes, releases>>
         /\ pc = "read" /\ fsmRunning[s]
         /\ \/ UNCHANGED handlerVars
            \/ EndConnection
            \/ /\ Goto("tick", s, "input") \/ Goto("tick", s, "refuse")
               /\ UNCHANGED <<senderPaused, needWait>>
         /\ \/ reply' = reply
            \/ \E yesno \in {"yes", "no"} : reply' = [reply EXCEPT ![fsmMachine[s]] = yesno]
BY DEF HandleTick, Reads, Answer, MeaningsOfMessage, MessageBodies

LEMMA TickKeepsIInv ==
  ASSUME IInv, NEW s \in Slots, HandleTick(s)
  PROVE  IInv'
<1>1. /\ UNCHANGED <<slotVars, machines, home, remote, conn, cancelled, closes, releases>>
      /\ pc = "read" /\ fsmRunning[s]
      /\ \/ UNCHANGED handlerVars
         \/ EndConnection
         \/ /\ Goto("tick", s, "input") \/ Goto("tick", s, "refuse")
            /\ UNCHANGED <<senderPaused, needWait>>
      /\ \/ reply' = reply
         \/ \E yesno \in {"yes", "no"} : reply' = [reply EXCEPT ![fsmMachine[s]] = yesno]
  BY TickEffects
<1>2. /\ \/ UNCHANGED <<pc, cur, why>>
         \/ pc' = "shutdown" /\ cur' = 0 /\ why' = "none"
         \/ pc' = "tick" /\ cur' = s /\ why' \in {"input", "refuse"}
      /\ senderPaused' \in BOOLEAN
      /\ needWait' \in BOOLEAN
  BY <1>1 DEF IInv, ServerTypeOK, EndConnection, Goto, handlerVars
<1>3. reply' \in [Sessions -> Replies]
  BY <1>1 DEF IInv, ServerTypeOK, Replies
<1>4. HandlerAt' /\ Swept'
  BY <1>1, <1>2, SlotsFacts DEF IInv, HandlerAt, Swept, slotVars
<1> QED
  BY <1>1, <1>2, <1>3, <1>4, MoveKeepsIInv, StepsFacts
  DEF IInv, ServerTypeOK, InClose, InRelease

LEMMA GetRemoteKeepsIInv ==
  ASSUME IInv, TickInput \/ TickRefuse
  PROVE  IInv'
<1>1. /\ UNCHANGED <<slotVars, machines, home, remote, reply, conn, closes, releases>>
      /\ pc = "tick"
      /\ pc' \in {"read", "shutdown"} /\ cur' = 0 /\ why' = "none"
      /\ senderPaused' \in BOOLEAN
      /\ needWait' \in BOOLEAN
  BY DEF IInv, ServerTypeOK, TickInput, TickRefuse, NextFrame, EndConnection, Goto
<1>2. cancelled' \in [Sessions -> BOOLEAN]
  BY DEF IInv, ServerTypeOK, TickInput, TickRefuse
<1>3. HandlerAt' /\ Swept'
  BY <1>1, SlotsFacts DEF IInv, HandlerAt, Swept, slotVars
<1> QED
  BY <1>1, <1>2, <1>3, MoveKeepsIInv, StepsFacts
  DEF IInv, ServerTypeOK, InClose, InRelease

LEMMA AnswerKeepsIInv ==
  ASSUME IInv, SignalAnswer
  PROVE  IInv'
<1>1. /\ UNCHANGED <<slotVars, machineVars>>
      /\ pc = "signal"
      /\ pc' \in {"read", "shutdown"} /\ cur' = 0 /\ why' = "none"
      /\ senderPaused' \in BOOLEAN
      /\ needWait' \in BOOLEAN
  BY DEF IInv, ServerTypeOK, SignalAnswer, NextFrame, RestorePause, EndConnection, Goto
<1>2. HandlerAt' /\ Swept'
  BY <1>1, SlotsFacts DEF IInv, HandlerAt, Swept, slotVars
<1> QED
  BY <1>1, <1>2, MoveKeepsIInv, StepsFacts
  DEF IInv, ServerTypeOK, InClose, InRelease, machineVars

LEMMA ReplyKeepsIInv ==
  ASSUME IInv, Reply
  PROVE  IInv'
<1>1. /\ UNCHANGED <<slotVars, machineVars>>
      /\ pc = "reply"
      /\ pc' \in {"read", "shutdown"} /\ cur' = 0 /\ why' = "none"
      /\ senderPaused' \in BOOLEAN
      /\ needWait' \in BOOLEAN
  BY DEF IInv, ServerTypeOK, Reply, NextFrame, RestorePause, EndConnection, Goto
<1>2. HandlerAt' /\ Swept'
  BY <1>1, SlotsFacts DEF IInv, HandlerAt, Swept, slotVars
<1> QED
  BY <1>1, <1>2, MoveKeepsIInv, StepsFacts
  DEF IInv, ServerTypeOK, InClose, InRelease, machineVars

LEMMA CloseReturnsKeepsIInv ==
  ASSUME IInv, CloseReturns
  PROVE  IInv'
<1>1. /\ UNCHANGED <<slotVars, machineVars>>
      /\ pc = "closing" /\ remote[fsmMachine[cur]] = "ended"
      /\ cur \in Slots /\ fsmMachine[cur] # NoSession /\ fsmClosed[cur]
      /\ \/ why = "close" /\ pc' = "reply" /\ cur' = cur /\ why' = why
         \/ why = "close" /\ pc' = "shutdown" /\ cur' = 0 /\ why' = "none"
         \/ /\ why \in {"completed", "shutdown"}
            /\ pc' = "releasing" /\ cur' = cur /\ why' = why
      /\ senderPaused' \in BOOLEAN
      /\ needWait' \in BOOLEAN
  BY DEF IInv, ServerTypeOK, HandlerAt, CloseReturns, HasEnded, EndConnection, Goto
<1>2. HandlerAt'
  BY <1>1 DEF HandlerAt, slotVars
<1>3. Swept'
  BY <1>1, SlotsFacts DEF IInv, Swept, slotVars
<1>4. \A s \in Slots : /\ InRelease(s) => InRelease(s)'
                       /\ InClose(s) => remote[fsmMachine[s]] = "ended"
  BY <1>1 DEF InRelease, InClose
<1> QED
  BY <1>1, <1>2, <1>3, <1>4, MoveKeepsIInv, StepsFacts
  DEF IInv, ServerTypeOK, machineVars

LEMMA HandleReturnsKeepsIInv ==
  ASSUME IInv, HandleReturns
  PROVE  IInv'
<1>1. /\ UNCHANGED <<slotVars, machineVars, senderPaused, needWait>>
      /\ pc = "shutdown" /\ cur = MaxSlot + 1
      /\ pc' = "done" /\ cur' = 0 /\ why' = "none"
  BY WireAssumption DEF IInv, ServerTypeOK, HandleReturns, Goto, Slots
<1>2. \A s \in Slots : s < cur
  BY <1>1, WireAssumption DEF Slots
<1>3. HandlerAt' /\ Swept'
  BY <1>1, <1>2, SlotsFacts DEF IInv, HandlerAt, Swept, slotVars
<1> QED
  BY <1>1, <1>3, MoveKeepsIInv, StepsFacts
  DEF IInv, ServerTypeOK, InClose, InRelease, machineVars

---------------------------------------------------------------------------
(* A request.                                                              *)

LEMMA BootKeepsIInv ==
  ASSUME IInv, NEW s \in Slots, ~fsmRunning[s], pc = "read",
         Boot(s), Goto("signal", s, "ok"),
         senderPaused' \in BOOLEAN, needWait' \in BOOLEAN
  PROVE  IInv'
<1> DEFINE m == machines + 1
<1>1. /\ m \in Sessions
      /\ m \in 0 .. MaxSession /\ machines \in Nat
      /\ machines' = m
      /\ home' = [home EXCEPT ![m] = s]
      /\ remote' = [remote EXCEPT ![m] = "dialing"]
      /\ fsmMachine' = [fsmMachine EXCEPT ![s] = m]
      /\ fsmRunning' = [fsmRunning EXCEPT ![s] = TRUE]
      /\ fsmClosed' = [fsmClosed EXCEPT ![s] = FALSE]
      /\ strClosed' = [strClosed EXCEPT ![s] = FALSE]
      /\ UNCHANGED <<reply, conn, cancelled, closes, releases>>
  BY DEF Boot, Sessions, IInv, ServerTypeOK
<1>2. pc' = "signal" /\ cur' = s /\ why' = "ok"
  BY DEF Goto
<1>3. fsmMachine[s] = NoSession
  BY DEF IInv, SlotsInStep, InRelease
<1>4. m # NoSession
  BY <1>1 DEF NoSession
<1> HIDE DEF m
<1>5. ServerTypeOK'
  BY <1>1, <1>2, StepsFacts DEF IInv, ServerTypeOK, RemoteStates
<1>6. Unborn'
  <2> SUFFICES ASSUME NEW k \in Sessions, k > machines'
               PROVE  remote'[k] = "none" /\ closes'[k] = 0 /\ releases'[k] = 0
    BY DEF Unborn
  <2>1. k # m /\ k > machines
    BY <1>1, SlotsFacts DEF m
  <2> QED
    BY <1>1, <2>1 DEF IInv, Unborn, ServerTypeOK
<1>7. Housed'
  <2> SUFFICES ASSUME NEW t \in Slots, fsmMachine'[t] # NoSession
               PROVE  fsmMachine'[t] \in 1 .. machines' /\ home'[fsmMachine'[t]] = t
    BY DEF Housed
  <2>1. CASE t = s
    BY <1>1, <2>1 DEF IInv, ServerTypeOK, Sessions
  <2>2. CASE t # s
    <3>1. fsmMachine'[t] = fsmMachine[t]
      BY <1>1, <2>2 DEF IInv, ServerTypeOK
    <3>2. /\ fsmMachine[t] \in 1 .. machines
          /\ home[fsmMachine[t]] = t
      BY <3>1 DEF IInv, Housed
    <3>3. fsmMachine[t] # m /\ fsmMachine[t] \in 1 .. machines'
      BY <1>1, <3>2 DEF m
    <3> QED
      BY <1>1, <3>1, <3>2, <3>3, WireAssumption DEF IInv, ServerTypeOK, Sessions
  <2> QED
    BY <2>1, <2>2
<1>8. Accounted'
  <2> SUFFICES ASSUME NEW k \in Sessions, k <= machines'
               PROVE  (IF fsmMachine[home[k]] = k
                         THEN /\ closes[k] = IF fsmClosed[home[k]] THEN 1 ELSE 0
                              /\ releases[k] = 0
                              /\ remote[k] # "none"
                         ELSE /\ closes[k] = 1
                              /\ releases[k] = 1
                              /\ remote[k] = "ended")'
    BY DEF Accounted
  <2>1. CASE k = m
    <3>1. closes[m] = 0 /\ releases[m] = 0
      BY <1>1 DEF IInv, Unborn, m
    <3>2. home'[m] = s /\ fsmMachine'[s] = m /\ ~fsmClosed'[s] /\ remote'[m] = "dialing"
      BY <1>1 DEF IInv, ServerTypeOK
    <3> QED
      BY <1>1, <2>1, <3>1, <3>2
  <2>2. CASE k # m
    <3>1. /\ k <= machines
          /\ home'[k] = home[k] /\ home[k] \in Slots
          /\ remote'[k] = remote[k]
      BY <1>1, <2>2, SlotsFacts DEF m, IInv, ServerTypeOK
    <3>2. k # NoSession
      BY SlotsFacts
    <3>3. CASE home[k] = s
      <4>1. fsmMachine'[s] = m
        BY <1>1 DEF IInv, ServerTypeOK
      <4> QED
        BY <1>1, <1>3, <2>2, <3>1, <3>2, <3>3, <4>1 DEF IInv, Accounted
    <3>4. CASE home[k] # s
      <4>1. /\ fsmMachine'[home[k]] = fsmMachine[home[k]]
            /\ fsmClosed'[home[k]] = fsmClosed[home[k]]
        BY <1>1, <3>1, <3>4 DEF IInv, ServerTypeOK
      <4>2. IF fsmMachine[home[k]] = k
              THEN /\ closes[k] = IF fsmClosed[home[k]] THEN 1 ELSE 0
                   /\ releases[k] = 0
                   /\ remote[k] # "none"
              ELSE /\ closes[k] = 1
                   /\ releases[k] = 1
                   /\ remote[k] = "ended"
        BY <3>1 DEF IInv, Accounted
      <4>3. UNCHANGED <<closes, releases>>
        BY <1>1
      <4> QED
        BY <3>1, <4>1, <4>2, <4>3
    <3> QED
      BY <3>3, <3>4
  <2> QED
    BY <2>1, <2>2
<1>9. SlotsInStep'
  <2> SUFFICES ASSUME NEW t \in Slots
               PROVE  (/\ fsmRunning[t] => fsmMachine[t] # NoSession
                       /\ fsmMachine[t] # NoSession /\ ~fsmRunning[t] => InRelease(t)
                       /\ fsmRunning[t] => (strClosed[t] <=> fsmClosed[t])
                       /\ fsmMachine[t] # NoSession /\ fsmClosed[t] /\ ~InClose(t)
                            => remote[fsmMachine[t]] = "ended")'
    BY DEF SlotsInStep
  <2>1. CASE t = s
    BY <1>1, <1>4, <2>1 DEF IInv, ServerTypeOK
  <2>2. CASE t # s
    <3>1. /\ fsmMachine'[t] = fsmMachine[t] /\ fsmRunning'[t] = fsmRunning[t]
          /\ fsmClosed'[t] = fsmClosed[t] /\ strClosed'[t] = strClosed[t]
      BY <1>1, <2>2 DEF IInv, ServerTypeOK
    <3>2. ~InRelease(t) /\ ~InClose(t)
      BY DEF InRelease, InClose
    <3>3. fsmMachine[t] # NoSession => /\ fsmMachine[t] # m
                                       /\ fsmMachine[t] \in Sessions
      BY <1>1, WireAssumption DEF IInv, Housed, m, Sessions
    <3>4. fsmMachine[t] # NoSession => remote'[fsmMachine[t]] = remote[fsmMachine[t]]
      BY <1>1, <3>3 DEF IInv, ServerTypeOK
    <3> QED
      BY <3>1, <3>2, <3>4 DEF IInv, SlotsInStep
  <2> QED
    BY <2>1, <2>2
<1>10. HandlerAt' /\ Swept'
  BY <1>1, <1>2 DEF HandlerAt, Swept, IInv, ServerTypeOK
<1> QED
  BY <1>5, <1>6, <1>7, <1>8, <1>9, <1>10 DEF IInv

LEMMA RequestKeepsIInv ==
  ASSUME IInv, NEW s \in Slots, HandleRequest(s)
  PROVE  IInv'
<1>1. /\ pc = "read" /\ ~fsmRunning[s]
      /\ senderPaused' \in BOOLEAN
      /\ needWait' \in BOOLEAN
  BY DEF IInv, ServerTypeOK, HandleRequest, Reads, LiftPause
<1>2. PICK answer \in {"ok", "failed"} :
        /\ Goto("signal", s, answer)
        /\ IF answer = "ok" THEN Boot(s) ELSE UNCHANGED <<slotVars, machineVars>>
  BY DEF HandleRequest, MeaningsOfRequest
<1>3. CASE answer = "ok"
  BY <1>1, <1>2, <1>3, BootKeepsIInv
<1>4. CASE answer # "ok"
  <2>1. /\ UNCHANGED <<slotVars, machineVars>>
        /\ pc' = "signal" /\ cur' = s /\ why' = "failed"
    BY <1>2, <1>4 DEF Goto
  <2>2. HandlerAt' /\ Swept'
    BY <2>1 DEF HandlerAt, Swept
  <2> QED
    BY <1>1, <2>1, <2>2, MoveKeepsIInv, StepsFacts
    DEF IInv, ServerTypeOK, InClose, InRelease, machineVars
<1> QED
  BY <1>3, <1>4

---------------------------------------------------------------------------
(* Closing and releasing.                                                  *)

\* FSM.close and FSM.release begin by closing a machine nobody has closed.
LEMMA StartCloseKeepsIInv ==
  ASSUME IInv, NEW s \in Slots,
         fsmRunning[s], ~fsmClosed[s], pc \in {"read", "shutdown"},
         StartClose(fsmMachine[s]),
         fsmClosed' = [fsmClosed EXCEPT ![s] = TRUE],
         strClosed' \in [Slots -> BOOLEAN], fsmRunning' \in [Slots -> BOOLEAN],
         \A t \in Slots \ {s} : fsmRunning'[t] = fsmRunning[t] /\ strClosed'[t] = strClosed[t],
         \/ fsmRunning'[s] /\ strClosed'[s]
         \/ ~fsmRunning'[s] /\ why' # "close",
         pc' = "closing", cur' = s, why' \in {"close", "completed", "shutdown"},
         UNCHANGED <<fsmMachine, machines, home, remote, reply, conn, releases>>,
         senderPaused' \in BOOLEAN, needWait' \in BOOLEAN,
         Swept'
  PROVE  IInv'
<1> DEFINE m == fsmMachine[s]
<1>1. /\ m # NoSession /\ m \in Sessions
      /\ m <= machines /\ home[m] = s
  BY WireAssumption DEF IInv, SlotsInStep, Housed, Sessions, ServerTypeOK
<1>2. /\ closes' = [closes EXCEPT ![m] = @ + 1]
      /\ cancelled' = [cancelled EXCEPT ![m] = TRUE]
  BY DEF StartClose
<1>3. closes[m] = 0 /\ releases[m] = 0 /\ remote[m] # "none"
  BY <1>1 DEF IInv, Accounted
<1>4. \A t \in Slots : ~InRelease(t) /\ ~InClose(t)
  BY DEF InRelease, InClose
<1>5. \A t \in Slots \ {s} : fsmClosed'[t] = fsmClosed[t]
  BY DEF IInv, ServerTypeOK
<1>6. fsmClosed'[s]
  BY DEF IInv, ServerTypeOK
<1>7. ServerTypeOK'
  <2>1. /\ closes' \in [Sessions -> Nat]
        /\ cancelled' \in [Sessions -> BOOLEAN]
    BY <1>1, <1>2 DEF IInv, ServerTypeOK
  <2>2. fsmClosed' \in [Slots -> BOOLEAN]
    BY DEF IInv, ServerTypeOK
  <2> QED
    BY <2>1, <2>2, StepsFacts DEF IInv, ServerTypeOK
<1>8. closes'[m] = 1 /\ \A k \in Sessions \ {m} : closes'[k] = closes[k]
  BY <1>1, <1>2, <1>3 DEF IInv, ServerTypeOK
<1> HIDE DEF m
<1>9. Unborn'
  <2>1. \A k \in Sessions : k > machines => k # m
    BY <1>1, SlotsFacts DEF IInv, ServerTypeOK
  <2> QED
    BY <1>8, <2>1 DEF IInv, Unborn
<1>10. Housed'
  BY DEF IInv, Housed
<1>11. Accounted'
  <2> SUFFICES ASSUME NEW k \in Sessions, k <= machines
               PROVE  (IF fsmMachine[home[k]] = k
                         THEN /\ closes[k] = IF fsmClosed[home[k]] THEN 1 ELSE 0
                              /\ releases[k] = 0
                              /\ remote[k] # "none"
                         ELSE /\ closes[k] = 1
                              /\ releases[k] = 1
                              /\ remote[k] = "ended")'
    BY DEF Accounted
  <2>1. CASE k = m
    BY <1>1, <1>3, <1>6, <1>8, <2>1 DEF m
  <2>2. CASE k # m
    <3>1. CASE fsmMachine[home[k]] = k
      <4>1. home[k] \in Slots \ {s}
        BY <2>2, <3>1 DEF m, IInv, ServerTypeOK
      <4> QED
        BY <1>5, <1>8, <2>2, <3>1, <4>1 DEF IInv, Accounted
    <3>2. CASE fsmMachine[home[k]] # k
      BY <1>8, <2>2, <3>2 DEF IInv, Accounted
    <3> QED
      BY <3>1, <3>2
  <2> QED
    BY <2>1, <2>2
<1>12. SlotsInStep'
  <2> SUFFICES ASSUME NEW t \in Slots
               PROVE  (/\ fsmRunning[t] => fsmMachine[t] # NoSession
                       /\ fsmMachine[t] # NoSession /\ ~fsmRunning[t] => InRelease(t)
                       /\ fsmRunning[t] => (strClosed[t] <=> fsmClosed[t])
                       /\ fsmMachine[t] # NoSession /\ fsmClosed[t] /\ ~InClose(t)
                            => remote[fsmMachine[t]] = "ended")'
    BY DEF SlotsInStep
  <2>1. CASE t = s
    BY <1>1, <1>6, <2>1 DEF InRelease, InClose, m
  <2>2. CASE t # s
    BY <1>4, <1>5, <2>2 DEF IInv, SlotsInStep
  <2> QED
    BY <2>1, <2>2
<1>13. HandlerAt'
  BY <1>1, <1>6 DEF HandlerAt, m
<1> QED
  BY <1>7, <1>9, <1>10, <1>11, <1>12, <1>13 DEF IInv

\* What is closed already is released at once.
LEMMA StartReleaseKeepsIInv ==
  ASSUME IInv, NEW s \in Slots, NEW purpose \in {"completed", "shutdown"},
         fsmRunning[s], pc \in {"read", "shutdown"},
         StartRelease(s, purpose),
         UNCHANGED <<machines, home, remote, reply, conn, releases>>,
         senderPaused' \in BOOLEAN, needWait' \in BOOLEAN,
         Swept'
  PROVE  IInv'
<1>1. /\ fsmRunning' = [fsmRunning EXCEPT ![s] = FALSE]
      /\ fsmClosed' = [fsmClosed EXCEPT ![s] = TRUE]
      /\ UNCHANGED <<strClosed, fsmMachine>>
  BY DEF StartRelease
<1>2. /\ fsmRunning' \in [Slots -> BOOLEAN] /\ strClosed' \in [Slots -> BOOLEAN]
      /\ ~fsmRunning'[s] /\ fsmClosed'[s]
      /\ \A t \in Slots \ {s} : /\ fsmRunning'[t] = fsmRunning[t]
                                /\ strClosed'[t] = strClosed[t]
                                /\ fsmClosed'[t] = fsmClosed[t]
  BY <1>1 DEF IInv, ServerTypeOK
<1>3. CASE ~fsmClosed[s]
  <2>1. StartClose(fsmMachine[s]) /\ Goto("closing", s, purpose)
    BY <1>3 DEF StartRelease, AlreadyClosed
  <2> QED
    BY <1>1, <1>2, <1>3, <2>1, StartCloseKeepsIInv DEF Goto
<1>4. CASE fsmClosed[s]
  <2>1. /\ pc' = "releasing" /\ cur' = s /\ why' = purpose
        /\ UNCHANGED <<closes, cancelled>>
    BY <1>4 DEF StartRelease, AlreadyClosed, Goto
  <2>2. UNCHANGED <<fsmMachine, fsmClosed>>
    BY <1>1, <1>4 DEF IInv, ServerTypeOK
  <2>3. ServerTypeOK'
    BY <1>1, <1>2, <2>1, <2>2, StepsFacts DEF IInv, ServerTypeOK
  <2>4. Unborn' /\ Housed' /\ Accounted'
    BY <2>1, <2>2 DEF IInv, Unborn, Housed, Accounted
  <2>5. fsmMachine[s] # NoSession
    BY DEF IInv, SlotsInStep
  <2>6. \A t \in Slots : ~InRelease(t) /\ ~InClose(t)
    BY DEF InRelease, InClose
  <2>7. InRelease(s)' /\ \A t \in Slots : ~InClose(t)'
    BY <2>1 DEF InRelease, InClose
  <2>8. SlotsInStep'
    BY <1>2, <2>2, <2>6, <2>7 DEF IInv, SlotsInStep
  <2>9. HandlerAt'
    BY <1>2, <2>1, <2>2, <2>5 DEF HandlerAt
  <2> QED
    BY <2>3, <2>4, <2>8, <2>9 DEF IInv
<1> QED
  BY <1>3, <1>4

LEMMA CloseKeepsIInv ==
  ASSUME IInv, NEW s \in Slots, HandleClose(s)
  PROVE  IInv'
<1>1. /\ pc = "read"
      /\ senderPaused' \in BOOLEAN
      /\ needWait' \in BOOLEAN
      /\ UNCHANGED <<fsmMachine, fsmRunning, machines, home, remote, reply, conn, releases>>
  BY DEF IInv, ServerTypeOK, HandleClose, Reads, LiftPause
<1>2. CASE Closable(s)
  <2>1. /\ pc' = "closing" /\ cur' = s /\ why' = "close"
        /\ strClosed' = [strClosed EXCEPT ![s] = TRUE]
        /\ fsmClosed' = [fsmClosed EXCEPT ![s] = TRUE]
        /\ StartClose(fsmMachine[s])
    BY <1>2 DEF HandleClose, Goto
  <2>2. fsmRunning[s] /\ ~fsmClosed[s]
    BY <1>2 DEF Closable, IInv, SlotsInStep
  <2>3. Swept'
    BY <2>1 DEF Swept
  <2>4. /\ fsmRunning' \in [Slots -> BOOLEAN] /\ strClosed' \in [Slots -> BOOLEAN]
        /\ fsmRunning'[s] /\ strClosed'[s]
        /\ \A t \in Slots \ {s} : fsmRunning'[t] = fsmRunning[t] /\ strClosed'[t] = strClosed[t]
    BY <1>1, <2>1, <2>2 DEF IInv, ServerTypeOK
  <2> QED
    BY <1>1, <2>1, <2>2, <2>3, <2>4, StartCloseKeepsIInv
<1>3. CASE ~Closable(s)
  <2>1. /\ pc' = "reply" /\ cur' = s /\ why' = "close"
        /\ UNCHANGED <<strClosed, fsmClosed, closes, cancelled>>
    BY <1>3 DEF HandleClose, Goto
  <2>2. fsmMachine[s] = NoSession \/ fsmClosed[s]
    BY <1>1, <1>3 DEF Closable, IInv, SlotsInStep, InRelease
  <2>3. HandlerAt' /\ Swept'
    BY <1>1, <2>1, <2>2 DEF HandlerAt, Swept
  <2> QED
    BY <1>1, <2>1, <2>3, MoveKeepsIInv, StepsFacts
    DEF IInv, ServerTypeOK, InClose, InRelease, slotVars
<1> QED
  BY <1>2, <1>3

LEMMA CompletedKeepsIInv ==
  ASSUME IInv, NEW s \in Slots, HandleCompleted(s)
  PROVE  IInv'
<1>1. /\ pc = "read"
      /\ UNCHANGED <<machines, home, remote, reply, conn, releases>>
  BY DEF HandleCompleted, Reads
<1>2. CASE fsmRunning[s]
  <2>1. /\ StartRelease(s, "completed")
        /\ senderPaused' \in BOOLEAN
        /\ needWait' \in BOOLEAN
    BY <1>2 DEF IInv, ServerTypeOK, HandleCompleted, LiftPause
  <2>2. Swept'
    BY <2>1 DEF Swept, StartRelease, Goto
  <2> QED
    BY <1>1, <1>2, <2>1, <2>2, StartReleaseKeepsIInv
<1>3. CASE ~fsmRunning[s]
  <2>1. /\ pc' = "shutdown" /\ cur' = 0 /\ why' = "none"
        /\ senderPaused' = FALSE /\ needWait' = FALSE
        /\ UNCHANGED <<slotVars, closes, cancelled>>
    BY <1>3 DEF HandleCompleted, EndConnection, Goto
  <2>2. HandlerAt' /\ Swept'
    BY <2>1, SlotsFacts DEF HandlerAt, Swept
  <2> QED
    BY <1>1, <2>1, <2>2, MoveKeepsIInv, StepsFacts
    DEF IInv, ServerTypeOK, InClose, InRelease
<1> QED
  BY <1>2, <1>3

LEMMA ReleaseKeepsIInv ==
  ASSUME IInv, Release
  PROVE  IInv'
<1> DEFINE m == fsmMachine[cur]
<1>1. /\ pc = "releasing" /\ cur \in Slots
      /\ why \in {"completed", "shutdown"}
      /\ fsmClosed[cur]
      /\ m # NoSession /\ m \in Sessions /\ m <= machines /\ home[m] = cur
  BY WireAssumption DEF Release, IInv, HandlerAt, Housed, Sessions, ServerTypeOK
<1>2. /\ releases' = [releases EXCEPT ![m] = @ + 1]
      /\ fsmMachine' = [fsmMachine EXCEPT ![cur] = NoSession]
      /\ fsmRunning' = [fsmRunning EXCEPT ![cur] = FALSE]
      /\ reply' = [reply EXCEPT ![m] = "none"]
      /\ conn' = [conn EXCEPT ![m] = FALSE]
      /\ cancelled' = [cancelled EXCEPT ![m] = FALSE]
      /\ UNCHANGED <<fsmClosed, strClosed, machines, home, remote, closes>>
  BY DEF Release
<1>3. closes[m] = 1 /\ releases[m] = 0 /\ remote[m] = "ended"
  BY <1>1 DEF IInv, Accounted, SlotsInStep, InClose
<1>4. /\ \/ why = "completed" /\ pc' \in {"read", "shutdown"} /\ cur' = 0
         \/ why = "shutdown" /\ pc' = "shutdown" /\ cur' = cur + 1
      /\ why' = "none"
      /\ senderPaused' \in BOOLEAN
      /\ needWait' \in BOOLEAN
  BY DEF Release, NextFrame, RestorePause, EndConnection, Goto, IInv, ServerTypeOK
<1>5. /\ fsmMachine'[cur] = NoSession /\ ~fsmRunning'[cur]
      /\ \A t \in Slots \ {cur} : /\ fsmMachine'[t] = fsmMachine[t]
                                  /\ fsmRunning'[t] = fsmRunning[t]
  BY <1>1, <1>2 DEF IInv, ServerTypeOK
<1>6. releases'[m] = 1 /\ \A k \in Sessions \ {m} : releases'[k] = releases[k]
  BY <1>1, <1>2, <1>3 DEF IInv, ServerTypeOK
<1>7. ServerTypeOK'
  <2>1. NoSession \in 0 .. MaxSession
    BY WireAssumption DEF NoSession
  <2>2. /\ fsmMachine' \in [Slots -> 0 .. MaxSession]
        /\ fsmRunning' \in [Slots -> BOOLEAN]
        /\ reply' \in [Sessions -> Replies]
        /\ conn' \in [Sessions -> BOOLEAN]
        /\ cancelled' \in [Sessions -> BOOLEAN]
        /\ releases' \in [Sessions -> Nat]
    BY <1>1, <1>2, <2>1 DEF IInv, ServerTypeOK, Replies
  <2>3. pc' \in Steps /\ cur' \in 0 .. MaxSlot + 1 /\ why' \in Purposes
    BY <1>1, <1>4, StepsFacts
  <2> QED
    BY <1>2, <1>4, <2>2, <2>3 DEF IInv, ServerTypeOK
<1>8. Unborn'
  <2>1. \A k \in Sessions : k > machines => k # m
    BY <1>1, SlotsFacts DEF IInv, ServerTypeOK
  <2> HIDE DEF m
  <2> QED
    BY <1>2, <1>6, <2>1 DEF IInv, Unborn
<1>9. Housed'
  BY <1>2, <1>5 DEF IInv, Housed
<1>10. Accounted'
  <2> SUFFICES ASSUME NEW k \in Sessions, k <= machines
               PROVE  (IF fsmMachine[home[k]] = k
                         THEN /\ closes[k] = IF fsmClosed[home[k]] THEN 1 ELSE 0
                              /\ releases[k] = 0
                              /\ remote[k] # "none"
                         ELSE /\ closes[k] = 1
                              /\ releases[k] = 1
                              /\ remote[k] = "ended")'
    BY <1>2 DEF Accounted
  <2>1. CASE k = m
    BY <1>1, <1>2, <1>3, <1>5, <1>6, <2>1
  <2>2. CASE k # m
    <3>1. IF fsmMachine[home[k]] = k
            THEN /\ closes[k] = IF fsmClosed[home[k]] THEN 1 ELSE 0
                 /\ releases[k] = 0
                 /\ remote[k] # "none"
            ELSE /\ closes[k] = 1
                 /\ releases[k] = 1
                 /\ remote[k] = "ended"
      BY DEF IInv, Accounted
    <3>2. releases'[k] = releases[k]
      BY <1>6, <2>2
    <3>3. home[k] \in Slots /\ k # NoSession
      BY SlotsFacts DEF IInv, ServerTypeOK
    <3>4. fsmMachine'[home[k]] = k <=> fsmMachine[home[k]] = k
      BY <1>5, <2>2, <3>3
    <3> QED
      BY <1>2, <3>1, <3>2, <3>4
  <2> QED
    BY <2>1, <2>2
<1>11. SlotsInStep'
  <2>1. \A t \in Slots \ {cur} : ~InRelease(t) /\ ~InClose(t)
    BY DEF InRelease, InClose
  <2> QED
    BY <1>2, <1>5, <2>1 DEF IInv, SlotsInStep
<1>12. HandlerAt'
  BY <1>4 DEF HandlerAt
<1>13. Swept'
  <2>1. CASE why = "completed"
    BY <1>4, <2>1, SlotsFacts DEF Swept
  <2>2. CASE why = "shutdown"
    <3>1. \A t \in Slots : t < cur => fsmMachine[t] = NoSession
      BY <2>2 DEF IInv, Swept
    <3>2. \A t \in Slots : t < cur + 1 => t < cur \/ t = cur
      BY <1>1, SlotsFacts
    <3>3. \A t \in Slots : t < cur' => fsmMachine'[t] = NoSession
      BY <1>4, <1>5, <2>2, <3>1, <3>2
    <3> QED
      BY <1>4, <2>2, <3>3 DEF Swept
  <2> QED
    BY <1>1, <2>1, <2>2
<1> QED
  BY <1>7, <1>8, <1>9, <1>10, <1>11, <1>12, <1>13 DEF IInv

LEMMA ShutdownKeepsIInv ==
  ASSUME IInv, ShutdownSlot
  PROVE  IInv'
<1>1. /\ pc = "shutdown" /\ cur \in Slots
      /\ UNCHANGED <<senderPaused, needWait, machines, home, remote, reply, conn, releases>>
      /\ senderPaused' \in BOOLEAN /\ needWait' \in BOOLEAN
  BY DEF IInv, ServerTypeOK, ShutdownSlot
<1>2. \A s \in Slots : s < cur => fsmMachine[s] = NoSession
  BY <1>1 DEF IInv, Swept
<1>3. CASE /\ ~LeftRunning(cur)
           /\ Goto("shutdown", cur + 1, "none")
           /\ UNCHANGED <<slotVars, closes, cancelled>>
  <2>1. pc' = "shutdown" /\ cur' = cur + 1 /\ why' = "none"
    BY <1>3 DEF Goto
  <2>2. fsmMachine[cur] = NoSession
    BY <1>1, <1>3 DEF LeftRunning, IInv, SlotsInStep, InRelease
  <2>3. \A t \in Slots : t < cur + 1 => t < cur \/ t = cur
    BY <1>1, SlotsFacts
  <2>4. HandlerAt' /\ Swept'
    BY <1>2, <1>3, <2>1, <2>2, <2>3 DEF HandlerAt, Swept, slotVars
  <2> QED
    BY <1>1, <1>3, <2>1, <2>4, MoveKeepsIInv, StepsFacts
    DEF IInv, ServerTypeOK, InClose, InRelease
<1>4. CASE /\ Closable(cur)
           /\ Goto("closing", cur, "shutdown")
           /\ strClosed' = [strClosed EXCEPT ![cur] = TRUE]
           /\ fsmClosed' = [fsmClosed EXCEPT ![cur] = TRUE]
           /\ StartClose(fsmMachine[cur])
           /\ UNCHANGED <<fsmMachine, fsmRunning>>
  <2>1. fsmRunning[cur] /\ ~fsmClosed[cur]
    BY <1>1, <1>4 DEF Closable, IInv, SlotsInStep
  <2>2. pc' = "closing" /\ cur' = cur /\ why' = "shutdown"
    BY <1>4 DEF Goto
  <2>3. Swept'
    BY <1>2, <1>4, <2>2 DEF Swept
  <2>4. /\ fsmRunning' \in [Slots -> BOOLEAN] /\ strClosed' \in [Slots -> BOOLEAN]
        /\ fsmRunning'[cur] /\ strClosed'[cur]
        /\ \A t \in Slots \ {cur} : fsmRunning'[t] = fsmRunning[t] /\ strClosed'[t] = strClosed[t]
    BY <1>1, <1>4, <2>1 DEF IInv, ServerTypeOK
  <2> QED
    BY <1>1, <1>4, <2>1, <2>2, <2>3, <2>4, StartCloseKeepsIInv
<1>5. CASE LeftRunning(cur) /\ strClosed[cur] /\ StartRelease(cur, "shutdown")
  <2>1. Swept'
    BY <1>2, <1>5 DEF Swept, StartRelease, Goto
  <2> QED
    BY <1>1, <1>5, <2>1, StartReleaseKeepsIInv DEF LeftRunning
<1> QED
  BY <1>1, <1>3, <1>4, <1>5 DEF ShutdownSlot

---------------------------------------------------------------------------
(* The machines' goroutines.                                               *)

\* They move on only until they have ended.
LEMMA RemoteMovesOn ==
  ASSUME IInv, NEW m \in Sessions, RemoteStep(m)
  PROVE  /\ UNCHANGED <<handlerVars, slotVars, machines, home, closes, releases>>
         /\ reply' \in [Sessions -> Replies]
         /\ conn' \in [Sessions -> BOOLEAN]
         /\ cancelled' \in [Sessions -> BOOLEAN]
         /\ remote' \in [Sessions -> RemoteStates]
         /\ \A k \in Sessions \ {m} : remote'[k] = remote[k]
         /\ remote[m] \notin {"none", "ended"}
         /\ remote'[m] # "none"
<1> USE DEF IInv, ServerTypeOK, RemoteStates, Replies
<1>1. CASE RemoteOutput(m)
  BY <1>1 DEF RemoteOutput, RemoteWrites, Says
<1>2. CASE RemoteConnects(m)
  BY <1>2 DEF RemoteConnects
<1>3. CASE RemoteGreets(m)
  BY <1>3 DEF RemoteGreets, RemoteWrites
<1>4. CASE RemoteLeaves(m)
  BY <1>4 DEF RemoteLeaves
<1>5. CASE RemoteSignalsClose(m)
  BY <1>5 DEF RemoteSignalsClose, RemoteWrites
<1>6. CASE RemoteEnds(m)
  BY <1>6 DEF RemoteEnds
<1>7. CASE RemoteAsks(m)
  BY <1>7 DEF RemoteAsks, RemoteWrites
<1>8. CASE RemoteHears(m)
  BY <1>8 DEF RemoteHears
<1> QED
  BY <1>1, <1>2, <1>3, <1>4, <1>5, <1>6, <1>7, <1>8 DEF RemoteStep

LEMMA RemoteKeepsIInv ==
  ASSUME IInv, NEW m \in Sessions, RemoteStep(m)
  PROVE  IInv'
<1>1. /\ UNCHANGED <<handlerVars, slotVars, machines, home, closes, releases>>
      /\ reply' \in [Sessions -> Replies]
      /\ conn' \in [Sessions -> BOOLEAN]
      /\ cancelled' \in [Sessions -> BOOLEAN]
      /\ remote' \in [Sessions -> RemoteStates]
      /\ \A k \in Sessions \ {m} : remote'[k] = remote[k]
      /\ remote[m] \notin {"none", "ended"}
      /\ remote'[m] # "none"
  BY RemoteMovesOn
<1>2. m <= machines /\ fsmMachine[home[m]] = m
  BY <1>1, SlotsFacts DEF IInv, Unborn, Accounted, ServerTypeOK
<1> USE DEF handlerVars, slotVars
<1>3. ServerTypeOK'
  BY <1>1 DEF IInv, ServerTypeOK
<1>4. Unborn' /\ Housed' /\ Accounted'
  BY <1>1, <1>2, SlotsFacts DEF IInv, Unborn, Housed, Accounted, ServerTypeOK
<1>5. SlotsInStep'
  <2>1. \A s \in Slots : fsmMachine[s] # NoSession => fsmMachine[s] \in Sessions
    BY WireAssumption DEF IInv, ServerTypeOK, Sessions, NoSession
  <2>2. \A s \in Slots : InRelease(s)' <=> InRelease(s)
    BY <1>1 DEF InRelease
  <2>3. \A s \in Slots : InClose(s)' <=> InClose(s)
    BY <1>1 DEF InClose
  <2> QED
    BY <1>1, <2>1, <2>2, <2>3 DEF IInv, SlotsInStep
<1>6. HandlerAt' /\ Swept'
  BY <1>1 DEF IInv, HandlerAt, Swept
<1> QED
  BY <1>3, <1>4, <1>5, <1>6 DEF IInv

---------------------------------------------------------------------------
LEMMA ServerKeepsIInv ==
  ASSUME IInv, ServerStep
  PROVE  IInv'
<1>1. CASE HandleFrame
  BY <1>1, ControlKeepsIInv, TickKeepsIInv, RequestKeepsIInv, CloseKeepsIInv,
     CompletedKeepsIInv
  DEF HandleFrame
<1>2. CASE TickInput \/ TickRefuse
  BY <1>2, GetRemoteKeepsIInv
<1>3. CASE SignalAnswer \/ CloseReturns \/ Reply \/ Release
  BY <1>3, AnswerKeepsIInv, CloseReturnsKeepsIInv, ReplyKeepsIInv, ReleaseKeepsIInv
<1>4. CASE ShutdownSlot \/ HandleReturns \/ ReadFails
  BY <1>4, ShutdownKeepsIInv, HandleReturnsKeepsIInv, ControlKeepsIInv
<1>5. CASE \E m \in Sessions : RemoteStep(m)
  BY <1>5, RemoteKeepsIInv
<1> QED
  BY <1>1, <1>2, <1>3, <1>4, <1>5 DEF ServerStep, HandlerStep

LEMMA StutterKeepsIInv ==
  ASSUME IInv, UNCHANGED serverVars
  PROVE  IInv'
<1> USE DEF serverVars, handlerVars, slotVars, machineVars
<1>1. ServerTypeOK' /\ Unborn' /\ Housed' /\ Accounted' /\ Swept'
  BY DEF IInv, ServerTypeOK, Unborn, Housed, Accounted, Swept
<1>2. SlotsInStep' /\ HandlerAt'
  BY DEF IInv, SlotsInStep, HandlerAt, InClose, InRelease
<1> QED
  BY <1>1, <1>2 DEF IInv
---------------------------------------------------------------------------
(* The frames.                                                             *)

LEMMA FramesFacts ==
  /\ \A b \in ControlBodies : Control(b) \in Frames
  /\ \A s \in Slots, m \in 0 .. MaxSession :
       /\ \A b \in Bodies : Stream(s, b, m) \in Frames
       /\ Close(s, m) \in Frames
       /\ Completed(s, m) \in Frames
<1>1. \A b \in ControlBodies : b \in Bodies
  BY DEF Bodies
<1>2. 0 \in Slots /\ NoSession \in 0 .. MaxSession /\ "none" \in Bodies
  BY WireAssumption DEF Slots, NoSession, Bodies
<1> QED
  BY <1>1, <1>2 DEF Frames, Types, Control, Stream, Close, Completed

\* What each kind of step does to the frames in transit.
LEMMA WritesAreFrames ==
  ASSUME IInv, WireTypeOK, NEW f \in Frames, WriteToClient(f)
  PROVE  toClient' \in Seq(Frames)
BY DEF WriteToClient, WireTypeOK

LEMMA ReadsKeepFrames ==
  ASSUME WireTypeOK, NEW type, Reads(type)
  PROVE  toServer' \in Seq(Frames) /\ up' \in BOOLEAN
BY DEF Reads, WireTypeOK

LEMMA HandlerKeepsFrames ==
  ASSUME IInv, WireTypeOK, HandlerStep
  PROVE  WireTypeOK'
<1>1. CASE HandleEcho
  <2>1. Control("echo") \in Frames
    BY FramesFacts DEF ControlBodies
  <2>2. WriteToClient(Control("echo")) /\ Reads("control")
    BY <1>1 DEF HandleEcho
  <2>3. toClient' \in Seq(Frames)
    BY <2>1, <2>2, WritesAreFrames
  <2>4. toServer' \in Seq(Frames) /\ up' \in BOOLEAN
    BY <2>2, ReadsKeepFrames
  <2> QED
    BY <2>3, <2>4 DEF WireTypeOK
<1>2. CASE HandlePause \/ HandleResume \/ HandleUnknownSignal
  <2>1. Reads("control") /\ toClient' = toClient
    BY <1>2 DEF HandlePause, HandleResume, HandleUnknownSignal
  <2> QED
    BY <2>1, ReadsKeepFrames DEF WireTypeOK
<1>3. CASE \E s \in Slots : \/ HandleTick(s) \/ HandleRequest(s)
                            \/ HandleClose(s) \/ HandleCompleted(s)
  <2>1. toClient' = toClient /\ \E type : Reads(type)
    BY <1>3 DEF HandleTick, HandleRequest, HandleClose, HandleCompleted
  <2> QED
    BY <2>1, ReadsKeepFrames DEF WireTypeOK
<1>4. CASE SignalAnswer
  <2>1. cur \in Slots /\ why \in Bodies
    BY <1>4 DEF SignalAnswer, IInv, HandlerAt, Bodies, AnswerBodies
  <2>2. fsmMachine[cur] \in 0 .. MaxSession /\ NoSession \in 0 .. MaxSession
    BY <2>1, WireAssumption DEF IInv, ServerTypeOK, NoSession
  <2>3. PICK m \in 0 .. MaxSession : WriteToClient(Stream(cur, why, m))
    BY <1>4, <2>2 DEF SignalAnswer
  <2>4. Stream(cur, why, m) \in Frames
    BY <2>1, FramesFacts
  <2>5. toClient' \in Seq(Frames)
    BY <2>3, <2>4, WritesAreFrames
  <2> QED
    BY <1>4, <2>5 DEF SignalAnswer, WireTypeOK
<1>5. CASE Reply
  <2>1. cur \in Slots /\ fsmMachine[cur] \in 0 .. MaxSession
    BY <1>5 DEF Reply, IInv, HandlerAt, ServerTypeOK
  <2>2. Completed(cur, fsmMachine[cur]) \in Frames
    BY <2>1, FramesFacts
  <2>3. toClient' \in Seq(Frames)
    BY <1>5, <2>2, WritesAreFrames DEF Reply
  <2> QED
    BY <1>5, <2>3 DEF Reply, WireTypeOK
<1>6. CASE \/ TickInput \/ TickRefuse \/ CloseReturns \/ Release
           \/ ShutdownSlot \/ HandleReturns \/ ReadFails
  BY <1>6 DEF TickInput, TickRefuse, CloseReturns, Release, ShutdownSlot,
              HandleReturns, ReadFails, wireVars, WireTypeOK
<1> QED
  BY <1>1, <1>2, <1>3, <1>4, <1>5, <1>6 DEF HandlerStep, HandleFrame

LEMMA RemoteKeepsFrames ==
  ASSUME IInv, WireTypeOK, NEW m \in Sessions, RemoteStep(m)
  PROVE  WireTypeOK'
<1>1. home[m] \in Slots /\ m \in 0 .. MaxSession
  BY SlotsFacts DEF IInv, ServerTypeOK, Sessions
<1>2. CASE RemoteOutput(m) \/ RemoteAsks(m) \/ RemoteGreets(m)
  <2>1. OutputBodies \subseteq Bodies
    BY DEF Bodies
  <2>2. PICK b \in Bodies : WriteToClient(Stream(home[m], b, m))
    BY <1>2, <2>1 DEF RemoteOutput, RemoteAsks, RemoteGreets, OutputBodies
  <2>3. toClient' \in Seq(Frames)
    BY <1>1, <2>2, FramesFacts, WritesAreFrames
  <2> QED
    BY <1>2, <2>3 DEF RemoteOutput, RemoteAsks, RemoteGreets, RemoteWrites, WireTypeOK
<1>3. CASE RemoteSignalsClose(m)
  <2>1. WriteToClient(Close(home[m], m)) /\ Close(home[m], m) \in Frames
    BY <1>1, <1>3, FramesFacts DEF RemoteSignalsClose
  <2>2. toClient' \in Seq(Frames)
    BY <2>1, WritesAreFrames
  <2> QED
    BY <1>3, <2>2 DEF RemoteSignalsClose, RemoteWrites, WireTypeOK
<1>4. CASE RemoteHears(m) \/ RemoteConnects(m) \/ RemoteLeaves(m) \/ RemoteEnds(m)
  BY <1>4 DEF RemoteHears, RemoteConnects, RemoteLeaves, RemoteEnds, wireVars, WireTypeOK
<1> QED
  BY <1>2, <1>3, <1>4 DEF RemoteStep

---------------------------------------------------------------------------
(* The theorems, against any client.                                       *)

LEMMA NextKeepsIInv ==
  ASSUME IInv, [OpenNext]_vars
  PROVE  IInv'
<1>1. CASE ServerStep
  BY <1>1, ServerKeepsIInv
<1>2. CASE UNCHANGED serverVars
  BY <1>2, StutterKeepsIInv
<1> QED
  BY <1>1, <1>2
  DEF OpenNext, vars, ClientWrites, ClientReads, ConnectionLost

\* The state of the server end is, in every reachable state, as IInv describes
\* it, whatever the client does and however many slots and machines there are.
THEOREM Invariance == OpenSpec => []IInv
<1>1. OpenInit => IInv
  BY InitIInv DEF OpenInit
<1>2. IInv /\ [OpenNext]_vars => IInv'
  BY NextKeepsIInv
<1> QED
  BY <1>1, <1>2, PTL DEF OpenSpec

\* No machine is closed twice, and each is released at most once, after it was
\* closed and when its goroutine is over (FSM.close, FSM.release, stream.close).
THEOREM ClosedOnce == OpenSpec => []ClosedThenReleasedOnce
<1>1. IInv => ClosedThenReleasedOnce
  <2> SUFFICES ASSUME IInv, NEW m \in Sessions
               PROVE  /\ closes[m] <= 1
                      /\ releases[m] <= closes[m]
                      /\ releases[m] = 1 => remote[m] = "ended"
    BY DEF ClosedThenReleasedOnce
  <2>1. machines \in Nat /\ m \in Nat
    BY SlotsFacts DEF IInv, ServerTypeOK
  <2>2. CASE m > machines
    BY <2>2 DEF IInv, Unborn
  <2>3. CASE m <= machines
    BY <2>3 DEF IInv, Accounted
  <2> QED
    BY <2>1, <2>2, <2>3
<1> QED
  BY <1>1, Invariance, PTL

\* A goroutine that may still write finds its machine in the slot it writes to
\* (StreamResponder.h is a copy of the slot's header).
THEOREM WritersOwnTheirSlots == OpenSpec => []WriterOwnsSlot
<1>1. IInv => WriterOwnsSlot
  <2> SUFFICES ASSUME IInv, NEW m \in Sessions, remote[m] \notin {"none", "ended"}
               PROVE  fsmMachine[home[m]] = m
    BY DEF WriterOwnsSlot
  <2>1. m <= machines
    BY SlotsFacts DEF IInv, Unborn, ServerTypeOK
  <2> QED
    BY <2>1 DEF IInv, Accounted
<1> QED
  BY <1>1, Invariance, PTL

\* After Handle has returned, every machine that was booted has been closed and
\* released and its goroutine is over (streams.shutdown).
THEOREM ShutdownIsThorough == OpenSpec => []NothingLeftBehind
<1>1. IInv => NothingLeftBehind
  <2> SUFFICES ASSUME IInv, pc = "done", NEW m \in Sessions
               PROVE  /\ remote[m] \in {"none", "ended"}
                      /\ m <= machines => releases[m] = 1
    BY DEF NothingLeftBehind
  <2>1. machines \in Nat /\ m \in Nat /\ m # NoSession /\ home[m] \in Slots
    BY SlotsFacts DEF IInv, ServerTypeOK
  <2>2. fsmMachine[home[m]] # m
    BY <2>1 DEF IInv, Swept
  <2>3. CASE m > machines
    BY <2>1, <2>3 DEF IInv, Unborn
  <2>4. CASE m <= machines
    BY <2>2, <2>4 DEF IInv, Accounted
  <2> QED
    BY <2>1, <2>3, <2>4
<1> QED
  BY <1>1, Invariance, PTL

---------------------------------------------------------------------------
LEMMA ClientWritesFrames ==
  ASSUME WireTypeOK, ClientWrites \/ ClientReads \/ ConnectionLost
  PROVE  WireTypeOK'
<1>1. ClientFrames \subseteq Frames
  <2>1. NoSession \in 0 .. MaxSession
    BY WireAssumption DEF NoSession
  <2>2. \A b \in Sends \ ControlBodies : b \in Bodies
    BY OpenHandlerAssumption DEF Bodies
  <2> QED
    BY <2>1, <2>2, FramesFacts DEF ClientFrames
<1>2. CASE ClientWrites
  <2>1. PICK f \in ClientFrames : toServer' = Append(toServer, f)
    BY <1>2 DEF ClientWrites
  <2>2. toServer' \in Seq(Frames)
    BY <1>1, <2>1 DEF WireTypeOK
  <2> QED
    BY <1>2, <2>2 DEF ClientWrites, WireTypeOK
<1>3. CASE ClientReads
  BY <1>3 DEF ClientReads, WireTypeOK
<1>4. CASE ConnectionLost
  BY <1>4 DEF ConnectionLost, WireTypeOK
<1> QED
  BY <1>2, <1>3, <1>4

\* Every variable of the server end and of the wire keeps its type.
THEOREM TypeCorrect == OpenSpec => []TypeOK
<1>1. OpenInit => WireTypeOK
  BY DEF OpenInit, WireInit, WireTypeOK
<1>2. IInv /\ WireTypeOK /\ [OpenNext]_vars => WireTypeOK'
  <2> SUFFICES ASSUME IInv, WireTypeOK, [OpenNext]_vars
               PROVE  WireTypeOK'
    OBVIOUS
  <2>1. CASE ServerStep
    BY <2>1, HandlerKeepsFrames, RemoteKeepsFrames DEF ServerStep
  <2>2. CASE ClientWrites \/ ClientReads \/ ConnectionLost
    BY <2>2, ClientWritesFrames
  <2>3. CASE UNCHANGED vars
    BY <2>3 DEF vars, wireVars, WireTypeOK
  <2> QED
    BY <2>1, <2>2, <2>3 DEF OpenNext
<1>3. IInv /\ WireTypeOK => TypeOK
  BY DEF IInv, TypeOK
<1> QED
  BY <1>1, <1>2, <1>3, Invariance, PTL DEF OpenSpec

---------------------------------------------------------------------------
(* What is written, and when.                                              *)

\* TypeOK and what it rests on hold together in every reachable state.
LEMMA TypedInvariance == OpenSpec => [](IInv /\ WireTypeOK)
<1>1. IInv /\ TypeOK => IInv /\ WireTypeOK
  BY DEF TypeOK
<1> QED
  BY <1>1, Invariance, TypeCorrect, PTL

LEMMA NotWritten ==
  ASSUME WireTypeOK, toClient' = toClient \/ ClientReads
  PROVE  ~Writes
<1>1. CASE toClient' = toClient
  BY <1>1 DEF WireTypeOK, Writes
<1>2. CASE ClientReads
  BY <1>2 DEF ClientReads, WireTypeOK, Writes
<1> QED
  BY <1>1, <1>2

LEMMA WrittenIs ==
  ASSUME WireTypeOK, NEW f \in Frames, WriteToClient(f), Writes
  PROVE  Written = f
BY DEF WriteToClient, WireTypeOK, Writes, Written

\* The only steps that write.
LEMMA Writers ==
  ASSUME IInv, WireTypeOK, [OpenNext]_vars, Writes
  PROVE  \/ HandleEcho \/ SignalAnswer \/ Reply
         \/ \E m \in Sessions : \/ RemoteOutput(m) \/ RemoteAsks(m) \/ RemoteGreets(m)
                                \/ RemoteSignalsClose(m)
<1>1. SUFFICES ASSUME ~(\/ HandleEcho \/ SignalAnswer \/ Reply
                        \/ \E m \in Sessions : \/ RemoteOutput(m) \/ RemoteAsks(m) \/ RemoteGreets(m)
                                               \/ RemoteSignalsClose(m))
               PROVE  toClient' = toClient \/ ClientReads
  BY NotWritten
<1>2. CASE HandlePause \/ HandleResume \/ HandleUnknownSignal
           \/ \E s \in Slots : \/ HandleTick(s) \/ HandleRequest(s)
                               \/ HandleClose(s) \/ HandleCompleted(s)
  BY <1>2 DEF HandlePause, HandleResume, HandleUnknownSignal,
              HandleTick, HandleRequest, HandleClose, HandleCompleted
<1>3. CASE \/ TickInput \/ TickRefuse \/ CloseReturns \/ Release
           \/ ShutdownSlot \/ HandleReturns \/ ReadFails
  BY <1>3 DEF TickInput, TickRefuse, CloseReturns, Release, ShutdownSlot,
              HandleReturns, ReadFails, wireVars
<1>4. CASE \E m \in Sessions : \/ RemoteHears(m) \/ RemoteConnects(m)
                               \/ RemoteLeaves(m) \/ RemoteEnds(m)
  BY <1>4 DEF RemoteHears, RemoteConnects, RemoteLeaves, RemoteEnds, wireVars
<1>5. CASE ClientWrites \/ ClientReads \/ ConnectionLost \/ UNCHANGED vars
  BY <1>5 DEF ClientWrites, ConnectionLost, vars, wireVars
<1> QED
  BY <1>1, <1>2, <1>3, <1>4, <1>5
  DEF OpenNext, ServerStep, HandlerStep, HandleFrame, RemoteStep

\* When COMPLETED is written the machine in the slot, if any, has ended, and no
\* other machine writes to the slot.
THEOREM NothingAfterCompleted == OpenSpec => CompletedIsLast
<1> DEFINE A == Writes /\ Written.type = "completed" =>
                  \A m \in Sessions : Live(m) => home[m] # Written.slot
<1>1. IInv /\ WireTypeOK /\ [OpenNext]_vars => A
  <2> SUFFICES ASSUME IInv, WireTypeOK, [OpenNext]_vars, Writes, Written.type = "completed",
                      NEW m \in Sessions, Live(m)
               PROVE  home[m] # Written.slot
    BY DEF A
  <2>1. CASE Reply
    <3>1. cur \in Slots /\ fsmMachine[cur] \in 0 .. MaxSession
      BY <2>1 DEF Reply, IInv, HandlerAt, ServerTypeOK
    <3>2. /\ Completed(cur, fsmMachine[cur]) \in Frames
          /\ WriteToClient(Completed(cur, fsmMachine[cur]))
      BY <2>1, <3>1, FramesFacts DEF Reply
    <3>3. Written = Completed(cur, fsmMachine[cur])
      BY <3>2, WrittenIs
    <3>4. Written.slot = cur
      BY <3>3 DEF Completed
    <3>5. fsmMachine[home[m]] = m /\ m # NoSession /\ remote[m] # "ended"
      BY SlotsFacts DEF Live, IInv, Unborn, Accounted, ServerTypeOK
    <3>6. fsmMachine[cur] = NoSession \/ remote[fsmMachine[cur]] = "ended"
      BY <2>1, <3>1 DEF Reply, IInv, HandlerAt, SlotsInStep, InClose
    <3> QED
      BY <3>4, <3>5, <3>6
  <2>2. CASE HandleEcho
    <3>1. Control("echo") \in Frames /\ WriteToClient(Control("echo"))
      BY <2>2, FramesFacts DEF HandleEcho, ControlBodies
    <3>2. Written.type = "control"
      BY <3>1, WrittenIs DEF Control
    <3> QED
      BY <3>2
  <2>3. CASE SignalAnswer
    <3>1. cur \in Slots /\ why \in Bodies
      BY <2>3 DEF SignalAnswer, IInv, HandlerAt, Bodies, AnswerBodies
    <3>2. fsmMachine[cur] \in 0 .. MaxSession /\ NoSession \in 0 .. MaxSession
      BY <3>1, WireAssumption DEF IInv, ServerTypeOK, NoSession
    <3>3. PICK k \in 0 .. MaxSession : WriteToClient(Stream(cur, why, k))
      BY <2>3, <3>2 DEF SignalAnswer
    <3>4. Written.type = "stream"
      BY <3>1, <3>3, FramesFacts, WrittenIs DEF Stream
    <3> QED
      BY <3>4
  <2>4. CASE \E k \in Sessions : \/ RemoteOutput(k) \/ RemoteAsks(k) \/ RemoteGreets(k)
                                \/ RemoteSignalsClose(k)
    <3>1. PICK k \in Sessions : \/ RemoteOutput(k) \/ RemoteAsks(k) \/ RemoteGreets(k)
                                \/ RemoteSignalsClose(k)
      BY <2>4
    <3>2. home[k] \in Slots /\ k \in 0 .. MaxSession
      BY SlotsFacts DEF IInv, ServerTypeOK, Sessions
    <3>3. OutputBodies \subseteq Bodies
      BY DEF Bodies
    <3>4. \/ \E b \in Bodies : WriteToClient(Stream(home[k], b, k))
          \/ WriteToClient(Close(home[k], k))
      BY <3>1, <3>3 DEF RemoteOutput, RemoteAsks, RemoteGreets, RemoteSignalsClose, OutputBodies
    <3>5. ASSUME NEW b \in Bodies, WriteToClient(Stream(home[k], b, k))
          PROVE  Written.type = "stream"
      BY <3>2, <3>5, FramesFacts, WrittenIs DEF Stream
    <3>6. ASSUME WriteToClient(Close(home[k], k))
          PROVE  Written.type = "close"
      BY <3>2, <3>6, FramesFacts, WrittenIs DEF Close
    <3> QED
      BY <3>4, <3>5, <3>6
  <2> QED
    BY <2>1, <2>2, <2>3, <2>4, Writers
<1> QED
  BY <1>1, TypedInvariance, PTL DEF OpenSpec, CompletedIsLast

\* Between two frames, and while a tick waits, a pause the client has asked for
\* is in force: what lifted it has put it back, and a connection that ends no
\* longer counts as paused.
PauseKept == senderPaused /\ pc \in {"read", "tick"} => needWait

LEMMA PauseIsKept == OpenSpec => []PauseKept
<1>1. OpenInit => PauseKept
  BY DEF OpenInit, HandlerInit, PauseKept
<1>2. IInv /\ PauseKept /\ [OpenNext]_vars => PauseKept'
  <2> SUFFICES ASSUME IInv, PauseKept, [OpenNext]_vars
               PROVE  PauseKept'
    OBVIOUS
  <2>1. senderPaused \in BOOLEAN /\ needWait \in BOOLEAN
    BY DEF IInv, ServerTypeOK
  <2> USE DEF PauseKept
  <2>2. CASE HandleEcho \/ HandlePause \/ HandleResume \/ HandleUnknownSignal
    BY <2>1, <2>2 DEF HandleEcho, HandlePause, HandleResume, HandleUnknownSignal, Reads,
                      EndConnection, handlerVars
  <2>3. CASE \E s \in Slots : HandleTick(s)
    <3>1. \/ UNCHANGED handlerVars
          \/ EndConnection
          \/ pc = "read" /\ UNCHANGED <<senderPaused, needWait>>
      BY <2>3, TickEffects
    <3> QED
      BY <3>1 DEF EndConnection, handlerVars
  <2>4. CASE \E s \in Slots : HandleRequest(s)
    BY <2>4 DEF HandleRequest, Goto
  <2>5. CASE \E s \in Slots : HandleClose(s)
    BY <2>5 DEF HandleClose, Goto
  <2>6. CASE \E s \in Slots : HandleCompleted(s)
    BY <2>6 DEF HandleCompleted, StartRelease, Goto, EndConnection
  <2>7. CASE TickInput \/ TickRefuse
    BY <2>7 DEF TickInput, TickRefuse, EndConnection
  <2>8. CASE SignalAnswer \/ Reply \/ Release
    BY <2>8 DEF SignalAnswer, Reply, Release, RestorePause, EndConnection, Goto
  <2>9. CASE CloseReturns \/ ShutdownSlot \/ HandleReturns \/ ReadFails
    BY <2>9 DEF CloseReturns, ShutdownSlot, HandleReturns, ReadFails, StartRelease,
                EndConnection, Goto
  <2>10. CASE \E m \in Sessions : RemoteStep(m)
    BY <2>10, RemoteMovesOn DEF handlerVars
  <2>11. CASE UNCHANGED serverVars
    BY <2>11 DEF serverVars, handlerVars
  <2> QED
    BY <2>2, <2>3, <2>4, <2>5, <2>6, <2>7, <2>8, <2>9, <2>10, <2>11
    DEF OpenNext, ServerStep, HandlerStep, HandleFrame, ClientWrites, ClientReads,
        ConnectionLost, vars
<1> QED
  BY <1>1, <1>2, Invariance, PTL DEF OpenSpec

\* A client that has paused the server receives nothing but answers to its
\* heartbeats until it resumes or asks for an operation on a slot.
THEOREM PauseIsSilent == OpenSpec => PausedMeansSilent
<1> DEFINE A == senderPaused /\ pc \in {"read", "tick"} /\ Writes => Written.type = "control"
<1>1. IInv /\ WireTypeOK /\ PauseKept /\ [OpenNext]_vars => A
  <2> SUFFICES ASSUME IInv, WireTypeOK, PauseKept, [OpenNext]_vars,
                      senderPaused, pc \in {"read", "tick"}, Writes
               PROVE  Written.type = "control"
    BY DEF A
  <2>1. ~MayWrite
    BY DEF PauseKept, MayWrite
  <2>2. HandleEcho
    BY <2>1, Writers DEF SignalAnswer, Reply, RemoteOutput, RemoteAsks, RemoteGreets,
                         RemoteSignalsClose, RemoteWrites
  <2>3. Control("echo") \in Frames /\ WriteToClient(Control("echo"))
    BY <2>2, FramesFacts DEF HandleEcho, ControlBodies
  <2> QED
    BY <2>3, WrittenIs DEF Control
<1> QED
  BY <1>1, TypedInvariance, PauseIsKept, PTL DEF OpenSpec, PausedMeansSilent

---------------------------------------------------------------------------
(* The slots' life cycle.                                                  *)

PhaseOf(s) == IF fsmMachine[s] = NoSession THEN "free"
              ELSE IF Live(fsmMachine[s]) THEN "open"
              ELSE "closed"

LEMMA PhaseFacts ==
  /\ SlotPhase = [s \in Slots |-> PhaseOf(s)]
  /\ SlotPhase' = [s \in Slots |-> PhaseOf(s)']
BY DEF SlotPhase, PhaseOf

\* A slot whose phase moves while the others' stay is a step of Moves.
LEMMA PhaseMoves ==
  ASSUME NEW s \in Slots, NEW to,
         PhaseOf(s)' = to,
         \A t \in Slots \ {s} : PhaseOf(t)' = PhaseOf(t)
  PROVE  SlotPhase' = [SlotPhase EXCEPT ![s] = to]
BY PhaseFacts

LEMMA PhaseStays ==
  ASSUME \A s \in Slots : PhaseOf(s)' = PhaseOf(s)
  PROVE  SlotPhase' = SlotPhase
BY PhaseFacts

LEMMA MachinesInSlots ==
  ASSUME IInv, NEW s \in Slots, fsmMachine[s] # NoSession
  PROVE  /\ fsmMachine[s] \in Sessions
         /\ fsmMachine[s] <= machines
         /\ home[fsmMachine[s]] = s
BY WireAssumption DEF IInv, Housed, ServerTypeOK, Sessions

\* A machine is booted in a free slot, and starts out live.
LEMMA BootOpens ==
  ASSUME IInv, NEW s \in Slots, pc = "read", ~fsmRunning[s], Boot(s)
  PROVE  Lifecycle!Open(s)
<1> DEFINE m == machines + 1
<1>1. /\ m \in Sessions /\ machines \in Nat
      /\ remote' = [remote EXCEPT ![m] = "dialing"]
      /\ fsmMachine' = [fsmMachine EXCEPT ![s] = m]
  BY DEF Boot, IInv, ServerTypeOK
<1>2. fsmMachine[s] = NoSession
  BY DEF IInv, SlotsInStep, InRelease
<1>3. PhaseOf(s) = "free"
  BY <1>2 DEF PhaseOf
<1>4. PhaseOf(s)' = "open"
  <2>1. fsmMachine'[s] = m /\ m # NoSession /\ remote'[m] = "dialing"
    BY <1>1, SlotsFacts DEF IInv, ServerTypeOK
  <2> QED
    BY <2>1 DEF PhaseOf, Live
<1>5. ASSUME NEW t \in Slots \ {s}
      PROVE  PhaseOf(t)' = PhaseOf(t)
  <2>1. fsmMachine'[t] = fsmMachine[t]
    BY <1>1 DEF IInv, ServerTypeOK
  <2>2. fsmMachine[t] # NoSession => remote'[fsmMachine[t]] = remote[fsmMachine[t]]
    BY <1>1, MachinesInSlots DEF IInv, ServerTypeOK
  <2> QED
    BY <2>1, <2>2 DEF PhaseOf, Live
<1> QED
  BY <1>3, <1>4, <1>5, PhaseFacts, PhaseMoves DEF Lifecycle!Open, Lifecycle!Moves

\* Release empties a slot whose machine has ended.
LEMMA ReleaseFrees ==
  ASSUME IInv, Release
  PROVE  \E s \in Slots : Lifecycle!Free(s)
<1>1. /\ cur \in Slots /\ fsmMachine[cur] # NoSession
      /\ remote[fsmMachine[cur]] = "ended"
      /\ fsmMachine' = [fsmMachine EXCEPT ![cur] = NoSession]
      /\ remote' = remote
  BY DEF Release, IInv, HandlerAt, SlotsInStep, InClose
<1>2. PICK s \in Slots : s = cur
  BY <1>1
<1>3. PhaseOf(s) = "closed"
  BY <1>1, <1>2 DEF PhaseOf, Live
<1>4. \A t \in Slots : fsmMachine'[t] = IF t = s THEN NoSession ELSE fsmMachine[t]
  BY <1>1, <1>2 DEF IInv, ServerTypeOK
<1>5. PhaseOf(s)' = "free" /\ \A t \in Slots \ {s} : PhaseOf(t)' = PhaseOf(t)
  BY <1>1, <1>4 DEF PhaseOf, Live
<1>6. Lifecycle!Free(s)
  BY <1>3, <1>5, PhaseFacts, PhaseMoves DEF Lifecycle!Free, Lifecycle!Moves
<1> QED
  BY <1>6

\* A goroutine that writes CLOSE stops being live, and no other step of it
\* changes whether it is.
LEMMA RemoteCloses ==
  ASSUME IInv, NEW m \in Sessions, RemoteStep(m)
  PROVE  (\E s \in Slots : Lifecycle!SendClose(s)) \/ SlotPhase' = SlotPhase
<1>1. /\ fsmMachine' = fsmMachine
      /\ \A k \in Sessions \ {m} : remote'[k] = remote[k]
      /\ remote[m] \notin {"none", "ended"}
  BY RemoteMovesOn DEF slotVars
<1>2. /\ home[m] \in Slots /\ m # NoSession
      /\ fsmMachine[home[m]] = m
  BY <1>1, SlotsFacts DEF IInv, Unborn, Accounted, ServerTypeOK
<1>3. \A s \in Slots \ {home[m]} : PhaseOf(s)' = PhaseOf(s)
  <2> SUFFICES ASSUME NEW s \in Slots, s # home[m]
               PROVE  PhaseOf(s)' = PhaseOf(s)
    OBVIOUS
  <2>1. fsmMachine[s] # NoSession => fsmMachine[s] \in Sessions \ {m}
    BY MachinesInSlots
  <2> QED
    BY <1>1, <2>1 DEF PhaseOf, Live
<1>4. CASE RemoteSignalsClose(m)
  <2>1. remote[m] = "leaving" /\ remote'[m] = "signalled"
    BY <1>4 DEF RemoteSignalsClose, IInv, ServerTypeOK
  <2>2. PhaseOf(home[m]) = "open" /\ PhaseOf(home[m])' = "closed"
    <3>1. PhaseOf(home[m]) = "open"
      BY <1>2, <2>1 DEF PhaseOf, Live
    <3>2. home' = home
      BY RemoteMovesOn
    <3>3. PhaseOf(home[m])' = "closed"
      BY <1>1, <1>2, <2>1, <3>2 DEF PhaseOf, Live
    <3> QED
      BY <3>1, <3>3
  <2>3. Lifecycle!SendClose(home[m])
    <3>1. home' = home
      BY RemoteMovesOn
    <3>2. PICK s \in Slots : s = home[m]
      BY <1>2
    <3>3. PhaseOf(s) = "open" /\ PhaseOf(s)' = "closed"
      BY <2>2, <3>1, <3>2
    <3>4. Lifecycle!SendClose(s)
      BY <1>3, <3>2, <3>3, PhaseFacts, PhaseMoves DEF Lifecycle!SendClose, Lifecycle!Moves
    <3> QED
      BY <3>2, <3>4
  <2> QED
    BY <1>2, <2>3
<1>5. CASE ~RemoteSignalsClose(m)
  <2>1. Live(m)' <=> Live(m)
    BY <1>5 DEF RemoteStep, RemoteOutput, Says, RemoteAsks, RemoteHears, RemoteConnects, RemoteGreets, RemoteLeaves,
                RemoteEnds, Live, IInv, ServerTypeOK
  <2>2. PICK s \in Slots : s = home[m]
    BY <1>2
  <2>3. PhaseOf(s)' = PhaseOf(s)
    BY <1>1, <1>2, <2>1, <2>2 DEF PhaseOf, Live
  <2> QED
    BY <1>3, <2>2, <2>3, PhaseStays
<1> QED
  BY <1>4, <1>5

\* Every other step leaves the phases alone.
LEMMA OtherStepsStay ==
  ASSUME UNCHANGED <<fsmMachine, remote>>
  PROVE  SlotPhase' = SlotPhase
BY PhaseStays DEF PhaseOf, Live

\* The server end implements the life cycle of slots (SlotLifecycle.tla).
THEOREM Refinement == OpenSpec => ImplementsLifecycle
<1>1. OpenInit => Lifecycle!Init
  BY DEF OpenInit, HandlerInit, Lifecycle!Init, SlotPhase
<1>2. IInv /\ [OpenNext]_vars => [Lifecycle!Next]_SlotPhase
  <2> SUFFICES ASSUME IInv, [OpenNext]_vars
               PROVE  Lifecycle!Next \/ SlotPhase' = SlotPhase
    OBVIOUS
  <2>1. CASE \E s \in Slots : HandleRequest(s)
    <3>1. PICK s \in Slots : HandleRequest(s)
      BY <2>1
    <3>2. pc = "read" /\ ~fsmRunning[s]
      BY <3>1 DEF HandleRequest, Reads
    <3>3. Boot(s) \/ UNCHANGED <<slotVars, machineVars>>
      BY <3>1 DEF HandleRequest
    <3> QED
      BY <3>2, <3>3, BootOpens, OtherStepsStay DEF slotVars, machineVars, Lifecycle!Next
  <2>2. CASE Release
    BY <2>2, ReleaseFrees DEF Lifecycle!Next
  <2>3. CASE \E m \in Sessions : RemoteStep(m)
    BY <2>3, RemoteCloses DEF Lifecycle!Next
  <2>4. CASE HandleEcho \/ HandlePause \/ HandleResume \/ HandleUnknownSignal
    BY <2>4, OtherStepsStay
    DEF HandleEcho, HandlePause, HandleResume, HandleUnknownSignal, slotVars, machineVars
  <2>5. CASE \E s \in Slots : HandleTick(s) \/ HandleClose(s) \/ HandleCompleted(s)
    BY <2>5, OtherStepsStay
    DEF HandleTick, HandleClose, HandleCompleted, StartRelease, slotVars, machineVars
  <2>6. CASE TickInput \/ TickRefuse \/ SignalAnswer \/ CloseReturns \/ Reply
    BY <2>6, OtherStepsStay
    DEF TickInput, TickRefuse, SignalAnswer, CloseReturns, Reply, slotVars, machineVars
  <2>7. CASE ShutdownSlot \/ HandleReturns \/ ReadFails
    BY <2>7, OtherStepsStay
    DEF ShutdownSlot, HandleReturns, ReadFails, StartRelease, slotVars, machineVars
  <2>8. CASE UNCHANGED serverVars
    BY <2>8, OtherStepsStay DEF serverVars, slotVars, machineVars
  <2> QED
    BY <2>1, <2>2, <2>3, <2>4, <2>5, <2>6, <2>7, <2>8
    DEF OpenNext, ServerStep, HandlerStep, HandleFrame, ClientWrites, ClientReads,
        ConnectionLost, vars
<1> QED
  BY <1>1, <1>2, Invariance, PTL DEF OpenSpec, ImplementsLifecycle, Lifecycle!Spec
============================================================================
