---------------------------- MODULE WizardProofs ----------------------------
(***************************************************************************)
(* The safety of the connection wizards, for any of the four protocols.    *)
(*                                                                         *)
(* That a wizard comes to one end follows from the wizard alone.  That it  *)
(* understands its server, and answers nothing it was not asked, does not: *)
(* what the next frame may be depends on everything that was said before,  *)
(* so the invariant says what may be under way, in both directions, when.  *)
(* Of a connection that is gone nothing needs to be known.                 *)
(***************************************************************************)
EXTENDS Wizards, FiniteSetTheorems, SequenceTheorems, TLAPS

Elements(q) == {q[i] : i \in DOMAIN q}
InOrder(q, order) == \A i, j \in DOMAIN q : i < j => <<q[i], q[j]>> \in order

---------------------------------------------------------------------------
(* The wizard                                                              *)

AnswerBodies == {"trust", "refuse", "credential"}
Bodies == AnswerBodies \cup {"request", "close", "completed"}

\* The fields that may be blamed.
Blames == Fields \cup {"proxy", NoField}

Wizard ==
  [protocol: Protocols, way: Ways, config: [Fields -> Values], known: {"same", "other"},
   saves: BOOLEAN, cached: BOOLEAN, steps: Seq(Steps), outcomes: Seq(Terminals),
   closed: BOOLEAN, started: BOOLEAN, request: BOOLEAN, failed: BOOLEAN, timer: BOOLEAN,
   sending: BOOLEAN, running: BOOLEAN, initializing: BOOLEAN, shuttingDown: BOOLEAN,
   senderClosed: BOOLEAN, connected: BOOLEAN,
   reading: {"nothing", "failed", "hook", "fingerprint"},
   sent: Seq(Bodies), up: BOOLEAN, misread: BOOLEAN, blamed: Blames]

\* A request that is active has no outcome yet, and a stream; a wizard that has not
\* started one has nothing but its form.
Once(v) ==
  /\ Len(v.outcomes) <= 1
  /\ Active(v) => v.outcomes = <<>> /\ v.running
  /\ v.running => v.started
  /\ ~v.running => ~v.initializing /\ ~v.shuttingDown /\ v.reading = "nothing"
  /\ v.started => "form" \notin Elements(v.steps)
  /\ ~v.started => /\ v.outcomes = <<>> /\ ~v.request /\ ~v.senderClosed /\ ~v.sending
                   /\ v.sent = <<>> /\ ~v.connected
                   /\ v.steps \in {<<>>, <<"form">>}

\* Without a login there is no question.
Asks(v) == v.reading = "fingerprint" \/ \E q \in Questions : q \in Elements(v.steps)

---------------------------------------------------------------------------
(* The frames                                                              *)

Markers(p) == CASE p = "ssh" -> SshMarkers [] p = "mosh" -> MoshMarkers
                [] p = "et" -> EtMarkers [] p = "telnet" -> TelnetMarkers

Codes(p) == CASE p = "ssh" -> Ssh!RequestErrors [] p = "mosh" -> Mosh!RequestErrors
              [] p = "et" -> Et!RequestErrors [] p = "telnet" -> Telnet!RequestErrors

Frames == [type : {"answer", "stream", "close", "completed"}, value : Nat]

\* What a frame says, and what one may say.
Said(p, f) == IF f.type = "stream" THEN CHOOSE k \in DOMAIN Markers(p) : Markers(p)[k] = f.value
                                   ELSE f.type
MaySay(p, f) ==
  /\ f.type = "stream" => \E k \in DOMAIN Markers(p) : Markers(p)[k] = f.value
  /\ f.type = "answer" => f.value = 0 \/ f.value \in DOMAIN Codes(p)

\* What is on its way to the browser, to the server, and to the modal.
Coming == {Said(w.protocol, f) : f \in Elements(toClient)}
Going == Elements(w.sent)
Pending == Elements(w.steps)

---------------------------------------------------------------------------
(* The basic invariant, of which the other parts make use                  *)

TypeInv ==
  /\ w \in Wizard
  /\ ConnectorTypeOK
  /\ served \in {"idle", "refused", "closed"} \cup Live
  /\ asked \in Questions \cup {"nothing", "refused"}
  /\ unsaid \subseteq Questions \cup {"hook", "output"}
  /\ stalled \in BOOLEAN
  /\ toClient \in Seq(Frames)
  /\ \A f \in Elements(toClient) : MaySay(w.protocol, f)

NoLogin == w.protocol = "telnet" => /\ ~Asks(w) /\ step \notin Questions /\ ~saving
                                    /\ unsaid \cap Questions = {}

FormFirst ==
  /\ ~w.started => /\ served = "idle" /\ ~saving
                   /\ step \in {"nothing", "form"}
                   /\ step = "form" => w.steps = <<>>
  /\ w.started => (step = "form" => submitting)

BasicInv == TypeInv /\ NoLogin /\ Once(w) /\ FormFirst

---------------------------------------------------------------------------
(* Queues                                                                  *)

\* What is appended to a queue comes after everything that is in it.
LEMMA AppendOne ==
  ASSUME NEW S, NEW q \in Seq(S), NEW f \in S, NEW order
  PROVE  /\ Append(q, f) \in Seq(S)
         /\ Elements(Append(q, f)) = Elements(q) \cup {f}
         /\ InOrder(q, order) /\ (\A g \in Elements(q) : <<g, f>> \in order)
              => InOrder(Append(q, f), order)
<1> DEFINE r == Append(q, f)
<1>1. /\ r \in Seq(S)
      /\ DOMAIN r = 1 .. Len(q) + 1
      /\ DOMAIN q = 1 .. Len(q)
      /\ Len(q) \in Nat
      /\ \A i \in 1 .. Len(q) : r[i] = q[i]
      /\ r[Len(q) + 1] = f
  BY AppendProperties, LenProperties
<1> HIDE DEF r
<1>2. Elements(r) = Elements(q) \cup {f}
  BY <1>1 DEF Elements
<1>3. ASSUME InOrder(q, order), \A g \in Elements(q) : <<g, f>> \in order,
             NEW i \in DOMAIN r, NEW j \in DOMAIN r, i < j
      PROVE  <<r[i], r[j]>> \in order
  <2>1. CASE j = Len(q) + 1
    BY <1>1, <1>3, <2>1 DEF Elements
  <2>2. CASE j # Len(q) + 1
    BY <1>1, <1>3, <2>2 DEF InOrder
  <2> QED
    BY <2>1, <2>2
<1>4. InOrder(q, order) /\ (\A g \in Elements(q) : <<g, f>> \in order) => InOrder(r, order)
  BY <1>3 DEF InOrder
<1> QED
  BY <1>1, <1>2, <1>4 DEF r

\* What is taken from a queue came before everything that is left in it.
LEMMA TakeOne ==
  ASSUME NEW S, NEW q \in Seq(S), q # <<>>, NEW order
  PROVE  /\ Tail(q) \in Seq(S)
         /\ Head(q) \in S
         /\ Elements(q) = {Head(q)} \cup Elements(Tail(q))
         /\ InOrder(q, order) => /\ InOrder(Tail(q), order)
                                 /\ \A g \in Elements(Tail(q)) : <<Head(q), g>> \in order
<1> DEFINE r == Tail(q)
<1>1. /\ r \in Seq(S)
      /\ Head(q) \in S /\ Head(q) = q[1]
      /\ DOMAIN r = 1 .. Len(q) - 1
      /\ DOMAIN q = 1 .. Len(q)
      /\ Len(q) \in Nat \ {0}
      /\ \A i \in 1 .. Len(q) - 1 : r[i] = q[i + 1]
  BY HeadTailProperties, LenProperties, EmptySeq
<1> HIDE DEF r
<1>2. Elements(q) \subseteq {q[1]} \cup Elements(r)
  <2> SUFFICES ASSUME NEW i \in 1 .. Len(q), i # 1
               PROVE  q[i] \in Elements(r)
    BY <1>1 DEF Elements
  <2>1. i - 1 \in DOMAIN r /\ q[i] = r[i - 1]
    BY <1>1
  <2> QED
    BY <2>1 DEF Elements
<1>3. {q[1]} \cup Elements(r) \subseteq Elements(q)
  BY <1>1 DEF Elements
<1>4. ASSUME InOrder(q, order)
      PROVE  InOrder(r, order) /\ \A g \in Elements(r) : <<q[1], g>> \in order
  <2>1. InOrder(r, order)
    <3> SUFFICES ASSUME NEW i \in DOMAIN r, NEW j \in DOMAIN r, i < j
                 PROVE  <<r[i], r[j]>> \in order
      BY DEF InOrder
    <3>1. i + 1 \in DOMAIN q /\ j + 1 \in DOMAIN q /\ i + 1 < j + 1
      BY <1>1
    <3>2. r[i] = q[i + 1] /\ r[j] = q[j + 1]
      BY <1>1
    <3> QED
      BY <1>4, <3>1, <3>2 DEF InOrder
  <2>2. ASSUME NEW i \in DOMAIN r
        PROVE  <<q[1], r[i]>> \in order
    <3>1. 1 \in DOMAIN q /\ i + 1 \in DOMAIN q /\ 1 < i + 1 /\ r[i] = q[i + 1]
      BY <1>1
    <3> QED
      BY <1>4, <3>1 DEF InOrder
  <2> QED
    BY <2>1, <2>2 DEF Elements
<1> QED
  BY <1>1, <1>2, <1>3, <1>4 DEF r

---------------------------------------------------------------------------
(* What the operations change                                              *)

SameEnds(u, v) == /\ u.up = v.up /\ u.running = v.running /\ u.initializing = v.initializing
                  /\ u.shuttingDown = v.shuttingDown /\ u.senderClosed = v.senderClosed
                  /\ u.connected = v.connected
SameTurn(u, v) == u.closed = v.closed /\ u.reading = v.reading
SameRequest(u, v) == /\ u.request = v.request /\ u.failed = v.failed /\ u.timer = v.timer
                     /\ u.sending = v.sending /\ u.started = v.started
SameSteps(u, v) == u.steps = v.steps /\ u.outcomes = v.outcomes
SameHistory(u, v) == /\ u.protocol = v.protocol /\ u.way = v.way /\ u.config = v.config
                     /\ u.known = v.known /\ u.saves = v.saves /\ u.cached = v.cached
                     /\ u.misread = v.misread /\ u.blamed = v.blamed

\* A wizard with other steps is a wizard.
LEMMA StepsType ==
  ASSUME NEW v \in Wizard, NEW x \in Seq(Steps), NEW y \in Seq(Terminals)
  PROVE  [v EXCEPT !.steps = x, !.outcomes = y] \in Wizard
BY DEF Wizard

\* A wizard with other frames to send is a wizard.
LEMMA SentType ==
  ASSUME NEW v \in Wizard, NEW x \in Seq(Bodies)
  PROVE  [v EXCEPT !.sent = x] \in Wizard
BY DEF Wizard

\* Subscribe.resolve publishes a step, and touches nothing else.
LEMMA PushFacts ==
  ASSUME NEW v \in Wizard, NEW s \in Steps, NEW u, u = Push(v, s)
  PROVE  /\ u \in Wizard /\ u.steps = Append(v.steps, s)
         /\ u.outcomes = IF s \in Terminals THEN Append(v.outcomes, s) ELSE v.outcomes
         /\ SameEnds(u, v) /\ SameTurn(u, v) /\ SameRequest(u, v) /\ SameHistory(u, v)
         /\ u.sent = v.sent
<1> DEFINE x == Append(v.steps, s)
           y == IF s \in Terminals THEN Append(v.outcomes, s) ELSE v.outcomes
<1>1. u = [v EXCEPT !.steps = x, !.outcomes = y]
  BY DEF Push
<1>2. x \in Seq(Steps) /\ y \in Seq(Terminals)
  BY DEF Wizard
<1> HIDE DEF x, y
<1>3. u \in Wizard
  BY <1>1, <1>2, StepsType
<1>4. u.steps = x /\ u.outcomes = y /\ SameEnds(u, v) /\ u.sent = v.sent
  BY <1>1 DEF Wizard, SameEnds
<1>5. SameTurn(u, v) /\ SameRequest(u, v) /\ SameHistory(u, v)
  BY <1>1 DEF Wizard, SameTurn, SameRequest, SameHistory
<1> QED
  BY <1>3, <1>4, <1>5 DEF x, y

\* A terminal step that is published is an outcome.
LEMMA PushEnds ==
  ASSUME NEW v \in Wizard, NEW s \in Terminals, NEW u, u = Push(v, s)
  PROVE  /\ u \in Wizard /\ u.steps = Append(v.steps, s) /\ u.outcomes = Append(v.outcomes, s)
         /\ SameEnds(u, v) /\ SameTurn(u, v) /\ SameRequest(u, v) /\ SameHistory(u, v)
         /\ u.sent = v.sent
BY PushFacts DEF Steps

\* Any other step that is published is none.
LEMMA PushGoesOn ==
  ASSUME NEW v \in Wizard, NEW s \in Steps \ Terminals, NEW u, u = Push(v, s)
  PROVE  /\ u \in Wizard /\ u.steps = Append(v.steps, s) /\ u.outcomes = v.outcomes
         /\ SameEnds(u, v) /\ SameTurn(u, v) /\ SameRequest(u, v) /\ SameHistory(u, v)
         /\ u.sent = v.sent
BY PushFacts

\* A frame is sent as long as there is a connection.
LEMMA PutFacts ==
  ASSUME NEW v \in Wizard, NEW b \in Bodies, NEW u, u = Put(v, b)
  PROVE  /\ u \in Wizard /\ u.sent = IF v.up THEN Append(v.sent, b) ELSE v.sent
         /\ SameEnds(u, v) /\ SameTurn(u, v) /\ SameRequest(u, v) /\ SameHistory(u, v)
         /\ SameSteps(u, v)
<1> DEFINE x == Append(v.sent, b)
<1>1. x \in Seq(Bodies)
  BY DEF Wizard
<1>2. CASE ~v.up
  BY <1>2 DEF Put, SameEnds, SameTurn, SameRequest, SameHistory, SameSteps
<1>3. CASE v.up
  <2>1. u = [v EXCEPT !.sent = x]
    BY <1>3 DEF Put
  <2> HIDE DEF x
  <2>2. u \in Wizard
    BY <2>1, <1>1, SentType
  <2>3. u.sent = x /\ SameEnds(u, v) /\ SameTurn(u, v) /\ SameSteps(u, v)
    BY <2>1 DEF Wizard, SameEnds, SameTurn, SameSteps
  <2>4. SameRequest(u, v) /\ SameHistory(u, v)
    BY <2>1 DEF Wizard, SameRequest, SameHistory
  <2> QED
    BY <1>3, <2>2, <2>3, <2>4 DEF x
<1> QED
  BY <1>2, <1>3

\* The stream's sender is closed once.
LEMMA CloseSenderFacts ==
  ASSUME NEW v \in Wizard, NEW u, u = CloseSender(v)
  PROVE  /\ u \in Wizard
         /\ u.senderClosed
         /\ u.sent = IF ~v.senderClosed /\ v.up THEN Append(v.sent, "close") ELSE v.sent
         /\ u.up = v.up /\ u.running = v.running /\ u.initializing = v.initializing
         /\ u.shuttingDown = v.shuttingDown /\ u.connected = v.connected
         /\ SameTurn(u, v) /\ SameRequest(u, v) /\ SameHistory(u, v) /\ SameSteps(u, v)
<1> DEFINE t == [v EXCEPT !.senderClosed = TRUE]
<1>1. CASE v.senderClosed
  BY <1>1 DEF CloseSender, SameTurn, SameRequest, SameHistory, SameSteps
<1>2. CASE ~v.senderClosed
  <2>1. t \in Wizard /\ t.senderClosed /\ t.up = v.up /\ t.running = v.running
        /\ t.initializing = v.initializing /\ t.shuttingDown = v.shuttingDown
        /\ t.connected = v.connected /\ t.sent = v.sent
    BY DEF Wizard
  <2>2. SameTurn(t, v) /\ SameRequest(t, v) /\ SameHistory(t, v) /\ SameSteps(t, v)
    BY DEF Wizard, SameTurn, SameRequest, SameHistory, SameSteps
  <2>3. u = Put(t, "close")
    BY <1>2 DEF CloseSender
  <2> HIDE DEF t
  <2>4. "close" \in Bodies
    BY DEF Bodies
  <2>5. /\ u \in Wizard /\ u.sent = IF t.up THEN Append(t.sent, "close") ELSE t.sent
        /\ SameEnds(u, t) /\ SameTurn(u, t) /\ SameRequest(u, t) /\ SameHistory(u, t)
        /\ SameSteps(u, t)
    BY <2>1, <2>3, <2>4, PutFacts
  <2> QED
    BY <1>2, <2>1, <2>2, <2>5 DEF SameEnds, SameTurn, SameRequest, SameHistory, SameSteps
<1> QED
  BY <1>1, <1>2

\* Stream.close: how the two ends are after it.
Closed(u, v) ==
  /\ u.shuttingDown = (v.shuttingDown \/ v.running)
  /\ u.senderClosed = (v.senderClosed \/ (v.running /\ ~v.shuttingDown))
  /\ u.sent = IF v.running /\ ~v.shuttingDown /\ ~v.senderClosed /\ v.up
                THEN Append(v.sent, "close") ELSE v.sent
  /\ u.up = v.up /\ u.running = v.running /\ u.initializing = v.initializing
  /\ u.connected = v.connected

\* The stream is closed once.
LEMMA CloseStreamFacts ==
  ASSUME NEW v \in Wizard, NEW u, u = CloseStream(v)
  PROVE  /\ u \in Wizard /\ Closed(u, v)
         /\ SameTurn(u, v) /\ SameRequest(u, v) /\ SameHistory(u, v) /\ SameSteps(u, v)
<1> DEFINE t == [v EXCEPT !.shuttingDown = TRUE]
<1>1. CASE ~(v.running /\ ~v.shuttingDown)
  BY <1>1 DEF CloseStream, Closed, SameTurn, SameRequest, SameHistory, SameSteps, Wizard
<1>2. CASE v.running /\ ~v.shuttingDown
  <2>1. t \in Wizard /\ t.shuttingDown /\ t.up = v.up /\ t.running = v.running
        /\ t.initializing = v.initializing /\ t.senderClosed = v.senderClosed
        /\ t.connected = v.connected /\ t.sent = v.sent
    BY DEF Wizard
  <2>2. SameTurn(t, v) /\ SameRequest(t, v) /\ SameHistory(t, v) /\ SameSteps(t, v)
    BY DEF Wizard, SameTurn, SameRequest, SameHistory, SameSteps
  <2>3. u = CloseSender(t)
    BY <1>2 DEF CloseStream
  <2> HIDE DEF t
  <2>4. /\ u \in Wizard
        /\ u.senderClosed
        /\ u.sent = IF ~t.senderClosed /\ t.up THEN Append(t.sent, "close") ELSE t.sent
        /\ u.up = t.up /\ u.running = t.running /\ u.initializing = t.initializing
        /\ u.shuttingDown = t.shuttingDown /\ u.connected = t.connected
        /\ SameTurn(u, t) /\ SameRequest(u, t) /\ SameHistory(u, t) /\ SameSteps(u, t)
    BY <2>1, <2>3, CloseSenderFacts
  <2>5. Closed(u, v)
    BY <1>2, <2>1, <2>4 DEF Closed, Wizard
  <2> QED
    BY <2>2, <2>4, <2>5 DEF SameTurn, SameRequest, SameHistory, SameSteps
<1> QED
  BY <1>1, <1>2

\* The request is over, with its one outcome.
Over(u, v, s) ==
  /\ u.steps = Append(v.steps, s) /\ u.outcomes = Append(v.outcomes, s)
  /\ u.request = FALSE /\ u.timer = FALSE
  /\ u.sending = v.sending /\ u.started = v.started

\* A request that is active fails with an outcome, and its stream is closed.
LEMMA FailFacts ==
  ASSUME NEW v \in Wizard, NEW u, u = Fail(v)
  PROVE  /\ u \in Wizard /\ SameTurn(u, v) /\ SameHistory(u, v)
         /\ Active(v) => Over(u, v, "failure") /\ Closed(u, v)
         /\ ~Active(v) => u = v
<1> DEFINE t == [v EXCEPT !.failed = TRUE, !.timer = FALSE, !.request = FALSE]
           c == CloseStream(t)
<1>1. CASE ~Active(v)
  BY <1>1 DEF Fail, SameTurn, SameHistory
<1>2. CASE Active(v)
  <2>1. t \in Wizard
    BY DEF Wizard
  <2>2. /\ SameEnds(t, v) /\ t.sent = v.sent /\ SameTurn(t, v) /\ SameSteps(t, v)
        /\ t.request = FALSE /\ t.timer = FALSE
    BY DEF Wizard, SameEnds, SameTurn, SameSteps
  <2>3. SameHistory(t, v) /\ t.sending = v.sending /\ t.started = v.started
    BY DEF Wizard, SameHistory
  <2>4. u = Push(c, "failure")
    BY <1>2 DEF Fail
  <2> HIDE DEF t
  <2>5. /\ c \in Wizard /\ Closed(c, t)
        /\ SameTurn(c, t) /\ SameRequest(c, t) /\ SameHistory(c, t) /\ SameSteps(c, t)
    BY <2>1, CloseStreamFacts
  <2> HIDE DEF c
  <2>6. "failure" \in Steps /\ "failure" \in Terminals
    BY DEF Steps, Terminals
  <2>7. /\ u \in Wizard /\ u.steps = Append(c.steps, "failure")
        /\ u.outcomes = Append(c.outcomes, "failure")
        /\ SameEnds(u, c) /\ SameTurn(u, c) /\ SameRequest(u, c) /\ SameHistory(u, c)
        /\ u.sent = c.sent
    BY <2>4, <2>5, <2>6, PushEnds
  <2>8. Over(u, v, "failure")
    BY <2>2, <2>3, <2>5, <2>7 DEF Over, SameRequest, SameSteps
  <2>9. Closed(u, v)
    BY <2>2, <2>5, <2>7 DEF Closed, SameEnds
  <2> QED
    BY <1>2, <2>2, <2>3, <2>5, <2>7, <2>8, <2>9 DEF SameTurn, SameHistory
<1> QED
  BY <1>1, <1>2

\* Only a request that is active comes to a terminal step.
LEMMA ResolveTerminalFacts ==
  ASSUME NEW v \in Wizard, NEW s \in Terminals, NEW u, u = ResolveTerminal(v, s)
  PROVE  /\ u \in Wizard /\ SameEnds(u, v) /\ SameTurn(u, v) /\ SameHistory(u, v)
         /\ u.sent = v.sent
         /\ Active(v) => Over(u, v, s)
         /\ ~Active(v) => u = v
<1> DEFINE t == Push(v, s)
<1>1. CASE ~Active(v)
  BY <1>1 DEF ResolveTerminal, SameEnds, SameTurn, SameHistory
<1>2. CASE Active(v)
  <2>2. /\ t \in Wizard /\ t.steps = Append(v.steps, s)
        /\ t.outcomes = Append(v.outcomes, s)
        /\ SameEnds(t, v) /\ SameTurn(t, v) /\ SameRequest(t, v) /\ SameHistory(t, v)
        /\ t.sent = v.sent
    BY PushEnds
  <2>3. u = [t EXCEPT !.timer = FALSE, !.request = FALSE]
    BY <1>2 DEF ResolveTerminal, Complete
  <2> HIDE DEF t
  <2>4. u \in Wizard
    BY <2>2, <2>3 DEF Wizard
  <2>5. /\ SameEnds(u, t) /\ SameTurn(u, t) /\ SameHistory(u, t) /\ u.sent = t.sent
    BY <2>2, <2>3 DEF Wizard, SameEnds, SameTurn, SameHistory
  <2>6. /\ SameSteps(u, t) /\ u.request = FALSE /\ u.timer = FALSE
        /\ u.sending = t.sending /\ u.started = t.started
    BY <2>2, <2>3 DEF Wizard, SameSteps
  <2>7. Over(u, v, s)
    BY <2>2, <2>6 DEF Over, SameSteps, SameRequest
  <2> QED
    BY <1>2, <2>2, <2>4, <2>5, <2>7 DEF SameEnds, SameTurn, SameHistory
<1> QED
  BY <1>1, <1>2

\* The stream of the browser is given back.
LEMMA ClearFacts ==
  ASSUME NEW v \in Wizard, NEW u, u = Clear(v)
  PROVE  /\ u \in Wizard /\ SameRequest(u, v) /\ SameHistory(u, v) /\ SameSteps(u, v)
         /\ ~u.running /\ ~u.initializing /\ ~u.shuttingDown /\ u.reading = "nothing"
         /\ u.up = v.up /\ u.senderClosed = v.senderClosed /\ u.connected = v.connected
         /\ u.sent = v.sent /\ u.closed = v.closed
<1>1. u \in Wizard
  BY DEF Clear, Wizard
<1>2. SameRequest(u, v) /\ SameHistory(u, v) /\ SameSteps(u, v)
  BY DEF Clear, Wizard, SameRequest, SameHistory, SameSteps
<1> QED
  BY <1>1, <1>2 DEF Clear, Wizard

\* The connection is gone.
Lost(u, v) ==
  /\ SameHistory(u, v)
  /\ ~u.up /\ ~u.sending /\ u.sent = <<>>
  /\ u.started = v.started /\ u.closed = v.closed /\ u.connected = v.connected
  /\ ~v.running => /\ SameSteps(u, v) /\ u.request = v.request /\ u.failed = v.failed
                   /\ u.running = v.running /\ u.initializing = v.initializing
                   /\ u.shuttingDown = v.shuttingDown /\ u.reading = v.reading
                   /\ u.senderClosed = v.senderClosed
  /\ v.running => /\ ~u.running /\ ~u.initializing /\ ~u.shuttingDown
                  /\ u.reading = "nothing" /\ u.senderClosed
                  /\ IF Active(v) THEN /\ u.steps = Append(v.steps, "failure")
                                       /\ u.outcomes = Append(v.outcomes, "failure")
                                       /\ ~u.request
                     ELSE SameSteps(u, v) /\ u.request = v.request /\ u.failed = v.failed

\* The connection takes the stream with it.
LEMMA LoseFacts ==
  ASSUME NEW v \in Wizard, NEW u, u = Lose(v)
  PROVE  u \in Wizard /\ Lost(u, v)
<1> DEFINE o == [v EXCEPT !.up = FALSE, !.sending = FALSE, !.sent = <<>>]
           t == [o EXCEPT !.senderClosed = TRUE]
           r == ResolveTerminal(t, "failure")
<1>1. o \in Wizard
  <2>1. <<>> \in Seq(Bodies)
    OBVIOUS
  <2>2. [v EXCEPT !.sent = <<>>] \in Wizard
    BY <2>1, SentType
  <2>3. o = [[v EXCEPT !.sent = <<>>] EXCEPT !.up = FALSE, !.sending = FALSE]
    BY DEF Wizard
  <2> QED
    BY <2>2, <2>3 DEF Wizard
<1>2. /\ ~o.up /\ ~o.sending /\ o.sent = <<>> /\ o.started = v.started /\ SameTurn(o, v)
      /\ SameSteps(o, v) /\ o.request = v.request /\ o.failed = v.failed
      /\ o.running = v.running /\ o.initializing = v.initializing
      /\ o.shuttingDown = v.shuttingDown /\ o.senderClosed = v.senderClosed
      /\ o.connected = v.connected
  BY DEF Wizard, SameTurn, SameSteps
<1>3. SameHistory(o, v)
  BY DEF Wizard, SameHistory
<1> HIDE DEF o
<1>4. CASE ~v.running
  <2>1. u = o
    BY <1>2, <1>4 DEF Lose, o
  <2> QED
    BY <1>1, <1>2, <1>3, <1>4, <2>1 DEF Lost, SameTurn
<1>5. CASE v.running
  <2>1. u = Clear(r)
    BY <1>5 DEF Lose, o
  <2>2. t \in Wizard
    BY <1>1 DEF Wizard
  <2>3. /\ t.senderClosed /\ SameTurn(t, o) /\ SameHistory(t, o) /\ SameSteps(t, o)
        /\ SameRequest(t, o) /\ t.up = o.up /\ t.sent = o.sent /\ t.connected = o.connected
    BY <1>1 DEF Wizard, SameTurn, SameHistory, SameSteps, SameRequest
  <2> HIDE DEF t
  <2>4. "failure" \in Terminals
    BY DEF Terminals
  <2>5. /\ r \in Wizard /\ SameEnds(r, t) /\ SameTurn(r, t) /\ SameHistory(r, t)
        /\ r.sent = t.sent
        /\ Active(t) => Over(r, t, "failure")
        /\ ~Active(t) => r = t
    BY <2>2, <2>4, ResolveTerminalFacts
  <2> HIDE DEF r
  <2>6. /\ u \in Wizard /\ SameRequest(u, r) /\ SameHistory(u, r) /\ SameSteps(u, r)
        /\ ~u.running /\ ~u.initializing /\ ~u.shuttingDown /\ u.reading = "nothing"
        /\ u.up = r.up /\ u.senderClosed = r.senderClosed /\ u.connected = r.connected
        /\ u.sent = r.sent /\ u.closed = r.closed
    BY <2>1, <2>5, ClearFacts
  <2>7. Active(t) <=> Active(v)
    BY <1>2, <2>3 DEF Active, SameRequest
  <2>8. SameHistory(u, v) /\ ~u.up /\ u.sent = <<>> /\ u.senderClosed /\ u.closed = v.closed
        /\ u.connected = v.connected
    BY <1>2, <1>3, <2>3, <2>5, <2>6 DEF SameHistory, SameEnds, SameTurn
  <2>9. CASE Active(v)
    BY <1>2, <1>5, <2>3, <2>5, <2>6, <2>7, <2>8, <2>9 DEF Lost, Over, SameRequest, SameSteps
  <2>10. CASE ~Active(v)
    BY <1>2, <1>5, <2>3, <2>5, <2>6, <2>7, <2>8, <2>10 DEF Lost, SameRequest, SameSteps
  <2> QED
    BY <2>9, <2>10
<1> QED
  BY <1>4, <1>5

\* A request that is over reads nothing more.
LEMMA ReadFacts ==
  ASSUME NEW v \in Wizard, NEW r \in {"failed", "hook", "fingerprint"},
         NEW u, u = Read(v, r)
  PROVE  /\ u \in Wizard /\ SameEnds(u, v) /\ u.sent = v.sent /\ SameSteps(u, v)
         /\ SameRequest(u, v) /\ SameHistory(u, v) /\ u.closed = v.closed
         /\ u.reading = IF Active(v) THEN r ELSE v.reading
<1>1. u \in Wizard
  BY DEF Read, Wizard
<1>2. SameEnds(u, v) /\ SameSteps(u, v) /\ SameRequest(u, v) /\ SameHistory(u, v)
  BY DEF Read, Wizard, SameEnds, SameSteps, SameRequest, SameHistory
<1>3. u.reading = IF Active(v) THEN r ELSE v.reading
  BY DEF Read, Wizard
<1> QED
  BY <1>1, <1>2, <1>3 DEF Read, Wizard

\* An answer stops the timer, and nothing else.
LEMMA AcceptedFacts ==
  ASSUME NEW v \in Wizard, NEW u, u = Accepted(v)
  PROVE  /\ u \in Wizard /\ SameEnds(u, v) /\ u.sent = v.sent /\ SameSteps(u, v)
         /\ SameHistory(u, v) /\ SameTurn(u, v)
         /\ u.request = v.request /\ u.failed = v.failed /\ u.timer = FALSE
         /\ u.sending = v.sending /\ u.started = v.started
<1>1. u \in Wizard
  BY DEF Accepted, Wizard
<1>2. SameEnds(u, v) /\ SameSteps(u, v) /\ SameHistory(u, v) /\ SameTurn(u, v)
  BY DEF Accepted, Wizard, SameEnds, SameSteps, SameTurn, SameHistory
<1> QED
  BY <1>1, <1>2 DEF Accepted, Wizard

\* The modal takes the first step; a terminal one closes the wizard.
LEMMA TakeStepFacts ==
  ASSUME NEW v \in Wizard, v.steps # <<>>, NEW u, u = TakeStep(v)
  PROVE  /\ u \in Wizard /\ SameEnds(u, v) /\ u.sent = v.sent /\ SameRequest(u, v)
         /\ SameHistory(u, v) /\ u.reading = v.reading /\ u.outcomes = v.outcomes
         /\ u.steps = Tail(v.steps)
         /\ u.closed = (v.closed \/ Head(v.steps) \in Terminals)
<1> DEFINE x == Tail(v.steps)
           t == [v EXCEPT !.steps = x, !.outcomes = v.outcomes]
           c == v.closed \/ Head(v.steps) \in Terminals
<1>1. v.steps \in Seq(Steps) /\ x \in Seq(Steps) /\ v.outcomes \in Seq(Terminals)
  BY HeadTailProperties DEF Wizard
<1>2. c \in BOOLEAN
  BY DEF Wizard
<1>3. t \in Wizard
  BY <1>1, StepsType
<1>4. u = [t EXCEPT !.closed = c]
  BY DEF TakeStep, Wizard
<1>5. /\ t.steps = x /\ t.outcomes = v.outcomes /\ SameEnds(t, v) /\ t.sent = v.sent
      /\ SameRequest(t, v) /\ SameHistory(t, v) /\ t.reading = v.reading
  BY DEF Wizard, SameEnds, SameRequest, SameHistory
<1> HIDE DEF t, x, c
<1>6. u \in Wizard
  BY <1>2, <1>3, <1>4 DEF Wizard
<1>7. /\ u.steps = t.steps /\ u.outcomes = t.outcomes /\ SameEnds(u, t) /\ u.sent = t.sent
      /\ SameRequest(u, t) /\ SameHistory(u, t) /\ u.reading = t.reading
      /\ u.closed = c
  BY <1>3, <1>4 DEF Wizard, SameEnds, SameRequest, SameHistory
<1>8. SameEnds(u, v) /\ SameRequest(u, v) /\ SameHistory(u, v)
  BY <1>5, <1>7 DEF SameEnds, SameRequest, SameHistory
<1> QED
  BY <1>5, <1>6, <1>7, <1>8 DEF x, c

\* Closing a wizard gives up what it has under way, once.
LEMMA CloseWizardFacts ==
  ASSUME NEW v \in Wizard, NEW u, u = CloseWizard(v)
  PROVE  /\ u \in Wizard /\ SameHistory(u, v) /\ u.reading = v.reading /\ u.closed
         /\ ~v.closed /\ Active(v) => Over(u, v, "failure") /\ Closed(u, v)
         /\ v.closed \/ ~Active(v) => /\ SameEnds(u, v) /\ u.sent = v.sent
                                      /\ SameRequest(u, v) /\ SameSteps(u, v)
<1> DEFINE t == [v EXCEPT !.closed = TRUE]
<1>1. CASE v.closed
  BY <1>1 DEF CloseWizard, SameHistory, SameEnds, SameRequest, SameSteps
<1>2. CASE ~v.closed
  <2>1. t \in Wizard /\ t.closed /\ t.reading = v.reading /\ SameEnds(t, v) /\ t.sent = v.sent
    BY DEF Wizard, SameEnds
  <2>2. SameHistory(t, v) /\ SameRequest(t, v) /\ SameSteps(t, v)
    BY DEF Wizard, SameHistory, SameRequest, SameSteps
  <2>3. u = Fail(t)
    BY <1>2 DEF CloseWizard
  <2> HIDE DEF t
  <2>4. Active(t) <=> Active(v)
    BY <2>2 DEF Active, SameRequest
  <2>5. /\ u \in Wizard /\ SameTurn(u, t) /\ SameHistory(u, t)
        /\ Active(t) => Over(u, t, "failure") /\ Closed(u, t)
        /\ ~Active(t) => u = t
    BY <2>1, <2>3, FailFacts
  <2>6. CASE Active(v)
    BY <1>2, <2>1, <2>2, <2>4, <2>5, <2>6
      DEF SameTurn, SameHistory, Over, Closed, SameEnds, SameSteps, SameRequest
  <2>7. CASE ~Active(v)
    BY <1>2, <2>1, <2>2, <2>4, <2>5, <2>7 DEF SameTurn, SameHistory
  <2> QED
    BY <2>6, <2>7
<1> QED
  BY <1>1, <1>2

\* A request that is started has one of three ends.
StartedFrom(u, v) ==
  /\ SameTurn(u, v) /\ SameHistory(u, v) /\ u.started /\ ~u.failed
  /\ u.up = v.up /\ u.shuttingDown = v.shuttingDown
  /\ u.senderClosed = v.senderClosed /\ u.connected = v.connected
  /\ \/ /\ u.steps = Append(v.steps, "failure")
        /\ u.outcomes = Append(v.outcomes, "failure")
        /\ u.request = v.request /\ u.sent = v.sent /\ u.sending = v.sending
        /\ \/ u.running = v.running /\ u.initializing = v.initializing
           \/ u.running /\ u.initializing
     \/ /\ u.steps = Append(v.steps, "wait") /\ u.outcomes = v.outcomes
        /\ u.request /\ u.running /\ u.initializing /\ u.sending
        /\ u.sent = IF v.up THEN Append(v.sent, "request") ELSE v.sent

\* A wizard that starts has sent its request, or has failed to.
LEMMA StartFacts ==
  ASSUME NEW v \in Wizard, NEW available \in BOOLEAN, NEW builds \in BOOLEAN,
         NEW carries \in BOOLEAN, NEW u, u = Start(v, available, builds, carries)
  PROVE  u \in Wizard /\ StartedFrom(u, v)
<1> DEFINE f == [v EXCEPT !.started = TRUE, !.failed = FALSE, !.timer = FALSE]
           t == [f EXCEPT !.running = TRUE, !.initializing = TRUE]
           r == [t EXCEPT !.request = TRUE, !.timer = TRUE, !.sending = TRUE]
           p == Put(r, "request")
<1>1. "failure" \in Steps /\ "failure" \in Terminals
      /\ "wait" \in Steps /\ "wait" \notin Terminals /\ "request" \in Bodies
  BY DEF Steps, Terminals, Bodies
<1>2. /\ f \in Wizard /\ SameEnds(f, v) /\ SameTurn(f, v) /\ SameSteps(f, v)
      /\ f.started /\ ~f.failed /\ f.sent = v.sent
      /\ f.request = v.request /\ f.sending = v.sending
  BY DEF Wizard, SameEnds, SameTurn, SameSteps
<1>3. SameHistory(f, v)
  BY DEF Wizard, SameHistory
<1> HIDE DEF f
<1>4. /\ t \in Wizard /\ SameTurn(t, f) /\ SameSteps(t, f) /\ SameRequest(t, f)
      /\ t.sent = f.sent /\ t.up = f.up /\ t.shuttingDown = f.shuttingDown
      /\ t.senderClosed = f.senderClosed /\ t.connected = f.connected
      /\ t.running /\ t.initializing
  BY <1>2 DEF Wizard, SameTurn, SameSteps, SameRequest
<1>5. SameHistory(t, f)
  BY <1>2 DEF Wizard, SameHistory
<1> HIDE DEF t
<1>6. /\ r \in Wizard /\ SameTurn(r, t) /\ SameSteps(r, t) /\ SameEnds(r, t)
      /\ r.sent = t.sent /\ r.started = t.started /\ r.failed = t.failed
      /\ r.request /\ r.sending
  BY <1>4 DEF Wizard, SameTurn, SameSteps, SameEnds
<1>7. SameHistory(r, t)
  BY <1>4 DEF Wizard, SameHistory
<1> HIDE DEF r
<1>8. /\ p \in Wizard /\ p.sent = IF r.up THEN Append(r.sent, "request") ELSE r.sent
      /\ SameEnds(p, r) /\ SameTurn(p, r) /\ SameRequest(p, r) /\ SameHistory(p, r)
      /\ SameSteps(p, r)
  BY <1>1, <1>6, PutFacts
<1> HIDE DEF p
<1>9. CASE ~(available /\ builds)
  <2>1. u = Push(f, "failure")
    BY <1>9 DEF Start, f
  <2>2. /\ u \in Wizard /\ u.steps = Append(f.steps, "failure")
        /\ u.outcomes = Append(f.outcomes, "failure")
        /\ SameEnds(u, f) /\ SameTurn(u, f) /\ SameRequest(u, f) /\ SameHistory(u, f)
        /\ u.sent = f.sent
    BY <1>1, <1>2, <2>1, PushEnds
  <2> QED
    BY <1>2, <1>3, <2>2 DEF StartedFrom, SameEnds, SameTurn, SameRequest, SameHistory, SameSteps
<1>10. CASE available /\ builds /\ ~carries
  <2>1. u = Push(t, "failure")
    BY <1>10 DEF Start, f, t
  <2>2. /\ u \in Wizard /\ u.steps = Append(t.steps, "failure")
        /\ u.outcomes = Append(t.outcomes, "failure")
        /\ SameEnds(u, t) /\ SameTurn(u, t) /\ SameRequest(u, t) /\ SameHistory(u, t)
        /\ u.sent = t.sent
    BY <1>1, <1>4, <2>1, PushEnds
  <2> QED
    BY <1>2, <1>3, <1>4, <1>5, <2>2
      DEF StartedFrom, SameEnds, SameTurn, SameRequest, SameHistory, SameSteps
<1>11. CASE available /\ builds /\ carries
  <2>1. u = Push(p, "wait")
    BY <1>11 DEF Start, f, t, r, p
  <2>2. /\ u \in Wizard /\ u.steps = Append(p.steps, "wait")
        /\ u.outcomes = p.outcomes
        /\ SameEnds(u, p) /\ SameTurn(u, p) /\ SameRequest(u, p) /\ SameHistory(u, p)
        /\ u.sent = p.sent
    BY <1>1, <1>8, <2>1, PushGoesOn
  <2>3. SameHistory(u, v)
    BY <1>3, <1>5, <1>7, <1>8, <2>2 DEF SameHistory
  <2>4. SameTurn(u, v) /\ u.steps = Append(v.steps, "wait") /\ u.outcomes = v.outcomes
    BY <1>2, <1>4, <1>6, <1>8, <2>2 DEF SameTurn, SameSteps
  <2>5. /\ u.started /\ ~u.failed /\ u.request /\ u.sending /\ u.running /\ u.initializing
        /\ u.up = v.up /\ u.shuttingDown = v.shuttingDown
        /\ u.senderClosed = v.senderClosed /\ u.connected = v.connected
        /\ u.sent = IF v.up THEN Append(v.sent, "request") ELSE v.sent
    BY <1>2, <1>4, <1>6, <1>8, <2>2 DEF SameEnds, SameRequest
  <2> QED
    BY <2>2, <2>3, <2>4, <2>5 DEF StartedFrom
<1> QED
  BY <1>9, <1>10, <1>11

---------------------------------------------------------------------------
(* What the four commands have in common                                   *)

Begin(v) == Resolve(Accepted(v), "wait")
Blame(v, field) ==
  IF Active(v) THEN ResolveTerminal([Accepted(v) EXCEPT !.blamed = field], "failure") ELSE v

Succeed(v) ==
  LET u == [v EXCEPT !.connected = TRUE]
  IN IF Active(u) /\ u.config["encoding"] # "good" THEN Lose(u)
                                                   ELSE ResolveTerminal(u, "success")
Confirm(v) ==
  IF v.known = "same" THEN IF v.senderClosed THEN Lose(v) ELSE Resolve(Put(v, "trust"), "wait")
                      ELSE Resolve(v, "fingerprint")
Enter(v) ==
  IF Active(v) THEN IF v.cached THEN Resolve(Put(v, "credential"), "wait")
                                ELSE Resolve(v, "credential")
               ELSE v

\* What the tick does that is told k.
Hear(v, k) ==
  IF v.connected THEN IF k = "output" THEN v ELSE Misread(v)
  ELSE CASE k = "output" -> Misread(v)
         [] k = "connected" -> Succeed(v)
         [] k = "credential" -> Enter(v)
         [] OTHER -> Read(v, k)

\* The operations of the SSH command are those of every command.
LEMMA SshOperations ==
  ASSUME NEW v, NEW s
  PROVE  /\ Ssh!Active(v) <=> Active(v)
         /\ Ssh!Push(v, s) = Push(v, s) /\ Ssh!Put(v, s) = Put(v, s)
         /\ Ssh!Lose(v) = Lose(v) /\ Ssh!Resolve(v, s) = Resolve(v, s)
         /\ Ssh!ResolveTerminal(v, s) = ResolveTerminal(v, s)
         /\ Ssh!Read(v, s) = Read(v, s) /\ Ssh!Misread(v) = Misread(v)
         /\ Ssh!Accepted(v) = Accepted(v) /\ Ssh!CloseSender(v) = CloseSender(v)
<1>1. Ssh!Active(v) <=> Active(v)
  BY DEF Ssh!Active, Active
<1>2. Ssh!Push(v, s) = Push(v, s)
  BY Zenon DEF Ssh!Push, Push, Ssh!Terminals, Terminals
<1>3. Ssh!Put(v, s) = Put(v, s)
  BY Zenon DEF Ssh!Put, Put
<1>4. Ssh!Lose(v) = Lose(v)
  BY Zenon DEF Ssh!Lose, Lose, Ssh!Clear, Clear, Ssh!ResolveTerminal, ResolveTerminal,
    Ssh!Complete, Complete, Ssh!Active, Active, Ssh!Push, Push, Ssh!Terminals, Terminals
<1>5. Ssh!Resolve(v, s) = Resolve(v, s)
  BY <1>1, <1>2, Zenon DEF Ssh!Resolve, Resolve
<1>6. Ssh!ResolveTerminal(v, s) = ResolveTerminal(v, s)
  BY <1>1, <1>2, Zenon DEF Ssh!ResolveTerminal, ResolveTerminal, Ssh!Complete, Complete
<1>7. Ssh!Read(v, s) = Read(v, s)
  BY <1>1, Zenon DEF Ssh!Read, Read
<1>8. Ssh!Misread(v) = Misread(v)
  BY <1>4, Zenon DEF Ssh!Misread, Misread
<1>9. Ssh!Accepted(v) = Accepted(v)
  BY Zenon DEF Ssh!Accepted, Accepted
<1>10. Ssh!CloseSender(v) = CloseSender(v)
  BY Zenon DEF Ssh!CloseSender, CloseSender, Ssh!Put, Put
<1> QED
  BY <1>1, <1>2, <1>3, <1>4, <1>5, <1>6, <1>7, <1>8, <1>9, <1>10

\* How the SSH command starts.
LEMMA SshStarts ==
  ASSUME NEW v, NEW available
  PROVE  /\ Ssh!Builds(v.config) \in BOOLEAN /\ Ssh!Carries(v.config) \in BOOLEAN
         /\ Ssh!SubmitInitialPrompt(v, available)
              = Start(v, available, Ssh!Builds(v.config), Ssh!Carries(v.config))
         /\ Ssh!Run(v, available)
              = IF v.way = "wizard" THEN Push(v, "form")
                ELSE Start(v, available, Ssh!Builds(v.config), Ssh!Carries(v.config))
<1>1. Ssh!Builds(v.config) \in BOOLEAN
  BY DEF Ssh!Builds, Ssh!HostParses
<1>2. Ssh!Carries(v.config) \in BOOLEAN
  BY DEF Ssh!Carries
<1>3. \A b, c : Ssh!Start(v, available, b, c) = Start(v, available, b, c)
  BY Zenon DEF Ssh!Start, Start, Ssh!Push, Push, Ssh!Put, Put, Ssh!Terminals, Terminals
<1>4. Ssh!StartBackendRequest(v, available)
        = Start(v, available, Ssh!Builds(v.config), Ssh!Carries(v.config))
  BY <1>3, Zenon DEF Ssh!StartBackendRequest
<1>5. Ssh!Push(v, "form") = Push(v, "form")
  BY SshOperations
<1> QED
  BY <1>1, <1>2, <1>4, <1>5, Zenon DEF Ssh!SubmitInitialPrompt, Ssh!Run, Ssh!StepInitialPrompt,
    Ssh!ExecuterInitialStep

\* How the SSH command takes the answer to its request, and the end of it.
LEMMA SshAnswers ==
  ASSUME NEW v, NEW code
  PROVE  /\ code = 0 => Ssh!Initialize(v, code) = Begin(v)
         /\ code # 0 /\ code \in DOMAIN Ssh!RequestErrors =>
              Ssh!Initialize(v, code) = Blame(v, Ssh!RequestErrors[code])
         /\ Ssh!ConnectHasFailed(v) = ResolveTerminal(v, "failure")
         /\ Ssh!Completed(v) = ResolveTerminal(v, "failure")
         /\ Ssh!StepHookOutputPrompt(v) = Resolve(v, "wait")
<1>1. Ssh!Initialized(v) = Begin(v)
  BY SshOperations, Zenon DEF Ssh!Initialized, Begin
<1>2. code \in DOMAIN Ssh!RequestErrors =>
        Ssh!InitializationFailed(v, code) = Blame(v, Ssh!RequestErrors[code])
  BY SshOperations, Zenon DEF Ssh!InitializationFailed, Blame
<1>3. Ssh!ConnectHasFailed(v) = ResolveTerminal(v, "failure")
  BY SshOperations, Zenon DEF Ssh!ConnectHasFailed
<1>4. Ssh!Completed(v) = ResolveTerminal(v, "failure")
  BY SshOperations, Zenon DEF Ssh!Completed
<1>5. Ssh!StepHookOutputPrompt(v) = Resolve(v, "wait")
  BY SshOperations, Zenon DEF Ssh!StepHookOutputPrompt
<1> QED
  BY <1>1, <1>2, <1>3, <1>4, <1>5, Zenon DEF Ssh!Initialize

\* What the SSH command makes of its server's markers.
LEMMA SshTicks ==
  ASSUME NEW v, NEW k \in DOMAIN SshMarkers
  PROVE  Ssh!Tick(v, SshMarkers[k]) = Hear(v, k)
<1>1. k \in {"output", "hook", "failed", "connected", "fingerprint", "credential"}
  BY DEF SshMarkers
<1>2. CASE k = "output"
  <2>1. Ssh!Markers[SshMarkers[k]] = "stdout"
    BY <1>2 DEF Ssh!Markers, SshMarkers
  <2> QED
    BY <1>2, <2>1, SshOperations, Zenon DEF Ssh!Tick, Hear
<1>3. CASE k = "hook"
  <2>1. Ssh!Markers[SshMarkers[k]] = "hook"
    BY <1>3 DEF Ssh!Markers, SshMarkers
  <2> QED
    BY <1>3, <2>1, SshOperations, Zenon DEF Ssh!Tick, Hear, Ssh!HookBeforeConnected
<1>4. CASE k = "failed"
  <2>1. Ssh!Markers[SshMarkers[k]] = "failed"
    BY <1>4 DEF Ssh!Markers, SshMarkers
  <2> QED
    BY <1>4, <2>1, SshOperations, Zenon DEF Ssh!Tick, Hear, Ssh!ConnectFailed
<1>5. CASE k = "connected"
  <2>1. Ssh!Markers[SshMarkers[k]] = "connected"
    BY <1>5 DEF Ssh!Markers, SshMarkers
  <2> QED
    BY <1>5, <2>1, SshOperations, Zenon DEF Ssh!Tick, Hear, Ssh!ConnectSucceed, Succeed, Ssh!Throw
<1>6. CASE k = "fingerprint"
  <2>1. Ssh!Markers[SshMarkers[k]] = "fingerprint"
    BY <1>6 DEF Ssh!Markers, SshMarkers
  <2> QED
    BY <1>6, <2>1, SshOperations, Zenon DEF Ssh!Tick, Hear, Ssh!ConnectFingerprint
<1>7. CASE k = "credential"
  <2>1. Ssh!Markers[SshMarkers[k]] = "credential"
    BY <1>7 DEF Ssh!Markers, SshMarkers
  <2> QED
    BY <1>7, <2>1, SshOperations, Zenon
      DEF Ssh!Tick, Hear, Ssh!ConnectCredential, Ssh!StepCredentialPrompt, Ssh!Send, Enter
<1> QED
  BY <1>1, <1>2, <1>3, <1>4, <1>5, <1>6, <1>7

\* What the prompts of the SSH command do.
LEMMA SshPrompts ==
  ASSUME NEW v
  PROVE  /\ Ssh!StepFingerprintPrompt(v) = Confirm(v)
         /\ Ssh!AcceptFingerprint(v) = Push(Put([v EXCEPT !.known = "same"], "trust"), "wait")
         /\ Ssh!RejectFingerprint(v) = Push(Put(v, "refuse"), "wait")
         /\ Ssh!GiveCredential(v) = Push(Put(v, "credential"), "wait")
         /\ Ssh!CancelLogin(v) = Push(CloseSender(v), "wait")
<1>1. Ssh!StepFingerprintPrompt(v) = Confirm(v)
  BY SshOperations, Zenon DEF Ssh!StepFingerprintPrompt, Confirm, Ssh!Throw, Ssh!Send
<1> QED
  BY <1>1, SshOperations, Zenon DEF Ssh!AcceptFingerprint, Ssh!RejectFingerprint,
    Ssh!GiveCredential, Ssh!CancelLogin, Ssh!Send

\* The operations of the Mosh command are those of every command.
LEMMA MoshOperations ==
  ASSUME NEW v, NEW s
  PROVE  /\ Mosh!Active(v) <=> Active(v)
         /\ Mosh!Push(v, s) = Push(v, s) /\ Mosh!Put(v, s) = Put(v, s)
         /\ Mosh!Lose(v) = Lose(v) /\ Mosh!Resolve(v, s) = Resolve(v, s)
         /\ Mosh!ResolveTerminal(v, s) = ResolveTerminal(v, s)
         /\ Mosh!Read(v, s) = Read(v, s) /\ Mosh!Misread(v) = Misread(v)
         /\ Mosh!Accepted(v) = Accepted(v) /\ Mosh!CloseSender(v) = CloseSender(v)
<1>1. Mosh!Active(v) <=> Active(v)
  BY DEF Mosh!Active, Active
<1>2. Mosh!Push(v, s) = Push(v, s)
  BY Zenon DEF Mosh!Push, Push, Mosh!Terminals, Terminals
<1>3. Mosh!Put(v, s) = Put(v, s)
  BY Zenon DEF Mosh!Put, Put
<1>4. Mosh!Lose(v) = Lose(v)
  BY Zenon DEF Mosh!Lose, Lose, Mosh!Clear, Clear, Mosh!ResolveTerminal, ResolveTerminal,
    Mosh!Complete, Complete, Mosh!Active, Active, Mosh!Push, Push, Mosh!Terminals, Terminals
<1>5. Mosh!Resolve(v, s) = Resolve(v, s)
  BY <1>1, <1>2, Zenon DEF Mosh!Resolve, Resolve
<1>6. Mosh!ResolveTerminal(v, s) = ResolveTerminal(v, s)
  BY <1>1, <1>2, Zenon DEF Mosh!ResolveTerminal, ResolveTerminal, Mosh!Complete, Complete
<1>7. Mosh!Read(v, s) = Read(v, s)
  BY <1>1, Zenon DEF Mosh!Read, Read
<1>8. Mosh!Misread(v) = Misread(v)
  BY <1>4, Zenon DEF Mosh!Misread, Misread
<1>9. Mosh!Accepted(v) = Accepted(v)
  BY Zenon DEF Mosh!Accepted, Accepted
<1>10. Mosh!CloseSender(v) = CloseSender(v)
  BY Zenon DEF Mosh!CloseSender, CloseSender, Mosh!Put, Put
<1> QED
  BY <1>1, <1>2, <1>3, <1>4, <1>5, <1>6, <1>7, <1>8, <1>9, <1>10

\* How the Mosh command starts.
LEMMA MoshStarts ==
  ASSUME NEW v, NEW available
  PROVE  /\ Mosh!Builds(v.config) \in BOOLEAN /\ Mosh!Carries(v.config) \in BOOLEAN
         /\ Mosh!SubmitInitialPrompt(v, available)
              = Start(v, available, Mosh!Builds(v.config), Mosh!Carries(v.config))
         /\ Mosh!Run(v, available)
              = IF v.way = "wizard" THEN Push(v, "form")
                ELSE Start(v, available, Mosh!Builds(v.config), Mosh!Carries(v.config))
<1>1. Mosh!Builds(v.config) \in BOOLEAN
  BY DEF Mosh!Builds, Mosh!HostParses
<1>2. Mosh!Carries(v.config) \in BOOLEAN
  BY DEF Mosh!Carries
<1>3. \A b, c : Mosh!Start(v, available, b, c) = Start(v, available, b, c)
  BY Zenon DEF Mosh!Start, Start, Mosh!Push, Push, Mosh!Put, Put, Mosh!Terminals, Terminals
<1>4. Mosh!StartBackendRequest(v, available)
        = Start(v, available, Mosh!Builds(v.config), Mosh!Carries(v.config))
  BY <1>3, Zenon DEF Mosh!StartBackendRequest
<1>5. Mosh!Push(v, "form") = Push(v, "form")
  BY MoshOperations
<1> QED
  BY <1>1, <1>2, <1>4, <1>5, Zenon DEF Mosh!SubmitInitialPrompt, Mosh!Run, Mosh!StepInitialPrompt,
    Mosh!ExecuterInitialStep

\* How the Mosh command takes the answer to its request, and the end of it.
LEMMA MoshAnswers ==
  ASSUME NEW v, NEW code
  PROVE  /\ code = 0 => Mosh!Initialize(v, code) = Begin(v)
         /\ code # 0 /\ code \in DOMAIN Mosh!RequestErrors =>
              Mosh!Initialize(v, code) = Blame(v, Mosh!RequestErrors[code])
         /\ Mosh!ConnectHasFailed(v) = ResolveTerminal(v, "failure")
         /\ Mosh!Completed(v) = ResolveTerminal(v, "failure")
         /\ Mosh!StepHookOutputPrompt(v) = Resolve(v, "wait")
<1>1. Mosh!Initialized(v) = Begin(v)
  BY MoshOperations, Zenon DEF Mosh!Initialized, Begin
<1>2. code \in DOMAIN Mosh!RequestErrors =>
        Mosh!InitializationFailed(v, code) = Blame(v, Mosh!RequestErrors[code])
  BY MoshOperations, Zenon DEF Mosh!InitializationFailed, Blame
<1>3. Mosh!ConnectHasFailed(v) = ResolveTerminal(v, "failure")
  BY MoshOperations, Zenon DEF Mosh!ConnectHasFailed
<1>4. Mosh!Completed(v) = ResolveTerminal(v, "failure")
  BY MoshOperations, Zenon DEF Mosh!Completed
<1>5. Mosh!StepHookOutputPrompt(v) = Resolve(v, "wait")
  BY MoshOperations, Zenon DEF Mosh!StepHookOutputPrompt
<1> QED
  BY <1>1, <1>2, <1>3, <1>4, <1>5, Zenon DEF Mosh!Initialize

\* What the Mosh command makes of its server's markers.
LEMMA MoshTicks ==
  ASSUME NEW v, NEW k \in DOMAIN MoshMarkers
  PROVE  Mosh!Tick(v, MoshMarkers[k]) = Hear(v, k)
<1>1. k \in {"output", "hook", "failed", "connected", "fingerprint", "credential"}
  BY DEF MoshMarkers
<1>2. CASE k = "output"
  <2>1. Mosh!Markers[MoshMarkers[k]] = "stdout"
    BY <1>2 DEF Mosh!Markers, MoshMarkers
  <2> QED
    BY <1>2, <2>1, MoshOperations, Zenon DEF Mosh!Tick, Hear
<1>3. CASE k = "hook"
  <2>1. Mosh!Markers[MoshMarkers[k]] = "hook"
    BY <1>3 DEF Mosh!Markers, MoshMarkers
  <2> QED
    BY <1>3, <2>1, MoshOperations, Zenon DEF Mosh!Tick, Hear, Mosh!HookBeforeConnected
<1>4. CASE k = "failed"
  <2>1. Mosh!Markers[MoshMarkers[k]] = "failed"
    BY <1>4 DEF Mosh!Markers, MoshMarkers
  <2> QED
    BY <1>4, <2>1, MoshOperations, Zenon DEF Mosh!Tick, Hear, Mosh!ConnectFailed
<1>5. CASE k = "connected"
  <2>1. Mosh!Markers[MoshMarkers[k]] = "connected"
    BY <1>5 DEF Mosh!Markers, MoshMarkers
  <2> QED
    BY <1>5, <2>1, MoshOperations, Zenon
      DEF Mosh!Tick, Hear, Mosh!ConnectSucceed, Succeed, Mosh!Throw
<1>6. CASE k = "fingerprint"
  <2>1. Mosh!Markers[MoshMarkers[k]] = "fingerprint"
    BY <1>6 DEF Mosh!Markers, MoshMarkers
  <2> QED
    BY <1>6, <2>1, MoshOperations, Zenon DEF Mosh!Tick, Hear, Mosh!ConnectFingerprint
<1>7. CASE k = "credential"
  <2>1. Mosh!Markers[MoshMarkers[k]] = "credential"
    BY <1>7 DEF Mosh!Markers, MoshMarkers
  <2> QED
    BY <1>7, <2>1, MoshOperations, Zenon
      DEF Mosh!Tick, Hear, Mosh!ConnectCredential, Mosh!StepCredentialPrompt, Mosh!Send, Enter
<1> QED
  BY <1>1, <1>2, <1>3, <1>4, <1>5, <1>6, <1>7

\* What the prompts of the Mosh command do.
LEMMA MoshPrompts ==
  ASSUME NEW v
  PROVE  /\ Mosh!StepFingerprintPrompt(v) = Confirm(v)
         /\ Mosh!AcceptFingerprint(v) = Push(Put([v EXCEPT !.known = "same"], "trust"), "wait")
         /\ Mosh!RejectFingerprint(v) = Push(Put(v, "refuse"), "wait")
         /\ Mosh!GiveCredential(v) = Push(Put(v, "credential"), "wait")
         /\ Mosh!CancelLogin(v) = Push(CloseSender(v), "wait")
<1>1. Mosh!StepFingerprintPrompt(v) = Confirm(v)
  BY MoshOperations, Zenon DEF Mosh!StepFingerprintPrompt, Confirm, Mosh!Throw, Mosh!Send
<1> QED
  BY <1>1, MoshOperations, Zenon DEF Mosh!AcceptFingerprint, Mosh!RejectFingerprint,
    Mosh!GiveCredential, Mosh!CancelLogin, Mosh!Send

\* The operations of the ET command are those of every command.
LEMMA EtOperations ==
  ASSUME NEW v, NEW s
  PROVE  /\ Et!Active(v) <=> Active(v)
         /\ Et!Push(v, s) = Push(v, s) /\ Et!Put(v, s) = Put(v, s)
         /\ Et!Lose(v) = Lose(v) /\ Et!Resolve(v, s) = Resolve(v, s)
         /\ Et!ResolveTerminal(v, s) = ResolveTerminal(v, s)
         /\ Et!Read(v, s) = Read(v, s) /\ Et!Misread(v) = Misread(v)
         /\ Et!Accepted(v) = Accepted(v) /\ Et!CloseSender(v) = CloseSender(v)
<1>1. Et!Active(v) <=> Active(v)
  BY DEF Et!Active, Active
<1>2. Et!Push(v, s) = Push(v, s)
  BY Zenon DEF Et!Push, Push, Et!Terminals, Terminals
<1>3. Et!Put(v, s) = Put(v, s)
  BY Zenon DEF Et!Put, Put
<1>4. Et!Lose(v) = Lose(v)
  BY Zenon DEF Et!Lose, Lose, Et!Clear, Clear, Et!ResolveTerminal, ResolveTerminal,
    Et!Complete, Complete, Et!Active, Active, Et!Push, Push, Et!Terminals, Terminals
<1>5. Et!Resolve(v, s) = Resolve(v, s)
  BY <1>1, <1>2, Zenon DEF Et!Resolve, Resolve
<1>6. Et!ResolveTerminal(v, s) = ResolveTerminal(v, s)
  BY <1>1, <1>2, Zenon DEF Et!ResolveTerminal, ResolveTerminal, Et!Complete, Complete
<1>7. Et!Read(v, s) = Read(v, s)
  BY <1>1, Zenon DEF Et!Read, Read
<1>8. Et!Misread(v) = Misread(v)
  BY <1>4, Zenon DEF Et!Misread, Misread
<1>9. Et!Accepted(v) = Accepted(v)
  BY Zenon DEF Et!Accepted, Accepted
<1>10. Et!CloseSender(v) = CloseSender(v)
  BY Zenon DEF Et!CloseSender, CloseSender, Et!Put, Put
<1> QED
  BY <1>1, <1>2, <1>3, <1>4, <1>5, <1>6, <1>7, <1>8, <1>9, <1>10

\* How the ET command starts.
LEMMA EtStarts ==
  ASSUME NEW v, NEW available
  PROVE  /\ Et!Builds(v.config) \in BOOLEAN /\ Et!Carries(v.config) \in BOOLEAN
         /\ Et!SubmitInitialPrompt(v, available)
              = Start(v, available, Et!Builds(v.config), Et!Carries(v.config))
         /\ Et!Run(v, available)
              = IF v.way = "wizard" THEN Push(v, "form")
                ELSE Start(v, available, Et!Builds(v.config), Et!Carries(v.config))
<1>1. Et!Builds(v.config) \in BOOLEAN
  BY DEF Et!Builds, Et!HostParses
<1>2. Et!Carries(v.config) \in BOOLEAN
  BY DEF Et!Carries
<1>3. \A b, c : Et!Start(v, available, b, c) = Start(v, available, b, c)
  BY Zenon DEF Et!Start, Start, Et!Push, Push, Et!Put, Put, Et!Terminals, Terminals
<1>4. Et!StartBackendRequest(v, available)
        = Start(v, available, Et!Builds(v.config), Et!Carries(v.config))
  BY <1>3, Zenon DEF Et!StartBackendRequest
<1>5. Et!Push(v, "form") = Push(v, "form")
  BY EtOperations
<1> QED
  BY <1>1, <1>2, <1>4, <1>5, Zenon DEF Et!SubmitInitialPrompt, Et!Run, Et!StepInitialPrompt,
    Et!ExecuterInitialStep

\* How the ET command takes the answer to its request, and the end of it.
LEMMA EtAnswers ==
  ASSUME NEW v, NEW code
  PROVE  /\ code = 0 => Et!Initialize(v, code) = Begin(v)
         /\ code # 0 /\ code \in DOMAIN Et!RequestErrors =>
              Et!Initialize(v, code) = Blame(v, Et!RequestErrors[code])
         /\ Et!ConnectHasFailed(v) = ResolveTerminal(v, "failure")
         /\ Et!Completed(v) = ResolveTerminal(v, "failure")
         /\ Et!StepHookOutputPrompt(v) = Resolve(v, "wait")
<1>1. Et!Initialized(v) = Begin(v)
  BY EtOperations, Zenon DEF Et!Initialized, Begin
<1>2. code \in DOMAIN Et!RequestErrors =>
        Et!InitializationFailed(v, code) = Blame(v, Et!RequestErrors[code])
  BY EtOperations, Zenon DEF Et!InitializationFailed, Blame
<1>3. Et!ConnectHasFailed(v) = ResolveTerminal(v, "failure")
  BY EtOperations, Zenon DEF Et!ConnectHasFailed
<1>4. Et!Completed(v) = ResolveTerminal(v, "failure")
  BY EtOperations, Zenon DEF Et!Completed
<1>5. Et!StepHookOutputPrompt(v) = Resolve(v, "wait")
  BY EtOperations, Zenon DEF Et!StepHookOutputPrompt
<1> QED
  BY <1>1, <1>2, <1>3, <1>4, <1>5, Zenon DEF Et!Initialize

\* What the ET command makes of its server's markers.
LEMMA EtTicks ==
  ASSUME NEW v, NEW k \in DOMAIN EtMarkers
  PROVE  Et!Tick(v, EtMarkers[k]) = Hear(v, k)
<1>1. k \in {"output", "hook", "failed", "connected", "fingerprint", "credential"}
  BY DEF EtMarkers, MoshMarkers
<1>2. CASE k = "output"
  <2>1. Et!Markers[EtMarkers[k]] = "stdout"
    BY <1>2 DEF Et!Markers, EtMarkers, MoshMarkers
  <2> QED
    BY <1>2, <2>1, EtOperations, Zenon DEF Et!Tick, Hear
<1>3. CASE k = "hook"
  <2>1. Et!Markers[EtMarkers[k]] = "hook"
    BY <1>3 DEF Et!Markers, EtMarkers, MoshMarkers
  <2> QED
    BY <1>3, <2>1, EtOperations, Zenon DEF Et!Tick, Hear, Et!HookBeforeConnected
<1>4. CASE k = "failed"
  <2>1. Et!Markers[EtMarkers[k]] = "failed"
    BY <1>4 DEF Et!Markers, EtMarkers, MoshMarkers
  <2> QED
    BY <1>4, <2>1, EtOperations, Zenon DEF Et!Tick, Hear, Et!ConnectFailed
<1>5. CASE k = "connected"
  <2>1. Et!Markers[EtMarkers[k]] = "connected"
    BY <1>5 DEF Et!Markers, EtMarkers, MoshMarkers
  <2> QED
    BY <1>5, <2>1, EtOperations, Zenon DEF Et!Tick, Hear, Et!ConnectSucceed, Succeed, Et!Throw
<1>6. CASE k = "fingerprint"
  <2>1. Et!Markers[EtMarkers[k]] = "fingerprint"
    BY <1>6 DEF Et!Markers, EtMarkers, MoshMarkers
  <2> QED
    BY <1>6, <2>1, EtOperations, Zenon DEF Et!Tick, Hear, Et!ConnectFingerprint
<1>7. CASE k = "credential"
  <2>1. Et!Markers[EtMarkers[k]] = "credential"
    BY <1>7 DEF Et!Markers, EtMarkers, MoshMarkers
  <2> QED
    BY <1>7, <2>1, EtOperations, Zenon
      DEF Et!Tick, Hear, Et!ConnectCredential, Et!StepCredentialPrompt, Et!Send, Enter
<1> QED
  BY <1>1, <1>2, <1>3, <1>4, <1>5, <1>6, <1>7

\* What the prompts of the ET command do.
LEMMA EtPrompts ==
  ASSUME NEW v
  PROVE  /\ Et!StepFingerprintPrompt(v) = Confirm(v)
         /\ Et!AcceptFingerprint(v) = Push(Put([v EXCEPT !.known = "same"], "trust"), "wait")
         /\ Et!RejectFingerprint(v) = Push(Put(v, "refuse"), "wait")
         /\ Et!GiveCredential(v) = Push(Put(v, "credential"), "wait")
         /\ Et!CancelLogin(v) = Push(CloseSender(v), "wait")
<1>1. Et!StepFingerprintPrompt(v) = Confirm(v)
  BY EtOperations, Zenon DEF Et!StepFingerprintPrompt, Confirm, Et!Throw, Et!Send
<1> QED
  BY <1>1, EtOperations, Zenon DEF Et!AcceptFingerprint, Et!RejectFingerprint,
    Et!GiveCredential, Et!CancelLogin, Et!Send

\* The operations of the Telnet command are those of every command.
LEMMA TelnetOperations ==
  ASSUME NEW v, NEW s
  PROVE  /\ Telnet!Active(v) <=> Active(v)
         /\ Telnet!Push(v, s) = Push(v, s) /\ Telnet!Put(v, s) = Put(v, s)
         /\ Telnet!Lose(v) = Lose(v) /\ Telnet!Resolve(v, s) = Resolve(v, s)
         /\ Telnet!ResolveTerminal(v, s) = ResolveTerminal(v, s)
         /\ Telnet!Read(v, s) = Read(v, s) /\ Telnet!Misread(v) = Misread(v)
         /\ Telnet!Accepted(v) = Accepted(v) /\ Telnet!CloseSender(v) = CloseSender(v)
<1>1. Telnet!Active(v) <=> Active(v)
  BY DEF Telnet!Active, Active
<1>2. Telnet!Push(v, s) = Push(v, s)
  BY Zenon DEF Telnet!Push, Push, Telnet!Terminals, Terminals
<1>3. Telnet!Put(v, s) = Put(v, s)
  BY Zenon DEF Telnet!Put, Put
<1>4. Telnet!Lose(v) = Lose(v)
  BY Zenon DEF Telnet!Lose, Lose, Telnet!Clear, Clear, Telnet!ResolveTerminal, ResolveTerminal,
    Telnet!Complete, Complete, Telnet!Active, Active, Telnet!Push, Push, Telnet!Terminals, Terminals
<1>5. Telnet!Resolve(v, s) = Resolve(v, s)
  BY <1>1, <1>2, Zenon DEF Telnet!Resolve, Resolve
<1>6. Telnet!ResolveTerminal(v, s) = ResolveTerminal(v, s)
  BY <1>1, <1>2, Zenon DEF Telnet!ResolveTerminal, ResolveTerminal, Telnet!Complete, Complete
<1>7. Telnet!Read(v, s) = Read(v, s)
  BY <1>1, Zenon DEF Telnet!Read, Read
<1>8. Telnet!Misread(v) = Misread(v)
  BY <1>4, Zenon DEF Telnet!Misread, Misread
<1>9. Telnet!Accepted(v) = Accepted(v)
  BY Zenon DEF Telnet!Accepted, Accepted
<1>10. Telnet!CloseSender(v) = CloseSender(v)
  BY Zenon DEF Telnet!CloseSender, CloseSender, Telnet!Put, Put
<1> QED
  BY <1>1, <1>2, <1>3, <1>4, <1>5, <1>6, <1>7, <1>8, <1>9, <1>10

\* How the Telnet command starts.
LEMMA TelnetStarts ==
  ASSUME NEW v, NEW available
  PROVE  /\ Telnet!Builds(v.config) \in BOOLEAN /\ Telnet!Carries(v.config) \in BOOLEAN
         /\ Telnet!SubmitInitialPrompt(v, available)
              = Start(v, available, Telnet!Builds(v.config), Telnet!Carries(v.config))
         /\ Telnet!Run(v, available)
              = IF v.way = "wizard" THEN Push(v, "form")
                ELSE Start(v, available, Telnet!Builds(v.config), Telnet!Carries(v.config))
<1>1. Telnet!Builds(v.config) \in BOOLEAN
  BY DEF Telnet!Builds, Telnet!HostParses
<1>2. Telnet!Carries(v.config) \in BOOLEAN
  BY DEF Telnet!Carries
<1>3. \A b, c : Telnet!Start(v, available, b, c) = Start(v, available, b, c)
  BY Zenon
    DEF Telnet!Start, Start, Telnet!Push, Push, Telnet!Put, Put, Telnet!Terminals, Terminals
<1>4. Telnet!StartBackendRequest(v, available)
        = Start(v, available, Telnet!Builds(v.config), Telnet!Carries(v.config))
  BY <1>3, Zenon DEF Telnet!StartBackendRequest
<1>5. Telnet!Push(v, "form") = Push(v, "form")
  BY TelnetOperations
<1> QED
  BY <1>1, <1>2, <1>4, <1>5, Zenon
    DEF Telnet!SubmitInitialPrompt, Telnet!Run, Telnet!StepInitialPrompt,
    Telnet!ExecuterInitialStep

\* How the Telnet command takes the answer to its request, and the end of it.
LEMMA TelnetAnswers ==
  ASSUME NEW v, NEW code
  PROVE  /\ code = 0 => Telnet!Initialize(v, code) = Begin(v)
         /\ code # 0 /\ code \in DOMAIN Telnet!RequestErrors =>
              Telnet!Initialize(v, code) = Blame(v, Telnet!RequestErrors[code])
         /\ Telnet!ConnectHasFailed(v) = ResolveTerminal(v, "failure")
         /\ Telnet!Completed(v) = ResolveTerminal(v, "failure")
         /\ Telnet!StepHookOutputPrompt(v) = Resolve(v, "wait")
<1>1. Telnet!Initialized(v) = Begin(v)
  BY TelnetOperations, Zenon DEF Telnet!Initialized, Begin
<1>2. code \in DOMAIN Telnet!RequestErrors =>
        Telnet!InitializationFailed(v, code) = Blame(v, Telnet!RequestErrors[code])
  BY TelnetOperations, Zenon DEF Telnet!InitializationFailed, Blame
<1>3. Telnet!ConnectHasFailed(v) = ResolveTerminal(v, "failure")
  BY TelnetOperations, Zenon DEF Telnet!ConnectHasFailed
<1>4. Telnet!Completed(v) = ResolveTerminal(v, "failure")
  BY TelnetOperations, Zenon DEF Telnet!Completed
<1>5. Telnet!StepHookOutputPrompt(v) = Resolve(v, "wait")
  BY TelnetOperations, Zenon DEF Telnet!StepHookOutputPrompt
<1> QED
  BY <1>1, <1>2, <1>3, <1>4, <1>5, Zenon DEF Telnet!Initialize

\* What the Telnet command makes of its server's markers.
LEMMA TelnetTicks ==
  ASSUME NEW v, NEW k \in DOMAIN TelnetMarkers
  PROVE  Telnet!Tick(v, TelnetMarkers[k]) = Hear(v, k)
<1>1. k \in {"output", "hook", "failed", "connected"}
  BY DEF TelnetMarkers
<1>2. CASE k = "output"
  <2>1. Telnet!Markers[TelnetMarkers[k]] = "inband"
    BY <1>2 DEF Telnet!Markers, TelnetMarkers
  <2> QED
    BY <1>2, <2>1, TelnetOperations, Zenon DEF Telnet!Tick, Hear
<1>3. CASE k = "hook"
  <2>1. Telnet!Markers[TelnetMarkers[k]] = "hook"
    BY <1>3 DEF Telnet!Markers, TelnetMarkers
  <2> QED
    BY <1>3, <2>1, TelnetOperations, Zenon DEF Telnet!Tick, Hear, Telnet!HookBeforeConnected
<1>4. CASE k = "failed"
  <2>1. Telnet!Markers[TelnetMarkers[k]] = "failed"
    BY <1>4 DEF Telnet!Markers, TelnetMarkers
  <2> QED
    BY <1>4, <2>1, TelnetOperations, Zenon DEF Telnet!Tick, Hear, Telnet!ConnectFailed
<1>5. CASE k = "connected"
  <2>1. Telnet!Markers[TelnetMarkers[k]] = "connected"
    BY <1>5 DEF Telnet!Markers, TelnetMarkers
  <2> QED
    BY <1>5, <2>1, TelnetOperations, Zenon
      DEF Telnet!Tick, Hear, Telnet!ConnectSucceed, Succeed, Telnet!Throw
<1> QED
  BY <1>1, <1>2, <1>3, <1>4, <1>5

\* What is true of the four is true of the wizard's.
LEMMA FourProtocols ==
  ASSUME w \in Wizard
  PROVE  /\ w.protocol \in {"ssh", "mosh", "et", "telnet"}
         /\ w.protocol = "ssh" \/ w.protocol = "mosh" \/ w.protocol = "et" \/ w.protocol = "telnet"
BY WizardsAssumption DEF Wizard

\* Whichever the protocol, a marker of its server is heard as what it says.
LEMMA TickedHears ==
  ASSUME w \in Wizard, NEW k \in DOMAIN Markers(w.protocol)
  PROVE  Ticked(Markers(w.protocol)[k]) = Hear(w, k)
<1>1. CASE w.protocol = "ssh"
  <2>1. Markers(w.protocol) = SshMarkers
    BY <1>1, Zenon DEF Markers
  <2> QED
    BY <1>1, <2>1, SshTicks, Zenon DEF Ticked
<1>2. CASE w.protocol = "mosh"
  <2>1. Markers(w.protocol) = MoshMarkers
    BY <1>2, Zenon DEF Markers
  <2> QED
    BY <1>2, <2>1, MoshTicks, Zenon DEF Ticked
<1>3. CASE w.protocol = "et"
  <2>1. Markers(w.protocol) = EtMarkers
    BY <1>3, Zenon DEF Markers
  <2> QED
    BY <1>3, <2>1, EtTicks, Zenon DEF Ticked
<1>4. CASE w.protocol = "telnet"
  <2>1. Markers(w.protocol) = TelnetMarkers
    BY <1>4, Zenon DEF Markers
  <2> QED
    BY <1>4, <2>1, TelnetTicks, Zenon DEF Ticked
<1> QED
  BY <1>1, <1>2, <1>3, <1>4, FourProtocols

\* Whichever the protocol, an answer begins the session or blames the field it refuses.
LEMMA InitializedBegins ==
  ASSUME w \in Wizard, NEW code
  PROVE  /\ code = 0 => Initialized(code) = Begin(w)
         /\ code # 0 /\ code \in DOMAIN Codes(w.protocol) =>
              Initialized(code) = Blame(w, Codes(w.protocol)[code])
<1>1. CASE w.protocol = "ssh"
  <2>1. Codes(w.protocol) = Ssh!RequestErrors
    BY <1>1, Zenon DEF Codes
  <2>2. Initialized(code) = Ssh!Initialize(w, code)
    BY <1>1, Zenon DEF Initialized
  <2> QED
    BY <2>1, <2>2, SshAnswers, Zenon
<1>2. CASE w.protocol = "mosh"
  <2>1. Codes(w.protocol) = Mosh!RequestErrors
    BY <1>2, Zenon DEF Codes
  <2>2. Initialized(code) = Mosh!Initialize(w, code)
    BY <1>2, Zenon DEF Initialized
  <2> QED
    BY <2>1, <2>2, MoshAnswers, Zenon
<1>3. CASE w.protocol = "et"
  <2>1. Codes(w.protocol) = Et!RequestErrors
    BY <1>3, Zenon DEF Codes
  <2>2. Initialized(code) = Et!Initialize(w, code)
    BY <1>3, Zenon DEF Initialized
  <2> QED
    BY <2>1, <2>2, EtAnswers, Zenon
<1>4. CASE w.protocol = "telnet"
  <2>1. Codes(w.protocol) = Telnet!RequestErrors
    BY <1>4, Zenon DEF Codes
  <2>2. Initialized(code) = Telnet!Initialize(w, code)
    BY <1>4, Zenon DEF Initialized
  <2> QED
    BY <2>1, <2>2, TelnetAnswers, Zenon
<1> QED
  BY <1>1, <1>2, <1>3, <1>4, FourProtocols

\* Whichever the protocol, the end of the stream ends the request.
LEMMA CompletedEnds ==
  ASSUME w \in Wizard
  PROVE  CompletedBy(w) = ResolveTerminal(w, "failure")
<1>1. CASE w.protocol = "ssh"
  BY <1>1, SshAnswers, Zenon DEF CompletedBy
<1>2. CASE w.protocol = "mosh"
  BY <1>2, MoshAnswers, Zenon DEF CompletedBy
<1>3. CASE w.protocol = "et"
  BY <1>3, EtAnswers, Zenon DEF CompletedBy
<1>4. CASE w.protocol = "telnet"
  BY <1>4, TelnetAnswers, Zenon DEF CompletedBy
<1> QED
  BY <1>1, <1>2, <1>3, <1>4, FourProtocols

\* Whichever the protocol, what has been read is published.
LEMMA HasReadFinishes ==
  ASSUME w \in Wizard, NEW v
  PROVE  /\ w.reading = "failed" => HasRead(v) = ResolveTerminal(v, "failure")
         /\ w.reading = "hook" => HasRead(v) = Resolve(v, "wait")
         /\ w.reading = "fingerprint" /\ w.protocol # "telnet" => HasRead(v) = Confirm(v)
<1>1. CASE w.protocol = "ssh"
  BY <1>1, SshAnswers, SshPrompts, Zenon DEF HasRead
<1>2. CASE w.protocol = "mosh"
  BY <1>2, MoshAnswers, MoshPrompts, Zenon DEF HasRead
<1>3. CASE w.protocol = "et"
  BY <1>3, EtAnswers, EtPrompts, Zenon DEF HasRead
<1>4. CASE w.protocol = "telnet"
  BY <1>4, TelnetAnswers, Zenon DEF HasRead
<1> QED
  BY <1>1, <1>2, <1>3, <1>4, FourProtocols

\* Whichever the protocol, a prompt answers and waits.
LEMMA AnswersSend ==
  ASSUME w \in Wizard, w.protocol # "telnet"
  PROVE  /\ Accept = Push(Put([w EXCEPT !.known = "same"], "trust"), "wait")
         /\ Reject = Push(Put(w, "refuse"), "wait")
         /\ Login = Push(Put(w, "credential"), "wait")
         /\ DoNotLogin = Push(CloseSender(w), "wait")
<1>1. CASE w.protocol = "ssh"
  BY <1>1, SshPrompts, Zenon DEF Accept, Reject, Login, DoNotLogin
<1>2. CASE w.protocol = "mosh"
  BY <1>2, MoshPrompts, Zenon DEF Accept, Reject, Login, DoNotLogin
<1>3. CASE w.protocol = "et"
  BY <1>3, EtPrompts, Zenon DEF Accept, Reject, Login, DoNotLogin
<1> QED
  BY <1>1, <1>2, <1>3, FourProtocols

\* Whichever the protocol, the form that is submitted starts the request.
LEMMA SubmitStarts ==
  ASSUME w \in Wizard, NEW available
  PROVE  \E b, c \in BOOLEAN : SubmitForm(available) = Start(w, available, b, c)
<1>1. CASE w.protocol = "ssh"
  BY <1>1, SshStarts, Zenon DEF SubmitForm
<1>2. CASE w.protocol = "mosh"
  BY <1>2, MoshStarts, Zenon DEF SubmitForm
<1>3. CASE w.protocol = "et"
  BY <1>3, EtStarts, Zenon DEF SubmitForm
<1>4. CASE w.protocol = "telnet"
  BY <1>4, TelnetStarts, Zenon DEF SubmitForm
<1> QED
  BY <1>1, <1>2, <1>3, <1>4, FourProtocols

\* Whichever the protocol, a wizard opens with its form or starts its request.
LEMMA OpenedStarts ==
  ASSUME NEW v \in Wizard, NEW available
  PROVE  \/ Opened(v, available) = Push(v, "form")
         \/ \E b, c \in BOOLEAN : Opened(v, available) = Start(v, available, b, c)
<1>1. CASE v.protocol = "ssh"
  BY <1>1, SshStarts, Zenon DEF Opened
<1>2. CASE v.protocol = "mosh"
  BY <1>2, MoshStarts, Zenon DEF Opened
<1>3. CASE v.protocol = "et"
  BY <1>3, EtStarts, Zenon DEF Opened
<1>4. CASE v.protocol = "telnet"
  BY <1>4, TelnetStarts, Zenon DEF Opened
<1> QED
  BY <1>1, <1>2, <1>3, <1>4, WizardsAssumption DEF Wizard

---------------------------------------------------------------------------
(* The wizard by itself                                                    *)

\* The steps once one more is published.
LEMMA StepsAfterAppend ==
  ASSUME NEW v \in Wizard, NEW s \in Steps, NEW u, u.steps = Append(v.steps, s)
  PROVE  Elements(u.steps) = Elements(v.steps) \cup {s}
<1>1. v.steps \in Seq(Steps)
  BY DEF Wizard
<1> QED
  BY <1>1, AppendOne

\* The first outcome is one outcome.
LEMMA OutcomeLengths ==
  ASSUME NEW v \in Wizard, NEW s \in Terminals
  PROVE  v.outcomes = <<>> => Len(Append(v.outcomes, s)) = 1
BY DEF Wizard

\* A step of a wizard that has started its request: its outcome comes when the request
\* is given up, and only then.
LEMMA OnceFollows ==
  ASSUME NEW v \in Wizard, NEW u, Once(v), v.started, u.started,
         "form" \notin Elements(u.steps),
         \/ u.outcomes = v.outcomes /\ (Active(u) => Active(v))
         \/ Active(v) /\ ~Active(u) /\ \E s \in Terminals : u.outcomes = Append(v.outcomes, s),
         Active(u) => u.running,
         ~u.running => ~u.initializing /\ ~u.shuttingDown /\ u.reading = "nothing"
  PROVE  Once(u)
<1>1. CASE u.outcomes = v.outcomes /\ (Active(u) => Active(v))
  BY <1>1 DEF Once
<1>2. CASE Active(v) /\ ~Active(u) /\ \E s \in Terminals : u.outcomes = Append(v.outcomes, s)
  <2>1. Len(u.outcomes) = 1
    BY <1>2, OutcomeLengths DEF Once
  <2> QED
    BY <1>2, <2>1 DEF Once
<1> QED
  BY <1>1, <1>2

\* What every operation keeps.
Kept(u, v) == /\ u \in Wizard /\ Once(u)
              /\ u.protocol = v.protocol /\ u.started = v.started
              /\ Asks(u) => Asks(v) \/ v.protocol # "telnet"

\* What two operations keep, the one after the other keeps.
LEMMA KeptTwice ==
  ASSUME NEW t, NEW u, NEW v, Kept(u, t), Kept(t, v)
  PROVE  Kept(u, v)
BY DEF Kept

\* Doing nothing keeps the wizard.
LEMMA KeptSelf ==
  ASSUME NEW v \in Wizard, Once(v)
  PROVE  Kept(v, v)
BY DEF Kept

\* No step is published, and the request is not given up.
LEMMA KeptQuietly ==
  ASSUME NEW v \in Wizard, Once(v), v.started, NEW u \in Wizard,
         SameSteps(u, v), u.protocol = v.protocol, u.started = v.started,
         u.request = v.request, u.failed = v.failed, u.running = v.running,
         u.initializing = v.initializing,
         u.shuttingDown = v.shuttingDown \/ v.running,
         u.reading = "fingerprint" => v.reading = "fingerprint" \/ v.protocol # "telnet",
         u.reading = v.reading \/ v.running
  PROVE  Kept(u, v)
<1>1. Active(u) <=> Active(v)
  BY DEF Active
<1>2. Once(u)
  BY <1>1, OnceFollows DEF Once, SameSteps
<1> QED
  BY <1>2 DEF Kept, Asks, SameSteps

\* Publishing a step that is no end keeps the wizard at one end and its steps in place.
LEMMA KeptPush ==
  ASSUME NEW v \in Wizard, Once(v), v.started, NEW s \in Steps \ Terminals, s # "form",
         s \in Questions => v.protocol # "telnet"
  PROVE  Kept(Push(v, s), v)
<1> DEFINE u == Push(v, s)
<1>1. /\ u \in Wizard /\ u.steps = Append(v.steps, s) /\ u.outcomes = v.outcomes
      /\ SameEnds(u, v) /\ SameTurn(u, v) /\ SameRequest(u, v) /\ SameHistory(u, v)
      /\ u.sent = v.sent
  BY PushGoesOn
<1> HIDE DEF u
<1>2. Elements(u.steps) = Elements(v.steps) \cup {s}
  BY <1>1, StepsAfterAppend
<1>3. Active(u) <=> Active(v)
  BY <1>1 DEF Active, SameRequest
<1>4. Once(u)
  BY <1>1, <1>2, <1>3, OnceFollows DEF Once, SameEnds, SameTurn, SameRequest
<1> QED
  BY <1>1, <1>2, <1>4 DEF Kept, Asks, SameTurn, SameRequest, SameHistory, u

\* Sending keeps the wizard at one end and its steps in place.
LEMMA KeptPut ==
  ASSUME NEW v \in Wizard, Once(v), v.started, NEW b \in Bodies
  PROVE  Kept(Put(v, b), v)
<1> DEFINE u == Put(v, b)
<1>1. /\ u \in Wizard /\ SameEnds(u, v) /\ SameTurn(u, v) /\ SameRequest(u, v)
      /\ SameHistory(u, v) /\ SameSteps(u, v)
  BY PutFacts
<1> HIDE DEF u
<1>2. Kept(u, v)
  BY <1>1, KeptQuietly DEF SameEnds, SameTurn, SameRequest, SameHistory
<1> QED
  BY <1>2 DEF u

\* Closing the sender keeps the wizard at one end and its steps in place.
LEMMA KeptCloseSender ==
  ASSUME NEW v \in Wizard, Once(v), v.started
  PROVE  Kept(CloseSender(v), v)
<1> DEFINE u == CloseSender(v)
<1>1. /\ u \in Wizard /\ u.running = v.running /\ u.initializing = v.initializing
      /\ u.shuttingDown = v.shuttingDown
      /\ SameTurn(u, v) /\ SameRequest(u, v) /\ SameHistory(u, v) /\ SameSteps(u, v)
  BY CloseSenderFacts
<1> HIDE DEF u
<1>2. Kept(u, v)
  BY <1>1, KeptQuietly DEF SameTurn, SameRequest, SameHistory
<1> QED
  BY <1>2 DEF u

\* Closing the stream keeps the wizard at one end and its steps in place.
LEMMA KeptCloseStream ==
  ASSUME NEW v \in Wizard, Once(v), v.started
  PROVE  Kept(CloseStream(v), v)
<1> DEFINE u == CloseStream(v)
<1>1. /\ u \in Wizard /\ Closed(u, v)
      /\ SameTurn(u, v) /\ SameRequest(u, v) /\ SameHistory(u, v) /\ SameSteps(u, v)
  BY CloseStreamFacts
<1> HIDE DEF u
<1>2. u.shuttingDown = v.shuttingDown \/ v.running
  BY <1>1 DEF Closed, Wizard
<1>3. Kept(u, v)
  BY <1>1, <1>2, KeptQuietly DEF Closed, SameTurn, SameRequest, SameHistory
<1> QED
  BY <1>3 DEF u

\* Publishing for an active request keeps the wizard at one end and its steps in place.
LEMMA KeptResolve ==
  ASSUME NEW v \in Wizard, Once(v), NEW s \in Steps \ Terminals, s # "form",
         s \in Questions => v.protocol # "telnet"
  PROVE  Kept(Resolve(v, s), v)
<1>1. CASE Active(v)
  <2>1. v.started
    BY <1>1 DEF Once, Active
  <2>2. Resolve(v, s) = Push(v, s)
    BY <1>1 DEF Resolve
  <2> QED
    BY <2>1, <2>2, KeptPush
<1>2. CASE ~Active(v)
  <2>1. Resolve(v, s) = v
    BY <1>2 DEF Resolve
  <2> QED
    BY <2>1, KeptSelf
<1> QED
  BY <1>1, <1>2

\* The request is given up.
LEMMA KeptOver ==
  ASSUME NEW v \in Wizard, Once(v), Active(v), NEW u \in Wizard, NEW s \in Terminals,
         u.steps = Append(v.steps, s), u.outcomes = Append(v.outcomes, s), ~u.request,
         u.started = v.started, u.protocol = v.protocol,
         u.reading \in {v.reading, "nothing"},
         ~u.running => ~u.initializing /\ ~u.shuttingDown /\ u.reading = "nothing"
  PROVE  Kept(u, v) /\ ~Active(u)
<1>1. v.started
  BY DEF Once, Active
<1>2. Elements(u.steps) = Elements(v.steps) \cup {s} /\ s # "form" /\ s \notin Questions
  BY StepsAfterAppend DEF Steps, Terminals, Questions
<1>3. ~Active(u)
  BY DEF Active
<1>4. Once(u)
  BY <1>1, <1>2, <1>3, OnceFollows DEF Once
<1> QED
  BY <1>2, <1>3, <1>4 DEF Kept, Asks

\* A request fails once, and is no longer active.
LEMMA KeptFail ==
  ASSUME NEW v \in Wizard, Once(v)
  PROVE  Kept(Fail(v), v) /\ ~Active(Fail(v))
<1> DEFINE u == Fail(v)
<1>1. /\ u \in Wizard /\ SameTurn(u, v) /\ SameHistory(u, v)
      /\ Active(v) => Over(u, v, "failure") /\ Closed(u, v)
      /\ ~Active(v) => u = v
  BY FailFacts
<1> HIDE DEF u
<1>2. CASE Active(v)
  <2>1. "failure" \in Terminals /\ u.running
    BY <1>1, <1>2 DEF Terminals, Closed, Once
  <2>2. Kept(u, v) /\ ~Active(u)
    BY <1>1, <1>2, <2>1, KeptOver DEF Over, SameTurn, SameHistory
  <2> QED
    BY <2>2 DEF u
<1>3. CASE ~Active(v)
  BY <1>1, <1>3, KeptSelf DEF u
<1> QED
  BY <1>2, <1>3

\* A request comes to its end once, and is no longer active.
LEMMA KeptResolveTerminal ==
  ASSUME NEW v \in Wizard, Once(v), NEW s \in Terminals
  PROVE  Kept(ResolveTerminal(v, s), v) /\ ~Active(ResolveTerminal(v, s))
<1> DEFINE u == ResolveTerminal(v, s)
<1>1. /\ u \in Wizard /\ SameEnds(u, v) /\ SameTurn(u, v) /\ SameHistory(u, v)
      /\ Active(v) => Over(u, v, s)
      /\ ~Active(v) => u = v
  BY ResolveTerminalFacts
<1> HIDE DEF u
<1>2. CASE Active(v)
  <2>1. Kept(u, v) /\ ~Active(u)
    BY <1>1, <1>2, KeptOver DEF Over, SameTurn, SameHistory, SameEnds, Once
  <2> QED
    BY <2>1 DEF u
<1>3. CASE ~Active(v)
  BY <1>1, <1>3, KeptSelf DEF u
<1> QED
  BY <1>2, <1>3

\* Giving the stream back keeps the wizard at one end and its steps in place.
LEMMA KeptClear ==
  ASSUME NEW v \in Wizard, Once(v), ~Active(v)
  PROVE  Kept(Clear(v), v)
<1> DEFINE u == Clear(v)
<1>1. /\ u \in Wizard /\ SameRequest(u, v) /\ SameHistory(u, v) /\ SameSteps(u, v)
      /\ ~u.running /\ ~u.initializing /\ ~u.shuttingDown /\ u.reading = "nothing"
      /\ u.senderClosed = v.senderClosed /\ u.connected = v.connected /\ u.sent = v.sent
  BY ClearFacts
<1> HIDE DEF u
<1>2. ~Active(u)
  BY <1>1 DEF Active, SameRequest
<1>3. Once(u)
  BY <1>1, <1>2 DEF Once, SameRequest, SameSteps
<1>4. Kept(u, v)
  BY <1>1, <1>3 DEF Kept, Asks, SameRequest, SameHistory, SameSteps
<1> QED
  BY <1>4 DEF u

\* Losing the connection keeps the wizard at one end and its steps in place.
LEMMA KeptLose ==
  ASSUME NEW v \in Wizard, Once(v)
  PROVE  Kept(Lose(v), v)
<1> DEFINE u == Lose(v)
<1>1. u \in Wizard /\ Lost(u, v)
  BY LoseFacts
<1> HIDE DEF u
<1>2. CASE ~v.running
  <2>1. Active(u) <=> Active(v)
    BY <1>1, <1>2 DEF Lost, Active
  <2>2. Once(u)
    BY <1>1, <1>2, <2>1 DEF Lost, Once, SameSteps
  <2> QED
    BY <1>1, <1>2, <2>2 DEF Lost, Kept, Asks, SameHistory, SameSteps, u
<1>3. CASE v.running /\ Active(v)
  <2>1. "failure" \in Terminals
    BY DEF Terminals
  <2>2. Kept(u, v)
    BY <1>1, <1>3, <2>1, KeptOver DEF Lost, SameHistory
  <2> QED
    BY <2>2 DEF u
<1>4. CASE v.running /\ ~Active(v)
  <2>1. ~Active(u)
    BY <1>1, <1>4 DEF Lost, Active
  <2>2. v.started
    BY <1>4 DEF Once
  <2>3. Once(u)
    BY <1>1, <1>4, <2>1, <2>2 DEF Lost, Once, SameSteps
  <2> QED
    BY <1>1, <1>4, <2>3 DEF Lost, Kept, Asks, SameHistory, SameSteps, u
<1> QED
  BY <1>2, <1>3, <1>4

\* A frame that is not understood breaks the connection, and keeps the wizard at one end.
LEMMA KeptMisread ==
  ASSUME NEW v \in Wizard, Once(v)
  PROVE  Kept(Misread(v), v) /\ ~Misread(v).up
<1> DEFINE l == Lose(v)
           u == [l EXCEPT !.misread = TRUE]
<1>1. Kept(l, v) /\ l \in Wizard /\ ~l.up
  BY KeptLose, LoseFacts DEF Lost
<1> HIDE DEF l
<1>2. /\ u \in Wizard /\ SameSteps(u, l) /\ SameEnds(u, l) /\ SameTurn(u, l)
      /\ SameRequest(u, l) /\ u.sent = l.sent /\ u.protocol = l.protocol
  BY <1>1 DEF Wizard, SameSteps, SameEnds, SameTurn, SameRequest
<1>3. Active(u) <=> Active(l)
  BY <1>2 DEF Active, SameRequest
<1> HIDE DEF u
<1>4. Once(u)
  BY <1>1, <1>2, <1>3 DEF Kept, Once, SameSteps, SameEnds, SameTurn, SameRequest
<1>5. Kept(u, v)
  BY <1>1, <1>2, <1>4 DEF Kept, Asks, SameSteps, SameTurn, SameRequest
<1>6. Misread(v) = u
  BY DEF Misread, u, l
<1> QED
  BY <1>1, <1>2, <1>5, <1>6 DEF SameEnds

\* Reading the rest of a frame keeps the wizard at one end and its steps in place.
LEMMA KeptRead ==
  ASSUME NEW v \in Wizard, Once(v), NEW r \in {"failed", "hook", "fingerprint"},
         r = "fingerprint" => v.protocol # "telnet"
  PROVE  Kept(Read(v, r), v)
<1>1. CASE Active(v)
  <2> DEFINE u == Read(v, r)
  <2>1. /\ u \in Wizard /\ SameEnds(u, v) /\ u.sent = v.sent /\ SameSteps(u, v)
        /\ SameRequest(u, v) /\ SameHistory(u, v) /\ u.closed = v.closed
        /\ u.reading = r
    BY <1>1, ReadFacts
  <2> HIDE DEF u
  <2>2. v.running /\ v.started
    BY <1>1 DEF Once
  <2>3. Kept(u, v)
    BY <2>1, <2>2, KeptQuietly DEF SameEnds, SameRequest, SameHistory
  <2> QED
    BY <2>3 DEF u
<1>2. CASE ~Active(v)
  BY <1>2, KeptSelf DEF Read
<1> QED
  BY <1>1, <1>2

\* An answer keeps the request as active as it is.
LEMMA KeptAccepted ==
  ASSUME NEW v \in Wizard, Once(v), v.started, NEW u, u = Accepted(v)
  PROVE  Kept(u, v) /\ (Active(u) <=> Active(v)) /\ u.running = v.running
<1>1. /\ u \in Wizard /\ SameEnds(u, v) /\ u.sent = v.sent /\ SameSteps(u, v)
      /\ SameHistory(u, v) /\ SameTurn(u, v)
      /\ u.request = v.request /\ u.failed = v.failed
      /\ u.sending = v.sending /\ u.started = v.started
  BY AcceptedFacts
<1>2. Kept(u, v)
  BY <1>1, KeptQuietly DEF SameEnds, SameHistory, SameTurn
<1> QED
  BY <1>1, <1>2 DEF Active, SameEnds

\* A request that is accepted keeps the wizard at one end and its steps in place.
LEMMA KeptBegin ==
  ASSUME NEW v \in Wizard, Once(v), v.started
  PROVE  Kept(Begin(v), v)
<1> DEFINE t == Accepted(v)
<1>1. Kept(t, v)
  BY KeptAccepted
<1> HIDE DEF t
<1>2. "wait" \in Steps \ Terminals /\ "wait" # "form" /\ "wait" \notin Questions
  BY DEF Steps, Terminals, Questions
<1>3. Kept(Resolve(t, "wait"), t)
  BY <1>1, <1>2, KeptResolve DEF Kept
<1> QED
  BY <1>1, <1>3, KeptTwice DEF Begin, t

\* A request that is refused comes to its end once.
LEMMA KeptBlame ==
  ASSUME NEW v \in Wizard, Once(v), v.started, NEW field \in Blames
  PROVE  Kept(Blame(v, field), v) /\ ~Active(Blame(v, field))
<1>1. CASE ~Active(v)
  BY <1>1, KeptSelf DEF Blame
<1>2. CASE Active(v)
  <2> DEFINE a == Accepted(v)
             t == [a EXCEPT !.blamed = field]
  <2>1. Kept(a, v) /\ a \in Wizard
    BY KeptAccepted DEF Kept
  <2>2. Blame(v, field) = ResolveTerminal(t, "failure")
    BY <1>2 DEF Blame
  <2> HIDE DEF a
  <2>3. /\ t \in Wizard /\ SameSteps(t, a) /\ SameEnds(t, a) /\ SameTurn(t, a)
        /\ SameRequest(t, a) /\ t.protocol = a.protocol
    BY <2>1 DEF Wizard, SameSteps, SameEnds, SameTurn, SameRequest
  <2> HIDE DEF t
  <2>4. Kept(t, a)
    BY <2>1, <2>3, KeptQuietly DEF Kept, SameEnds, SameTurn, SameRequest
  <2>5. "failure" \in Terminals
    BY DEF Terminals
  <2>6. Kept(ResolveTerminal(t, "failure"), t) /\ ~Active(ResolveTerminal(t, "failure"))
    BY <2>4, <2>5, KeptResolveTerminal DEF Kept
  <2> QED
    BY <2>1, <2>2, <2>4, <2>6, KeptTwice
<1> QED
  BY <1>1, <1>2

\* A session that is connected keeps the wizard at one end and its steps in place.
LEMMA KeptSucceed ==
  ASSUME NEW v \in Wizard, Once(v), v.started
  PROVE  Kept(Succeed(v), v)
<1> DEFINE t == [v EXCEPT !.connected = TRUE]
<1>1. /\ t \in Wizard /\ SameSteps(t, v) /\ SameTurn(t, v) /\ SameRequest(t, v)
      /\ t.protocol = v.protocol /\ t.running = v.running
      /\ t.initializing = v.initializing /\ t.shuttingDown = v.shuttingDown
  BY DEF Wizard, SameSteps, SameTurn, SameRequest
<1>2. Succeed(v) = Lose(t) \/ Succeed(v) = ResolveTerminal(t, "success")
  BY DEF Succeed
<1> HIDE DEF t
<1>3. Kept(t, v)
  BY <1>1, KeptQuietly DEF SameTurn, SameRequest
<1>4. "success" \in Terminals
  BY DEF Terminals
<1>5. Kept(Lose(t), t) /\ Kept(ResolveTerminal(t, "success"), t)
  BY <1>3, <1>4, KeptLose, KeptResolveTerminal DEF Kept
<1> QED
  BY <1>2, <1>3, <1>5, KeptTwice

\* Asking for the fingerprint keeps the wizard at one end and its steps in place.
LEMMA KeptConfirm ==
  ASSUME NEW v \in Wizard, Once(v), v.started, v.protocol # "telnet"
  PROVE  Kept(Confirm(v), v)
<1> DEFINE t == Put(v, "trust")
<1>1. /\ "wait" \in Steps \ Terminals /\ "wait" # "form" /\ "fingerprint" # "form"
      /\ "fingerprint" \in Steps \ Terminals /\ "trust" \in Bodies
  BY DEF Steps, Prompts, Terminals, Bodies, AnswerBodies
<1>2. Kept(Lose(v), v) /\ Kept(Resolve(v, "fingerprint"), v)
  BY <1>1, KeptLose, KeptResolve
<1>3. Kept(t, v)
  BY <1>1, KeptPut
<1> HIDE DEF t
<1>4. Kept(Resolve(t, "wait"), t)
  BY <1>1, <1>3, KeptResolve DEF Kept
<1>5. Confirm(v) \in {Lose(v), Resolve(v, "fingerprint"), Resolve(t, "wait")}
  BY DEF Confirm, t
<1> QED
  BY <1>2, <1>3, <1>4, <1>5, KeptTwice

\* Asking for the credential keeps the wizard at one end and its steps in place.
LEMMA KeptEnter ==
  ASSUME NEW v \in Wizard, Once(v), v.started, v.protocol # "telnet"
  PROVE  Kept(Enter(v), v)
<1> DEFINE t == Put(v, "credential")
<1>1. /\ "wait" \in Steps \ Terminals /\ "wait" # "form" /\ "credential" # "form"
      /\ "credential" \in Steps \ Terminals /\ "credential" \in Bodies
  BY DEF Steps, Prompts, Terminals, Bodies, AnswerBodies
<1>2. Kept(v, v) /\ Kept(Resolve(v, "credential"), v)
  BY <1>1, KeptSelf, KeptResolve
<1>3. Kept(t, v)
  BY <1>1, KeptPut
<1> HIDE DEF t
<1>4. Kept(Resolve(t, "wait"), t)
  BY <1>1, <1>3, KeptResolve DEF Kept
<1>5. Enter(v) \in {v, Resolve(v, "credential"), Resolve(t, "wait")}
  BY DEF Enter, t
<1> QED
  BY <1>2, <1>3, <1>4, <1>5, KeptTwice

StreamKinds == {"output", "hook", "failed", "connected", "fingerprint", "credential"}

\* Whatever a frame of the stream says keeps the wizard at one end.
LEMMA KeptHear ==
  ASSUME NEW v \in Wizard, Once(v), v.started, NEW k \in StreamKinds,
         v.protocol = "telnet" => k \notin Questions
  PROVE  Kept(Hear(v, k), v)
<1>1. Kept(v, v) /\ Kept(Misread(v), v) /\ Kept(Succeed(v), v)
  BY KeptSelf, KeptMisread, KeptSucceed
<1>2. k = "credential" => Kept(Enter(v), v)
  BY KeptEnter DEF Questions
<1>3. k \in {"hook", "failed", "fingerprint"} => Kept(Read(v, k), v)
  BY KeptRead DEF Questions
<1>4. \/ Hear(v, k) \in {v, Misread(v), Succeed(v)}
      \/ k = "credential" /\ Hear(v, k) = Enter(v)
      \/ k \in {"hook", "failed", "fingerprint"} /\ Hear(v, k) = Read(v, k)
  BY DEF Hear, StreamKinds
<1> QED
  BY <1>1, <1>2, <1>3, <1>4

\* Closing the wizard keeps the wizard at one end and its steps in place.
LEMMA KeptCloseWizard ==
  ASSUME NEW v \in Wizard, Once(v)
  PROVE  Kept(CloseWizard(v), v)
<1> DEFINE u == CloseWizard(v)
<1>1. /\ u \in Wizard /\ SameHistory(u, v) /\ u.reading = v.reading /\ u.closed
      /\ ~v.closed /\ Active(v) => Over(u, v, "failure") /\ Closed(u, v)
      /\ v.closed \/ ~Active(v) => /\ SameEnds(u, v) /\ u.sent = v.sent
                                   /\ SameRequest(u, v) /\ SameSteps(u, v)
  BY CloseWizardFacts
<1> HIDE DEF u
<1>2. CASE ~v.closed /\ Active(v)
  <2>1. "failure" \in Terminals /\ u.running
    BY <1>1, <1>2 DEF Terminals, Closed, Once
  <2>2. Kept(u, v)
    BY <1>1, <1>2, <2>1, KeptOver DEF Over, SameHistory
  <2> QED
    BY <2>2 DEF u
<1>3. CASE v.closed \/ ~Active(v)
  <2>1. Active(u) <=> Active(v)
    BY <1>1, <1>3 DEF Active, SameRequest
  <2>2. Once(u)
    BY <1>1, <1>3, <2>1 DEF Once, SameRequest, SameSteps, SameEnds
  <2> QED
    BY <1>1, <1>3, <2>2 DEF Kept, Asks, SameRequest, SameSteps, SameHistory, u
<1> QED
  BY <1>2, <1>3

\* The steps once the first is shown.
LEMMA StepsAfterTake ==
  ASSUME NEW v \in Wizard, v.steps # <<>>, NEW u, u.steps = Tail(v.steps)
  PROVE  /\ Head(v.steps) \in Steps
         /\ Elements(v.steps) = {Head(v.steps)} \cup Elements(u.steps)
         /\ v.steps = <<"form">> => u.steps = <<>> /\ Head(v.steps) = "form"
<1>1. v.steps \in Seq(Steps)
  BY DEF Wizard
<1>2. Head(v.steps) \in Steps /\ Elements(v.steps) = {Head(v.steps)} \cup Elements(u.steps)
  BY <1>1, TakeOne
<1>3. v.steps = <<"form">> => u.steps = <<>> /\ Head(v.steps) = "form"
  OBVIOUS
<1> QED
  BY <1>2, <1>3

\* Showing a step keeps the wizard at one end and its steps in place.
LEMMA KeptTakeStep ==
  ASSUME NEW v \in Wizard, Once(v), v.steps # <<>>
  PROVE  Kept(TakeStep(v), v)
<1> DEFINE u == TakeStep(v)
<1>1. /\ u \in Wizard /\ SameEnds(u, v) /\ u.sent = v.sent /\ SameRequest(u, v)
      /\ SameHistory(u, v) /\ u.reading = v.reading /\ u.outcomes = v.outcomes
      /\ u.steps = Tail(v.steps)
  BY TakeStepFacts
<1> HIDE DEF u
<1>2. /\ Elements(v.steps) = {Head(v.steps)} \cup Elements(u.steps)
      /\ v.steps = <<"form">> => u.steps = <<>>
  BY <1>1, StepsAfterTake
<1>3. Active(u) <=> Active(v)
  BY <1>1 DEF Active, SameRequest
<1>4. Once(u)
  <2>1. ~v.started => u.steps = <<>>
    BY <1>2 DEF Once
  <2> QED
    BY <1>1, <1>2, <1>3, <2>1 DEF Once, SameEnds, SameRequest
<1>5. Kept(u, v)
  BY <1>1, <1>2, <1>4 DEF Kept, Asks, SameRequest, SameHistory
<1> QED
  BY <1>5 DEF u

\* The request is started once: nothing was published before but the form.
LEMMA StartedOnce ==
  ASSUME NEW v \in Wizard, Once(v), ~v.started, v.steps = <<>>,
         NEW available \in BOOLEAN, NEW b \in BOOLEAN, NEW c \in BOOLEAN,
         NEW u, u = Start(v, available, b, c)
  PROVE  /\ u \in Wizard /\ Once(u) /\ u.protocol = v.protocol /\ u.started
         /\ Asks(u) => Asks(v)
<1>1. u \in Wizard /\ StartedFrom(u, v)
  BY StartFacts
<1>2. /\ v.outcomes = <<>> /\ ~v.request /\ ~v.running /\ ~v.initializing
      /\ ~v.shuttingDown /\ v.reading = "nothing"
  <2>1. v.outcomes = <<>> /\ ~v.request
    BY DEF Once
  <2>2. ~v.running
    BY DEF Once
  <2> QED
    BY <2>1, <2>2 DEF Once
<1>3. /\ "failure" \in Steps /\ "failure" \in Terminals /\ "wait" \in Steps
      /\ "form" \notin {"failure", "wait"} /\ Questions \cap {"failure", "wait"} = {}
  BY DEF Steps, Terminals, Questions
<1>4. \E s \in {"failure", "wait"} : u.steps = Append(v.steps, s)
  BY <1>1 DEF StartedFrom
<1>5. \E s \in {"failure", "wait"} : Elements(u.steps) = Elements(v.steps) \cup {s}
  BY <1>3, <1>4, StepsAfterAppend
<1>6. Elements(v.steps) = {}
  BY DEF Elements
<1>7. CASE u.outcomes = v.outcomes /\ u.running
  BY <1>1, <1>2, <1>3, <1>5, <1>6, <1>7 DEF StartedFrom, Once, Asks, SameTurn, SameHistory
<1>8. CASE u.outcomes = Append(v.outcomes, "failure") /\ u.request = v.request
  <2>1. Len(u.outcomes) = 1 /\ ~Active(u)
    BY <1>2, <1>3, <1>8, OutcomeLengths DEF Active
  <2> QED
    BY <1>1, <1>2, <1>3, <1>5, <1>6, <2>1 DEF StartedFrom, Once, Asks, SameTurn, SameHistory
<1> QED
  BY <1>1, <1>7, <1>8 DEF StartedFrom

\* Answering a question keeps the wizard at one end and its steps in place.
LEMMA KeptAnswers ==
  ASSUME NEW v \in Wizard, Once(v), v.started
  PROVE  /\ Kept(Push(Put([v EXCEPT !.known = "same"], "trust"), "wait"), v)
         /\ \A b \in Bodies : Kept(Push(Put(v, b), "wait"), v)
         /\ Kept(Push(CloseSender(v), "wait"), v)
<1> DEFINE k == [v EXCEPT !.known = "same"]
           t == Put(k, "trust")
           c == CloseSender(v)
<1>1. /\ "wait" \in Steps \ Terminals /\ "wait" # "form" /\ "wait" \notin Questions
      /\ "trust" \in Bodies
  BY DEF Steps, Terminals, Bodies, AnswerBodies, Questions
<1>2. /\ k \in Wizard /\ SameSteps(k, v) /\ SameEnds(k, v) /\ SameTurn(k, v)
      /\ SameRequest(k, v) /\ k.protocol = v.protocol
  BY DEF Wizard, SameSteps, SameEnds, SameTurn, SameRequest
<1>3. Kept(k, v)
  BY <1>2, KeptQuietly DEF SameEnds, SameTurn, SameRequest
<1> HIDE DEF k
<1>4. Kept(t, k)
  BY <1>1, <1>3, KeptPut DEF Kept
<1> HIDE DEF t
<1>5. Kept(Push(t, "wait"), t)
  BY <1>1, <1>3, <1>4, KeptPush DEF Kept
<1>6. ASSUME NEW b \in Bodies PROVE Kept(Push(Put(v, b), "wait"), v)
  <2> DEFINE p == Put(v, b)
  <2>1. Kept(p, v)
    BY KeptPut
  <2> HIDE DEF p
  <2>2. Kept(Push(p, "wait"), p)
    BY <1>1, <2>1, KeptPush DEF Kept
  <2> QED
    BY <2>1, <2>2, KeptTwice DEF p
<1>7. Kept(c, v)
  BY KeptCloseSender
<1> HIDE DEF c
<1>8. Kept(Push(c, "wait"), c)
  BY <1>1, <1>7, KeptPush DEF Kept
<1> QED
  BY <1>3, <1>4, <1>5, <1>6, <1>7, <1>8, KeptTwice DEF c, t, k

---------------------------------------------------------------------------
(* The basic invariant                                                     *)

\* The server writes what it may say.
LEMMA WriteKeepsFrames ==
  ASSUME TypeInv, NEW f \in Frames, MaySay(w.protocol, f), Write(f),
         w'.protocol = w.protocol
  PROVE  /\ toClient' \in Seq(Frames) /\ Elements(toClient') = Elements(toClient) \cup {f}
         /\ \A g \in Elements(toClient') : MaySay(w'.protocol, g)
<1>1. toClient \in Seq(Frames) /\ \A g \in Elements(toClient) : MaySay(w.protocol, g)
  BY DEF TypeInv
<1>2. toClient' \in Seq(Frames) /\ Elements(toClient') = Elements(toClient) \cup {f}
  BY <1>1, AppendOne DEF Write
<1> QED
  BY <1>1, <1>2

\* The browser takes what the server may say.
LEMMA TakeKeepsFrames ==
  ASSUME TypeInv, toClient # <<>>, toClient' = Tail(toClient), w'.protocol = w.protocol
  PROVE  /\ toClient' \in Seq(Frames)
         /\ Received \in Frames /\ MaySay(w.protocol, Received)
         /\ Elements(toClient) = {Received} \cup Elements(toClient')
         /\ \A g \in Elements(toClient') : MaySay(w'.protocol, g)
<1>1. toClient \in Seq(Frames) /\ \A g \in Elements(toClient) : MaySay(w.protocol, g)
  BY DEF TypeInv
<1>2. /\ toClient' \in Seq(Frames) /\ Received \in Frames
      /\ Elements(toClient) = {Received} \cup Elements(toClient')
  BY <1>1, TakeOne DEF Received
<1> QED
  BY <1>1, <1>2

\* A step that concerns the wizard and what has come from the server only.
LEMMA BasicServes ==
  ASSUME BasicInv, Kept(w', w), UNCHANGED <<connectorVars, served, asked, unsaid, stalled>>,
         toClient' \in Seq(Frames), \A g \in Elements(toClient') : MaySay(w'.protocol, g),
         w'.started \/ w'.steps = w.steps
  PROVE  BasicInv'
<1>1. TypeInv'
  BY DEF BasicInv, TypeInv, Kept, ConnectorTypeOK, connectorVars
<1>2. NoLogin'
  BY DEF BasicInv, NoLogin, Kept, connectorVars
<1>3. FormFirst'
  BY DEF BasicInv, FormFirst, Kept, connectorVars
<1> QED
  BY <1>1, <1>2, <1>3 DEF BasicInv, Kept

\* A frame of the stream is one of those the protocol's command knows.
LEMMA StreamFrame ==
  ASSUME w \in Wizard, NEW f \in Frames, MaySay(w.protocol, f), f.type = "stream"
  PROVE  \E k \in DOMAIN Markers(w.protocol) :
           /\ f.value = Markers(w.protocol)[k] /\ k \in StreamKinds
           /\ w.protocol = "telnet" => k \notin Questions
           /\ Said(w.protocol, f) = k
<1>1. PICK k \in DOMAIN Markers(w.protocol) : f.value = Markers(w.protocol)[k]
  BY DEF MaySay
<1>2. /\ k \in StreamKinds
      /\ w.protocol = "telnet" => k \notin Questions
      /\ \A j \in DOMAIN Markers(w.protocol) :
           Markers(w.protocol)[j] = Markers(w.protocol)[k] => j = k
  <2>1. CASE w.protocol = "ssh"
    BY <2>1 DEF Markers, SshMarkers, StreamKinds
  <2>2. CASE w.protocol = "mosh"
    BY <2>2 DEF Markers, MoshMarkers, StreamKinds
  <2>3. CASE w.protocol = "et"
    BY <2>3 DEF Markers, EtMarkers, MoshMarkers, StreamKinds
  <2>4. CASE w.protocol = "telnet"
    BY <2>4 DEF Markers, TelnetMarkers, StreamKinds, Questions
  <2> QED
    BY <2>1, <2>2, <2>3, <2>4, FourProtocols
<1>3. Said(w.protocol, f) = k
  BY <1>1, <1>2 DEF Said
<1> QED
  BY <1>1, <1>2, <1>3

\* An error code names a field.
LEMMA CodesAreFields ==
  ASSUME w \in Wizard, NEW code \in DOMAIN Codes(w.protocol)
  PROVE  Codes(w.protocol)[code] \in Blames
<1>1. CASE w.protocol = "ssh"
  <2>1. Codes(w.protocol) = Ssh!RequestErrors
    BY <1>1, Zenon DEF Codes
  <2> QED
    BY <2>1 DEF Ssh!RequestErrors, Blames, Fields
<1>2. CASE w.protocol = "mosh"
  <2>1. Codes(w.protocol) = Mosh!RequestErrors
    BY <1>2, Zenon DEF Codes
  <2> QED
    BY <2>1 DEF Mosh!RequestErrors, Blames, Fields
<1>3. CASE w.protocol = "et"
  <2>1. Codes(w.protocol) = Et!RequestErrors
    BY <1>3, Zenon DEF Codes
  <2> QED
    BY <2>1 DEF Et!RequestErrors, Blames, Fields
<1>4. CASE w.protocol = "telnet"
  <2>1. Codes(w.protocol) = Telnet!RequestErrors
    BY <1>4, Zenon DEF Codes
  <2> QED
    BY <2>1 DEF Telnet!RequestErrors, Blames, Fields
<1> QED
  BY <1>1, <1>2, <1>3, <1>4, FourProtocols

\* What the browser does when it is not started, whatever comes.
LEMMA MisreadKeepsSteps ==
  ASSUME BasicInv, ~w.running
  PROVE  w.started \/ Misread(w).steps = w.steps
<1> DEFINE l == Lose(w)
<1>1. l \in Wizard /\ Lost(l, w)
  BY LoseFacts DEF BasicInv, TypeInv
<1>2. Misread(w) = [l EXCEPT !.misread = TRUE]
  BY DEF Misread
<1> HIDE DEF l
<1>3. Misread(w).steps = l.steps
  BY <1>1, <1>2 DEF Wizard
<1> QED
  BY <1>1, <1>3 DEF Lost, SameSteps

\* The answer to the request keeps the basic invariant.
LEMMA BasicAnswer ==
  ASSUME BasicInv, ReceiveAnswer
  PROVE  BasicInv'
<1> DEFINE code == Received.value
<1>1. /\ toClient # <<>> /\ Received.type = "answer" /\ toClient' = Tail(toClient)
      /\ UNCHANGED <<connectorVars, served, asked, unsaid, stalled>>
  BY DEF ReceiveAnswer, Receives
<1>2. /\ w \in Wizard /\ Once(w)
      /\ w.running => w.started
      /\ ~w.running => ~w.initializing
  BY DEF BasicInv, TypeInv, Once
<1>3. MaySay(w.protocol, Received)
  BY <1>1, TakeOne DEF BasicInv, TypeInv, Received
<1>4. code = 0 \/ code \in DOMAIN Codes(w.protocol)
  BY <1>1, <1>3 DEF MaySay
<1>5. CASE ~(w.running /\ w.initializing)
  <2>1. w' = Misread(w)
    BY <1>2, <1>5 DEF ReceiveAnswer
  <2>3. w.started \/ Misread(w).steps = w.steps
    BY <1>2, MisreadKeepsSteps
  <2>4. Kept(w', w)
    BY <1>2, <2>1, KeptMisread
  <2>5. w'.protocol = w.protocol /\ w'.started = w.started
    BY <2>4 DEF Kept
  <2> QED
    BY <1>1, <2>1, <2>3, <2>4, <2>5, TakeKeepsFrames, BasicServes DEF BasicInv
<1>6. CASE w.running /\ w.initializing
  <2>1. Kept(w', w)
    <3>1. CASE w.shuttingDown
      <4>1. w' = [w EXCEPT !.initializing = FALSE]
        BY <1>6, <3>1 DEF ReceiveAnswer
      <4>2. /\ w' \in Wizard /\ SameSteps(w', w) /\ SameTurn(w', w) /\ SameRequest(w', w)
            /\ w'.protocol = w.protocol /\ w'.running = w.running
            /\ w'.shuttingDown = w.shuttingDown
        BY <1>2, <4>1 DEF Wizard, SameSteps, SameTurn, SameRequest
      <4>3. Active(w') <=> Active(w)
        BY <4>2 DEF Active, SameRequest
      <4>4. Once(w')
        BY <1>2, <1>6, <4>2, <4>3, OnceFollows DEF Once, SameSteps, SameRequest
      <4> QED
        BY <4>2, <4>4 DEF Kept, Asks, SameSteps, SameTurn, SameRequest
    <3>2. CASE ~w.shuttingDown /\ code # 0
      <4> DEFINE b == Blame(w, Codes(w.protocol)[code])
      <4>1. Initialized(code) = b
        BY <1>2, <1>4, <3>2, InitializedBegins
      <4>2. w' = Clear(b)
        BY <1>6, <3>2, <4>1 DEF ReceiveAnswer
      <4>3. Codes(w.protocol)[code] \in Blames
        BY <1>2, <1>4, <3>2, CodesAreFields
      <4>4. Kept(b, w) /\ ~Active(b)
        BY <1>2, <1>6, <4>3, KeptBlame
      <4> HIDE DEF b
      <4>5. Kept(Clear(b), b)
        BY <4>4, KeptClear DEF Kept
      <4> QED
        BY <4>2, <4>4, <4>5, KeptTwice
    <3>3. CASE ~w.shuttingDown /\ code = 0
      <4> DEFINE b == Begin(w)
      <4>1. Initialized(code) = b
        BY <1>2, <3>3, InitializedBegins
      <4>2. w' = [b EXCEPT !.initializing = FALSE]
        BY <1>6, <3>3, <4>1 DEF ReceiveAnswer
      <4>3. Kept(b, w) /\ b \in Wizard
        BY <1>2, <1>6, KeptBegin DEF Kept
      <4> HIDE DEF b
      <4>4. /\ w' \in Wizard /\ SameSteps(w', b) /\ SameTurn(w', b) /\ SameRequest(w', b)
            /\ w'.protocol = b.protocol /\ w'.running = b.running
            /\ w'.shuttingDown = b.shuttingDown /\ ~w'.initializing
        BY <4>2, <4>3 DEF Wizard, SameSteps, SameTurn, SameRequest
      <4>5. Active(w') <=> Active(b)
        BY <4>4 DEF Active, SameRequest
      <4>6. b.started
        BY <1>2, <1>6, <4>3 DEF Kept
      <4>7. Once(w')
        BY <4>3, <4>4, <4>5, <4>6, OnceFollows
          DEF Kept, Once, SameSteps, SameRequest, SameTurn
      <4>8. Kept(w', b)
        BY <4>4, <4>7 DEF Kept, Asks, SameSteps, SameTurn, SameRequest
      <4> QED
        BY <4>3, <4>8, KeptTwice
    <3> QED
      BY <3>1, <3>2, <3>3
  <2>2. w'.protocol = w.protocol /\ w'.started
    BY <1>2, <1>6, <2>1 DEF Kept
  <2> QED
    BY <1>1, <2>1, <2>2, TakeKeepsFrames, BasicServes DEF BasicInv
<1> QED
  BY <1>5, <1>6

\* A frame of the stream keeps the basic invariant.
LEMMA BasicStream ==
  ASSUME BasicInv, ReceiveStream
  PROVE  BasicInv'
<1>1. /\ toClient # <<>> /\ Received.type = "stream" /\ toClient' = Tail(toClient)
      /\ UNCHANGED <<connectorVars, served, asked, unsaid, stalled>>
  BY DEF ReceiveStream, Receives
<1>2. w \in Wizard /\ Once(w) /\ (w.running => w.started)
  BY DEF BasicInv, TypeInv, Once
<1>3. Received \in Frames /\ MaySay(w.protocol, Received)
  BY <1>1, TakeOne DEF BasicInv, TypeInv, Received
<1>4. CASE ~w.running
  <2>1. w' = Misread(w)
    BY <1>4 DEF ReceiveStream
  <2>2. w.started \/ Misread(w).steps = w.steps
    BY <1>4, MisreadKeepsSteps
  <2>3. Kept(w', w)
    BY <1>2, <2>1, KeptMisread
  <2>4. w'.protocol = w.protocol /\ w'.started = w.started
    BY <2>3 DEF Kept
  <2> QED
    BY <1>1, <2>1, <2>2, <2>3, <2>4, TakeKeepsFrames, BasicServes DEF BasicInv
<1>5. CASE w.running
  <2>1. Kept(w', w)
    <3>1. PICK k \in DOMAIN Markers(w.protocol) :
            /\ Received.value = Markers(w.protocol)[k] /\ k \in StreamKinds
            /\ w.protocol = "telnet" => k \notin Questions
      BY <1>1, <1>2, <1>3, StreamFrame
    <3>2. Ticked(Received.value) = Hear(w, k)
      BY <1>2, <3>1, TickedHears
    <3>3. Kept(Hear(w, k), w)
      BY <1>2, <1>5, <3>1, KeptHear
    <3>4. w' = Misread(w) \/ w' = w \/ w' = Ticked(Received.value)
      BY DEF ReceiveStream
    <3> QED
      BY <1>2, <3>2, <3>3, <3>4, KeptMisread, KeptSelf
  <2>2. w'.protocol = w.protocol /\ w'.started
    BY <1>2, <1>5, <2>1 DEF Kept
  <2> QED
    BY <1>1, <2>1, <2>2, TakeKeepsFrames, BasicServes DEF BasicInv
<1> QED
  BY <1>4, <1>5

\* The server's CLOSE keeps the basic invariant.
LEMMA BasicClose ==
  ASSUME BasicInv, ReceiveClose
  PROVE  BasicInv'
<1>1. /\ toClient # <<>> /\ toClient' = Tail(toClient)
      /\ UNCHANGED <<connectorVars, served, asked, unsaid, stalled>>
  BY DEF ReceiveClose, Receives
<1>2. w \in Wizard /\ Once(w) /\ (w.running => w.started)
  BY DEF BasicInv, TypeInv, Once
<1>3. CASE ~w.running
  <2>1. w' = Misread(w)
    BY <1>3 DEF ReceiveClose
  <2>2. w.started \/ Misread(w).steps = w.steps
    BY <1>3, MisreadKeepsSteps
  <2>3. Kept(w', w)
    BY <1>2, <2>1, KeptMisread
  <2>4. w'.protocol = w.protocol /\ w'.started = w.started
    BY <2>3 DEF Kept
  <2> QED
    BY <1>1, <2>1, <2>2, <2>3, <2>4, TakeKeepsFrames, BasicServes DEF BasicInv
<1>4. CASE w.running
  <2> DEFINE c == CloseStream(w)
  <2>1. w' = Put(c, "completed")
    BY <1>4 DEF ReceiveClose, Send
  <2>2. Kept(c, w)
    BY <1>2, <1>4, KeptCloseStream
  <2> HIDE DEF c
  <2>3. "completed" \in Bodies
    BY DEF Bodies
  <2>4. Kept(Put(c, "completed"), c)
    BY <1>2, <1>4, <2>2, <2>3, KeptPut DEF Kept
  <2>5. Kept(w', w)
    BY <2>1, <2>2, <2>4, KeptTwice
  <2>6. w'.protocol = w.protocol /\ w'.started
    BY <1>2, <1>4, <2>5 DEF Kept
  <2> QED
    BY <1>1, <2>5, <2>6, TakeKeepsFrames, BasicServes DEF BasicInv
<1> QED
  BY <1>3, <1>4

\* The server's COMPLETED keeps the basic invariant.
LEMMA BasicCompleted ==
  ASSUME BasicInv, ReceiveCompleted
  PROVE  BasicInv'
<1>1. /\ toClient # <<>> /\ toClient' = Tail(toClient)
      /\ UNCHANGED <<connectorVars, served, asked, unsaid, stalled>>
  BY DEF ReceiveCompleted, Receives
<1>2. w \in Wizard /\ Once(w) /\ (w.running => w.started)
  BY DEF BasicInv, TypeInv, Once
<1>3. CASE ~w.running
  <2>1. w' = Misread(w)
    BY <1>3 DEF ReceiveCompleted
  <2>2. w.started \/ Misread(w).steps = w.steps
    BY <1>3, MisreadKeepsSteps
  <2>3. Kept(w', w)
    BY <1>2, <2>1, KeptMisread
  <2>4. w'.protocol = w.protocol /\ w'.started = w.started
    BY <2>3 DEF Kept
  <2> QED
    BY <1>1, <2>1, <2>2, <2>3, <2>4, TakeKeepsFrames, BasicServes DEF BasicInv
<1>4. CASE w.running
  <2> DEFINE r == ResolveTerminal(w, "failure")
  <2>1. w' = Misread(w) \/ w' = Clear(r)
    BY <1>2, CompletedEnds DEF ReceiveCompleted
  <2>2. "failure" \in Terminals
    BY DEF Terminals
  <2>3. Kept(r, w) /\ ~Active(r)
    BY <1>2, <2>2, KeptResolveTerminal
  <2> HIDE DEF r
  <2>4. Kept(Clear(r), r)
    BY <2>3, KeptClear DEF Kept
  <2>5. Kept(w', w)
    BY <1>2, <2>1, <2>3, <2>4, KeptTwice, KeptMisread
  <2>6. w'.protocol = w.protocol /\ w'.started
    BY <1>2, <1>4, <2>5 DEF Kept
  <2> QED
    BY <1>1, <2>5, <2>6, TakeKeepsFrames, BasicServes DEF BasicInv
<1> QED
  BY <1>3, <1>4

\* A step of the browser alone.
LEMMA BasicAlone ==
  ASSUME BasicInv, Kept(w', w), UNCHANGED <<connectorVars, serverVars>>,
         w'.started \/ w'.steps = w.steps
  PROVE  BasicInv'
<1>1. w'.protocol = w.protocol
  BY DEF Kept
<1>2. toClient' \in Seq(Frames) /\ \A g \in Elements(toClient') : MaySay(w'.protocol, g)
  BY <1>1 DEF BasicInv, TypeInv, serverVars
<1> QED
  BY <1>2, BasicServes DEF serverVars

\* The wizard as it is when what it read is there.
LEMMA ReadingEnds ==
  ASSUME NEW v \in Wizard, Once(v), v.reading # "nothing",
         NEW u, u = [v EXCEPT !.reading = "nothing"]
  PROVE  /\ Kept(u, v) /\ v.started /\ v.running
         /\ SameSteps(u, v) /\ SameEnds(u, v) /\ SameRequest(u, v) /\ u.sent = v.sent
         /\ SameHistory(u, v) /\ u.reading = "nothing" /\ u.closed = v.closed
<1>1. v.started /\ v.running
  BY DEF Once
<1>2. /\ u \in Wizard /\ SameSteps(u, v) /\ SameEnds(u, v) /\ SameRequest(u, v)
      /\ u.sent = v.sent /\ u.reading = "nothing" /\ u.closed = v.closed
  BY DEF Wizard, SameSteps, SameEnds, SameRequest
<1>3. SameHistory(u, v)
  BY DEF Wizard, SameHistory
<1>4. Kept(u, v)
  BY <1>1, <1>2, <1>3, KeptQuietly DEF SameEnds, SameRequest, SameHistory
<1> QED
  BY <1>1, <1>2, <1>3, <1>4

\* The rest of a frame keeps the basic invariant.
LEMMA BasicFinishReading ==
  ASSUME BasicInv, FinishReading
  PROVE  BasicInv'
<1> DEFINE r == [w EXCEPT !.reading = "nothing"]
<1>1. w \in Wizard /\ Once(w) /\ w.reading # "nothing"
  BY DEF BasicInv, TypeInv, FinishReading
<1>2. Kept(r, w) /\ w.started
  BY <1>1, ReadingEnds
<1>3. w' = HasRead(r)
  BY DEF FinishReading
<1>4. w.reading = "fingerprint" => w.protocol # "telnet" /\ r.protocol # "telnet"
  BY <1>2 DEF BasicInv, NoLogin, Asks, Kept
<1> HIDE DEF r
<1>5. "wait" \in Steps \ Terminals /\ "wait" # "form" /\ "failure" \in Terminals
      /\ "wait" \notin Questions
  BY DEF Steps, Terminals, Questions
<1>6. r \in Wizard /\ Once(r) /\ r.started
  BY <1>2 DEF Kept
<1>7. Kept(ResolveTerminal(r, "failure"), r) /\ Kept(Resolve(r, "wait"), r)
  BY <1>5, <1>6, KeptResolveTerminal, KeptResolve
<1>8. w.reading \in {"failed", "hook", "fingerprint"}
  BY <1>1 DEF Wizard
<1>9. Kept(w', r)
  <2>1. CASE w.reading = "fingerprint"
    BY <1>1, <1>3, <1>4, <1>6, <2>1, HasReadFinishes, KeptConfirm
  <2>2. CASE w.reading # "fingerprint"
    BY <1>1, <1>3, <1>7, <1>8, <2>2, HasReadFinishes
  <2> QED
    BY <2>1, <2>2
<1>10. Kept(w', w)
  BY <1>2, <1>9, KeptTwice
<1>11. w'.started
  BY <1>2, <1>10 DEF Kept
<1> QED
  BY <1>10, <1>11, BasicAlone DEF FinishReading

\* The end of the connection, as the server sees it.
LEMMA BasicEndsAll ==
  ASSUME BasicInv, Kept(w', w), EndsAll, w'.started \/ w'.steps = w.steps
  PROVE  BasicInv'
<1>1. toClient' = <<>> /\ Elements(toClient') = {}
  BY DEF EndsAll, Elements
<1>2. TypeInv'
  <2>1. stalled' \in BOOLEAN
    BY Zenon DEF EndsAll
  <2>2. toClient' \in Seq(Frames)
    BY <1>1
  <2>3. /\ served' \in {"idle", "refused", "closed"} \cup Live
        /\ asked' \in Questions \cup {"nothing", "refused"}
        /\ unsaid' \subseteq Questions \cup {"hook", "output"}
    BY DEF BasicInv, TypeInv, EndsAll
  <2>4. ConnectorTypeOK'
    BY DEF BasicInv, TypeInv, EndsAll, ConnectorTypeOK, connectorVars
  <2> QED
    BY <1>1, <2>1, <2>2, <2>3, <2>4 DEF TypeInv, Kept
<1>3. NoLogin'
  BY DEF BasicInv, NoLogin, Kept, EndsAll, connectorVars
<1>4. FormFirst'
  BY DEF BasicInv, FormFirst, Kept, EndsAll, connectorVars, Live
<1> QED
  BY <1>2, <1>3, <1>4 DEF BasicInv, Kept

\* The timeout and every loss of the connection keeps the basic invariant.
LEMMA BasicLosses ==
  ASSUME BasicInv, TimeOut \/ RequestFails \/ RequestIsRejected \/ Disconnect
  PROVE  BasicInv'
<1> DEFINE f == Fail(w)
<1>1. /\ w \in Wizard /\ Once(w)
      /\ w.sending => w.started
      /\ ~w.started => ~w.running
  BY DEF BasicInv, TypeInv, Once
<1>2. Kept(f, w)
  BY <1>1, KeptFail
<1>3. w.started \/ f.steps = w.steps
  <2>1. ~w.started => ~Active(w)
    BY <1>1 DEF Active, Once
  <2> QED
    BY <1>1, <2>1, FailFacts
<1> HIDE DEF f
<1>4. CASE TimeOut
  <2>1. w' = f /\ UNCHANGED <<connectorVars, serverVars>>
    BY <1>4 DEF TimeOut, f
  <2>2. w'.started = w.started
    BY <1>2, <2>1 DEF Kept
  <2> QED
    BY <1>2, <1>3, <2>1, <2>2, BasicAlone
<1>5. CASE RequestFails
  <2>1. w' = Lose(f) /\ EndsAll /\ w.started
    BY <1>1, <1>5 DEF RequestFails, f
  <2>2. Kept(w', f)
    BY <1>2, <2>1, KeptLose DEF Kept
  <2>3. Kept(w', w)
    BY <1>2, <2>2, KeptTwice
  <2>4. w'.started
    BY <2>1, <2>3 DEF Kept
  <2> QED
    BY <2>1, <2>3, <2>4, BasicEndsAll
<1>6. CASE RequestIsRejected
  <2>1. w' = [f EXCEPT !.sending = FALSE] /\ UNCHANGED <<connectorVars, serverVars>>
        /\ w.started
    BY <1>1, <1>6 DEF RequestIsRejected, f
  <2>2. f \in Wizard /\ Once(f) /\ f.started
    BY <1>2, <2>1 DEF Kept
  <2>3. /\ w' \in Wizard /\ SameSteps(w', f) /\ SameEnds(w', f) /\ SameTurn(w', f)
        /\ w'.request = f.request /\ w'.failed = f.failed /\ w'.started = f.started
        /\ w'.protocol = f.protocol
    BY <2>1, <2>2 DEF Wizard, SameSteps, SameEnds, SameTurn
  <2>4. Kept(w', f)
    BY <2>2, <2>3, KeptQuietly DEF SameEnds, SameTurn
  <2>5. Kept(w', w)
    BY <1>2, <2>4, KeptTwice
  <2> QED
    BY <2>1, <2>2, <2>3, <2>5, BasicAlone
<1>7. CASE Disconnect
  <2>1. w' = Lose(w) /\ EndsAll
    BY <1>7 DEF Disconnect
  <2>2. Kept(w', w)
    BY <1>1, <2>1, KeptLose
  <2>3. w.started \/ w'.steps = w.steps
    BY <1>1, <2>1, LoseFacts DEF Lost, SameSteps
  <2>4. w'.started = w.started
    BY <2>2 DEF Kept
  <2> QED
    BY <2>1, <2>2, <2>3, <2>4, BasicEndsAll
<1> QED
  BY <1>4, <1>5, <1>6, <1>7

\* What the server reads is taken from what was sent.
LEMMA KeptReads ==
  ASSUME BasicInv, NEW b \in Bodies, Reads(b)
  PROVE  Kept(w', w) /\ w'.started
<1> DEFINE x == Tail(w.sent)
           s == w.sending /\ b # "request"
           t == [w EXCEPT !.sent = x]
<1>1. w \in Wizard /\ Once(w) /\ w.sent # <<>>
  BY DEF BasicInv, TypeInv, Reads
<1>2. x \in Seq(Bodies) /\ s \in BOOLEAN
  BY <1>1, TakeOne DEF Wizard
<1>3. t \in Wizard
  BY <1>1, <1>2, SentType
<1>4. w' = [t EXCEPT !.sending = s]
  BY <1>1 DEF Reads, Wizard
<1> HIDE DEF x, s
<1>5. SameSteps(t, w) /\ SameEnds(t, w) /\ SameTurn(t, w) /\ SameRequest(t, w)
      /\ t.protocol = w.protocol
  BY <1>1 DEF Wizard, SameSteps, SameEnds, SameTurn, SameRequest
<1> HIDE DEF t
<1>6. /\ w' \in Wizard /\ SameSteps(w', t) /\ SameEnds(w', t) /\ SameTurn(w', t)
      /\ w'.request = t.request /\ w'.failed = t.failed /\ w'.started = t.started
      /\ w'.protocol = t.protocol
  BY <1>2, <1>3, <1>4 DEF Wizard, SameSteps, SameEnds, SameTurn
<1>7. w.started
  BY <1>1 DEF Once
<1>8. Kept(w', w)
  BY <1>1, <1>5, <1>6, <1>7, KeptQuietly DEF SameSteps, SameEnds, SameTurn, SameRequest
<1> QED
  BY <1>5, <1>6, <1>7, <1>8 DEF SameRequest

\* A step of the server: what it says is one of its frames.
LEMMA BasicServer ==
  ASSUME BasicInv, Kept(w', w), w'.started \/ w' = w, w.started, UNCHANGED connectorVars,
         served' \in {"idle", "refused", "closed"} \cup Live,
         asked' \in Questions \cup {"nothing", "refused"},
         unsaid' \subseteq Questions \cup {"hook", "output"},
         w.protocol = "telnet" => unsaid' \cap Questions = {},
         stalled' \in BOOLEAN,
         toClient' = toClient \/ \E f \in Frames : MaySay(w.protocol, f) /\ Write(f)
  PROVE  BasicInv'
<1>1. w'.protocol = w.protocol /\ w'.started
  BY DEF Kept
<1>2. toClient' \in Seq(Frames) /\ \A g \in Elements(toClient') : MaySay(w'.protocol, g)
  BY <1>1, WriteKeepsFrames DEF BasicInv, TypeInv
<1>3. TypeInv'
  BY <1>2 DEF BasicInv, TypeInv, Kept, ConnectorTypeOK, connectorVars
<1>4. NoLogin'
  BY DEF BasicInv, NoLogin, Kept, connectorVars
<1>5. FormFirst'
  BY <1>1 DEF BasicInv, FormFirst, Kept, connectorVars
<1> QED
  BY <1>3, <1>4, <1>5 DEF BasicInv, Kept

\* The markers and the codes of the server are ones the browser knows.
LEMMA MarkersAreSaid ==
  ASSUME w \in Wizard, NEW k \in StreamKinds, w.protocol = "telnet" => k \notin Questions
  PROVE  /\ k \in DOMAIN Markers(w.protocol) /\ Marker(k) = Markers(w.protocol)[k]
         /\ Marker(k) \in Nat
<1>1. CASE w.protocol = "ssh"
  <2>1. Markers(w.protocol) = SshMarkers /\ Marker(k) = SshMarkers[k]
    BY <1>1, Zenon DEF Markers, Marker
  <2> QED
    BY <2>1 DEF SshMarkers, StreamKinds
<1>2. CASE w.protocol = "mosh"
  <2>1. Markers(w.protocol) = MoshMarkers /\ Marker(k) = MoshMarkers[k]
    BY <1>2, Zenon DEF Markers, Marker
  <2> QED
    BY <2>1 DEF MoshMarkers, StreamKinds
<1>3. CASE w.protocol = "et"
  <2>1. Markers(w.protocol) = MoshMarkers /\ Marker(k) = MoshMarkers[k]
    BY <1>3, Zenon DEF Markers, Marker, EtMarkers
  <2> QED
    BY <2>1 DEF MoshMarkers, StreamKinds
<1>4. CASE w.protocol = "telnet"
  <2>1. Markers(w.protocol) = TelnetMarkers /\ Marker(k) = TelnetMarkers[k]
    BY <1>4, Zenon DEF Markers, Marker
  <2> QED
    BY <1>4, <2>1 DEF TelnetMarkers, StreamKinds, Questions
<1> QED
  BY <1>1, <1>2, <1>3, <1>4, FourProtocols

\* What the server says is a frame of its protocol.
LEMMA SaysFrame ==
  ASSUME w \in Wizard, NEW k \in StreamKinds, w.protocol = "telnet" => k \notin Questions,
         Says(k)
  PROVE  \E f \in Frames : MaySay(w.protocol, f) /\ Write(f) /\ Said(w.protocol, f) = k
                           /\ f.type = "stream"
<1> DEFINE f == [type |-> "stream", value |-> Marker(k)]
<1>1. /\ k \in DOMAIN Markers(w.protocol) /\ Marker(k) = Markers(w.protocol)[k]
      /\ Marker(k) \in Nat
  BY MarkersAreSaid
<1>2. f \in Frames /\ MaySay(w.protocol, f) /\ f.type = "stream"
  BY <1>1 DEF Frames, MaySay
<1>3. \E j \in DOMAIN Markers(w.protocol) :
        f.value = Markers(w.protocol)[j] /\ Said(w.protocol, f) = j
  BY <1>2, StreamFrame
<1>4. Said(w.protocol, f) = k
  <2>1. PICK j \in DOMAIN Markers(w.protocol) :
          Markers(w.protocol)[k] = Markers(w.protocol)[j] /\ Said(w.protocol, f) = j
    BY <1>1, <1>3
  <2>2. j = k
    <3>1. CASE w.protocol = "ssh"
      BY <1>1, <2>1, <3>1 DEF Markers, SshMarkers
    <3>2. CASE w.protocol = "mosh"
      BY <1>1, <2>1, <3>2 DEF Markers, MoshMarkers
    <3>3. CASE w.protocol = "et"
      BY <1>1, <2>1, <3>3 DEF Markers, EtMarkers, MoshMarkers
    <3>4. CASE w.protocol = "telnet"
      BY <1>1, <2>1, <3>4 DEF Markers, TelnetMarkers
    <3> QED
      BY <3>1, <3>2, <3>3, <3>4, FourProtocols
  <2> QED
    BY <2>1, <2>2
<1>5. Write(f)
  BY DEF Says
<1> QED
  BY <1>2, <1>4, <1>5

\* What the server refuses it refuses with a code by which the browser means the same.
LEMMA RefusalsAreMeant ==
  ASSUME w \in Wizard, NEW r \in Refusals
  PROVE  /\ r[2] \in Nat \ {0} /\ r[2] \in DOMAIN Codes(w.protocol)
         /\ Codes(w.protocol)[r[2]] = Named(r[1])
<1>1. CASE w.protocol = "ssh"
  <2>1. /\ Codes(w.protocol) = Ssh!RequestErrors
        /\ Refusals = {<<f, SshErrors[f]>> : f \in BadFields \ {"metadata"}}
    BY <1>1, Zenon DEF Codes, Refusals
  <2>2. PICK f \in BadFields \ {"metadata"} : r = <<f, SshErrors[f]>>
    BY <2>1
  <2>3. f \in {"user", "host"}
    BY <2>2 DEF BadFields
  <2> QED
    BY <2>1, <2>2, <2>3 DEF Ssh!RequestErrors, SshErrors, Named
<1>2. CASE w.protocol = "mosh"
  <2>1. /\ Codes(w.protocol) = Mosh!RequestErrors
        /\ Refusals = {<<f, MoshErrors[f]>> : f \in BadFields \cup {"proxy"}}
    BY <1>2, Zenon DEF Codes, Refusals
  <2>2. PICK f \in BadFields \cup {"proxy"} : r = <<f, MoshErrors[f]>>
    BY <2>1
  <2>3. f \in {"user", "host", "metadata", "proxy"}
    BY <2>2 DEF BadFields
  <2> QED
    BY <2>1, <2>2, <2>3 DEF Mosh!RequestErrors, MoshErrors, Named
<1>3. CASE w.protocol = "et"
  <2>1. /\ Codes(w.protocol) = Et!RequestErrors
        /\ Refusals = {<<f, EtErrors[f]>> : f \in (BadFields \ {"metadata"}) \cup {"proxy"}}
    BY <1>3, Zenon DEF Codes, Refusals
  <2>2. PICK f \in (BadFields \ {"metadata"}) \cup {"proxy"} : r = <<f, EtErrors[f]>>
    BY <2>1
  <2>3. f \in {"user", "host", "proxy"}
    BY <2>2 DEF BadFields
  <2> QED
    BY <2>1, <2>2, <2>3 DEF Et!RequestErrors, EtErrors, Named
<1>4. CASE w.protocol = "telnet"
  <2>1. /\ Codes(w.protocol) = Telnet!RequestErrors
        /\ Refusals = {<<f, TelnetErrors[f]>> : f \in BadFields \cap {"host"}}
    BY <1>4, Zenon DEF Codes, Refusals
  <2>2. r = <<"host", TelnetErrors["host"]>>
    BY <2>1
  <2> QED
    BY <2>1, <2>2 DEF Telnet!RequestErrors, TelnetErrors, Named
<1> QED
  BY <1>1, <1>2, <1>3, <1>4, FourProtocols

\* Whatever the server does keeps the basic invariant.
LEMMA BasicServerStep ==
  ASSUME BasicInv, ServerStep \/ Report \/ End \/ Stall
  PROVE  BasicInv'
<1>1. /\ w \in Wizard /\ Once(w) /\ Kept(w, w)
      /\ served \in {"idle", "refused", "closed"} \cup Live
      /\ asked \in Questions \cup {"nothing", "refused"}
      /\ unsaid \subseteq Questions \cup {"hook", "output"}
      /\ w.protocol = "telnet" => unsaid \cap Questions = {}
      /\ stalled \in BOOLEAN
  BY KeptSelf DEF BasicInv, TypeInv, NoLogin
<1>2. served \in Live \/ w.sent # <<>> => w.started
  BY <1>1 DEF BasicInv, FormFirst, Once, Live
<1>3. /\ {"request", "trust", "refuse", "credential", "close", "completed"} \subseteq Bodies
      /\ {"hook", "failed", "connected", "output"} \subseteq StreamKinds \ Questions
      /\ Questions \subseteq StreamKinds
  BY DEF Bodies, AnswerBodies, StreamKinds, Questions
<1>4. CASE BootUp
  <2>1. Kept(w', w) /\ w'.started /\ w.started
    BY <1>3, <1>4, KeptReads DEF BootUp, Kept
  <2>2. \E f \in Frames : MaySay(w.protocol, f) /\ Write(f)
    <3>1. CASE Write([type |-> "answer", value |-> 0])
      <4>1. [type |-> "answer", value |-> 0] \in Frames
        BY DEF Frames
      <4>2. MaySay(w.protocol, [type |-> "answer", value |-> 0])
        BY DEF MaySay
      <4> QED
        BY <3>1, <4>1, <4>2
    <3>2. ASSUME NEW r \in Refusals, Write([type |-> "answer", value |-> r[2]])
          PROVE  \E f \in Frames : MaySay(w.protocol, f) /\ Write(f)
      <4>1. r[2] \in Nat /\ r[2] \in DOMAIN Codes(w.protocol)
        BY <1>1, RefusalsAreMeant
      <4>2. [type |-> "answer", value |-> r[2]] \in Frames
        BY <4>1 DEF Frames
      <4>3. MaySay(w.protocol, [type |-> "answer", value |-> r[2]])
        BY <4>1 DEF MaySay
      <4> QED
        BY <3>2, <4>2, <4>3
    <3> QED
      BY <1>4, <3>1, <3>2 DEF BootUp
  <2>3. /\ UNCHANGED <<connectorVars, asked, stalled>>
        /\ served' \in {"open", "refused"}
        /\ unsaid' = unsaid \/
           unsaid' = {"hook", "output"} \cup (IF w.protocol = "telnet" THEN {} ELSE Questions)
    BY <1>4 DEF BootUp
  <2>4. /\ unsaid' \subseteq Questions \cup {"hook", "output"}
        /\ w.protocol = "telnet" => unsaid' \cap Questions = {}
    BY <1>1, <2>3 DEF Questions
  <2> QED
    BY <1>1, <2>1, <2>2, <2>3, <2>4, BasicServer DEF Live
<1>5. ASSUME NEW k \in StreamKinds, w.protocol = "telnet" => k \notin Questions, Says(k),
             served \in Live, UNCHANGED <<w, connectorVars, stalled>>,
             served' \in Live, asked' \in Questions \cup {"nothing", "refused"},
             unsaid' \subseteq unsaid
      PROVE  BasicInv'
  <2>1. \E f \in Frames : MaySay(w.protocol, f) /\ Write(f)
    BY <1>1, <1>5, SaysFrame
  <2>2. Kept(w', w) /\ w' = w /\ w.started
    BY <1>1, <1>2, <1>5
  <2> QED
    BY <1>1, <1>5, <2>1, <2>2, BasicServer
<1>6. CASE Hook
  BY <1>1, <1>3, <1>5, <1>6 DEF Hook, Live, Questions
<1>7. ASSUME NEW q \in Questions, Ask(q) PROVE BasicInv'
  BY <1>1, <1>3, <1>5, <1>7 DEF Ask, Live
<1>8. CASE Report
  BY <1>1, <1>3, <1>5, <1>8 DEF Report, Live
<1>9. CASE Connect
  BY <1>1, <1>3, <1>5, <1>9 DEF Connect, Live
<1>10. CASE Output
  BY <1>1, <1>3, <1>5, <1>10 DEF Output, Live
<1>11. CASE End
  <2>1. [type |-> "close", value |-> 0] \in Frames
        /\ MaySay(w.protocol, [type |-> "close", value |-> 0])
    BY DEF Frames, MaySay
  <2>2. \E f \in Frames : MaySay(w.protocol, f) /\ Write(f)
    BY <1>11, <2>1 DEF End
  <2> QED
    BY <1>1, <1>2, <1>11, <2>2, BasicServer DEF End
<1>12. CASE ReadAnswer
  <2>1. Kept(w', w) /\ w'.started /\ w.started
    BY <1>3, <1>12, KeptReads DEF ReadAnswer, Kept
  <2> QED
    BY <1>1, <1>12, <2>1, BasicServer DEF ReadAnswer
<1>13. CASE ReadClose
  <2>1. Kept(w', w) /\ w'.started /\ w.started
    BY <1>3, <1>13, KeptReads DEF ReadClose, Kept
  <2>2. [type |-> "completed", value |-> 0] \in Frames
        /\ MaySay(w.protocol, [type |-> "completed", value |-> 0])
    BY DEF Frames, MaySay
  <2>3. \E f \in Frames : MaySay(w.protocol, f) /\ Write(f)
    BY <1>13, <2>2 DEF ReadClose
  <2> QED
    BY <1>1, <1>13, <2>1, <2>3, BasicServer DEF ReadClose
<1>14. CASE ReadCompleted
  <2>1. Kept(w', w) /\ w'.started /\ w.started
    BY <1>3, <1>14, KeptReads DEF ReadCompleted, Kept
  <2> QED
    BY <1>1, <1>14, <2>1, BasicServer DEF ReadCompleted, serverVars
<1>15. CASE Stall
  BY <1>1, <1>2, <1>15, BasicServer DEF Stall
<1> QED
  BY <1>4, <1>6, <1>7, <1>8, <1>9, <1>10, <1>11, <1>12, <1>13, <1>14, <1>15 DEF ServerStep

\* A wizard that is closed before it starts shows what it has shown.
LEMMA CloseKeepsSteps ==
  ASSUME NEW v \in Wizard, Once(v)
  PROVE  /\ CloseWizard(v).started = v.started
         /\ v.started \/ CloseWizard(v).steps = v.steps
<1> DEFINE u == CloseWizard(v)
<1>1. /\ ~v.closed /\ Active(v) => Over(u, v, "failure")
      /\ v.closed \/ ~Active(v) => SameRequest(u, v) /\ SameSteps(u, v)
  BY CloseWizardFacts
<1> HIDE DEF u
<1>2. ~v.started => ~Active(v)
  BY DEF Once, Active
<1>3. u.started = v.started /\ (v.started \/ u.steps = v.steps)
  BY <1>1, <1>2 DEF Over, SameRequest, SameSteps
<1> QED
  BY <1>3 DEF u

\* The modal's loop keeps the basic invariant.
LEMMA BasicLoop ==
  ASSUME BasicInv, LoopStep
  PROVE  BasicInv'
<1>1. /\ w \in Wizard /\ Once(w) /\ Kept(w, w)
      /\ UNCHANGED serverVars
  BY KeptSelf DEF BasicInv, TypeInv, LoopStep
<1>2. CASE ShowStep
  <2>1. /\ w.steps # <<>> /\ w' = TakeStep(w) /\ step' = Head(w.steps)
        /\ submitting' = FALSE /\ UNCHANGED <<saving, cancelled, held>>
    BY <1>2 DEF ShowStep
  <2>2. Kept(w', w)
    BY <1>1, <2>1, KeptTakeStep
  <2>3. w'.steps = Tail(w.steps)
    BY <1>1, <2>1, TakeStepFacts
  <2>4. /\ Head(w.steps) \in Steps /\ Head(w.steps) \in Elements(w.steps)
        /\ w.steps = <<"form">> => w'.steps = <<>> /\ Head(w.steps) = "form"
    BY <1>1, <2>1, <2>3, StepsAfterTake
  <2>5. ConnectorTypeOK'
    <3>1. working' \in BOOLEAN
      BY <1>1, <1>2 DEF ShowStep, Wizard
    <3>2. disabled' \in BOOLEAN
      BY <1>2 DEF ShowStep, BasicInv, TypeInv, ConnectorTypeOK
    <3>3. submitting' \in BOOLEAN
      BY <1>2, Zenon DEF ShowStep
    <3>4. loop' \in {"running", "ended", "thrown"}
      BY <1>2 DEF ShowStep
    <3>5. emitted' \in {"nothing", "cancel", "done", "editor", "dropped"}
      BY <1>2 DEF ShowStep, BasicInv, TypeInv, ConnectorTypeOK
    <3> QED
      BY <2>1, <2>4, <3>1, <3>2, <3>3, <3>4, <3>5 DEF BasicInv, TypeInv, ConnectorTypeOK
  <2>6. TypeInv'
    BY <1>1, <2>2, <2>5 DEF BasicInv, TypeInv, Kept, serverVars
  <2>7. NoLogin'
    BY <1>1, <2>1, <2>2, <2>4 DEF BasicInv, NoLogin, Kept, Asks, serverVars
  <2>8. FormFirst'
    <3>1. CASE w.started
      BY <1>1, <2>1, <2>2, <2>4, <3>1 DEF FormFirst, Kept, Once
    <3>2. CASE ~w.started
      <4>1. w.steps = <<"form">>
        BY <1>1, <2>1, <3>2 DEF Once
      <4> QED
        BY <1>1, <2>1, <2>2, <2>4, <3>2, <4>1 DEF BasicInv, FormFirst, Kept, serverVars
    <3> QED
      BY <3>1, <3>2
  <2> QED
    BY <2>2, <2>6, <2>7, <2>8 DEF BasicInv, Kept
<1>3. ASSUME Kept(w', w), w'.started \/ w'.steps = w.steps, ConnectorTypeOK',
             UNCHANGED <<step, submitting, saving>>
      PROVE  BasicInv'
  <2>1. TypeInv'
    BY <1>1, <1>3 DEF BasicInv, TypeInv, Kept, serverVars
  <2>2. NoLogin'
    BY <1>1, <1>3 DEF BasicInv, NoLogin, Kept, serverVars
  <2>3. FormFirst'
    BY <1>1, <1>3 DEF BasicInv, FormFirst, Kept, serverVars
  <2> QED
    BY <1>3, <2>1, <2>2, <2>3 DEF BasicInv, Kept
<1>4. CASE SendCancel
  BY <1>1, <1>3, <1>4 DEF SendCancel, BasicInv, TypeInv, ConnectorTypeOK
<1>5. CASE Dismiss
  <2>1. held' \in BOOLEAN
    BY <1>5, Zenon DEF Dismiss
  <2>2. ConnectorTypeOK'
    BY <1>5, <2>1 DEF Dismiss, BasicInv, TypeInv, ConnectorTypeOK
  <2>3. w' = CloseWizard(w) \/ w' = w
    BY <1>5 DEF Dismiss
  <2>4. Kept(w', w)
    BY <1>1, <2>3, KeptCloseWizard
  <2>5. w'.started \/ w'.steps = w.steps
    BY <1>1, <2>3, CloseKeepsSteps
  <2> QED
    BY <1>3, <1>5, <2>2, <2>4, <2>5 DEF Dismiss
<1> QED
  BY <1>2, <1>4, <1>5 DEF LoopStep

\* Whatever the user does to the prompt that is shown.
LEMMA BasicUser ==
  ASSUME BasicInv, UserActs
  PROVE  BasicInv'
<1>1. /\ w \in Wizard /\ Once(w) /\ Kept(w, w) /\ ConnectorTypeOK
      /\ UNCHANGED serverVars
      /\ step # "form" => (step \in Questions => w.started) /\ (saving => w.started)
  BY KeptSelf DEF BasicInv, TypeInv, UserActs, FormFirst, Questions
<1>2. ASSUME Kept(w', w), w'.started \/ w'.steps = w.steps, UNCHANGED step,
             ConnectorTypeOK', w'.started /\ step = "form" => submitting' = submitting,
             saving' = saving \/ (w.started /\ w.protocol # "telnet") \/ saving' = FALSE
      PROVE  BasicInv'
  <2>1. TypeInv'
    BY <1>1, <1>2 DEF BasicInv, TypeInv, Kept, serverVars
  <2>2. NoLogin'
    BY <1>1, <1>2 DEF BasicInv, NoLogin, Kept, serverVars
  <2>3. FormFirst'
    BY <1>1, <1>2 DEF BasicInv, FormFirst, Kept, serverVars
  <2> QED
    BY <1>2, <2>1, <2>2, <2>3 DEF BasicInv, Kept
<1>3. step \in Questions \/ saving => w.started /\ w.protocol # "telnet"
  BY DEF BasicInv, FormFirst, NoLogin, Questions
<1>4. CASE Submit
  <2>1. /\ step = "form" /\ ~submitting /\ submitting' = TRUE
        /\ UNCHANGED <<loop, step, working, disabled, saving, cancelled, held, emitted>>
    BY <1>4 DEF Submit, MaySubmit
  <2>2. ~w.started /\ w.steps = <<>> /\ served = "idle" /\ ~saving
    BY <2>1 DEF BasicInv, FormFirst
  <2>3. PICK available \in BOOLEAN, b \in BOOLEAN, c \in BOOLEAN :
          w' = Start(w, available, b, c)
    BY <1>1, <1>4, SubmitStarts DEF Submit
  <2>4. /\ w' \in Wizard /\ Once(w') /\ w'.protocol = w.protocol /\ w'.started
        /\ Asks(w') => Asks(w)
    BY <1>1, <2>2, <2>3, StartedOnce
  <2>5. submitting' \in BOOLEAN
    BY <2>1, Zenon
  <2>6. TypeInv'
    BY <1>1, <2>1, <2>4, <2>5 DEF BasicInv, TypeInv, ConnectorTypeOK, serverVars
  <2>7. NoLogin'
    BY <1>1, <2>1, <2>4 DEF BasicInv, NoLogin, serverVars
  <2>8. FormFirst'
    BY <2>1, <2>4 DEF FormFirst
  <2> QED
    BY <2>4, <2>6, <2>7, <2>8 DEF BasicInv
<1>5. ASSUME NEW prompt \in Questions, NEW answered, Answer(prompt, answered),
             w.protocol # "telnet" => Kept(answered, w)
      PROVE  BasicInv'
  <2>1. /\ step = prompt
        /\ UNCHANGED <<loop, step, working, disabled, saving, cancelled, held, emitted>>
        /\ \/ w' = w /\ submitting' = submitting
           \/ w' = answered /\ submitting' = TRUE
    BY <1>5 DEF Answer, MaySubmit
  <2>2. w.started /\ w.protocol # "telnet" /\ step # "form"
    BY <1>3, <2>1 DEF Questions
  <2>3. Kept(w', w)
    BY <1>1, <1>5, <2>1, <2>2
  <2>4. submitting' \in BOOLEAN
    <3>1. submitting \in BOOLEAN
      BY <1>1 DEF ConnectorTypeOK
    <3> QED
      BY <2>1, <3>1, Zenon
  <2>5. ConnectorTypeOK'
    BY <1>1, <2>1, <2>4 DEF ConnectorTypeOK
  <2>6. w'.started
    BY <2>2, <2>3 DEF Kept
  <2> QED
    BY <1>2, <2>1, <2>2, <2>3, <2>5, <2>6
<1>6. /\ "fingerprint" \in Questions /\ "credential" \in Questions
      /\ "credential" \in Bodies /\ "refuse" \in Bodies
  BY DEF Questions, Bodies, AnswerBodies
<1>7. step \in Questions \/ saving =>
         /\ Kept(Accept, w) /\ Kept(Login, w) /\ Kept(Reject, w) /\ Kept(DoNotLogin, w)
  BY <1>1, <1>3, <1>6, AnswersSend, KeptAnswers
<1>8. CASE Continue
  BY <1>5, <1>6, <1>7, <1>8 DEF Continue, Answer, MaySubmit
<1>9. CASE GiveCredential
  <2>1. Answer("credential", Login)
    BY <1>9 DEF GiveCredential
  <2> QED
    BY <1>5, <1>6, <1>7, <2>1 DEF Answer, MaySubmit
<1>10. CASE Save
  <2>1. submitting' \in BOOLEAN
    BY <1>10, Zenon DEF Save
  <2>2. saving' \in BOOLEAN
    BY <1>10, Zenon DEF Save
  <2>3. ConnectorTypeOK'
    BY <1>1, <1>10, <2>1, <2>2 DEF Save, ConnectorTypeOK
  <2> QED
    BY <1>1, <1>2, <1>3, <1>6, <1>10, <2>3 DEF Save
<1>11. CASE SaveReturns
  <2>1. submitting' \in BOOLEAN
    BY <1>11 DEF SaveReturns
  <2>2. saving' \in BOOLEAN
    BY <1>11, Zenon DEF SaveReturns
  <2>3. ConnectorTypeOK'
    BY <1>1, <1>11, <2>1, <2>2 DEF SaveReturns, ConnectorTypeOK
  <2>4. Kept(w', w) /\ w.started
    BY <1>1, <1>3, <1>7, <1>11 DEF SaveReturns
  <2>5. w'.started
    BY <2>4 DEF Kept
  <2>6. step = "form" => submitting' = submitting
    BY <1>1, <1>11, <2>1 DEF SaveReturns, ConnectorTypeOK
  <2> QED
    BY <1>2, <1>11, <2>3, <2>4, <2>5, <2>6 DEF SaveReturns
<1>12. ASSUME w' = CloseWizard(w) \/ w' = w, ConnectorTypeOK',
              UNCHANGED <<step, submitting, saving>>
       PROVE  BasicInv'
  <2>1. Kept(w', w)
    BY <1>1, <1>12, KeptCloseWizard
  <2>2. w'.started \/ w'.steps = w.steps
    BY <1>1, <1>12, CloseKeepsSteps
  <2> QED
    BY <1>2, <1>12, <2>1, <2>2
<1>13. CASE SaveAsPreset
  <2>1. held' \in BOOLEAN
    BY <1>13, Zenon DEF SaveAsPreset
  <2>2. ConnectorTypeOK'
    BY <1>1, <1>13, <2>1 DEF SaveAsPreset, ConnectorTypeOK
  <2> QED
    BY <1>12, <1>13, <2>2 DEF SaveAsPreset
<1>14. CASE Cancel
  <2>1. held' \in BOOLEAN
    BY <1>14, Zenon DEF Cancel
  <2>2. cancelled' \in BOOLEAN
    BY <1>14, Zenon DEF Cancel
  <2>3. ConnectorTypeOK'
    BY <1>1, <1>14, <2>1, <2>2 DEF Cancel, ConnectorTypeOK
  <2> QED
    BY <1>12, <1>14, <2>3 DEF Cancel
<1>15. ASSUME NEW prompt \in Questions, NEW answered, CancelPrompt(prompt, answered),
              step = prompt => Kept(answered, w)
       PROVE  BasicInv'
  <2>1. /\ step = prompt /\ (w' = w \/ w' = answered) /\ submitting' = TRUE
        /\ UNCHANGED <<loop, step, working, disabled, saving, cancelled, held, emitted>>
    BY <1>15 DEF CancelPrompt, MaySubmit
  <2>2. submitting' \in BOOLEAN
    BY <2>1, Zenon
  <2>3. ConnectorTypeOK'
    BY <1>1, <2>1, <2>2 DEF ConnectorTypeOK
  <2>4. Kept(w', w) /\ w.started /\ step # "form"
    BY <1>1, <1>3, <1>15, <2>1 DEF Questions
  <2>5. w'.started
    BY <2>4 DEF Kept
  <2> QED
    BY <1>2, <2>1, <2>3, <2>4, <2>5
<1>16. CASE RejectFingerprint
  BY <1>6, <1>7, <1>15, <1>16 DEF RejectFingerprint
<1>17. CASE CancelLogin
  BY <1>6, <1>7, <1>15, <1>17 DEF CancelLogin
<1> QED
  BY <1>4, <1>8, <1>9, <1>10, <1>11, <1>13, <1>14, <1>16, <1>17 DEF UserActs, UserStep

\* The basic invariant holds at first.
LEMMA BasicInit ==
  ASSUME Init
  PROVE  BasicInv
<1>1. PICK protocol \in Protocols, way \in Ways, config \in Configs,
           known \in {"same", "other"}, saves \in BOOLEAN, cached \in BOOLEAN,
           available \in BOOLEAN :
             w = Opened(NewWizard(protocol, way, config, known, saves, cached), available)
  BY DEF Init
<1> DEFINE v == NewWizard(protocol, way, config, known, saves, cached)
<1>2. config \in [Fields -> Values]
  BY DEF Configs, AllGood, Values
<1>3. NoField \in Blames
  BY DEF Blames
<1>4. v \in Wizard
  BY <1>2, <1>3 DEF Wizard, NewWizard
<1>5. /\ v.steps = <<>> /\ v.outcomes = <<>> /\ ~v.started /\ ~v.request /\ ~v.running
      /\ ~v.initializing /\ ~v.shuttingDown /\ ~v.senderClosed /\ ~v.sending
      /\ v.sent = <<>> /\ ~v.connected /\ v.reading = "nothing" /\ ~v.failed
  BY DEF NewWizard
<1> HIDE DEF v
<1>6. Once(v) /\ ~Asks(v)
  BY <1>5 DEF Once, Asks, Active, Elements
<1>7. /\ w \in Wizard /\ Once(w) /\ ~Asks(w)
  <2>1. CASE w = Push(v, "form")
    <3>1. "form" \in Steps \ Terminals
      BY DEF Steps, Prompts, Terminals
    <3>2. /\ w \in Wizard /\ w.steps = Append(v.steps, "form") /\ w.outcomes = v.outcomes
          /\ SameEnds(w, v) /\ SameTurn(w, v) /\ SameRequest(w, v) /\ w.sent = v.sent
      BY <1>4, <2>1, <3>1, PushGoesOn
    <3>3. w.steps = <<"form">>
      BY <1>5, <3>2
    <3>4. Elements(w.steps) = {"form"}
      BY <3>3 DEF Elements
    <3> QED
      BY <1>5, <1>6, <3>2, <3>3, <3>4
        DEF Once, Asks, Active, Questions, SameEnds, SameTurn, SameRequest
  <2>2. CASE \E b, c \in BOOLEAN : w = Start(v, available, b, c)
    BY <1>4, <1>5, <1>6, <2>2, StartedOnce
  <2> QED
    BY <1>1, <1>4, <2>1, <2>2, OpenedStarts DEF v
<1>8. ConnectorTypeOK
  <2>1. {working, disabled, submitting, saving, cancelled, held} \subseteq BOOLEAN
    BY Zenon DEF Init, ConnectorInit
  <2> QED
    BY <2>1 DEF Init, ConnectorInit, ConnectorTypeOK
<1>9. stalled \in BOOLEAN
  BY Zenon DEF Init
<1>10. Elements(toClient) = {} /\ toClient \in Seq(Frames)
  BY DEF Init, Elements
<1>11. TypeInv
  BY <1>7, <1>8, <1>9, <1>10 DEF Init, TypeInv
<1>12. NoLogin
  BY <1>7 DEF Init, ConnectorInit, NoLogin, Questions
<1>13. FormFirst
  BY <1>7 DEF Init, ConnectorInit, FormFirst
<1> QED
  BY <1>7, <1>11, <1>12, <1>13 DEF BasicInv

\* The basic invariant is inductive.
LEMMA BasicStep ==
  ASSUME BasicInv, [Next]_vars
  PROVE  BasicInv'
<1>1. CASE UNCHANGED vars
  BY <1>1, KeptSelf, BasicAlone DEF vars, BasicInv, TypeInv
<1> QED
  BY <1>1, BasicLoop, BasicUser, BasicAnswer, BasicStream, BasicClose, BasicCompleted,
     BasicFinishReading, BasicLosses, BasicServerStep DEF Next, ServeStep

\* The wizard, its modal and its server are what they are declared to be, a wizard has at
\* most one outcome, and of Telnet nothing is asked.
THEOREM WizardsAreTyped == Spec => []BasicInv
<1>1. Init => BasicInv
  BY BasicInit
<1>2. BasicInv /\ [Next]_vars => BasicInv'
  BY BasicStep
<1> QED
  BY <1>1, <1>2, PTL DEF Spec

\* "Publishes a terminal error step once": whichever end comes first, nothing ends the
\* wizard a second time.
THEOREM WizardsEndOnce == Spec => []OneTerminalStep
<1>1. BasicInv => OneTerminalStep
  BY DEF BasicInv, Once, OneTerminalStep
<1> QED
  BY <1>1, WizardsAreTyped, PTL

---------------------------------------------------------------------------
(* The two ends of the stream, as long as there is a connection            *)

Early == {"hook", "fingerprint", "credential"}

\* The order in which the server speaks.
MayFollow(k, l) ==
  /\ k # l /\ l # "answer" /\ k # "completed"
  /\ k \in {"failed", "connected"} => l \in {"output", "close", "completed"}
  /\ k = "output" => l \in {"close", "completed"}
  /\ k = "close" => l = "completed"

FrameOrder(p) == {x \in Frames \X Frames : MayFollow(Said(p, x[1]), Said(p, x[2]))}

\* The request comes first, and the stream is closed and completed once.
MayBeSentAfter(a, b) == b # "request" /\ (a = b => a \in AnswerBodies)
SentOrder == {x \in Bodies \X Bodies : MayBeSentAfter(x[1], x[2])}

\* The answer to the request names what is wrong with it.
AnswerFits(f) ==
  f.type = "answer" =>
    IF served = "refused"
      THEN /\ f.value # 0 /\ f.value \in DOMAIN Codes(w.protocol)
           /\ Codes(w.protocol)[f.value] = refused
      ELSE f.value = 0

QueueInv ==
  /\ InOrder(toClient, FrameOrder(w.protocol))
  /\ InOrder(w.sent, SentOrder)
  /\ \A f \in Elements(toClient) : AnswerFits(f)

\* What is under way from the server, by how far it has come.
ServerInv ==
  /\ served = "idle" => Coming = {} /\ unsaid = {}
  /\ \A k \in Early \cup {"output"} : k \in Coming => k \notin unsaid
  /\ \A k \in Early : k \in Coming => served \in Live \cup {"closed"}
  /\ "failed" \in Coming => served \in {"over", "closed"}
  /\ "connected" \in Coming \/ "output" \in Coming => served \in {"connected", "closed"}
  /\ "close" \in Coming => served = "closed"
  /\ "completed" \in Coming => /\ served \in {"closed", "refused"}
                               /\ w.senderClosed /\ "close" \notin Going

\* What is under way from the browser, and how the browser's end of the stream is.
BrowserInv ==
  /\ Coming # {} => w.running
  /\ "request" \in Going => served = "idle" /\ w.running /\ w.initializing
  /\ Active(w) /\ served = "idle" => "request" \in Going
  /\ "close" \in Going => /\ w.senderClosed /\ w.running
                          /\ w.initializing => w.shuttingDown
                          /\ served = "idle" => "request" \in Going
                          /\ served = "refused" => w.shuttingDown
  /\ "completed" \in Going => served = "closed" /\ "close" \notin Coming
  /\ w.shuttingDown => w.senderClosed
  /\ "answer" \in Coming => w.initializing
  /\ w.initializing /\ served # "idle" => "answer" \in Coming
  /\ served \in Live => w.running
  /\ ~w.running /\ served \in Live \cup {"closed"} => w.senderClosed
  /\ "completed" \in Coming => w.shuttingDown \/ "close" \in Coming
  /\ served = "closed" /\ w.running => w.shuttingDown \/ "close" \in Coming

\* Both ends agree on whether there is a session, while the browser listens.
ConnectedInv ==
  /\ w.connected => served \in {"connected", "closed"}
  /\ w.running /\ ~w.shuttingDown =>
       /\ \A k \in Early \cup {"failed", "connected"} : k \in Coming => ~w.connected
       /\ "output" \in Coming \/ served = "connected" => w.connected \/ "connected" \in Coming

LinkInv == QueueInv /\ ServerInv /\ BrowserInv /\ ConnectedInv

---------------------------------------------------------------------------
(* Whose turn it is                                                        *)

\* A question is on its way, being read, to be shown, shown, about to be answered with
\* a save, or answered, and one of these only.
IsRead(q) == w.reading = "fingerprint" /\ q = "fingerprint"
IsShown(q) == step = q /\ Shown /\ ~submitting /\ ~disabled
              /\ (loop = "running" => w.steps = <<>>)
IsSaved(q) == saving /\ q = "fingerprint"
IsAnswered(q) == \E b \in Answers(q) : b \in Going

Turns(q) ==
  /\ \/ q \in Coming \/ IsRead(q) \/ q \in Pending \/ IsShown(q) \/ IsSaved(q) \/ IsAnswered(q)
     => asked = q
  /\ IsAnswered(q) =>
       q \notin Coming /\ ~IsRead(q) /\ q \notin Pending /\ ~IsShown(q) /\ ~IsSaved(q)
  /\ IsSaved(q) => q \notin Coming /\ ~IsRead(q) /\ q \notin Pending /\ ~IsShown(q)
  /\ IsShown(q) => q \notin Coming /\ ~IsRead(q) /\ q \notin Pending
  /\ q \in Pending => q \notin Coming /\ ~IsRead(q)
  /\ IsRead(q) => q \notin Coming
  /\ IsRead(q) \/ q \in Pending \/ IsShown(q) \/ IsSaved(q) => ~w.initializing

\* One question is open at a time.
TurnOrder ==
  {x \in Bodies \X Bodies : ~(x[1] \in AnswerBodies /\ x[2] \in AnswerBodies)}
StepOrder == {x \in Steps \X Steps : ~(x[1] \in Questions /\ x[2] \in Questions)}

\* A wizard that was closed shows no other question.
ClosedShowsNothing ==
  w.closed /\ loop = "running" =>
    IF w.steps = <<>> THEN ~Active(w) ELSE Head(w.steps) \notin Questions

TurnInv ==
  /\ InOrder(w.steps, StepOrder)
  /\ InOrder(w.sent, TurnOrder)
  /\ \A q \in Questions : Turns(q)
  /\ served \in {"idle", "refused"} => asked = "nothing"
  /\ step \in Questions /\ ~disabled => loop = "running"
  /\ ClosedShowsNothing

---------------------------------------------------------------------------
(* The invariant                                                           *)

BlamedInv == /\ ~w.misread /\ w.blamed \in {NoField, refused}
             /\ served = "idle" => w.blamed = NoField
             /\ ~w.up => w.sent = <<>>

WizardInv == /\ BasicInv /\ BlamedInv
             /\ w.up => LinkInv /\ TurnInv

---------------------------------------------------------------------------
(* What is added to and taken from the queues                              *)

Kinds == StreamKinds \cup {"answer", "close", "completed"}

\* What a frame says is known.
LEMMA SaidKinds ==
  ASSUME w \in Wizard, NEW f \in Frames, MaySay(w.protocol, f)
  PROVE  /\ Said(w.protocol, f) \in Kinds
         /\ Said(w.protocol, f) \in StreamKinds <=> f.type = "stream"
         /\ f.type # "stream" => Said(w.protocol, f) = f.type
<1>1. CASE f.type = "stream"
  BY <1>1, StreamFrame DEF Kinds
<1>2. CASE f.type # "stream"
  BY <1>2 DEF Said, Frames, Kinds, StreamKinds
<1> QED
  BY <1>1, <1>2

\* What is on its way to the browser is known.
LEMMA ComingKinds ==
  ASSUME TypeInv
  PROVE  Coming \subseteq Kinds
<1> SUFFICES ASSUME NEW f \in Elements(toClient)
             PROVE  Said(w.protocol, f) \in Kinds
  BY DEF Coming
<1>1. f \in Frames /\ MaySay(w.protocol, f) /\ w \in Wizard
  BY DEF TypeInv, Elements
<1> QED
  BY <1>1, SaidKinds

\* What the server writes comes last.
LEMMA FrameWritten ==
  ASSUME TypeInv, NEW f \in Frames, MaySay(w.protocol, f), Write(f),
         w'.protocol = w.protocol
  PROVE  /\ Coming' = Coming \cup {Said(w.protocol, f)}
         /\ Elements(toClient)' = Elements(toClient) \cup {f}
         /\ InOrder(toClient, FrameOrder(w.protocol))
            /\ (\A k \in Coming : MayFollow(k, Said(w.protocol, f)))
              => InOrder(toClient, FrameOrder(w.protocol))'
<1>1. toClient \in Seq(Frames)
  BY DEF TypeInv
<1>2. /\ Elements(toClient') = Elements(toClient) \cup {f}
      /\ InOrder(toClient, FrameOrder(w.protocol))
         /\ (\A g \in Elements(toClient) : <<g, f>> \in FrameOrder(w.protocol))
           => InOrder(toClient', FrameOrder(w.protocol))
  BY <1>1, AppendOne DEF Write
<1>3. Coming' = Coming \cup {Said(w.protocol, f)}
  BY <1>2 DEF Coming
<1>4. ASSUME \A k \in Coming : MayFollow(k, Said(w.protocol, f))
      PROVE  \A g \in Elements(toClient) : <<g, f>> \in FrameOrder(w.protocol)
  BY <1>1, <1>4 DEF Coming, FrameOrder, Elements
<1> QED
  BY <1>2, <1>3, <1>4

\* What the browser reads came first.
LEMMA FrameTaken ==
  ASSUME TypeInv, toClient # <<>>, toClient' = Tail(toClient), w'.protocol = w.protocol
  PROVE  /\ Received \in Elements(toClient)
         /\ Coming = {Said(w.protocol, Received)} \cup Coming'
         /\ Elements(toClient)' \subseteq Elements(toClient)
         /\ InOrder(toClient, FrameOrder(w.protocol)) =>
              /\ InOrder(toClient, FrameOrder(w.protocol))'
              /\ \A k \in Coming' : MayFollow(Said(w.protocol, Received), k)
<1>1. toClient \in Seq(Frames)
  BY DEF TypeInv
<1>2. /\ Received \in Frames
      /\ Elements(toClient) = {Received} \cup Elements(toClient')
      /\ InOrder(toClient, FrameOrder(w.protocol)) =>
           /\ InOrder(toClient', FrameOrder(w.protocol))
           /\ \A g \in Elements(toClient') : <<Received, g>> \in FrameOrder(w.protocol)
  BY <1>1, TakeOne DEF Received
<1>3. Coming = {Said(w.protocol, Received)} \cup Coming'
  BY <1>2 DEF Coming
<1>4. ASSUME InOrder(toClient, FrameOrder(w.protocol))
      PROVE  \A k \in Coming' : MayFollow(Said(w.protocol, Received), k)
  BY <1>2, <1>4 DEF Coming, FrameOrder
<1> QED
  BY <1>2, <1>3, <1>4

\* What the browser sends comes last.
LEMMA BodySent ==
  ASSUME w \in Wizard, NEW b \in Bodies, w'.sent = Append(w.sent, b)
  PROVE  /\ Going' = Going \cup {b}
         /\ InOrder(w.sent, SentOrder) /\ (\A a \in Going : MayBeSentAfter(a, b))
              => InOrder(w.sent, SentOrder)'
         /\ InOrder(w.sent, TurnOrder) /\ (b \in AnswerBodies => Going \cap AnswerBodies = {})
              => InOrder(w.sent, TurnOrder)'
<1>1. w.sent \in Seq(Bodies)
  BY DEF Wizard
<1>2. Going' = Going \cup {b} /\ Going \subseteq Bodies
  BY <1>1, AppendOne DEF Going, Elements
<1>3. ASSUME InOrder(w.sent, SentOrder), \A a \in Going : MayBeSentAfter(a, b)
      PROVE  InOrder(w.sent, SentOrder)'
  <2>1. \A a \in Elements(w.sent) : <<a, b>> \in SentOrder
    BY <1>2, <1>3 DEF Going, SentOrder
  <2>2. InOrder(w'.sent, SentOrder)
    BY <1>1, <1>3, <2>1, AppendOne
  <2> QED
    BY <2>2
<1>4. ASSUME InOrder(w.sent, TurnOrder), b \in AnswerBodies => Going \cap AnswerBodies = {}
      PROVE  InOrder(w.sent, TurnOrder)'
  <2>1. \A a \in Elements(w.sent) : <<a, b>> \in TurnOrder
    BY <1>2, <1>4 DEF Going, TurnOrder
  <2>2. InOrder(w'.sent, TurnOrder)
    BY <1>1, <1>4, <2>1, AppendOne
  <2> QED
    BY <2>2
<1> QED
  BY <1>2, <1>3, <1>4

\* What the server reads was sent first.
LEMMA BodyTaken ==
  ASSUME w \in Wizard, w.sent # <<>>, w'.sent = Tail(w.sent)
  PROVE  /\ Going = {Incoming} \cup Going' /\ Incoming \in Bodies
         /\ InOrder(w.sent, SentOrder) => /\ InOrder(w.sent, SentOrder)'
                                          /\ \A b \in Going' : MayBeSentAfter(Incoming, b)
         /\ InOrder(w.sent, TurnOrder) =>
              /\ InOrder(w.sent, TurnOrder)'
              /\ Incoming \in AnswerBodies => Going' \cap AnswerBodies = {}
<1>1. w.sent \in Seq(Bodies)
  BY DEF Wizard
<1>2. Going = {Incoming} \cup Going' /\ Incoming \in Bodies
  BY <1>1, TakeOne DEF Going, Incoming
<1>3. ASSUME InOrder(w.sent, SentOrder)
      PROVE  InOrder(w.sent, SentOrder)' /\ \A b \in Going' : MayBeSentAfter(Incoming, b)
  <2>1. /\ InOrder(w'.sent, SentOrder)
        /\ \A b \in Elements(w'.sent) : <<Incoming, b>> \in SentOrder
    BY <1>1, <1>3, TakeOne DEF Incoming
  <2> QED
    BY <2>1 DEF Going, SentOrder
<1>4. ASSUME InOrder(w.sent, TurnOrder)
      PROVE  /\ InOrder(w.sent, TurnOrder)'
             /\ Incoming \in AnswerBodies => Going' \cap AnswerBodies = {}
  <2>1. /\ InOrder(w'.sent, TurnOrder)
        /\ \A b \in Elements(w'.sent) : <<Incoming, b>> \in TurnOrder
    BY <1>1, <1>4, TakeOne DEF Incoming
  <2> QED
    BY <2>1 DEF Going, TurnOrder
<1> QED
  BY <1>2, <1>3, <1>4

\* What is published comes last.
LEMMA StepPublished ==
  ASSUME w \in Wizard, NEW s \in Steps, w'.steps = Append(w.steps, s)
  PROVE  /\ Pending' = Pending \cup {s}
         /\ w'.steps # <<>>
         /\ Head(w'.steps) = IF w.steps = <<>> THEN s ELSE Head(w.steps)
         /\ InOrder(w.steps, StepOrder) /\ (s \in Questions => Pending \cap Questions = {})
              => InOrder(w.steps, StepOrder)'
<1>1. w.steps \in Seq(Steps)
  BY DEF Wizard
<1>2. Pending' = Pending \cup {s} /\ Pending \subseteq Steps
  BY <1>1, AppendOne DEF Pending, Elements
<1>3. ASSUME InOrder(w.steps, StepOrder), s \in Questions => Pending \cap Questions = {}
      PROVE  InOrder(w.steps, StepOrder)'
  <2>1. \A a \in Elements(w.steps) : <<a, s>> \in StepOrder
    BY <1>2, <1>3 DEF Pending, StepOrder
  <2>2. InOrder(w'.steps, StepOrder)
    BY <1>1, <1>3, <2>1, AppendOne
  <2> QED
    BY <2>2
<1>4. Head(w'.steps) = IF w.steps = <<>> THEN s ELSE Head(w.steps)
  BY <1>1, HeadTailAppend
<1>5. w'.steps # <<>>
  BY <1>1, AppendProperties
<1> QED
  BY <1>2, <1>3, <1>4, <1>5

\* What the modal shows was published first.
LEMMA StepShown ==
  ASSUME w \in Wizard, w.steps # <<>>, w'.steps = Tail(w.steps)
  PROVE  /\ Pending = {Head(w.steps)} \cup Pending' /\ Head(w.steps) \in Steps
         /\ InOrder(w.steps, StepOrder) =>
              /\ InOrder(w.steps, StepOrder)'
              /\ Head(w.steps) \in Questions => Pending' \cap Questions = {}
<1>1. w.steps \in Seq(Steps)
  BY DEF Wizard
<1>2. Pending = {Head(w.steps)} \cup Pending' /\ Head(w.steps) \in Steps
  BY <1>1, TakeOne DEF Pending
<1>3. ASSUME InOrder(w.steps, StepOrder)
      PROVE  /\ InOrder(w.steps, StepOrder)'
             /\ Head(w.steps) \in Questions => Pending' \cap Questions = {}
  <2>1. /\ InOrder(w'.steps, StepOrder)
        /\ \A s \in Elements(w'.steps) : <<Head(w.steps), s>> \in StepOrder
    BY <1>1, <1>3, TakeOne
  <2> QED
    BY <2>1 DEF Pending, StepOrder
<1> QED
  BY <1>2, <1>3

\* A queue is empty when nothing is in it.
LEMMA NothingQueued ==
  ASSUME w \in Wizard
  PROVE  /\ w.sent = <<>> <=> Going = {}
         /\ w.steps = <<>> <=> Pending = {}
<1>1. w.sent \in Seq(Bodies) /\ w.steps \in Seq(Steps)
  BY DEF Wizard
<1>2. \A S : \A q \in Seq(S) : q = <<>> <=> Elements(q) = {}
  <2> SUFFICES ASSUME NEW S, NEW q \in Seq(S)
               PROVE  q = <<>> <=> Elements(q) = {}
    OBVIOUS
  <2>1. CASE q = <<>>
    BY <2>1 DEF Elements
  <2>2. CASE q # <<>>
    <3>1. 1 \in DOMAIN q
      BY <2>2, EmptySeq, LenProperties
    <3> QED
      BY <2>2, <3>1 DEF Elements
  <2> QED
    BY <2>1, <2>2
<1> QED
  BY <1>1, <1>2 DEF Going, Pending

---------------------------------------------------------------------------
(* What the operations do to the link                                      *)

SameMind(u, v) == u.protocol = v.protocol /\ u.misread = v.misread /\ u.blamed = v.blamed

\* The stream goes on: at most one of bodies is sent, and one of steps is published.
Moved(u, v, bodies, steps) ==
  /\ u \in Wizard /\ SameEnds(u, v) /\ SameTurn(u, v) /\ SameMind(u, v)
  /\ u.request = v.request /\ u.failed = v.failed
  /\ \/ u.sent = v.sent
     \/ v.up /\ \E b \in bodies : u.sent = Append(v.sent, b)
  /\ \/ u.steps = v.steps
     \/ \E s \in steps : u.steps = Append(v.steps, s) /\ (s \in Questions => Active(v))

\* The request is given up, and the stream is closed.
GivenUp(u, v) ==
  /\ u \in Wizard /\ SameMind(u, v) /\ u.reading = v.reading
  /\ Active(v) /\ ~Active(u) /\ Closed(u, v)
  /\ u.steps = Append(v.steps, "failure")

\* Doing nothing leaves the stream as it goes on.
LEMMA MovedSelf ==
  ASSUME NEW v \in Wizard
  PROVE  Moved(v, v, {}, {})
BY DEF Moved, SameEnds, SameTurn, SameMind

\* One that publishes after one that sends.
LEMMA MovedTwice ==
  ASSUME NEW u, NEW t, NEW v, NEW bodies, NEW steps,
         Moved(u, t, {}, steps), Moved(t, v, bodies, {})
  PROVE  Moved(u, v, bodies, steps)
<1>1. u \in Wizard /\ SameEnds(u, v) /\ SameTurn(u, v) /\ SameMind(u, v)
      /\ u.request = v.request /\ u.failed = v.failed
  BY DEF Moved, SameEnds, SameTurn, SameMind
<1>2. u.sent = t.sent /\ t.steps = v.steps /\ (Active(t) <=> Active(v))
  BY DEF Moved, Active
<1> QED
  BY <1>1, <1>2 DEF Moved

\* Publishing a step lets the stream go on.
LEMMA MovedPush ==
  ASSUME NEW v \in Wizard, NEW s \in Steps, s \in Questions => Active(v)
  PROVE  Moved(Push(v, s), v, {}, {s})
<1> DEFINE u == Push(v, s)
<1>1. /\ u \in Wizard /\ u.steps = Append(v.steps, s)
      /\ SameEnds(u, v) /\ SameTurn(u, v) /\ SameRequest(u, v) /\ SameHistory(u, v)
      /\ u.sent = v.sent
  BY PushFacts
<1> HIDE DEF u
<1>2. Moved(u, v, {}, {s})
  BY <1>1 DEF Moved, SameMind, SameRequest, SameHistory
<1> QED
  BY <1>2 DEF u

\* Publishing a step of an active request lets the stream go on.
LEMMA MovedResolve ==
  ASSUME NEW v \in Wizard, NEW s \in Steps
  PROVE  Moved(Resolve(v, s), v, {}, {s})
<1>1. CASE Active(v)
  BY <1>1, MovedPush DEF Resolve
<1>2. CASE ~Active(v)
  BY <1>2 DEF Resolve, Moved, SameEnds, SameTurn, SameMind
<1> QED
  BY <1>1, <1>2

\* Sending a body lets the stream go on.
LEMMA MovedPut ==
  ASSUME NEW v \in Wizard, NEW b \in Bodies
  PROVE  Moved(Put(v, b), v, {b}, {})
<1> DEFINE u == Put(v, b)
<1>1. /\ u \in Wizard /\ u.sent = IF v.up THEN Append(v.sent, b) ELSE v.sent
      /\ SameEnds(u, v) /\ SameTurn(u, v) /\ SameRequest(u, v) /\ SameHistory(u, v)
      /\ SameSteps(u, v)
  BY PutFacts
<1> HIDE DEF u
<1>2. Moved(u, v, {b}, {})
  BY <1>1 DEF Moved, SameMind, SameRequest, SameHistory, SameSteps
<1> QED
  BY <1>2 DEF u

\* The steps and the bodies by their names.
LEMMA SomeSteps ==
  /\ {"wait", "failure", "success", "fingerprint", "credential"} \subseteq Steps
  /\ {"wait", "failure", "success"} \cap Questions = {}
  /\ {"fingerprint", "credential"} = Questions
  /\ {"failure", "success"} = Terminals
  /\ {"request", "trust", "refuse", "credential", "close", "completed"} = Bodies
  /\ {"trust", "refuse", "credential"} = AnswerBodies
BY DEF Steps, Prompts, Terminals, Questions, Bodies, AnswerBodies

\* A request that is accepted waits.
LEMMA MovedBegin ==
  ASSUME NEW v \in Wizard
  PROVE  Moved(Begin(v), v, {}, {"wait"})
<1> DEFINE t == Accepted(v)
<1>1. /\ t \in Wizard /\ SameEnds(t, v) /\ t.sent = v.sent /\ SameSteps(t, v)
      /\ SameHistory(t, v) /\ SameTurn(t, v)
      /\ t.request = v.request /\ t.failed = v.failed
  BY AcceptedFacts
<1> HIDE DEF t
<1>2. Moved(t, v, {}, {})
  BY <1>1 DEF Moved, SameMind, SameHistory, SameSteps
<1>3. Moved(Resolve(t, "wait"), t, {}, {"wait"})
  BY <1>1, SomeSteps, MovedResolve
<1> QED
  BY <1>2, <1>3, MovedTwice DEF Begin, t

\* The fingerprint is asked for, or answered from what is known.
LEMMA MovedConfirm ==
  ASSUME NEW v \in Wizard
  PROVE  \/ Moved(Confirm(v), v, {"trust"}, {"wait"})
         \/ Moved(Confirm(v), v, {}, {"fingerprint"})
         \/ Confirm(v) = Lose(v)
<1> DEFINE t == Put(v, "trust")
<1>1. Moved(t, v, {"trust"}, {}) /\ t \in Wizard
  BY SomeSteps, MovedPut DEF Moved
<1>2. Moved(Resolve(v, "fingerprint"), v, {}, {"fingerprint"})
  BY SomeSteps, MovedResolve
<1>3. \/ Confirm(v) = Resolve(t, "wait") \/ Confirm(v) = Resolve(v, "fingerprint")
      \/ Confirm(v) = Lose(v)
  BY DEF Confirm
<1> HIDE DEF t
<1>4. Moved(Resolve(t, "wait"), t, {}, {"wait"})
  BY <1>1, SomeSteps, MovedResolve
<1>5. Moved(Resolve(t, "wait"), v, {"trust"}, {"wait"})
  BY <1>1, <1>4, MovedTwice
<1> QED
  BY <1>2, <1>3, <1>5

\* The credential is asked for, or answered from the cache.
LEMMA MovedEnter ==
  ASSUME NEW v \in Wizard
  PROVE  \/ Moved(Enter(v), v, {"credential"}, {"wait"})
         \/ Moved(Enter(v), v, {}, {"credential"})
         \/ Enter(v) = v
<1> DEFINE t == Put(v, "credential")
<1>1. Moved(t, v, {"credential"}, {}) /\ t \in Wizard
  BY SomeSteps, MovedPut DEF Moved
<1>2. Moved(Resolve(v, "credential"), v, {}, {"credential"})
  BY SomeSteps, MovedResolve
<1>3. \/ Enter(v) = Resolve(t, "wait") \/ Enter(v) = Resolve(v, "credential")
      \/ Enter(v) = v
  BY DEF Enter
<1> HIDE DEF t
<1>4. Moved(Resolve(t, "wait"), t, {}, {"wait"})
  BY <1>1, SomeSteps, MovedResolve
<1>5. Moved(Resolve(t, "wait"), v, {"credential"}, {"wait"})
  BY <1>1, <1>4, MovedTwice
<1> QED
  BY <1>2, <1>3, <1>5

\* What the buttons of a prompt send.
LEMMA MovedAnswer ==
  ASSUME NEW v \in Wizard, NEW b \in Bodies
  PROVE  /\ Moved(Push(Put(v, b), "wait"), v, {b}, {"wait"})
         /\ Moved(Push(Put([v EXCEPT !.known = "same"], b), "wait"), v, {b}, {"wait"})
<1> DEFINE k == [v EXCEPT !.known = "same"]
<1>1. ASSUME NEW x \in Wizard
      PROVE  Moved(Push(Put(x, b), "wait"), x, {b}, {"wait"})
  <2> DEFINE t == Put(x, b)
  <2>1. Moved(t, x, {b}, {}) /\ t \in Wizard
    BY <1>1, MovedPut DEF Moved
  <2> HIDE DEF t
  <2>2. Moved(Push(t, "wait"), t, {}, {"wait"})
    BY <2>1, SomeSteps, MovedPush
  <2>3. Moved(Push(t, "wait"), x, {b}, {"wait"})
    BY <2>1, <2>2, MovedTwice
  <2> QED
    BY <2>3 DEF t
<1>2. /\ k \in Wizard /\ SameEnds(k, v) /\ SameTurn(k, v) /\ SameMind(k, v)
      /\ SameRequest(k, v) /\ k.sent = v.sent /\ k.steps = v.steps
  BY DEF Wizard, SameEnds, SameTurn, SameMind, SameRequest
<1> HIDE DEF k
<1>3. Moved(Push(Put(k, b), "wait"), k, {b}, {"wait"})
  BY <1>1, <1>2
<1> DEFINE p == Push(Put(k, b), "wait")
<1> HIDE DEF p
<1>4. Moved(p, k, {b}, {"wait"})
  BY <1>3 DEF p
<1>5. Active(k) <=> Active(v)
  BY <1>2 DEF Active, SameRequest
<1>6. Moved(p, v, {b}, {"wait"})
  BY <1>2, <1>4, <1>5 DEF Moved, SameEnds, SameTurn, SameMind, SameRequest
<1>7. p = Push(Put([v EXCEPT !.known = "same"], b), "wait")
  BY DEF p, k
<1> QED
  BY <1>1, <1>6, <1>7

\* An active request that fails is given up.
LEMMA FailGivesUp ==
  ASSUME NEW v \in Wizard, Active(v)
  PROVE  GivenUp(Fail(v), v) /\ Fail(v).closed = v.closed
<1> DEFINE u == Fail(v)
<1>1. /\ u \in Wizard /\ SameTurn(u, v) /\ SameHistory(u, v)
      /\ Over(u, v, "failure") /\ Closed(u, v)
  BY FailFacts
<1> HIDE DEF u
<1>2. GivenUp(u, v) /\ u.closed = v.closed
  BY <1>1 DEF GivenUp, SameMind, SameTurn, SameHistory, Over, Active
<1> QED
  BY <1>2 DEF u

\* A wizard that is closed gives up its request, or has none.
LEMMA CloseGivesUp ==
  ASSUME NEW v \in Wizard
  PROVE  /\ v.closed \/ ~Active(v) =>
              /\ SameEnds(CloseWizard(v), v) /\ CloseWizard(v).sent = v.sent
              /\ CloseWizard(v).steps = v.steps /\ SameMind(CloseWizard(v), v)
              /\ CloseWizard(v).request = v.request /\ CloseWizard(v).failed = v.failed
              /\ CloseWizard(v).reading = v.reading /\ CloseWizard(v) \in Wizard
         /\ ~v.closed /\ Active(v) => GivenUp(CloseWizard(v), v)
<1> DEFINE u == CloseWizard(v)
<1>1. /\ u \in Wizard /\ SameHistory(u, v) /\ u.reading = v.reading /\ u.closed
      /\ ~v.closed /\ Active(v) => Over(u, v, "failure") /\ Closed(u, v)
      /\ v.closed \/ ~Active(v) => /\ SameEnds(u, v) /\ u.sent = v.sent
                                   /\ SameRequest(u, v) /\ SameSteps(u, v)
  BY CloseWizardFacts
<1> HIDE DEF u
<1>2. SameMind(u, v)
  BY <1>1 DEF SameMind, SameHistory
<1>3. ~v.closed /\ Active(v) => GivenUp(u, v)
  BY <1>1, <1>2 DEF GivenUp, Over, Active
<1>4. v.closed \/ ~Active(v) =>
        /\ SameEnds(u, v) /\ u.sent = v.sent /\ u.steps = v.steps
        /\ u.request = v.request /\ u.failed = v.failed
  BY <1>1 DEF SameRequest, SameSteps
<1> QED
  BY <1>1, <1>2, <1>3, <1>4 DEF u

---------------------------------------------------------------------------
(* The link, step by step                                                  *)

\* What a step that moves on sends.
LEMMA MovedSends ==
  ASSUME BasicInv, LinkInv, Moved(w', w, AnswerBodies, Steps)
  PROVE  /\ Going \subseteq Going' /\ Going' \subseteq Going \cup AnswerBodies
         /\ InOrder(w.sent, SentOrder)'
<1>1. w \in Wizard /\ InOrder(w.sent, SentOrder)
  BY DEF BasicInv, TypeInv, LinkInv, QueueInv
<1>2. CASE w'.sent = w.sent
  BY <1>1, <1>2 DEF Going
<1>3. ASSUME NEW b \in AnswerBodies, w'.sent = Append(w.sent, b)
      PROVE  /\ Going \subseteq Going' /\ Going' \subseteq Going \cup AnswerBodies
             /\ InOrder(w.sent, SentOrder)'
  <2>1. b \in Bodies /\ \A a \in Going : MayBeSentAfter(a, b)
    BY <1>3 DEF Bodies, MayBeSentAfter, AnswerBodies
  <2> QED
    BY <1>1, <1>3, <2>1, BodySent
<1> QED
  BY <1>2, <1>3 DEF Moved

\* The link is kept by a stream that goes on.
LEMMA LinkMoved ==
  ASSUME BasicInv, BlamedInv, LinkInv, w.up, Moved(w', w, AnswerBodies, Steps),
         UNCHANGED <<served, unsaid, refused, toClient>>
  PROVE  BlamedInv' /\ LinkInv'
<1>1. /\ Going \subseteq Going' /\ Going' \subseteq Going \cup AnswerBodies
      /\ InOrder(w.sent, SentOrder)'
  BY MovedSends
<1>2. /\ SameEnds(w', w) /\ SameMind(w', w) /\ (Active(w') <=> Active(w))
  BY DEF Moved, Active
<1>3. Coming' = Coming
  BY <1>2 DEF Coming, SameMind
<1>4. Going' \ AnswerBodies = Going \ AnswerBodies
      /\ {"request", "close", "completed"} \cap AnswerBodies = {}
  BY <1>1 DEF AnswerBodies
<1>5. QueueInv'
  BY <1>1, <1>2 DEF LinkInv, QueueInv, AnswerFits, SameMind
<1>6. ServerInv'
  BY <1>2, <1>3, <1>4 DEF LinkInv, ServerInv, SameEnds
<1>7. BrowserInv'
  BY <1>2, <1>3, <1>4 DEF LinkInv, BrowserInv, SameEnds
<1>8. ConnectedInv'
  BY <1>2, <1>3 DEF LinkInv, ConnectedInv, SameEnds
<1>9. BlamedInv'
  BY <1>2 DEF BlamedInv, SameMind, SameEnds
<1> QED
  BY <1>5, <1>6, <1>7, <1>8, <1>9 DEF LinkInv

\* The stream is closed by a request that is given up.
LEMMA LinkGivenUp ==
  ASSUME BasicInv, BlamedInv, LinkInv, w.up, GivenUp(w', w),
         UNCHANGED <<served, unsaid, refused, toClient>>
  PROVE  BlamedInv' /\ LinkInv'
<1>1. w \in Wizard /\ Active(w) /\ w.running
  BY DEF BasicInv, TypeInv, GivenUp, Once
<1>2. /\ w'.up /\ w'.running /\ w'.initializing = w.initializing /\ w'.connected = w.connected
      /\ w'.shuttingDown /\ w'.senderClosed /\ ~Active(w') /\ SameMind(w', w)
  <2>1. w.shuttingDown => w.senderClosed
    BY DEF LinkInv, BrowserInv
  <2> QED
    BY <1>1, <2>1 DEF GivenUp, Closed, Wizard
<1>3. /\ Going \subseteq Going' /\ Going' \subseteq Going \cup {"close"}
      /\ w.senderClosed => Going' = Going
      /\ InOrder(w.sent, SentOrder)'
  <2>1. CASE w'.sent = w.sent
    BY <2>1 DEF Going, LinkInv, QueueInv
  <2>2. CASE ~w.senderClosed /\ w'.sent = Append(w.sent, "close")
    <3>1. \A a \in Going : MayBeSentAfter(a, "close")
      BY <2>2 DEF LinkInv, BrowserInv, MayBeSentAfter
    <3> QED
      BY <1>1, <2>2, <3>1, SomeSteps, BodySent DEF LinkInv, QueueInv
  <2> QED
    BY <2>1, <2>2 DEF GivenUp, Closed
<1>4. Coming' = Coming
  BY <1>2 DEF Coming, SameMind
<1>5. QueueInv'
  BY <1>2, <1>3 DEF LinkInv, QueueInv, AnswerFits, SameMind
<1>6. ServerInv'
  BY <1>2, <1>3, <1>4 DEF LinkInv, ServerInv
<1>7. BrowserInv'
  BY <1>1, <1>2, <1>3, <1>4 DEF LinkInv, BrowserInv
<1>8. ConnectedInv'
  BY <1>2, <1>4 DEF LinkInv, ConnectedInv
<1>9. BlamedInv'
  BY <1>2 DEF BlamedInv, SameMind
<1> QED
  BY <1>5, <1>6, <1>7, <1>8, <1>9 DEF LinkInv

\* ... and by a wizard that is closed, or does nothing.
LEMMA LinkCloseWizard ==
  ASSUME BasicInv, BlamedInv, LinkInv, w.up, w' = CloseWizard(w) \/ w' = w,
         UNCHANGED <<served, unsaid, refused, toClient>>
  PROVE  BlamedInv' /\ LinkInv'
<1>1. w \in Wizard
  BY DEF BasicInv, TypeInv
<1>2. CASE GivenUp(w', w)
  BY <1>2, LinkGivenUp
<1>3. CASE /\ SameEnds(w', w) /\ w'.sent = w.sent /\ w'.steps = w.steps /\ SameMind(w', w)
           /\ w'.request = w.request /\ w'.failed = w.failed /\ w' \in Wizard
  <2>1. Active(w') <=> Active(w)
    BY <1>3 DEF Active
  <2>2. Going' = Going /\ Coming' = Coming
    BY <1>3 DEF Going, Coming, SameMind
  <2>3. QueueInv'
    BY <1>3 DEF LinkInv, QueueInv, AnswerFits, SameMind
  <2>4. ServerInv' /\ BrowserInv' /\ ConnectedInv'
    BY <1>3, <2>1, <2>2 DEF LinkInv, ServerInv, BrowserInv, ConnectedInv, SameEnds
  <2>5. BlamedInv'
    BY <1>3 DEF BlamedInv, SameMind, SameEnds
  <2> QED
    BY <2>3, <2>4, <2>5 DEF LinkInv
<1>4. CASE w' = w
  BY <1>1, <1>3, <1>4 DEF SameEnds, SameMind
<1> QED
  BY <1>1, <1>2, <1>3, <1>4, CloseGivesUp

\* The request is started: nothing was under way.
LEMMA LinkStarts ==
  ASSUME BasicInv, BlamedInv, LinkInv, w.up, ~w.started, w' \in Wizard, StartedFrom(w', w),
         UNCHANGED <<served, unsaid, refused, toClient>>
  PROVE  BlamedInv' /\ LinkInv'
<1>1. /\ w \in Wizard /\ served = "idle" /\ ~w.running /\ ~w.request /\ ~w.senderClosed
      /\ w.sent = <<>> /\ ~w.connected /\ ~w.shuttingDown
  BY DEF BasicInv, TypeInv, FormFirst, Once
<1>2. Coming = {} /\ Going = {} /\ unsaid = {} /\ toClient = <<>>
  <2>1. Coming = {} /\ unsaid = {}
    BY <1>1 DEF LinkInv, ServerInv
  <2>2. Going = {}
    BY <1>1, NothingQueued
  <2>3. ASSUME toClient # <<>> PROVE FALSE
    <3>1. Head(toClient) \in Elements(toClient)
      BY <2>3, TakeOne DEF BasicInv, TypeInv
    <3> QED
      BY <2>1, <3>1 DEF Coming
  <2> QED
    BY <2>1, <2>2, <2>3
<1>3. SameMind(w', w)
  BY DEF StartedFrom, SameHistory, SameMind
<1>4. /\ Going' \subseteq {"request"} /\ InOrder(w.sent, SentOrder)'
      /\ Active(w') => Going' = {"request"}
      /\ "request" \in Going' => w'.running /\ w'.initializing
      /\ w'.up /\ ~w'.shuttingDown /\ ~w'.senderClosed /\ ~w'.connected
  <2>1. CASE /\ w'.request = w.request /\ w'.sent = w.sent
    BY <1>1, <1>2, <2>1 DEF StartedFrom, Going, Active, LinkInv, QueueInv
  <2>2. CASE /\ w'.running /\ w'.initializing /\ w'.sent = Append(w.sent, "request")
    <3>1. /\ Going' = Going \cup {"request"} /\ InOrder(w.sent, SentOrder)'
      BY <1>1, <1>2, <2>2, SomeSteps, BodySent DEF LinkInv, QueueInv
    <3> QED
      BY <1>1, <1>2, <2>2, <3>1 DEF StartedFrom
  <2> QED
    BY <2>1, <2>2 DEF StartedFrom
<1>5. Coming' = {}
  BY <1>2, <1>3 DEF Coming, SameMind
<1>6. QueueInv'
  BY <1>3, <1>4 DEF LinkInv, QueueInv, AnswerFits, SameMind
<1>7. ServerInv'
  BY <1>1, <1>2, <1>5 DEF LinkInv, ServerInv
<1>8. BrowserInv'
  BY <1>1, <1>4, <1>5 DEF BrowserInv, Live
<1>9. ConnectedInv'
  BY <1>1, <1>4, <1>5 DEF ConnectedInv
<1>10. BlamedInv'
  BY <1>3, <1>4 DEF BlamedInv, SameMind
<1> QED
  BY <1>6, <1>7, <1>8, <1>9, <1>10 DEF LinkInv

\* What the browser takes from the server, in whichever way.
LEMMA LinkTakes ==
  ASSUME BasicInv, LinkInv, NEW type, Receives(type), w'.protocol = w.protocol
  PROVE  /\ w.up /\ w.running /\ served # "idle"
         /\ Received \in Frames /\ MaySay(w.protocol, Received) /\ Received.type = type
         /\ AnswerFits(Received)
         /\ Coming = {Said(w.protocol, Received)} \cup Coming'
         /\ \A k \in Coming' : MayFollow(Said(w.protocol, Received), k)
         /\ type # "stream" => Said(w.protocol, Received) = type
         /\ type = "stream" => Said(w.protocol, Received) \in StreamKinds
         /\ InOrder(toClient, FrameOrder(w.protocol))'
         /\ \A f \in Elements(toClient)' : AnswerFits(f)'
         /\ UNCHANGED <<connectorVars, served, asked, unsaid, refused>>
<1>1. /\ w.up /\ toClient # <<>> /\ toClient' = Tail(toClient) /\ Received.type = type
      /\ UNCHANGED <<connectorVars, served, asked, unsaid, refused>>
  BY DEF Receives
<1>2. TypeInv /\ w \in Wizard /\ w'.protocol = w.protocol
      /\ InOrder(toClient, FrameOrder(w.protocol))
  BY DEF BasicInv, TypeInv, LinkInv, QueueInv
<1>3. /\ Received \in Elements(toClient)
      /\ Coming = {Said(w.protocol, Received)} \cup Coming'
      /\ Elements(toClient)' \subseteq Elements(toClient)
      /\ InOrder(toClient, FrameOrder(w.protocol))'
      /\ \A k \in Coming' : MayFollow(Said(w.protocol, Received), k)
  BY <1>1, <1>2, FrameTaken
<1>4. Received \in Frames /\ MaySay(w.protocol, Received)
  BY <1>2, <1>3 DEF TypeInv, Elements
<1>5. /\ Said(w.protocol, Received) \in StreamKinds <=> Received.type = "stream"
      /\ Received.type # "stream" => Said(w.protocol, Received) = Received.type
  BY <1>2, <1>4, SaidKinds
<1>6. w.running /\ served # "idle"
  BY <1>3 DEF LinkInv, BrowserInv, ServerInv
<1>7. AnswerFits(Received)
  BY <1>3 DEF LinkInv, QueueInv
<1>8. \A f \in Elements(toClient)' : AnswerFits(f)'
  BY <1>1, <1>2, <1>3 DEF LinkInv, QueueInv, AnswerFits
<1> QED
  BY <1>1, <1>3, <1>4, <1>5, <1>6, <1>7, <1>8

\* Of the answer to the request, the browser's end of the stream is either open or given
\* up already; after a refusal nothing else comes.
LEMMA AnswerBegins ==
  ASSUME BasicInv, LinkInv, ReceiveAnswer
  PROVE  /\ w.running /\ w.initializing /\ w \in Wizard /\ Once(w)
         /\ \/ w.shuttingDown /\ w' = [w EXCEPT !.initializing = FALSE]
            \/ /\ ~w.shuttingDown /\ served = "refused"
               /\ refused \in Blames /\ w' = Clear(Blame(w, refused))
            \/ /\ ~w.shuttingDown /\ served # "refused"
               /\ w' = [Begin(w) EXCEPT !.initializing = FALSE]
<1>1. /\ toClient # <<>> /\ Received.type = "answer"
  BY DEF ReceiveAnswer, Receives
<1>2. w \in Wizard /\ Once(w)
  BY DEF BasicInv, TypeInv
<1>3. Received \in Elements(toClient) /\ Received \in Frames /\ MaySay(w.protocol, Received)
  BY <1>1, TakeOne DEF BasicInv, TypeInv, Received
<1>4. Said(w.protocol, Received) = "answer"
  BY <1>1, <1>2, <1>3, SaidKinds
<1>5. "answer" \in Coming
  BY <1>3, <1>4 DEF Coming
<1>6. w.running /\ w.initializing
  BY <1>5 DEF LinkInv, BrowserInv
<1>7. AnswerFits(Received)
  BY <1>3 DEF LinkInv, QueueInv
<1> DEFINE code == Received.value
<1>8. CASE w.shuttingDown
  BY <1>2, <1>6, <1>8 DEF ReceiveAnswer
<1>9. CASE ~w.shuttingDown /\ served = "refused"
  <2>1. code # 0 /\ code \in DOMAIN Codes(w.protocol) /\ Codes(w.protocol)[code] = refused
    BY <1>1, <1>7, <1>9 DEF AnswerFits
  <2>2. Initialized(code) = Blame(w, refused)
    BY <1>2, <2>1, InitializedBegins
  <2>3. refused \in Blames
    BY <1>2, <2>1, CodesAreFields
  <2>4. w' = Clear(Initialized(code))
    BY <1>6, <1>9, <2>1 DEF ReceiveAnswer
  <2> QED
    BY <1>2, <1>6, <1>9, <2>2, <2>3, <2>4
<1>10. CASE ~w.shuttingDown /\ served # "refused"
  <2>1. code = 0
    BY <1>1, <1>7, <1>10 DEF AnswerFits
  <2>2. Initialized(code) = Begin(w)
    BY <1>2, <2>1, InitializedBegins
  <2>3. w' = [Initialized(code) EXCEPT !.initializing = FALSE]
    BY <1>6, <1>10, <2>1 DEF ReceiveAnswer
  <2> QED
    BY <1>2, <1>6, <1>10, <2>2, <2>3
<1> QED
  BY <1>8, <1>9, <1>10

\* The request that is blamed for a field.
LEMMA BlameFacts ==
  ASSUME NEW v \in Wizard, NEW field \in Blames, NEW u, u = Clear(Blame(v, field))
  PROVE  /\ u \in Wizard /\ ~u.running /\ ~u.initializing /\ ~u.shuttingDown
         /\ u.reading = "nothing" /\ u.closed = v.closed
         /\ u.up = v.up /\ u.senderClosed = v.senderClosed /\ u.connected = v.connected
         /\ u.sent = v.sent /\ ~Active(u)
         /\ u.protocol = v.protocol /\ u.misread = v.misread
         /\ u.blamed \in {v.blamed, field}
         /\ u.steps = v.steps \/ u.steps = Append(v.steps, "failure")
<1> DEFINE a == Accepted(v)
           t == [a EXCEPT !.blamed = field]
           r == ResolveTerminal(t, "failure")
           b == Blame(v, field)
<1>1. CASE Active(v)
  <2>1. /\ a \in Wizard /\ SameEnds(a, v) /\ a.sent = v.sent /\ SameSteps(a, v)
        /\ SameHistory(a, v) /\ SameTurn(a, v)
        /\ a.request = v.request /\ a.failed = v.failed
    BY AcceptedFacts
  <2> HIDE DEF a
  <2>2. /\ t \in Wizard /\ SameEnds(t, a) /\ t.sent = a.sent /\ SameSteps(t, a)
        /\ SameTurn(t, a) /\ t.request = a.request /\ t.failed = a.failed
        /\ t.protocol = a.protocol /\ t.misread = a.misread /\ t.blamed = field
    BY <2>1 DEF Wizard, SameEnds, SameSteps, SameTurn
  <2> HIDE DEF t
  <2>3. Active(t)
    BY <1>1, <2>1, <2>2 DEF Active
  <2>4. /\ r \in Wizard /\ SameEnds(r, t) /\ SameTurn(r, t) /\ SameHistory(r, t)
        /\ r.sent = t.sent /\ Over(r, t, "failure")
    BY <2>2, <2>3, SomeSteps, ResolveTerminalFacts
  <2> HIDE DEF r
  <2>5. u = Clear(r)
    BY <1>1 DEF Blame, r, t, a
  <2>6. /\ u \in Wizard /\ SameRequest(u, r) /\ SameHistory(u, r) /\ SameSteps(u, r)
        /\ ~u.running /\ ~u.initializing /\ ~u.shuttingDown /\ u.reading = "nothing"
        /\ u.up = r.up /\ u.senderClosed = r.senderClosed /\ u.connected = r.connected
        /\ u.sent = r.sent /\ u.closed = r.closed
    BY <2>4, <2>5, ClearFacts
  <2>7. u.steps = Append(v.steps, "failure") /\ ~Active(u)
    BY <2>1, <2>2, <2>4, <2>6 DEF Over, SameSteps, SameRequest, Active
  <2>8. u.protocol = v.protocol /\ u.misread = v.misread /\ u.blamed = field
    BY <2>1, <2>2, <2>4, <2>6 DEF SameHistory
  <2>9. /\ u.up = v.up /\ u.senderClosed = v.senderClosed /\ u.connected = v.connected
        /\ u.sent = v.sent /\ u.closed = v.closed
    BY <2>1, <2>2, <2>4, <2>6 DEF SameEnds, SameTurn
  <2> QED
    BY <2>6, <2>7, <2>8, <2>9
<1>2. CASE ~Active(v)
  <2>1. u = Clear(v)
    BY <1>2 DEF Blame
  <2>2. /\ u \in Wizard /\ SameRequest(u, v) /\ SameHistory(u, v) /\ SameSteps(u, v)
        /\ ~u.running /\ ~u.initializing /\ ~u.shuttingDown /\ u.reading = "nothing"
        /\ u.up = v.up /\ u.senderClosed = v.senderClosed /\ u.connected = v.connected
        /\ u.sent = v.sent /\ u.closed = v.closed
    BY <2>1, ClearFacts
  <2> QED
    BY <1>2, <2>2 DEF SameRequest, SameHistory, SameSteps, Active
<1> QED
  BY <1>1, <1>2

\* A stream whose request is accepted is initialized.
LEMMA BegunFacts ==
  ASSUME NEW v \in Wizard, NEW u, u = [Begin(v) EXCEPT !.initializing = FALSE]
  PROVE  /\ u \in Wizard /\ ~u.initializing /\ u.up = v.up /\ u.running = v.running
         /\ u.shuttingDown = v.shuttingDown /\ u.senderClosed = v.senderClosed
         /\ u.connected = v.connected /\ SameTurn(u, v) /\ SameMind(u, v)
         /\ (Active(u) <=> Active(v)) /\ u.sent = v.sent
         /\ u.steps = v.steps \/ u.steps = Append(v.steps, "wait")
<1> DEFINE b == Begin(v)
<1>1. Moved(b, v, {}, {"wait"}) /\ b \in Wizard
  BY MovedBegin DEF Moved
<1> HIDE DEF b
<1>2. u = [b EXCEPT !.initializing = FALSE]
  BY DEF b
<1>3. /\ u \in Wizard /\ ~u.initializing /\ u.up = b.up /\ u.running = b.running
      /\ u.shuttingDown = b.shuttingDown /\ u.senderClosed = b.senderClosed
      /\ u.connected = b.connected /\ SameTurn(u, b) /\ SameMind(u, b)
      /\ u.request = b.request /\ u.failed = b.failed /\ u.sent = b.sent
      /\ u.steps = b.steps
  BY <1>1, <1>2 DEF Wizard, SameTurn, SameMind
<1> QED
  BY <1>1, <1>3 DEF Moved, SameEnds, SameTurn, SameMind, Active

\* The answer to the request: it is accepted, or the field that was refused is blamed.
LEMMA LinkAnswer ==
  ASSUME BasicInv, BlamedInv, LinkInv, ReceiveAnswer
  PROVE  BlamedInv' /\ LinkInv'
<1>1. /\ w.running /\ w.initializing /\ w \in Wizard /\ Once(w) /\ Receives("answer")
      /\ \/ w.shuttingDown /\ w' = [w EXCEPT !.initializing = FALSE]
         \/ /\ ~w.shuttingDown /\ served = "refused"
            /\ refused \in Blames /\ w' = Clear(Blame(w, refused))
         \/ /\ ~w.shuttingDown /\ served # "refused"
            /\ w' = [Begin(w) EXCEPT !.initializing = FALSE]
  BY AnswerBegins DEF ReceiveAnswer
<1>2. /\ w' \in Wizard /\ w'.protocol = w.protocol /\ ~w'.initializing
      /\ w'.up = w.up /\ w'.senderClosed = w.senderClosed /\ w'.connected = w.connected
      /\ w'.sent = w.sent /\ w'.misread = w.misread
      /\ Active(w') => Active(w) /\ w'.running
      /\ \/ /\ w'.running /\ w'.shuttingDown = w.shuttingDown /\ w'.blamed = w.blamed
            /\ served = "refused" => w.shuttingDown
         \/ /\ ~w.shuttingDown /\ ~w'.running /\ ~w'.shuttingDown
            /\ served = "refused" /\ w'.blamed \in {w.blamed, refused}
  <2>1. CASE w.shuttingDown /\ w' = [w EXCEPT !.initializing = FALSE]
    BY <1>1, <2>1 DEF Wizard, Active
  <2>2. CASE /\ ~w.shuttingDown /\ served = "refused"
             /\ refused \in Blames /\ w' = Clear(Blame(w, refused))
    BY <1>1, <2>2, BlameFacts
  <2>3. CASE /\ ~w.shuttingDown /\ served # "refused"
             /\ w' = [Begin(w) EXCEPT !.initializing = FALSE]
    BY <1>1, <2>3, BegunFacts DEF SameMind
  <2> QED
    BY <1>1, <2>1, <2>2, <2>3
<1>3. /\ w.up /\ served # "idle"
      /\ Coming = {"answer"} \cup Coming'
      /\ \A k \in Coming' : MayFollow("answer", k)
      /\ InOrder(toClient, FrameOrder(w.protocol))'
      /\ \A f \in Elements(toClient)' : AnswerFits(f)'
      /\ UNCHANGED <<served, asked, unsaid, refused>>
  <2>1. /\ w.up /\ served # "idle" /\ Said(w.protocol, Received) = "answer"
        /\ Coming = {Said(w.protocol, Received)} \cup Coming'
        /\ \A k \in Coming' : MayFollow(Said(w.protocol, Received), k)
        /\ InOrder(toClient, FrameOrder(w.protocol))'
        /\ \A f \in Elements(toClient)' : AnswerFits(f)'
        /\ UNCHANGED <<served, asked, unsaid, refused>>
    BY <1>1, <1>2, LinkTakes
  <2> QED
    BY <2>1
<1>4. "answer" \notin Coming' /\ Going' = Going
  BY <1>2, <1>3 DEF MayFollow, Going
<1>5. Coming \subseteq Kinds
  BY ComingKinds DEF BasicInv
<1>6. ~w'.running => Coming' = {} /\ "close" \notin Going /\ "completed" \notin Going
  <2> SUFFICES ASSUME ~w'.running
               PROVE  Coming' = {} /\ "close" \notin Going /\ "completed" \notin Going
    OBVIOUS
  <2>1. ~w.shuttingDown /\ served = "refused"
    BY <1>2
  <2>2. "close" \notin Going /\ "completed" \notin Going
    BY <2>1 DEF LinkInv, BrowserInv
  <2>3. Coming \cap (Early \cup {"failed", "connected", "output", "close"}) = {}
    BY <2>1 DEF LinkInv, ServerInv, Early, Live
  <2>4. "completed" \notin Coming
    BY <2>1, <2>3 DEF LinkInv, BrowserInv
  <2> QED
    BY <1>3, <1>4, <1>5, <2>2, <2>3, <2>4 DEF Kinds, StreamKinds, Early
<1>7. QueueInv'
  BY <1>2, <1>3 DEF LinkInv, QueueInv
<1>8. ServerInv'
  BY <1>2, <1>3, <1>4 DEF LinkInv, ServerInv
<1>9. BrowserInv'
  BY <1>1, <1>2, <1>3, <1>4, <1>6 DEF LinkInv, BrowserInv, Live
<1>10. ConnectedInv'
  BY <1>1, <1>2, <1>3, <1>4 DEF LinkInv, ConnectedInv, Early
<1>11. BlamedInv'
  BY <1>2, <1>3 DEF BlamedInv
<1> QED
  BY <1>7, <1>8, <1>9, <1>10, <1>11 DEF LinkInv

\* What comes for the stream finds it open, and is what its command may be told.
LEMMA StreamHeard ==
  ASSUME BasicInv, LinkInv, ReceiveStream
  PROVE  LET k == Said(w.protocol, Received)
         IN /\ w.running /\ ~w.initializing /\ w \in Wizard /\ Once(w) /\ w.started
            /\ k \in Coming /\ k \in StreamKinds
            /\ w.protocol = "telnet" => k \notin Questions
            /\ \/ w.shuttingDown /\ w' = w
               \/ ~w.shuttingDown /\ w.connected /\ k = "output" /\ w' = w
               \/ ~w.shuttingDown /\ ~w.connected /\ k = "connected" /\ w' = Succeed(w)
               \/ ~w.shuttingDown /\ ~w.connected /\ k = "credential" /\ w' = Enter(w)
               \/ /\ ~w.shuttingDown /\ ~w.connected
                  /\ k \in {"hook", "failed", "fingerprint"} /\ w' = Read(w, k)
<1> DEFINE k == Said(w.protocol, Received)
<1>1. toClient # <<>> /\ Received.type = "stream" /\ toClient' = Tail(toClient)
  BY DEF ReceiveStream, Receives
<1>2. w \in Wizard /\ Once(w)
  BY DEF BasicInv, TypeInv
<1>3. Received \in Elements(toClient) /\ Received \in Frames /\ MaySay(w.protocol, Received)
  BY <1>1, TakeOne DEF BasicInv, TypeInv, Received
<1>4. /\ k \in DOMAIN Markers(w.protocol) /\ Received.value = Markers(w.protocol)[k]
      /\ k \in StreamKinds
      /\ w.protocol = "telnet" => k \notin Questions
  BY <1>1, <1>2, <1>3, StreamFrame
<1>5. k \in Coming
  BY <1>3 DEF Coming
<1>6. w.running /\ served # "idle"
  BY <1>5 DEF LinkInv, BrowserInv, ServerInv
<1>7. w.started
  BY <1>2, <1>6 DEF Once
<1>8. \A f \in Elements(toClient) : f = Received \/ <<Received, f>> \in FrameOrder(w.protocol)
  BY <1>1, TakeOne DEF BasicInv, TypeInv, LinkInv, QueueInv, Received
<1>9. \A j \in Coming : j = k \/ MayFollow(k, j)
  BY <1>8 DEF Coming, FrameOrder
<1>10. ~w.initializing
  BY <1>4, <1>6, <1>9 DEF LinkInv, BrowserInv, MayFollow, StreamKinds
<1>11. Ticked(Received.value) = Hear(w, k)
  BY <1>2, <1>4, TickedHears
<1> HIDE DEF k
<1>12. CASE w.shuttingDown
  BY <1>2, <1>4, <1>5, <1>6, <1>7, <1>10, <1>12 DEF ReceiveStream, k
<1>13. CASE ~w.shuttingDown
  <2>1. w' = Hear(w, k)
    BY <1>6, <1>10, <1>11, <1>13 DEF ReceiveStream
  <2>2. CASE w.connected
    <3>1. k = "output"
      BY <1>4, <1>5, <1>6, <1>13, <2>2 DEF LinkInv, ConnectedInv, Early, StreamKinds
    <3>2. w' = w
      BY <2>1, <2>2, <3>1 DEF Hear
    <3> QED
      BY <1>2, <1>4, <1>5, <1>6, <1>7, <1>10, <1>13, <2>2, <3>1, <3>2 DEF k
  <2>3. CASE ~w.connected
    <3>1. k # "output"
      BY <1>5, <1>6, <1>9, <1>13, <2>3 DEF LinkInv, ConnectedInv, MayFollow
    <3>2. \/ k = "connected" /\ w' = Succeed(w)
          \/ k = "credential" /\ w' = Enter(w)
          \/ k \in {"hook", "failed", "fingerprint"} /\ w' = Read(w, k)
      BY <1>4, <2>1, <2>3, <3>1 DEF Hear, StreamKinds
    <3> QED
      BY <1>2, <1>4, <1>5, <1>6, <1>7, <1>10, <1>13, <2>3, <3>2 DEF k
  <2> QED
    BY <2>2, <2>3
<1> QED
  BY <1>12, <1>13

\* The session is there, or its terminal cannot be made.
LEMMA SucceedFacts ==
  ASSUME NEW v \in Wizard, NEW u, u = Succeed(v)
  PROVE  \/ /\ u \in Wizard /\ ~u.up /\ u.sent = <<>> /\ SameMind(u, v)
         \/ /\ u \in Wizard /\ u.up = v.up /\ u.running = v.running
            /\ u.initializing = v.initializing /\ u.shuttingDown = v.shuttingDown
            /\ u.senderClosed = v.senderClosed /\ u.connected
            /\ SameTurn(u, v) /\ SameMind(u, v) /\ u.sent = v.sent /\ ~Active(u)
            /\ u.steps = v.steps \/ u.steps = Append(v.steps, "success")
<1> DEFINE t == [v EXCEPT !.connected = TRUE]
<1>1. /\ t \in Wizard /\ t.up = v.up /\ t.running = v.running
      /\ t.initializing = v.initializing /\ t.shuttingDown = v.shuttingDown
      /\ t.senderClosed = v.senderClosed /\ t.connected
      /\ SameTurn(t, v) /\ SameMind(t, v) /\ t.sent = v.sent /\ t.steps = v.steps
  BY DEF Wizard, SameTurn, SameMind
<1>2. u = Lose(t) \/ u = ResolveTerminal(t, "success")
  BY DEF Succeed
<1> HIDE DEF t
<1>3. CASE u = Lose(t)
  BY <1>1, <1>3, LoseFacts DEF Lost, SameHistory, SameMind
<1>4. CASE u = ResolveTerminal(t, "success")
  <2>1. /\ u \in Wizard /\ SameEnds(u, t) /\ SameTurn(u, t) /\ SameHistory(u, t)
        /\ u.sent = t.sent
        /\ Active(t) => Over(u, t, "success")
        /\ ~Active(t) => u = t
    BY <1>1, <1>4, SomeSteps, ResolveTerminalFacts
  <2>2. ~Active(u)
    BY <2>1 DEF Over, Active
  <2>3. u.steps = v.steps \/ u.steps = Append(v.steps, "success")
    BY <1>1, <2>1 DEF Over
  <2> QED
    BY <1>1, <2>1, <2>2, <2>3 DEF SameEnds, SameTurn, SameMind, SameHistory
<1> QED
  BY <1>2, <1>3, <1>4

\* What moves on when a frame of the stream has been read.
LEMMA LinkHears ==
  ASSUME BasicInv, BlamedInv, LinkInv, Receives("stream"), w' \in Wizard,
         w'.up = w.up, w'.running = w.running, w'.initializing = w.initializing,
         w'.shuttingDown = w.shuttingDown, w'.senderClosed = w.senderClosed,
         SameMind(w', w), Active(w') => Active(w),
         \/ w'.connected = w.connected
         \/ ~w.connected /\ w'.connected /\ Said(w.protocol, Received) = "connected",
         Said(w.protocol, Received) = "connected" => w'.connected \/ w.shuttingDown,
         Going \subseteq Going', Going' \subseteq Going \cup AnswerBodies,
         InOrder(w.sent, SentOrder)'
  PROVE  BlamedInv' /\ LinkInv'
<1> DEFINE k == Said(w.protocol, Received)
<1>1. /\ w.up /\ w.running /\ served # "idle"
      /\ Coming = {k} \cup Coming' /\ \A j \in Coming' : MayFollow(k, j)
      /\ k \in StreamKinds
      /\ InOrder(toClient, FrameOrder(w.protocol))'
      /\ \A f \in Elements(toClient)' : AnswerFits(f)'
      /\ UNCHANGED <<served, asked, unsaid, refused>>
  <2>1. w'.protocol = w.protocol
    BY DEF SameMind
  <2> QED
    BY <2>1, LinkTakes
<1> HIDE DEF k
<1>2. /\ Coming \ StreamKinds = Coming' \ StreamKinds /\ Coming' \subseteq Coming
      /\ StreamKinds \cap {"answer", "close", "completed"} = {}
  BY <1>1 DEF StreamKinds
<1>3. Going' \ AnswerBodies = Going \ AnswerBodies
      /\ {"request", "close", "completed"} \cap AnswerBodies = {}
  BY DEF AnswerBodies
<1>4. QueueInv'
  BY <1>1 DEF LinkInv, QueueInv, SameMind
<1>5. ServerInv'
  BY <1>1, <1>2, <1>3 DEF LinkInv, ServerInv
<1>6. BrowserInv'
  BY <1>1, <1>2, <1>3 DEF LinkInv, BrowserInv
<1>7. ConnectedInv'
  <2>1. w.connected => served \in {"connected", "closed"}
    BY DEF LinkInv, ConnectedInv
  <2>2. k = "connected" => served \in {"connected", "closed"}
    BY <1>1 DEF LinkInv, ServerInv
  <2>3. CASE w.shuttingDown
    BY <1>1, <2>1, <2>2, <2>3 DEF ConnectedInv, k
  <2>4. CASE ~w.shuttingDown /\ k = "connected"
    <3>1. Coming' \subseteq {"output", "close", "completed"} /\ w'.connected
      BY <1>1, <2>4 DEF MayFollow, k
    <3> QED
      BY <1>1, <2>2, <2>4, <3>1 DEF ConnectedInv, Early
  <2>5. CASE ~w.shuttingDown /\ k # "connected"
    BY <1>1, <1>2, <2>1, <2>5 DEF LinkInv, ConnectedInv, k
  <2> QED
    BY <2>3, <2>4, <2>5
<1>8. BlamedInv'
  BY <1>1 DEF BlamedInv, SameMind
<1> QED
  BY <1>4, <1>5, <1>6, <1>7, <1>8 DEF LinkInv

\* A connection that is gone has nothing under way.
LEMMA BlamedLost ==
  ASSUME BlamedInv, ~w'.up, w'.sent = <<>>, SameMind(w', w), refused' = refused,
         served' = "idle" => served = "idle"
  PROVE  BlamedInv'
BY DEF BlamedInv, SameMind

\* A frame of the stream is heard, dropped, or breaks the connection.
LEMMA LinkStream ==
  ASSUME BasicInv, BlamedInv, LinkInv, ReceiveStream
  PROVE  BlamedInv' /\ (w'.up => LinkInv')
<1> DEFINE k == Said(w.protocol, Received)
<1>1. /\ w.running /\ ~w.initializing /\ w \in Wizard
      /\ k \in StreamKinds
      /\ \/ w.shuttingDown /\ w' = w
         \/ ~w.shuttingDown /\ w.connected /\ k = "output" /\ w' = w
         \/ ~w.shuttingDown /\ ~w.connected /\ k = "connected" /\ w' = Succeed(w)
         \/ ~w.shuttingDown /\ ~w.connected /\ k = "credential" /\ w' = Enter(w)
         \/ /\ ~w.shuttingDown /\ ~w.connected
            /\ k \in {"hook", "failed", "fingerprint"} /\ w' = Read(w, k)
  BY StreamHeard
<1> HIDE DEF k
<1>2. Receives("stream") /\ w.up
  BY DEF ReceiveStream, Receives
<1>3. InOrder(w.sent, SentOrder)
  BY DEF LinkInv, QueueInv
<1>4. ASSUME w' \in Wizard, SameEnds(w', w), SameMind(w', w), Active(w') => Active(w),
             k = "connected" => w.shuttingDown,
             Going \subseteq Going', Going' \subseteq Going \cup AnswerBodies,
             InOrder(w.sent, SentOrder)'
      PROVE  BlamedInv' /\ LinkInv'
  BY <1>2, <1>4, LinkHears DEF k, SameEnds
<1>5. CASE w' = w /\ (k = "connected" => w.shuttingDown)
  BY <1>1, <1>3, <1>4, <1>5 DEF SameEnds, SameMind, Going
<1>6. CASE ~w.connected /\ k = "connected" /\ w' = Succeed(w)
  <2>1. CASE ~w'.up /\ w'.sent = <<>> /\ SameMind(w', w)
    BY <1>2, <2>1, BlamedLost DEF Receives
  <2>2. CASE /\ w' \in Wizard /\ w'.up = w.up /\ w'.running = w.running
             /\ w'.initializing = w.initializing /\ w'.shuttingDown = w.shuttingDown
             /\ w'.senderClosed = w.senderClosed /\ w'.connected
             /\ SameMind(w', w) /\ w'.sent = w.sent /\ ~Active(w')
    <3>1. Going' = Going /\ InOrder(w.sent, SentOrder)'
      BY <1>3, <2>2 DEF Going
    <3> QED
      BY <1>2, <1>6, <2>2, <3>1, LinkHears DEF k
  <2> QED
    BY <1>1, <1>6, <2>1, <2>2, SucceedFacts
<1>7. CASE k = "credential" /\ w' = Enter(w)
  <2>1. Moved(w', w, AnswerBodies, Steps)
    BY <1>1, <1>7, SomeSteps, MovedEnter, MovedSelf DEF Moved
  <2>2. Active(w') <=> Active(w)
    BY <2>1 DEF Moved, Active
  <2> QED
    BY <1>4, <1>7, <2>1, <2>2, MovedSends DEF Moved
<1>8. CASE k \in {"hook", "failed", "fingerprint"} /\ w' = Read(w, k)
  <2>1. /\ w' \in Wizard /\ SameEnds(w', w) /\ w'.sent = w.sent
        /\ SameRequest(w', w) /\ SameHistory(w', w)
    BY <1>1, <1>8, ReadFacts
  <2>2. Going' = Going /\ InOrder(w.sent, SentOrder)'
    BY <1>3, <2>1 DEF Going
  <2> QED
    BY <1>4, <1>8, <2>1, <2>2 DEF SameRequest, SameHistory, SameMind, Active
<1> QED
  BY <1>1, <1>5, <1>6, <1>7, <1>8

\* The stream that is being closed by the server, or was by the browser.
LEMMA LinkClose ==
  ASSUME BasicInv, BlamedInv, LinkInv, ReceiveClose
  PROVE  /\ BlamedInv' /\ LinkInv'
         /\ w \in Wizard /\ w.running /\ w' = Put(CloseStream(w), "completed")
<1> DEFINE c == CloseStream(w)
<1>1. w \in Wizard /\ Receives("close")
  BY DEF BasicInv, TypeInv, ReceiveClose
<1>2. toClient # <<>> /\ Received.type = "close"
  BY DEF ReceiveClose, Receives
<1>3. Received \in Elements(toClient) /\ Received \in Frames /\ MaySay(w.protocol, Received)
  BY <1>2, TakeOne DEF BasicInv, TypeInv, Received
<1>4. "close" \in Coming
  BY <1>1, <1>2, <1>3, SaidKinds DEF Coming
<1>5. w.running /\ served = "closed"
  BY <1>4 DEF LinkInv, BrowserInv, ServerInv
<1>6. w' = Put(c, "completed")
  BY <1>5 DEF ReceiveClose, Send
<1>7. /\ c \in Wizard /\ Closed(c, w)
      /\ SameTurn(c, w) /\ SameRequest(c, w) /\ SameHistory(c, w) /\ SameSteps(c, w)
  BY <1>1, CloseStreamFacts
<1> HIDE DEF c
<1>8. /\ w' \in Wizard /\ w'.sent = IF c.up THEN Append(c.sent, "completed") ELSE c.sent
      /\ SameEnds(w', c) /\ SameTurn(w', c) /\ SameRequest(w', c) /\ SameHistory(w', c)
  BY <1>6, <1>7, SomeSteps, PutFacts
<1>9. /\ w'.up = w.up /\ w'.running /\ w'.initializing = w.initializing
      /\ w'.shuttingDown /\ w'.connected = w.connected
      /\ SameMind(w', w) /\ (Active(w') <=> Active(w))
      /\ w.senderClosed => w'.senderClosed
      /\ w.shuttingDown \/ w'.senderClosed
  BY <1>1, <1>5, <1>7, <1>8
    DEF Closed, SameEnds, SameHistory, SameMind, SameRequest, Active, Wizard
<1>10. w'.senderClosed
  BY <1>9 DEF LinkInv, BrowserInv
<1>11. /\ w.up /\ served # "idle"
       /\ Coming = {"close"} \cup Coming'
       /\ \A k \in Coming' : MayFollow("close", k)
       /\ InOrder(toClient, FrameOrder(w.protocol))'
       /\ \A f \in Elements(toClient)' : AnswerFits(f)'
       /\ UNCHANGED <<served, asked, unsaid, refused>>
  <2>1. w'.protocol = w.protocol
    BY <1>9 DEF SameMind
  <2>2. /\ w.up /\ served # "idle" /\ Said(w.protocol, Received) = "close"
        /\ Coming = {Said(w.protocol, Received)} \cup Coming'
        /\ \A k \in Coming' : MayFollow(Said(w.protocol, Received), k)
        /\ InOrder(toClient, FrameOrder(w.protocol))'
        /\ \A f \in Elements(toClient)' : AnswerFits(f)'
        /\ UNCHANGED <<served, asked, unsaid, refused>>
    BY <1>1, <2>1, LinkTakes
  <2> QED
    BY <2>2
<1>12. Coming' \subseteq {"completed"} /\ "close" \notin Coming'
  BY <1>11 DEF MayFollow
<1>13. /\ Going' \subseteq Going \cup {"close", "completed"} /\ Going \subseteq Going'
       /\ w.senderClosed /\ "close" \in Going' => "close" \in Going
       /\ InOrder(w.sent, SentOrder)'
  <2>1. CASE c.sent = w.sent
    <3>1. w'.sent = Append(w.sent, "completed")
      BY <1>7, <1>8, <1>11, <2>1 DEF Closed
    <3>2. \A a \in Going : MayBeSentAfter(a, "completed")
      BY <1>4 DEF LinkInv, BrowserInv, MayBeSentAfter
    <3> QED
      BY <1>1, <3>1, <3>2, SomeSteps, BodySent DEF LinkInv, QueueInv
  <2>2. CASE ~w.senderClosed /\ c.sent = Append(w.sent, "close")
    <3> DEFINE x == Append(w.sent, "close")
    <3>1. w'.sent = Append(x, "completed")
      BY <1>7, <1>8, <1>11, <2>2 DEF Closed
    <3>2. w.sent \in Seq(Bodies) /\ InOrder(w.sent, SentOrder)
      BY <1>1 DEF Wizard, LinkInv, QueueInv
    <3>3. \A a \in Elements(w.sent) : <<a, "close">> \in SentOrder
      BY <2>2, <3>2 DEF Elements, SentOrder, LinkInv, BrowserInv, MayBeSentAfter, Going, Bodies
    <3>4. /\ x \in Seq(Bodies) /\ Elements(x) = Elements(w.sent) \cup {"close"}
          /\ InOrder(x, SentOrder)
      BY <3>2, <3>3, SomeSteps, AppendOne
    <3> HIDE DEF x
    <3>5. "completed" \notin Elements(w.sent)
      BY <1>4 DEF LinkInv, BrowserInv, Going
    <3>6. \A a \in Elements(x) : <<a, "completed">> \in SentOrder
      <4>1. \A a \in Elements(w.sent) : a \in Bodies
        BY <3>2 DEF Elements
      <4>2. \A a \in Elements(x) : a \in Bodies /\ a # "completed"
        BY <3>4, <3>5, <4>1, SomeSteps
      <4> QED
        BY <4>2, SomeSteps DEF SentOrder, MayBeSentAfter
    <3>7. /\ Elements(w'.sent) = Elements(x) \cup {"completed"}
          /\ InOrder(w'.sent, SentOrder)
      BY <3>1, <3>4, <3>6, SomeSteps, AppendOne
    <3> QED
      BY <2>2, <3>4, <3>7 DEF Going
  <2> QED
    BY <1>7, <2>1, <2>2 DEF Closed
<1>14. QueueInv'
  BY <1>11, <1>13, <1>9 DEF LinkInv, QueueInv, SameMind
<1>15. ServerInv'
  BY <1>4, <1>5, <1>9, <1>10, <1>11, <1>12, <1>13 DEF LinkInv, ServerInv, Early
<1>16. BrowserInv'
  BY <1>5, <1>9, <1>10, <1>11, <1>12, <1>13 DEF LinkInv, BrowserInv, Live
<1>17. ConnectedInv'
  BY <1>9, <1>11, <1>12 DEF LinkInv, ConnectedInv
<1>18. BlamedInv'
  BY <1>9, <1>11 DEF BlamedInv, SameMind
<1> QED
  BY <1>1, <1>5, <1>6, <1>14, <1>15, <1>16, <1>17, <1>18 DEF LinkInv, c

\* A stream that is over.
LEMMA OverFacts ==
  ASSUME NEW v \in Wizard, NEW u, u = Clear(ResolveTerminal(v, "failure"))
  PROVE  /\ u \in Wizard /\ ~u.running /\ ~u.initializing /\ ~u.shuttingDown
         /\ u.reading = "nothing" /\ u.closed = v.closed
         /\ u.up = v.up /\ u.senderClosed = v.senderClosed /\ u.connected = v.connected
         /\ u.sent = v.sent /\ ~Active(u) /\ SameMind(u, v)
         /\ u.steps = v.steps \/ u.steps = Append(v.steps, "failure")
<1> DEFINE r == ResolveTerminal(v, "failure")
<1>1. /\ r \in Wizard /\ SameEnds(r, v) /\ SameTurn(r, v) /\ SameHistory(r, v)
      /\ r.sent = v.sent
      /\ Active(v) => Over(r, v, "failure")
      /\ ~Active(v) => r = v
  BY SomeSteps, ResolveTerminalFacts
<1> HIDE DEF r
<1>2. /\ u \in Wizard /\ SameRequest(u, r) /\ SameHistory(u, r) /\ SameSteps(u, r)
      /\ ~u.running /\ ~u.initializing /\ ~u.shuttingDown /\ u.reading = "nothing"
      /\ u.up = r.up /\ u.senderClosed = r.senderClosed /\ u.connected = r.connected
      /\ u.sent = r.sent /\ u.closed = r.closed
  BY <1>1, ClearFacts DEF r
<1>3. ~Active(u) /\ (u.steps = v.steps \/ u.steps = Append(v.steps, "failure"))
  BY <1>1, <1>2 DEF Over, Active, SameRequest, SameSteps
<1> QED
  BY <1>1, <1>2, <1>3 DEF SameEnds, SameTurn, SameHistory, SameMind

\* The server has completed the stream.
LEMMA LinkCompleted ==
  ASSUME BasicInv, BlamedInv, LinkInv, ReceiveCompleted
  PROVE  /\ BlamedInv' /\ LinkInv'
         /\ w \in Wizard /\ w' = Clear(ResolveTerminal(w, "failure"))
<1>1. w \in Wizard /\ Receives("completed")
  BY DEF BasicInv, TypeInv, ReceiveCompleted
<1>2. toClient # <<>> /\ Received.type = "completed"
  BY DEF ReceiveCompleted, Receives
<1>3. Received \in Elements(toClient) /\ Received \in Frames /\ MaySay(w.protocol, Received)
  BY <1>2, TakeOne DEF BasicInv, TypeInv, Received
<1>4. Said(w.protocol, Received) = "completed" /\ "completed" \in Coming
  BY <1>1, <1>2, <1>3, SaidKinds DEF Coming
<1>5. \A f \in Elements(toClient) : f = Received \/ <<Received, f>> \in FrameOrder(w.protocol)
  BY <1>2, TakeOne DEF BasicInv, TypeInv, LinkInv, QueueInv, Received
<1>6. Coming = {"completed"}
  BY <1>4, <1>5 DEF Coming, FrameOrder, MayFollow
<1>7. /\ w.running /\ w.shuttingDown /\ served \in {"closed", "refused"} /\ w.senderClosed
      /\ "close" \notin Going
  BY <1>6 DEF LinkInv, BrowserInv, ServerInv
<1>8. w' = Clear(ResolveTerminal(w, "failure"))
  BY <1>1, <1>7, CompletedEnds DEF ReceiveCompleted
<1>9. /\ w' \in Wizard /\ ~w'.running /\ ~w'.initializing /\ ~w'.shuttingDown
      /\ w'.up = w.up /\ w'.senderClosed = w.senderClosed /\ w'.connected = w.connected
      /\ w'.sent = w.sent /\ ~Active(w') /\ SameMind(w', w)
  BY <1>1, <1>8, OverFacts
<1>10. /\ w.up /\ Coming = {Said(w.protocol, Received)} \cup Coming'
       /\ \A k \in Coming' : MayFollow(Said(w.protocol, Received), k)
       /\ InOrder(toClient, FrameOrder(w.protocol))'
       /\ \A f \in Elements(toClient)' : AnswerFits(f)'
       /\ UNCHANGED <<served, asked, unsaid, refused>>
  <2>1. w'.protocol = w.protocol
    BY <1>9 DEF SameMind
  <2> QED
    BY <1>1, <2>1, LinkTakes
<1>11. Coming' = {} /\ Going' = Going
  BY <1>4, <1>6, <1>9, <1>10 DEF MayFollow, Going
<1>12. QueueInv'
  BY <1>9, <1>10 DEF LinkInv, QueueInv
<1>13. ServerInv'
  BY <1>7, <1>10, <1>11 DEF ServerInv, Early
<1>14. BrowserInv'
  BY <1>7, <1>9, <1>10, <1>11 DEF LinkInv, BrowserInv, Live
<1>15. ConnectedInv'
  BY <1>9, <1>10 DEF LinkInv, ConnectedInv
<1>16. BlamedInv'
  BY <1>9, <1>10 DEF BlamedInv, SameMind
<1> QED
  BY <1>1, <1>8, <1>12, <1>13, <1>14, <1>15, <1>16 DEF LinkInv

\* What has been read is answered or shown.
LEMMA ReadingMoves ==
  ASSUME BasicInv, FinishReading
  PROVE  LET r == [w EXCEPT !.reading = "nothing"]
         IN /\ w \in Wizard /\ Once(w) /\ r \in Wizard /\ w.running
            /\ SameEnds(r, w) /\ SameMind(r, w) /\ r.request = w.request
            /\ r.failed = w.failed /\ r.sent = w.sent /\ r.steps = w.steps
            /\ r.closed = w.closed /\ r.reading = "nothing"
            /\ \/ w.reading = "failed" /\ w' = ResolveTerminal(r, "failure")
               \/ w.reading = "hook" /\ Moved(w', r, {}, {"wait"})
               \/ /\ w.reading = "fingerprint"
                  /\ \/ Moved(w', r, {"trust"}, {"wait"})
                     \/ Moved(w', r, {}, {"fingerprint"})
                     \/ w' = Lose(r)
<1> DEFINE r == [w EXCEPT !.reading = "nothing"]
<1>1. w \in Wizard /\ Once(w) /\ w.reading # "nothing"
  BY DEF BasicInv, TypeInv, FinishReading
<1>2. /\ Kept(r, w) /\ w.running
      /\ SameSteps(r, w) /\ SameEnds(r, w) /\ SameRequest(r, w) /\ r.sent = w.sent
      /\ SameHistory(r, w) /\ r.reading = "nothing" /\ r.closed = w.closed
  BY <1>1, ReadingEnds
<1>3. w' = HasRead(r)
  BY DEF FinishReading
<1>4. w.reading = "fingerprint" => w.protocol # "telnet"
  BY DEF BasicInv, NoLogin, Asks
<1> HIDE DEF r
<1>5. r \in Wizard
  BY <1>2 DEF Kept
<1>6. w.reading \in {"failed", "hook", "fingerprint"}
  BY <1>1 DEF Wizard
<1>7. /\ SameEnds(r, w) /\ SameMind(r, w) /\ r.request = w.request
      /\ r.failed = w.failed /\ r.sent = w.sent /\ r.steps = w.steps
  BY <1>2 DEF SameSteps, SameRequest, SameHistory, SameMind
<1>8. \/ w.reading = "failed" /\ w' = ResolveTerminal(r, "failure")
      \/ w.reading = "hook" /\ Moved(w', r, {}, {"wait"})
      \/ /\ w.reading = "fingerprint"
         /\ \/ Moved(w', r, {"trust"}, {"wait"})
            \/ Moved(w', r, {}, {"fingerprint"})
            \/ w' = Lose(r)
  <2>1. CASE w.reading = "failed"
    BY <1>1, <1>3, <2>1, HasReadFinishes
  <2>2. CASE w.reading = "hook"
    BY <1>1, <1>3, <1>5, <2>2, SomeSteps, HasReadFinishes, MovedResolve
  <2>3. CASE w.reading = "fingerprint"
    BY <1>1, <1>3, <1>4, <1>5, <2>3, HasReadFinishes, MovedConfirm
  <2> QED
    BY <1>6, <2>1, <2>2, <2>3
<1> QED
  BY <1>1, <1>2, <1>5, <1>7, <1>8 DEF r

\* The rest of a frame is read.
LEMMA LinkFinishReading ==
  ASSUME BasicInv, BlamedInv, LinkInv, FinishReading
  PROVE  BlamedInv' /\ (w'.up => LinkInv')
<1> DEFINE r == [w EXCEPT !.reading = "nothing"]
<1>1. /\ w \in Wizard /\ r \in Wizard
      /\ SameEnds(r, w) /\ SameMind(r, w) /\ r.request = w.request
      /\ r.failed = w.failed /\ r.sent = w.sent
      /\ \/ w' = ResolveTerminal(r, "failure")
         \/ Moved(w', r, {}, {"wait"})
         \/ Moved(w', r, {"trust"}, {"wait"})
         \/ Moved(w', r, {}, {"fingerprint"})
         \/ w' = Lose(r)
  BY ReadingMoves
<1> HIDE DEF r
<1>2. /\ w.up /\ UNCHANGED <<served, unsaid, refused, toClient>>
  BY DEF FinishReading, serverVars
<1>3. InOrder(w.sent, SentOrder)
  BY DEF LinkInv, QueueInv
<1>4. ASSUME w' \in Wizard, SameEnds(w', w), SameMind(w', w), Active(w') => Active(w),
             \/ w'.sent = w.sent
             \/ w'.sent = Append(w.sent, "trust")
      PROVE  BlamedInv' /\ LinkInv'
  <2>1. /\ Going \subseteq Going' /\ Going' \subseteq Going \cup AnswerBodies
        /\ InOrder(w.sent, SentOrder)'
    <3>1. CASE w'.sent = w.sent
      BY <1>3, <3>1 DEF Going
    <3>2. CASE w'.sent = Append(w.sent, "trust")
      <4>1. \A a \in Going : MayBeSentAfter(a, "trust")
        BY DEF MayBeSentAfter, AnswerBodies
      <4> QED
        BY <1>1, <1>3, <3>2, <4>1, SomeSteps, BodySent
    <3> QED
      BY <1>4, <3>1, <3>2
  <2>2. Coming' = Coming
    BY <1>2, <1>4 DEF Coming, SameMind
  <2>3. Going' \ AnswerBodies = Going \ AnswerBodies
        /\ {"request", "close", "completed"} \cap AnswerBodies = {}
    BY <2>1 DEF AnswerBodies
  <2>4. QueueInv'
    BY <1>2, <1>4, <2>1 DEF LinkInv, QueueInv, AnswerFits, SameMind
  <2>5. ServerInv' /\ ConnectedInv'
    BY <1>2, <1>4, <2>2, <2>3 DEF LinkInv, ServerInv, ConnectedInv, SameEnds
  <2>6. BrowserInv'
    BY <1>2, <1>4, <2>2, <2>3 DEF LinkInv, BrowserInv, SameEnds
  <2>7. BlamedInv'
    BY <1>2, <1>4 DEF BlamedInv, SameMind, SameEnds
  <2> QED
    BY <2>4, <2>5, <2>6, <2>7 DEF LinkInv
<1>5. CASE w' = ResolveTerminal(r, "failure")
  <2>1. /\ w' \in Wizard /\ SameEnds(w', r) /\ SameHistory(w', r) /\ w'.sent = r.sent
        /\ Active(r) => Over(w', r, "failure")
        /\ ~Active(r) => w' = r
    BY <1>1, <1>5, SomeSteps, ResolveTerminalFacts
  <2>2. ~Active(w')
    BY <2>1 DEF Over, Active
  <2> QED
    BY <1>1, <1>4, <2>1, <2>2 DEF SameEnds, SameHistory, SameMind
<1>6. CASE \/ Moved(w', r, {}, {"wait"})
           \/ Moved(w', r, {"trust"}, {"wait"})
           \/ Moved(w', r, {}, {"fingerprint"})
  <2>1. /\ w' \in Wizard /\ SameEnds(w', r) /\ SameMind(w', r)
        /\ w'.request = r.request /\ w'.failed = r.failed
        /\ w'.sent = r.sent \/ w'.sent = Append(r.sent, "trust")
    BY <1>6 DEF Moved
  <2> QED
    BY <1>1, <1>4, <2>1 DEF SameEnds, SameMind, Active
<1>7. CASE w' = Lose(r)
  <2>1. ~w'.up /\ w'.sent = <<>> /\ SameMind(w', r)
    BY <1>1, <1>7, LoseFacts DEF Lost, SameHistory, SameMind
  <2> QED
    BY <1>1, <1>2, <2>1, BlamedLost DEF SameMind
<1> QED
  BY <1>1, <1>5, <1>6, <1>7

\* The server reads the first of what was sent.
LEMMA ReadsFacts ==
  ASSUME BasicInv, NEW b, Reads(b)
  PROVE  /\ w \in Wizard /\ w' \in Wizard /\ SameEnds(w', w) /\ SameTurn(w', w)
         /\ SameMind(w', w) /\ w'.request = w.request /\ w'.failed = w.failed
         /\ w'.steps = w.steps /\ w'.sent = Tail(w.sent) /\ (Active(w') <=> Active(w))
         /\ w.up /\ w.sent # <<>> /\ Incoming = b
         /\ Going = {b} \cup Going'
<1> DEFINE x == Tail(w.sent)
           s == w.sending /\ b # "request"
           t == [w EXCEPT !.sent = x]
<1>1. w \in Wizard /\ w.sent # <<>> /\ w.up /\ Incoming = b
  BY DEF BasicInv, TypeInv, Reads, Serves
<1>2. x \in Seq(Bodies) /\ s \in BOOLEAN
  BY <1>1, TakeOne DEF Wizard
<1>3. t \in Wizard
  BY <1>1, <1>2, SentType
<1>4. w' = [t EXCEPT !.sending = s]
  BY <1>1 DEF Reads, Wizard
<1> HIDE DEF s
<1>5. SameEnds(t, w) /\ SameTurn(t, w) /\ SameMind(t, w) /\ t.request = w.request
      /\ t.failed = w.failed /\ t.steps = w.steps /\ t.sent = x
  BY <1>1 DEF Wizard, SameEnds, SameTurn, SameMind
<1> HIDE DEF t, x
<1>6. /\ w' \in Wizard /\ SameEnds(w', t) /\ SameTurn(w', t) /\ SameMind(w', t)
      /\ w'.request = t.request /\ w'.failed = t.failed /\ w'.steps = t.steps
      /\ w'.sent = t.sent
  BY <1>2, <1>3, <1>4 DEF Wizard, SameEnds, SameTurn, SameMind
<1>7. SameEnds(w', w) /\ SameTurn(w', w) /\ SameMind(w', w) /\ w'.sent = Tail(w.sent)
  BY <1>5, <1>6 DEF SameEnds, SameTurn, SameMind, x
<1>8. Going = {b} \cup Going'
  BY <1>1, <1>7, BodyTaken
<1> QED
  BY <1>1, <1>5, <1>6, <1>7, <1>8 DEF Active

\* What the server has not read comes after what it reads.
LEMMA ReadsInOrder ==
  ASSUME BasicInv, LinkInv, NEW b, Reads(b)
  PROVE  InOrder(w.sent, SentOrder)' /\ \A a \in Going' : MayBeSentAfter(b, a)
<1>1. /\ w \in Wizard /\ w.sent # <<>> /\ w'.sent = Tail(w.sent) /\ Incoming = b
  BY ReadsFacts
<1>2. InOrder(w.sent, SentOrder)
  BY DEF LinkInv, QueueInv
<1> QED
  BY <1>1, <1>2, BodyTaken

\* What the server says of the session, while it is there.
LEMMA LinkSays ==
  ASSUME BasicInv, BlamedInv, LinkInv, NEW k \in StreamKinds, Says(k),
         w.protocol = "telnet" => k \notin Questions,
         w' = w, refused' = refused, served \in Live, served' \in Live,
         unsaid' \subseteq unsaid, k \in Early \cup {"output"} => k \notin unsaid',
         \A j \in Coming : MayFollow(j, k),
         k \in Early => served' \in Live,
         k = "failed" => served' = "over",
         k \in {"connected", "output"} => served' = "connected",
         served' = "connected" => served = "connected" \/ k = "connected",
         served = "connected" => served' = "connected" /\ k = "output",
         served = "over" => FALSE
  PROVE  BlamedInv' /\ LinkInv'
<1>1. w \in Wizard /\ TypeInv
  BY DEF BasicInv, TypeInv
<1>2. PICK f \in Frames : MaySay(w.protocol, f) /\ Write(f) /\ Said(w.protocol, f) = k
                          /\ f.type = "stream"
  BY <1>1, SaysFrame
<1>3. InOrder(toClient, FrameOrder(w.protocol))
  BY DEF LinkInv, QueueInv
<1>4. /\ Coming' = Coming \cup {k} /\ Elements(toClient)' = Elements(toClient) \cup {f}
      /\ InOrder(toClient, FrameOrder(w.protocol))'
  BY <1>1, <1>2, <1>3, FrameWritten
<1>5. /\ k \notin {"answer", "close", "completed"}
      /\ served \notin {"idle", "refused", "closed"} /\ served' \notin {"idle", "refused", "closed"}
  BY DEF StreamKinds, Live
<1>6. QueueInv'
  <2>1. \A g \in Elements(toClient) : AnswerFits(g)'
    BY <1>5 DEF LinkInv, QueueInv, AnswerFits
  <2>2. AnswerFits(f)'
    BY <1>2 DEF AnswerFits
  <2>3. InOrder(w.sent, SentOrder)'
    BY DEF LinkInv, QueueInv
  <2> QED
    BY <1>4, <2>1, <2>2, <2>3 DEF QueueInv
<1>7. ServerInv'
  BY <1>4, <1>5 DEF LinkInv, ServerInv, Going, Early, Live
<1>8. BrowserInv'
  BY <1>4, <1>5 DEF LinkInv, BrowserInv, Going, Live
<1>9. ConnectedInv'
  BY <1>4, <1>5 DEF LinkInv, ConnectedInv, Early, Live
<1>10. BlamedInv'
  BY <1>5 DEF BlamedInv
<1> QED
  BY <1>6, <1>7, <1>8, <1>9, <1>10 DEF LinkInv

\* The server accepts the request, or refuses it for one field.
LEMMA LinkBootUp ==
  ASSUME BasicInv, BlamedInv, LinkInv, BootUp
  PROVE  BlamedInv' /\ LinkInv'
<1>1. /\ w \in Wizard /\ w' \in Wizard /\ SameEnds(w', w) /\ SameMind(w', w)
      /\ (Active(w') <=> Active(w)) /\ w.up /\ Going = {"request"} \cup Going'
      /\ InOrder(w.sent, SentOrder)'
      /\ \A a \in Going' : MayBeSentAfter("request", a)
  BY ReadsFacts, ReadsInOrder DEF BootUp
<1>2. "request" \notin Going'
  BY <1>1 DEF MayBeSentAfter
<1>3. served = "idle" /\ w.running /\ w.initializing /\ Coming = {} /\ unsaid = {}
  BY <1>1 DEF LinkInv, BrowserInv, ServerInv
<1>4. Elements(toClient) = {} /\ "completed" \notin Going
      /\ ("close" \in Going => w.shuttingDown) /\ ~w.connected
  BY <1>3 DEF Coming, LinkInv, BrowserInv, ConnectedInv
<1>5. ASSUME NEW code \in Nat, Write([type |-> "answer", value |-> code]),
             code = 0 \/ code \in DOMAIN Codes(w.protocol),
             served' \in {"open", "refused"},
             AnswerFits([type |-> "answer", value |-> code])'
      PROVE  LinkInv'
  <2> DEFINE f == [type |-> "answer", value |-> code]
  <2>1. f \in Frames /\ MaySay(w.protocol, f) /\ Said(w.protocol, f) = "answer"
    BY <1>5 DEF Frames, MaySay, Said
  <2>2. Write(f) /\ AnswerFits(f)'
    BY <1>5
  <2> HIDE DEF f
  <2>3. TypeInv /\ w'.protocol = w.protocol /\ InOrder(toClient, FrameOrder(w.protocol))
    BY <1>1 DEF BasicInv, SameMind, LinkInv, QueueInv
  <2>4. /\ Coming' = Coming \cup {"answer"} /\ Elements(toClient)' = Elements(toClient) \cup {f}
        /\ InOrder(toClient, FrameOrder(w.protocol))'
    BY <1>3, <2>1, <2>2, <2>3, FrameWritten
  <2>5. Coming' = {"answer"}
    BY <1>3, <2>4
  <2>6. QueueInv'
    BY <1>1, <1>4, <2>2, <2>4 DEF QueueInv
  <2>7. ServerInv'
    BY <1>5, <2>5 DEF ServerInv, Early
  <2>8. BrowserInv'
    BY <1>1, <1>2, <1>3, <1>4, <1>5, <2>5 DEF LinkInv, BrowserInv, SameEnds, Live
  <2>9. ConnectedInv'
    BY <1>1, <1>4, <1>5, <2>5 DEF ConnectedInv, Early, SameEnds
  <2> QED
    BY <2>6, <2>7, <2>8, <2>9 DEF LinkInv
<1>6. LinkInv'
  <2>1. CASE served' = "open" /\ Write([type |-> "answer", value |-> 0])
    <3>1. AnswerFits([type |-> "answer", value |-> 0])'
      BY <2>1 DEF AnswerFits
    <3> QED
      BY <1>5, <2>1, <3>1
  <2>2. ASSUME NEW r \in Refusals, served' = "refused", refused' = Named(r[1]),
               Write([type |-> "answer", value |-> r[2]])
        PROVE  LinkInv'
    <3>1. /\ r[2] \in Nat \ {0} /\ r[2] \in DOMAIN Codes(w.protocol)
          /\ Codes(w.protocol)[r[2]] = Named(r[1])
      BY <1>1, <2>2, RefusalsAreMeant
    <3>2. w'.protocol = w.protocol
      BY <1>1 DEF SameMind
    <3>3. AnswerFits([type |-> "answer", value |-> r[2]])'
      BY <2>2, <3>1, <3>2 DEF AnswerFits
    <3> QED
      BY <1>5, <2>2, <3>1, <3>3
  <2> QED
    BY <2>1, <2>2 DEF BootUp
<1>7. BlamedInv'
  <2>1. w.blamed = NoField /\ w'.up /\ served' # "idle"
    BY <1>1, <1>3 DEF BlamedInv, SameEnds, BootUp
  <2> QED
    BY <1>1, <2>1 DEF BlamedInv, SameMind
<1> QED
  BY <1>6, <1>7

\* Whatever the server does.
LEMMA LinkServer ==
  ASSUME BasicInv, BlamedInv, LinkInv, ServerStep \/ Report \/ End \/ Stall
  PROVE  BlamedInv' /\ LinkInv'
<1>1. /\ w \in Wizard /\ TypeInv /\ InOrder(toClient, FrameOrder(w.protocol))
      /\ w.protocol = "telnet" => unsaid \cap Questions = {}
  BY DEF BasicInv, TypeInv, NoLogin, LinkInv, QueueInv
<1>2. Coming \subseteq Kinds
  BY <1>1, ComingKinds
<1>3. /\ {"hook", "failed", "connected", "output"} \subseteq StreamKinds \ Questions
      /\ Questions \subseteq Early /\ "hook" \in Early
      /\ Early \cup {"failed", "connected", "output"} = StreamKinds
      /\ {"failed", "connected", "output"} \cap Early = {}
  BY DEF StreamKinds, Questions, Early
<1>4. CASE BootUp
  BY <1>4, LinkBootUp
<1>5. served = "open" => Coming \subseteq Early \cup {"answer"}
  BY <1>2 DEF LinkInv, ServerInv, Kinds, StreamKinds, Early
<1>6. CASE Hook
  <2>1. \A j \in Coming : MayFollow(j, "hook")
    BY <1>5, <1>6 DEF Hook, MayFollow, Early, LinkInv, ServerInv
  <2> QED
    BY <1>3, <1>6, <2>1, LinkSays DEF Hook, Live
<1>7. ASSUME NEW q \in Questions, Ask(q)
      PROVE  BlamedInv' /\ LinkInv'
  <2>1. \A j \in Coming : MayFollow(j, q)
    BY <1>3, <1>5, <1>7 DEF Ask, MayFollow, Early, LinkInv, ServerInv, Questions
  <2>2. q \in StreamKinds /\ q \in Early /\ q \notin {"failed", "connected", "output"}
    BY <1>3
  <2>3. w.protocol = "telnet" => q \notin Questions
    BY <1>1, <1>7 DEF Ask
  <2> QED
    BY <1>7, <2>1, <2>2, <2>3, LinkSays DEF Ask, Live
<1>8. CASE Report
  <2>1. \A j \in Coming : MayFollow(j, "failed")
    BY <1>5, <1>8 DEF Report, MayFollow, Early
  <2> QED
    BY <1>3, <1>8, <2>1, LinkSays DEF Report, Live
<1>9. CASE Connect
  <2>1. \A j \in Coming : MayFollow(j, "connected")
    BY <1>5, <1>9 DEF Connect, MayFollow, Early
  <2> QED
    BY <1>3, <1>9, <2>1, LinkSays DEF Connect, Live
<1>10. CASE Output
  <2>1. \A j \in Coming : MayFollow(j, "output")
    BY <1>2, <1>10 DEF Output, MayFollow, LinkInv, ServerInv, Kinds, StreamKinds
  <2> QED
    BY <1>3, <1>10, <2>1, LinkSays DEF Output, Live
<1>11. CASE End
  <2> DEFINE f == [type |-> "close", value |-> 0]
  <2>1. f \in Frames /\ MaySay(w.protocol, f) /\ Said(w.protocol, f) = "close"
        /\ f.type # "answer"
    BY DEF Frames, MaySay, Said
  <2>2. /\ Write(f) /\ w' = w /\ served \in Live /\ served' = "closed"
        /\ UNCHANGED <<unsaid, refused>>
    BY <1>11 DEF End
  <2> HIDE DEF f
  <2>3. "close" \notin Coming /\ "completed" \notin Coming /\ served # "idle"
        /\ served # "refused" /\ served # "closed"
    BY <2>2 DEF LinkInv, ServerInv, Live
  <2>4. \A j \in Coming : MayFollow(j, "close")
    BY <2>3 DEF MayFollow
  <2>5. /\ Coming' = Coming \cup {"close"} /\ Elements(toClient)' = Elements(toClient) \cup {f}
        /\ InOrder(toClient, FrameOrder(w.protocol))'
    BY <1>1, <2>1, <2>2, <2>4, FrameWritten
  <2>6. QueueInv'
    <3>1. \A g \in Elements(toClient) : AnswerFits(g)'
      BY <2>2, <2>3 DEF LinkInv, QueueInv, AnswerFits
    <3>2. AnswerFits(f)'
      BY <2>1 DEF AnswerFits
    <3>3. InOrder(w.sent, SentOrder)'
      BY <2>2 DEF LinkInv, QueueInv
    <3> QED
      BY <2>5, <3>1, <3>2, <3>3 DEF QueueInv
  <2>7. Going' = Going
    BY <2>2 DEF Going
  <2>8. ServerInv'
    BY <2>2, <2>3, <2>5, <2>7 DEF LinkInv, ServerInv, Early, Live
  <2>9. BrowserInv'
    BY <2>2, <2>3, <2>5, <2>7 DEF LinkInv, BrowserInv, Live
  <2>10. ConnectedInv'
    BY <2>2, <2>3, <2>5 DEF LinkInv, ConnectedInv, Early, Live
  <2>11. BlamedInv'
    BY <2>2 DEF BlamedInv
  <2> QED
    BY <2>6, <2>8, <2>9, <2>10, <2>11 DEF LinkInv
<1>12. ASSUME NEW b \in AnswerBodies \cup {"completed"}, Reads(b),
              UNCHANGED <<served, unsaid, refused, toClient>>
       PROVE  BlamedInv' /\ LinkInv'
  <2>1. /\ SameEnds(w', w) /\ SameMind(w', w) /\ (Active(w') <=> Active(w)) /\ w.up
        /\ Going = {b} \cup Going' /\ InOrder(w.sent, SentOrder)'
    BY <1>12, ReadsFacts, ReadsInOrder
  <2>2. /\ Going' \subseteq Going
        /\ "request" \in Going <=> "request" \in Going'
        /\ "close" \in Going <=> "close" \in Going'
    BY <1>12, <2>1 DEF AnswerBodies
  <2>3. Coming' = Coming
    BY <1>12, <2>1 DEF Coming, SameMind
  <2>4. QueueInv'
    BY <1>12, <2>1 DEF LinkInv, QueueInv, AnswerFits, SameMind
  <2>5. ServerInv' /\ ConnectedInv'
    BY <1>12, <2>1, <2>2, <2>3 DEF LinkInv, ServerInv, ConnectedInv, SameEnds
  <2>6. BrowserInv'
    BY <1>12, <2>1, <2>2, <2>3 DEF LinkInv, BrowserInv, SameEnds
  <2>7. BlamedInv'
    BY <1>12, <2>1 DEF BlamedInv, SameMind, SameEnds
  <2> QED
    BY <2>4, <2>5, <2>6, <2>7 DEF LinkInv
<1>13. CASE ReadAnswer
  BY <1>12, <1>13 DEF ReadAnswer, AnswerBodies
<1>14. CASE ReadCompleted
  BY <1>12, <1>14 DEF ReadCompleted, serverVars
<1>15. CASE ReadClose
  <2> DEFINE f == [type |-> "completed", value |-> 0]
  <2>1. f \in Frames /\ MaySay(w.protocol, f) /\ Said(w.protocol, f) = "completed"
        /\ f.type # "answer"
    BY DEF Frames, MaySay, Said
  <2>2. /\ Write(f) /\ Reads("close") /\ served \notin Live
        /\ UNCHANGED <<served, unsaid, refused>>
    BY <1>15 DEF ReadClose
  <2> HIDE DEF f
  <2>3. /\ SameEnds(w', w) /\ SameMind(w', w) /\ (Active(w') <=> Active(w)) /\ w.up
        /\ Going = {"close"} \cup Going' /\ InOrder(w.sent, SentOrder)'
        /\ \A a \in Going' : MayBeSentAfter("close", a)
    BY <2>2, ReadsFacts, ReadsInOrder
  <2>4. "request" \notin Going /\ "close" \notin Going' /\ "close" \in Going
    BY <2>3 DEF MayBeSentAfter, AnswerBodies
  <2>5. /\ w.senderClosed /\ w.running /\ served \in {"closed", "refused"}
        /\ "completed" \notin Coming
        /\ w.shuttingDown \/ "close" \in Coming
    BY <1>1, <2>2, <2>4 DEF LinkInv, BrowserInv, ServerInv, TypeInv
  <2>6. w'.protocol = w.protocol
    BY <2>3 DEF SameMind
  <2>7. \A j \in Coming : MayFollow(j, "completed")
    BY <2>5 DEF MayFollow
  <2>8. /\ Coming' = Coming \cup {"completed"}
        /\ Elements(toClient)' = Elements(toClient) \cup {f}
        /\ InOrder(toClient, FrameOrder(w.protocol))'
    BY <1>1, <2>1, <2>2, <2>6, <2>7, FrameWritten
  <2>9. QueueInv'
    <3>1. \A g \in Elements(toClient) : AnswerFits(g)'
      BY <2>2, <2>6 DEF LinkInv, QueueInv, AnswerFits
    <3>2. AnswerFits(f)'
      BY <2>1 DEF AnswerFits
    <3> QED
      BY <2>3, <2>8, <3>1, <3>2 DEF QueueInv
  <2>10. ServerInv'
    BY <2>2, <2>3, <2>4, <2>5, <2>8 DEF LinkInv, ServerInv, SameEnds, Early
  <2>11. BrowserInv'
    BY <2>2, <2>3, <2>4, <2>5, <2>8 DEF LinkInv, BrowserInv, SameEnds, Live
  <2>12. ConnectedInv'
    BY <2>2, <2>3, <2>5, <2>8 DEF LinkInv, ConnectedInv, SameEnds, Early
  <2>13. BlamedInv'
    BY <2>2, <2>3 DEF BlamedInv, SameMind, SameEnds
  <2> QED
    BY <2>9, <2>10, <2>11, <2>12, <2>13 DEF LinkInv
<1>16. CASE Stall
  <2>1. UNCHANGED <<w, served, unsaid, refused, toClient>>
    BY <1>16 DEF Stall
  <2>2. Coming' = Coming /\ Going' = Going
    BY <2>1 DEF Coming, Going
  <2> QED
    BY <2>1, <2>2
      DEF BlamedInv, LinkInv, QueueInv, ServerInv, BrowserInv, ConnectedInv, AnswerFits
<1> QED
  BY <1>4, <1>6, <1>7, <1>8, <1>9, <1>10, <1>11, <1>13, <1>14, <1>15, <1>16 DEF ServerStep

\* The request is not answered in time.
LEMMA LinkTimeOut ==
  ASSUME BasicInv, BlamedInv, LinkInv, TimeOut
  PROVE  BlamedInv' /\ LinkInv'
<1>1. w \in Wizard /\ w.up /\ w' = Fail(w) /\ UNCHANGED <<served, unsaid, refused, toClient>>
  BY DEF BasicInv, TypeInv, TimeOut, serverVars
<1>2. CASE Active(w)
  BY <1>1, <1>2, FailGivesUp, LinkGivenUp
<1>3. CASE ~Active(w)
  BY <1>1, <1>3, FailFacts, LinkCloseWizard
<1> QED
  BY <1>2, <1>3

\* What the user does to the wizard: it is started, goes on, is closed, or its stream is.
LEMMA UserMoves ==
  ASSUME BasicInv, UserActs
  PROVE  /\ w \in Wizard /\ UNCHANGED serverVars
         /\ \/ Submit /\ ~w.started /\ w' \in Wizard /\ StartedFrom(w', w)
            \/ Moved(w', w, AnswerBodies, {"wait"})
            \/ w' = CloseWizard(w)
            \/ CancelLogin /\ w' = Push(CloseSender(w), "wait")
<1>1. w \in Wizard /\ UNCHANGED serverVars
  BY DEF BasicInv, TypeInv, UserActs
<1>2. step \in Questions \/ saving => w.protocol # "telnet"
  BY DEF BasicInv, NoLogin
<1>3. "fingerprint" \in Questions /\ "credential" \in Questions
  BY DEF Questions
<1>4. ASSUME w' = w
      PROVE  Moved(w', w, AnswerBodies, {"wait"})
  BY <1>1, <1>4 DEF Moved, SameEnds, SameTurn, SameMind
<1>5. w.protocol # "telnet" =>
        /\ Moved(Accept, w, AnswerBodies, {"wait"})
        /\ Moved(Reject, w, AnswerBodies, {"wait"})
        /\ Moved(Login, w, AnswerBodies, {"wait"})
        /\ DoNotLogin = Push(CloseSender(w), "wait")
  <2> SUFFICES ASSUME w.protocol # "telnet"
               PROVE  /\ Moved(Accept, w, AnswerBodies, {"wait"})
                      /\ Moved(Reject, w, AnswerBodies, {"wait"})
                      /\ Moved(Login, w, AnswerBodies, {"wait"})
                      /\ DoNotLogin = Push(CloseSender(w), "wait")
    OBVIOUS
  <2>1. Moved(Accept, w, {"trust"}, {"wait"}) /\ Moved(Reject, w, {"refuse"}, {"wait"})
        /\ Moved(Login, w, {"credential"}, {"wait"})
        /\ DoNotLogin = Push(CloseSender(w), "wait")
    BY <1>1, AnswersSend, MovedAnswer, SomeSteps
  <2> QED
    BY <2>1, SomeSteps DEF Moved
<1>6. CASE Submit
  <2>1. ~w.started
    BY <1>6 DEF BasicInv, FormFirst, Submit, MaySubmit
  <2>2. PICK available \in BOOLEAN, b \in BOOLEAN, c \in BOOLEAN :
          w' = Start(w, available, b, c)
    BY <1>1, <1>6, SubmitStarts DEF Submit
  <2> QED
    BY <1>1, <1>6, <2>1, <2>2, StartFacts
<1>7. CASE Continue \/ GiveCredential
  BY <1>1, <1>2, <1>3, <1>4, <1>5, <1>7 DEF Continue, GiveCredential, Answer, MaySubmit
<1>8. CASE Save
  BY <1>1, <1>4, <1>8 DEF Save
<1>9. CASE SaveReturns
  BY <1>1, <1>2, <1>4, <1>5, <1>9 DEF SaveReturns
<1>10. CASE SaveAsPreset \/ Cancel
  BY <1>1, <1>4, <1>10 DEF SaveAsPreset, Cancel
<1>11. CASE RejectFingerprint
  BY <1>1, <1>2, <1>3, <1>4, <1>5, <1>11 DEF RejectFingerprint, CancelPrompt, MaySubmit
<1>12. CASE CancelLogin
  BY <1>1, <1>2, <1>3, <1>4, <1>5, <1>12 DEF CancelLogin, CancelPrompt, MaySubmit
<1> QED
  BY <1>6, <1>7, <1>8, <1>9, <1>10, <1>11, <1>12 DEF UserActs, UserStep

\* The login that is given up: its question was asked, so the session is there.
LEMMA LinkCancelLogin ==
  ASSUME BasicInv, BlamedInv, LinkInv, TurnInv, w.up, CancelLogin,
         w' = Push(CloseSender(w), "wait"), UNCHANGED serverVars
  PROVE  BlamedInv' /\ LinkInv'
<1> DEFINE c == CloseSender(w)
<1>1. w \in Wizard /\ UNCHANGED <<served, unsaid, refused, toClient>>
  BY DEF BasicInv, TypeInv, serverVars
<1>2. /\ c \in Wizard /\ c.senderClosed
      /\ c.sent = IF ~w.senderClosed /\ w.up THEN Append(w.sent, "close") ELSE w.sent
      /\ c.up = w.up /\ c.running = w.running /\ c.initializing = w.initializing
      /\ c.shuttingDown = w.shuttingDown /\ c.connected = w.connected
      /\ SameTurn(c, w) /\ SameRequest(c, w) /\ SameHistory(c, w) /\ SameSteps(c, w)
  BY <1>1, CloseSenderFacts
<1> HIDE DEF c
<1>3. /\ w' \in Wizard /\ SameEnds(w', c) /\ SameRequest(w', c) /\ SameHistory(w', c)
      /\ w'.sent = c.sent
  <2>1. w' = Push(c, "wait")
    BY DEF c
  <2>2. "wait" \in Steps
    BY SomeSteps
  <2> QED
    BY <1>2, <2>1, <2>2, PushFacts
<1>4. IsShown("credential") /\ "credential" \in Questions
  BY DEF CancelLogin, CancelPrompt, MaySubmit, Idle, IsShown, Questions
<1>5. asked = "credential" /\ ~w.initializing /\ served \notin {"idle", "refused"}
  BY <1>4 DEF TurnInv, Turns
<1>6. /\ w'.up = w.up /\ w'.running = w.running /\ w'.initializing = w.initializing
      /\ w'.shuttingDown = w.shuttingDown /\ w'.connected = w.connected
      /\ w'.senderClosed /\ SameMind(w', w) /\ (Active(w') <=> Active(w))
      /\ w'.sent = IF w.senderClosed THEN w.sent ELSE Append(w.sent, "close")
  BY <1>2, <1>3 DEF SameEnds, SameHistory, SameMind, SameRequest, Active
<1>7. /\ Going \subseteq Going' /\ Going' \subseteq Going \cup {"close"}
      /\ w.senderClosed => Going' = Going
      /\ InOrder(w.sent, SentOrder)'
      /\ ~w.running => Going' = Going
  <2>1. CASE w.senderClosed
    BY <1>6, <2>1 DEF Going, LinkInv, QueueInv
  <2>2. CASE ~w.senderClosed
    <3>1. \A a \in Going : MayBeSentAfter(a, "close")
      BY <2>2 DEF LinkInv, BrowserInv, MayBeSentAfter
    <3>2. w.running
      BY <1>1, <1>5, <2>2 DEF LinkInv, BrowserInv, BasicInv, TypeInv
    <3> QED
      BY <1>1, <1>6, <2>2, <3>1, <3>2, SomeSteps, BodySent DEF LinkInv, QueueInv
  <2> QED
    BY <2>1, <2>2
<1>8. Coming' = Coming
  BY <1>1, <1>6 DEF Coming, SameMind
<1>9. "completed" \in Coming => w.senderClosed
  BY DEF LinkInv, ServerInv
<1>10. QueueInv'
  BY <1>1, <1>6, <1>7 DEF LinkInv, QueueInv, AnswerFits, SameMind
<1>11. ServerInv'
  BY <1>1, <1>6, <1>7, <1>8, <1>9 DEF LinkInv, ServerInv
<1>12. BrowserInv'
  BY <1>1, <1>5, <1>6, <1>7, <1>8 DEF LinkInv, BrowserInv
<1>13. ConnectedInv'
  BY <1>1, <1>6, <1>8 DEF LinkInv, ConnectedInv
<1>14. BlamedInv'
  BY <1>1, <1>6 DEF BlamedInv, SameMind
<1> QED
  BY <1>10, <1>11, <1>12, <1>13, <1>14 DEF LinkInv

\* Whatever the user does.
LEMMA LinkUser ==
  ASSUME BasicInv, BlamedInv, LinkInv, TurnInv, w.up, UserActs
  PROVE  BlamedInv' /\ LinkInv'
<1>1. /\ w \in Wizard /\ UNCHANGED serverVars /\ UNCHANGED <<served, unsaid, refused, toClient>>
      /\ \/ ~w.started /\ w' \in Wizard /\ StartedFrom(w', w)
         \/ Moved(w', w, AnswerBodies, {"wait"})
         \/ w' = CloseWizard(w)
         \/ CancelLogin /\ w' = Push(CloseSender(w), "wait")
  BY UserMoves DEF serverVars
<1>2. Moved(w', w, AnswerBodies, {"wait"}) => Moved(w', w, AnswerBodies, Steps)
  BY SomeSteps DEF Moved
<1> QED
  BY <1>1, <1>2, LinkStarts, LinkMoved, LinkCloseWizard, LinkCancelLogin

\* Whatever the modal's loop does.
LEMMA LinkLoop ==
  ASSUME BasicInv, BlamedInv, LinkInv, w.up, LoopStep
  PROVE  BlamedInv' /\ LinkInv'
<1>1. w \in Wizard /\ UNCHANGED <<served, unsaid, refused, toClient>>
  BY DEF BasicInv, TypeInv, LoopStep, serverVars
<1>2. CASE ShowStep
  <2>1. /\ w' \in Wizard /\ SameEnds(w', w) /\ w'.sent = w.sent /\ SameRequest(w', w)
        /\ SameHistory(w', w)
    BY <1>1, <1>2, TakeStepFacts DEF ShowStep
  <2>2. SameMind(w', w) /\ (Active(w') <=> Active(w))
    BY <2>1 DEF SameHistory, SameMind, SameRequest, Active
  <2>3. Going' = Going /\ Coming' = Coming
    BY <1>1, <2>1, <2>2 DEF Going, Coming, SameMind
  <2>4. QueueInv'
    BY <1>1, <2>1, <2>2 DEF LinkInv, QueueInv, AnswerFits, SameMind
  <2>5. ServerInv' /\ BrowserInv' /\ ConnectedInv'
    BY <1>1, <2>1, <2>2, <2>3 DEF LinkInv, ServerInv, BrowserInv, ConnectedInv, SameEnds
  <2>6. BlamedInv'
    BY <1>1, <2>1, <2>2 DEF BlamedInv, SameMind, SameEnds
  <2> QED
    BY <2>4, <2>5, <2>6 DEF LinkInv
<1>3. CASE SendCancel
  BY <1>1, <1>3, LinkCloseWizard DEF SendCancel
<1>4. CASE Dismiss
  BY <1>4 DEF Dismiss
<1> QED
  BY <1>2, <1>3, <1>4 DEF LoopStep

\* The connection is lost, with the request or by itself.
LEMMA LostForGood ==
  ASSUME BasicInv, BlamedInv, RequestFails \/ Disconnect
  PROVE  BlamedInv' /\ ~w'.up
<1> DEFINE f == Fail(w)
<1>1. w \in Wizard
  BY DEF BasicInv, TypeInv
<1>2. f \in Wizard /\ SameMind(f, w)
  BY <1>1, FailFacts DEF SameHistory, SameMind
<1>3. w' = Lose(f) \/ w' = Lose(w)
  BY DEF RequestFails, Disconnect
<1> HIDE DEF f
<1>4. ~w'.up /\ w'.sent = <<>> /\ SameMind(w', w)
  BY <1>1, <1>2, <1>3, LoseFacts DEF Lost, SameHistory, SameMind
<1>5. refused' = refused /\ (served' = "idle" => served = "idle")
  BY DEF RequestFails, Disconnect, EndsAll
<1> QED
  BY <1>4, <1>5, BlamedLost

\* Without a connection nothing is sent, whatever the user does.
LEMMA StaysLost ==
  ASSUME BasicInv, BlamedInv, ~w.up, LoopStep \/ UserActs \/ RequestIsRejected
  PROVE  BlamedInv' /\ ~w'.up
<1>1. w \in Wizard /\ w.sent = <<>>
  BY DEF BasicInv, TypeInv, BlamedInv
<1>2. UNCHANGED serverVars
  BY DEF LoopStep, UserActs, RequestIsRejected
<1>3. ASSUME ~w'.up, w'.sent = <<>>, SameMind(w', w)
      PROVE  BlamedInv' /\ ~w'.up
  BY <1>2, <1>3, BlamedLost DEF serverVars
<1>4. ASSUME w' = CloseWizard(w) \/ w' = w
      PROVE  BlamedInv' /\ ~w'.up
  <2>1. CASE GivenUp(w', w)
    BY <1>1, <1>3, <2>1 DEF GivenUp, Closed
  <2>2. CASE SameEnds(w', w) /\ w'.sent = w.sent /\ SameMind(w', w)
    BY <1>1, <1>3, <2>2 DEF SameEnds
  <2>3. CASE w' = w
    BY <1>1, <1>3, <2>3 DEF SameMind
  <2> QED
    BY <1>1, <1>4, <2>1, <2>2, <2>3, CloseGivesUp
<1>5. CASE LoopStep
  <2>1. CASE ShowStep
    <3>1. SameEnds(w', w) /\ w'.sent = w.sent /\ SameHistory(w', w)
      BY <1>1, <2>1, TakeStepFacts DEF ShowStep
    <3> QED
      BY <1>1, <1>3, <3>1 DEF SameEnds, SameHistory, SameMind
  <2>2. CASE SendCancel \/ Dismiss
    BY <1>4, <2>2 DEF SendCancel, Dismiss
  <2> QED
    BY <1>5, <2>1, <2>2 DEF LoopStep
<1>6. CASE UserActs
  <2> DEFINE c == CloseSender(w)
  <2>1. /\ c \in Wizard /\ c.sent = w.sent /\ c.up = w.up /\ SameHistory(c, w)
    BY <1>1, CloseSenderFacts
  <2> HIDE DEF c
  <2>2. CASE w' = Push(c, "wait")
    <3>1. SameEnds(w', c) /\ SameHistory(w', c) /\ w'.sent = c.sent
      BY <2>1, <2>2, SomeSteps, PushFacts
    <3> QED
      BY <1>1, <1>3, <2>1, <3>1 DEF SameEnds, SameHistory, SameMind
  <2>3. CASE StartedFrom(w', w)
    BY <1>1, <1>3, <2>3 DEF StartedFrom, SameHistory, SameMind
  <2>4. CASE Moved(w', w, AnswerBodies, {"wait"})
    BY <1>1, <1>3, <2>4 DEF Moved, SameEnds
  <2> QED
    BY <1>4, <1>6, <2>2, <2>3, <2>4, UserMoves DEF c
<1>7. CASE RequestIsRejected
  <2> DEFINE f == Fail(w)
  <2>1. /\ f \in Wizard /\ SameHistory(f, w)
        /\ Active(w) => Closed(f, w)
        /\ ~Active(w) => f = w
    BY <1>1, FailFacts
  <2>2. w' = [f EXCEPT !.sending = FALSE]
    BY <1>7 DEF RequestIsRejected
  <2> HIDE DEF f
  <2>3. w'.up = f.up /\ w'.sent = f.sent /\ SameMind(w', f)
    BY <2>1, <2>2 DEF Wizard, SameMind
  <2> QED
    BY <1>1, <1>3, <2>1, <2>3 DEF Closed, SameHistory, SameMind
<1> QED
  BY <1>5, <1>6, <1>7

---------------------------------------------------------------------------
(* Whose turn it is, step by step                                          *)

\* The questions and their answers by their names.
LEMMA QuestionBodies ==
  /\ Questions = {"fingerprint", "credential"} /\ Questions \subseteq Steps
  /\ Questions \subseteq Kinds
  /\ \A q \in Questions : Answers(q) \subseteq AnswerBodies
  /\ \A b \in AnswerBodies : \E q \in Questions : b \in Answers(q)
  /\ Answers("fingerprint") = {"trust", "refuse"} /\ Answers("credential") = {"credential"}
BY DEF Questions, Steps, Prompts, Kinds, StreamKinds, Answers, AnswerBodies

\* Nothing is asked, nothing answered; what is published is no question.
LEMMA TurnLessens ==
  ASSUME TurnInv, w \in Wizard, w' \in Wizard,
         Coming' \cap Questions \subseteq Coming,
         w'.reading = "fingerprint" => w.reading = "fingerprint",
         w'.steps = w.steps \/ \E s \in Steps \ Questions : w'.steps = Append(w.steps, s),
         Going' \cap AnswerBodies \subseteq Going, InOrder(w.sent, TurnOrder)',
         w'.initializing => w.initializing,
         UNCHANGED <<loop, step, disabled, saving, asked>>,
         submitting => submitting', Shown' => Shown,
         served' \in {"idle", "refused"} => asked' = "nothing",
         ClosedShowsNothing'
  PROVE  TurnInv'
<1>1. /\ InOrder(w.steps, StepOrder)' /\ Pending' \cap Questions \subseteq Pending
      /\ w'.steps = <<>> => w.steps = <<>>
  <2>1. CASE w'.steps = w.steps
    BY <2>1 DEF Pending, TurnInv
  <2>2. ASSUME NEW s \in Steps \ Questions, w'.steps = Append(w.steps, s)
        PROVE  /\ InOrder(w.steps, StepOrder)' /\ Pending' \cap Questions \subseteq Pending
               /\ w'.steps = <<>> => w.steps = <<>>
    BY <2>2, StepPublished DEF TurnInv
  <2> QED
    BY <2>1, <2>2
<1>2. ASSUME NEW q \in Questions
      PROVE  Turns(q)'
  <2>1. /\ q \in Coming' => q \in Coming
        /\ IsRead(q)' => IsRead(q)
        /\ q \in Pending' => q \in Pending
        /\ IsShown(q)' => IsShown(q)
        /\ IsSaved(q)' => IsSaved(q)
        /\ IsAnswered(q)' => IsAnswered(q)
    <3>1. IsAnswered(q)' => IsAnswered(q)
      BY QuestionBodies DEF IsAnswered
    <3> QED
      BY <1>1, <3>1 DEF IsRead, IsShown, IsSaved
  <2>2. Turns(q)
    BY DEF TurnInv
  <2> QED
    BY <2>1, <2>2 DEF Turns
<1> QED
  BY <1>1, <1>2 DEF TurnInv

\* The steps of a wizard that was closed before.
LEMMA StaysClosed ==
  ASSUME TurnInv, w \in Wizard, w'.closed = w.closed, loop' = loop, Active(w') => Active(w),
         \/ w'.steps = w.steps
         \/ \E s \in Steps : w'.steps = Append(w.steps, s) /\ (s \in Questions => Active(w))
  PROVE  ClosedShowsNothing'
<1>1. CASE w'.steps = w.steps
  BY <1>1 DEF TurnInv, ClosedShowsNothing
<1>2. ASSUME NEW s \in Steps, w'.steps = Append(w.steps, s), s \in Questions => Active(w)
      PROVE  ClosedShowsNothing'
  <2>1. w'.steps # <<>> /\ Head(w'.steps) = IF w.steps = <<>> THEN s ELSE Head(w.steps)
    BY <1>2, StepPublished
  <2> QED
    BY <1>2, <2>1 DEF TurnInv, ClosedShowsNothing
<1> QED
  BY <1>1, <1>2

\* What is sent without being an answer.
LEMMA NoAnswerSent ==
  ASSUME TurnInv, w \in Wizard,
         w'.sent = w.sent \/ \E b \in Bodies \ AnswerBodies : w'.sent = Append(w.sent, b)
  PROVE  Going' \cap AnswerBodies \subseteq Going /\ InOrder(w.sent, TurnOrder)'
<1>1. CASE w'.sent = w.sent
  BY <1>1 DEF Going, TurnInv
<1>2. ASSUME NEW b \in Bodies \ AnswerBodies, w'.sent = Append(w.sent, b)
      PROVE  Going' \cap AnswerBodies \subseteq Going /\ InOrder(w.sent, TurnOrder)'
  BY <1>2, BodySent DEF TurnInv
<1> QED
  BY <1>1, <1>2

\* A frame that asks nothing is taken.
LEMMA TurnReceives ==
  ASSUME BasicInv, LinkInv, TurnInv, NEW type, Receives(type),
         w' \in Wizard, w'.protocol = w.protocol, w'.closed = w.closed,
         w'.reading = "fingerprint" => w.reading = "fingerprint",
         w'.steps = w.steps \/ \E s \in Steps \ Questions : w'.steps = Append(w.steps, s),
         Going' \cap AnswerBodies \subseteq Going, InOrder(w.sent, TurnOrder)',
         w'.initializing => w.initializing, Active(w') => Active(w)
  PROVE  TurnInv'
<1>1. /\ Coming' \subseteq Coming /\ UNCHANGED <<connectorVars, served, asked>>
      /\ w \in Wizard
  BY LinkTakes DEF BasicInv, TypeInv
<1>2. ClosedShowsNothing'
  BY <1>1, StaysClosed DEF connectorVars
<1> QED
  BY <1>1, <1>2, TurnLessens DEF connectorVars, TurnInv, Shown

\* The answer to the request asks nothing.
LEMMA TurnAnswer ==
  ASSUME BasicInv, LinkInv, TurnInv, ReceiveAnswer
  PROVE  TurnInv'
<1>1. /\ w.initializing /\ w \in Wizard
      /\ \/ w.shuttingDown /\ w' = [w EXCEPT !.initializing = FALSE]
         \/ refused \in Blames /\ w' = Clear(Blame(w, refused))
         \/ w' = [Begin(w) EXCEPT !.initializing = FALSE]
  BY AnswerBegins
<1>2. /\ w' \in Wizard /\ w'.protocol = w.protocol /\ w'.closed = w.closed
      /\ w'.reading = w.reading \/ w'.reading = "nothing"
      /\ \/ w'.steps = w.steps
         \/ \E s \in {"wait", "failure"} : w'.steps = Append(w.steps, s)
      /\ w'.sent = w.sent /\ (Active(w') => Active(w))
  <2>1. CASE w' = [w EXCEPT !.initializing = FALSE]
    BY <1>1, <2>1 DEF Wizard, Active
  <2>2. CASE refused \in Blames /\ w' = Clear(Blame(w, refused))
    BY <1>1, <2>2, BlameFacts
  <2>3. CASE w' = [Begin(w) EXCEPT !.initializing = FALSE]
    BY <1>1, <2>3, BegunFacts DEF SameTurn, SameMind
  <2> QED
    BY <1>1, <2>1, <2>2, <2>3
<1>3. Going' \cap AnswerBodies \subseteq Going /\ InOrder(w.sent, TurnOrder)'
  BY <1>1, <1>2, NoAnswerSent
<1>4. w'.steps = w.steps \/ \E s \in Steps \ Questions : w'.steps = Append(w.steps, s)
  BY <1>2, SomeSteps
<1>5. w'.reading = "fingerprint" => w.reading = "fingerprint"
  BY <1>2
<1> QED
  BY <1>1, <1>2, <1>3, <1>4, <1>5, TurnReceives DEF ReceiveAnswer

\* The server's CLOSE asks nothing.
LEMMA TurnClose ==
  ASSUME BasicInv, BlamedInv, LinkInv, TurnInv, ReceiveClose
  PROVE  TurnInv'
<1> DEFINE c == CloseStream(w)
<1>1. w \in Wizard /\ w' = Put(c, "completed") /\ Receives("close")
  BY LinkClose DEF ReceiveClose
<1>2. /\ c \in Wizard /\ Closed(c, w)
      /\ SameTurn(c, w) /\ SameRequest(c, w) /\ SameHistory(c, w) /\ SameSteps(c, w)
  BY <1>1, CloseStreamFacts
<1> HIDE DEF c
<1>3. /\ w' \in Wizard /\ w'.sent = IF c.up THEN Append(c.sent, "completed") ELSE c.sent
      /\ SameEnds(w', c) /\ SameTurn(w', c) /\ SameRequest(w', c) /\ SameHistory(w', c)
      /\ SameSteps(w', c)
  BY <1>1, <1>2, SomeSteps, PutFacts
<1>4. /\ w'.protocol = w.protocol /\ SameTurn(w', w) /\ w'.steps = w.steps
      /\ w'.initializing = w.initializing /\ (Active(w') <=> Active(w))
  BY <1>2, <1>3
    DEF Closed, SameEnds, SameTurn, SameRequest, SameHistory, SameSteps, Active
<1>5. Going' \cap AnswerBodies \subseteq Going /\ InOrder(w.sent, TurnOrder)'
  <2> DEFINE x == c.sent
  <2>1. x \in Seq(Bodies) /\ w.sent \in Seq(Bodies) /\ InOrder(w.sent, TurnOrder)
    BY <1>1, <1>2 DEF Wizard, TurnInv
  <2>2. Elements(x) \cap AnswerBodies \subseteq Elements(w.sent) /\ InOrder(x, TurnOrder)
    <3>1. CASE c.sent = w.sent
      BY <2>1, <3>1
    <3>2. CASE c.sent = Append(w.sent, "close")
      <4>1. \A a \in Elements(w.sent) : <<a, "close">> \in TurnOrder
        BY <2>1, SomeSteps DEF TurnOrder, Elements
      <4> QED
        BY <2>1, <3>2, <4>1, SomeSteps, AppendOne
    <3> QED
      BY <1>2, <3>1, <3>2 DEF Closed
  <2> HIDE DEF x
  <2>3. CASE w'.sent = x
    BY <2>2, <2>3 DEF Going
  <2>4. CASE w'.sent = Append(x, "completed")
    <3>1. \A a \in Elements(x) : <<a, "completed">> \in TurnOrder
      BY <2>1, SomeSteps DEF TurnOrder, Elements
    <3>2. Elements(w'.sent) = Elements(x) \cup {"completed"} /\ InOrder(w'.sent, TurnOrder)
      BY <2>1, <2>2, <2>4, <3>1, SomeSteps, AppendOne
    <3> QED
      BY <2>2, <3>2, SomeSteps DEF Going
  <2> QED
    BY <1>3, <2>3, <2>4 DEF x
<1> QED
  BY <1>1, <1>3, <1>4, <1>5, TurnReceives DEF SameTurn

\* The server's COMPLETED asks nothing.
LEMMA TurnCompleted ==
  ASSUME BasicInv, BlamedInv, LinkInv, TurnInv, ReceiveCompleted
  PROVE  TurnInv'
<1>1. /\ w \in Wizard /\ w' = Clear(ResolveTerminal(w, "failure")) /\ Receives("completed")
  BY LinkCompleted DEF ReceiveCompleted
<1>2. /\ w' \in Wizard /\ ~w'.initializing
      /\ w'.reading = "nothing" /\ w'.closed = w.closed
      /\ w'.sent = w.sent /\ ~Active(w') /\ SameMind(w', w)
      /\ w'.steps = w.steps \/ w'.steps = Append(w.steps, "failure")
  BY <1>1, OverFacts
<1>3. Going' \cap AnswerBodies \subseteq Going /\ InOrder(w.sent, TurnOrder)'
  BY <1>1, <1>2, NoAnswerSent
<1>4. w'.steps = w.steps \/ \E s \in Steps \ Questions : w'.steps = Append(w.steps, s)
  BY <1>2, SomeSteps
<1> QED
  BY <1>1, <1>2, <1>3, <1>4, TurnReceives DEF SameMind

\* Who holds a question holds it alone.
LEMMA OneQuestion ==
  ASSUME TurnInv, NEW q \in Questions,
         q \in Coming \/ IsRead(q) \/ q \in Pending \/ IsShown(q) \/ IsSaved(q) \/ IsAnswered(q)
  PROVE  /\ asked = q /\ served \notin {"idle", "refused"}
         /\ \A p \in Questions \ {q} :
              p \notin Coming /\ ~IsRead(p) /\ p \notin Pending /\ ~IsShown(p) /\ ~IsSaved(p)
              /\ ~IsAnswered(p)
         /\ ~IsAnswered(q) => Going \cap AnswerBodies = {}
         /\ q \notin Pending => Pending \cap Questions = {}
<1>1. asked = q
  BY DEF TurnInv, Turns
<1>2. \A p \in Questions \ {q} :
              p \notin Coming /\ ~IsRead(p) /\ p \notin Pending /\ ~IsShown(p) /\ ~IsSaved(p)
              /\ ~IsAnswered(p)
  BY <1>1 DEF TurnInv, Turns
<1>3. ~IsAnswered(q) => Going \cap AnswerBodies = {}
  BY <1>2, QuestionBodies DEF IsAnswered
<1>4. served \notin {"idle", "refused"}
  BY <1>1 DEF TurnInv, Questions
<1> QED
  BY <1>1, <1>2, <1>3, <1>4

\* A question is read, published, or answered from what is known.
LEMMA TurnStream ==
  ASSUME BasicInv, LinkInv, TurnInv, ReceiveStream, w'.up
  PROVE  TurnInv'
<1> DEFINE k == Said(w.protocol, Received)
<1>1. /\ ~w.initializing /\ w \in Wizard /\ k \in Coming /\ k \in StreamKinds
      /\ \/ w' = w
         \/ k = "connected" /\ w' = Succeed(w)
         \/ k = "credential" /\ w' = Enter(w)
         \/ k \in {"hook", "failed", "fingerprint"} /\ w' = Read(w, k)
  BY StreamHeard
<1>2. Receives("stream") /\ w.reading = "nothing" /\ toClient' = Tail(toClient)
  BY DEF ReceiveStream, Receives
<1>3. ASSUME w'.protocol = w.protocol
      PROVE  /\ Coming' \subseteq Coming /\ k \notin Coming'
             /\ UNCHANGED <<connectorVars, served, asked>>
  <2>1. /\ Coming = {k} \cup Coming' /\ \A j \in Coming' : MayFollow(k, j)
        /\ UNCHANGED <<connectorVars, served, asked>>
    BY <1>2, <1>3, LinkTakes
  <2> QED
    BY <2>1 DEF MayFollow
<1> HIDE DEF k
<1>4. ASSUME w' \in Wizard, w'.protocol = w.protocol, w'.closed = w.closed,
             w'.reading # "fingerprint",
             w'.steps = w.steps \/ \E s \in Steps \ Questions : w'.steps = Append(w.steps, s),
             w'.sent = w.sent, w'.initializing = w.initializing, Active(w') => Active(w)
      PROVE  TurnInv'
  <2>1. Going' \cap AnswerBodies \subseteq Going /\ InOrder(w.sent, TurnOrder)'
    BY <1>1, <1>4, NoAnswerSent
  <2> QED
    BY <1>2, <1>4, <2>1, TurnReceives
<1>5. CASE w' = w
  BY <1>1, <1>2, <1>4, <1>5
<1>6. CASE w' = Succeed(w)
  <2>1. /\ w' \in Wizard /\ w'.initializing = w.initializing
        /\ SameTurn(w', w) /\ SameMind(w', w) /\ w'.sent = w.sent /\ ~Active(w')
        /\ w'.steps = w.steps \/ w'.steps = Append(w.steps, "success")
    BY <1>1, <1>6, SucceedFacts
  <2>2. w'.steps = w.steps \/ \E s \in Steps \ Questions : w'.steps = Append(w.steps, s)
    BY <2>1, SomeSteps
  <2> QED
    BY <1>2, <1>4, <2>1, <2>2 DEF SameTurn, SameMind
<1>7. CASE k \in {"hook", "failed", "fingerprint"} /\ w' = Read(w, k)
  <2>1. /\ w' \in Wizard /\ SameEnds(w', w) /\ w'.sent = w.sent /\ SameSteps(w', w)
        /\ SameRequest(w', w) /\ SameHistory(w', w) /\ w'.closed = w.closed
        /\ w'.reading = IF Active(w) THEN k ELSE w.reading
    BY <1>1, <1>7, ReadFacts
  <2>2. /\ w'.protocol = w.protocol /\ w'.initializing = w.initializing
        /\ w'.steps = w.steps /\ (Active(w') <=> Active(w))
    BY <2>1 DEF SameEnds, SameHistory, SameSteps, SameRequest, Active
  <2>3. CASE w'.reading # "fingerprint"
    BY <1>4, <2>1, <2>2, <2>3
  <2>4. CASE w'.reading = "fingerprint"
    <3>1. k = "fingerprint" /\ k \in Questions
      BY <1>2, <2>1, <2>4, QuestionBodies
    <3>2. /\ Coming' \subseteq Coming /\ k \notin Coming'
          /\ UNCHANGED <<connectorVars, served, asked>>
      BY <1>3, <2>2
    <3>3. Pending' = Pending /\ Going' = Going
      BY <2>1, <2>2 DEF Pending, Going
    <3>4. UNCHANGED <<loop, step, disabled, submitting, saving, emitted>>
      BY <3>2 DEF connectorVars
    <3>5. ASSUME NEW q \in Questions
          PROVE  Turns(q)'
      <4>1. /\ IsShown(q)' <=> IsShown(q)
            /\ IsSaved(q)' <=> IsSaved(q)
            /\ IsAnswered(q)' <=> IsAnswered(q)
        BY <2>2, <3>3, <3>4 DEF IsShown, IsSaved, IsAnswered, Shown
      <4>2. Turns(q) /\ Turns(k)
        BY <3>1 DEF TurnInv
      <4> QED
        BY <1>1, <2>2, <3>1, <3>2, <3>3, <4>1, <4>2 DEF Turns, IsRead
    <3>6. ClosedShowsNothing'
      BY <1>1, <2>1, <2>2, <3>4, StaysClosed
    <3> QED
      BY <2>1, <2>2, <3>2, <3>4, <3>5, <3>6 DEF TurnInv
  <2> QED
    BY <2>3, <2>4
<1>8. CASE k = "credential" /\ w' = Enter(w)
  <2>1. k \in Questions /\ k = "credential"
    BY <1>8, QuestionBodies
  <2>2. /\ w' \in Wizard /\ SameEnds(w', w) /\ SameTurn(w', w) /\ SameMind(w', w)
        /\ (Active(w') <=> Active(w))
        /\ \/ /\ w'.sent = w.sent
              /\ \/ w'.steps = w.steps
                 \/ w'.steps = Append(w.steps, "credential") /\ Active(w)
           \/ /\ w'.sent = w.sent \/ w'.sent = Append(w.sent, "credential")
              /\ w'.steps = w.steps \/ w'.steps = Append(w.steps, "wait")
    <3>1. CASE w' = w
      BY <1>1, <3>1 DEF SameEnds, SameTurn, SameMind
    <3>2. CASE Moved(w', w, {"credential"}, {"wait"}) \/ Moved(w', w, {}, {"credential"})
      BY <3>2, QuestionBodies DEF Moved, Active
    <3> QED
      BY <1>1, <1>8, <3>1, <3>2, MovedEnter
  <2>3. /\ Coming' \subseteq Coming /\ k \notin Coming'
        /\ UNCHANGED <<connectorVars, served, asked>>
    BY <1>3, <2>2 DEF SameMind
  <2>4. UNCHANGED <<loop, step, disabled, submitting, saving, emitted>>
    BY <2>3 DEF connectorVars
  <2>5. Turns(k) /\ ~IsAnswered(k) /\ k \notin Pending /\ ~IsShown(k) /\ ~IsSaved(k)
    BY <1>1, <2>1 DEF TurnInv, Turns
  <2>6. /\ asked = k /\ Going \cap AnswerBodies = {} /\ Pending \cap Questions = {}
        /\ \A p \in Questions \ {k} :
              p \notin Coming /\ ~IsRead(p) /\ p \notin Pending /\ ~IsShown(p) /\ ~IsSaved(p)
              /\ ~IsAnswered(p)
    BY <1>1, <2>1, <2>5, OneQuestion
  <2>7. /\ Going' = Going \/ Going' = Going \cup {"credential"}
        /\ InOrder(w.sent, TurnOrder)'
    <3>1. CASE w'.sent = w.sent
      BY <3>1 DEF Going, TurnInv
    <3>2. CASE w'.sent = Append(w.sent, "credential")
      BY <1>1, <2>6, <3>2, SomeSteps, BodySent DEF TurnInv
    <3> QED
      BY <2>2, <3>1, <3>2
  <2>8. /\ \/ Pending' = Pending
           \/ Pending' = Pending \cup {"wait"}
           \/ Pending' = Pending \cup {"credential"} /\ Going' = Going
        /\ InOrder(w.steps, StepOrder)'
        /\ w'.steps = <<>> => w.steps = <<>>
    <3>1. CASE w'.steps = w.steps
      BY <3>1 DEF Pending, TurnInv
    <3>2. CASE w'.steps = Append(w.steps, "wait")
      BY <1>1, <2>6, <3>2, SomeSteps, StepPublished DEF TurnInv
    <3>3. CASE w'.steps = Append(w.steps, "credential") /\ w'.sent = w.sent
      BY <1>1, <2>6, <3>3, SomeSteps, StepPublished DEF TurnInv, Going
    <3> QED
      BY <2>2, <3>1, <3>2, <3>3
  <2>9. ASSUME NEW q \in Questions
        PROVE  Turns(q)'
    <3>1. /\ IsShown(q)' => IsShown(q)
          /\ IsSaved(q)' => IsSaved(q)
          /\ ~IsRead(q)'
      BY <1>2, <2>2, <2>4, <2>8 DEF IsShown, IsSaved, IsRead, SameTurn, Shown
    <3>2. ~w'.initializing
      BY <1>1, <2>2 DEF SameEnds
    <3>3. CASE q # k
      <4>1. ~IsAnswered(q)'
        BY <2>1, <2>6, <2>7, <3>3, QuestionBodies DEF IsAnswered
      <4>2. q \notin Pending'
        BY <2>1, <2>6, <2>8, <3>3, SomeSteps
      <4> QED
        BY <2>3, <2>6, <3>1, <3>3, <4>1, <4>2 DEF Turns
    <3>4. CASE q = k
      <4>1. q \in Pending' => ~IsAnswered(q)'
        BY <2>1, <2>5, <2>7, <2>8, <3>4, QuestionBodies, SomeSteps DEF IsAnswered
      <4> QED
        BY <2>3, <2>5, <2>6, <3>1, <3>2, <3>4, <4>1 DEF Turns
    <3> QED
      BY <3>3, <3>4
  <2>10. ClosedShowsNothing'
    <3>1. \/ w'.steps = w.steps
          \/ \E s \in Steps : w'.steps = Append(w.steps, s) /\ (s \in Questions => Active(w))
      BY <2>2, SomeSteps
    <3> QED
      BY <1>1, <2>2, <2>4, <3>1, StaysClosed DEF SameTurn
  <2> QED
    BY <2>3, <2>4, <2>7, <2>8, <2>9, <2>10 DEF TurnInv
<1> QED
  BY <1>1, <1>5, <1>6, <1>7, <1>8

\* What has been read is published, or answered from what is known.
LEMMA TurnFinishReading ==
  ASSUME BasicInv, LinkInv, TurnInv, FinishReading, w'.up
  PROVE  TurnInv'
<1> DEFINE r == [w EXCEPT !.reading = "nothing"]
<1>1. /\ w \in Wizard /\ r \in Wizard
      /\ SameEnds(r, w) /\ SameMind(r, w) /\ r.request = w.request
      /\ r.failed = w.failed /\ r.sent = w.sent /\ r.steps = w.steps
      /\ r.closed = w.closed /\ r.reading = "nothing"
      /\ \/ w.reading = "failed" /\ w' = ResolveTerminal(r, "failure")
         \/ w.reading = "hook" /\ Moved(w', r, {}, {"wait"})
         \/ /\ w.reading = "fingerprint"
            /\ \/ Moved(w', r, {"trust"}, {"wait"})
               \/ Moved(w', r, {}, {"fingerprint"})
               \/ w' = Lose(r)
  BY ReadingMoves
<1> HIDE DEF r
<1>2. UNCHANGED <<loop, step, disabled, submitting, saving, emitted, served, asked, toClient>>
  BY DEF FinishReading, serverVars, connectorVars
<1>3. Active(r) <=> Active(w)
  BY <1>1 DEF Active
<1>4. ASSUME w' \in Wizard, SameMind(w', r), SameEnds(w', r), SameTurn(w', r), w'.sent = r.sent,
             w'.steps = r.steps \/ \E s \in {"wait", "failure"} : w'.steps = Append(r.steps, s),
             Active(w') => Active(r)
      PROVE  TurnInv'
  <2>1. /\ Coming' = Coming /\ w'.reading = "nothing" /\ w'.initializing = w.initializing
        /\ w'.closed = w.closed /\ w'.sent = w.sent /\ (Active(w') => Active(w))
    BY <1>1, <1>2, <1>3, <1>4 DEF Coming, SameMind, SameTurn, SameEnds
  <2>2. w'.steps = w.steps \/ \E s \in Steps \ Questions : w'.steps = Append(w.steps, s)
    BY <1>1, <1>4, SomeSteps
  <2>3. Going' \cap AnswerBodies \subseteq Going /\ InOrder(w.sent, TurnOrder)'
    BY <1>1, <2>1, NoAnswerSent
  <2>4. ClosedShowsNothing'
    BY <1>1, <1>2, <2>1, <2>2, StaysClosed
  <2> QED
    BY <1>1, <1>2, <1>4, <2>1, <2>2, <2>3, <2>4, TurnLessens DEF TurnInv, Shown
<1>5. CASE w' = ResolveTerminal(r, "failure")
  <2>1. /\ w' \in Wizard /\ SameEnds(w', r) /\ SameTurn(w', r) /\ SameHistory(w', r)
        /\ w'.sent = r.sent
        /\ Active(r) => Over(w', r, "failure")
        /\ ~Active(r) => w' = r
    BY <1>1, <1>5, SomeSteps, ResolveTerminalFacts
  <2> QED
    BY <1>4, <2>1 DEF Over, Active, SameHistory, SameMind
<1>6. CASE Moved(w', r, {}, {"wait"})
  BY <1>4, <1>6 DEF Moved, Active
<1>7. CASE /\ w.reading = "fingerprint"
           /\ Moved(w', r, {"trust"}, {"wait"}) \/ Moved(w', r, {}, {"fingerprint"})
  <2> DEFINE k == "fingerprint"
  <2>1. IsRead(k) /\ k \in Questions
    BY <1>7, QuestionBodies DEF IsRead
  <2> HIDE DEF k
  <2>2. k = "fingerprint"
    BY DEF k
  <2>3. /\ w' \in Wizard /\ SameEnds(w', w) /\ SameMind(w', w) /\ w'.closed = w.closed
        /\ w'.reading = "nothing" /\ (Active(w') <=> Active(w))
        /\ \/ /\ w'.sent = w.sent
              /\ \/ w'.steps = w.steps
                 \/ w'.steps = Append(w.steps, "fingerprint") /\ Active(w)
           \/ /\ w'.sent = w.sent \/ w'.sent = Append(w.sent, "trust")
              /\ w'.steps = w.steps \/ w'.steps = Append(w.steps, "wait")
    <3>1. /\ w' \in Wizard /\ SameEnds(w', r) /\ SameMind(w', r) /\ SameTurn(w', r)
          /\ w'.request = r.request /\ w'.failed = r.failed
      BY <1>7 DEF Moved
    <3>2. /\ SameEnds(w', w) /\ SameMind(w', w) /\ w'.closed = w.closed
          /\ w'.reading = "nothing" /\ (Active(w') <=> Active(w))
      BY <1>1, <3>1 DEF SameEnds, SameMind, SameTurn, Active
    <3>3. CASE Moved(w', r, {"trust"}, {"wait"})
      BY <1>1, <3>1, <3>2, <3>3 DEF Moved
    <3>4. CASE Moved(w', r, {}, {"fingerprint"})
      BY <1>1, <1>3, <3>1, <3>2, <3>4, QuestionBodies DEF Moved
    <3> QED
      BY <1>7, <3>3, <3>4
  <2>4. Turns(k) /\ ~IsAnswered(k) /\ k \notin Pending /\ ~IsShown(k) /\ ~IsSaved(k)
        /\ k \notin Coming /\ ~w.initializing
    BY <2>1 DEF TurnInv, Turns
  <2>5. /\ asked = k /\ Going \cap AnswerBodies = {} /\ Pending \cap Questions = {}
        /\ \A p \in Questions \ {k} :
              p \notin Coming /\ ~IsRead(p) /\ p \notin Pending /\ ~IsShown(p) /\ ~IsSaved(p)
              /\ ~IsAnswered(p)
    BY <2>1, <2>4, OneQuestion
  <2>6. Coming' = Coming
    BY <1>2, <2>3 DEF Coming, SameMind
  <2>7. /\ Going' = Going \/ Going' = Going \cup {"trust"}
        /\ InOrder(w.sent, TurnOrder)'
    <3>1. CASE w'.sent = w.sent
      BY <3>1 DEF Going, TurnInv
    <3>2. CASE w'.sent = Append(w.sent, "trust")
      BY <1>1, <2>5, <3>2, SomeSteps, BodySent DEF TurnInv
    <3> QED
      BY <2>3, <3>1, <3>2
  <2>8. /\ \/ Pending' = Pending
           \/ Pending' = Pending \cup {"wait"}
           \/ Pending' = Pending \cup {"fingerprint"} /\ Going' = Going
        /\ InOrder(w.steps, StepOrder)'
        /\ w'.steps = <<>> => w.steps = <<>>
    <3>1. CASE w'.steps = w.steps
      BY <3>1 DEF Pending, TurnInv
    <3>2. CASE w'.steps = Append(w.steps, "wait")
      BY <1>1, <2>5, <3>2, SomeSteps, StepPublished DEF TurnInv
    <3>3. CASE w'.steps = Append(w.steps, "fingerprint") /\ w'.sent = w.sent
      BY <1>1, <2>5, <3>3, SomeSteps, StepPublished DEF TurnInv, Going
    <3> QED
      BY <2>3, <3>1, <3>2, <3>3
  <2>9. ASSUME NEW q \in Questions
        PROVE  Turns(q)'
    <3>1. /\ IsShown(q)' => IsShown(q)
          /\ IsSaved(q)' => IsSaved(q)
          /\ ~IsRead(q)'
      BY <1>2, <2>3, <2>8 DEF IsShown, IsSaved, IsRead, Shown
    <3>2. ~w'.initializing
      BY <2>3, <2>4 DEF SameEnds
    <3>3. CASE q # k
      <4>1. ~IsAnswered(q)'
        BY <2>2, <2>5, <2>7, <3>3, QuestionBodies DEF IsAnswered
      <4>2. q \notin Pending'
        BY <2>2, <2>5, <2>8, <3>3, SomeSteps
      <4> QED
        BY <2>5, <2>6, <3>1, <3>3, <4>1, <4>2 DEF Turns
    <3>4. CASE q = k
      <4>1. q \in Pending' => ~IsAnswered(q)'
        BY <2>1, <2>4, <2>7, <2>8, <3>4, SomeSteps DEF IsAnswered
      <4> QED
        BY <1>2, <2>4, <2>5, <2>6, <3>1, <3>2, <3>4, <4>1 DEF Turns
    <3> QED
      BY <3>3, <3>4
  <2>10. ClosedShowsNothing'
    <3>1. \/ w'.steps = w.steps
          \/ \E s \in Steps : w'.steps = Append(w.steps, s) /\ (s \in Questions => Active(w))
      BY <2>3, SomeSteps
    <3> QED
      BY <1>1, <1>2, <2>3, <3>1, StaysClosed
  <2> QED
    BY <1>2, <2>7, <2>8, <2>9, <2>10 DEF TurnInv
<1>8. CASE w' = Lose(r)
  BY <1>1, <1>8, LoseFacts DEF Lost
<1> QED
  BY <1>1, <1>5, <1>6, <1>7, <1>8

\* The server writes or reads what is neither a question nor an answer.
LEMMA TurnWrites ==
  ASSUME BasicInv, TurnInv, UNCHANGED <<connectorVars, asked>>,
         w' = w \/ \E b \in Bodies \ AnswerBodies : Reads(b),
         \/ toClient' = toClient
         \/ \E f \in Frames : /\ MaySay(w.protocol, f) /\ Write(f)
                              /\ Said(w.protocol, f) \notin Questions,
         served' \in {"idle", "refused"} => asked = "nothing"
  PROVE  TurnInv'
<1>1. w \in Wizard /\ TypeInv
  BY DEF BasicInv, TypeInv
<1>2. /\ w' \in Wizard /\ w'.protocol = w.protocol /\ w'.reading = w.reading
      /\ w'.steps = w.steps /\ w'.initializing = w.initializing /\ w'.closed = w.closed
      /\ (Active(w') <=> Active(w))
      /\ Going' \cap AnswerBodies \subseteq Going /\ InOrder(w.sent, TurnOrder)'
  <2>1. CASE w' = w
    BY <1>1, <2>1 DEF Going, TurnInv
  <2>2. ASSUME NEW b \in Bodies \ AnswerBodies, Reads(b)
        PROVE  /\ w' \in Wizard /\ w'.protocol = w.protocol /\ w'.reading = w.reading
               /\ w'.steps = w.steps /\ w'.initializing = w.initializing
               /\ w'.closed = w.closed /\ (Active(w') <=> Active(w))
               /\ Going' \cap AnswerBodies \subseteq Going /\ InOrder(w.sent, TurnOrder)'
    <3>1. /\ w' \in Wizard /\ SameEnds(w', w) /\ SameTurn(w', w) /\ SameMind(w', w)
          /\ w'.steps = w.steps /\ w'.sent = Tail(w.sent) /\ (Active(w') <=> Active(w))
          /\ w.sent # <<>> /\ Going = {b} \cup Going'
      BY <2>2, ReadsFacts
    <3>2. InOrder(w.sent, TurnOrder)'
      BY <1>1, <3>1, BodyTaken DEF TurnInv
    <3> QED
      BY <3>1, <3>2 DEF SameEnds, SameTurn, SameMind
  <2> QED
    BY <2>1, <2>2
<1>3. Coming' \cap Questions \subseteq Coming
  <2>1. CASE toClient' = toClient
    BY <1>2, <2>1 DEF Coming
  <2>2. ASSUME NEW f \in Frames, MaySay(w.protocol, f), Write(f),
               Said(w.protocol, f) \notin Questions
        PROVE  Coming' \cap Questions \subseteq Coming
    BY <1>1, <1>2, <2>2, FrameWritten
  <2> QED
    BY <2>1, <2>2
<1>4. ClosedShowsNothing'
  BY <1>1, <1>2, StaysClosed DEF connectorVars
<1> QED
  BY <1>1, <1>2, <1>3, <1>4, TurnLessens DEF connectorVars, Shown

\* Nothing is asked yet, or everything is answered.
LEMMA NoQuestion ==
  ASSUME TurnInv, asked \notin Questions
  PROVE  /\ \A q \in Questions :
              q \notin Coming /\ ~IsRead(q) /\ q \notin Pending /\ ~IsShown(q) /\ ~IsSaved(q)
              /\ ~IsAnswered(q)
         /\ Going \cap AnswerBodies = {}
<1>1. \A q \in Questions :
        q \notin Coming /\ ~IsRead(q) /\ q \notin Pending /\ ~IsShown(q) /\ ~IsSaved(q)
        /\ ~IsAnswered(q)
  BY DEF TurnInv, Turns
<1> QED
  BY <1>1, QuestionBodies DEF IsAnswered

\* The server asks when no question is open.
LEMMA TurnAsk ==
  ASSUME BasicInv, TurnInv, NEW k \in Questions, Ask(k)
  PROVE  TurnInv'
<1>1. /\ w \in Wizard /\ TypeInv
      /\ w.protocol = "telnet" => k \notin Questions
  BY DEF BasicInv, TypeInv, NoLogin, Ask
<1>2. /\ w' = w /\ asked = "nothing" /\ asked' = k /\ served = "open" /\ served' = "open"
      /\ Says(k) /\ UNCHANGED <<loop, step, disabled, submitting, saving, emitted>>
  BY DEF Ask, connectorVars
<1>3. asked \notin Questions /\ k \in StreamKinds
  BY <1>2 DEF Questions, StreamKinds
<1>4. PICK f \in Frames : MaySay(w.protocol, f) /\ Write(f) /\ Said(w.protocol, f) = k
  BY <1>1, <1>2, <1>3, SaysFrame
<1>5. Coming' = Coming \cup {k} /\ Going' = Going /\ Pending' = Pending
  BY <1>1, <1>2, <1>4, FrameWritten DEF Going, Pending
<1>6. ASSUME NEW q \in Questions
      PROVE  Turns(q)'
  <2>1. /\ q \notin Coming /\ ~IsRead(q) /\ q \notin Pending /\ ~IsShown(q) /\ ~IsSaved(q)
        /\ ~IsAnswered(q)
    BY <1>3, NoQuestion
  <2>2. ~IsRead(q)' /\ ~IsShown(q)' /\ ~IsSaved(q)' /\ ~IsAnswered(q)'
    BY <1>2, <1>5, <2>1 DEF IsRead, IsShown, IsSaved, IsAnswered, Shown
  <2> QED
    BY <1>2, <1>5, <2>1, <2>2 DEF Turns
<1> QED
  BY <1>2, <1>6 DEF TurnInv, ClosedShowsNothing

\* The answer is read: the question is no longer asked.
LEMMA TurnReadAnswer ==
  ASSUME BasicInv, TurnInv, ReadAnswer
  PROVE  TurnInv'
<1>1. PICK b \in AnswerBodies : Reads(b)
  BY DEF ReadAnswer, AnswerBodies
<1>2. /\ w \in Wizard /\ w' \in Wizard /\ SameEnds(w', w) /\ SameTurn(w', w) /\ SameMind(w', w)
      /\ w'.steps = w.steps /\ w'.sent = Tail(w.sent) /\ (Active(w') <=> Active(w))
      /\ w.sent # <<>> /\ Incoming = b /\ Going = {b} \cup Going'
  BY <1>1, ReadsFacts
<1>3. PICK k \in Questions : b \in Answers(k)
  BY QuestionBodies
<1>4. IsAnswered(k)
  BY <1>2, <1>3 DEF IsAnswered
<1>5. /\ k \notin Coming /\ ~IsRead(k) /\ k \notin Pending /\ ~IsShown(k) /\ ~IsSaved(k)
      /\ served \notin {"idle", "refused"}
      /\ \A p \in Questions \ {k} :
              p \notin Coming /\ ~IsRead(p) /\ p \notin Pending /\ ~IsShown(p) /\ ~IsSaved(p)
  BY <1>4, OneQuestion DEF TurnInv, Turns
<1>6. Going' \cap AnswerBodies = {} /\ InOrder(w.sent, TurnOrder)'
  BY <1>2, BodyTaken DEF TurnInv
<1>7. /\ UNCHANGED <<loop, step, disabled, submitting, saving, emitted, served, toClient>>
  BY DEF ReadAnswer, connectorVars
<1>8. Coming' = Coming /\ Pending' = Pending
  BY <1>2, <1>7 DEF Coming, Pending, SameMind
<1>9. ASSUME NEW q \in Questions
      PROVE  Turns(q)'
  <2>1. ~IsAnswered(q)'
    BY <1>6, QuestionBodies DEF IsAnswered
  <2>2. q \notin Coming /\ ~IsRead(q) /\ q \notin Pending /\ ~IsShown(q) /\ ~IsSaved(q)
    BY <1>5
  <2>3. ~IsRead(q)' /\ ~IsShown(q)' /\ ~IsSaved(q)'
    BY <1>2, <1>7, <2>2 DEF IsRead, IsShown, IsSaved, Shown, SameTurn
  <2> QED
    BY <1>8, <2>1, <2>2, <2>3 DEF Turns
<1>10. ClosedShowsNothing'
  BY <1>2, <1>7, StaysClosed DEF SameTurn
<1> QED
  BY <1>2, <1>5, <1>6, <1>7, <1>9, <1>10 DEF TurnInv

\* Whatever the server does: it asks, it reads the answer, or the turn does not change.
LEMMA TurnServer ==
  ASSUME BasicInv, LinkInv, TurnInv, ServerStep \/ Report \/ End \/ Stall
  PROVE  TurnInv'
<1>1. /\ w \in Wizard
      /\ {"hook", "failed", "connected", "output"} \subseteq StreamKinds \ Questions
      /\ {"answer", "close", "completed"} \cap Questions = {}
  BY DEF BasicInv, TypeInv, StreamKinds, Questions
<1>2. ASSUME NEW k \in StreamKinds \ Questions, Says(k)
      PROVE  \E f \in Frames : /\ MaySay(w.protocol, f) /\ Write(f)
                               /\ Said(w.protocol, f) \notin Questions
  BY <1>1, <1>2, SaysFrame
<1>3. ASSUME NEW type \in {"answer", "close", "completed"}, NEW value \in Nat,
             Write([type |-> type, value |-> value]),
             type = "answer" => value = 0 \/ value \in DOMAIN Codes(w.protocol)
      PROVE  \E f \in Frames : /\ MaySay(w.protocol, f) /\ Write(f)
                               /\ Said(w.protocol, f) \notin Questions
  <2> DEFINE f == [type |-> type, value |-> value]
  <2>1. f \in Frames /\ MaySay(w.protocol, f) /\ Said(w.protocol, f) = type
    BY <1>3 DEF Frames, MaySay, Said
  <2>2. Write(f)
    BY <1>3
  <2> HIDE DEF f
  <2> QED
    BY <1>1, <2>1, <2>2
<1>4. CASE Hook \/ Connect \/ Output \/ Report
  <2>1. /\ UNCHANGED <<connectorVars, asked>> /\ w' = w
        /\ served' \notin {"idle", "refused"}
        /\ \E k \in StreamKinds \ Questions : Says(k)
    BY <1>1, <1>4 DEF Hook, Connect, Output, Report
  <2> QED
    BY <1>2, <2>1, TurnWrites
<1>5. CASE End
  <2>1. /\ UNCHANGED <<connectorVars, asked>> /\ w' = w /\ served' = "closed"
        /\ Write([type |-> "close", value |-> 0])
    BY <1>5 DEF End
  <2>2. \E f \in Frames : /\ MaySay(w.protocol, f) /\ Write(f)
                          /\ Said(w.protocol, f) \notin Questions
    BY <1>3, <2>1
  <2> QED
    BY <2>1, <2>2, TurnWrites
<1>6. CASE Stall
  <2>1. UNCHANGED <<connectorVars, asked>> /\ w' = w /\ toClient' = toClient /\ served' = served
    BY <1>6 DEF Stall
  <2>2. served' \in {"idle", "refused"} => asked = "nothing"
    BY <2>1 DEF TurnInv
  <2> QED
    BY <2>1, <2>2, TurnWrites
<1>7. CASE ReadClose
  <2>1. /\ UNCHANGED <<connectorVars, asked>> /\ Reads("close") /\ served' = served
        /\ Write([type |-> "completed", value |-> 0])
    BY <1>7 DEF ReadClose
  <2>2. \E f \in Frames : /\ MaySay(w.protocol, f) /\ Write(f)
                          /\ Said(w.protocol, f) \notin Questions
    BY <1>3, <2>1
  <2>3. served' \in {"idle", "refused"} => asked = "nothing"
    BY <2>1 DEF TurnInv
  <2> QED
    BY <2>1, <2>2, <2>3, SomeSteps, TurnWrites
<1>8. CASE ReadCompleted
  <2>1. /\ UNCHANGED <<connectorVars, asked>> /\ Reads("completed") /\ served' = served
        /\ toClient' = toClient
    BY <1>8 DEF ReadCompleted, serverVars
  <2>2. served' \in {"idle", "refused"} => asked = "nothing"
    BY <2>1 DEF TurnInv
  <2> QED
    BY <2>1, <2>2, SomeSteps, TurnWrites
<1>9. CASE BootUp
  <2>1. /\ UNCHANGED <<connectorVars, asked>> /\ Reads("request")
        /\ \/ Write([type |-> "answer", value |-> 0])
           \/ \E r \in Refusals : Write([type |-> "answer", value |-> r[2]])
    BY <1>9 DEF BootUp
  <2>2. asked = "nothing"
    <3>1. "request" \in Going
      BY <2>1, ReadsFacts
    <3> QED
      BY <3>1 DEF LinkInv, BrowserInv, TurnInv
  <2>3. \E f \in Frames : /\ MaySay(w.protocol, f) /\ Write(f)
                          /\ Said(w.protocol, f) \notin Questions
    <3>1. CASE Write([type |-> "answer", value |-> 0])
      BY <1>3, <3>1
    <3>2. ASSUME NEW r \in Refusals, Write([type |-> "answer", value |-> r[2]])
          PROVE  \E f \in Frames : /\ MaySay(w.protocol, f) /\ Write(f)
                                   /\ Said(w.protocol, f) \notin Questions
      <4>1. r[2] \in Nat /\ r[2] \in DOMAIN Codes(w.protocol)
        BY <1>1, RefusalsAreMeant
      <4> QED
        BY <1>3, <3>2, <4>1
    <3> QED
      BY <2>1, <3>1, <3>2
  <2> QED
    BY <2>1, <2>2, <2>3, SomeSteps, TurnWrites
<1> QED
  BY <1>4, <1>5, <1>6, <1>7, <1>8, <1>9, TurnAsk, TurnReadAnswer DEF ServerStep

\* A request that is given up holds no question.
LEMMA TurnTimeOut ==
  ASSUME BasicInv, TurnInv, TimeOut
  PROVE  TurnInv'
<1>1. /\ w \in Wizard /\ w' = Fail(w) /\ UNCHANGED <<connectorVars, served, asked, toClient>>
  BY DEF BasicInv, TypeInv, TimeOut, serverVars
<1>2. UNCHANGED <<loop, step, disabled, submitting, saving, emitted, served, asked>>
  BY <1>1 DEF connectorVars
<1>3. CASE Active(w)
  <2>1. GivenUp(w', w) /\ w'.closed = w.closed
    BY <1>1, <1>3, FailGivesUp
  <2>2. /\ w' \in Wizard /\ SameMind(w', w) /\ w'.reading = w.reading
        /\ w'.initializing = w.initializing /\ ~Active(w')
        /\ w'.steps = Append(w.steps, "failure")
        /\ w'.sent = w.sent \/ w'.sent = Append(w.sent, "close")
    BY <2>1 DEF GivenUp, Closed
  <2>3. /\ \E s \in Steps \ Questions : w'.steps = Append(w.steps, s)
        /\ w'.sent = w.sent \/ \E b \in Bodies \ AnswerBodies : w'.sent = Append(w.sent, b)
    BY <2>2, SomeSteps
  <2>4. Going' \cap AnswerBodies \subseteq Going /\ InOrder(w.sent, TurnOrder)'
    BY <1>1, <2>3, NoAnswerSent
  <2>5. ClosedShowsNothing'
    BY <1>1, <1>2, <2>1, <2>2, <2>3, StaysClosed
  <2>6. Coming' = Coming
    BY <1>1, <2>2 DEF Coming, SameMind
  <2> QED
    BY <1>1, <1>2, <2>2, <2>3, <2>4, <2>5, <2>6, TurnLessens DEF TurnInv, Shown
<1>4. CASE ~Active(w)
  <2>1. w' = w
    BY <1>1, <1>4, FailFacts
  <2>2. Going' \cap AnswerBodies \subseteq Going /\ InOrder(w.sent, TurnOrder)'
        /\ ClosedShowsNothing' /\ Coming' = Coming
    BY <1>1, <1>2, <2>1 DEF Going, Coming, TurnInv, ClosedShowsNothing
  <2> QED
    BY <1>1, <1>2, <2>1, <2>2, TurnLessens DEF TurnInv, Shown
<1> QED
  BY <1>3, <1>4

\* A step is shown: a question comes to its prompt, and the loop goes on with it.
LEMMA TurnLoop ==
  ASSUME BasicInv, TurnInv, w.up, LoopStep
  PROVE  TurnInv'
<1>1. /\ w \in Wizard /\ UNCHANGED <<served, asked, toClient>>
      /\ loop \in {"running", "ended", "thrown"}
  BY DEF BasicInv, TypeInv, LoopStep, serverVars, ConnectorTypeOK
<1>2. CASE ShowStep
  <2> DEFINE h == Head(w.steps)
  <2>1. /\ w' \in Wizard /\ SameEnds(w', w) /\ w'.sent = w.sent /\ SameRequest(w', w)
        /\ SameHistory(w', w) /\ w'.reading = w.reading
        /\ w'.steps = Tail(w.steps)
        /\ w'.closed = (w.closed \/ h \in Terminals)
    BY <1>1, <1>2, TakeStepFacts DEF ShowStep
  <2>2. /\ Pending = {h} \cup Pending' /\ h \in Steps
        /\ InOrder(w.steps, StepOrder)'
        /\ h \in Questions => Pending' \cap Questions = {}
    BY <1>1, <1>2, <2>1, StepShown DEF TurnInv, ShowStep
  <2>3. Coming' = Coming /\ Going' = Going
    BY <1>1, <2>1 DEF Coming, Going, SameHistory
  <2>4. /\ loop = "running" /\ w.steps # <<>> /\ step' = h /\ saving' = saving
        /\ h \notin Terminals => disabled' = disabled
        /\ h \notin Terminals /\ ~w.closed => loop' = "running"
        /\ loop' = "running" => h \notin Terminals /\ ~w.closed
        /\ emitted' # emitted => h = "success"
    <3>1. loop' = CASE h \in Terminals -> "ended"
                    [] h \notin Terminals /\ w.closed -> "thrown"
                    [] OTHER -> "running"
      BY <1>2, Zenon DEF ShowStep
    <3>2. /\ h \in Terminals => loop' = "ended"
          /\ h \notin Terminals /\ w.closed => loop' = "thrown"
          /\ h \notin Terminals /\ ~w.closed => loop' = "running"
      BY <3>1
    <3> QED
      BY <1>2, <3>2 DEF ShowStep, BasicInv, TypeInv, ConnectorTypeOK
  <2>5. h \in Questions => ~w.closed /\ h \notin Terminals
    BY <2>4, SomeSteps DEF TurnInv, ClosedShowsNothing
  <2> HIDE DEF h
  <2>6. ASSUME NEW q \in Questions
        PROVE  Turns(q)'
    <3>1. /\ IsRead(q)' <=> IsRead(q)
          /\ IsSaved(q)' <=> IsSaved(q)
          /\ IsAnswered(q)' <=> IsAnswered(q)
          /\ q \in Coming' <=> q \in Coming
          /\ q \in Pending' => q \in Pending
          /\ w'.initializing = w.initializing
      BY <2>1, <2>2, <2>3, <2>4 DEF IsRead, IsSaved, IsAnswered, SameEnds
    <3>2. IsShown(q)' => q = h /\ q \in Pending /\ q \notin Pending'
      BY <2>2, <2>4 DEF IsShown
    <3>3. Turns(q)
      BY DEF TurnInv
    <3> QED
      BY <1>1, <3>1, <3>2, <3>3 DEF Turns
  <2>7. step' \in Questions /\ ~disabled' => loop' = "running"
    BY <2>4, <2>5
  <2>8. ClosedShowsNothing'
    BY <2>1, <2>4 DEF ClosedShowsNothing, BasicInv, TypeInv, Wizard
  <2>9. InOrder(w.sent, TurnOrder)'
    BY <2>1 DEF TurnInv
  <2> QED
    BY <1>1, <2>2, <2>6, <2>7, <2>8, <2>9 DEF TurnInv
<1>3. CASE SendCancel
  <2>1. /\ w' = w /\ emitted' # "nothing"
        /\ UNCHANGED <<loop, step, disabled, submitting, saving>>
    BY <1>3 DEF SendCancel
  <2>2. Going' \cap AnswerBodies \subseteq Going /\ InOrder(w.sent, TurnOrder)'
        /\ ClosedShowsNothing' /\ Coming' = Coming
    BY <1>1, <2>1 DEF Going, Coming, TurnInv, ClosedShowsNothing
  <2> QED
    BY <1>1, <2>1, <2>2, TurnLessens DEF TurnInv, Shown
<1>4. CASE Dismiss
  BY <1>4 DEF Dismiss
<1> QED
  BY <1>2, <1>3, <1>4 DEF LoopStep

\* What the user does that is no answer and shows nothing else.
LEMMA TurnPasses ==
  ASSUME TurnInv, w \in Wizard, UNCHANGED serverVars, w' = w,
         UNCHANGED <<loop, step, disabled, saving>>,
         submitting => submitting', Shown' => Shown
  PROVE  TurnInv'
<1>1. Going' \cap AnswerBodies \subseteq Going /\ InOrder(w.sent, TurnOrder)'
      /\ ClosedShowsNothing' /\ Coming' = Coming
  BY DEF Going, Coming, TurnInv, ClosedShowsNothing, serverVars
<1> QED
  BY <1>1, TurnLessens DEF TurnInv, serverVars

\* The request is started: nothing has been asked.
LEMMA TurnSubmits ==
  ASSUME BasicInv, TurnInv, Submit, w' \in Wizard, StartedFrom(w', w), ~w.started,
         UNCHANGED serverVars
  PROVE  TurnInv'
<1>1. /\ w \in Wizard /\ served = "idle" /\ asked = "nothing" /\ w.sent = <<>>
      /\ UNCHANGED <<served, asked, toClient>>
      /\ UNCHANGED <<loop, step, disabled, saving, emitted>> /\ step = "form"
  BY DEF BasicInv, TypeInv, FormFirst, Once, TurnInv, serverVars, Submit
<1>2. asked \notin Questions
  BY <1>1 DEF Questions
<1>3. /\ SameTurn(w', w) /\ SameHistory(w', w)
      /\ \E s \in {"wait", "failure"} : w'.steps = Append(w.steps, s)
      /\ w'.sent = w.sent \/ w'.sent = Append(w.sent, "request")
  BY DEF StartedFrom
<1>4. w.steps = <<>>
  BY <1>1 DEF BasicInv, FormFirst
<1>5. PICK s \in {"wait", "failure"} : w'.steps = Append(w.steps, s)
  BY <1>3
<1>6. /\ Pending' = Pending \cup {s} /\ InOrder(w.steps, StepOrder)' /\ w'.steps # <<>>
      /\ s \notin Questions /\ Head(w'.steps) = s
  BY <1>1, <1>4, <1>5, SomeSteps, StepPublished DEF TurnInv
<1>7. Going' \cap AnswerBodies \subseteq Going /\ InOrder(w.sent, TurnOrder)'
  <2>1. w'.sent = w.sent \/ \E b \in Bodies \ AnswerBodies : w'.sent = Append(w.sent, b)
    BY <1>3, SomeSteps
  <2> QED
    BY <1>1, <2>1, NoAnswerSent
<1>8. Coming' = Coming
  BY <1>1, <1>3 DEF Coming, SameHistory
<1>9. ASSUME NEW q \in Questions
      PROVE  Turns(q)'
  <2>1. /\ q \notin Coming /\ ~IsRead(q) /\ q \notin Pending /\ ~IsShown(q) /\ ~IsSaved(q)
        /\ ~IsAnswered(q) /\ Going \cap AnswerBodies = {}
    BY <1>2, NoQuestion
  <2>2. q \notin Coming' /\ ~IsRead(q)' /\ q \notin Pending' /\ ~IsSaved(q)'
    BY <1>1, <1>3, <1>6, <1>8, <2>1 DEF IsRead, IsSaved, SameTurn
  <2>3. ~IsShown(q)' /\ ~IsAnswered(q)'
    BY <1>1, <1>7, <2>1, QuestionBodies DEF IsShown, IsAnswered
  <2> QED
    BY <2>2, <2>3 DEF Turns
<1>10. ClosedShowsNothing'
  BY <1>6 DEF ClosedShowsNothing
<1> QED
  BY <1>1, <1>6, <1>7, <1>9, <1>10, QuestionBodies DEF TurnInv

\* The user answers the question that is shown, or was shown when it was saved.
LEMMA TurnAnswered ==
  ASSUME TurnInv, w \in Wizard, NEW k \in Questions, NEW b \in Answers(k),
         IsShown(k) \/ IsSaved(k), Moved(w', w, {b}, {"wait"}),
         UNCHANGED <<loop, step, disabled>>, UNCHANGED serverVars,
         \A q \in Questions : ~IsShown(q)' /\ ~IsSaved(q)'
  PROVE  TurnInv'
<1>1. /\ k \notin Coming /\ ~IsRead(k) /\ k \notin Pending /\ ~IsAnswered(k)
      /\ ~w.initializing /\ asked = k
      /\ UNCHANGED <<served, asked, toClient>>
  BY DEF TurnInv, Turns, serverVars
<1>2. /\ Going \cap AnswerBodies = {} /\ Pending \cap Questions = {}
      /\ \A p \in Questions \ {k} : p \notin Coming /\ ~IsRead(p) /\ ~IsAnswered(p)
  BY <1>1, OneQuestion
<1>3. /\ SameEnds(w', w) /\ SameTurn(w', w) /\ SameMind(w', w) /\ (Active(w') <=> Active(w))
      /\ w'.sent = w.sent \/ w'.sent = Append(w.sent, b)
      /\ w'.steps = w.steps \/ w'.steps = Append(w.steps, "wait")
  BY DEF Moved, Active
<1>4. b \in Bodies /\ b \in AnswerBodies
  BY QuestionBodies, SomeSteps
<1>5. Going' \subseteq Going \cup {b} /\ InOrder(w.sent, TurnOrder)'
  <2>1. CASE w'.sent = w.sent
    BY <2>1 DEF Going, TurnInv
  <2>2. CASE w'.sent = Append(w.sent, b)
    BY <1>2, <1>4, <2>2, BodySent DEF TurnInv
  <2> QED
    BY <1>3, <2>1, <2>2
<1>6. Pending' \cap Questions = {} /\ InOrder(w.steps, StepOrder)'
  <2>1. CASE w'.steps = w.steps
    BY <1>2, <2>1 DEF Pending, TurnInv
  <2>2. CASE w'.steps = Append(w.steps, "wait")
    BY <1>2, <2>2, SomeSteps, StepPublished DEF TurnInv
  <2> QED
    BY <1>3, <2>1, <2>2
<1>7. Coming' = Coming
  BY <1>1, <1>3 DEF Coming, SameMind
<1>8. ASSUME NEW q \in Questions
      PROVE  Turns(q)'
  <2>1. q \notin Coming' /\ ~IsRead(q)' /\ q \notin Pending' /\ ~IsShown(q)' /\ ~IsSaved(q)'
    BY <1>1, <1>2, <1>3, <1>6, <1>7 DEF IsRead, SameTurn
  <2>2. IsAnswered(q)' => q = k
    BY <1>2, <1>5, QuestionBodies DEF IsAnswered
  <2> QED
    BY <1>1, <2>1, <2>2 DEF Turns
<1>9. ClosedShowsNothing'
  <2>1. \/ w'.steps = w.steps
        \/ \E s \in Steps : w'.steps = Append(w.steps, s) /\ (s \in Questions => Active(w))
    BY <1>3, SomeSteps
  <2> QED
    BY <1>3, <2>1, StaysClosed DEF SameTurn
<1> QED
  BY <1>1, <1>5, <1>6, <1>8, <1>9 DEF TurnInv

\* What the buttons of the prompts publish.
LEMMA ButtonsAnswer ==
  ASSUME w \in Wizard, w.protocol # "telnet"
  PROVE  /\ Moved(Accept, w, {"trust"}, {"wait"}) /\ Accept.steps = Append(w.steps, "wait")
         /\ Moved(Reject, w, {"refuse"}, {"wait"})
         /\ Moved(Login, w, {"credential"}, {"wait"})
<1>1. /\ Moved(Accept, w, {"trust"}, {"wait"}) /\ Moved(Reject, w, {"refuse"}, {"wait"})
      /\ Moved(Login, w, {"credential"}, {"wait"})
      /\ Accept = Push(Put([w EXCEPT !.known = "same"], "trust"), "wait")
  BY AnswersSend, MovedAnswer, SomeSteps
<1> DEFINE k == [w EXCEPT !.known = "same"]
           p == Put(k, "trust")
<1>2. k \in Wizard /\ k.steps = w.steps
  BY DEF Wizard
<1> HIDE DEF k
<1>3. p \in Wizard /\ p.steps = k.steps
  BY <1>2, SomeSteps, PutFacts DEF SameSteps
<1>4. Accept = Push(p, "wait")
  BY <1>1 DEF p, k
<1> HIDE DEF p
<1>5. Accept.steps = Append(p.steps, "wait")
  <2>1. "wait" \in Steps
    BY SomeSteps
  <2> QED
    BY <1>3, <1>4, <2>1, PushFacts
<1> QED
  BY <1>1, <1>2, <1>3, <1>5

\* The wizard is closed while a prompt is shown or nothing is.
LEMMA TurnCloses ==
  ASSUME BasicInv, TurnInv, Idle, w' = CloseWizard(w), UNCHANGED serverVars,
         UNCHANGED <<loop, step, disabled, submitting, saving>>, Shown' => Shown
  PROVE  TurnInv'
<1>1. /\ w \in Wizard /\ UNCHANGED <<served, asked, toClient>>
      /\ loop = "running" => w.steps = <<>>
  BY DEF BasicInv, TypeInv, serverVars, Idle
<1>2. CASE w.closed \/ ~Active(w)
  <2>1. /\ SameEnds(w', w) /\ w'.sent = w.sent /\ w'.steps = w.steps /\ SameMind(w', w)
        /\ w'.request = w.request /\ w'.failed = w.failed /\ w'.reading = w.reading
        /\ w' \in Wizard
    BY <1>1, <1>2, CloseGivesUp
  <2>2. Going' \cap AnswerBodies \subseteq Going /\ InOrder(w.sent, TurnOrder)'
        /\ Coming' = Coming
    BY <1>1, <2>1 DEF Going, Coming, TurnInv, SameMind
  <2>3. ClosedShowsNothing'
    BY <1>1, <1>2, <2>1 DEF TurnInv, ClosedShowsNothing, Active
  <2>4. w'.initializing = w.initializing
    BY <2>1 DEF SameEnds
  <2> QED
    BY <1>1, <2>1, <2>2, <2>3, <2>4, TurnLessens DEF TurnInv
<1>3. CASE ~w.closed /\ Active(w)
  <2>1. GivenUp(w', w)
    BY <1>1, <1>3, CloseGivesUp
  <2>2. /\ w' \in Wizard /\ SameMind(w', w) /\ w'.reading = w.reading
        /\ w'.initializing = w.initializing /\ ~Active(w')
        /\ w'.steps = Append(w.steps, "failure")
        /\ w'.sent = w.sent \/ w'.sent = Append(w.sent, "close")
    BY <2>1 DEF GivenUp, Closed
  <2>3. /\ \E s \in Steps \ Questions : w'.steps = Append(w.steps, s)
        /\ w'.sent = w.sent \/ \E b \in Bodies \ AnswerBodies : w'.sent = Append(w.sent, b)
    BY <2>2, SomeSteps
  <2>4. Going' \cap AnswerBodies \subseteq Going /\ InOrder(w.sent, TurnOrder)'
    BY <1>1, <2>3, NoAnswerSent
  <2>5. ClosedShowsNothing'
    BY <1>1, <2>2, SomeSteps, StepPublished DEF ClosedShowsNothing
  <2>6. Coming' = Coming
    BY <1>1, <2>2 DEF Coming, SameMind
  <2> QED
    BY <1>1, <2>2, <2>3, <2>4, <2>5, <2>6, TurnLessens DEF TurnInv
<1> QED
  BY <1>2, <1>3

\* The login that is given up closes the stream, and answers nothing.
LEMMA TurnCancelsLogin ==
  ASSUME BasicInv, TurnInv, w' = Push(CloseSender(w), "wait"), UNCHANGED serverVars,
         UNCHANGED <<loop, step, disabled, saving, emitted>>, submitting'
  PROVE  TurnInv'
<1> DEFINE c == CloseSender(w)
<1>1. w \in Wizard /\ UNCHANGED <<served, asked, toClient>>
  BY DEF BasicInv, TypeInv, serverVars
<1>2. /\ c \in Wizard
      /\ c.sent = w.sent \/ c.sent = Append(w.sent, "close")
      /\ c.initializing = w.initializing
      /\ SameTurn(c, w) /\ SameRequest(c, w) /\ SameHistory(c, w) /\ SameSteps(c, w)
  BY <1>1, CloseSenderFacts
<1>3. w' = Push(c, "wait") /\ "wait" \in Steps
  BY SomeSteps
<1> HIDE DEF c
<1>4. /\ w' \in Wizard /\ SameEnds(w', c) /\ SameRequest(w', c) /\ SameHistory(w', c)
      /\ SameTurn(w', c) /\ w'.sent = c.sent /\ w'.steps = Append(c.steps, "wait")
  BY <1>2, <1>3, PushFacts
<1>5. /\ w'.closed = w.closed /\ w'.reading = w.reading /\ w'.protocol = w.protocol
      /\ (Active(w') <=> Active(w)) /\ w'.initializing = w.initializing
      /\ w'.steps = Append(w.steps, "wait")
      /\ w'.sent = w.sent \/ w'.sent = Append(w.sent, "close")
  BY <1>2, <1>4 DEF SameTurn, SameHistory, SameRequest, SameEnds, SameSteps, Active
<1>6. /\ \E s \in Steps \ Questions : w'.steps = Append(w.steps, s)
      /\ w'.sent = w.sent \/ \E b \in Bodies \ AnswerBodies : w'.sent = Append(w.sent, b)
  BY <1>5, SomeSteps
<1>7. Going' \cap AnswerBodies \subseteq Going /\ InOrder(w.sent, TurnOrder)'
  BY <1>1, <1>6, NoAnswerSent
<1>8. ClosedShowsNothing'
  BY <1>1, <1>5, <1>6, StaysClosed
<1>9. Coming' = Coming
  BY <1>1, <1>5 DEF Coming
<1> QED
  BY <1>1, <1>4, <1>5, <1>6, <1>7, <1>8, <1>9, TurnLessens DEF TurnInv, Shown

\* The fingerprint is saved first.
LEMMA TurnSaves ==
  ASSUME BasicInv, TurnInv, Save \/ SaveReturns, UNCHANGED serverVars
  PROVE  TurnInv'
<1> DEFINE k == "fingerprint"
<1>1. /\ w \in Wizard /\ UNCHANGED <<served, asked, toClient>>
      /\ UNCHANGED <<loop, step, disabled, emitted>>
  BY DEF BasicInv, TypeInv, serverVars, Save, SaveReturns
<1>2. k \in Questions /\ k = "fingerprint"
  BY QuestionBodies
<1> HIDE DEF k
<1>3. CASE w' = w
  <2>1. IsShown(k) \/ IsSaved(k)
    BY <1>2 DEF Save, SaveReturns, MaySubmit, Idle, IsShown, IsSaved
  <2>2. asked = k /\ ~IsAnswered(k) /\ k \notin Coming /\ ~IsRead(k) /\ k \notin Pending
    BY <1>2, <2>1 DEF TurnInv, Turns
  <2>3. Coming' = Coming /\ Pending' = Pending /\ Going' = Going
    BY <1>1, <1>3 DEF Coming, Pending, Going
  <2>4. \/ saving' /\ submitting'
        \/ ~saving' /\ (submitting' <=> submitting /\ (step # "fingerprint" \/ disabled))
    BY DEF Save, SaveReturns
  <2>5. ASSUME NEW q \in Questions
        PROVE  Turns(q)'
    <3>1. /\ IsAnswered(q)' <=> IsAnswered(q)
          /\ IsRead(q)' <=> IsRead(q)
      BY <1>3, <2>3 DEF IsAnswered, IsRead
    <3>2. Turns(q) /\ Turns(k)
      BY <1>2 DEF TurnInv
    <3>3. IsSaved(q)' => q = k /\ ~IsShown(q)'
      BY <1>2, <2>4 DEF IsSaved, IsShown
    <3>4. IsShown(q)' => q = k
      <4> SUFFICES ASSUME IsShown(q)', q # k
                   PROVE  FALSE
        OBVIOUS
      <4>1. IsShown(q)
        BY <1>1, <1>2, <1>3, <2>4 DEF IsShown, Shown
      <4> QED
        BY <2>2, <3>2, <4>1 DEF Turns
    <3> QED
      BY <1>1, <1>3, <2>1, <2>2, <2>3, <3>1, <3>2, <3>3, <3>4 DEF Turns
  <2> QED
    BY <1>1, <1>3, <2>3, <2>5 DEF TurnInv, ClosedShowsNothing
<1>4. CASE SaveReturns /\ w' = Accept
  <2>1. saving /\ ~saving' /\ w.protocol # "telnet"
    BY <1>4 DEF SaveReturns, BasicInv, NoLogin
  <2>2. IsSaved(k) /\ "trust" \in Answers(k)
    BY <1>2, <2>1, QuestionBodies DEF IsSaved
  <2>3. Moved(w', w, {"trust"}, {"wait"}) /\ w'.steps = Append(w.steps, "wait")
    BY <1>1, <1>4, <2>1, ButtonsAnswer
  <2>4. w'.steps # <<>>
    BY <1>1, <2>3, SomeSteps, StepPublished
  <2>5. ASSUME NEW q \in Questions
        PROVE  ~IsShown(q)' /\ ~IsSaved(q)'
    BY <1>1, <2>1, <2>4 DEF IsShown, IsSaved, TurnInv
  <2> QED
    BY <1>1, <1>2, <2>2, <2>3, <2>5, TurnAnswered
<1> QED
  BY <1>3, <1>4 DEF Save, SaveReturns

\* Whatever the user does: an answer is sent for the question that is shown.
LEMMA TurnUser ==
  ASSUME BasicInv, TurnInv, UserActs
  PROVE  TurnInv'
<1>1. w \in Wizard /\ UNCHANGED serverVars
  BY DEF BasicInv, TypeInv, UserActs
<1>2. step \in Questions => w.protocol # "telnet"
  BY DEF BasicInv, NoLogin
<1>3. CASE Submit
  <2>1. ~w.started
    BY <1>3 DEF BasicInv, FormFirst, Submit, MaySubmit
  <2>2. PICK available \in BOOLEAN, b \in BOOLEAN, c \in BOOLEAN :
          w' = Start(w, available, b, c)
    BY <1>1, <1>3, SubmitStarts DEF Submit
  <2>3. w' \in Wizard /\ StartedFrom(w', w)
    BY <1>1, <2>2, StartFacts
  <2> QED
    BY <1>1, <1>3, <2>1, <2>3, TurnSubmits
<1>4. ASSUME NEW k \in Questions, NEW b \in Answers(k), MaySubmit, step = k,
             UNCHANGED <<loop, step, disabled, saving, emitted>>,
             submitting', Moved(w', w, {b}, {"wait"})
      PROVE  TurnInv'
  <2>1. IsShown(k)
    BY <1>4 DEF MaySubmit, Idle, IsShown
  <2>2. ~saving
    <3>1. saving => IsSaved("fingerprint") /\ "fingerprint" \in Questions
      BY QuestionBodies DEF IsSaved
    <3>2. k # "fingerprint" => ~IsSaved("fingerprint")
      BY <2>1, QuestionBodies, OneQuestion
    <3> QED
      BY <2>1, <3>1, <3>2 DEF TurnInv, Turns
  <2>3. ASSUME NEW q \in Questions
        PROVE  ~IsShown(q)' /\ ~IsSaved(q)'
    BY <1>4, <2>2 DEF IsShown, IsSaved
  <2> QED
    BY <1>1, <1>4, <2>1, <2>3, TurnAnswered
<1>5. /\ "trust" \in Answers("fingerprint") /\ "refuse" \in Answers("fingerprint")
      /\ "credential" \in Answers("credential")
      /\ "fingerprint" \in Questions /\ "credential" \in Questions
  BY QuestionBodies
<1>6. ASSUME w' = w, UNCHANGED <<loop, step, disabled, saving, emitted>>,
             submitting => submitting'
      PROVE  TurnInv'
  BY <1>1, <1>6, TurnPasses DEF Shown
<1>7. CASE Continue
  <2>1. CASE w' = w /\ submitting' = submitting
    BY <1>6, <1>7, <2>1 DEF Continue, Answer
  <2>2. CASE w' = Accept /\ submitting' = TRUE
    BY <1>1, <1>2, <1>4, <1>5, <1>7, <2>2, ButtonsAnswer DEF Continue, Answer
  <2> QED
    BY <1>7, <2>1, <2>2 DEF Continue, Answer
<1>8. CASE GiveCredential
  <2>1. Answer("credential", Login)
    BY <1>8 DEF GiveCredential
  <2>2. CASE w' = w /\ submitting' = submitting
    BY <1>6, <2>1, <2>2 DEF Answer
  <2>3. CASE w' = Login /\ submitting' = TRUE
    BY <1>1, <1>2, <1>4, <1>5, <2>1, <2>3, ButtonsAnswer DEF Answer
  <2> QED
    BY <2>1, <2>2, <2>3 DEF Answer
<1>9. CASE Save \/ SaveReturns
  BY <1>1, <1>9, TurnSaves
<1>10. CASE SaveAsPreset
  BY <1>1, <1>10, TurnCloses DEF SaveAsPreset, MaySubmit, Idle, Shown
<1>11. CASE Cancel
  <2>1. CASE w' = CloseWizard(w)
    BY <1>1, <1>11, <2>1, TurnCloses DEF Cancel, Idle, Shown
  <2>2. CASE w' = w
    BY <1>6, <1>11, <2>2 DEF Cancel
  <2> QED
    BY <1>11, <2>1, <2>2 DEF Cancel
<1>12. CASE RejectFingerprint
  <2>1. CASE w' = w
    BY <1>6, <1>12, <2>1 DEF RejectFingerprint, CancelPrompt
  <2>2. CASE w' = Reject
    BY <1>1, <1>2, <1>4, <1>5, <1>12, <2>2, ButtonsAnswer DEF RejectFingerprint, CancelPrompt
  <2> QED
    BY <1>12, <2>1, <2>2 DEF RejectFingerprint, CancelPrompt
<1>13. CASE CancelLogin
  <2>1. w' = DoNotLogin /\ step = "credential" /\ submitting'
        /\ UNCHANGED <<loop, step, disabled, saving, emitted>>
    BY <1>13, QuestionBodies DEF CancelLogin, CancelPrompt
  <2>2. w' = Push(CloseSender(w), "wait")
    BY <1>1, <1>2, <1>5, <2>1, AnswersSend
  <2> QED
    BY <1>1, <2>1, <2>2, TurnCancelsLogin
<1> QED
  BY <1>3, <1>7, <1>8, <1>9, <1>10, <1>11, <1>12, <1>13 DEF UserActs, UserStep

---------------------------------------------------------------------------
(* The invariant holds                                                     *)

\* The wizard that is opened has nothing on its way but the request and a step that
\* asks nothing.
LEMMA WizardOpens ==
  ASSUME Init
  PROVE  /\ w \in Wizard /\ ~w.misread /\ w.blamed = NoField /\ w.up /\ ~w.closed
         /\ ~w.shuttingDown /\ ~w.senderClosed /\ ~w.connected /\ w.reading = "nothing"
         /\ \E s \in {"form", "wait", "failure"} : w.steps = <<s>>
         /\ \/ w.sent = <<>> /\ ~Active(w)
            \/ w.sent = <<"request">> /\ w.running /\ w.initializing
<1>1. PICK protocol \in Protocols, way \in Ways, config \in Configs,
           known \in {"same", "other"}, saves \in BOOLEAN, cached \in BOOLEAN,
           available \in BOOLEAN :
             w = Opened(NewWizard(protocol, way, config, known, saves, cached), available)
  BY DEF Init
<1> DEFINE v == NewWizard(protocol, way, config, known, saves, cached)
<1>2. config \in [Fields -> Values]
  BY DEF Configs, AllGood, Values
<1>3. NoField \in Blames
  BY DEF Blames
<1>4. v \in Wizard
  BY <1>2, <1>3 DEF Wizard, NewWizard
<1>5. /\ v.steps = <<>> /\ ~v.request /\ ~v.shuttingDown /\ ~v.senderClosed
      /\ v.sent = <<>> /\ ~v.connected /\ v.reading = "nothing" /\ ~v.failed
      /\ ~v.misread /\ v.blamed = NoField /\ v.up /\ ~v.closed
  BY DEF NewWizard
<1>6. w = Opened(v, available)
  BY <1>1
<1> HIDE DEF v
<1>7. CASE w = Push(v, "form")
  <2>1. "form" \in Steps \ Terminals
    BY DEF Steps, Prompts, Terminals
  <2>2. /\ w \in Wizard /\ w.steps = Append(v.steps, "form")
        /\ SameEnds(w, v) /\ SameTurn(w, v) /\ SameRequest(w, v) /\ SameHistory(w, v)
        /\ w.sent = v.sent
    BY <1>4, <1>7, <2>1, PushGoesOn
  <2>3. w.steps = <<"form">>
    BY <1>5, <2>2
  <2> QED
    BY <1>5, <2>2, <2>3 DEF SameEnds, SameTurn, SameRequest, SameHistory, Active
<1>8. CASE \E b, c \in BOOLEAN : w = Start(v, available, b, c)
  <2>1. w \in Wizard /\ StartedFrom(w, v)
    BY <1>4, <1>8, StartFacts
  <2>2. /\ \E s \in {"wait", "failure"} : w.steps = <<s>>
        /\ \/ w.sent = <<>> /\ w.request = v.request
           \/ w.sent = <<"request">> /\ w.running /\ w.initializing
    BY <1>5, <2>1 DEF StartedFrom
  <2> QED
    BY <1>5, <2>1, <2>2 DEF StartedFrom, SameTurn, SameHistory, Active
<1> QED
  BY <1>4, <1>6, <1>7, <1>8, OpenedStarts

\* Nothing was said yet.
LEMMA WizardInit ==
  ASSUME Init
  PROVE  WizardInv
<1>1. BasicInv
  BY BasicInit
<1>2. /\ w \in Wizard /\ ~w.misread /\ w.blamed = NoField /\ w.up /\ ~w.closed
      /\ ~w.shuttingDown /\ ~w.senderClosed /\ ~w.connected /\ w.reading = "nothing"
      /\ \E s \in {"form", "wait", "failure"} : w.steps = <<s>>
      /\ \/ w.sent = <<>> /\ ~Active(w)
         \/ w.sent = <<"request">> /\ w.running /\ w.initializing
  BY WizardOpens
<1>3. /\ served = "idle" /\ asked = "nothing" /\ unsaid = {} /\ refused = NoField
      /\ toClient = <<>> /\ step = "nothing" /\ ~saving
  BY DEF Init, ConnectorInit
<1>4. Elements(toClient) = {} /\ Coming = {}
  BY <1>3 DEF Elements, Coming
<1>5. /\ Going \subseteq {"request"}
      /\ Active(w) => Going = {"request"}
      /\ "request" \in Going => w.running /\ w.initializing
      /\ Len(w.sent) <= 1 /\ w.sent \in Seq(Bodies)
  <2>1. CASE w.sent = <<>> /\ ~Active(w)
    <3>1. Going = {} /\ Len(w.sent) = 0 /\ w.sent \in Seq(Bodies)
      BY <1>2, <2>1 DEF Going, Elements, Wizard
    <3> QED
      BY <2>1, <3>1
  <2>2. CASE w.sent = <<"request">> /\ w.running /\ w.initializing
    <3>1. Going = {"request"} /\ Len(w.sent) = 1 /\ w.sent \in Seq(Bodies)
      BY <1>2, <2>2 DEF Going, Elements, Wizard
    <3> QED
      BY <2>2, <3>1
  <2>3. \/ w.sent = <<>> /\ ~Active(w)
        \/ w.sent = <<"request">> /\ w.running /\ w.initializing
    BY <1>2, Zenon
  <2> QED
    BY <2>1, <2>2, <2>3, Zenon
<1>6. Pending \subseteq {"form", "wait", "failure"} /\ Len(w.steps) = 1
  BY <1>2 DEF Pending, Elements
<1>7. /\ w.steps \in Seq(Steps) /\ w.steps # <<>>
      /\ Head(w.steps) \notin Questions
  <2>1. PICK s \in {"form", "wait", "failure"} : w.steps = <<s>>
    BY <1>2
  <2>2. w.steps # <<>> /\ Head(w.steps) = s
    BY <2>1
  <2>3. w.steps \in Seq(Steps)
    BY <1>2 DEF Wizard
  <2> QED
    BY <2>2, <2>3 DEF Questions
<1>8. BlamedInv
  BY <1>2, <1>3 DEF BlamedInv
<1>9. QueueInv
  <2>1. InOrder(toClient, FrameOrder(w.protocol))
    BY <1>3 DEF InOrder
  <2>2. InOrder(w.sent, SentOrder)
    BY <1>5 DEF InOrder
  <2> QED
    BY <1>4, <2>1, <2>2 DEF QueueInv
<1>10. ServerInv
  BY <1>3, <1>4 DEF ServerInv
<1>11. BrowserInv
  BY <1>2, <1>3, <1>4, <1>5 DEF BrowserInv, Live
<1>12. ConnectedInv
  BY <1>2, <1>3, <1>4 DEF ConnectedInv
<1>13. \A q \in Questions : Turns(q)
  <2>1. ASSUME NEW q \in Questions
        PROVE  /\ q \notin Coming /\ ~IsRead(q) /\ q \notin Pending /\ ~IsShown(q)
               /\ ~IsSaved(q) /\ ~IsAnswered(q)
    <3>1. q \in {"fingerprint", "credential"} /\ Answers(q) \subseteq AnswerBodies
      BY DEF Questions, Answers, AnswerBodies
    <3>2. ~IsAnswered(q)
      BY <1>5, <3>1 DEF IsAnswered, AnswerBodies
    <3> QED
      BY <1>2, <1>3, <1>4, <1>6, <3>1, <3>2 DEF IsRead, IsShown, IsSaved
  <2> QED
    BY <2>1 DEF Turns
<1>14. InOrder(w.steps, StepOrder) /\ InOrder(w.sent, TurnOrder)
  BY <1>5, <1>6, <1>7 DEF InOrder
<1>15. TurnInv
  BY <1>2, <1>3, <1>7, <1>13, <1>14 DEF TurnInv, ClosedShowsNothing, Questions
<1> QED
  BY <1>1, <1>8, <1>9, <1>10, <1>11, <1>12, <1>15 DEF WizardInv, LinkInv

\* Every step, with a connection and without.
LEMMA WizardStep ==
  ASSUME WizardInv, [Next]_vars
  PROVE  WizardInv'
<1>1. BasicInv /\ BlamedInv /\ BasicInv' /\ w \in Wizard /\ w.up \in BOOLEAN
  BY BasicStep DEF WizardInv, BasicInv, TypeInv, Wizard
<1>2. ASSUME w.up PROVE LinkInv /\ TurnInv
  BY <1>2 DEF WizardInv
<1>3. CASE UNCHANGED vars
  <2>1. /\ w' = w /\ UNCHANGED serverVars
        /\ UNCHANGED <<served, asked, unsaid, refused, toClient>>
        /\ UNCHANGED <<loop, step, disabled, saving, submitting, emitted>>
    BY <1>3 DEF vars, serverVars, connectorVars
  <2>2. CASE w.up
    <3>1. BlamedInv' /\ LinkInv'
      BY <1>1, <1>2, <2>1, <2>2, LinkCloseWizard
    <3>2. TurnInv'
      BY <1>1, <1>2, <2>1, <2>2, TurnPasses DEF Shown
    <3> QED
      BY <1>1, <3>1, <3>2 DEF WizardInv
  <2>3. CASE ~w.up
    BY <1>1, <2>1, <2>3 DEF WizardInv, BlamedInv
  <2> QED
    BY <2>2, <2>3
<1>4. CASE LoopStep
  <2>1. CASE w.up
    BY <1>1, <1>2, <1>4, <2>1, LinkLoop, TurnLoop DEF WizardInv
  <2>2. CASE ~w.up
    BY <1>1, <1>4, <2>2, StaysLost DEF WizardInv
  <2> QED
    BY <2>1, <2>2
<1>5. CASE UserActs
  <2>1. CASE w.up
    BY <1>1, <1>2, <1>5, <2>1, LinkUser, TurnUser DEF WizardInv
  <2>2. CASE ~w.up
    BY <1>1, <1>5, <2>2, StaysLost DEF WizardInv
  <2> QED
    BY <2>1, <2>2
<1>6. CASE ReceiveAnswer
  <2>1. w.up
    BY <1>6 DEF ReceiveAnswer, Receives
  <2> QED
    BY <1>1, <1>2, <1>6, <2>1, LinkAnswer, TurnAnswer DEF WizardInv
<1>7. CASE ReceiveStream
  <2>1. w.up
    BY <1>7 DEF ReceiveStream, Receives
  <2> QED
    BY <1>1, <1>2, <1>7, <2>1, LinkStream, TurnStream DEF WizardInv
<1>8. CASE ReceiveClose
  <2>1. w.up
    BY <1>8 DEF ReceiveClose, Receives
  <2> QED
    BY <1>1, <1>2, <1>8, <2>1, LinkClose, TurnClose DEF WizardInv
<1>9. CASE ReceiveCompleted
  <2>1. w.up
    BY <1>9 DEF ReceiveCompleted, Receives
  <2> QED
    BY <1>1, <1>2, <1>9, <2>1, LinkCompleted, TurnCompleted DEF WizardInv
<1>10. CASE FinishReading
  <2>1. w.up
    BY <1>10 DEF FinishReading
  <2> QED
    BY <1>1, <1>2, <1>10, <2>1, LinkFinishReading, TurnFinishReading DEF WizardInv
<1>11. CASE TimeOut
  <2>1. w.up
    BY <1>11 DEF TimeOut
  <2> QED
    BY <1>1, <1>2, <1>11, <2>1, LinkTimeOut, TurnTimeOut DEF WizardInv
<1>12. CASE RequestFails \/ Disconnect
  BY <1>1, <1>12, LostForGood DEF WizardInv
<1>13. CASE RequestIsRejected
  <2>1. ~w.up
    BY <1>13 DEF RequestIsRejected
  <2> QED
    BY <1>1, <1>13, <2>1, StaysLost DEF WizardInv
<1>14. CASE ServerStep \/ Report \/ End \/ Stall
  <2>1. w.up
    BY <1>14 DEF ServerStep, BootUp, Hook, Ask, Connect, Output, ReadAnswer, ReadClose,
         ReadCompleted, Reads, Report, End, Stall, Serves
  <2> QED
    BY <1>1, <1>2, <1>14, <2>1, LinkServer, TurnServer DEF WizardInv
<1> QED
  BY <1>3, <1>4, <1>5, <1>6, <1>7, <1>8, <1>9, <1>10, <1>11, <1>12, <1>13, <1>14
    DEF Next, ServeStep

\* What is under way between a wizard and its server, at any time.
THEOREM WizardsInvariance == Spec => []WizardInv
<1>1. Init => WizardInv
  BY WizardInit
<1>2. WizardInv /\ [Next]_vars => WizardInv'
  BY WizardStep
<1> QED
  BY <1>1, <1>2, PTL DEF Spec

\* The markers and the error codes of the two ends agree, and come in an order in which
\* the wizard expects them: whatever the server says is taken as it was meant.
THEOREM ServersAreUnderstood == Spec => []ServerIsUnderstood
<1>1. WizardInv => ServerIsUnderstood
  BY DEF WizardInv, BlamedInv, ServerIsUnderstood
<1> QED
  BY <1>1, WizardsInvariance, PTL

\* No two answers are under way, and the one that is answers the question the server
\* waits to be answered.
THEOREM OnlyWhatIsAsked == Spec => []AnswersWereAsked
<1>1. ASSUME WizardInv PROVE AnswersWereAsked
  <2> DEFINE answers == {i \in DOMAIN w.sent : w.sent[i] \in {"trust", "refuse", "credential"}}
  <2>1. w \in Wizard /\ w.up \in BOOLEAN /\ w.sent \in Seq(Bodies)
    BY <1>1 DEF WizardInv, BasicInv, TypeInv, Wizard
  <2>2. \A i, j \in answers : i = j
    <3>1. CASE w.up
      <4>1. InOrder(w.sent, TurnOrder)
        BY <1>1, <3>1 DEF WizardInv, TurnInv
      <4>2. ASSUME NEW i \in DOMAIN w.sent, NEW j \in DOMAIN w.sent, i < j,
                   w.sent[i] \in AnswerBodies, w.sent[j] \in AnswerBodies
            PROVE  FALSE
        BY <4>1, <4>2 DEF InOrder, TurnOrder
      <4>3. \A i \in answers : i \in DOMAIN w.sent /\ i \in Nat /\ w.sent[i] \in AnswerBodies
        BY <2>1 DEF AnswerBodies
      <4> HIDE DEF answers
      <4> QED
        BY <4>2, <4>3
    <3>2. CASE ~w.up
      <4>1. w.sent = <<>>
        BY <1>1, <3>2 DEF WizardInv, BlamedInv
      <4> QED
        BY <4>1
    <3> QED
      BY <2>1, <3>1, <3>2
  <2>3. ASSUME NEW i \in answers
        PROVE  asked \in Questions /\ w.sent[i] \in Answers(asked)
    <3>1. i \in DOMAIN w.sent /\ w.sent[i] \in {"trust", "refuse", "credential"}
      OBVIOUS
    <3>2. w.up
      <4>1. ~w.up => w.sent = <<>>
        BY <1>1 DEF WizardInv, BlamedInv
      <4> QED
        BY <2>1, <3>1, <4>1
    <3>3. w.sent[i] \in Going
      BY <3>1 DEF Going, Elements
    <3>4. PICK q \in Questions : w.sent[i] \in Answers(q)
      BY <3>1 DEF Questions, Answers
    <3>5. Turns(q)
      BY <1>1, <3>2 DEF WizardInv, TurnInv
    <3>6. asked = q
      BY <3>3, <3>4, <3>5 DEF Turns, IsAnswered
    <3> QED
      BY <3>4, <3>6
  <2>4. Cardinality(answers) <= 1
    <3> HIDE DEF answers
    <3>1. CASE answers = {}
      BY <3>1, FS_EmptySet
    <3>2. CASE answers # {}
      <4>1. PICK i \in answers : TRUE
        BY <3>2
      <4>2. answers = {i}
        BY <2>2, <4>1
      <4> QED
        BY <4>2, FS_Singleton
    <3> QED
      BY <3>1, <3>2
  <2> QED
    BY <2>3, <2>4 DEF AnswersWereAsked
<1> QED
  BY <1>1, WizardsInvariance, PTL
=============================================================================
