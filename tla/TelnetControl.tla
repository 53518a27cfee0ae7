---------------------------- MODULE TelnetControl ----------------------------
(***************************************************************************)
(* A Telnet session in the browser: the parser of what the remote host     *)
(* says (src/ui/control/telnet.js), which negotiates the options, and the  *)
(* terminal that shows the text and takes the typing                       *)
(* (src/ui/widgets/screen_console.vue).  ShellPort's server passes the     *)
(* bytes on as they are, cut where its reads happen to end.                *)
(*                                                                         *)
(* The remote host is a Telnet server that keeps to RFC 854 and negotiates *)
(* as RFC 1143 says.                                                       *)
(***************************************************************************)
EXTENDS Naturals, Sequences, SequencesExt

CONSTANTS
  Text,            \* the bytes of text, typed or shown
  ServerOptions,   \* what the host may offer to do
  ClientOptions,   \* what it may ask the browser to do
  Withdrawn,       \* which of them it may withdraw
  PlainCommands,   \* the commands without an option that it uses
  Cols, Rows,      \* the sizes of the terminal
  MaxUtterances, MaxTyped, MaxResizes   \* bounds

ASSUME TelnetAssumption ==
  /\ \A byte \in Text \cup ServerOptions \cup ClientOptions : byte \in Nat /\ byte <= 255
  /\ PlainCommands \subseteq 241 .. 249
  /\ \A size \in Cols \cup Rows : size \in Nat \ {0} /\ size < 65535
  /\ MaxUtterances \in Nat /\ MaxTyped \in Nat /\ MaxResizes \in Nat

SE == 240
GoAhead == 249
SB == 250
WILL == 251
WONT == 252
DO == 253
DONT == 254
IAC == 255

Echo == 1
SuppressGoAhead == 3
TerminalType == 24
NAWS == 31

TypeIs == 0
TypeSend == 1

VARIABLES
  toBrowser,     \* bytes from the host on their way
  chunk,         \* how many of them are there to be read now
  ticking,       \* after these, the frame that is ticked goes on
  parser,        \* Parser with its options, and Control's part in it
  windowDim,     \* Control.windowDim
  dim, delayed,  \* the terminal's size, and the delay before it is reported
  shown,         \* the text in the terminal
  senderClosed,  \* the tab is being closed
  closed,        \* Control.closed
  toRemote,      \* bytes for the host
  remote,        \* the host
  said, typed,   \* history: the text that the host, and the user, meant
  uttered, resizes

windowVars == <<windowDim, dim, delayed, resizes>>
hostVars   == <<remote, said, uttered>>
vars == <<toBrowser, chunk, ticking, parser, windowVars, shown, senderClosed, closed, toRemote,
          hostVars, typed>>

Options == ServerOptions \cup ClientOptions \cup {Echo, SuppressGoAhead, TerminalType, NAWS}

\* mode says where run is, "dead" that it has ended; text and sent are what comes of
\* the byte it is given.
NewParser == [mode |-> "text", cmd |-> 0, endExec |-> FALSE,
              echoEnabled |-> FALSE, suppressGoAhead |-> FALSE, nawsAccepted |-> FALSE,
              localEcho |-> TRUE, text |-> <<>>, sent |-> <<>>]

Init ==
  /\ toBrowser = <<>> /\ chunk = 0 /\ ticking = FALSE
  /\ parser = NewParser
  /\ windowDim = [cols |-> 65535, rows |-> 65535]
  /\ dim = windowDim /\ delayed = FALSE
  /\ shown = <<>>
  /\ senderClosed = FALSE /\ closed = FALSE
  /\ toRemote = <<>>
  /\ remote = [mode |-> "text", cmd |-> 0, payload |-> <<>>, text |-> <<>>,
               us |-> [o \in Options |-> "no"], him |-> [o \in Options |-> "no"],
               size |-> <<>>, replies |-> <<>>]
  /\ said = <<>> /\ typed = <<>>
  /\ uttered = 0 /\ resizes = 0

---------------------------------------------------------------------------
(* Parser: what it sends.  An operation is a function from a parser to a   *)
(* parser.                                                                 *)

At(p, mode) == p.mode = mode
Goto(p, mode) == [p EXCEPT !.mode = mode]

\* A sender that is closed throws, and that ends run: then is not done.
Sends(p, bytes, then) ==
  IF senderClosed THEN Goto(p, "dead") ELSE [then EXCEPT !.sent = bytes]

\* sendNego.
Nego(cmd, option) == <<IAC, cmd, option>>

\* sendSubNego does not double the bytes of its data that are IAC.
SubNego(data, option) == <<IAC, SB, option>> \o data \o <<IAC, SE>>

WillSubNego(cmd, data, option) == Nego(cmd, option) \o SubNego(data, option)

TypeName == <<TypeIs, 88, 84, 69, 82, 77>>

DimBytes == <<windowDim.cols \div 256, windowDim.cols % 256,
              windowDim.rows \div 256, windowDim.rows % 256>>

SendDeny(p, option) ==
  CASE p.cmd = DO -> Sends(p, Nego(WONT, option), p)
    [] p.cmd \in {WILL, WONT} -> Sends(p, Nego(DONT, option), p)
    [] p.cmd = DONT -> p

\* handleOption answers what is not yet so; then is the parser with the new value.
HandleOption(p, option, oldVal, then) ==
  CASE p.cmd = WILL /\ ~oldVal -> Sends(p, Nego(DO, option), then)
    [] p.cmd = WONT /\ oldVal -> Sends(p, Nego(DONT, option), then)
    [] p.cmd = DO /\ ~oldVal -> Sends(p, Nego(WILL, option), then)
    [] p.cmd = DONT /\ oldVal -> Sends(p, Nego(WONT, option), then)
    [] OTHER -> then

---------------------------------------------------------------------------
(* Parser: what it reads                                                   *)

Flush(p, byte) == [p EXCEPT !.text = Append(@, byte)]

\* run: text is handed on, up to the next IAC.
ReadText(p, byte) == IF byte = IAC THEN Goto(p, "command") ELSE Flush(p, byte)

\* Mutant: GO AHEAD is not known.
NoneIgnored == {}

\* The commands that ask for nothing.
Ignored == {GoAhead}

\* handleCmd, up to the option.  What it does not know is an exception.
ReadCommand(p, byte) ==
  CASE byte \in {WILL, WONT, DO, DONT} -> [p EXCEPT !.mode = "option", !.cmd = byte]
    [] byte = IAC -> Goto(Flush(p, byte), "text")
    [] byte \in Ignored -> Goto(p, "text")
    [] byte = SB -> [p EXCEPT !.mode = "sub", !.endExec = FALSE]
    [] OTHER -> Goto(p, "dead")

\* Mutant: the terminal's own echo is left as it is.
KeepEcho(p) ==
  HandleOption(p, Echo, p.echoEnabled, [p EXCEPT !.echoEnabled = p.cmd \in {WILL, DO}])

\* WILL and DO share one state.
EchoOption(p) ==
  HandleOption(p, Echo, p.echoEnabled,
    [p EXCEPT !.echoEnabled = p.cmd \in {WILL, DO}, !.localEcho = p.cmd \in {WONT, DO}])

GoAheadOption(p) ==
  HandleOption(p, SuppressGoAhead, p.suppressGoAhead,
    [p EXCEPT !.suppressGoAhead = p.cmd \in {WILL, DO}])

\* DO NAWS: the size is sent, the first time with the acceptance.
WindowOption(p) ==
  LET accepted == [p EXCEPT !.nawsAccepted = TRUE]
  IN IF p.nawsAccepted THEN Sends(p, SubNego(DimBytes, NAWS), p)
     ELSE Sends(accepted, WillSubNego(WILL, DimBytes, NAWS), accepted)

\* handleCmd, with the option.
ReadOption(p, option) ==
  LET q == Goto(p, "text")
  IN CASE option = Echo -> EchoOption(q)
       [] option = SuppressGoAhead -> GoAheadOption(q)
       [] option = NAWS /\ p.cmd = DO -> WindowOption(q)
       [] option = TerminalType /\ p.cmd = DO -> Sends(q, Nego(WILL, option), q)
       [] OTHER -> SendDeny(q, option)

\* handleSubNego: everything up to IAC SE.
ReadSubNego(p, byte) ==
  CASE byte = TerminalType -> Goto(p, "type")
    [] byte = IAC -> Goto(p, "subend")
    [] OTHER -> p

\* handleTermTypeSubNego.
ReadTypeSubNego(p, byte) == [p EXCEPT !.mode = "sub", !.endExec = (byte = TypeSend)]

EndSubNego(p, byte) ==
  LET q == Goto(p, "text")
  IN CASE byte # SE -> Goto(p, "sub")
       [] byte = SE /\ p.endExec -> Sends(q, SubNego(TypeName, TerminalType), q)
       [] OTHER -> q

Read(p, byte) ==
  CASE At(p, "text") -> ReadText(p, byte)
    [] At(p, "command") -> ReadCommand(p, byte)
    [] At(p, "option") -> ReadOption(p, byte)
    [] At(p, "sub") -> ReadSubNego(p, byte)
    [] At(p, "type") -> ReadTypeSubNego(p, byte)
    [] At(p, "subend") -> EndSubNego(p, byte)

---------------------------------------------------------------------------
(* The session                                                             *)

\* Nothing comes between the bytes that are there to be read, and the host reads a
\* command whole.
Settled == /\ chunk = 0 \/ At(parser, "dead")
           /\ remote.mode = "text" \/ toRemote = <<>>

\* Streams.handleStream ticks the session with a frame of the host's bytes and does
\* nothing else until it is read.  The frame may come in pieces.
Tick ==
  /\ Settled /\ chunk = 0 /\ ~At(parser, "dead")
  /\ ticking \/ ~senderClosed
  /\ chunk' \in 1 .. Len(toBrowser)
  /\ ticking' \in {FALSE, chunk' < Len(toBrowser)}
  /\ UNCHANGED <<toBrowser, parser, windowVars, shown, senderClosed, closed, toRemote,
                 hostVars, typed>>

\* runRunner writes what it receives into the terminal.
Shows(text) == shown' = shown \o text

\* Without a parser the tick never ends.
ReadByte ==
  /\ chunk > 0 /\ ~At(parser, "dead")
  /\ LET p == Read(parser, Head(toBrowser))
     IN /\ parser' = [p EXCEPT !.text = <<>>, !.sent = <<>>]
        /\ Shows(p.text)
        /\ toRemote' = toRemote \o p.sent
  /\ toBrowser' = Tail(toBrowser)
  /\ chunk' = chunk - 1
  /\ UNCHANGED <<ticking, windowVars, senderClosed, closed, hostVars, typed>>

\* The frames for a tab that is closing are dropped.
Drop ==
  /\ Settled /\ chunk = 0 /\ ~ticking /\ senderClosed /\ toBrowser # <<>>
  /\ toBrowser' = <<>>
  /\ UNCHANGED <<chunk, ticking, parser, windowVars, shown, senderClosed, closed, toRemote,
                 hostVars, typed>>

\* Mutant: IAC is sent as it is.
Unescaped(byte) == <<byte>>

\* sendSeg: IAC is sent twice.
SendSeg(byte) == IF byte = IAC THEN <<IAC, IAC>> ELSE <<byte>>

Type(byte) ==
  /\ Settled /\ ~senderClosed /\ Len(typed) < MaxTyped
  /\ typed' = Append(typed, byte)
  /\ toRemote' = toRemote \o SendSeg(byte)
  /\ UNCHANGED <<toBrowser, chunk, ticking, parser, windowVars, shown, senderClosed, closed,
                 hostVars>>

\* onResize: a delay starts anew with every change.
ResizeTerminal ==
  /\ Settled /\ resizes < MaxResizes
  /\ resizes' = resizes + 1
  /\ \E size \in [cols : Cols, rows : Rows] : size # dim /\ dim' = size
  /\ delayed' = TRUE
  /\ UNCHANGED <<toBrowser, chunk, ticking, parser, windowDim, shown, senderClosed, closed,
                 toRemote, hostVars, typed>>

\* resize with requestWindowResize.
Resize ==
  /\ Settled /\ delayed
  /\ delayed' = FALSE
  /\ IF closed THEN UNCHANGED <<windowDim, parser, toRemote>>
     ELSE /\ windowDim' = dim
          /\ parser' = [parser EXCEPT !.nawsAccepted = TRUE]
          /\ toRemote' = IF senderClosed THEN toRemote
                         ELSE toRemote \o Nego(WILL, NAWS)
  /\ UNCHANGED <<toBrowser, chunk, ticking, dim, resizes, shown, senderClosed, closed, hostVars,
                 typed>>

\* The tab is closed.
Close ==
  /\ Settled /\ ~senderClosed
  /\ senderClosed' = TRUE
  /\ UNCHANGED <<toBrowser, chunk, ticking, parser, windowVars, shown, closed, toRemote,
                 hostVars, typed>>

\* The session has ended, or the connection.
Completed ==
  /\ Settled /\ ~closed
  /\ closed' = TRUE /\ senderClosed' = TRUE
  /\ parser' = Goto(parser, "dead")
  /\ toBrowser' = <<>> /\ chunk' = 0 /\ ticking' = FALSE
  /\ toRemote' = <<>>
  /\ UNCHANGED <<windowVars, shown, hostVars, typed>>

---------------------------------------------------------------------------
(* The host                                                                *)

Utters(bytes) ==
  /\ Settled /\ ~closed /\ uttered < MaxUtterances
  /\ uttered' = uttered + 1
  /\ toBrowser' = toBrowser \o bytes
  /\ UNCHANGED <<chunk, ticking, parser, windowVars, shown, senderClosed, closed, toRemote,
                 typed>>

Says ==
  \E byte \in Text :
    /\ Utters(IF byte = IAC THEN <<IAC, IAC>> ELSE <<byte>>)
    /\ said' = Append(said, byte)
    /\ UNCHANGED remote

\* An option is enabled by one side's offer and the other's consent.  Nothing is
\* asked for that is being negotiated or is already so.
Proposes ==
  /\ UNCHANGED said
  /\ \/ \E o \in ServerOptions :
          \/ /\ remote.us[o] = "no" /\ remote' = [remote EXCEPT !.us[o] = "wantyes"]
             /\ Utters(Nego(WILL, o))
          \/ /\ o \in Withdrawn
             /\ remote.us[o] = "yes" /\ remote' = [remote EXCEPT !.us[o] = "wantno"]
             /\ Utters(Nego(WONT, o))
     \/ \E o \in ClientOptions :
          \/ /\ remote.him[o] = "no" /\ remote' = [remote EXCEPT !.him[o] = "wantyes"]
             /\ Utters(Nego(DO, o))
          \/ /\ o \in Withdrawn
             /\ remote.him[o] = "yes" /\ remote' = [remote EXCEPT !.him[o] = "wantno"]
             /\ Utters(Nego(DONT, o))

AsksType ==
  /\ remote.him[TerminalType] = "yes"
  /\ Utters(SubNego(<<TypeSend>>, TerminalType))
  /\ UNCHANGED <<remote, said>>

Commands ==
  /\ \E c \in PlainCommands : Utters(<<IAC, c>>)
  /\ UNCHANGED <<remote, said>>

\* What it makes of a command for an option, and what it answers.
Agrees(state, supported) ==
  CASE state = "no" -> IF supported THEN "yes" ELSE "no"
    [] state = "wantno" -> "no"
    [] OTHER -> "yes"

Reply(h, cmd, o) == [h EXCEPT !.replies = @ \o Nego(cmd, o)]

Negotiated(h, cmd, o) ==
  LET g == [h EXCEPT !.mode = "text"]
  IN CASE cmd = WILL /\ h.him[o] = "no" ->
            Reply([g EXCEPT !.him[o] = Agrees("no", o \in ClientOptions)],
                  IF o \in ClientOptions THEN DO ELSE DONT, o)
       [] cmd = WILL /\ h.him[o] # "no" -> [g EXCEPT !.him[o] = Agrees(@, TRUE)]
       [] cmd = WONT /\ h.him[o] = "yes" -> Reply([g EXCEPT !.him[o] = "no"], DONT, o)
       [] cmd = WONT /\ h.him[o] # "yes" -> [g EXCEPT !.him[o] = "no"]
       [] cmd = DO /\ h.us[o] = "no" ->
            Reply([g EXCEPT !.us[o] = Agrees("no", o \in ServerOptions)],
                  IF o \in ServerOptions THEN WILL ELSE WONT, o)
       [] cmd = DO /\ h.us[o] # "no" -> [g EXCEPT !.us[o] = Agrees(@, TRUE)]
       [] cmd = DONT /\ h.us[o] = "yes" -> Reply([g EXCEPT !.us[o] = "no"], WONT, o)
       [] OTHER -> [g EXCEPT !.us[o] = "no"]

\* A subnegotiation has ended: a size is four bytes.
Learns(h) ==
  LET p == h.payload
  IN [h EXCEPT !.mode = "text",
               !.size = IF Len(p) = 5 /\ p[1] = NAWS
                          THEN <<256 * p[2] + p[3], 256 * p[4] + p[5]>> ELSE @]

Heard(h, byte) ==
  CASE h.mode = "text" /\ byte # IAC -> [h EXCEPT !.text = Append(@, byte)]
    [] h.mode = "text" /\ byte = IAC -> [h EXCEPT !.mode = "command"]
    [] h.mode = "command" /\ byte = IAC -> [h EXCEPT !.mode = "text", !.text = Append(@, IAC)]
    [] h.mode = "command" /\ byte = SB -> [h EXCEPT !.mode = "sub", !.payload = <<>>]
    [] h.mode = "command" /\ byte \in {WILL, WONT, DO, DONT} ->
         [h EXCEPT !.mode = "option", !.cmd = byte]
    [] h.mode = "option" -> Negotiated(h, h.cmd, byte)
    [] h.mode = "sub" /\ byte # IAC -> [h EXCEPT !.payload = Append(@, byte)]
    [] h.mode = "sub" /\ byte = IAC -> [h EXCEPT !.mode = "subend"]
    [] h.mode = "subend" /\ byte = IAC -> [h EXCEPT !.mode = "sub", !.payload = Append(@, IAC)]
    [] h.mode = "subend" /\ byte = SE -> Learns(h)
    [] h.mode = "subend" /\ byte \notin {IAC, SE} -> [h EXCEPT !.mode = "sub"]
    [] OTHER -> [h EXCEPT !.mode = "text"]

Hears ==
  /\ chunk = 0 \/ At(parser, "dead")
  /\ toRemote # <<>>
  /\ LET h == Heard(remote, Head(toRemote))
     IN /\ remote' = [h EXCEPT !.replies = <<>>,
                               !.payload = IF h.mode = "text" THEN <<>> ELSE @]
        /\ toBrowser' = toBrowser \o h.replies
  /\ toRemote' = Tail(toRemote)
  /\ UNCHANGED <<chunk, ticking, parser, windowVars, shown, senderClosed, closed, said,
                 typed, uttered>>

---------------------------------------------------------------------------
UserActs == (\E byte \in Text : Type(byte)) \/ ResizeTerminal \/ Close
HostActs == Says \/ Proposes \/ AsksType \/ Commands

Next == \/ Tick \/ ReadByte \/ Drop \/ Resize \/ Hears
        \/ UserActs \/ HostActs \/ Completed

Spec == Init /\ [][Next]_vars

\* The event loop runs what is ready, the delay ends, and the bytes arrive.  Nobody has
\* to type, to speak or to end the session.
FairSpec == Spec /\ WF_vars(Tick) /\ WF_vars(ReadByte) /\ WF_vars(Resize) /\ WF_vars(Hears)

---------------------------------------------------------------------------
(* Properties                                                              *)

\* Text is text and commands are commands, in both directions: what is shown is what
\* the host said, what the host reads is what was typed, in order, though a byte of
\* the text may be IAC, a frame may end within a command, and a size may be reported
\* between two keys.
TextKeepsItsMeaning ==
  IsPrefix(shown, said) /\ IsPrefix(remote.text, typed)

\* What the host says is shown in the end, whatever was negotiated in between: the
\* parser "silently swallows all errors (closed reader, unknown commands) to avoid
\* crashing the session" (control/telnet.js:357).
EverythingIsShown == shown # said ~> (shown = said \/ senderClosed)

\* When nothing is under way, no offer of the host has remained without an answer, and
\* exactly one of the two sides echoes what is typed.
Quiet == toBrowser = <<>> /\ toRemote = <<>> /\ ~senderClosed
NegotiationSettles ==
  Quiet =>
    /\ \A o \in Options : "wantyes" \notin {remote.us[o], remote.him[o]}
    /\ parser.localEcho = (remote.us[Echo] = "no")
=============================================================================
