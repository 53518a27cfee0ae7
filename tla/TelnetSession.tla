--------------------------- MODULE TelnetSession ---------------------------
(***************************************************************************)
(* telnet.go: the connection is all there is, and the browser is told of   *)
(* it before the ticks are.                                                *)
(***************************************************************************)
EXTENDS Session

Telnet == protocol = "telnet"

TelnetGreet ==
  /\ Telnet /\ At("greet")
  /\ Tell("connected")
  /\ Goto(IF up THEN "deliver" ELSE "cleanup")
  /\ UNCHANGED <<protocol, up, callVars, cancelled, netVars>>

TelnetDeliver == Telnet /\ Deliver("stream")

\* What was received before the end can still be read after it.
TelnetOutput ==
  /\ Telnet /\ At("stream")
  /\ Tell("output")
  /\ Goto(IF up THEN "stream" ELSE "cleanup")
  /\ UNCHANGED <<protocol, up, callVars, cancelled, netVars>>

TelnetReadEnds ==
  /\ Telnet /\ At("stream")
  /\ ~alive \/ conn = "closed"
  /\ Goto("cleanup")
  /\ UNCHANGED <<wireVars, callVars, cancelled, netVars>>

\* defer clientConn.Close()
TelnetCleanup ==
  /\ Telnet /\ At("cleanup")
  /\ CloseConn
  /\ Goto("signal")
  /\ UNCHANGED <<wireVars, callVars, cancelled, delivered, alive, retry, force>>

TelnetStep == \/ TelnetGreet \/ TelnetDeliver \/ TelnetOutput \/ TelnetReadEnds
              \/ TelnetCleanup
============================================================================
