----------------------------- MODULE SshSession -----------------------------
(***************************************************************************)
(* ssh.go after the handshake: a session with a shell, and two goroutines  *)
(* that write what it writes.                                              *)
(***************************************************************************)
EXTENDS Session

VARIABLE errOut   \* the goroutine that copies stderr: none, reading

sshVars == errOut

Ssh == protocol = "ssh"

\* NewSession, the pipes, RequestPty and Shell.
SetUpShell ==
  /\ Ssh /\ At("setup")
  /\ (conn = "open" /\ Goto("clear")) \/ Goto("report")
  /\ UNCHANGED <<wireVars, callVars, cancelled, netVars, errOut>>

SshClear ==
  /\ Ssh /\ At("clear")
  /\ ClearDeadline
  /\ Goto("deliver")
  /\ UNCHANGED <<wireVars, callVars, cancelled, conn, delivered, alive, timedOut, errOut>>

SshDeliver == Ssh /\ Deliver("greet") /\ UNCHANGED errOut

SshGreet ==
  /\ Ssh /\ At("greet")
  /\ Tell("connected")
  /\ IF up THEN Goto("stream") /\ errOut' = "reading"
           ELSE Goto("exitwait") /\ UNCHANGED errOut
  /\ UNCHANGED <<protocol, up, callVars, cancelled, netVars>>

\* The streams of the session end with it, or with the connection; what was
\* received before that can still be read.
SshOver == ~alive \/ conn # "open"

SshOutput ==
  /\ Ssh /\ At("stream")
  /\ Tell("output")
  /\ Goto(IF up THEN "stream" ELSE "exitwait")
  /\ UNCHANGED <<protocol, up, callVars, cancelled, netVars, errOut>>

SshReadEnds ==
  /\ Ssh /\ At("stream") /\ SshOver
  /\ Goto("exitwait")
  /\ UNCHANGED <<wireVars, callVars, cancelled, netVars, errOut>>

ErrOutput ==
  /\ errOut = "reading"
  /\ Tell("output")
  /\ errOut' = IF up THEN "reading" ELSE "none"
  /\ UNCHANGED <<protocol, up, callVars, cancelled, rpc, netVars>>

ErrOutEnds ==
  /\ errOut = "reading" /\ SshOver
  /\ errOut' = "none"
  /\ UNCHANGED sessionVars

\* defer session.Wait(): the remote command has exited, or cannot be waited for.
ExitWait ==
  /\ At("exitwait") /\ SshOver
  /\ Goto("cleanup")
  /\ UNCHANGED <<wireVars, callVars, cancelled, netVars, errOut>>

\* defer session.Close(), defer conn.Close()
SshCleanup ==
  /\ Ssh /\ At("cleanup")
  /\ CloseConn
  /\ Goto("errwait")
  /\ UNCHANGED <<wireVars, callVars, cancelled, delivered, alive, retry, force, errOut>>

\* Mutant: stderr is not waited for.
Unwaited == Ssh
ErrOutDone == errOut = "none"

\* defer errOutWg.Wait()
ErrWait ==
  /\ At("errwait") /\ ErrOutDone
  /\ Goto("signal")
  /\ UNCHANGED <<wireVars, callVars, cancelled, netVars, errOut>>

SshStep == \/ SetUpShell \/ SshClear \/ SshDeliver \/ SshGreet
           \/ SshOutput \/ SshReadEnds \/ ErrOutput \/ ErrOutEnds
           \/ ExitWait \/ SshCleanup \/ ErrWait

---------------------------------------------------------------------------
(* The handler goroutine in ticks and in Close, for SSH and Telnet: the     *)
(* remote is taken from its channel.                                        *)

Dialled == protocol \in {"ssh", "telnet"}

\* getRemote returns: the remote, or the news that there is none.
HasRemote == delivered \/ At("ended")

CallInput ==
  /\ Dialled /\ hpc = "idle"
  /\ hpc' = "input"
  /\ UNCHANGED <<wireVars, answer, processed, cancelled, rpc, netVars, errOut>>

\* A write that fails closes the connection and fails the tick.
WriteInput ==
  /\ hpc = "input" /\ HasRemote
  /\ \/ /\ delivered /\ conn = "open"
        /\ hpc' = "idle"
        /\ UNCHANGED <<conn, deadline, timedOut>>
     \/ /\ delivered /\ (~alive \/ conn # "open")
        /\ hpc' = "failing"
        /\ CloseConn
     \/ /\ ~delivered
        /\ hpc' = "failing"
        /\ UNCHANGED <<conn, deadline, timedOut>>
  /\ UNCHANGED <<wireVars, answer, processed, cancelled, rpc, delivered, alive,
                 retry, force, errOut>>

CloseDelivered == IF delivered THEN CloseConn ELSE UNCHANGED <<conn, deadline, timedOut>>

Refuse ==
  /\ hpc = "refusing" /\ HasRemote
  /\ hpc' = "idle"
  /\ CloseDelivered
  /\ UNCHANGED <<wireVars, answer, processed, cancelled, rpc, delivered, alive,
                 retry, force, errOut>>

CloseRemote ==
  /\ Dialled /\ hpc = "closing" /\ HasRemote
  /\ hpc' = "waiting"
  /\ CloseDelivered
  /\ UNCHANGED <<wireVars, answer, processed, cancelled, rpc, delivered, alive,
                 retry, force, errOut>>

DialledCall == CallInput \/ WriteInput \/ Refuse \/ CloseRemote
=============================================================================
