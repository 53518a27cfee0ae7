------------------------------ MODULE Session ------------------------------
(***************************************************************************)
(* One session of one command of src/application/commands, from Bootup to  *)
(* Release: what ssh.go, telnet.go, mosh.go and et.go share.  Handler.tla  *)
(* takes such a session to be a machine that dials, asks, connects, copies *)
(* and ends; here are its channels, contexts, deadlines and goroutines.    *)
(*                                                                         *)
(* The caller is the handler goroutine.  It keeps to what is proved of it  *)
(* (ClosedThenReleasedOnce in Handler.tla): ticks until one fails, Close   *)
(* once, Release once.  The frames it passes on are any client's.          *)
(*                                                                         *)
(* Only what the user interface can tell apart is kept of a frame.  Writes *)
(* succeed as long as the WebSocket is up; that they can also block is     *)
(* Handler's business.                                                     *)
(***************************************************************************)
EXTENDS FiniteSets

CONSTANT Protocols   \* the commands to look at

ASSUME ProtocolsAssumption == Protocols \subseteq {"ssh", "telnet", "mosh", "et"}

VARIABLES
  protocol,   \* the command that was booted
  up,         \* is the WebSocket usable?
  said,       \* history: the last kind of frame that was written, see Dialogue
  hpc,        \* what the handler goroutine does with the session, see Calls
  answer,     \* the channels of answers: what waits in them
  processed,  \* fingerprintProcessed, credentialProcessed
  cancelled,  \* is baseCtx done?
  rpc,        \* where the goroutine of remote is, see Places
  conn,       \* the connection to the host
  delivered,  \* has the remote been put into its channel?
  alive,      \* does the host's end of the session live?
  deadline,   \* the read deadline of conn
  timedOut,   \* a read has timed out and is about to ask requestTimeoutRetry
  retry,      \* remoteReadTimeoutRetry
  force       \* remoteReadForceRetryNextTimeout

wireVars == <<protocol, up, said>>
callVars == <<hpc, answer, processed>>
deadlineVars == <<deadline, timedOut, retry, force>>
netVars == <<conn, delivered, alive, deadlineVars>>
sessionVars == <<wireVars, callVars, cancelled, rpc, netVars>>

Questions == {"fingerprint", "credential"}

\* idle:     between two calls
\* input:    in a tick with input, in getRemote
\* refusing: in a tick with a refused fingerprint, in getRemote
\* failing:  a tick has returned an error; only Close follows
\* stuck:    blocked for good: on a full channel
\* closing:  in Close, the context is cancelled and the answers' channels closed
\* waiting:  in Close, in remoteCloseWait.Wait
\* closed, released: after those calls
Calls == {"idle", "input", "refusing", "failing", "stuck",
          "closing", "waiting", "closed", "released"}

\* hooks, dial, kex, fingerprint, auth, credential, login: on the way to a login
\* setup ... flush: on the way to the session, differently for each protocol
\* stream: in the session
\* report: about to say why there is no session
\* exitwait, cleanup, errwait, signal, end: leaving
Places == {"hooks", "dial", "kex", "fingerprint", "auth", "credential", "login",
           "setup", "clear", "material", "start", "cache", "startup",
           "build", "ready", "deliver", "greet", "flush", "stream",
           "report", "exitwait", "cleanup", "errwait", "signal", "end", "ended"}

CommonTypeOK ==
  /\ protocol \in Protocols
  /\ up \in BOOLEAN
  /\ said \in {"nothing", "hook", "prompt", "report", "connected", "output", "close"}
  /\ hpc \in Calls
  /\ answer \in [Questions -> {"none", "yes", "no"}]
  /\ processed \in [Questions -> BOOLEAN]
  /\ cancelled \in BOOLEAN
  /\ rpc \in Places
  /\ conn \in {"none", "open", "broken", "closed"}
  /\ delivered \in BOOLEAN
  /\ alive \in BOOLEAN
  /\ deadline \in {"none", "armed", "passed"}
  /\ timedOut \in BOOLEAN
  /\ retry \in BOOLEAN
  /\ force \in BOOLEAN

CommonInit ==
  /\ protocol \in Protocols
  /\ up = TRUE
  /\ said = "nothing"
  /\ hpc = "idle"
  /\ answer = [q \in Questions |-> "none"]
  /\ processed = [q \in Questions |-> FALSE]
  /\ cancelled = FALSE
  /\ rpc = "hooks"
  /\ conn = "none"
  /\ delivered = FALSE
  /\ alive = TRUE
  /\ deadline = "none"
  /\ timedOut = FALSE
  /\ retry = FALSE
  /\ force = FALSE

---------------------------------------------------------------------------
(* Helpers *)

Tell(kind) == said' = IF up THEN kind ELSE said

At(place) == rpc = place
Goto(place) == rpc' = place

\* The connection is closed; nobody reads from it any more.
CloseConn == /\ conn' = IF conn = "none" THEN "none" ELSE "closed"
             /\ deadline' = "none"
             /\ timedOut' = FALSE

SshLike == protocol \in {"ssh", "mosh", "et"}

\* Mutant: Close leaves the answers' channels open.
NeverClosed == hpc \notin Calls
AnswersClosed == hpc \in {"closing", "waiting", "closed", "released"}

---------------------------------------------------------------------------
(* The handler goroutine *)

\* Mutant: an answer may be given twice.
NotProcessed(q) == UNCHANGED processed
MarkProcessed(q) == processed' = [processed EXCEPT ![q] = TRUE]

\* Only one answer to each question is taken, wanted or not: the channels have
\* room for one.  SSH waits with a refusal until it can close the connection.
TickAnswer(q) ==
  /\ SshLike /\ hpc = "idle"
  /\ \/ /\ processed[q]
        /\ hpc' = "failing"
        /\ UNCHANGED <<answer, processed>>
     \/ /\ ~processed[q]
        /\ MarkProcessed(q)
        /\ \E yesno \in IF q = "fingerprint" THEN {"yes", "no"} ELSE {"yes"} :
             IF answer[q] # "none"
               THEN hpc' = "stuck" /\ UNCHANGED answer
               ELSE /\ answer' = [answer EXCEPT ![q] = yesno]
                    /\ hpc' = IF protocol = "ssh" /\ yesno = "no" THEN "refusing" ELSE "idle"
  /\ UNCHANGED <<wireVars, cancelled, rpc, netVars>>

\* Any other frame the state function does not know, or cannot read.
TickFails ==
  /\ hpc = "idle"
  /\ hpc' = "failing"
  /\ UNCHANGED <<wireVars, answer, processed, cancelled, rpc, netVars>>

\* The start of Close.
CallClose ==
  /\ hpc \in {"idle", "failing"}
  /\ hpc' = "closing"
  /\ processed' = [q \in Questions |-> TRUE]
  /\ cancelled' = TRUE
  /\ UNCHANGED <<wireVars, answer, rpc, netVars>>

CloseReturns ==
  /\ hpc = "waiting" /\ At("ended")
  /\ hpc' = "closed"
  /\ UNCHANGED <<wireVars, answer, processed, cancelled, rpc, netVars>>

CallRelease ==
  /\ hpc = "closed"
  /\ hpc' = "released"
  /\ cancelled' = TRUE
  /\ UNCHANGED <<wireVars, answer, processed, rpc, netVars>>

CallStep == (\E q \in Questions : TickAnswer(q)) \/ TickFails \/ CallClose \/ CloseReturns

---------------------------------------------------------------------------
(* The goroutine: hooks and dial *)

HookOutput ==
  /\ At("hooks")
  /\ Tell("hook")
  /\ UNCHANGED <<protocol, up, callVars, cancelled, rpc, netVars>>

\* A hook or a check of the remote's address fails, or all are passed.
HooksEnd ==
  /\ At("hooks")
  /\ Goto("dial") \/ Goto("report")
  /\ UNCHANGED <<wireVars, callVars, cancelled, netVars>>

\* The context bounds the dial, the deadline what is read after it.
Dial ==
  /\ At("dial")
  /\ \/ /\ conn' = "open"
        /\ Goto(IF SshLike THEN "kex" ELSE "greet")
        /\ deadline' = IF SshLike THEN "armed" ELSE "none"
     \/ Goto("report") /\ UNCHANGED <<conn, deadline>>
  /\ UNCHANGED <<wireVars, callVars, cancelled, delivered, alive, timedOut, retry, force>>

---------------------------------------------------------------------------
(* dialRemote: the SSH handshake under its read deadline.  The host's key is *)
(* always checked, and nobody reads meanwhile; a credential is asked for     *)
(* unless the preset has it, and meanwhile the library goes on reading.      *)

Ask(question) ==
  /\ Tell("prompt")
  /\ IF up
       THEN Goto(question) /\ retry' = TRUE /\ UNCHANGED <<conn, deadline, timedOut, force>>
       ELSE Goto("report") /\ CloseConn /\ retry' = FALSE /\ force' = TRUE
  /\ UNCHANGED <<protocol, up, callVars, cancelled, delivered, alive>>

AskFingerprint == At("kex") /\ conn = "open" /\ ~timedOut /\ Ask("fingerprint")

AskCredential == At("auth") /\ conn = "open" /\ Ask("credential")

\* The answer, or the news that the channel is closed.
Hear(question, next) ==
  /\ At(question)
  /\ answer[question] # "none" \/ AnswersClosed
  /\ answer' = [answer EXCEPT ![question] = "none"]
  /\ retry' = FALSE
  /\ force' = TRUE
  /\ IF answer[question] = "yes"
       THEN Goto(next) /\ UNCHANGED <<conn, deadline, timedOut>>
       ELSE Goto("report") /\ CloseConn
  /\ UNCHANGED <<wireVars, hpc, processed, cancelled, delivered, alive>>

HearFingerprint == Hear("fingerprint", "auth")

HearCredential == Hear("credential", "login")

\* The host refuses, or cannot be read from any more.
HandshakeFails ==
  /\ rpc \in {"kex", "auth", "login"}
  /\ Goto("report")
  /\ CloseConn
  /\ UNCHANGED <<wireVars, callVars, cancelled, delivered, alive, retry, force>>

\* Logged in, with a credential of the user's or without one.
LogIn ==
  /\ rpc \in {"auth", "login"} /\ conn = "open"
  /\ Goto(IF protocol = "et" THEN "clear" ELSE "setup")
  /\ UNCHANGED <<wireVars, callVars, cancelled, netVars>>

\* Time passes.
DeadlinePasses ==
  /\ deadline = "armed"
  /\ deadline' = "passed"
  /\ UNCHANGED <<wireVars, callVars, cancelled, rpc, conn, delivered, alive,
                 timedOut, retry, force>>

ReadTimesOut ==
  /\ deadline = "passed" /\ conn = "open" /\ ~timedOut
  /\ ~At("fingerprint")
  /\ timedOut' = TRUE
  /\ UNCHANGED <<wireVars, callVars, cancelled, rpc, conn, delivered, alive,
                 deadline, retry, force>>

\* requestTimeoutRetry: a new deadline while the user is asked, and once more
\* after that.
RetryRead ==
  /\ timedOut
  /\ timedOut' = FALSE
  /\ IF retry \/ force
       THEN deadline' = "armed" /\ force' = (force /\ retry) /\ UNCHANGED conn
       ELSE conn' = "broken" /\ deadline' = "none" /\ UNCHANGED force
  /\ UNCHANGED <<wireVars, callVars, cancelled, rpc, delivered, alive, retry>>

\* The function that dialRemote returns.
ClearDeadline == deadline' = "none" /\ retry' = FALSE /\ force' = TRUE

---------------------------------------------------------------------------
(* The goroutine: what all protocols have in common further on *)

Report ==
  /\ At("report")
  /\ Tell("report")
  /\ Goto("cleanup")
  /\ UNCHANGED <<protocol, up, callVars, cancelled, netVars>>

\* The remote goes into its channel, which has room for it.
Deliver(next) ==
  /\ At("deliver")
  /\ delivered' = TRUE
  /\ Goto(next)
  /\ UNCHANGED <<wireVars, callVars, cancelled, conn, alive, deadlineVars>>

SignalClose ==
  /\ At("signal")
  /\ Tell("close")
  /\ Goto("end")
  /\ UNCHANGED <<protocol, up, callVars, cancelled, netVars>>

\* The channel of the remote is closed, the context cancelled, Done called.
End ==
  /\ At("end")
  /\ cancelled' = TRUE
  /\ Goto("ended")
  /\ UNCHANGED <<wireVars, callVars, netVars>>

\* The host's end of the session ends.
HangUp ==
  /\ alive /\ protocol # "et"
  /\ rpc \in {"clear", "ready", "deliver", "greet", "flush", "stream"}
  /\ alive' = FALSE
  /\ UNCHANGED <<wireVars, callVars, cancelled, rpc, conn, delivered, deadlineVars>>

\* The WebSocket breaks.
GoDown ==
  /\ up
  /\ up' = FALSE
  /\ UNCHANGED <<protocol, said, callVars, cancelled, rpc, netVars>>

SshHandshake == \/ AskFingerprint \/ AskCredential \/ HearFingerprint
                \/ HearCredential \/ HandshakeFails \/ LogIn

Reading == DeadlinePasses \/ ReadTimesOut \/ RetryRead

RemoteStep == HookOutput \/ HooksEnd \/ Dial \/ Report \/ SignalClose \/ End

SessionStep == CallStep \/ RemoteStep \/ Reading \/ HangUp \/ GoDown
============================================================================
