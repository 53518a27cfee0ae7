------------------------------ MODULE Sessions ------------------------------
(***************************************************************************)
(* One session, of any of the four protocols, from Bootup to Release.      *)
(***************************************************************************)
EXTENDS SshSession, TelnetSession, MoshSession, EtSession

vars == <<sessionVars, sshVars, moshVars, etVars>>

Init ==
  /\ CommonInit
  /\ errOut = "none"
  /\ session = "none" /\ monitor = "none"
  /\ process = "none" /\ cached = FALSE
  /\ reader = "none" /\ results = "empty" /\ pending = FALSE
  /\ key = FALSE /\ tempDir = FALSE

Common ==
  \/ SessionStep
  \/ ~Et /\ (SshHandshake \/ CallRelease)

Next ==
  \/ Common /\ UNCHANGED <<sshVars, moshVars, etVars>>
  \/ Et /\ EtHandshake /\ UNCHANGED <<sshVars, moshVars>>
  \/ TelnetStep /\ UNCHANGED <<sshVars, moshVars, etVars>>
  \/ (SshStep \/ DialledCall) /\ UNCHANGED <<moshVars, etVars>>
  \/ (MoshStep \/ MoshCall) /\ UNCHANGED <<sshVars, etVars>>
  \/ (EtGoroutine \/ ProcessDies \/ Reader \/ EtCall) /\ UNCHANGED <<sshVars, moshVars>>

---------------------------------------------------------------------------
(* Fairness: what runs goes on, and deadlines pass.  Users answer, type and *)
(* go as they like, and hosts answer, write and hang up as they like: what  *)
(* waits for one of them is only certain to go on when the wait is cut      *)
(* short.                                                                   *)

\* A call that can return does; Close and Release are called by a handler that
\* does not stop half way.
CallReturns == \/ WriteInput \/ Refuse
               \/ CloseRemote \/ MoshClose \/ EtClose
               \/ CloseReturns \/ CallRelease

\* Hooks and dial are bounded by contexts, a handshake by its deadline.
Opens == \/ HooksEnd \/ Dial \/ HearFingerprint \/ HearCredential
         \/ conn # "open" /\ (HandshakeFails \/ SetUpShell \/ Bootstrap)
         \/ SshClear \/ BuildSession \/ AwaitReady
         \/ EtClear \/ EtMaterial \/ EtStart \/ EtCache
         \/ SshDeliver \/ TelnetDeliver \/ MoshDeliver
         \/ SshGreet \/ TelnetGreet \/ MoshGreet \/ EtGreet \/ EtFlush \/ MoshFlush

\* What was received before the end is finite.
Ends == \/ TelnetReadEnds \/ SshReadEnds
        \/ MoshOver /\ MoshReceive
        \/ results = "error" /\ EtOutput
        \/ Report \/ ExitWait
        \/ TelnetCleanup \/ SshCleanup \/ MoshCleanup \/ EtCleanup
        \/ ErrWait \/ SignalClose \/ End

\* The other goroutines.
Watches == MonitorSees \/ MonitorCloses \/ MonitorStops

ReaderEnds == process # "running" /\ reader' = "error" /\ ReadProcess

\* exec's own goroutine kills the process when the context is done.
Killed == cancelled /\ ProcessDies

Fairness ==
  /\ WF_vars(CallReturns /\ Next)
  /\ WF_vars(Opens /\ Next)
  /\ WF_vars(Ends /\ Next)
  /\ WF_vars(EtOutput /\ Next)
  /\ WF_vars(ErrOutEnds /\ Next)
  /\ WF_vars(Watches /\ Next)
  /\ SF_vars(ReaderEnds /\ Next)
  /\ WF_vars(SendResult /\ Next)
  /\ WF_vars(Killed /\ Next)
  /\ WF_vars(DeadlinePasses /\ Next)
  /\ WF_vars(ReadTimesOut /\ Next)
  /\ WF_vars(RetryRead /\ Next)

Spec == Init /\ [][Next]_vars /\ Fairness

---------------------------------------------------------------------------
(* Properties *)

\* Every variable of a session stays within its type, and d.process is never a
\* process that has been waited for.
SessionTypeOK ==
  /\ CommonTypeOK
  /\ errOut \in {"none", "reading"}
  /\ session \in {"none", "open", "closed"}
  /\ monitor \in {"none", "watching", "closing", "done"}
  /\ process \in {"none", "running", "dead", "reaped"}
  /\ cached \in BOOLEAN /\ (cached => process \in {"running", "dead"})
  /\ reader \in {"none", "reading", "data", "error", "done"}
  /\ results \in {"empty", "data", "error"} /\ pending \in BOOLEAN
  /\ key \in BOOLEAN /\ tempDir \in BOOLEAN

\* After Release nothing of the session is left: the goroutine has ended, the
\* connection, the Mosh session and the et program are closed, and the private
\* key is neither in memory nor on disk, whatever was going on when Close came.
ReleasedMeansClean ==
  hpc = "released" =>
    /\ At("ended") /\ errOut = "none"
    /\ conn \in {"none", "closed"} /\ session # "open"
    /\ process \in {"none", "reaped"} /\ ~cached
    /\ ~key /\ ~tempDir

\* A tick never blocks the handler, and with it every other stream of the
\* WebSocket, on an answer: the channels of answers have room for what is sent.
HandlerNeverStuck == hpc # "stuck"

\* Once the browser has been told that it is connected, there is something its
\* input goes to: what Mosh and ET drop is only what comes before that.
InputIsNotDropped ==
  said \in {"connected", "output"} /\ ~cancelled =>
    /\ Mosh => session # "none"
    /\ Et /\ process = "running" => cached

\* What the browser is told follows the dialogue that its user interface knows:
\* no output before the greeting, and nothing from any goroutine after CLOSE.
Talk == INSTANCE Dialogue
SpeaksInTurn == Talk!Spec

\* Close returns and the machine is released, whatever it was doing: dialling,
\* waiting for an answer that never comes, or streaming.  (Not so for ET.)
CloseReturnsInTheEnd == ~Et /\ hpc = "closing" ~> hpc = "released"

\* A host that ends the session is noticed, and the browser told.  Mosh only
\* knows from its monitor; and an end that Close has already brought about in ET
\* is another matter.
Gone ==
  \/ protocol \in {"ssh", "telnet"} /\ ~alive
  \/ Mosh /\ ~alive /\ conn = "open" /\ monitor = "watching"
  \/ Et /\ process = "dead" /\ ~cancelled
Excused == ~up \/ (Mosh /\ conn = "broken") \/ (Et /\ cancelled)
RemoteEndIsTold == At("stream") /\ Gone ~> said = "close" \/ Excused

\* The goroutines that a session has started end with it.
HelpersEnd == hpc = "released" ~> monitor \in {"none", "done"} /\ reader \in {"none", "done"}

\* The same for ET, which its Close does not keep: the reader may drop the last
\* result for which the goroutine waits.
CloseAlwaysReturns == hpc = "closing" ~> hpc = "released"
============================================================================
