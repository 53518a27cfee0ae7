--------------------------- MODULE SessionProofs ---------------------------
(***************************************************************************)
(* What a session leaves behind and what it tells the browser, for any of  *)
(* the four protocols, whatever the user, the host and the deadlines do:   *)
(* ReleasedMeansClean, HandlerNeverStuck, InputIsNotDropped and            *)
(* SpeaksInTurn.                                                           *)
(*                                                                         *)
(* None of the four is inductive: each speaks of the end or of what is     *)
(* said, and what leads there is spread over goroutines that do not wait   *)
(* for each other.  SessionInv says of every place of the session's        *)
(* goroutine what there is to be closed there (Owners, ConnIsClosed,       *)
(* MoshIsClosed, EtIsClosed), how far the calls of the handler have come   *)
(* (CallsFollow) and what has been said (TalkFollows).                     *)
(***************************************************************************)
EXTENDS Sessions, TLAPS

\* An answer is in its channel only if the question is marked as answered, and so no
\* second one is sent to a channel that is full.
AnswersHaveRoom ==
  /\ \A q \in Questions : answer[q] # "none" => processed[q]
  /\ hpc # "stuck"

\* What there is of a protocol is only there in its sessions.
Owners ==
  /\ rpc \in {"exitwait", "errwait"} => Ssh
  /\ errOut = "reading" => Ssh /\ rpc \in {"stream", "exitwait", "cleanup", "errwait"}
  /\ rpc \in {"build", "ready"} => Mosh
  /\ ~Mosh => session = "none" /\ monitor = "none"
  /\ rpc \in {"material", "start", "cache", "startup"} => Et
  /\ ~Et => /\ process = "none" /\ ~cached /\ reader = "none"
            /\ results = "empty" /\ ~pending /\ ~key /\ ~tempDir

\* The connection is not open before the dial, nor after the cleanup; that of ET, which
\* is not cleaned up, is closed when the login is over.
ConnIsClosed ==
  /\ timedOut => conn = "open"
  /\ rpc \in {"hooks", "dial"} => conn = "none"
  /\ rpc \in {"errwait", "signal", "end", "ended"} => conn \in {"none", "closed"}
  /\ Et /\ rpc \in {"material", "start", "cache", "startup", "flush", "stream",
                    "report", "cleanup"} => conn \in {"none", "closed"}

\* A Mosh session is there before the browser is told of it, and is closed at the end.
MoshIsClosed ==
  /\ rpc \in {"signal", "end", "ended"} => session # "open"
  /\ Mosh /\ rpc \in {"ready", "deliver", "greet", "flush", "stream"} => session # "none"
  /\ Mosh /\ said \in {"connected", "output"} => session # "none"

\* The et program runs from its start to the cleanup, and Close finds it; of its secrets
\* the directory goes with the cleanup, the key with Release.
EtIsClosed ==
  /\ process \in {"running", "dead"} => cached \/ rpc = "cache"
  /\ rpc = "cache" => process \in {"running", "dead"} /\ ~cached
  /\ rpc \in {"hooks", "dial", "kex", "fingerprint", "auth", "credential", "login", "clear",
              "material", "start"} => process = "none"
  /\ rpc \in {"signal", "end", "ended"} => ~cached /\ ~tempDir

\* Close waits for the goroutine, and Release comes after it.
CallsFollow ==
  /\ hpc \in {"closed", "released"} => rpc = "ended"
  /\ hpc = "released" => ~key

\* What has been said by the time the goroutine is somewhere.
TalkFollows ==
  /\ rpc \in {"hooks", "dial", "kex", "fingerprint", "auth", "credential", "login", "setup",
              "clear", "material", "start", "cache", "startup", "build", "ready", "report",
              "greet"} => said \in Talk!Opening
  /\ rpc = "deliver" /\ Telnet => said = "connected"
  /\ rpc = "deliver" /\ ~Telnet => said \in Talk!Opening
  /\ rpc = "flush" => said = "connected"
  /\ rpc = "stream" => said \in {"connected", "output"}
  /\ errOut = "reading" => said \in {"connected", "output"}
  /\ said = "close" => rpc \in {"end", "ended"}

SessionInv == /\ SessionTypeOK /\ AnswersHaveRoom /\ Owners /\ ConnIsClosed /\ MoshIsClosed
              /\ EtIsClosed /\ CallsFollow /\ TalkFollows

---------------------------------------------------------------------------
(* The calls of the handler                                                *)

\* An answer is only put into a channel that is empty, and the question is marked.
LEMMA AnswerKeeps ==
  ASSUME SessionInv, NEW q \in Questions, TickAnswer(q),
         UNCHANGED <<sshVars, moshVars, etVars>>
  PROVE  SessionInv'
<1> USE DEF SessionInv, SessionTypeOK, CommonTypeOK, Questions, Calls
<1>1. /\ answer' \in [Questions -> {"none", "yes", "no"}]
      /\ processed' \in [Questions -> BOOLEAN]
      /\ \A x \in Questions : answer'[x] # "none" => processed'[x]
      /\ hpc = "idle" /\ hpc' \in {"idle", "refusing", "failing"}
  <2>1. CASE processed[q]
    BY <2>1 DEF TickAnswer, AnswersHaveRoom, callVars
  <2>2. CASE ~processed[q]
    <3>1. answer[q] = "none"
      BY <2>2 DEF AnswersHaveRoom
    <3>2. PICK yesno \in {"yes", "no"} : answer' = [answer EXCEPT ![q] = yesno]
      BY <2>2, <3>1 DEF TickAnswer
    <3>3. processed' = [processed EXCEPT ![q] = TRUE]
      BY <2>2 DEF TickAnswer, MarkProcessed
    <3>4. hpc = "idle" /\ hpc' \in {"idle", "refusing"}
      BY <2>2, <3>1 DEF TickAnswer
    <3> QED
      BY <3>2, <3>3, <3>4 DEF AnswersHaveRoom
  <2> QED
    BY <2>1, <2>2
<1>2. UNCHANGED <<wireVars, cancelled, rpc, netVars>>
  BY DEF TickAnswer
<1> QED
  BY <1>1, <1>2 DEF AnswersHaveRoom, Owners, ConnIsClosed, MoshIsClosed, EtIsClosed,
    CallsFollow, TalkFollows, Talk!Opening, wireVars, deadlineVars, netVars, sshVars,
    moshVars, etVars, processVars, readerVars, secretVars, Ssh, Telnet, Mosh, Et

\* From here on to the end of the actions, one step per action is enough for the prover
\* when it sees the parts of the invariant; a variable that is set to FALSE needs to be
\* shown a Boolean on its own.
USE DEF SessionInv, SessionTypeOK, CommonTypeOK, AnswersHaveRoom, Owners, ConnIsClosed,
        MoshIsClosed, EtIsClosed, CallsFollow, TalkFollows, Talk!Opening, wireVars,
        callVars, deadlineVars, netVars, sshVars, moshVars, etVars, processVars,
        readerVars, secretVars, Calls, Places, Questions, Ssh, Telnet, Mosh, Et,
        SshLike, At, Goto, Tell, CloseConn

\* A step of the calls in a session of any protocol.
LEMMA CallsKeep ==
  ASSUME SessionInv, CallStep, UNCHANGED <<sshVars, moshVars, etVars>>
  PROVE  SessionInv'
<1>1. ASSUME NEW q \in Questions, TickAnswer(q) PROVE SessionInv'
  BY ONLY <1>1, SessionInv, UNCHANGED <<sshVars, moshVars, etVars>>, AnswerKeeps
<1>2. CASE TickFails
  BY <1>2 DEF TickFails
<1>3. CASE CallClose
  BY <1>3 DEF CallClose
<1>4. CASE CloseReturns
  BY <1>4 DEF CloseReturns
<1> QED
  BY <1>1, <1>2, <1>3, <1>4 DEF CallStep

\* Release, without the process and the key that only ET has.
LEMMA ReleaseKeeps ==
  ASSUME SessionInv, CallRelease, ~Et,
         UNCHANGED <<sshVars, moshVars, etVars>>
  PROVE  SessionInv'
<1> QED
  BY DEF CallRelease

\* The calls that SSH and Telnet answer with the remote they are given.
LEMMA DialledKeeps ==
  ASSUME SessionInv, DialledCall, UNCHANGED <<moshVars, etVars>>
  PROVE  SessionInv'
<1>1. CASE CallInput
  BY <1>1 DEF CallInput, Dialled
<1>2. CASE WriteInput
  <2>1. timedOut' \in BOOLEAN
    BY <1>2, Zenon DEF WriteInput, HasRemote
  <2> QED
    BY <1>2, <2>1 DEF WriteInput, HasRemote
<1>3. CASE Refuse
  <2>1. timedOut' \in BOOLEAN
    BY <1>3, Zenon DEF Refuse, HasRemote, CloseDelivered
  <2> QED
    BY <1>3, <2>1 DEF Refuse, HasRemote, CloseDelivered
<1>4. CASE CloseRemote
  <2>1. timedOut' \in BOOLEAN
    BY <1>4, Zenon DEF CloseRemote, Dialled, HasRemote, CloseDelivered
  <2> QED
    BY <1>4, <2>1 DEF CloseRemote, Dialled, HasRemote, CloseDelivered
<1> QED
  BY <1>1, <1>2, <1>3, <1>4 DEF DialledCall

\* The calls of Mosh.
LEMMA MoshCallKeeps ==
  ASSUME SessionInv, MoshCall, UNCHANGED <<sshVars, etVars>>
  PROVE  SessionInv'
<1>1. CASE MoshInput
  BY <1>1 DEF MoshInput
<1>2. CASE MoshClose
  BY <1>2 DEF MoshClose
<1> QED
  BY <1>1, <1>2 DEF MoshCall

\* The calls of ET.
LEMMA EtCallKeeps ==
  ASSUME SessionInv, EtCall, UNCHANGED <<sshVars, moshVars>>
  PROVE  SessionInv'
<1>1. CASE EtInput
  <2>1. cached' \in BOOLEAN
    BY <1>1, Zenon DEF EtInput, CloseProcess
  <2> QED
    BY <1>1, <2>1 DEF EtInput, CloseProcess
<1>2. CASE EtClose
  <2>1. cached' \in BOOLEAN
    BY <1>2, Zenon DEF EtClose, CloseProcess
  <2>2. key' \in BOOLEAN
    BY <1>2, Zenon DEF EtClose, CloseProcess
  <2> QED
    BY <1>2, <2>1, <2>2 DEF EtClose, CloseProcess
<1>3. CASE EtRelease
  <2>1. cached' \in BOOLEAN
    BY <1>3, Zenon DEF EtRelease, CallRelease, CloseProcess, ForgetKey
  <2>2. key' \in BOOLEAN
    BY <1>3, Zenon DEF EtRelease, CallRelease, CloseProcess, ForgetKey
  <2> QED
    BY <1>3, <2>1, <2>2 DEF EtRelease, CallRelease, CloseProcess, ForgetKey
<1> QED
  BY <1>1, <1>2, <1>3 DEF EtCall

---------------------------------------------------------------------------
(* The goroutine of the session, and time                                  *)

\* What the goroutine does in every protocol.
LEMMA RemoteKeeps ==
  ASSUME SessionInv, RemoteStep, UNCHANGED <<sshVars, moshVars, etVars>>
  PROVE  SessionInv'
<1>1. CASE HookOutput
  BY <1>1 DEF HookOutput
<1>2. CASE HooksEnd
  BY <1>2 DEF HooksEnd
<1>3. CASE Dial
  BY <1>3 DEF Dial
<1>4. CASE Report
  BY <1>4 DEF Report
<1>5. CASE SignalClose
  BY <1>5 DEF SignalClose
<1>6. CASE End
  BY <1>6 DEF End
<1> QED
  BY <1>1, <1>2, <1>3, <1>4, <1>5, <1>6 DEF RemoteStep

\* Deadlines pass, and reads are cut short by them.
LEMMA ReadingKeeps ==
  ASSUME SessionInv, Reading, UNCHANGED <<sshVars, moshVars, etVars>>
  PROVE  SessionInv'
<1>1. CASE DeadlinePasses
  BY <1>1 DEF DeadlinePasses
<1>2. CASE ReadTimesOut
  BY <1>2 DEF ReadTimesOut
<1>3. CASE RetryRead
  <2>1. timedOut' \in BOOLEAN
    BY <1>3, Zenon DEF RetryRead
  <2>2. force' \in BOOLEAN
    BY <1>3, Zenon DEF RetryRead
  <2> QED
    BY <1>3, <2>1, <2>2 DEF RetryRead
<1> QED
  BY <1>1, <1>2, <1>3 DEF Reading

\* The host or the WebSocket goes.
LEMMA LossKeeps ==
  ASSUME SessionInv, HangUp \/ GoDown, UNCHANGED <<sshVars, moshVars, etVars>>
  PROVE  SessionInv'
<1>1. CASE HangUp
  <2>1. alive' \in BOOLEAN
    BY <1>1, Zenon DEF HangUp
  <2> QED
    BY <1>1, <2>1 DEF HangUp
<1>2. CASE GoDown
  <2>1. up' \in BOOLEAN
    BY <1>2, Zenon DEF GoDown
  <2> QED
    BY <1>2, <2>1 DEF GoDown
<1> QED
  BY <1>1, <1>2

\* The handshake up to the login, where ET may also take note of the key.
LEMMA HandshakeKeeps ==
  ASSUME SessionInv, SshHandshake,
         UNCHANGED <<sshVars, moshVars, processVars, readerVars, tempDir>>,
         Et \/ key' = key, key' \in BOOLEAN
  PROVE  SessionInv'
<1>1. CASE AskFingerprint
  <2>1. timedOut' \in BOOLEAN
    BY <1>1, Zenon DEF AskFingerprint, Ask
  <2>2. retry' \in BOOLEAN
    BY <1>1, Zenon DEF AskFingerprint, Ask
  <2>3. force' \in BOOLEAN
    BY <1>1, Zenon DEF AskFingerprint, Ask
  <2> QED
    BY <1>1, <2>1, <2>2, <2>3 DEF AskFingerprint, Ask
<1>2. CASE AskCredential
  <2>1. timedOut' \in BOOLEAN
    BY <1>2, Zenon DEF AskCredential, Ask
  <2>2. retry' \in BOOLEAN
    BY <1>2, Zenon DEF AskCredential, Ask
  <2>3. force' \in BOOLEAN
    BY <1>2, Zenon DEF AskCredential, Ask
  <2> QED
    BY <1>2, <2>1, <2>2, <2>3 DEF AskCredential, Ask
<1>3. CASE HearFingerprint
  <2>1. timedOut' \in BOOLEAN
    BY <1>3, Zenon DEF HearFingerprint, Hear
  <2>2. retry' \in BOOLEAN
    BY <1>3, Zenon DEF HearFingerprint, Hear
  <2>3. force' \in BOOLEAN
    BY <1>3, Zenon DEF HearFingerprint, Hear
  <2> QED
    BY <1>3, <2>1, <2>2, <2>3 DEF HearFingerprint, Hear
<1>4. CASE HearCredential
  <2>1. timedOut' \in BOOLEAN
    BY <1>4, Zenon DEF HearCredential, Hear
  <2>2. retry' \in BOOLEAN
    BY <1>4, Zenon DEF HearCredential, Hear
  <2>3. force' \in BOOLEAN
    BY <1>4, Zenon DEF HearCredential, Hear
  <2> QED
    BY <1>4, <2>1, <2>2, <2>3 DEF HearCredential, Hear
<1>5. CASE HandshakeFails
  <2>1. timedOut' \in BOOLEAN
    BY <1>5, Zenon DEF HandshakeFails
  <2> QED
    BY <1>5, <2>1 DEF HandshakeFails
<1>6. CASE LogIn
  BY <1>6 DEF LogIn
<1> QED
  BY <1>1, <1>2, <1>3, <1>4, <1>5, <1>6 DEF SshHandshake

---------------------------------------------------------------------------
(* The protocols                                                           *)

\* The steps of an SSH session.
LEMMA SshKeeps ==
  ASSUME SessionInv, SshStep, UNCHANGED <<moshVars, etVars>>
  PROVE  SessionInv'
<1>1. CASE SetUpShell
  BY <1>1 DEF SetUpShell
<1>2. CASE SshClear
  <2>1. retry' \in BOOLEAN
    BY <1>2, Zenon DEF SshClear, ClearDeadline
  <2>2. force' \in BOOLEAN
    BY <1>2, Zenon DEF SshClear, ClearDeadline
  <2> QED
    BY <1>2, <2>1, <2>2 DEF SshClear, ClearDeadline
<1>3. CASE SshDeliver
  BY <1>3 DEF SshDeliver, Deliver
<1>4. CASE SshGreet
  BY <1>4 DEF SshGreet
<1>5. CASE SshOutput
  BY <1>5 DEF SshOutput
<1>6. CASE SshReadEnds
  BY <1>6 DEF SshReadEnds
<1>7. CASE ErrOutput
  BY <1>7 DEF ErrOutput
<1>8. CASE ErrOutEnds
  BY <1>8 DEF ErrOutEnds, SshOver, sessionVars
<1>9. CASE ExitWait
  BY <1>9 DEF ExitWait
<1>10. CASE SshCleanup
  <2>1. timedOut' \in BOOLEAN
    BY <1>10, Zenon DEF SshCleanup
  <2> QED
    BY <1>10, <2>1 DEF SshCleanup
<1>11. CASE ErrWait
  BY <1>11 DEF ErrWait, ErrOutDone
<1> QED
  BY <1>1, <1>2, <1>3, <1>4, <1>5, <1>6, <1>7, <1>8, <1>9, <1>10, <1>11 DEF SshStep

\* The steps of a Telnet session.
LEMMA TelnetKeeps ==
  ASSUME SessionInv, TelnetStep, UNCHANGED <<sshVars, moshVars, etVars>>
  PROVE  SessionInv'
<1>1. CASE TelnetGreet
  BY <1>1 DEF TelnetGreet
<1>2. CASE TelnetDeliver
  BY <1>2 DEF TelnetDeliver, Deliver
<1>3. CASE TelnetOutput
  BY <1>3 DEF TelnetOutput
<1>4. CASE TelnetReadEnds
  BY <1>4 DEF TelnetReadEnds
<1>5. CASE TelnetCleanup
  <2>1. timedOut' \in BOOLEAN
    BY <1>5, Zenon DEF TelnetCleanup
  <2> QED
    BY <1>5, <2>1 DEF TelnetCleanup
<1> QED
  BY <1>1, <1>2, <1>3, <1>4, <1>5 DEF TelnetStep

\* The steps of a Mosh session and of its monitor.
LEMMA MoshKeeps ==
  ASSUME SessionInv, MoshStep, UNCHANGED <<sshVars, etVars>>
  PROVE  SessionInv'
<1>1. CASE Bootstrap
  <2>1. retry' \in BOOLEAN
    BY <1>1, Zenon DEF Bootstrap, ClearDeadline
  <2>2. force' \in BOOLEAN
    BY <1>1, Zenon DEF Bootstrap, ClearDeadline
  <2> QED
    BY <1>1, <2>1, <2>2 DEF Bootstrap, ClearDeadline
<1>2. CASE BuildSession
  BY <1>2 DEF BuildSession
<1>3. CASE AwaitReady
  BY <1>3 DEF AwaitReady
<1>4. CASE MoshDeliver
  BY <1>4 DEF MoshDeliver, Deliver
<1>5. CASE MoshGreet
  BY <1>5 DEF MoshGreet
<1>6. CASE MoshFlush
  BY <1>6 DEF MoshFlush
<1>7. CASE MoshReceive
  BY <1>7 DEF MoshReceive, Received
<1>8. CASE MoshCleanup
  <2>1. cancelled' \in BOOLEAN
    BY <1>8, Zenon DEF MoshCleanup
  <2>2. timedOut' \in BOOLEAN
    BY <1>8, Zenon DEF MoshCleanup
  <2> QED
    BY <1>8, <2>1, <2>2 DEF MoshCleanup
<1>9. CASE MonitorSees
  BY <1>9 DEF MonitorSees
<1>10. CASE MonitorCloses
  BY <1>10 DEF MonitorCloses, sessionVars
<1>11. CASE MonitorStops
  BY <1>11 DEF MonitorStops, sessionVars
<1>12. CASE LoginBreaks
  <2>1. timedOut' \in BOOLEAN
    BY <1>12, Zenon DEF LoginBreaks
  <2> QED
    BY <1>12, <2>1 DEF LoginBreaks
<1> QED
  BY <1>1, <1>2, <1>3, <1>4, <1>5, <1>6, <1>7, <1>8, <1>9, <1>10, <1>11, <1>12 DEF MoshStep

\* The steps of an ET session.
LEMMA EtKeeps ==
  ASSUME SessionInv, EtGoroutine, UNCHANGED <<sshVars, moshVars>>
  PROVE  SessionInv'
<1>1. CASE EtClear
  <2>1. timedOut' \in BOOLEAN
    BY <1>1, Zenon DEF EtClear
  <2>2. retry' \in BOOLEAN
    BY <1>1, Zenon DEF EtClear
  <2>3. force' \in BOOLEAN
    BY <1>1, Zenon DEF EtClear
  <2> QED
    BY <1>1, <2>1, <2>2, <2>3 DEF EtClear
<1>2. CASE EtMaterial
  <2>1. tempDir' \in BOOLEAN
    BY <1>2, Zenon DEF EtMaterial
  <2> QED
    BY <1>2, <2>1 DEF EtMaterial
<1>3. CASE EtStart
  BY <1>3 DEF EtStart
<1>4. CASE EtCache
  BY <1>4 DEF EtCache, CacheProcess
<1>5. CASE StartupResult
  <2>1. pending' \in BOOLEAN
    BY <1>5, Zenon DEF StartupResult
  <2> QED
    BY <1>5, <2>1 DEF StartupResult
<1>6. CASE EtGreet
  BY <1>6 DEF EtGreet
<1>7. CASE EtFlush
  <2>1. pending' \in BOOLEAN
    BY <1>7, Zenon DEF EtFlush
  <2> QED
    BY <1>7, <2>1 DEF EtFlush
<1>8. CASE EtOutput
  BY <1>8 DEF EtOutput
<1>9. CASE EtCleanup
  <2>1. cached' \in BOOLEAN
    BY <1>9, Zenon DEF EtCleanup, CloseProcess
  <2>2. tempDir' \in BOOLEAN
    BY <1>9, Zenon DEF EtCleanup, CloseProcess
  <2> QED
    BY <1>9, <2>1, <2>2 DEF EtCleanup, CloseProcess
<1> QED
  BY <1>1, <1>2, <1>3, <1>4, <1>5, <1>6, <1>7, <1>8, <1>9 DEF EtGoroutine

\* The et program dies, and its reader reads.
LEMMA ReaderKeeps ==
  ASSUME SessionInv, ProcessDies \/ Reader, UNCHANGED <<sshVars, moshVars>>
  PROVE  SessionInv'
<1>1. CASE ProcessDies
  BY <1>1 DEF ProcessDies, sessionVars
<1>2. CASE ReadProcess
  BY <1>2 DEF ReadProcess, sessionVars
<1>3. CASE SendResult
  BY <1>3 DEF SendResult, sessionVars
<1> QED
  BY <1>1, <1>2, <1>3 DEF Reader

HIDE DEF SessionInv, SessionTypeOK, CommonTypeOK, AnswersHaveRoom, Owners, ConnIsClosed,
         MoshIsClosed, EtIsClosed, CallsFollow, TalkFollows, Talk!Opening, wireVars,
         callVars, deadlineVars, netVars, sshVars, moshVars, etVars, processVars,
         readerVars, secretVars, Calls, Places, Questions, Ssh, Telnet, Mosh, Et,
         SshLike, At, Goto, Tell, CloseConn

---------------------------------------------------------------------------
(* The invariant                                                           *)

\* A session starts with nothing to be closed and nothing said.
LEMMA InitHolds == Init => SessionInv
<1> SUFFICES ASSUME Init PROVE SessionInv
  OBVIOUS
<1>1. SessionTypeOK /\ AnswersHaveRoom
  BY DEF Init, CommonInit, SessionTypeOK, CommonTypeOK, AnswersHaveRoom, Questions, Calls,
    Places
<1>2. Owners /\ ConnIsClosed /\ MoshIsClosed /\ EtIsClosed
  BY DEF Init, CommonInit, Owners, ConnIsClosed, MoshIsClosed, EtIsClosed
<1>3. CallsFollow /\ TalkFollows
  BY DEF Init, CommonInit, CallsFollow, TalkFollows, Talk!Opening
<1> QED
  BY <1>1, <1>2, <1>3 DEF SessionInv

\* What only changes the variables of one protocol is stated of all.
LEMMA StepKeeps == ASSUME SessionInv, Next PROVE SessionInv'
<1>1. CASE Common /\ UNCHANGED <<sshVars, moshVars, etVars>>
  <2>1. CASE SessionStep
    BY <1>1, <2>1, CallsKeep, RemoteKeeps, ReadingKeeps, LossKeeps DEF SessionStep
  <2>2. CASE ~Et /\ SshHandshake
    <3>1. UNCHANGED <<sshVars, moshVars, processVars, readerVars, tempDir>> /\ key' = key
      BY <1>1 DEF etVars, secretVars
    <3>2. key' \in BOOLEAN
      BY <3>1 DEF SessionInv, SessionTypeOK
    <3> QED
      BY <2>2, <3>1, <3>2, HandshakeKeeps
  <2>3. CASE ~Et /\ CallRelease
    BY <1>1, <2>3, ReleaseKeeps
  <2> QED
    BY <1>1, <2>1, <2>2, <2>3 DEF Common
<1>2. CASE Et /\ EtHandshake /\ UNCHANGED <<sshVars, moshVars>>
  <2>1. /\ SshHandshake /\ key' \in BOOLEAN
        /\ UNCHANGED <<processVars, readerVars, tempDir>>
    BY <1>2 DEF EtHandshake, SshHandshake, etVars, secretVars, SessionInv, SessionTypeOK
  <2> QED
    BY <1>2, <2>1, HandshakeKeeps
<1>3. CASE TelnetStep /\ UNCHANGED <<sshVars, moshVars, etVars>>
  BY <1>3, TelnetKeeps
<1>4. CASE (SshStep \/ DialledCall) /\ UNCHANGED <<moshVars, etVars>>
  BY <1>4, SshKeeps, DialledKeeps
<1>5. CASE (MoshStep \/ MoshCall) /\ UNCHANGED <<sshVars, etVars>>
  BY <1>5, MoshKeeps, MoshCallKeeps
<1>6. CASE (EtGoroutine \/ ProcessDies \/ Reader \/ EtCall) /\ UNCHANGED <<sshVars, moshVars>>
  BY <1>6, EtKeeps, ReaderKeeps, EtCallKeeps
<1> QED
  BY <1>1, <1>2, <1>3, <1>4, <1>5, <1>6 DEF Next

\* Nor does a step that leaves the session alone change what is true of it.
LEMMA StutterKeeps == ASSUME SessionInv, UNCHANGED vars PROVE SessionInv'
  BY DEF SessionInv, SessionTypeOK, CommonTypeOK, AnswersHaveRoom, Owners, ConnIsClosed,
    MoshIsClosed, EtIsClosed, CallsFollow, TalkFollows, Talk!Opening, vars, sessionVars,
    wireVars, callVars, deadlineVars, netVars, sshVars, moshVars, etVars, processVars,
    readerVars, secretVars, Ssh, Telnet, Mosh, Et

\* In a session of any of the four protocols, whatever is answered, lost, refused or
\* closed and in whatever order, every place of the session's goroutine is known by what
\* is open, what has been said and how far Close has come.
THEOREM SessionInvariance == Spec => []SessionInv
<1>1. SessionInv /\ [Next]_vars => SessionInv'
  BY StepKeeps, StutterKeeps
<1> QED
  BY <1>1, InitHolds, PTL DEF Spec

\* The variables of a session keep to their types, and d.process is never a process that
\* has been waited for.
THEOREM SessionsAreTyped == Spec => []SessionTypeOK
<1>1. SessionInv => SessionTypeOK
  BY DEF SessionInv
<1> QED
  BY <1>1, SessionInvariance, PTL

---------------------------------------------------------------------------
(* What follows from it                                                    *)

\* ReleasedMeansClean: the handler only calls Release when remoteCloseWait.Wait has
\* returned, so the goroutine is past all of its deferred functions; what the protocols
\* do not close there (the key of ET) goes with Release itself.
THEOREM NothingStaysOpen == Spec => []ReleasedMeansClean
<1>1. SessionInv => ReleasedMeansClean
  BY DEF SessionInv, SessionTypeOK, CommonTypeOK, CallsFollow, Owners, ConnIsClosed,
    MoshIsClosed, EtIsClosed, ReleasedMeansClean, At, Et
<1> QED
  BY <1>1, SessionInvariance, PTL

\* HandlerNeverStuck: fingerprintProcessed and credentialProcessed are set before an
\* answer is sent and by Close, so no tick sends to a channel of one that is full.
THEOREM TicksReturn == Spec => []HandlerNeverStuck
<1>1. SessionInv => HandlerNeverStuck
  BY DEF SessionInv, AnswersHaveRoom, HandlerNeverStuck
<1> QED
  BY <1>1, SessionInvariance, PTL

\* InputIsNotDropped: a Mosh session is cached, and an et process is, before the browser
\* is told that it is connected; Mosh keeps the one it has, ET has none that runs
\* unknown to the ticks.
THEOREM InputHasSomewhereToGo == Spec => []InputIsNotDropped
<1>1. SessionInv => InputIsNotDropped
  BY DEF SessionInv, MoshIsClosed, EtIsClosed, TalkFollows, Talk!Opening, InputIsNotDropped
<1> QED
  BY <1>1, SessionInvariance, PTL

---------------------------------------------------------------------------
(* The dialogue                                                            *)

\* Most steps tell the browser nothing.
LEMMA CallsAreSilent == CallStep \/ DialledCall \/ MoshCall \/ EtCall \/ CallRelease => said' = said
  BY DEF CallStep, TickAnswer, TickFails, CallClose, CloseReturns, DialledCall, CallInput,
    WriteInput, Refuse, CloseRemote, MoshCall, MoshInput, MoshClose, EtCall, EtInput, EtClose,
    EtRelease, CallRelease, wireVars

\* Nor do deadlines, the end of the network, a process that dies, and its reader.
LEMMA WaitsAreSilent == Reading \/ HangUp \/ GoDown \/ ProcessDies \/ Reader => said' = said
  BY DEF Reading, DeadlinePasses, ReadTimesOut, RetryRead, HangUp, GoDown, ProcessDies, Reader,
    ReadProcess, SendResult, sessionVars, wireVars

\* The hooks and the questions come before anything else, the end after all else.
LEMMA RemoteSpeaks == ASSUME SessionInv, RemoteStep PROVE [Talk!Next]_said
<1> USE DEF SessionInv, SessionTypeOK, CommonTypeOK, TalkFollows, Places, At, Tell, wireVars,
      Talk!Next, Talk!Opening, Talk!Opens, Talk!Reports, Talk!Closes
<1>1. CASE HookOutput
  BY <1>1 DEF HookOutput
<1>2. CASE HooksEnd \/ Dial \/ End
  BY <1>2 DEF HooksEnd, Dial, End
<1>3. CASE Report
  BY <1>3 DEF Report
<1>4. CASE SignalClose
  BY <1>4 DEF SignalClose
<1> QED
  BY <1>1, <1>2, <1>3, <1>4 DEF RemoteStep

\* The questions of a login.
LEMMA HandshakeSpeaks == ASSUME SessionInv, SshHandshake PROVE [Talk!Next]_said
<1> USE DEF SessionInv, TalkFollows, At, Tell, wireVars, Talk!Next, Talk!Opening, Talk!Opens
<1>1. CASE AskFingerprint \/ AskCredential
  BY <1>1 DEF AskFingerprint, AskCredential, Ask
<1>2. CASE HearFingerprint \/ HearCredential \/ HandshakeFails \/ LogIn
  BY <1>2 DEF HearFingerprint, HearCredential, Hear, HandshakeFails, LogIn
<1> QED
  BY <1>1, <1>2 DEF SshHandshake

\* stderr is only copied when the browser knows that it is connected, and until the
\* session's goroutine has seen it end.
LEMMA SshSpeaks == ASSUME SessionInv, SshStep PROVE [Talk!Next]_said
<1> USE DEF SessionInv, TalkFollows, At, Tell, wireVars, Talk!Next, Talk!Opening, Talk!Connects,
      Talk!Outputs
<1>1. CASE SshGreet
  BY <1>1 DEF SshGreet
<1>2. CASE SshOutput \/ ErrOutput
  BY <1>2 DEF SshOutput, ErrOutput
<1>3. CASE SetUpShell \/ SshClear \/ SshDeliver \/ SshReadEnds
  BY <1>3 DEF SetUpShell, SshClear, SshDeliver, Deliver, SshReadEnds
<1>4. CASE ErrOutEnds \/ ExitWait \/ SshCleanup \/ ErrWait
  BY <1>4 DEF ErrOutEnds, sessionVars, ExitWait, SshCleanup, ErrWait
<1> QED
  BY <1>1, <1>2, <1>3, <1>4 DEF SshStep

\* Telnet says that it is connected, then what the host says.
LEMMA TelnetSpeaks == ASSUME SessionInv, TelnetStep PROVE [Talk!Next]_said
<1> USE DEF SessionInv, TalkFollows, At, Tell, wireVars, Talk!Next, Talk!Opening, Talk!Connects,
      Talk!Outputs
<1>1. CASE TelnetGreet
  BY <1>1 DEF TelnetGreet
<1>2. CASE TelnetOutput
  BY <1>2 DEF TelnetOutput
<1>3. CASE TelnetDeliver \/ TelnetReadEnds \/ TelnetCleanup
  BY <1>3 DEF TelnetDeliver, Deliver, TelnetReadEnds, TelnetCleanup
<1> QED
  BY <1>1, <1>2, <1>3 DEF TelnetStep

\* So does Mosh ...
LEMMA MoshSpeaks == ASSUME SessionInv, MoshStep PROVE [Talk!Next]_said
<1> USE DEF SessionInv, TalkFollows, At, Tell, wireVars, Talk!Next, Talk!Opening, Talk!Connects,
      Talk!Outputs
<1>1. CASE MoshGreet
  BY <1>1 DEF MoshGreet
<1>2. CASE MoshFlush \/ MoshReceive
  BY <1>2 DEF MoshFlush, MoshReceive, Received
<1>3. CASE Bootstrap \/ BuildSession \/ AwaitReady \/ MoshDeliver
  BY <1>3 DEF Bootstrap, BuildSession, AwaitReady, MoshDeliver, Deliver
<1>4. CASE MoshCleanup \/ MonitorSees \/ MonitorCloses \/ MonitorStops \/ LoginBreaks
  BY <1>4 DEF MoshCleanup, MonitorSees, MonitorCloses, MonitorStops, LoginBreaks, sessionVars
<1> QED
  BY <1>1, <1>2, <1>3, <1>4 DEF MoshStep

\* ... and ET.
LEMMA EtSpeaks == ASSUME SessionInv, EtGoroutine PROVE [Talk!Next]_said
<1> USE DEF SessionInv, TalkFollows, At, Tell, wireVars, Talk!Next, Talk!Opening, Talk!Connects,
      Talk!Outputs
<1>1. CASE EtGreet
  BY <1>1 DEF EtGreet
<1>2. CASE EtFlush \/ EtOutput
  BY <1>2 DEF EtFlush, EtOutput
<1>3. CASE EtClear \/ EtMaterial \/ EtStart \/ EtCache \/ StartupResult \/ EtCleanup
  BY <1>3 DEF EtClear, EtMaterial, EtStart, EtCache, StartupResult, EtCleanup
<1> QED
  BY <1>1, <1>2, <1>3 DEF EtGoroutine

\* SpeaksInTurn: a session is an implementation of Dialogue.  Every step of every
\* goroutine either says what comes next in it or says nothing, so the ticks of
\* src/ui/commands never see a frame that they have no case for.
THEOREM SessionsSpeakInTurn == Spec => SpeaksInTurn
<1>1. Init => Talk!Init
  BY DEF Init, CommonInit, Talk!Init
<1>2. SessionInv /\ [Next]_vars => [Talk!Next]_said
  <2> SUFFICES ASSUME SessionInv, [Next]_vars PROVE [Talk!Next]_said
    OBVIOUS
  <2>1. CASE Common
    BY <2>1, CallsAreSilent, WaitsAreSilent, RemoteSpeaks, HandshakeSpeaks
      DEF Common, SessionStep
  <2>2. CASE EtHandshake
    BY <2>2, HandshakeSpeaks DEF EtHandshake, SshHandshake
  <2>3. CASE TelnetStep \/ SshStep \/ MoshStep \/ EtGoroutine
    BY <2>3, TelnetSpeaks, SshSpeaks, MoshSpeaks, EtSpeaks
  <2>4. CASE DialledCall \/ MoshCall \/ EtCall \/ ProcessDies \/ Reader
    BY <2>4, CallsAreSilent, WaitsAreSilent
  <2>5. CASE UNCHANGED vars
    BY <2>5 DEF vars, sessionVars, wireVars
  <2> QED
    BY <2>1, <2>2, <2>3, <2>4, <2>5 DEF Next
<1> QED
  BY <1>1, <1>2, SessionInvariance, PTL DEF Spec, SpeaksInTurn, Talk!Spec
=============================================================================
