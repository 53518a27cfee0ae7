----------------------------- MODULE SshCommand -----------------------------
(***************************************************************************)
(* src/ui/commands/ssh.js: the SSH wizard, its Executer and the command    *)
(* whose ticks advance them.                                               *)
(***************************************************************************)
EXTENDS CommandWizard

\* The fields of the first form.
FormFields == {"user", "host", "encoding", "authentication"}

\* initialFieldDef[...].verify, which the form applies before it submits and
\* launch before it executes.
HostVerified(host) == host = "good"
UserVerified(user) == user = "good"
EncodingVerified(encoding) == encoding = "good"
AuthenticationVerified(method) == method = "good"
PasswordVerified(password) == password \notin {"empty", "huge"}
PrivateKeyVerified(key) == key \notin {"empty", "huge", "encrypted"}

Verified(config) == /\ HostVerified(config["host"]) /\ UserVerified(config["user"])
                    /\ EncodingVerified(config["encoding"])
                    /\ AuthenticationVerified(config["authentication"])

\* The login's prompt asks for the one or the other.
CredentialVerified(credential) ==
  PasswordVerified(credential) \/ PrivateKeyVerified(credential)

\* getAuthMethodFromStr.
KnownMethod(method) == method = "good"

\* buildCommand, up to the callbacks.
Builds(config) == HostParses(config["host"]) /\ KnownMethod(config["authentication"])

\* SSH.run writes user, address, authentication and the preset's id.  A host name
\* of more than 255 bytes does not fit.
Carries(config) == HostFits(config["host"]) /\ \A f \in FormFields : config[f] # "huge"

\* SERVER_REQUEST_ERROR_*
RequestErrors == <<"user", "host", "authentication">>

\* Mutant: the markers of Mosh.
MarkersOfMosh == [n \in 0 .. 6 |->
  <<"stdout", "hook", "failed", "connected", "none", "fingerprint", "credential">>[n + 1]]

\* SERVER_*: the markers by their number.
Markers == [n \in 0 .. 6 |->
  <<"stdout", "stderr", "hook", "failed", "connected", "fingerprint", "credential">>[n + 1]]

---------------------------------------------------------------------------
(* buildCommand: the callbacks                                             *)

InitializationFailed(w, code) ==
  IF Active(w)
    THEN ResolveTerminal([Accepted(w) EXCEPT !.blamed =
           IF code \in DOMAIN RequestErrors THEN RequestErrors[code] ELSE @], "failure")
    ELSE w

Initialized(w) == Resolve(Accepted(w), "wait")

ConnectFailed(w) == Read(w, "failed")
ConnectHasFailed(w) == ResolveTerminal(w, "failure")

HookBeforeConnected(w) == Read(w, "hook")

\* stepHookOutputPrompt, with what was read.
StepHookOutputPrompt(w) == Resolve(w, "wait")

\* The terminal's control does not know every encoding, and then throws.
ConnectSucceed(w) ==
  IF Active(w) /\ w.config["encoding"] # "good" THEN Throw(w)
                                              ELSE ResolveTerminal(w, "success")

ConnectFingerprint(w) == Read(w, "fingerprint")

\* stepFingerprintPrompt, once the fingerprint is read.  It is confirmed to the
\* server at once when it is the one on record: the sender may be closed by then.
StepFingerprintPrompt(w) ==
  CASE w.known # "same" -> Resolve(w, "fingerprint")
    [] w.known = "same" /\ w.senderClosed -> Throw(w)
    [] OTHER -> Resolve(Send(w, "trust"), "wait")

\* acceptFingerprint, behind Continue and behind Save.
AcceptFingerprint(w) == Push(Send([w EXCEPT !.known = "same"], "trust"), "wait")
RejectFingerprint(w) == Push(Send(w, "refuse"), "wait")

\* stepCredentialPrompt.
StepCredentialPrompt(w) ==
  IF w.cached THEN Resolve(Send(w, "credential"), "wait")
              ELSE Resolve(w, "credential")

ConnectCredential(w) == IF Active(w) THEN StepCredentialPrompt(w) ELSE w

GiveCredential(w) == Push(Send(w, "credential"), "wait")
CancelLogin(w) == Push(CloseSender(w), "wait")

Completed(w) == ResolveTerminal(w, "failure")

---------------------------------------------------------------------------
(* SSH                                                                     *)

\* SSH.initialize: 0 stands for success.
Initialize(w, code) == IF code = 0 THEN Initialized(w) ELSE InitializationFailed(w, code)

\* SSH.tick: what belongs to the login is an exception after it, what belongs to
\* the session is one before it.
Tick(w, marker) ==
  LET event == Markers[marker]
  IN CASE event = "credential" /\ ~w.connected -> ConnectCredential(w)
       [] event = "fingerprint" /\ ~w.connected -> ConnectFingerprint(w)
       [] event = "connected" /\ ~w.connected ->
            ConnectSucceed([w EXCEPT !.connected = TRUE])
       [] event = "failed" /\ ~w.connected -> ConnectFailed(w)
       [] event = "hook" /\ ~w.connected -> HookBeforeConnected(w)
       [] event \in {"stdout", "stderr"} /\ w.connected -> w
       [] OTHER -> Misread(w)

---------------------------------------------------------------------------
(* Wizard and Executer                                                     *)

StartBackendRequest(w, available) ==
  Start(w, available, Builds(w.config), Carries(w.config))

\* The wizard's first step is the form, and its submit starts the request.
StepInitialPrompt(w) == Push(w, "form")
SubmitInitialPrompt(w, available) == StartBackendRequest(w, available)

\* Executer.stepInitialPrompt starts the request at once.
ExecuterInitialStep(w, available) == StartBackendRequest(w, available)

\* Wizard.run, of either.
Run(w, available) ==
  IF w.way = "wizard" THEN StepInitialPrompt(w) ELSE ExecuterInitialStep(w, available)

\* Command.launch verifies what the link says; Command.execute takes it as it is.
Launches(config) == Verified(config)
=============================================================================
