---------------------------- MODULE TelnetCommand ----------------------------
(***************************************************************************)
(* src/ui/commands/telnet.js: the Telnet wizard, its Executor and the      *)
(* command whose ticks advance them.  There is no login.                   *)
(***************************************************************************)
EXTENDS CommandWizard

\* The fields of the first form.
FormFields == {"host", "encoding"}

\* initialFieldDef[...].verify, which the form applies before it submits and
\* launch before it executes.
HostVerified(host) == host = "good"
EncodingVerified(encoding) == encoding = "good"

Verified(config) == HostVerified(config["host"]) /\ EncodingVerified(config["encoding"])

\* buildCommand, up to the callbacks.
Builds(config) == HostParses(config["host"])

\* Telnet.run writes the address.
Carries(config) == HostFits(config["host"]) /\ config["host"] # "huge"

\* SERVER_INITIAL_ERROR_BAD_ADDRESS
RequestErrors == <<"host">>

\* SERVER_*: the markers by their number.
Markers == [n \in 0 .. 3 |-> <<"inband", "hook", "failed", "connected">>[n + 1]]

---------------------------------------------------------------------------
(* buildCommand: the callbacks                                             *)

InitializationFailed(w, code) ==
  IF Active(w)
    THEN ResolveTerminal([Accepted(w) EXCEPT !.blamed =
           IF code \in DOMAIN RequestErrors THEN RequestErrors[code] ELSE @], "failure")
    ELSE w

Initialized(w) == Resolve(Accepted(w), "wait")

HookBeforeConnected(w) == Read(w, "hook")

\* stepHookOutputPrompt, with what was read.
StepHookOutputPrompt(w) == Resolve(w, "wait")

\* The terminal's control does not know every encoding, and then throws.
ConnectSucceed(w) ==
  IF Active(w) /\ w.config["encoding"] # "good" THEN Throw(w)
                                              ELSE ResolveTerminal(w, "success")

ConnectFailed(w) == Read(w, "failed")
ConnectHasFailed(w) == ResolveTerminal(w, "failure")

Completed(w) == ResolveTerminal(w, "failure")

---------------------------------------------------------------------------
(* Telnet                                                                  *)

\* Telnet.initialize: 0 stands for success.
Initialize(w, code) == IF code = 0 THEN Initialized(w) ELSE InitializationFailed(w, code)

\* Telnet.tick.
Tick(w, marker) ==
  LET event == Markers[marker]
  IN CASE event = "connected" /\ ~w.connected ->
            ConnectSucceed([w EXCEPT !.connected = TRUE])
       [] event = "failed" /\ ~w.connected -> ConnectFailed(w)
       [] event = "hook" /\ ~w.connected -> HookBeforeConnected(w)
       [] event = "inband" /\ w.connected -> w
       [] OTHER -> Misread(w)

---------------------------------------------------------------------------
(* Wizard and Executor                                                     *)

StartBackendRequest(w, available) == Start(w, available, Builds(w.config), Carries(w.config))

\* The wizard's first step is the form, and its submit starts the request.
StepInitialPrompt(w) == Push(w, "form")
SubmitInitialPrompt(w, available) == StartBackendRequest(w, available)

\* Executor.stepInitialPrompt starts the request at once.
ExecuterInitialStep(w, available) == StartBackendRequest(w, available)

\* Wizard.run, of either.
Run(w, available) ==
  IF w.way = "wizard" THEN StepInitialPrompt(w) ELSE ExecuterInitialStep(w, available)

\* Command.launch verifies what the link says; Command.execute takes it as it is.
Launches(config) == Verified(config)
=============================================================================
