----------------------------- MODULE Connector -----------------------------
(***************************************************************************)
(* The modal in which a wizard runs (src/ui/widgets/connector.vue): a loop *)
(* that shows one step after the other, and the buttons.  The loop is      *)
(* suspended when the user acts: what the wizard has published by then is  *)
(* shown first.                                                            *)
(***************************************************************************)
EXTENDS CommandWizard

Ssh    == INSTANCE SshCommand
Mosh   == INSTANCE MoshCommand
Et     == INSTANCE EtCommand
Telnet == INSTANCE TelnetCommand

CONSTANT CancelsForm   \* does the user ever cancel the first form?

ASSUME ConnectorAssumption == CancelsForm \in BOOLEAN

VARIABLES
  w,          \* the wizard (CommandWizard.tla)
  loop,       \* runWizard: running, ended, or thrown
  step,       \* current: the step that is shown, "nothing" before the first
  working,    \* the request has been started and the end not been reached
  disabled,
  submitting, \* current.submitting
  saving,     \* the answer to "Save" is awaited
  cancelled,
  held,       \* currentConnectorCloseWait is not null
  emitted     \* what the home page was told: "nothing", "cancel", "done"; or why it
              \* has taken the modal away: "editor", "dropped"

connectorVars == <<loop, step, working, disabled, submitting, saving, cancelled,
                   held, emitted>>

ConnectorTypeOK ==
  /\ loop \in {"running", "ended", "thrown"}
  /\ step \in Steps \cup {"nothing"}
  /\ {working, disabled, submitting, saving, cancelled, held} \subseteq BOOLEAN
  /\ emitted \in {"nothing", "cancel", "done", "editor", "dropped"}

ConnectorInit ==
  /\ loop = "running"
  /\ step = "nothing"
  /\ working = FALSE
  /\ disabled = FALSE
  /\ submitting = FALSE
  /\ saving = FALSE
  /\ cancelled = FALSE
  /\ held = TRUE
  /\ emitted = "nothing"

---------------------------------------------------------------------------
\* The four commands by their name.
Verified ==
  CASE w.protocol = "ssh" -> Ssh!Verified(w.config)
    [] w.protocol = "mosh" -> Mosh!Verified(w.config)
    [] w.protocol = "et" -> Et!Verified(w.config)
    [] w.protocol = "telnet" -> Telnet!Verified(w.config)

CredentialVerified(credential) ==
  CASE w.protocol = "ssh" -> Ssh!CredentialVerified(credential)
    [] w.protocol = "mosh" -> Mosh!CredentialVerified(credential)
    [] w.protocol = "et" -> Et!CredentialVerified(credential)
    [] w.protocol = "telnet" -> FALSE

SubmitForm(available) ==
  CASE w.protocol = "ssh" -> Ssh!SubmitInitialPrompt(w, available)
    [] w.protocol = "mosh" -> Mosh!SubmitInitialPrompt(w, available)
    [] w.protocol = "et" -> Et!SubmitInitialPrompt(w, available)
    [] w.protocol = "telnet" -> Telnet!SubmitInitialPrompt(w, available)

Accept ==
  CASE w.protocol = "ssh" -> Ssh!AcceptFingerprint(w)
    [] w.protocol = "mosh" -> Mosh!AcceptFingerprint(w)
    [] w.protocol = "et" -> Et!AcceptFingerprint(w)

Reject ==
  CASE w.protocol = "ssh" -> Ssh!RejectFingerprint(w)
    [] w.protocol = "mosh" -> Mosh!RejectFingerprint(w)
    [] w.protocol = "et" -> Et!RejectFingerprint(w)

Login ==
  CASE w.protocol = "ssh" -> Ssh!GiveCredential(w)
    [] w.protocol = "mosh" -> Mosh!GiveCredential(w)
    [] w.protocol = "et" -> Et!GiveCredential(w)

DoNotLogin ==
  CASE w.protocol = "ssh" -> Ssh!CancelLogin(w)
    [] w.protocol = "mosh" -> Mosh!CancelLogin(w)
    [] w.protocol = "et" -> Et!CancelLogin(w)

---------------------------------------------------------------------------
(* The loop                                                                *)

\* buildCurrent with the step that wizard.next has delivered, and the loop's next
\* call of it, which throws when the wizard was closed before a terminal step.
ShowStep ==
  /\ loop = "running" /\ w.steps # <<>>
  /\ LET next == Head(w.steps)
         done == next \in Terminals
     IN /\ w' = TakeStep(w)
        /\ step' = next
        /\ working' = (w.started /\ ~done)
        /\ disabled' = (disabled \/ done)
        /\ submitting' = FALSE
        /\ emitted' = IF next = "success" THEN "done" ELSE emitted
        /\ loop' = CASE done -> "ended"
                     [] ~done /\ w.closed -> "thrown"
                     [] OTHER -> "running"
  /\ UNCHANGED <<saving, cancelled, held>>

---------------------------------------------------------------------------
(* The buttons                                                             *)

Shown == emitted = "nothing"
Idle == Shown /\ (loop = "running" => w.steps = <<>>)

\* current.cancellable: a prompt of a wizard that has started its request.
Cancellable == step \in Prompts /\ working

\* Mutant: a prompt can be submitted again as long as it is shown.
MaySubmitAgain == Idle /\ ~disabled /\ step \in Prompts
MaySubmit == Idle /\ ~submitting /\ ~disabled /\ step \in Prompts

\* submitAndGetNext, of the form: a field that is not verified stops it.
Submit ==
  /\ MaySubmit /\ step = "form" /\ Verified
  /\ submitting' = TRUE
  /\ \E available \in BOOLEAN : w' = SubmitForm(available)
  /\ UNCHANGED <<loop, step, working, disabled, saving, cancelled, held, emitted>>

\* ... of the other prompts.  The answer cannot be sent when the stream has been
\* closed in the meantime: an alert, and the prompt stays.
Answer(prompt, answered) ==
  /\ MaySubmit /\ step = prompt
  /\ IF w.senderClosed THEN UNCHANGED <<w, submitting>>
                       ELSE w' = answered /\ submitting' = TRUE
  /\ UNCHANGED <<loop, step, working, disabled, saving, cancelled, held, emitted>>

Continue == Answer("fingerprint", Accept)
GiveCredential ==
  \E credential \in Credentials :
    CredentialVerified(credential) /\ Answer("credential", Login)

\* runAction of "Save": the preset is saved first, which takes its time.
Save ==
  /\ MaySubmit /\ step = "fingerprint" /\ w.saves
  /\ submitting' = TRUE
  /\ saving' = TRUE
  /\ UNCHANGED <<w, loop, step, working, disabled, cancelled, held, emitted>>

\* ... and then the fingerprint is accepted, whatever has become of the prompt.  It
\* can be submitted again if it is still there.
SaveReturns ==
  /\ saving
  /\ saving' = FALSE
  /\ \/ UNCHANGED w
     \/ ~w.senderClosed /\ w.up /\ w' = Accept
  /\ submitting' = (submitting /\ (step # "fingerprint" \/ disabled))
  /\ UNCHANGED <<loop, step, working, disabled, cancelled, held, emitted>>

\* runAction of "Save as preset": the home page opens the editor and drops the modal,
\* beforeUnmount closes the wizard and waits for its loop.
SaveAsPreset ==
  /\ MaySubmit /\ step = "form" /\ w.way = "wizard"
  /\ emitted' = "editor"
  /\ held' = FALSE
  /\ w' = CloseWizard(w)
  /\ UNCHANGED <<loop, step, working, disabled, submitting, saving, cancelled>>

\* cancelAndGetNext: the prompt's own cancel.
CancelPrompt(prompt, answered) ==
  /\ MaySubmit /\ step = prompt /\ Cancellable
  /\ submitting' = TRUE
  /\ IF w.senderClosed /\ prompt = "fingerprint" THEN UNCHANGED w ELSE w' = answered
  /\ UNCHANGED <<loop, step, working, disabled, saving, cancelled, held, emitted>>

RejectFingerprint == CancelPrompt("fingerprint", Reject)
CancelLogin == CancelPrompt("credential", DoNotLogin)

\* cancelFromButton everywhere else: cancel, sendCancel and closeWizard up to the
\* await.
Cancel ==
  /\ Idle /\ ~submitting /\ ~cancelled /\ step # "nothing" /\ ~Cancellable
  /\ step = "form" => CancelsForm
  /\ cancelled' = TRUE
  /\ held' = FALSE
  /\ w' = IF held THEN CloseWizard(w) ELSE w
  /\ UNCHANGED <<loop, step, working, disabled, submitting, saving, emitted>>

\* ... and after it: the loop has come to its end, in whichever way.
SendCancel ==
  /\ Shown /\ cancelled /\ loop # "running"
  /\ emitted' = "cancel"
  /\ UNCHANGED <<w, loop, step, working, disabled, submitting, saving, cancelled, held>>

\* The connection is gone: the home page drops the modal (home_socketctl.js, close).
Dismiss ==
  /\ Shown /\ ~w.up
  /\ emitted' = "dropped"
  /\ held' = FALSE
  /\ w' = IF held THEN CloseWizard(w) ELSE w
  /\ UNCHANGED <<loop, step, working, disabled, submitting, saving, cancelled>>

UserStep == \/ Submit \/ Continue \/ GiveCredential \/ Save \/ SaveAsPreset
            \/ RejectFingerprint \/ CancelLogin \/ Cancel
=============================================================================
