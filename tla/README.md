# ShellPort in TLA+

ShellPort is a terminal in the browser: a Go server dials SSH, Telnet, Mosh and
EternalTerminal (ET) hosts, and a JavaScript client shows their sessions. One
WebSocket carries all sessions of a browser tab; both ends run a small stream
multiplexer over it. This directory holds TLA+ models of the program, the TLC
runs that check them and TLAPS proofs about them. Paths below are relative to
`src/`, those of the server also to `src/application`.

- [Inventory](#inventory)
- [The modules and the code](#the-modules-and-the-code)
- [Runs, bounds, fairness](#runs)
- [Proofs](#proofs)
- [Where code and comments disagree](#where-code-and-comments-disagree)
- [What is not modelled](#what-is-not-modelled)
- [Plan](#plan)

## Inventory

### The connection and its two ends (modelled)

| part | state | operations | talks to |
|---|---|---|---|
| Frame headers: `command/header.go`, `ui/stream/header.js` | none | two bits of type, six of stream id or control length | both ends |
| Connection handler: `command/handler.go` | pause flag, the sender's lock and `needWait`, 64 stream slots | read a frame and serve it; tear down | calls streams; writes to the WebSocket |
| Streams and FSM: `command/streams.go`, `fsm.go` | per slot: the machine, its current state function, two closed flags | reinit, tick, close, release, shutdown | calls the machine; called by the handler |
| Machines: `commands/{ssh,telnet,mosh,et}.go` | context, channels for answers and for the remote connection, a wait group | Bootup, state functions, Close, Release; a goroutine `remote` | goroutine writes frames, tick and Close wait for it |
| Browser streams: `ui/stream/{streams,stream}.js` | per slot: the command, `isInitializing`, `isShuttingDown`; heartbeat counters | request, serve, the four handlers, close, clear | UI calls request and send; serve calls commands |
| Sender and readers: `ui/stream/{sender,subscribe,reader}.js`, `controller/socket.go` | a queue, a buffer, a delay timer; nonces on both sides; counts of received and unpacked bytes | send, flush, close; unpack, pause and resume | streams write, the WebSocket carries |

What makes it hard: every session's goroutine writes on its own while one
handler goroutine reads; the browser may stop everything with a pause, and only
the handler can lift it; a slot has a state of its own on each side and closes
cross on the way; a wizard keeps a reference to a slot whose user may have
changed; an error of one part ends the connection for all; a buffer is flushed
for four reasons, one of which is that it is being closed.

What makes it correct: every machine is closed once and released once, after
its goroutine ended; nothing is written to a slot by a command that has lost it;
COMPLETED is the last frame of a stream; a paused server is silent; the two ends
never misread each other's frames; sessions do not get mixed up; no command runs
without a browser that sees it; what one side closes ends on both; bytes arrive in
order under the nonces both sides count; every promise of a send is settled once; a pause
is lifted again.

### Sessions (modelled)

| part | state | operations | talks to |
|---|---|---|---|
| SSH: `commands/ssh.go` | two channels of answers with `processed` flags, the connection and its channel, the read deadline with its retry flags, two goroutines | hooks, dial, handshake with questions, shell, copying; ticks, Close, Release | handler, host |
| Telnet: `commands/telnet.go` | the connection and its channel | hooks, dial, copying; ticks, Close, Release | handler, host |
| Mosh: `commands/mosh.go`, `mosh_session.go` | a login as for SSH, the UDP session and its cache, two goroutines that watch the mosh-server | login, bootstrap, readiness, copying; the rest as above | handler, host |
| ET: `commands/et.go`, `et_process.go` | a login as for SSH, the private key in memory and in a temporary directory, the process, its reader and a channel of results | login, key material, start, grace, copying; the rest as above | handler, host, process |
| Telnet control: `ui/control/telnet.js` | a parser, who echoes, the terminal's size | negotiate options, escape and unescape, report a resize | the terminal; the host, bytes cut anywhere |

What makes it hard: Close may come at any point of the goroutine's way, and must end
each of its waits; answers come from the same handler goroutine that would wait; a
deadline is cleared while a read times out; a process can be closed by four callers; offers,
refusals and withdrawals of options cross.

What makes it correct: a released session leaves no connection, process, key or
goroutine behind; Close returns; a host that ends the session is noticed and the
browser told; the browser hears things in an order it understands; text stays text; exactly one side echoes.

### The browser's page (modelled)

| part | state | operations | talks to |
|---|---|---|---|
| Socket: `ui/socket.js` | `openSerial`, the stream handler, the promise of one that is being opened, heartbeat misses | get, open, close, clear, echo | WebSocket; calls back the page |
| Home: `ui/home.vue`, `home_socketctl.js` | the retry timer, the status, `acquired`, the tabs | connect, cancel, monitor, open, switch and close tabs, leave | socket, wizard, controls |
| Connector: `ui/widgets/connector.vue` | the current step, `submitting`, a wait for the loop's end | show, submit, cancel, save a credential, close | wizard; emits to the page |
| Wizards: `ui/commands/{ssh,mosh,et,telnet,commands}.js`, `request_lifecycle.js`, `ui/stream/subscribe.js` | published steps, the request with its timer, the stream they have got | forms with checks, prompts, ticks by marker, success, failure, cancel, timeout | streams; the connector |

What makes it hard: all of it is one thread of callbacks, and every await lets every other one run;
an open that was cancelled goes on and meets the next one; an answer, a timeout, a cancel, a failure
and the end of the connection all want to end the same wizard; four protocols have four tables of
markers and error codes, on both sides.

What makes it correct: the page shows what is; it dials again until it is connected, and leaves nothing when it
is left; a wizard ends once, answers only what it was asked, and leaves no session behind that nobody sees; no modal waits for ever.

### Presets (modelled)

| part | state | operations | talks to |
|---|---|---|---|
| Preset API: `controller/preset_config.go` | none of its own | GET and PUT of the list, the compact PUT of one fingerprint | calls the parts below under the update lock |
| Repository: `configuration/preset_repository.go` | the list in memory, the update lock | List, Replace | read by every controller and session |
| Configuration file: `configuration/preset_file.go` | presets as written, comments, references | merge of a new list, atomic rewrite | the loader, at the start |
| Key files: `configuration/preset_private_key.go` | `private_keys/*.key` | keys in clear become files and references | the file names them |
| Secrets: `configuration/preset_secret.go` | an encryption key in the environment | passwords in clear are sealed | |
| Startup: `application.go` | | IDs, keys, secrets, rewrite | fills the repository |
| Editor: `ui/preset_management.js` | a copy of the list without its secrets | edit, clear, save | the API |

What makes it hard: a save is up to four writes, of key files, of the file twice and of memory,
any of which may fail or be the last before a crash; the new list is computed twice, for memory from the
request and the file's secrets, for the file by a merge that keeps what is written there;
the editor sends lists without the secrets they are to keep.

What makes it correct: the file can always be loaded and names whole keys; a
restart serves what was served before; a save changes the list at once; secrets are kept,
changed and cleared as the editor meant; saving a fingerprint changes nothing else.

### The rest

| part | state | hard behaviour | properties it should have |
|---|---|---|---|
| Readers `rw` | buffer and offset | payloads split across reads | a limited reader never takes bytes of the next frame; what a handler leaves is drained |
| Pings and deadlines of `controller/socket.go` | ping state, write lock | deadlines against a slow peer | a dead peer is noticed; a living one is not dropped |
| Access verification `socket_verify.go`, `ui/app.js`, `auth.vue` | key window, role, login state | stale answers of the verifier | an editor's key is needed to edit |
| Application `application.go`, `server/*` | servers, close and reload signals | reload while starting or closing | every server started is stopped; one reload at a time |
| Timeouts and dialers `network/*` | deadlines | a deadline set for a read that is over | |
| Registry, hooks, buffer pool, configuration, logging, static pages | mostly none | child processes of hooks | |

PROJECT.json lists the hazards one by one, each at its line.

## The modules and the code

```
Wire            frames, the two directions, the connection
 |-- Handler         the server's end          --refines-->  SlotLifecycle
 |    |-- OpenHandler      ... against any client           (runs)
 |    `-- HandlerProofs    its safety, and that refinement  (TLAPS)
 |-- ClientStreams   the browser's end
 `-- Mux             Handler + ClientStreams                (runs)
      `-- MuxProofs        the invariant of both ends       (TLAPS)

Sender          what ClientStreams writes with
 `-- Channel         Sender + encryption + readers          (runs)
      |                                    --refines-->  Fifo, twice
      `-- ChannelProofs    that refinement                  (TLAPS)

Session         what the four commands share
 |-- SshSession, TelnetSession, MoshSession, EtSession
 `-- Sessions        one session of any of them             (runs)
      |                                    --refines-->  Dialogue
      `-- SessionProofs    safety, and that refinement      (TLAPS)

CommandWizard   what the four wizards share
 |-- SshCommand, MoshCommand, EtCommand, TelnetCommand
 |-- Connector       the modal a wizard runs in
 `-- Wizards         both, against a server of the protocol (runs)
      `-- WizardProofs     one end, and the two ends agree  (TLAPS)

Socket          the one connection of a page
 `-- Home            the page over it                       (runs)
      `-- HomeProofs   what it shows is so                  (TLAPS)

TelnetControl   the browser's Telnet, against a host        (runs)
 `-- TelnetProofs     text stays text, negotiations end     (TLAPS)

PresetStore     the list of presets, in files and in memory
 |-- MCPresetStore   instances                              (runs)
 `-- PresetProofs    the file, keys, secrets, fingerprints  (TLAPS)
```

The groups lean on each other through what they promise. Mux takes the WebSocket to be the
channel Fifo describes, which Channel implements; and takes of a machine that it ends and says
nothing after CLOSE, which Sessions checks. Sessions takes of the handler what Handler proves:
a machine is closed and released once. Wizards takes of the server the order of Dialogue, which
the sessions implement. Home takes a wizard to end once and a session to end some time, as Wizards and Mux check.

**Wire** has the frames. A frame is its type, its stream id and one word for the
payload: what the two ends decide on. `sess` is a history field that says whose
end wrote the frame; no guard reads it. Writes fail at once when the connection
is gone and block when `MaxInFlight` frames are under way.

**Handler** is `Handler`, `handlerSender`, `streams`, `stream` and `FSM`. The one
handler goroutine has a program counter (`pc`, `cur`, `why`): an action reads a
frame and runs to the next point where the code blocks or another goroutine could
see a difference: a write to the client, a wait in a machine's `Close` or in
`getRemote`. `senderPaused` and `needWait` are the code's variables of that name,
`fsmMachine`, `fsmRunning`, `fsmClosed` and `strClosed` are `stream.f.m`,
`stream.f.s # nil`, `stream.f.closed` and `stream.closed`. Machines are numbered
in the order of their boot, so that a slot's successive users can be told apart.

A machine is what the four commands have in common: `remote` goes from dialing
(where it may ask the user, `asking`) to `greeting` (the connection is in its
channel), `connected`, `leaving`, `signalled` (its deferred function has written
CLOSE) and `ended` (`remoteCloseWait.Done`). `StartClose` is the part of `Close`
before its wait, `CloseReturns` the part after it. `Close` may fail for mosh and
ET (`mosh.go:1023`, `et.go:925`), `Release` for ET; the handler treats the errors
as the code does. `EarlyFrames` says whether the goroutine may write before the
answer to its request does, see [below](#where-code-and-comments-disagree).

**OpenHandler** adds a client that writes any frame at any time, reads or does
not, and goes away when it likes: what the server promises must not depend on the
browser's manners.

**SlotLifecycle** is the abstract promise of a slot: free, open, closed, free. A
slot of Handler is free when it has no machine, open while the machine's goroutine
may still write, and closed from the CLOSE it has written to the release.

**ClientStreams** is `Streams` and `Stream` with what drives them. `serve` is one
task that suspends at awaits; the only await where the rest of the program can see
a difference is the one in `handleClose` between `stream.close` and COMPLETED
(`completing`). The user interface acts at any time. `request` is the
slot of the request a `ConnectionRequestLifecycle` holds. `Acceptable` is the list of frames
that do not make the code throw, from the handlers of `streams.js` and, through
`Understands`, the `tick` of `ssh.js`.

**Mux** puts both ends on one wire. `serves` remembers which session's request
booted a machine: the two ends number theirs on their own.

**Sender** is `Sender` with its `Subscribe`: `queue` is what waits in the subscription, `buffer`
and `rest` the segment that is being gathered and the part of a message that did not fit, `callbacks` the messages whose
promise the next write settles. `loop` says whether `sending` awaits the queue or a write. A flush comes from the timer,
from a full buffer, from the count of requests, and from `close`, which is two steps around its await.
**Channel** adds the rest of `Socket.open`: the nonces, the server's reader, its packages, the
browser's readers (`incoming`, `buffers`, `plain`, `consumed`: not yet arrived, not yet opened, opened, read) and the
flow control with its two counters. A segment opened under the wrong nonce becomes a byte nobody has written.
**Fifo** is what both directions promise: bytes arrive in order and once, and whoever was told that his
message is sent was told so truly while the connection is there.

**Session** and the four modules beside it have the inside of a machine, from Bootup to
Release: `hpc` is what the handler does with it (idle, in a tick, in Close), `rpc` the
place of the goroutine of `remote` on its way, whose names are those of the steps in
the code (`dial`, `kex`, `setup`, `clear`, `deliver`, `greet`, `stream`, then the deferred
functions). `conn`, `answer`, `processed`, `cancelled`, `delivered` are `conn`, the two channels,
the two flags, `baseCtx` and the connection's channel; `deadline`, `timedOut`, `retry` and `force`
are the read deadline and `requestTimeoutRetry`. SshSession adds the stderr goroutine,
MoshSession the session and its monitor, EtSession the process, its reader and the
key. The handler is only what Handler proves of it: it ticks until a tick fails, then calls Close
once and Release once (`ClosedThenReleasedOnce`).

**Dialogue** is the order in which a machine says things, whatever its protocol: what
the `tick` of each command in `ui/commands` does not throw at.
**Sessions** puts the four together and has the fairness and the properties.

**CommandWizard** has a wizard as a record `w`, because all of it runs in one thread: an operation is a
function from wizard to wizard. Its fields are those of `Subscribe` (`steps`, `closed`), of `commands.Wizard`, of
`ConnectionRequestLifecycle` (`request`, `failed`, `timer`, `sending`) and of the `Stream` (`running` to `senderClosed`).
**SshCommand**, **MoshCommand**, **EtCommand** and **TelnetCommand** are the four files of that name: which fields the form
checks, which step an answer, a marker or an error code leads to. **Connector** is the loop of the modal and its buttons.
**Wizards** adds a server of the protocol, whose tables of markers and codes come from its own source
(`commands/*.go`): that the two tables of a protocol agree is a property, not an assumption. The server may stall, the connection may break. A field
of a form is valid or not; texts are left out. `CancelsForm` lets the user press Cancel on the first form, see
[below](#where-code-and-comments-disagree).

**Socket** is `Socket` of `socket.js` with the heartbeat of `streams.js`. An attempt is known by its serial number:
`phase` says what has become of each, `openSerial` which one may still install its streams, `waiting` who awaits it. The
clearing of a handler takes its time, and its callback may find that another handler is there already.
**Home** is the page: the monitor, the run that acquires the connector, the tabs with `closes`, the closings whose
await is not over, each with the index it has computed before. The sessions on tabs only know the connection they are on.

**TelnetControl** is `Parser` and `Telnet` of `control/telnet.js`, with bytes as numbers. `parser.mode` is the
await the parser is suspended in. The host is external: a Telnet server that keeps to RFC 854 and negotiates as
RFC 1143 says (`us` and `him` are the RFC's).

**PresetStore** has the file (`file`), the key files (`keyFiles`) and the repository (`mem`).
A `job` is whoever holds the update lock: the startup, a PUT, a fingerprint PUT or the
administrator's GET. Its fields are the locals of `Put`: `current` and `next` (`currentPresets`,
`normalized`), `doc` (the document `MigratePresetPrivateKeysToFiles` has read), the two sets of IDs to clear.
What the functions compute without touching a file is one operator each, in the code's
order (`PreserveHiddenPasswords`, `PreserveFromFile`, `ApplyPresetSecrets`, `AdoptReferences`, `Merge`);
each write is an action, with a failure beside it, and `Crash` may come anywhere. A key file is
created and filled in two steps. The PUT sends any list the editor can build from whatever copy it
has, so stale copies need no state. A preset has of its Meta what decides about secrets and fingerprints; its host
is in the form with a port, its type SSH; what the file had as a path or a text is named, not
spelled out. Titles, colours, users and encodings go the way of the host.

The invariants named `...TypeOK` describe the variables of a module. Only that of Handler, on which proofs rest, is in a run.


## Runs

| run | question | what TLC covers |
|---|---|---|
| `server_any_client` | can any client, with a disconnect at any point, bring the server out of order? | one slot, two machines, every frame, 143 000 states |
| `both_ends` | can crossing closes, cancels, answers and pauses confuse either end; does what is closed end on both? | one slot used twice, pauses, 50 000 states, with fairness |
| `both_ends_two_slots` | can sessions be mixed up, can a cancel hit another, can a command run unseen or be left when `Handle` returns? | two slots, two sessions, refused fingerprints, early frames, 1 097 000 states |
| `sessions` | does a session of each protocol speak in turn, end, tell the browser and clean up, whatever the user, the host and the WebSocket do? | four protocols, 37 000 states, with fairness |
| `preset_store` | do file, key files and memory stay together through edits, fingerprint saves, failing writes and crashes? | two presets, two hosts, two PUTs, two keys, 1 566 000 states up to symmetry |
| `channel` | is the WebSocket an ordered channel, are the promises of a send settled, does the flow control let go again? | two messages that are cut, two packages back, controls, closes, failures, 358 000 states, with fairness |
| `wizards` | does a wizard end once, answer what it was asked, understand its server, and leave neither a modal nor a session behind? | one wizard of each protocol, 200 000 states, with fairness |
| `home` | does the page show what is so, does it keep trying, does it leave nothing? | two attempts, two tabs, two closes, 177 000 states, with fairness |
| `telnet_control` | does text stay text, do negotiations settle, is what the host says shown, however it is cut? | three utterances of the host, one key, one resize, 1 040 000 states, with fairness |
| `et_close_hangs`, `cancel_form`, `telnet_nop` | what a comment of the code says | expected to be violated |

What a property says is written above it, at the end of the module of its run; those of
`server_any_client` are at the end of `Handler.tla`, those of `preset_store` of `PresetStore.tla`.

**Bounds.** Each is a constant of the module that has it.

- *Handler, ClientStreams, Mux*: `MaxSlot` (63 in the code), `MaxSession`, the number of commands started
  during one connection, and `MaxInFlight`, the frames under way in one direction.
  Slots interact only through the handler, the pause and the connection, and a slot
  with its previous users. Two machines in one slot are the case of reuse, two slots
  that of a session beside another. One frame in each direction is enough for closes,
  cancels and answers to cross; the browser's `CLOSE`, `COMPLETED`, `resume` and
  cancels are not held up by `MaxInFlight` (the browser queues what it sends), so
  that more frames can be under way to the server. The safety properties
  do not rest on these bounds: they are proved for all values.
- *Sessions* has no bounds: nothing in it counts.
- *PresetStore*: `MaxPuts` is two, one save that fails or is cut short
  and one that meets what it left; crashes and restarts are not bounded. Two presets tell the one that is saved from
  the one that is not, two hosts a preset from what it was before an edit, two key texts a new key from the old.
  `KeyPaths` are two names: two keys can be moved to files before a save finds no name, which can then
  only crash; that is the bound's doing. The operator's file names no key file of its own in this instance: it comes to name
  files when the start has moved its keys. `PresetStore.tla` allows it, and the four properties are proved with it,
  for all values of the constants.
- *Channel*: a segment holds two bytes (4032 in the code), a buffer gathers two requests (10), two received
  bytes can be a reason to pause (16384), and twice as many received as unpacked (six times). A message has three bytes,
  so it is cut and its rest shares a segment with what follows; a package of the server has one or three. Controls
  have one byte. Two messages and two packages bring every pair of neighbours into one segment or apart.
- *Wizards*: one wizard at a time, as in the page. Its questions may be repeated as often as the
  server asks.
- *Home*: `MaxOpens`, two attempts, so that a cancelled one can meet the next; `MaxTabs`, two tabs;
  `MaxClosing`, two that are being closed at a time, in either order. A third tab adds no new way for one close to
  overtake another: that is between two.
- *TelnetControl*: text is the one byte that must be escaped, 255; the options are echo, terminal type and window
  size; three utterances of the host (an offer, an answer, a withdrawal or text), one key, one resize. The size, 80 by 24, has no byte 255.

**Deadlock** is checked where the system must never stop: in the runs with both ends, which stop
only when `Handle` and `serve` have returned (`Terminated`), and in the preset store. With any client, a
client can leave a tick waiting for good. The others come to rest: a session
that was released, a wizard at its end, a connection that was closed, a page that was left.

**Fairness** is never of a user, a remote host, a pause or a fault.

- *Mux*: weak fairness of the handler goroutine and of
  `serve`: the schedulers of Go and of the browser run what can run. For a machine's goroutine:
  a dial ends within its timeout unless it waits for the user, and asks a bounded
  number of questions (strong fairness of the step that ends the dial); a cancelled machine
  leaves, because its context is done or its connection closed; a goroutine that wants
  to write and is let through again and again gets its turn, because `sync.Mutex` hands
  the lock to waiters that starve (strong fairness of the writes). The browser asks the server to resume
  once it has read everything, and the controller closes the WebSocket when `Handle` has
  returned. That a cancelled machine leaves is checked for SSH, Telnet and Mosh in `sessions`
  (`CloseReturnsInTheEnd`); for ET it is not so, as `et_close_hangs` shows, and the liveness of Mux
  holds for ET only as far as its Close returns. It is checked without refused fingerprints, with which it fails,
  see [below](#where-code-and-comments-disagree).
- *Sessions*: each goroutine goes on when it can, deadlines pass and
  timers fire, a context that is done kills the process. What was written before
  an end is finite (weak fairness of the reads that find the end, strong for the reader of ET, which
  alternates between reading and sending).
- *Channel*: the sender's loop and its delay timer, promises that are settled, a server that
  reads on, frames that arrive, and streams that take what has come (the browser's side; a server may say nothing).
- *Wizards*: the loop of the modal, the browser's `serve` and its timer, a rejected request, missed heartbeats, and the
  steps a server takes without anyone's help. A command that dials or logs in and waits for no answer, one that is over,
  and one that has been sent CLOSE come to an end (`EndInTime`), as Sessions checks, unless the server stalls. A session that is connected or that waits for the user
  may go on for ever: only its host or a CLOSE ends it. So `CancelledSessionEnds` holds because the browser sends one, also when the cancel crosses CONNECTED.
- *Home*: the retry timer and the heartbeat fire; a dial ends one way or the other, as do the clearing of a
  connection and the close of a control. An echo that is not answered counts as missed.
- *TelnetControl*: the parser reads what it was fed, ticks and resizes come through, the host reads.

## Proofs

Every part that has a run is proved about for all values of its constants: each safety property that a run checks is a theorem, and so
are the three refinements. The theorems rest on nothing but the named assumptions on constants, which TLC
evaluates in the runs; hypotheses beyond those are in the statements (`NoSurprises`, `TextIsText`, `NegotiationEnds`). Each inductive
invariant was checked by TLC on small instances before it was proved; of that of Telnet, which says that
some sequences of commands exist, only `Types` and `Texts`.

### The server against any client

`HandlerProofs` proves the safety of the server against any
client, for every number of slots, sessions and frames in transit and for both
values of `EarlyFrames`. The assumptions are
`WireAssumption`, `HandlerAssumption` and `OpenHandlerAssumption`.

None of the properties is inductive: they speak of counters of `Close` and `Release`
and of the slot a goroutine writes to, and whether a step keeps them depends on where the
handler is. `IInv` adds what makes it so:

- `ServerTypeOK`, the types of the server's state;
- `Unborn`: a machine that was not booted has no history;
- `Housed`: a slot's machine writes to that slot, so no two slots have the same one;
- `Accounted`: the counts of `Close` and `Release` of a machine that still has its slot
  follow from `fsmClosed`; a machine that no longer has its slot was closed and released and
  has ended;
- `SlotsInStep`: how `fsmMachine`, `fsmRunning`, `fsmClosed` and `strClosed` go together,
  and where the handler must be when they do not;
- `HandlerAt`: what holds of slot `cur` at each `pc`: in `closing` and `releasing` it has
  a closed machine, in `tick` a running one;
- `Swept`: the slots that shutdown has passed are free.

`THEOREM Invariance` is `Spec => []IInv`, one lemma per action of the handler and one
for the goroutines. From it follow:

| theorem | property |
|---|---|
| `TypeCorrect` | `TypeOK` |
| `ClosedOnce` | `ClosedThenReleasedOnce` |
| `WritersOwnTheirSlots` | `WriterOwnsSlot` |
| `ShutdownIsThorough` | `NothingLeftBehind` |
| `NothingAfterCompleted` | `CompletedIsLast` (an action property) |
| `PauseIsSilent` | `PausedMeansSilent` (an action property; needs its own invariant on `senderPaused` and `needWait`) |
| `Refinement` | `ImplementsLifecycle`: every step of the server is one of SlotLifecycle or leaves the phases alone |

### Both ends

`MuxProofs` proves the safety of one connection with the real browser at the other end, for every number
of slots, sessions and frames in transit. They rest on `IInv` of HandlerProofs, whose lemmas are used again: the server does
not care what writes to it. What the properties of Mux say is about the one frame an end
reads next; what that may be depends on all that was written before. `MuxInv` is

- `IInv` and `Delivered` of the server; `ClientTypeOK`, `Numbered` and `Held` of the browser: sessions are numbered in the order of
  their requests, and the slot a wizard remembers is its session's while it remembers one. These hold whether the
  connection is up or not (`BothEndsInv`);
- while it is up, `SlotInv` for each slot: which kinds of frames may be under way, by the states of
  the slot at both ends (`OpenInv`: a request, an answer being written and an answer under way exclude each other; `UseInv`: a stream in use has its
  machine; `CloseInv` and `EndInv`: each side's CLOSE has its COMPLETED, once; `OutlivedInv`: a machine from before the slot's
  session is only waiting for a COMPLETED on the way; `TalkInv`: what comes before and after `connect.succeed`);
- `FramesInv`: every frame carries the session of the end that wrote it;
- `InOrder`: any two frames of one slot are in an order in which they were written (`MayBeSentAfter`, `MayComeAfter`). This is a
  relation on pairs, so that taking the head of a queue and appending to it keep it without induction on the queue.

`MuxInvariance` holds for both values of `EarlyFrames`: `MayComeAfter` says what may overtake an answer.

| theorem | property |
|---|---|
| `NoSurprises` | `NeverSurprised`, if `EarlyFrames = FALSE`: with `TRUE` it is false, as TLC shows in four states |
| `ServerIsNotSurprised` | its half about the server, without a hypothesis |
| `TerminalsAreSeparate` | `NoCrossTalk` |
| `CancelsAreOwn` | `CancelsOnlyItsOwn` |
| `NoGhosts` | `NoGhostCommand` |
| `NothingIsLeftBehind` | `NothingLeftBehind` |

### One session

`SessionProofs` proves what a session of any of the four protocols leaves behind and says. Sessions has no bounds, so its run is
exhaustive; the theorems say why it is so, and that it does not take TLC to know. `SessionInv` ties the place of the session's
goroutine to everything else:

- `AnswersHaveRoom`: an answer waits only where the question is marked as processed;
- `Owners`: what belongs to a protocol is only there in its sessions;
- `ConnIsClosed`, `MoshIsClosed`, `EtIsClosed`: at which places the connection, the Mosh session, the et process
  and its directory cannot be open any more, or are not there yet;
- `CallsFollow`: Close has returned only when the goroutine has ended;
- `TalkFollows`: what can have been said by the time the goroutine is somewhere, or stderr is copied.

`SessionInvariance` has a step per action. From it follow `NothingStaysOpen` (`ReleasedMeansClean`), `TicksReturn`
(`HandlerNeverStuck`), `InputHasSomewhereToGo` (`InputIsNotDropped`), and the refinement `SessionsSpeakInTurn`:
`Spec => SpeaksInTurn`, every step is one of Dialogue or leaves `said` alone.

### Wizards

`WizardProofs` proves the three invariants of Wizards, for any set of protocols and both values of `CancelsForm`. The assumptions are `WizardsAssumption` and `ConnectorAssumption`.
Wizards has no bounds but its configurations, one field wrong at a time, so its run is exhaustive; the theorems say why what it finds is so.

The operators on the record of a wizard come first: for each, a lemma that says which fields it changes. The four commands are
instances of the same operators, so the lemmas `FourProtocols` to `OpenedStarts` reduce each of them to one wizard that hears
what its server *says* (`Hear`) instead of a marker: here the tables of markers and error codes of the two ends of a protocol meet, and
a wrong entry in one of them breaks the proof. The invariant `WizardInv` has three parts:

- `BasicInv`, types and what a wizard keeps by itself: `Once` (a request that is active has no outcome yet, one that is not started has nothing but
  its form), `NoLogin` (Telnet asks nothing) and `FormFirst`. It holds in whichever order the frames come, and `WizardsEndOnce`
  (`OneTerminalStep`) follows from it alone;
- `LinkInv`, as long as the connection is up: `QueueInv`, in which order the frames under way in both directions were written, and that an answer
  names what the server refused; `ServerInv` and `BrowserInv`, which kinds of frames may be under way when the server and the browser's stream are
  where they are (a request under way means that the server is idle; CLOSE and COMPLETED come once); `ConnectedInv`, whether both ends take the session to be connected.
  `BlamedInv`, of which `ServerIsUnderstood` is a part, follows step by step: a frame is taken by a stream that expects it;
- `TurnInv`, while it is up: `Turns`, a question is on its way, being read, to be shown, shown, about to be answered
  by a save, or answered, one of these only, and then it is what the server waits for; `ClosedShowsNothing`, a wizard that was closed shows no
  question any more.

Of a connection that is gone nothing is known but that nothing is sent on it (`StaysLost`). `InOrder` is a relation on pairs as in Mux.
`WizardStep` has a lemma for each part and action: `Basic...`, `Link...` and `Turn...`.

| theorem | property |
|---|---|
| `WizardsInvariance` | `WizardInv` |
| `WizardsEndOnce` | `OneTerminalStep` |
| `ServersAreUnderstood` | `ServerIsUnderstood` |
| `OnlyWhatIsAsked` | `AnswersWereAsked` |

### The file survives

`PresetProofs` proves `FileSurvives`, `Spec => []CrashLeavesOneList`: for any presets, hosts, keys, key
files and number of saves, with a write that fails or a crash at any point, the file can be
loaded, names whole keys, and has the settings of the list before or after the save. The assumptions, all in PresetStore:
`PresetStoreAssumption` (the sets are what they are meant to be and `None` in none of them), `OperatorAssumption` (the file the operator
starts with names keys that are there, has passwords only where they are used, and none sealed by hand), and
`JobAssumption` (`None` is not a job). `IInv` is

- `StoreTypeOK`;
- `KeysAreWhole`: the file, memory, and the list and the document of a job name only key files
  that are whole, so none of them the one that is being written;
- `PasswordsAreProper`: passwords are where they are used, and sealed ones only when there is a key;
- `NothingIsForgotten`: a password the new list lacks was not there, or is to be cleared;
- `FileFollows`: where the file is between the list before and the list after, for each point of a job.

The heart is `MergeFacts`: what the code computes for memory and what it merges into the file,
two computations that share no code, have the same settings. TLC had found the same for two presets; the proof needs
`OperatorAssumption` where the instance had it by the choice of its entries.

### Keys, secrets and fingerprints

The second half of `PresetProofs` proves the other three properties of PresetStore, from the same assumptions. A key is a text in one list and the
name of the file it was moved to in another; it may be moved twice, to two files; and the merge decides what to keep
by comparing ways to write it. So keys are compared by what they resolve to in a directory of key files (`Resolve`), the present one or
a later one. What makes that work is `Settled`: a whole key file never changes, and all lists name whole files only
(`KeysAreWhole` of `IInv`), so what a list is worth survives the write of every new file. `KeysInv` adds to `IInv`

- `KeysFollow`: for each point of a job and while no save has failed, which of file, document, old list and new list resolve to the same
  keys, and that the merge will find in an entry of the file what memory says or already what the save says (`Carries`);
- `SaveIsMeant`: the new list of a PUT has the secrets its editor meant;
- `MemoryFollows`: memory has its keys in files and knows no fingerprint that the file does not;
- `FingerprintIsSaved`: the new list of a fingerprint save differs from the old one by fingerprints only.

| theorem | property |
|---|---|
| `RestartServesTheSame` | `RestartLoadsWhatIsServed`: while no save has failed; of settings and secrets, not of fingerprints |
| `SavesAreAsMeant` | `SavedSecretsAreThoseMeant` |
| `FingerprintSavesAreNarrow` | `FingerprintSaveIsNarrow`: while no save has failed; fingerprints that only the file had kept may come back to memory |

The limits are the code's, see [below](#where-code-and-comments-disagree).
The proof of the last one found the second of them: an earlier form of the property, which one host could not break, let nothing come back.

### The page is true

`HomeProofs` proves `PageIsTrue`, `Spec => []PageTellsTruth`, for any number of attempts, tabs
and closes. `IInv` has `ShownTypeOK`; `OneIsServed`, one handler is served at a
time, and none while an attempt may still install another; `WaitingIsForAnAttempt`; and what the page shows of it: `StatusIsTrue`, `WizardIsUp`,
`SessionsAreUp`, `TabsAreShown`. The last says where `current` is only as long as no close was `overtaken`, see
[below](#where-code-and-comments-disagree); why that is enough is its part `ClosesAreAimed`: until then each close has the index of its
own tab, since only tabs behind it have gone. One lemma per action of the socket and of the page.

### The encrypted connection

`ChannelProofs` proves `ArrivesInOrder`, `Spec => BothWaysInOrder`: Channel implements Fifo in both directions, for any sizes of
segments, messages and packages and any number of them. The assumptions are `SenderAssumption` and `ChannelAssumption`. What is to be shown is
about the bytes of all messages put together, so the module begins with what `FlattenSeq` does, step by step: of no sequences, of one more at
the end, of one more in front. `Flow(sizes, m)` are the bytes of the first `m` messages, and `IInv` says

- `Taken`, for some `m`: the sender has taken `m` messages from its queue; what the server has or will have read, and then what is in the
  sender's hands (`Pending`: a segment with what did not fit, or the buffer) is `Flow(..., m)`. In the queue are the messages after it, in order and all of
  them; a promise that the next write settles is of one that was taken, and what did not fit is of the last;
- `SenderShape`: where the loop is, which of buffer, segment and rest can hold anything;
- `Numbered`, while the connection is there: the nonces of the segments on the wire are those the server will open them with;
- `ToBrowserInv`: the packages that are under way or not opened are the server's last ones, each with its nonce, and what was
  opened is `Flow` of those before;
- `ServerHasPrefix` and `BrowserHasPrefix`, which hold when the connection is gone, too.

`FillEffect` is the step where a message is cut: what goes into the segment and what is left over are the message. `SentIsDelivered` is what Fifo
asks of a promise: when a write has settled it, the bytes of its message are on the way, all of them, also of one that began two segments ago.

### Telnet

`TelnetProofs` proves both invariants of TelnetControl, for any text, options, cuts of the frames, and any number of utterances, keys
and resizes. What the properties say of a sequence of bytes is not what the last one does to it but what the whole of
it will be read as, and that is a fold over the bytes. Instead of an induction over sequences (see the end of this chapter) the proof says that
a run of the reader over the bytes exists: `Runs(F, bytes, a, b)` has a sequence of views (a place in a command or in text, the text
so far, the commands so far) as its witness, which a byte that is sent makes longer at the end and a byte that is read shorter in
front. `RunsAppend` and `RunsTail` are these two; `RunsGrow` says that text and
commands only grow on the way. On them rest lemmas for what is sent: a command, an escaped
text, a window size, a terminal type (`LeadsNego`, `LeadsText`, `LeadsSize`, `LeadsType`).

`Ahead` says of an end and the bytes on their way to it: read from where it is, they end in text, make the text that it has into the
whole text, and bring these commands. `IInv` has `Types`; `Texts`, what is shown began as what was said, both ways; and that there are
commands `nb` and `nr` on their way with

- `ToTerminal(nb)` and `ToHost(nr)`: the bytes to either end are `Ahead` with them, as long as somebody reads;
- `Agreed(nb, nr)`: what RFC 1143 says of the two ends of an option. `Handshake` has its six states: no and yes with
  nothing under way, offered or withdrawn and not yet read, answered and not yet heard. For echo and go-ahead it
  ties the host's state to the parser's booleans; each other option the host waits for is one that is asked for or answered (`Waits`).

One lemma per action, `...Keeps`; reading and hearing a byte have one more level, by the kind of byte.

| theorem | property | hypothesis |
|---|---|---|
| `TextIsText` | `TextKeepsItsMeaning` | `SizesWithoutIAC` |
| `NegotiationEnds` | `NegotiationSettles` | `SizesWithoutIAC`, `OptionsOfOneSide` |

The hypotheses are limits of the code, which the proof has found or made precise, and the run satisfies both.

- `SizesWithoutIAC`: no byte of a width or height is 255. `sendSubNego` does not double an IAC, so that the host reads a terminal of 255 rows
  as a subnegotiation that goes on; with `Rows = {255}` TLC finds `TextKeepsItsMeaning` violated.
- `OptionsOfOneSide`: the host does not ask the client to echo, does not use go-ahead in both directions, and does not withdraw NAWS. One boolean of
  the parser stands for both directions of an option, and DONT NAWS is not answered. Without any of the three TLC finds `NegotiationSettles` violated.

### Only model-checked

- All liveness, and with it `EveryPromiseIsSettled`, `CloseFinishes`, `CloseReturnsInTheEnd`, `WaitsEnd`, `EverythingIsShown` and their like: TLAPS
  has no rules for fairness and ENABLED that would do.

Induction over data is out of reach where a library's theorem takes the induction's formula as a parameter. Channel and Telnet do without:
a witness for the sequence before a step is made into one for the sequence after it (`RunsAppend`), and where all lengths are
meant at once (`FlatteningExists`, `RunsGrow`) a formula that has a name is shown not to have a shortest counterexample (`LeastNumber`).

## Where code and comments disagree

Three runs show it:

- `et_close_hangs`: `Close` is to stop the machine and to see to it that CLOSE is sent
  (`command/fsm.go:80-86`). That of ET cancels the context and waits for the goroutine (`et.go:923-925`),
  which waits for the reader's next result (`et.go:419`); the reader may choose the
  cancelled context over sending it (`et.go:461-466`). Then Close never returns, the
  handler serves nothing any more, and the key stays in the temporary directory.
- `cancel_form`: the Cancel of the footer closes the modal on "the initial prompt"
  (`ui/widgets/connector.vue:436-438`), and close publishes a final step (`ui/commands/ssh.js:588-590`). But on the first form
  there is no request that `requestLifecycle.cancel` could cancel (`request_lifecycle.js:134`): nothing is published,
  and `closeWizard` waits for a loop that waits for a step (`connector.vue:604`). The other runs
  have `CancelsForm = FALSE`.
- `telnet_nop`: the parser's `run` "silently swallows all errors (closed reader, unknown commands) to avoid crashing the session"
  (`ui/control/telnet.js:357`). It does so outside its loop: a NOP of the host, which RFC 854 allows at any
  time, ends the parser (`telnet.js:277`). The frame that held it is never over, `serve` reads no other, and the missed
  heartbeats end the connection.

What was met while modelling and no run reports. Server:

- The answer to a request is "sent when a stream slot is first opened"
  (`command/streams.go:94`), but the goroutine of the machine is started
  before it (`commands/ssh.go:360`) and nothing makes it wait. A dial is slower than a write, so it hardly
  happens. `EarlyFrames` lets it happen: in the run with two slots, and in all theorems but one. With it the browser reads a frame
  of a stream it takes to be initializing, and drops the whole connection; so `NeverSurprised`, in the run with one slot and in
  its theorem, is of `EarlyFrames = FALSE`.
- A state function returns "an error that will terminate the stream"
  (`command/fsm.go:67-70`); it terminates the connection (`handler.go:286`, `404-409`). Typing
  into a session whose remote has just hung up is enough (`ssh.go:800-805`).
- `handler.go:277-282` warns that a tick that writes may dead lock the
  routine. The tick of a refused fingerprint waits (`ssh.go:854`) for a goroutine that
  writes first. If the browser has paused the server by then, neither goes on.
- The read deadline of a login is cleared "once the session is ready"
  (`ssh.go:520-524`), but a read that has just timed out finds the retry flag that
  clearing it has set (`ssh.go:572`), and sets a new deadline (`ssh.go:549`). When that
  passes the session is lost.
- The payload of a request for an unknown command is not drained (`command/streams.go:411`): it would be read as the next frame.
- When `closeSession` of mosh fails, `Close` returns the error (`mosh.go:1023`), which ends the connection for all.
- A host that renews its keys calls the fingerprint question of a session that runs (`ssh.go:633`), which the browser does not expect there;
  input during a question waits in the connection (`ssh.go:789`).

Presets:

- "When you save a fingerprint from the connection flow, ShellPort writes it back to the matching preset only" (`CONFIGURATION.md:174`). The
  save of any preset's fingerprint also takes back to memory the fingerprints that the file has kept and memory had dropped
  (`preset_config.go:185`), for the reason that follows; and, after a failed save, the key that save had written.
- "Put replaces the full preset list, adding missing IDs and persisting
  the file" (`controller/preset_config.go:82`). When the host of a preset is edited, its fingerprint is not copied
  to the new list (`preset_private_key.go:189-191`), but the merge into the file
  copies whatever the new list lacks (`preset_file.go:307-321`). The next restart or save brings the old host's fingerprint back for a host that
  never showed it, and the user is warned of a change.
- When the second of a save's two writes fails, file and memory are apart: the file has the new key, memory the
  old one, and later merges take memory for what the file says. `RestartLoadsWhatIsServed` is "unless a save has failed".
- The last PUT wins (`preset_config.go:83`). The page makes it easy: a save replaces the list it has read before its await
  (`home.vue:838`, `856`), so that an edit made meanwhile is sent from the list of before.

Browser:

- A closing WebSocket swallows what is written, so promises of sends resolve that were not sent; Fifo therefore says what it says only of a connection that is there.
  The readers drop what was not read when they are closed.
- A slot whose `command.run` throws is never given back (`stream.js:280`).
- A known fingerprint is answered after the sender may have closed: the exception ends the whole connection. So does an
  encoding that does not exist in a preset that is executed.
- "Removes the tab from the list [...] after the control resolves" (`home.vue:1125`): when two tabs are being closed and
  the one in front goes first, the close of the other has the index of before its await (`home.vue:1148`). It removes the tab behind, whose
  session goes on unseen, or none; its own tab then stays for ever, since it is `closing`, and `current` may be beyond the tabs, where
  `switchTab` throws. Home has all of it: `overtaken` are the tabs this happens to, and `ClosedTabGoes` and the last part of `PageTellsTruth` say
  what is so for the others. Without `overtaken` TLC finds both violated. Closing a tab in the background moves the focus. That the list of
  tabs watches its props "to keep the active index valid" (`tab_list.vue:45`) does not help: the array stays the same one.
- A dial waits for the server's nonce without a timeout of its own; a server that accepts and says nothing holds it until
  the connection breaks.

Telnet control: after NAWS is agreed, each resize sends WILL NAWS again, which a host that keeps to RFC 1143 ignores; DO NAWS before the
first resize is answered with 65535 by 65535, and like any size with a byte 255 it is not escaped; one boolean stands for WILL and DO of an
option; DONT for NAWS and for the terminal type is not answered; a subnegotiation whose last byte is 24 swallows the IAC SE behind it; and closing a tab
in the middle of a negotiation ends the parser before the frame.

## What is not modelled

- Bytes: frame lengths, payload encodings, split reads of the server. A frame is one step. The channel has bytes, but only their number and order.
- Time: deadlines and delays are steps that may happen at any moment, or in the end.
- `RemoveAll` of ET's temporary directory and the close of its process may fail, which is only logged (`et.go:269-274`); here they
  succeed. What `ReleasedMeansClean` says of them is that they are called on every way out.
- The await between the two halves of `switchTab` (`home.vue:1103`): it is for the `disabled` of a control, which returns at once
  (`control/ssh.js:121`, `control/telnet.js:514`). What else moves the tabs, a click or the answer to a close, comes from a task of its own.
- Exceptions of command builders and failures of single browser sends, other than those of the whole connection.
- Of presets: types other than SSH, `environment://` and `literal://` values, entries of unknown types, the
  YAML text, changes to the file while the server runs, the long form of the fingerprint PUT.
- Of `controller/socket.go` the ping deadlines and the headers of the handshake; access verification and the login of `ui/app.js`.
- Reload and stop of the application, the dialers, the processes of hooks.
- Windows, indicators and everything else that is only drawn; character sets, static files, the
  parsing of configuration, the build; cryptography, which is taken to be sound.

## Plan

*Done:* Wire, Handler, SlotLifecycle, OpenHandler, ClientStreams, Mux; Session with its four
protocols, Dialogue, Sessions; PresetStore; Sender, Channel, Fifo; the wizards of the four protocols with
Connector; Socket, Home; TelnetControl. Proofs of all safety properties and refinements.

*Left*, in order of what matters most to a user:

1. `Framing`: the byte readers of both sides as functions, checked against a reference definition on small inputs.
2. The pings and deadlines of `controller/socket.go`: a dead peer is noticed, a living one is not dropped.
3. `Application`: start, reload and close of the servers.
4. `Login`: the states of `ui/app.js` and the stale answers of the verifier.

Runs stay small: two of everything that can interact, one frame or value more than the
race needs.
