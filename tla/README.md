# charly-streamer in TLA+

Models, model-checking configurations and machine-checked proofs for
charly-streamer: a process that hosts a Wayland compositor, captures what is
drawn into it, sends it to browsers through `webrtcsink`, takes resize commands
on a Unix socket and locks the desktop when nobody watches; with it the two programs
that stand beside it, the session leader that logs a user in and drops to them,
and the gateway whose page says whether there is something to watch.

Source paths below are relative to `crates/cstream-streamer/src` unless they
say otherwise.

## 1. The system

| component | code | state | operations | interacts with |
|---|---|---|---|---|
| idle lock | `lifecycle.rs` | `LockTracker` (consumers, zero_since, locked) behind a mutex; the poll thread's position; one IPC connection | consumer-added and consumer-removed handlers, should_lock, discover, send, dispatch_accepted | signals on webrtcsink's threads; Hyprland over a socket it finds in the runtime directory |
| control socket | `control.rs` | `Control` (current, last_applied), the `size` capsfilter, the connection being served | bind, serve, handle, dispatch, resize | clients; the capture graph, through the capsfilter's caps |
| geometry, capture graph | `pipeline.rs` | none of its own once built | sanitised, dmabuf_caps, build_capture, apply_geometry | control, main |
| frame tap | `pipeline.rs`, with `CSTREAM_FRAME_DIR` set | two bounded queues behind a tee; the JPEG files | a frame captured, queued, sampled, written | the capture thread, the sink, a disk; gates read the files |
| start and bus loop | `main.rs`, `lib.rs` | how far main got; markers on stdout; exit code | init, ..., PLAYING, verify, bind, bus loop; `--probe` | everything; supervisor and checks read markers and exit codes |
| encoders | `rank.rs`, `webrtc.rs` | ranks in the process's registry; webrtcsink's one-shot codec table | raise_hardware_encoders, EncodePolicy::parse, select_encoder, make_sink, tune_encoder, verify_openable | main; webrtcsink picks the encoder per consumer |
| audio | `audio.rs` | none | from_env, stream_properties, caps, attach | PipeWire; the sink |
| display | `display.rs` | the runtime directory | make_source, prepare_runtime_dir | main |
| input | `input.rs` | none | constructors of event structures | unused by the binary |
| leader | `crates/cstream-leader` | the password, a PAM context, the process's ids, groups and capabilities | read and strip, authenticate_and_open, drop_privileges_permanently, verify_irreversible | PAM, logind, the kernel; independent of the streamer |
| gateway | `cmd/cstream-gateway` | none | /healthz and the page: two stat calls | the runtime directory and Wayland socket of the streamer |

What makes it hard:

* **Threads.** The consumer handlers run on webrtcsink's threads, the lock's
  decision and its dispatch on a poll thread that gives up the mutex between
  the two, the control server on a third.
* **Other processes that come and go.** Hyprland restarts under a new
  directory and leaves dead sockets behind; it may refuse, die in the middle of
  a request, or answer after the timeout. Control clients vanish with replies
  outstanding. The streamer itself is killed and started again; probes run
  beside it.
* **Decisions taken early and used late.** The lock flag, the announced
  encoder, the remembered geometry, the test for a stale socket, the newest
  picture in the tap's directory.
* **Order.** Encoders are raised before the sink's table is built, the lock
  listens before a viewer can come, groups go before the right to drop them.

What makes each part correct:

* *idle lock*: the count of viewers is right under every interleaving; one
  decision per idle period, never early, never forgotten; the thread always
  comes back; a lock that is reported was executed; a live Hyprland is found
  among dead ones.
* *control*: legal geometries only; changes at least 500 ms apart; a refusal is
  always justified; one reply per line, in order, naming what is really on the
  capsfilter; no client costs another one the channel for good.
* *start*: every start ends in serving or in an exit; a probe's success means
  the host can serve; what is announced is what encodes; no viewer comes before
  the lock counts; a service can be reached whatever earlier runs left behind.
* *frame tap*: it takes nothing from the stream; its pictures are recent; a
  stalled disk costs the stream nothing before the queue is full.
* *leader*: a session only for an account that proved itself and is let in; an
  exit code that says so; what runs has the user's ids and cannot become root.
* *gateway*: ready only where a graph was built and a compositor runs.

## 2. Modules

| module | models | 
|---|---|
| `LockTracker` | the tracker's methods, one operator each |
| `Hyprland` | the compositor as the lock sees it (external) |
| `IdleLock` | the tracker, the two handlers, the poll thread and Hyprland together |
| `IdlePolicy` | abstract: what the lock promises in terms of the viewers present |
| `Geometry` | `Geometry::sanitised` and the geometries it may return |
| `Control` | `Control::resize` and `dispatch` |
| `ControlServer` | `serve` and `handle`, with clients that dial, send, half-close and vanish |
| `GeometryRegister` | abstract: what resizing promises of the capsfilter |
| `Encoders` | promotion, policy, selection, tuning; webrtcsink's pick (external) |
| `AudioBranch` | what `CSTREAM_AUDIO` asks for |
| `Streamer` | main, `LockPolicy::from_env` and `bind`, several processes on one host, kills and restarts |
| `FrameTap` | the graph `build_capture` leaves behind, at run time: tee, queues, files |
| `Gateway` | `probeStatus` beside `Streamer`'s processes, and their compositors' sockets (external) |
| `Credentials` | a process's identity and the calls that change it (external) |
| `Leader` | `cstream-leader`: the tool, PAM's calls, the drop and its verification |
| `MCIdleLock`, `MCControlServer`, `MCStreamer`, `MCGateway`, `MCLeader` | instances for TLC |
| `IdleLockProofs`, `GeometryProofs`, `ControlProofs`, `StreamerProofs`, `GatewayProofs`, `LeaderProofs`, `FrameTapProofs` | theorems |

`Streamer` uses `Encoders` and `AudioBranch`, `Gateway` extends `Streamer`,
`IdleLock` uses `LockTracker` and `Hyprland` and implements `IdlePolicy`,
`ControlServer` extends `Control`, which extends `Geometry`, and implements
`GeometryRegister`, `Leader` extends `Credentials`. `FrameTap` stands alone.

### The idle lock

`LockTracker`'s variables are the struct's fields; `OnConsumerAdded`,
`OnConsumerRemoved` and `ShouldLock` are its methods, with the saturating
subtraction as `SaturatingPred`. `IdleLock` cuts `arm` where another thread may
run. A viewer goes `out -> joining -> in -> leaving -> out`: in `joining` and
`leaving` the session has changed and the signal's handler has yet to take the
mutex. The poll thread goes `sleep -> discover -> connect -> await -> sleep`;
`DecideToLock` and `DecideToWait` are the part under the mutex, `Discover`,
`Connect`, `ReadReply` and `ReadTimesOut` what `HyprIpc` does after it has been
released. A stray removal is a consumer-removed whose consumer-added never
came; `saturating_sub` exists for it.

`Hyprland` numbers instances in order of start, so "newest directory" is the
largest number. `Crash` leaves the socket, `Exit` removes it. A connection is
`none`, `sent`, or holds the reply; `orphans` counts commands whose sender
timed out and which Hyprland may still execute. `curtain` is the locked screen.

The history variable `ran` says that Hyprland executed the last attempt's
command. Time is whole seconds, up to `MaxTime`; at the horizon every timer
counts as run out, so that no liveness property holds or fails because time
stops.

### The control socket

`Control` keeps both the geometry in the capsfilter (`caps`) and the copy
`Control::current`, because their agreement is a claim and not a fact of the
types. `Resize` has the code's three ways out, in its order: no-op, refused,
applied. Numbers are abstracted as naturals: `sanitised` is monotone and capped,
so the width of u32 does not show. A number that does not fit is a `badargs`
line, as a word is.

In `ControlServer` the kernel's part is explicit: a client is connected and may
have written and left before it is accepted. `ReadLine` reads and dispatches a
line; `WriteReply` is a step of its own because the client may leave between
the two. A connection may also be closed at accept, for a failed `try_clone`.
The mutex around `Control` is not modelled: the server thread is its only user.

### Starting

`Streamer` has one `phase` per call of `main` that can fail or touches what
other processes see. `control::bind` is three steps, and `prepare_runtime_dir`
three (`is_dir`, `create_dir_all`, `set_permissions`), because a kill or another
process may come between, the last two may fail, and two processes may make the
directory together. `host` holds what the machine is like (the plugins installed,
encoders present and openable, PipeWire's nodes, whether the graph links, whether
the pipeline plays, fails or hangs); it is chosen once and the process finds out
about it step by step. Instances share the runtime
directory and the socket's path and have signalling ports of their own, since
two on one port do not both serve (`webrtc.rs:83-87`). Nothing unlinks the
socket's file, on any way out.

The phase `arm` is where main reads `CSTREAM_LOCK_AFTER` and, if it holds a
number, connects the lock's handlers. A viewer may be given a stream from
PLAYING on, and `carrier` is the encoder the sink gave that first viewer.

External assumptions, all taken from the sources' own comments: webrtcsink
builds its table once and takes the highest rank among the H.264 encoders at or
above MARGINAL (`rank.rs:3-11`); the VA encoders register at NONE and software
ones at PRIMARY; only x264enc has `tune`; `pipewiresrc` complains of a missing
target (`audio.rs:79-82`) at the state change, while main waits for PLAYING, or
later on the bus. The bus may bring EOS or an error of another element at any
time while main serves.

### The frame tap

`FrameTap` numbers frames. `push` is where the capture thread is with the frame
in hand: the tee hands it to `q_sink` and then to `q_tap`, in the order in which
they were linked, and a full queue makes it wait. `held` is the frame between
`videorate` and `multifilesink`, `files` the directory by age. Every element is
external; what comes from the code is the graph: which branch has a queue, that
neither queue leaks, the order of the links, `max-files`. A queue is full at the
first of GStreamer's default limits that it meets, 200 buffers, 10 MB or one
second; `QueueLimit` is the number of frames at which that is. A disk may be slow,
stall for good, or fail; a failure is an error on the bus, and main's loop ends
the stream for it.

### The leader

`Leader` is one process, `at` the next call. What differs between two runs is
its `request`: the program (the tool, or a session leader as `lib.rs:3-4, 41-43`
describes one), what stdin holds, the account's secret and whether it may log
in, the credential the process holds, the target. PAM may fail any call although
nothing speaks against it, and may not accept a wrong secret or an account that
is not allowed. Text is a sequence over "x", "CR" and "LF", the only characters
that stripping tells apart.

Dropping the PAM context tears the session down (`lib.rs:143-144`). The tool does
so when it returns, so at its exit the session it reports is closed; a leader
keeps the context, and loses the session if the drop or its verification fails.

`Credentials` is the kernel's part: three user ids, three group ids, groups and
the effective capabilities for both; setuid with the capability sets all three
ids, without it the effective one only, and leaving root drops the capabilities.
`Drop` takes one call of the order at a time and stops at the first that fails;
`VerifyIrreversible` compares the ids and then tries `setuid(0)`.

### The gateway

`Gateway` adds to `Streamer` the Wayland socket's file (`wayland`, whose it is)
and one request: `Ask` looks at the flags and stats the render node,
`StatSocket` the socket, and any process may move between the two. The compositor
runs from the state change of its pipeline on, takes over a name that was left
behind, and removes its socket when the pipeline is brought to Null. With an empty
display name the path joined is that of the runtime directory (`main.go:36`).

## 3. Runs

Runs that pass:

| run | properties | what it shows |
|---|---|---|
| `lock_safety` | TypeOK, CountWithinStrays, ReportIsHonest, DiscoverFindsLive | two viewers, every fault, stray signals |
| `lock_policy` | RefinesPolicy, PollReturns, IdleGetsLocked | without strays the threads implement `IdlePolicy`, liveness included; the poll thread comes back whatever Hyprland does; with a Hyprland that stays and answers, the desktop really is locked |
| `control` | TypeOK, AnswersInOrder, ReplyIsApplied, DroppedForGarbage, RefinesRegister, RefusalJustified, LinesAreRead | two clients, all interleavings, resizes, questions, rejected commands and lines that are not text: one reply per line and in order, naming what is on the capsfilter, which behaves as a `GeometryRegister`; every line is read in the end |
| `start_claims` | TypeOK, ProbeIsTruthful, CarriedAsClaimed, ViewersAreCounted, ReadyMeansHosted | every mix of encoders, policy and lock setting, and any flags of the gateway |
| `start_recovery` | ServingIsReachable, StartEnds, MissingAudioEnds, WideOnlyByDeath | kills anywhere, three starts each, a probe beside the service, hosts that hang, fail, miss a plugin or the audio target: every start ends in serving or an exit, and altogether if its audio is missing; what serves is reachable; the runtime directory is left wide only by the death of the last process that could have tightened it |
| `leader` | TypeOK, SessionIsPermitted, ExitIsTruthful, SecretArrives, RunsAsUser, RootCanDrop | every secret with every ending, every call that fails, every credential over three users that a process can hold |
| `tap` | TypeOK, NothingLost, TapIsFresh, StallIsAbsorbed | with and without a tap; a disk that is slow, stalls or fails |

Runs that end in a counterexample, each to a statement of the sources:

| run | statement | what the code does |
|---|---|---|
| `lock_refused` | `lifecycle.rs:149`: `locked` is set "once we have locked" | it is set by the decision; a refused or failed dispatch is not retried in that idle period |
| `lock_race` | `lifecycle.rs:1`: lock "once the last viewer has been gone long enough" | a viewer who arrives between decision and execution is locked out while watching |
| `control_silent_drop` | `control.rs:97`: errors "are reported to that caller" | a line that is not UTF-8 closes the connection without a reply |
| `start_policy` | `webrtc.rs:19-21`: "Hardware, or fail", and "Software, even where hardware exists" | the ranks are raised whatever the policy, so under policy software the sink picks vah264enc; with only vah265enc, policy va announces hardware and the H.264 sink uses x264enc |
| `ready_stale` | `cmd/cstream-gateway/main.go:50`: the marker is emitted only "when the stack is genuinely ready" | the file of a killed streamer's Wayland socket is enough, with nothing running |

More disagreements are in the modules and need no search to see. A sink whose
name ends in neither `-speaker` nor `.monitor` is captured as silence
(`audio.rs:87`), where `audio.rs:76-77` says that audio requested and quietly
absent is impossible; the word of the configuration decides it alone, so there is
nothing to model. A probe whose audio target is missing may exit with 0 before
PipeWire has said so (`Verify`). A process that is killed between `MakeDir` and
`TightenDir`, or whose `set_permissions` fails, leaves the runtime directory
wide. Another process that is past the test by then may still tighten it; without
one `LooksForDir` leaves it so at every later start (`WideStaysWide`), where the
test at `display.rs:108` wants 0700. `bind` removes any file at its path, a live service's socket included,
where `control.rs:158` speaks of "removing a stale one first": of two services
on one path the later takes it over, and that is the only way to lose it
(`SocketIsTaken`). The tool's exit code 1 also stands for a missing PAM service,
a variable that PAM does not take and a session that does not open
(`Leader!NewContext`, `PutEnv`, `OpenSession`), where `bin/cstream-leader.rs:8-11`
gives 1 to refusals and 2 to errors of the environment. Its code 0 reports a
session that its own return has torn down (`Return`). A secret that ends in a
carriage return loses it to the stripping of a CR LF. The tap's queues keep a
slow disk from the stream, for as long as they have room, but not a full
directory, which `pipeline.rs:115-117` names with it: a write that fails is an
error on the bus, and the bus loop ends the stream (`FrameTap!WriteFails`).

One more observation on strays, from a run of `IdleGetsLocked` with one: a stray
removal under a watching viewer locks the desktop before them; they unlock and
leave, and since `locked` is still set that idle period never locks. So the
property is stated, and checked, without strays.

### Bounds, and why they suffice

* *Lock*: two viewers are the least with which a departure may or may not be
  the last. Two Hyprland instances give a stale and a live socket, and a
  restart inside an attempt. `After` and `ReadTimeout` are 2 so that a deadline
  and a timeout can be missed by one in both directions; five seconds hold a
  session, a countdown and a decision, or a decision and a second session. One
  stray reaches both of its effects, undercounting and restarting a countdown.
* *Control*: two clients, one to be served and one to wait, each with up to two
  lines: one to change something and one to be told about it, or refused for it.
  `MinInterval` is 2 ticks and the clock takes two, so that a resize may come
  with the last change, inside its window and at the window's edge. The lines include a size that is
  rounded down, one that is clamped up, a question, a rejected command and one
  that is not text. Deadlock is not checked: at the horizon with every connection
  closed nothing is left to do.
* *Start*: `start_claims` takes every subset of encoders present and openable,
  beside any policy or any lock setting, one start, and four sets of gateway
  flags; `start_recovery` needs one service and one probe; three starts each
  leave behind what two kills, or a kill and a good run, can leave, and the two may
  race to make the runtime directory. Its ten hosts are a good one and one for each
  thing that keeps a start from succeeding. Deadlock is not checked: processes that have used up their starts stay down.
* *Leader*: the secrets are the empty one, a plain one, and one that ends in
  each character that is stripped, and every one is sent for every other with no
  ending, LF or CR LF. Three ids are root, a user and another user: every
  credential over them with both capabilities or one or none, and every target.
  The process ends, so deadlock is not checked.
* *Tap*: queues of three, where GStreamer's default is 200 buffers, 10 MB or a
  second, a rate of three frames a second, two files where the code keeps eight, and
  twelve frames: the queues fill and drain, the directory is pruned, and the
  tap is behind by more than one kept frame. Deadlock is not
  checked: the frames run out, and a disk may stall for good.

### Fairness

* `IdleLock!Spec`: time passes; an emitted signal's handler runs; the poll
  thread is scheduled (`loop { sleep; ... }`, no call in it without a bound:
  the read has a timeout, and connecting to and writing a few bytes on a local
  stream socket with a listener do not wait). Viewers and Hyprland owe nothing:
  that a Hyprland is there and executes what it was sent is a hypothesis of
  `IdleGetsLocked`, the one property that is about the screen.
* `ControlServer!Spec`: the server thread is scheduled, and every client ends
  its stream some day. The second is the clients' obligation; without it
  `LinesAreRead` is false, because `serve` has one thread and no timeout.
* `FrameTap!Spec`: frames come, and the sink takes what it is given, as elements
  in PLAYING do. The disk owes nothing: `StallIsAbsorbed` is about one that stalls
  for good.
* `Streamer!Spec`: a running process keeps running, and the error that
  `pipewiresrc` posts for a missing target is read while main serves
  (`audio.rs:79-82`, `main.rs:183-199`). Starting, killing, viewers and other bus
  messages carry no fairness. That waiting for PLAYING ends is the
  code's own 20 s limit (`GivesUp`).

### Mutants

Each property of a passing run is shown to notice a plausible bug: the mutated
operators stand before the operators they replace, under "Mutated forms", and
`PROJECT.json` pairs them with the properties. Among them: the subtraction that
does not saturate, every departure taken for the last, an empty reply taken for
success, the oldest socket for the newest, the arrival that does not re-arm, a
no-op resize that starts the rate limit's window, a failed command that gets no
reply, a rank raised to MARGINAL only, a bind that leaves the stale socket, a
malformed lock value that locks, PAM's account check left out, `open_session`'s
error ignored, the session's guard dropped, errors on the bus ignored, CR stripped before LF, setuid first, the attempt to climb back
left out, a runtime directory left to the umask, a leaky queue, the tap linked without a queue of its own.

## 4. Proofs

TLAPS checks these for every value of the constants under the assumptions
named in the modules (constants are naturals where they count or time
something, `Viewers` is finite, `None` and `NoAudio` are none of the values they
stand beside, root is an id).

| theorem | statement |
|---|---|
| `IdleLockProofs!TypeCorrect` | `SafetySpec => []TypeOK` |
| `IdleLockProofs!CountCorrect` | `SafetySpec => []CountWithinStrays` |
| `IdleLockProofs!ReportCorrect` | `SafetySpec => []ReportIsHonest` |
| `IdleLockProofs!DiscoverCorrect` | `SafetySpec => DiscoverFindsLive` |
| `IdleLockProofs!PolicyRefined` | `SafetySpec /\ []NoStray => Policy!SafetySpec` |
| `IdleLockProofs!ArrivalIsRemembered` | once a viewer's handler has run, no decision to lock for `After` seconds, strays or not |
| `IdleLockProofs!LockIsPatient` | without strays, no decision within `After` seconds of any moment at which somebody was registered |
| `IdleLockProofs!DecisionIsWithdrawn` | without strays, `[](Attended => ~locked)` |
| `IdleLockProofs!WatchersWhenLocking` | a decision is taken in front of at most `strays` registered viewers |
| `GeometryProofs!SanitisedIsLegal`, `LegalIsFixed` | `sanitised` always returns a legal geometry, and leaves one alone |
| `ControlProofs!ControlTypes` | `SafetySpec => []TypeOK` |
| `ControlProofs!RegisterRefined` | `SafetySpec => RefinesRegister` |
| `ControlProofs!ChangesSpaced` | after a change of the caps at `t`, none before `t + MinInterval`, for every `t` |
| `ControlProofs!ResizeDecided` | `SafetySpec => [][Decided]_vars`: a resize is carried out exactly if it is already held or nothing changed for the interval |
| `ControlProofs!AnswersCorrect` | `SafetySpec => []AnswersInOrder` |
| `ControlProofs!AppliedCorrect` | `SafetySpec => []ReplyIsApplied` |
| `ControlProofs!DroppedCorrect` | `SafetySpec => []DroppedForGarbage` |
| `ControlProofs!ReportedIfText` | if `Commands` has no line that is not text, `SafetySpec => []ErrorsAreReported` |
| `ControlProofs!RefusalCorrect` | `SafetySpec => RefusalJustified` |
| `StreamerProofs!ProbeCorrect` | `SafetySpec => []ProbeIsTruthful` |
| `StreamerProofs!ReachableInTurns` | `SafetySpec /\ []OneAtATime => []ServingIsReachable` |
| `StreamerProofs!SocketIsTaken` | a service that serves loses its socket only to another service's remove |
| `StreamerProofs!PolicyHasNoSay` | what carries the stream is a function of the host alone |
| `StreamerProofs!PolicyKeptExactly` | `SafetySpec => [](PolicyIsKept <=> HostAgrees)` |
| `StreamerProofs!WideByDeath` | `SafetySpec => WideOnlyByDeath` |
| `StreamerProofs!WideStaysWide` | `SafetySpec => [](LeftWide => []LeftWide)` |
| `StreamerProofs!ReachableAlone` | with one service, `SafetySpec => []ServingIsReachable` |
| `StreamerProofs!StartTypes` | `SafetySpec => []TypeOK` |
| `StreamerProofs!CarriedCorrect` | `SafetySpec => []CarriedAsClaimed` |
| `StreamerProofs!CountedCorrect` | `SafetySpec => []ViewersAreCounted` |
| `GatewayProofs!ReadyCorrect` | `PageSpec => []ReadyMeansHosted` |
| `GatewayProofs!GenuineUntroubled` | on `Untroubled` hosts, `PageSpec => ReadyIsGenuine` |
| `LeaderProofs!LeaderTypes` | `Spec => []TypeOK` |
| `LeaderProofs!SecretCorrect` | `Spec => []SecretArrives` |
| `LeaderProofs!RootStaysGone` | `RootIsGone` is kept by every sequence of the calls that change ids, groups and capabilities |
| `LeaderProofs!SessionCorrect` | `Spec => []SessionIsPermitted` |
| `LeaderProofs!ExitCorrect` | `Spec => []ExitIsTruthful` |
| `LeaderProofs!RunsAsUserCorrect` | `Spec => []RunsAsUser` |
| `LeaderProofs!RootCanDropCorrect` | `Spec => []RootCanDrop` |
| `FrameTapProofs!TapTypes` | `Spec => []TypeOK` |
| `FrameTapProofs!TapTakesNothing` | `Spec => []NothingLost` |
| `FrameTapProofs!TapStaysFresh` | `Spec => []TapIsFresh` |

How they go:

* *Counting.* `CountWithinStrays` speaks of the cardinality of the registered
  viewers, which each handler changes by one; the induction needs types only.
  With no strays it makes the counter exact, which is what the refinement of
  `IdlePolicy` maps: `consumers = 0` exactly if `present = {}`. That nothing
  strays is a hypothesis about the behaviour and not about the constants, so the
  refinement also speaks of a system that may lose signals, up to its first stray.
* *Patience.* What the refinement means for a viewer is said with a rigid `t`:
  if at time `t` no countdown runs, the one that comes to a decision began at
  `t` or later (`NotBefore`), since the countdown's start is only ever cleared
  or set to the present. Hence the decision is `After` seconds away. An arrival
  stops the countdown whatever the count is, so `ArrivalIsRemembered` needs no
  assumption on strays; that a registered viewer is counted does
  (`CountedAttended`), so `LockIsPatient` has one. `WatchersWhenLocking` says
  what is left with strays. `DecisionIsWithdrawn` is the reason that `lock_race`
  is a matter of looking once: the flag tells of a viewer who is back, and the
  thread does not read it again before it dispatches.
* *Honest reports.* A reply on the connection is `ok` only if `ran`, and `ran`
  is reset by the connect that begins the attempt. The invariant ties `conn`
  and `ran` to the poll thread's position; that a dead instance's connection
  turns to `eof` and `eof` is not accepted is where the code's empty-reply
  check is used.
* *Discovery.* The live instance is the last one born and its socket exists;
  sockets belong to instances born. So the largest socket is the live one.
* *The register.* `caps = current` and `changedAt = lastApplied` are inductive;
  under them the code's no-op test and rate limit on its own copies are the
  abstract ones on the capsfilter, and `SanitisedIsLegal` gives legality. From
  the abstract step come `ChangesSpaced`, where `changedAt = t` is kept until a
  change at least the interval later, and `ResizeDecided`, the converse of a
  refusal: no resize is refused for any other reason.
* *Replies.* `AnswersInOrder` is not inductive: a reply might be written for a
  connection with none outstanding. `OrderInv` adds that the backlog holds
  distinct waiting clients with nothing read, at most one client is served, an
  answer is pending only while one is, and it answers the last line read.
  `ReplyIsApplied` adds to it that what the served client was told last, written
  or not, is `caps` (`ToldInv`): dispatch names the caps it leaves, or leaves
  them and names none, and nobody else's line is dispatched meanwhile.
  `DroppedForGarbage` is inductive beside both: what was closed does not change,
  and a line that is not text is read with every earlier one answered. From it,
  `ReportedIfText`: such lines are the one thing between the code and the
  statement that `control_silent_drop` refutes.
* *Refusals.* Only a rate limit that is still running answers "limited";
  that its window began with a change of the caps is the register's agreement.
* *Start.* How far an instance got says what its host is like (`FarEnough`);
  probes never get to `bind`, so with one service, or with several that take
  turns (`OneAtATime`), nobody else touches the socket's file between its test
  and its bind (`SocketFound`); what a killed one left is any instance's. What is announced
  and what carries the stream meet in `Told`: from the phase that resolved the
  encoder on, main's variables are what selection and pick compute from the
  host, and `BestFacts` and `FoundFacts` compare the two computations. The pick is a
  function of the host (`PolicyHasNoSay`), which turns the counterexample of
  `start_policy` into a condition that is necessary and sufficient
  (`PolicyKeptExactly`): whoever is given a stream under policy va is on a host
  with vah264enc, and under policy software on one without. The lock's
  flag is read off the same invariant. For the runtime directory `DirStep` says
  all that a step can do to it: only a process on its way through `mkdir` and
  `chmod` moves it (`DirMoves`), and it becomes abandoned and wide only by the step
  of such a process that is its last (`LeftStep`).
* *Gateway.* While nobody has ended, a socket's file or a runtime directory has
  a process behind it that is past building its graph (`PageInv`); the directory
  is there earlier than the socket, which is why an empty name must be refused.
  `GenuineUntroubled` bounds the counterexample of `ready_stale`: where hosts
  play and open what they list and nobody is killed, a compositor ends only in
  ways that remove its socket (`HostEnds`), so each file has a living owner
  (`GenuineInv`).
* *Leader.* Where the process is says which calls returned Ok (`Earned`); no
  step undoes what they established. For the drop, nothing brings groups back
  (`GroupsStay`), and past the verification `setuid(0)` has failed, which leaves
  neither a root id nor the capability; a process with root's rights keeps them
  until the last of the three calls (`RootInv`). `RootStaysGone` takes the three
  calls in any order and number, which is what makes one refused `setuid(0)`
  evidence for the rest of the process's life. For the secret, `StrippedOf` says
  what the stripping does to a text of any length, by the last characters only.
* *Tap.* What the sink was given, what waits for it and what the tee still has
  are consecutive numbers, without a gap (`FlowInv`). The frames sampled since
  the newest file was kept are fewer than `Rate` (`FreshInv`), since `Rate` frames
  after a kept one the next is kept (`KeptAgain`, from `Shifted`); what is queued
  or in hand is added to that.

Every invariant and every action property of a passing run is a theorem. Only
model-checked: all liveness (`PollReturns`, `IdleGetsLocked`, `LinesAreRead`,
`StartEnds`, `MissingAudioEnds`, `StallIsAbsorbed`, the fairness part of
`RefinesPolicy`), which needs ENABLED.

Two theorems have hypotheses on behaviours beside the specification, `NoStray`
and `OneAtATime`. Both are needed: a stray makes the count wrong at once, and
two services on one path take each other's socket. `Untroubled` and the
assumption of `ReportedIfText` bound what a violation run shows; the runs
themselves are outside of them.

## 5. Not modelled

* `signalling_port`: instances are taken to have ports of their own.
* `input.rs`, `wayland_display_from_message`, `apply_geometry`: nothing in the
  binary calls them. `apply_geometry` would break the agreement of `current` with
  the caps if something did.
* Poisoned mutexes: no code panics while holding one.
* `capture_sink` and the caps of the audio branch, which decide what is heard of a
  target that is there.
* The flow of buffers through encoders and the audio queue, and through PipeWire.
* `verify_irreversible` looks for root only: a retained saved id of a third user, or
  a CAP_SETGID left over, passes it, and `RunsAsUser` says nothing of either.
* Of the credentials: secure bits, permitted and inheritable capabilities, and a
  `setuid` that fails for want of resources. What logind does with the session
  when its process ends.
* A second name for the compositor's socket, when the first is taken by a live one
  of another program. That the gateway says ready while a streamer is settling,
  before the pipeline plays, is in the model and within `ReadyMeansHosted`.
* The files of an earlier run in the tap's directory, which nothing removes and a
  gate may take for this run's: `FrameTap` is one run from an empty directory.
* CI and packaging: no behaviour of the running system.

## 6. What is left

A composition of `Streamer`, `ControlServer` and `IdleLock` in one process: what
a bus error or a kill does to an attempt or a reply under way, and the lock
tracker's loss of its state over a restart with viewers reconnecting.
