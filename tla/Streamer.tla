------------------------------ MODULE Streamer ------------------------------
(***************************************************************************)
(* main.rs: the streamer's process from exec to its bus loop, with the     *)
(* probes and services that share one host, and a supervisor that starts   *)
(* them again (external).                                                  *)
(***************************************************************************)
EXTENDS Encoders, AudioBranch

CONSTANTS
  Instances,  \* the services and probes that share the directory and the path
              \* of the control socket; each has its own signalling port
  Hosts,      \* what the host may be like
  Setups,     \* the environments the instances may be given
  MaxStarts,  \* bound: starts of one instance
  Kills       \* whether a process may be killed

(***************************************************************************)
(* A host: what of GStreamer is in working order, the encoders in its      *)
(* registry, those that open, the PipeWire nodes, whether the graph links, *)
(* whether the pipeline reaches PLAYING, fails to, or never settles, and   *)
(* whether the runtime directory and the control socket may be created.    *)
(***************************************************************************)
Parts == {"core", "rswebrtc", "pipewire"}

HostRecords ==
  [installed : SUBSET Parts, present : SUBSET Elements, opens : SUBSET Elements, nodes : SUBSET Nodes,
   builds : BOOLEAN, negotiates : {"yes", "no", "never"}, writable : BOOLEAN]

\* CSTREAM_LOCK_AFTER: unset, empty, "off" and "0" are "off".
LockWords == {"off", "seconds", "malformed"}

Settings ==
  [policy : Policies \cup {"typo"}, probe : BOOLEAN, renderNode : BOOLEAN,
   audio : AudioWords, lock : LockWords]

ASSUME StreamerAssumption ==
  /\ Hosts \subseteq HostRecords
  /\ Setups \subseteq [Instances -> Settings]
  /\ MaxStarts \in Nat
  /\ Kills \in BOOLEAN
  /\ None \notin Int \cup Elements \cup {"software"} \cup (Instances \X Nat)

VARIABLES
  host, setting,  \* fixed once chosen
  phase,          \* per instance: where main is
  starts,         \* per instance: how often it was started
  code,           \* per instance: the exit code of the last run, or None
  log,            \* per instance: the markers this run has printed
  encoder,        \* per instance: what select_encoder returned
  rank,           \* per instance: the registry's ranks
  codecs,         \* per instance: webrtcsink's table, or None
  carrier,        \* per instance: the element that encodes for a viewer
  armed,          \* per instance: the idle lock is connected to the sink
  dir,            \* the runtime directory: "none", "wide" or "private"
  path            \* the control socket's file: whose it is, or None

envVars == <<host, setting>>
runVars == <<log, encoder, rank, codecs, carrier, armed>>
diskVars == <<dir, path>>
vars == <<envVars, phase, starts, code, runVars, diskVars>>

Startup == {"init", "dir", "mkdir", "chmod", "sink", "graph", "audio", "arm", "play",
            "settle", "verify", "exists", "remove", "bind"}
Running == Startup \cup {"serving"}

Me(i) == <<i, starts[i]>>

Init ==
  /\ host \in Hosts
  /\ setting \in Setups
  /\ phase = [i \in Instances |-> "down"]
  /\ starts = [i \in Instances |-> 0]
  /\ code = [i \in Instances |-> None]
  /\ log = [i \in Instances |-> {}]
  /\ encoder = [i \in Instances |-> None]
  /\ rank = [i \in Instances |-> None]
  /\ codecs = [i \in Instances |-> None]
  /\ carrier = [i \in Instances |-> None]
  /\ armed = [i \in Instances |-> FALSE]
  /\ dir \in {"none", "wide"}
  /\ path = None

Goto(i, there) == phase' = [phase EXCEPT ![i] = there]

Exit(i, c) == Goto(i, "down") /\ code' = [code EXCEPT ![i] = c]

\* Main goes on past a call that returned Ok, and exits with 1 past an Err.
GoOnIf(ok, i, there) ==
  IF ok THEN Goto(i, there) /\ UNCHANGED code ELSE Exit(i, 1)

Mark(i, marker) == log' = [log EXCEPT ![i] = @ \cup {marker}]

(***************************************************************************)
(* Mutated forms.                                                          *)
(***************************************************************************)
RegisteredOpens(e) == e \in host.present

DegradesSilently(e) == TRUE

\* A value that is there is taken for a number.
AnyValueAsks(word) == word # "off"

NeverGivesUp == FALSE

\* The mode is left to the umask.
MakesOnly(i) ==
  /\ phase[i] = "mkdir"
  /\ GoOnIf(dir # "none" \/ host.writable, i, "sink")
  /\ dir' = IF dir = "none" /\ host.writable THEN "wide" ELSE dir
  /\ UNCHANGED <<envVars, starts, runVars, path>>

\* The stale socket is left where it is.
BindsAtOnce(i) ==
  /\ phase[i] = "exists"
  /\ Goto(i, "bind")
  /\ UNCHANGED <<envVars, starts, code, runVars, diskVars>>

\* The bus loop ends at EOS alone.
IgnoresErrors(i) ==
  /\ phase[i] = "serving"
  /\ UNCHANGED vars

-----------------------------------------------------------------------------
(***************************************************************************)
(* The steps of main, in its order.                                        *)
(***************************************************************************)
\* exec: a supervisor, or whoever runs the probe, starts a new process.
Start(i) ==
  /\ phase[i] = "down"
  /\ starts[i] < MaxStarts
  /\ starts' = [starts EXCEPT ![i] = @ + 1]
  /\ Goto(i, "init")
  /\ code' = [code EXCEPT ![i] = None]
  /\ log' = [log EXCEPT ![i] = {}]
  /\ encoder' = [encoder EXCEPT ![i] = None]
  /\ rank' = [rank EXCEPT ![i] = None]
  /\ codecs' = [codecs EXCEPT ![i] = None]
  /\ carrier' = [carrier EXCEPT ![i] = None]
  /\ armed' = [armed EXCEPT ![i] = FALSE]
  /\ UNCHANGED <<envVars, diskVars>>

\* select_encoder's result is not its error.
Resolved(e) == e # None

\* gst::init returns an error.
InitFails(i) ==
  /\ phase[i] = "init"
  /\ "core" \notin host.installed
  /\ Exit(i, 1)
  /\ UNCHANGED <<envVars, starts, runVars, diskVars>>

\* The rest of init, EncodePolicy::parse and select_encoder.
ResolveEncoder(i) ==
  /\ phase[i] = "init"
  /\ "core" \in host.installed
  /\ rank' = [rank EXCEPT ![i] = RaiseHardwareEncoders(host.present)]
  /\ IF setting[i].policy \in Policies
       THEN LET e == SelectEncoder(setting[i].policy, host.present) IN
            /\ encoder' = [encoder EXCEPT ![i] = e]
            /\ GoOnIf(Resolved(e), i, "dir")
       ELSE Exit(i, 1) /\ UNCHANGED encoder
  /\ UNCHANGED <<envVars, starts, log, codecs, carrier, armed, diskVars>>

\* prepare_runtime_dir: a directory that exists is left alone.
LooksForDir(i) ==
  /\ phase[i] = "dir"
  /\ Goto(i, IF dir = "none" THEN "mkdir" ELSE "sink")
  /\ UNCHANGED <<envVars, starts, code, runVars, diskVars>>

\* create_dir_all also succeeds where somebody else has made it meanwhile.
MakeDir(i) ==
  /\ phase[i] = "mkdir"
  /\ GoOnIf(dir # "none" \/ host.writable, i, "chmod")
  /\ dir' = IF dir = "none" /\ host.writable THEN "wide" ELSE dir
  /\ UNCHANGED <<envVars, starts, runVars, path>>

\* set_permissions: EPERM if somebody else owns it, among other errors.
TightenDir(i) ==
  /\ phase[i] = "chmod"
  /\ \E ok \in BOOLEAN :
       /\ GoOnIf(ok, i, "sink")
       /\ dir' = IF ok THEN "private" ELSE dir
  /\ UNCHANGED <<envVars, starts, runVars, path>>

\* make_sink: the first webrtcsink of the process fixes its codec table.
MakeSink(i) ==
  LET ok == "rswebrtc" \in host.installed IN
  /\ phase[i] = "sink"
  /\ GoOnIf(ok, i, "graph")
  /\ codecs' = IF ok THEN [codecs EXCEPT ![i] = CodecTable(rank[i])] ELSE codecs
  /\ UNCHANGED <<envVars, starts, log, encoder, rank, carrier, armed, diskVars>>

\* make_source refuses an empty render node.
MakesSource(i) == setting[i].renderNode

\* build_capture: elements, caps filter, and the tee and its queues if tapped.
BuildCapture(i) ==
  /\ phase[i] = "graph"
  /\ GoOnIf(MakesSource(i) /\ host.builds, i, "audio")
  /\ UNCHANGED <<envVars, starts, runVars, diskVars>>

AsksForAudio(i) == AudioTarget(setting[i].audio) # NoAudio

\* audio::attach makes a pipewiresrc; it does not look for the node.
AttachAudio(i) ==
  /\ phase[i] = "audio"
  /\ GoOnIf(AsksForAudio(i) => "pipewire" \in host.installed, i, "arm")
  /\ UNCHANGED <<envVars, starts, runVars, diskVars>>

\* LockPolicy::from_env: only a number of seconds asks for the lock.
AsksForLock(word) == word = "seconds"

\* lifecycle::arm connects its handlers to the sink before it can have a viewer.
ArmLock(i) ==
  /\ phase[i] = "arm"
  /\ armed' = [armed EXCEPT ![i] = AsksForLock(setting[i].lock)]
  /\ Goto(i, "play")
  /\ UNCHANGED <<envVars, starts, code, log, encoder, rank, codecs, carrier, diskVars>>

\* pipewiresrc reports a target that PipeWire does not have.
AudioFound(i) == AsksForAudio(i) => AudioTarget(setting[i].audio) \in host.nodes

Healthy(i) == host.negotiates = "yes" /\ AudioFound(i)

\* set_state(Playing): what is wrong may show at once, or not yet.
SetPlaying(i) ==
  /\ phase[i] = "play"
  /\ \E ok \in {TRUE, Healthy(i)} : GoOnIf(ok, i, "settle")
  /\ UNCHANGED <<envVars, starts, runVars, diskVars>>

GivesUp == TRUE  \* STATE_TIMEOUT

\* pipeline.state(STATE_TIMEOUT), then the PLAYING marker.  A missing audio
\* target may also come up later, on the bus.
Settle(i) ==
  /\ phase[i] = "settle"
  /\ host.negotiates = "never" => GivesUp
  /\ \E ok \in {host.negotiates = "yes", Healthy(i)} :
       /\ GoOnIf(ok, i, "verify")
       /\ IF ok THEN Mark(i, "playing") ELSE UNCHANGED log
  /\ UNCHANGED <<envVars, starts, encoder, rank, codecs, carrier, armed, diskVars>>

Opens(e) == e \in host.opens

VerifyOpenable(e) == e = "software" \/ Opens(e)

\* verify_openable, the OPENABLE marker, and the probe's way out.
Verify(i) ==
  /\ phase[i] = "verify"
  /\ IF VerifyOpenable(encoder[i])
       THEN /\ Mark(i, "openable")
            /\ IF setting[i].probe THEN Exit(i, 0)
                                   ELSE Goto(i, "exists") /\ UNCHANGED code
       ELSE Exit(i, 1) /\ UNCHANGED log
  /\ UNCHANGED <<envVars, starts, encoder, rank, codecs, carrier, armed, diskVars>>

-----------------------------------------------------------------------------
(***************************************************************************)
(* control::bind: three system calls.  That any of them fails is reported  *)
(* and costs the control socket, not the stream.                           *)
(***************************************************************************)
LooksForSocket(i) ==
  /\ phase[i] = "exists"
  /\ Goto(i, IF path = None THEN "bind" ELSE "remove")
  /\ UNCHANGED <<envVars, starts, code, runVars, diskVars>>

RemovesSocket(i) ==
  /\ phase[i] = "remove"
  /\ path' = None
  /\ Goto(i, IF path = None THEN "serving" ELSE "bind")
  /\ UNCHANGED <<envVars, starts, code, runVars, dir>>

BindsSocket(i) ==
  /\ phase[i] = "bind"
  /\ Goto(i, "serving")
  /\ IF path = None /\ host.writable
       THEN path' = Me(i) /\ Mark(i, "listening")
       ELSE UNCHANGED <<path, log>>
  /\ UNCHANGED <<envVars, starts, code, encoder, rank, codecs, carrier, armed, dir>>

-----------------------------------------------------------------------------
(***************************************************************************)
(* Serving.                                                                *)
(***************************************************************************)
\* A consumer, from PLAYING on: its pad is encoded by the sink's pick, if that
\* opens, and encoder-setup tunes it.
EncodeFor(i) ==
  /\ phase[i] \in Running
  /\ "playing" \in log[i]
  /\ carrier[i] = None
  /\ Usable(codecs[i]) # {}
  /\ LET e == Best(codecs[i]) IN
       /\ e \in host.opens
       /\ carrier' = [carrier EXCEPT
            ![i] = [element |-> e, lowLatency |-> LowLatency(e, encoder[i])]]
  /\ UNCHANGED <<envVars, phase, starts, code, log, encoder, rank, codecs, armed>>
  /\ UNCHANGED diskVars

\* The bus loop ends at EOS, and at the first error.
BusEos(i) ==
  /\ phase[i] = "serving"
  /\ Exit(i, 0)
  /\ UNCHANGED <<envVars, starts, runVars, diskVars>>

BusError(i) ==
  /\ phase[i] = "serving"
  /\ Exit(i, 1)
  /\ UNCHANGED <<envVars, starts, runVars, diskVars>>

\* Killed at any point; the socket's file and the directory stay.
Kill(i) ==
  /\ Kills
  /\ phase[i] \in Running
  /\ Goto(i, "down")
  /\ code' = [code EXCEPT ![i] = None]
  /\ UNCHANGED <<envVars, starts, runVars, diskVars>>

MainStep(i) ==
  \/ InitFails(i) \/ ResolveEncoder(i)
  \/ LooksForDir(i) \/ MakeDir(i) \/ TightenDir(i)
  \/ MakeSink(i) \/ BuildCapture(i) \/ AttachAudio(i) \/ ArmLock(i)
  \/ SetPlaying(i) \/ Settle(i) \/ Verify(i)
  \/ LooksForSocket(i) \/ RemovesSocket(i) \/ BindsSocket(i)

Step(i) ==
  \/ Start(i) \/ MainStep(i) \/ EncodeFor(i) \/ BusEos(i) \/ BusError(i) \/ Kill(i)

Next == \E i \in Instances : Step(i)

SafetySpec == Init /\ [][Next]_vars

\* pipewiresrc's error for a target that is missing (external) reaches the loop.
MissesAudio(i) == ~AudioFound(i) /\ BusError(i)

\* A process that runs goes on running, and its bus is read; nobody has to
\* start or watch it, or to end it otherwise.
Spec ==
  SafetySpec /\ \A i \in Instances : WF_vars(MainStep(i)) /\ WF_vars(MissesAudio(i))

-----------------------------------------------------------------------------
(***************************************************************************)
(* Properties.                                                             *)
(***************************************************************************)
TypeOK ==
  /\ host \in Hosts
  /\ setting \in Setups
  /\ phase \in [Instances -> Running \cup {"down"}]
  /\ starts \in [Instances -> 0 .. MaxStarts]
  /\ code \in [Instances -> {0, 1, None}]
  /\ log \in [Instances -> SUBSET {"playing", "openable", "listening"}]
  /\ armed \in [Instances -> BOOLEAN]
  /\ dir \in {"none", "wide", "private"}
  /\ path \in {None} \cup (Instances \X (1 .. MaxStarts))
  /\ \A i \in Instances : phase[i] \in Running \ {"init"} =>
       encoder[i] \in {"software"} \cup (host.present \cap {"vah264enc", "vah265enc"})

(***************************************************************************)
(* "A probe that merely inspected the registry would pass on a host where  *)
(* the elements exist but refuse to link" (main.rs:5): one that exits with *)
(* 0 ran where the graph links and plays, and the encoder it named opens.  *)
(***************************************************************************)
ProbeIsTruthful ==
  \A i \in Instances :
    setting[i].probe /\ code[i] = 0 =>
      /\ host.builds /\ host.negotiates = "yes"
      /\ encoder[i] = "software" \/ encoder[i] \in host.opens

(***************************************************************************)
(* The encoder that is announced carries the stream (webrtc.rs:3-7), tuned *)
(* for latency if it is a software one (webrtc.rs:154-158), as long as     *)
(* what was announced is an H.264 encoder and the policy left the promoted *)
(* ranks alone.                                                            *)
(***************************************************************************)
CarriedAsClaimed ==
  \A i \in Instances :
    carrier[i] # None /\ encoder[i] # "vah265enc" /\ setting[i].policy # "software" =>
      IF encoder[i] = "software"
        THEN carrier[i] = [element |-> "x264enc", lowLatency |-> TRUE]
        ELSE carrier[i].element = encoder[i]

(***************************************************************************)
(* Whoever has been given a stream is counted by the idle lock exactly if  *)
(* the operator asked for one with a number of seconds: a malformed value  *)
(* does not lock (lifecycle.rs:49-53, 65-72), and no viewer comes before   *)
(* the lock listens (main.rs:83-84).                                       *)
(***************************************************************************)
ViewersAreCounted ==
  \A i \in Instances :
    carrier[i] # None => (armed[i] <=> setting[i].lock = "seconds")

(***************************************************************************)
(* A service that serves can be reached at the control socket, whatever    *)
(* earlier runs left behind, wherever they were killed, and whatever       *)
(* probes run beside it (main.rs:156-159, control.rs:158-161), if it may   *)
(* create one.                                                             *)
(***************************************************************************)
ServingIsReachable ==
  \A i \in Instances : host.writable /\ phase[i] = "serving" => path = Me(i)

(***************************************************************************)
(* A runtime directory that streamers make is theirs alone                 *)
(* (display.rs:71-85), whoever finds it meanwhile: it is left wide only    *)
(* when the last process that found none is killed, or exits with 1 over   *)
(* it, before it has tightened it.  None goes on in one it left wide.      *)
(***************************************************************************)
Making(i) == phase[i] \in {"mkdir", "chmod"}

LeftWide == dir = "wide" /\ \A i \in Instances : ~Making(i)

DiesMaking(i) == Making(i) /\ phase'[i] = "down" /\ (Kill(i) \/ code'[i] = 1)

WideOnlyByDeath ==
  [][ ~LeftWide /\ LeftWide' => \E i \in Instances : DiesMaking(i) ]_vars

(***************************************************************************)
(* Every start comes to serve or to exit: a pipeline that never negotiates *)
(* fails the run instead of hanging it (main.rs:15-19).                    *)
(***************************************************************************)
StartEnds ==
  \A i \in Instances : phase[i] = "init" ~> phase[i] \in {"serving", "down"}

(***************************************************************************)
(* "What must never happen is audio that was requested and is quietly      *)
(* absent" (audio.rs:73-77): a start whose target is not there ends,       *)
(* wherever PipeWire's answer overtakes or trails the rest of the start.   *)
(***************************************************************************)
MissingAudioEnds ==
  \A i \in Instances : phase[i] = "init" /\ ~AudioFound(i) ~> phase[i] = "down"

-----------------------------------------------------------------------------
(***************************************************************************)
(* Statements of the sources that the code does not keep.                  *)
(***************************************************************************)
\* webrtc.rs:19-21 says of policy va "Hardware, or fail. Never a silent CPU
\* fallback." and of policy software "Software, even where hardware exists."
PolicyIsKept ==
  \A i \in Instances :
    carrier[i] # None =>
      CASE setting[i].policy = "va" -> IsHardware(carrier[i].element)
        [] setting[i].policy = "software" -> ~IsHardware(carrier[i].element)
        [] OTHER -> TRUE
=============================================================================
