----------------------------- MODULE MCStreamer -----------------------------
(* Instances of Streamer for TLC: hosts, and environments for the instances. *)
EXTENDS Streamer

CONSTANTS s1, probe

Host(present, opens) ==
  [installed |-> Parts, present |-> present, opens |-> opens, nodes |-> Nodes,
   builds |-> TRUE, negotiates |-> "yes", writable |-> TRUE]

Set(policy, isProbe, audio) ==
  [policy |-> policy, probe |-> isProbe, renderNode |-> TRUE, audio |-> audio,
   lock |-> "off"]

Good == Host(Elements, Elements)

\* Every mix of encoders, those that do not open included, that plays or not.
EncoderHosts ==
  {h \in HostRecords : /\ h.installed = Parts /\ h.nodes = {} /\ h.opens \subseteq h.present
                       /\ h.builds \/ h.negotiates = "yes"
                       /\ h.writable}

\* What keeps a start from succeeding.
TroubledHosts ==
  {Good, [Good EXCEPT !.negotiates = "never"], [Good EXCEPT !.negotiates = "no"],
   [Good EXCEPT !.installed = {}], [Good EXCEPT !.installed = {"core", "pipewire"}],
   [Good EXCEPT !.installed = {"core", "rswebrtc"}], [Good EXCEPT !.nodes = {"cstream_mic"}],
   [Good EXCEPT !.writable = FALSE], [Good EXCEPT !.opens = {}],
   Host({"x264enc"}, {"x264enc"})}

\* One instance, probe or service, under every policy.
AnyPolicy ==
  {[i \in Instances |-> Set(p, q, "off")] :
     p \in Policies \cup {"typo"}, q \in BOOLEAN}

\* ... or a service that asks, rightly or wrongly, for the idle lock.
PolicyOrLock ==
  AnyPolicy \cup
  {[i \in Instances |-> [Set("auto", FALSE, "off") EXCEPT !.lock = w]] : w \in LockWords}

\* Services, and a probe beside them, all with the default paths.
Beside(audio, hasNode) ==
  [i \in Instances |->
     IF i = probe THEN Set("auto", TRUE, "off")
                  ELSE [Set("auto", FALSE, audio) EXCEPT !.renderNode = hasNode]]

\* The service is asked for audio of every kind, or has no render node.
AnyRequest == {Beside(a, TRUE) : a \in AudioWords} \cup {Beside("off", FALSE)}
=============================================================================
