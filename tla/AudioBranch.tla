---------------------------- MODULE AudioBranch ----------------------------
(***************************************************************************)
(* audio.rs: what CSTREAM_AUDIO asks for.  What is heard of a node, which  *)
(* capture_sink and the caps decide, is left out.                          *)
(***************************************************************************)
CONSTANT NoAudio

\* The PipeWire nodes that may be named (external): SPEAKER_NODE, MIC_NODE, others.
Nodes == {"cstream_speaker", "cstream_mic", "usb_speaker"}

ASSUME NoAudioAssumption == NoAudio \notin Nodes

AudioWords == {"off", "on"} \cup Nodes  \* unset and empty read as "off"

\* AudioConfig::from_env: the target, if there is to be audio.
AudioTarget(word) ==
  CASE word = "off" -> NoAudio
    [] word = "on" -> "cstream_speaker"
    [] OTHER -> word
=============================================================================
