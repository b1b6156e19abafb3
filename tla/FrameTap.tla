------------------------------ MODULE FrameTap ------------------------------
(***************************************************************************)
(* build_capture's graph at run time: the source's thread carries a frame  *)
(* through the tee into one queue after the other, in the order in which   *)
(* they were linked; each queue has a thread of its own, one that feeds    *)
(* the sink and one that samples, encodes and writes JPEG files.  Without  *)
(* CSTREAM_FRAME_DIR the source's thread feeds the sink itself.  What the  *)
(* elements do is external: a queue that is full makes its pusher wait.    *)
(***************************************************************************)
EXTENDS Integers, SequencesExt

CONSTANTS
  QueueLimit,  \* frames a queue holds when it meets the first of its limits
  Rate,        \* frames captured in a second, of which the tap keeps one
  MaxFiles,    \* multifilesink's max-files
  MaxFrames    \* bound: frames captured

ASSUME SizesAssumption ==
  QueueLimit \in Nat \ {0} /\ Rate \in Nat \ {0} /\ MaxFiles \in Nat \ {0}
ASSUME MaxFramesAssumption == MaxFrames \in Nat

VARIABLES
  tapped,     \* CSTREAM_FRAME_DIR is set; fixed once chosen
  taken,      \* frames captured so far; frame n is the n-th
  push,       \* what the source's thread does next: "capture", "sink" or "tap"
  qSink,      \* the queue before the sink
  qTap,       \* the queue before the tap
  delivered,  \* the frames the sink has been given
  held,       \* frames in the tap's chain, to be written
  files,      \* the frames in the directory, by age
  failed      \* an element has posted an error: main's bus loop ends the stream

vars == <<tapped, taken, push, qSink, qTap, delivered, held, files, failed>>

Init ==
  /\ tapped \in BOOLEAN
  /\ taken = 0
  /\ push = "capture"
  /\ qSink = <<>> /\ qTap = <<>>
  /\ delivered = <<>>
  /\ held = <<>>
  /\ files = <<>>
  /\ failed = FALSE

(***************************************************************************)
(* Mutated forms.                                                          *)
(***************************************************************************)
NeverFull(queue) == TRUE

\* leaky=upstream, and leaky=downstream.
DropsNewest ==
  /\ push = "sink" /\ tapped
  /\ qSink' = IF Len(qSink) < QueueLimit THEN Append(qSink, taken) ELSE qSink
  /\ push' = "tap"
  /\ UNCHANGED <<tapped, taken, qTap, delivered, held, files, failed>>

DropsOldest ==
  /\ push = "tap"
  /\ qTap' = Append(IF Len(qTap) < QueueLimit THEN qTap ELSE Tail(qTap), taken)
  /\ push' = "capture"
  /\ UNCHANGED <<tapped, taken, qSink, delivered, held, files, failed>>

\* Linked to the tee without a queue of its own.
Unqueued ==
  /\ push = "tap"
  /\ held = <<>> /\ qTap = <<>>
  /\ held' = <<taken>>
  /\ push' = "capture"
  /\ UNCHANGED <<tapped, taken, qSink, qTap, delivered, files, failed>>

-----------------------------------------------------------------------------
(***************************************************************************)
(* The source's thread.                                                    *)
(***************************************************************************)
Capture ==
  /\ push = "capture"
  /\ taken < MaxFrames
  /\ taken' = taken + 1
  /\ push' = "sink"
  /\ UNCHANGED <<tapped, qSink, qTap, delivered, held, files, failed>>

HasRoom(queue) == Len(queue) < QueueLimit

\* convert is linked to the sink.
FeedSink ==
  /\ push = "sink" /\ ~tapped
  /\ delivered' = Append(delivered, taken)
  /\ push' = "capture"
  /\ UNCHANGED <<tapped, taken, qSink, qTap, held, files, failed>>

\* convert is linked to the tee, the tee to q_sink and then to q_tap.
TeeToSink ==
  /\ push = "sink" /\ tapped
  /\ HasRoom(qSink)
  /\ qSink' = Append(qSink, taken)
  /\ push' = "tap"
  /\ UNCHANGED <<tapped, taken, qTap, delivered, held, files, failed>>

TeeToTap ==
  /\ push = "tap"
  /\ HasRoom(qTap)
  /\ qTap' = Append(qTap, taken)
  /\ push' = "capture"
  /\ UNCHANGED <<tapped, taken, qSink, delivered, held, files, failed>>

-----------------------------------------------------------------------------
(***************************************************************************)
(* The queues' threads.                                                    *)
(***************************************************************************)
QueueToSink ==
  /\ qSink # <<>>
  /\ delivered' = Append(delivered, Head(qSink))
  /\ qSink' = Tail(qSink)
  /\ UNCHANGED <<tapped, taken, push, qTap, held, files, failed>>

\* videorate, down to one frame per second.
Keeps(frame) == frame % Rate = 1 % Rate

Sample ==
  /\ held = <<>>
  /\ qTap # <<>>
  /\ held' = IF Keeps(Head(qTap)) THEN <<Head(qTap)>> ELSE <<>>
  /\ qTap' = Tail(qTap)
  /\ UNCHANGED <<tapped, taken, push, qSink, delivered, files, failed>>

\* jpegenc and multifilesink, which removes the oldest file beyond max-files.
WriteFile ==
  /\ held # <<>>
  /\ files' = LET all == files \o held
              IN  IF Len(all) > MaxFiles THEN Tail(all) ELSE all
  /\ held' = <<>>
  /\ UNCHANGED <<tapped, taken, push, qSink, qTap, delivered, failed>>

\* The disk is full, or the directory gone.
WriteFails ==
  /\ held # <<>>
  /\ failed' = TRUE
  /\ UNCHANGED <<tapped, taken, push, qSink, qTap, delivered, held, files>>

\* main's bus loop brings the pipeline to Null at the first error.
Streaming == ~failed

SourceStep == Streaming /\ (Capture \/ FeedSink \/ TeeToSink \/ TeeToTap)
SinkStep == Streaming /\ QueueToSink
TapStep == Streaming /\ (Sample \/ WriteFile \/ WriteFails)

Next == SourceStep \/ SinkStep \/ TapStep

(***************************************************************************)
(* Fairness: frames come, and the sink takes what it is given.  The disk   *)
(* may stall for good.                                                     *)
(***************************************************************************)
Spec == Init /\ [][Next]_vars /\ WF_vars(SourceStep) /\ WF_vars(SinkStep)

-----------------------------------------------------------------------------
(***************************************************************************)
(* Properties.                                                             *)
(***************************************************************************)
Frames == 1 .. MaxFrames

TypeOK ==
  /\ tapped \in BOOLEAN
  /\ taken \in 0 .. MaxFrames
  /\ push \in {"capture", "sink", "tap"}
  /\ qSink \in Seq(Frames) /\ Len(qSink) <= QueueLimit
  /\ qTap \in Seq(Frames) /\ Len(qTap) <= QueueLimit
  /\ delivered \in Seq(Frames)
  /\ held \in Seq(Frames) /\ Len(held) <= 1
  /\ files \in Seq(Frames) /\ Len(files) <= MaxFiles
  /\ failed \in BOOLEAN

(***************************************************************************)
(* The tap takes nothing from the stream (pipeline.rs:67-77, 115-117): the *)
(* sink is given every frame that was captured, once and in order, however *)
(* far the tap is behind.                                                  *)
(***************************************************************************)
NothingLost ==
  LET under == IF push = "sink" THEN <<taken>> ELSE <<>>
  IN  delivered \o qSink \o under = [n \in 1 .. taken |-> n]

(***************************************************************************)
(* What a frame-content gate reads off the directory is this display, and  *)
(* not an old picture of it (pipeline.rs:67-74): the newest file is behind *)
(* the capture by less than a second, a queue, and the frame on its way,   *)
(* even while the disk is stalled.                                         *)
(***************************************************************************)
Newest == IF files = <<>> THEN 0 ELSE Last(files)

TapIsFresh == tapped => taken - Newest <= Rate + QueueLimit + 1

(***************************************************************************)
(* A tap that stalls for good does not touch the stream before its queue   *)
(* has filled up (pipeline.rs:115-117): from an empty queue, that many     *)
(* more frames reach the sink, and the one that then waits in the tee.     *)
(***************************************************************************)
StallIsAbsorbed ==
  \A n \in 0 .. MaxFrames :
    (push = "capture" /\ qTap = <<>> /\ taken = n)
      ~> (Len(delivered) >= Min({n + QueueLimit + 1, MaxFrames}) \/ failed)
=============================================================================
