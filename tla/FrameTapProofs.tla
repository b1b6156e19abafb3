--------------------------- MODULE FrameTapProofs ---------------------------
(***************************************************************************)
(* What TLAPS proves of the frame tap, for queues and directories of any   *)
(* size, any rate, and any number of frames.                               *)
(***************************************************************************)
EXTENDS FrameTap, TLAPS

USE SizesAssumption, MaxFramesAssumption

(***************************************************************************)
(* Sequences: what appending to one, or taking its head off, leaves.       *)
(***************************************************************************)
LEMMA Appended ==
  ASSUME NEW S, NEW q \in Seq(S), NEW x \in S
  PROVE  /\ Append(q, x) \in Seq(S)
         /\ Len(Append(q, x)) = Len(q) + 1
         /\ \A i \in 1 .. Len(q) : Append(q, x)[i] = q[i]
         /\ Append(q, x)[Len(q) + 1] = x
OBVIOUS

LEMMA Beheaded ==
  ASSUME NEW S, NEW q \in Seq(S), q # <<>>
  PROVE  /\ Head(q) \in S /\ Head(q) = q[1]
         /\ Tail(q) \in Seq(S)
         /\ Len(Tail(q)) = Len(q) - 1
         /\ \A i \in 1 .. Len(q) - 1 : Tail(q)[i] = q[i + 1]
         /\ Len(q) \in Nat \ {0}
OBVIOUS

LEMMA Alone ==
  ASSUME NEW S, NEW q \in Seq(S), q # <<>>, Len(q) <= 1
  PROVE  Len(q) = 1
<1> DEFINE k == Len(q)
<1>1. k \in Nat /\ k # 0
  OBVIOUS
<1>2. k <= 1
  OBVIOUS
<1> HIDE DEF k
<1>3. k = 1
  BY <1>1, <1>2
<1> QED
  BY <1>3 DEF k

LEMMA Joined ==
  ASSUME NEW S, NEW q \in Seq(S), NEW r \in Seq(S)
  PROVE  /\ q \o r \in Seq(S)
         /\ Len(q \o r) = Len(q) + Len(r)
         /\ \A i \in 1 .. Len(q) : (q \o r)[i] = q[i]
         /\ \A i \in 1 .. Len(r) : (q \o r)[Len(q) + i] = r[i]
OBVIOUS

\* A sequence of the first numbers is the function that lists them.
LEMMA Listed ==
  ASSUME NEW s \in Seq(Nat), \A i \in 1 .. Len(s) : s[i] = i
  PROVE  s = [n \in 1 .. Len(s) |-> n]
<1>1. s = [n \in 1 .. Len(s) |-> s[n]]
  OBVIOUS
<1> QED
  BY <1>1

-----------------------------------------------------------------------------
(***************************************************************************)
(* Typing.  Without the tap nothing is ever queued.                        *)
(***************************************************************************)
Underway == push # "capture" => taken >= 1

Untapped ==
  ~tapped => push # "tap" /\ qSink = <<>> /\ qTap = <<>> /\ held = <<>> /\ files = <<>>

TypeInv == TypeOK /\ Underway /\ Untapped

LEMMA TypeInit == Init => TypeInv
<1> SUFFICES ASSUME Init PROVE TypeInv
  OBVIOUS
<1>1. tapped \in BOOLEAN /\ failed \in BOOLEAN
  BY DEF Init
<1>2. /\ taken = 0 /\ push = "capture" /\ qSink = <<>> /\ qTap = <<>>
      /\ delivered = <<>> /\ held = <<>> /\ files = <<>>
  BY DEF Init
<1>3. <<>> \in Seq(Frames) /\ Len(<<>>) = 0
  OBVIOUS
<1> QED
  BY <1>1, <1>2, <1>3 DEF TypeInv, TypeOK, Underway, Untapped

\* A file that is written is the newest, and the directory does not outgrow
\* its limit for it.
LEMMA FileWritten ==
  ASSUME files \in Seq(Frames), Len(files) <= MaxFiles,
         held \in Seq(Frames), Len(held) <= 1, WriteFile
  PROVE  /\ files' \in Seq(Frames) /\ Len(files') <= MaxFiles
         /\ files' # <<>> /\ files'[Len(files')] = held[1]
<1> DEFINE all == files \o held
<1>1. held # <<>> /\ Len(files) \in Nat
  BY DEF WriteFile
<1>2. Len(held) = 1
  BY <1>1, Alone
<1>3. /\ all \in Seq(Frames) /\ Len(all) = Len(files) + 1
      /\ all[Len(files) + 1] = held[1]
  <2>1. /\ all \in Seq(Frames) /\ Len(all) = Len(files) + Len(held)
        /\ \A i \in 1 .. Len(held) : all[Len(files) + i] = held[i]
    BY Joined
  <2> QED
    BY <1>1, <1>2, <2>1
<1>4. files' = IF Len(all) > MaxFiles THEN Tail(all) ELSE all
  BY DEF WriteFile
<1> HIDE DEF all
<1>5. CASE Len(all) > MaxFiles
  <2>1. Len(all) = MaxFiles + 1 /\ Len(files) = MaxFiles /\ MaxFiles \in Nat \ {0}
    BY <1>1, <1>3, <1>5
  <2>2. all # <<>>
    BY <1>3, <2>1
  <2>3. /\ Tail(all) \in Seq(Frames) /\ Len(Tail(all)) = MaxFiles
        /\ Tail(all)[MaxFiles] = all[MaxFiles + 1]
    BY <1>3, <2>1, <2>2, Beheaded
  <2>4. Tail(all) # <<>>
    BY <2>1, <2>3
  <2> QED
    BY <1>3, <1>4, <1>5, <2>1, <2>3, <2>4
<1>6. CASE ~(Len(all) > MaxFiles)
  <2>1. all # <<>>
    BY <1>1, <1>3
  <2> QED
    BY <1>1, <1>3, <1>4, <1>6, <2>1
<1> QED
  BY <1>5, <1>6

LEMMA TypeStep == TypeInv /\ [Next]_vars => TypeInv'
<1> SUFFICES ASSUME TypeInv, [Next]_vars PROVE TypeInv'
  OBVIOUS
<1> USE DEF TypeInv, TypeOK, Underway, Untapped
<1>1. taken >= 1 => taken \in Frames
  BY DEF Frames
<1>2. CASE Capture
  BY <1>2 DEF Capture
<1>3. CASE FeedSink
  BY <1>1, <1>3, Appended DEF FeedSink
<1>4. CASE TeeToSink
  BY <1>1, <1>4, Appended DEF TeeToSink, HasRoom
<1>5. CASE TeeToTap
  BY <1>1, <1>5, Appended DEF TeeToTap, HasRoom
<1>6. CASE QueueToSink
  BY <1>6, Appended, Beheaded DEF QueueToSink
<1>7. CASE Sample
  <2>1. Head(qTap) \in Frames /\ Tail(qTap) \in Seq(Frames)
        /\ Len(Tail(qTap)) <= QueueLimit
    BY <1>7, Beheaded DEF Sample
  <2>2. held' \in Seq(Frames) /\ Len(held') <= 1
    BY <1>7, <2>1 DEF Sample
  <2> QED
    BY <1>7, <2>1, <2>2 DEF Sample
<1>8. CASE WriteFile
  BY <1>8, FileWritten DEF WriteFile
<1>9. CASE WriteFails \/ UNCHANGED vars
  BY <1>9 DEF WriteFails, vars
<1> QED
  BY <1>2, <1>3, <1>4, <1>5, <1>6, <1>7, <1>8, <1>9
  DEF Next, SourceStep, SinkStep, TapStep

\* The tap's state stays in its types: no queue and no directory outgrows its
\* limit, and the chain holds one frame at most (pipeline.rs:115-147).
THEOREM TapTypes == Spec => []TypeOK
<1>1. TypeInv => TypeOK
  BY DEF TypeInv
<1> QED
  BY <1>1, TypeInit, TypeStep, PTL DEF Spec

-----------------------------------------------------------------------------
(***************************************************************************)
(* Every frame is the sink's.  What it has been given, what waits for it   *)
(* and what the tee is still to hand on are, in that order, all there is.  *)
(***************************************************************************)
ToSink == IF push = "sink" THEN taken - 1 ELSE taken

FlowInv ==
  /\ Len(delivered) + Len(qSink) = ToSink
  /\ \A i \in 1 .. Len(delivered) : delivered[i] = i
  /\ \A i \in 1 .. Len(qSink) : qSink[i] = Len(delivered) + i

LEMMA FlowStep == TypeInv /\ FlowInv /\ [Next]_vars => FlowInv'
<1> SUFFICES ASSUME TypeInv, FlowInv, [Next]_vars PROVE FlowInv'
  OBVIOUS
<1> USE DEF FlowInv, ToSink
<1>1. /\ taken \in Nat /\ push \in {"capture", "sink", "tap"}
      /\ delivered \in Seq(Frames) /\ qSink \in Seq(Frames)
      /\ Len(delivered) \in Nat /\ Len(qSink) \in Nat
      /\ push # "capture" => taken \in Frames
      /\ ~tapped => qSink = <<>>
  BY DEF TypeInv, TypeOK, Underway, Untapped, Frames
<1>2. CASE Capture
  BY <1>1, <1>2 DEF Capture
<1>3. CASE FeedSink
  BY <1>1, <1>3, Appended DEF FeedSink
<1>4. CASE TeeToSink
  <2>1. /\ push = "sink" /\ push' = "tap" /\ taken' = taken /\ delivered' = delivered
        /\ qSink' = Append(qSink, taken) /\ taken \in Frames
    BY <1>1, <1>4 DEF TeeToSink
  <2>2. /\ Len(qSink') = Len(qSink) + 1
        /\ \A i \in 1 .. Len(qSink) : qSink'[i] = qSink[i]
        /\ qSink'[Len(qSink) + 1] = taken
    BY <1>1, <2>1, Appended
  <2>3. taken = Len(delivered) + Len(qSink) + 1
    BY <1>1, <2>1
  <2>4. \A i \in 1 .. Len(qSink') : qSink'[i] = Len(delivered') + i
    <3> SUFFICES ASSUME NEW i \in 1 .. Len(qSink) + 1
                 PROVE  qSink'[i] = Len(delivered) + i
      BY <2>1, <2>2
    <3>1. i \in 1 .. Len(qSink) \/ i = Len(qSink) + 1
      BY <1>1
    <3> QED
      BY <1>1, <2>2, <2>3, <3>1
  <2>5. Len(delivered') + Len(qSink') = taken'
    BY <1>1, <2>1, <2>2, <2>3
  <2> QED
    BY <2>1, <2>4, <2>5
<1>5. CASE TeeToTap
  BY <1>1, <1>5 DEF TeeToTap
<1>6. CASE QueueToSink
  <2>1. Head(qSink) = Len(delivered) + 1 /\ Head(qSink) \in Frames
    BY <1>1, <1>6, Beheaded DEF QueueToSink
  <2>2. /\ Len(delivered') = Len(delivered) + 1
        /\ \A i \in 1 .. Len(delivered) : delivered'[i] = delivered[i]
        /\ delivered'[Len(delivered) + 1] = Len(delivered) + 1
    BY <1>1, <1>6, <2>1, Appended DEF QueueToSink
  <2>3. /\ Len(qSink') = Len(qSink) - 1 /\ Len(qSink) \in Nat \ {0}
        /\ \A i \in 1 .. Len(qSink) - 1 : qSink'[i] = qSink[i + 1]
    BY <1>1, <1>6, Beheaded DEF QueueToSink
  <2>4. \A i \in 1 .. Len(qSink') : qSink'[i] = Len(delivered') + i
    BY <1>1, <2>2, <2>3
  <2>5. \A i \in 1 .. Len(delivered') : delivered'[i] = i
    BY <1>1, <2>2
  <2>6. taken' = taken /\ push' = push
    BY <1>6 DEF QueueToSink
  <2>7. Len(delivered') + Len(qSink') = Len(delivered) + Len(qSink)
    BY <1>1, <2>2, <2>3
  <2> QED
    BY <2>4, <2>5, <2>6, <2>7
<1>7. CASE Sample \/ WriteFile \/ WriteFails \/ UNCHANGED vars
  BY <1>7 DEF Sample, WriteFile, WriteFails, vars
<1> QED
  BY <1>2, <1>3, <1>4, <1>5, <1>6, <1>7 DEF Next, SourceStep, SinkStep, TapStep

LEMMA FlowIsWhole == TypeInv /\ FlowInv => NothingLost
<1> SUFFICES ASSUME TypeInv, FlowInv PROVE NothingLost
  OBVIOUS
<1> DEFINE under == IF push = "sink" THEN <<taken>> ELSE <<>>
           all == delivered \o qSink \o under
<1>1. /\ taken \in Nat
      /\ delivered \in Seq(Nat) /\ qSink \in Seq(Nat) /\ under \in Seq(Nat)
      /\ Len(under) = IF push = "sink" THEN 1 ELSE 0
      /\ push = "sink" => under[1] = taken
      /\ Len(delivered) \in Nat /\ Len(qSink) \in Nat
  BY DEF TypeInv, TypeOK, Frames
<1> HIDE DEF under
<1>2. /\ all \in Seq(Nat)
      /\ Len(all) = Len(delivered) + Len(qSink) + Len(under)
  <2>1. /\ delivered \o qSink \in Seq(Nat)
        /\ Len(delivered \o qSink) = Len(delivered) + Len(qSink)
    BY <1>1, Joined
  <2> QED
    BY <1>1, <2>1, Joined
<1>3. Len(all) = taken
  BY <1>1, <1>2 DEF FlowInv, ToSink
<1>4. ASSUME NEW i \in 1 .. Len(all) PROVE all[i] = i
  <2>1. \A j \in 1 .. Len(delivered \o qSink) : (delivered \o qSink)[j] = j
    <3>1. /\ delivered \o qSink \in Seq(Nat)
          /\ Len(delivered \o qSink) = Len(delivered) + Len(qSink)
          /\ \A j \in 1 .. Len(delivered) : (delivered \o qSink)[j] = delivered[j]
          /\ \A j \in 1 .. Len(qSink) :
               (delivered \o qSink)[Len(delivered) + j] = qSink[j]
      BY <1>1, Joined
    <3> DEFINE front == delivered \o qSink
    <3> HIDE DEF front
    <3> SUFFICES ASSUME NEW j \in 1 .. Len(front) PROVE front[j] = j
      BY DEF front
    <3>2. CASE j <= Len(delivered)
      BY <1>1, <3>1, <3>2 DEF FlowInv, front
    <3>3. CASE j > Len(delivered)
      <4>1. j - Len(delivered) \in 1 .. Len(qSink)
            /\ j = Len(delivered) + (j - Len(delivered))
        BY <1>1, <3>1, <3>3 DEF front
      <4> QED
        BY <1>1, <3>1, <4>1 DEF FlowInv, front
    <3> QED
      BY <1>1, <3>1, <3>2, <3>3 DEF front
  <2>2. /\ delivered \o qSink \in Seq(Nat)
        /\ Len(delivered \o qSink) = Len(delivered) + Len(qSink)
    BY <1>1, Joined
  <2>3. /\ \A j \in 1 .. Len(delivered \o qSink) : all[j] = (delivered \o qSink)[j]
        /\ \A j \in 1 .. Len(under) : all[Len(delivered \o qSink) + j] = under[j]
    <3> DEFINE front == delivered \o qSink
    <3>1. front \in Seq(Nat) /\ all = front \o under
      BY <2>2
    <3> HIDE DEF front, all
    <3>2. /\ \A j \in 1 .. Len(front) : all[j] = front[j]
          /\ \A j \in 1 .. Len(under) : all[Len(front) + j] = under[j]
      BY <1>1, <3>1, Joined
    <3> QED
      BY <3>2 DEF front
  <2> HIDE DEF all
  <2>4. CASE i <= Len(delivered) + Len(qSink)
    <3>1. i \in 1 .. Len(delivered \o qSink)
      BY <1>1, <1>2, <1>4, <2>2, <2>4
    <3>2. all[i] = (delivered \o qSink)[i]
      BY <2>3, <3>1
    <3>3. (delivered \o qSink)[i] = i
      BY <2>1, <3>1
    <3> QED
      BY <3>2, <3>3
  <2>5. CASE i > Len(delivered) + Len(qSink)
    <3>1. push = "sink" /\ i = Len(delivered) + Len(qSink) + 1 /\ Len(under) = 1
      BY <1>1, <1>2, <1>4, <2>5
    <3>2. all[i] = under[1]
      BY <1>1, <2>2, <2>3, <3>1
    <3> QED
      BY <1>1, <1>2, <1>3, <3>1, <3>2
  <2> QED
    BY <1>1, <1>2, <2>4, <2>5
<1> QED
  <2> HIDE DEF all
  <2>1. all = [n \in 1 .. taken |-> n]
    BY <1>2, <1>3, <1>4, Listed
  <2> QED
    BY <2>1 DEF NothingLost, all, under

(***************************************************************************)
(* The tap takes nothing from the stream (pipeline.rs:67-77, 115-117):     *)
(* whatever the size of the queues and however slow the disk, the sink is  *)
(* given every frame captured, once and in order.                          *)
(***************************************************************************)
THEOREM TapTakesNothing == Spec => []NothingLost
<1>1. Init => FlowInv
  BY DEF Init, FlowInv, ToSink
<1> QED
  BY <1>1, TypeInit, TypeStep, FlowStep, FlowIsWhole, PTL DEF Spec

-----------------------------------------------------------------------------
(***************************************************************************)
(* Every picture is recent.  Of Rate frames in a row the tap keeps one, so *)
(* the frames sampled since the newest file was kept are fewer than that.  *)
(***************************************************************************)
LEMMA Shifted ==
  ASSUME NEW f \in Nat
  PROVE  (f + Rate) % Rate = f % Rate
<1> DEFINE q == f \div Rate
           m == f % Rate
           p == (f + Rate) \div Rate
           n == (f + Rate) % Rate
<1>1. f = Rate * q + m /\ q \in Int /\ m \in 0 .. Rate - 1
  BY Z3
<1>2. f + Rate = Rate * p + n /\ p \in Int /\ n \in 0 .. Rate - 1
  BY Z3
<1> HIDE DEF q, m, p, n
<1>3. Rate * (p - (q + 1)) = m - n
  BY <1>1, <1>2, Z3
<1>4. ASSUME NEW d \in Int, NEW x \in Int, Rate * d = x, x < Rate, -x < Rate
      PROVE  d = 0
  BY <1>4, Z3
<1>5. p - (q + 1) = 0
  BY <1>1, <1>2, <1>3, <1>4, Z3
<1>6. m = n
  BY <1>1, <1>2, <1>3, <1>5, Z3
<1> QED
  BY <1>6 DEF m, n

ToTap == IF push = "capture" THEN taken ELSE taken - 1

Sampled == ToTap - Len(qTap)

FreshInv ==
  tapped =>
    /\ Sampled >= 0
    /\ \A i \in 1 .. Len(qTap) : qTap[i] = Sampled + i
    /\ Newest = 0 \/ Keeps(Newest)
    /\ IF held = <<>>
         THEN Newest <= Sampled /\ Sampled - Newest < Rate /\ (Newest = 0 => Sampled = 0)
         ELSE /\ Newest < Sampled /\ Sampled - Newest <= Rate
              /\ held[1] = Sampled /\ Keeps(Sampled)

\* What is sampled next, where the last kept frame is less than a second old.
LEMMA SampleNext ==
  ASSUME NEW kept \in Nat, NEW sampled \in Nat, kept <= sampled, sampled - kept < Rate,
         kept = 0 \/ Keeps(kept), kept = 0 => sampled = 0, ~Keeps(sampled + 1)
  PROVE  sampled + 1 - kept < Rate /\ kept # 0
<1>1. kept # 0
  <2> SUFFICES ASSUME kept = 0 PROVE FALSE
    OBVIOUS
  <2>1. Keeps(1)
    BY DEF Keeps
  <2> QED
    BY <2>1
<1>2. (kept + Rate) % Rate = kept % Rate
  BY Shifted
<1>3. kept + Rate # sampled + 1
  BY <1>1, <1>2 DEF Keeps
<1> QED
  BY <1>1, <1>3

LEMMA FreshStep == TypeInv /\ FreshInv /\ [Next]_vars => FreshInv'
<1> SUFFICES ASSUME TypeInv, FreshInv, [Next]_vars, tapped PROVE FreshInv'
  BY DEF FreshInv, Next, SourceStep, SinkStep, TapStep, Capture, FeedSink, TeeToSink,
     TeeToTap, QueueToSink, Sample, WriteFile, WriteFails, vars
<1>1. /\ taken \in Nat /\ push \in {"capture", "sink", "tap"}
      /\ qTap \in Seq(Frames) /\ Len(qTap) \in Nat
      /\ push # "capture" => taken \in Frames
      /\ files \in Seq(Frames) /\ Len(files) <= MaxFiles
      /\ held \in Seq(Frames) /\ Len(held) <= 1
  BY DEF TypeInv, TypeOK, Underway, Frames
<1>2. /\ Sampled >= 0 /\ Sampled \in Nat
      /\ \A i \in 1 .. Len(qTap) : qTap[i] = Sampled + i
      /\ Newest = 0 \/ Keeps(Newest)
      /\ IF held = <<>>
           THEN Newest <= Sampled /\ Sampled - Newest < Rate /\ (Newest = 0 => Sampled = 0)
           ELSE /\ Newest < Sampled /\ Sampled - Newest <= Rate
                /\ held[1] = Sampled /\ Keeps(Sampled)
  BY <1>1 DEF FreshInv, Sampled, ToTap
<1>3. Newest \in Nat
  <2>1. CASE files = <<>>
    BY <2>1 DEF Newest
  <2>2. CASE files # <<>>
    <3>1. files[Len(files)] \in Frames
      BY <1>1, <2>2
    <3> QED
      BY <2>2, <3>1 DEF Newest, Last, Frames
  <2> QED
    BY <2>1, <2>2
\* Steps that leave the tap's side alone.
<1>4. ASSUME UNCHANGED <<qTap, held, files>>, ToTap' = ToTap PROVE FreshInv'
  <2>1. Sampled' = Sampled /\ Newest' = Newest
    BY <1>4 DEF Sampled, Newest
  <2> QED
    BY <1>2, <1>4, <2>1 DEF FreshInv, Keeps
<1>5. CASE Capture \/ TeeToSink \/ QueueToSink \/ WriteFails \/ UNCHANGED vars
  <2>1. UNCHANGED <<qTap, held, files>>
    BY <1>5 DEF Capture, TeeToSink, QueueToSink, WriteFails, vars
  <2>2. \/ push = "capture" /\ push' = "sink" /\ taken' = taken + 1
        \/ push = "sink" /\ push' = "tap" /\ taken' = taken
        \/ push' = push /\ taken' = taken
    BY <1>5 DEF Capture, TeeToSink, QueueToSink, WriteFails, vars
  <2>3. ToTap' = ToTap
    BY <1>1, <2>2 DEF ToTap
  <2> QED
    BY <1>4, <2>1, <2>3
<1>6. CASE FeedSink
  BY <1>6 DEF FeedSink
<1>7. CASE TeeToTap
  <2>1. /\ push = "tap" /\ push' = "capture" /\ taken' = taken /\ taken \in Frames
        /\ qTap' = Append(qTap, taken) /\ UNCHANGED <<held, files>>
    BY <1>1, <1>7 DEF TeeToTap
  <2>2. /\ Len(qTap') = Len(qTap) + 1
        /\ \A i \in 1 .. Len(qTap) : qTap'[i] = qTap[i]
        /\ qTap'[Len(qTap) + 1] = taken
    BY <1>1, <2>1, Appended
  <2>3. Sampled' = Sampled /\ taken = Sampled + Len(qTap) + 1
    BY <1>1, <2>1, <2>2 DEF Sampled, ToTap
  <2>4. \A i \in 1 .. Len(qTap') : qTap'[i] = Sampled + i
    <3> SUFFICES ASSUME NEW i \in 1 .. Len(qTap) + 1 PROVE qTap'[i] = Sampled + i
      BY <2>2
    <3>1. CASE i \in 1 .. Len(qTap)
      BY <1>2, <2>2, <3>1
    <3>2. CASE i = Len(qTap) + 1
      BY <1>1, <1>2, <2>2, <2>3, <3>2
    <3> QED
      BY <1>1, <3>1, <3>2
  <2>5. Newest' = Newest
    BY <2>1 DEF Newest
  <2> QED
    BY <1>2, <2>1, <2>3, <2>4, <2>5 DEF FreshInv, Keeps
<1>8. CASE Sample
  <2>1. /\ held = <<>> /\ qTap # <<>> /\ qTap' = Tail(qTap)
        /\ held' = IF Keeps(Head(qTap)) THEN <<Head(qTap)>> ELSE <<>>
        /\ UNCHANGED <<tapped, taken, push, files>>
    BY <1>8 DEF Sample
  <2>2. /\ Head(qTap) = qTap[1] /\ Len(qTap) \in Nat \ {0}
        /\ Len(qTap') = Len(qTap) - 1
        /\ \A i \in 1 .. Len(qTap) - 1 : qTap'[i] = qTap[i + 1]
    BY <1>1, <2>1, Beheaded
  <2>3. Head(qTap) = Sampled + 1 /\ Sampled' = Sampled + 1
    <3>1. 1 \in 1 .. Len(qTap)
      BY <2>2
    <3>2. ToTap' = ToTap /\ ToTap \in Int
      BY <1>1, <2>1 DEF ToTap
    <3>3. Sampled' = Sampled + 1
      BY <2>2, <3>2 DEF Sampled
    <3> QED
      BY <1>2, <2>2, <3>1, <3>3
  <2>4. \A i \in 1 .. Len(qTap') : qTap'[i] = Sampled' + i
    BY <1>1, <1>2, <2>2, <2>3
  <2>5. Newest' = Newest
    BY <2>1 DEF Newest
  <2>6. CASE Keeps(Sampled + 1)
    <3>1. held' # <<>> /\ held'[1] = Sampled + 1
      BY <2>1, <2>3, <2>6
    <3>2. Newest < Sampled + 1 /\ Sampled + 1 - Newest <= Rate
      BY <1>2, <1>3, <2>1
    <3>3. Keeps(Sampled') /\ (Newest' = 0 \/ Keeps(Newest'))
      BY <1>2, <2>3, <2>5, <2>6
    <3>4. Newest' < Sampled' /\ Sampled' - Newest' <= Rate /\ Sampled' >= 0
          /\ held'[1] = Sampled'
      BY <1>2, <1>3, <2>3, <2>5, <3>1, <3>2
    <3> QED
      BY <2>4, <3>1, <3>3, <3>4 DEF FreshInv
  <2>7. CASE ~Keeps(Sampled + 1)
    <3>1. held' = <<>>
      BY <2>1, <2>3, <2>7
    <3>2. Sampled + 1 - Newest < Rate /\ Newest # 0
      BY <1>2, <1>3, <2>1, <2>7, SampleNext
    <3>3. Newest <= Sampled + 1 /\ Sampled + 1 >= 0
      BY <1>2, <1>3, <2>1
    <3>4. Newest' = 0 \/ Keeps(Newest')
      BY <1>2, <2>5
    <3>5. Newest' <= Sampled' /\ Sampled' - Newest' < Rate /\ Sampled' >= 0 /\ Newest' # 0
      BY <1>2, <1>3, <2>3, <2>5, <3>2, <3>3
    <3> QED
      BY <2>4, <3>1, <3>4, <3>5 DEF FreshInv
  <2> QED
    BY <2>6, <2>7
<1>9. CASE WriteFile
  <2>1. held # <<>> /\ held' = <<>> /\ UNCHANGED <<tapped, taken, push, qTap>>
    BY <1>9 DEF WriteFile
  <2>2. Sampled' = Sampled
    BY <2>1 DEF Sampled, ToTap
  <2>3. files' # <<>> /\ files'[Len(files')] = held[1]
    BY <1>1, <1>9, FileWritten
  <2>4. Newest' = Sampled /\ Keeps(Sampled) /\ Sampled # 0
    BY <1>2, <1>3, <2>1, <2>3 DEF Newest, Last
  <2> QED
    BY <1>2, <2>1, <2>2, <2>4 DEF FreshInv, Keeps
<1> QED
  BY <1>5, <1>6, <1>7, <1>8, <1>9 DEF Next, SourceStep, SinkStep, TapStep

LEMMA FreshBound == TypeInv /\ FreshInv => TapIsFresh
<1> SUFFICES ASSUME TypeInv, FreshInv, tapped
             PROVE  taken - Newest <= Rate + QueueLimit + 1
  BY DEF TapIsFresh
<1>1. taken \in Nat /\ Len(qTap) \in Nat /\ Len(qTap) <= QueueLimit
  BY DEF TypeInv, TypeOK
<1>2. Newest \in Nat
  <2>1. CASE files = <<>>
    BY <2>1 DEF Newest
  <2>2. CASE files # <<>>
    <3>1. files[Len(files)] \in Frames
      BY <2>2 DEF TypeInv, TypeOK
    <3> QED
      BY <2>2, <3>1 DEF Newest, Last, Frames
  <2> QED
    BY <2>1, <2>2
<1>3. Sampled - Newest <= Rate
  BY <1>1, <1>2 DEF FreshInv, Sampled, ToTap
<1>4. taken <= Sampled + QueueLimit + 1
  BY <1>1 DEF Sampled, ToTap
<1> QED
  BY <1>1, <1>2, <1>3, <1>4 DEF Sampled, ToTap

(***************************************************************************)
(* What a gate reads off the directory is this display (pipeline.rs:       *)
(* 67-74): while the stream runs, the newest file is no further behind the *)
(* capture than a second, a full queue and the frame on its way.           *)
(***************************************************************************)
THEOREM TapStaysFresh == Spec => []TapIsFresh
<1>1. Init => FreshInv
  <2> SUFFICES ASSUME Init PROVE FreshInv
    OBVIOUS
  <2>1. Sampled = 0 /\ Newest = 0 /\ held = <<>> /\ Len(qTap) = 0
    <3>1. /\ push = "capture" /\ taken = 0
          /\ qTap = <<>> /\ held = <<>> /\ files = <<>>
      BY DEF Init
    <3>2. Len(qTap) = 0
      BY <3>1
    <3>3. ToTap = 0
      BY <3>1 DEF ToTap
    <3>4. Sampled = 0
      BY <3>2, <3>3 DEF Sampled
    <3>5. Newest = 0
      BY <3>1 DEF Newest
    <3> QED
      BY <3>1, <3>2, <3>4, <3>5
  <2>2. Newest <= Sampled /\ Sampled - Newest < Rate /\ Sampled >= 0
    BY <2>1
  <2>3. \A i \in 1 .. Len(qTap) : qTap[i] = Sampled + i
    BY <2>1
  <2> QED
    BY <2>1, <2>2, <2>3 DEF FreshInv
<1> QED
  BY <1>1, TypeInit, TypeStep, FreshStep, FreshBound, PTL DEF Spec
=============================================================================
