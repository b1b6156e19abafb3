--------------------------- MODULE IdleLockProofs ---------------------------
(***************************************************************************)
(* What TLAPS proves of IdleLock, for any number of viewers, instances,    *)
(* strays and any time constants.                                          *)
(***************************************************************************)
EXTENDS IdleLock, FiniteSetTheorems, WellFoundedInduction, TLAPS

(***************************************************************************)
(* A non-empty set of instances has a newest member (the sort and pop of   *)
(* lifecycle.rs:104-106).                                                  *)
(***************************************************************************)
LEMMA NewestExists ==
  ASSUME NEW S \in SUBSET (1 .. MaxInstances), S # {}
  PROVE  Newest(S) \in S /\ \A n \in S : n <= Newest(S)
<1> DEFINE Ages == {MaxInstances - n : n \in S}
           R == OpToRel(<, Nat)
<1> HIDE DEF R
<1>1. Ages \subseteq Nat /\ Ages # {}
  <2>1. \A n \in S : MaxInstances - n \in Nat
    BY MaxInstancesAssumption
  <2>2. PICK n \in S : TRUE
    OBVIOUS
  <2>3. MaxInstances - n \in Ages
    BY <2>2
  <2> QED
    BY <2>1, <2>3
<1>2. PICK a \in Ages : \A b \in Ages : ~(<<b, a>> \in R)
  <2> HIDE DEF Ages
  <2> QED
    BY <1>1, NatLessThanWellFounded, WFMin DEF R
<1>3. \A b \in Ages : a <= b
  <2> SUFFICES ASSUME NEW b \in Ages, b < a
               PROVE  FALSE
    BY <1>1
  <2>1. a \in Nat /\ b \in Nat
    BY <1>1
  <2>2. <<b, a>> \in R
    BY <2>1 DEF R, OpToRel
  <2> QED
    BY <1>2, <2>2
<1>4. PICK m \in S : a = MaxInstances - m
  BY <1>2
<1>5. \A n \in S : m >= n
  <2> TAKE n \in S
  <2>1. MaxInstances - m <= MaxInstances - n
    BY <1>3, <1>4
  <2> QED
    BY <2>1, MaxInstancesAssumption
<1> QED
  BY <1>4, <1>5, MaxInstancesAssumption DEF Newest, Max

-----------------------------------------------------------------------------
(***************************************************************************)
(* Typing.                                                                 *)
(***************************************************************************)
USE DEF trackerVars, hyprVars, pollVars, TypeOK, TrackerTypeOK, HyprTypeOK,
        Stages, Replies

LEMMA TypeInit == Init => TypeOK
<1> SUFFICES ASSUME Init PROVE TypeOK
  OBVIOUS
<1>1. locked \in BOOLEAN /\ curtain \in BOOLEAN /\ ran \in BOOLEAN
  BY Zenon DEF Init, TrackerInit, HyprInit
<1>2. viewer \in [Viewers -> Stages]
  BY DEF Init
<1>3. 1 \in 1 .. MaxInstances /\ 0 \in 0 .. MaxTime /\ 0 \in 0 .. MaxStray
  BY MaxInstancesAssumption, TimingAssumption
<1> QED
  BY <1>1, <1>2, <1>3, MaxInstancesAssumption, TimingAssumption
  DEF Init, TrackerInit, HyprInit

\* What the tracker's methods do to the tracker's types.
LEMMA TrackerTypes ==
  ASSUME TypeOK
  PROVE  /\ OnConsumerAdded => TrackerTypeOK'
         /\ OnConsumerRemoved(now) => TrackerTypeOK'
         /\ ShouldLock(now) => TrackerTypeOK'
<1>1. OnConsumerAdded => TrackerTypeOK'
  <2> SUFFICES ASSUME OnConsumerAdded PROVE TrackerTypeOK'
    OBVIOUS
  <2>1. locked' \in BOOLEAN
    BY Zenon DEF OnConsumerAdded
  <2> QED
    BY <2>1 DEF OnConsumerAdded
<1>2. OnConsumerRemoved(now) => TrackerTypeOK'
  BY TimingAssumption DEF OnConsumerRemoved, SaturatingPred
<1>3. ShouldLock(now) => TrackerTypeOK'
  BY DEF ShouldLock
<1> QED
  BY <1>1, <1>2, <1>3

LEMMA ViewerTypes ==
  ASSUME TypeOK, NEW v \in Viewers,
         Connects(v) \/ ConsumerAdded(v) \/ Disconnects(v) \/ ConsumerRemoved(v)
  PROVE  TypeOK'
<1>1. ASSUME NEW from \in Stages, NEW to \in Stages, Moves(v, from, to),
             TrackerTypeOK', UNCHANGED hyprVars
      PROVE  TypeOK'
  BY <1>1 DEF Moves
<1>2. TrackerTypeOK'
  BY TrackerTypes DEF Connects, Disconnects, ConsumerAdded, ConsumerRemoved
<1> QED
  BY <1>1, <1>2 DEF Connects, Disconnects, ConsumerAdded, ConsumerRemoved

LEMMA HyprTypes ==
  ASSUME TypeOK, HyprNext
  PROVE  HyprTypeOK'
<1>1. CASE Execute
  BY <1>1 DEF Execute
<1>2. CASE Refuse
  BY <1>2 DEF Refuse
<1>3. CASE ExecuteOrphan
  BY <1>3 DEF ExecuteOrphan
<1>4. CASE Crash \/ Exit
  <2>1. PICK left \in {sockets, sockets \ {alive}} : Dies(left)
    BY <1>4 DEF Crash, Exit
  <2>2. curtain' \in BOOLEAN
    BY <2>1, Zenon DEF Dies
  <2> QED
    BY <2>1, <2>2, MaxInstancesAssumption DEF Dies
<1>5. CASE Start
  BY <1>5, MaxInstancesAssumption DEF Start
<1> QED
  BY <1>1, <1>2, <1>3, <1>4, <1>5 DEF HyprNext

LEMMA PollTypes ==
  ASSUME TypeOK, PollStep
  PROVE  TypeOK'
<1> USE TimingAssumption DEF BackToSleep
<1>0. now \in Nat
  OBVIOUS
<1>1. CASE DecideToLock
  <2>1. TrackerTypeOK'
    BY <1>1, TrackerTypes DEF DecideToLock
  <2> QED
    BY <1>1, <2>1 DEF DecideToLock
<1>2. CASE DecideToWait
  BY <1>0, <1>2 DEF DecideToWait
<1>3. CASE Discover
  <2>1. CASE sockets = {}
    BY <1>0, <1>3, <2>1 DEF Discover
  <2>2. CASE sockets # {}
    <3>1. Newest(sockets) \in 0 .. MaxInstances
      <4> HIDE DEF Newest
      <4>1. Newest(sockets) \in 1 .. MaxInstances
        BY <2>2, NewestExists
      <4> QED
        BY <4>1, MaxInstancesAssumption
    <3> QED
      BY <1>3, <2>2, <3>1 DEF Discover
  <2> QED
    BY <2>1, <2>2
<1>4. CASE Connect
  <2>1. ran' \in BOOLEAN
    BY <1>4, Zenon DEF Connect
  <2> QED
    BY <1>0, <1>4, <2>1 DEF Connect
<1>5. CASE ReadReply
  BY <1>0, <1>5 DEF ReadReply
<1>6. CASE ReadTimesOut
  BY <1>0, <1>6 DEF ReadTimesOut
<1> QED
  BY <1>1, <1>2, <1>3, <1>4, <1>5, <1>6 DEF PollStep

LEMMA TypeStep == TypeOK /\ [Next]_vars => TypeOK'
<1> SUFFICES ASSUME TypeOK, [Next]_vars
             PROVE  TypeOK'
  OBVIOUS
<1>1. ASSUME NEW v \in Viewers,
             Connects(v) \/ ConsumerAdded(v) \/ Disconnects(v) \/ ConsumerRemoved(v)
      PROVE  TypeOK'
  BY <1>1, ViewerTypes
<1>2. CASE StrayRemoval
  <2>1. TrackerTypeOK'
    BY <1>2, TrackerTypes DEF StrayRemoval
  <2> QED
    BY <1>2, <2>1, TimingAssumption DEF StrayRemoval
<1>3. CASE Unlock
  <2>1. curtain' \in BOOLEAN
    BY <1>3, Zenon DEF Unlock
  <2> QED
    BY <1>3, <2>1 DEF Unlock
<1>4. CASE PollStep
  BY <1>4, PollTypes
<1>5. CASE HyprStep
  BY <1>5, HyprTypes DEF HyprStep
<1>6. CASE Tick
  BY <1>6, TimingAssumption DEF Tick
<1>7. CASE UNCHANGED vars
  BY <1>7 DEF vars
<1> QED
  BY <1>1, <1>2, <1>3, <1>4, <1>5, <1>6, <1>7 DEF Next

(***************************************************************************)
(* The state of IdleLock stays in the types declared for it.               *)
(***************************************************************************)
THEOREM TypeCorrect == SafetySpec => []TypeOK
BY TypeInit, TypeStep, PTL DEF SafetySpec

-----------------------------------------------------------------------------
(***************************************************************************)
(* The counter.  One lemma says what a handler does to the set of          *)
(* registered viewers, the next what it does to its size; the rest is      *)
(* arithmetic over the saturating subtraction.                             *)
(***************************************************************************)
USE DEF Registered

LEMMA RegisteredMoves ==
  ASSUME TypeOK, NEW v \in Viewers
  PROVE  /\ Connects(v) \/ Disconnects(v) => UNCHANGED Registered
         /\ ConsumerAdded(v) =>
              v \notin Registered /\ Registered' = Registered \cup {v}
         /\ ConsumerRemoved(v) =>
              v \in Registered /\ Registered' = Registered \ {v}
BY DEF Connects, Disconnects, ConsumerAdded, ConsumerRemoved, Moves

LEMMA RegisteredCount ==
  ASSUME TypeOK
  PROVE  /\ IsFiniteSet(Registered)
         /\ Cardinality(Registered) \in Nat
         /\ \A v \in Viewers \ Registered :
              Cardinality(Registered \cup {v}) = Cardinality(Registered) + 1
         /\ \A v \in Registered :
              Cardinality(Registered \ {v}) = Cardinality(Registered) - 1
         /\ Cardinality(Registered) = 0 <=> Registered = {}
<1>1. IsFiniteSet(Registered)
  <2>1. Registered \subseteq Viewers
    OBVIOUS
  <2> HIDE DEF Registered
  <2> QED
    BY <2>1, FS_Subset, ViewersAssumption
<1> HIDE DEF Registered
<1> QED
  BY <1>1, FS_CardinalityType, FS_EmptySet, FS_AddElement, FS_RemoveElement

LEMMA CountStep ==
  TypeOK /\ CountWithinStrays /\ [Next]_vars => CountWithinStrays'
<1> SUFFICES ASSUME TypeOK, CountWithinStrays, [Next]_vars
             PROVE  CountWithinStrays'
  OBVIOUS
<1> DEFINE n == Cardinality(Registered)
<1>0. consumers \in Nat /\ strays \in Nat /\ n \in Nat
  BY RegisteredCount, TimingAssumption
<1>1. ASSUME NEW v \in Viewers, Connects(v) \/ Disconnects(v)
      PROVE  CountWithinStrays'
  <2>1. UNCHANGED <<consumers, strays, n>>
    BY <1>1, RegisteredMoves DEF Connects, Disconnects, Moves
  <2> QED
    BY <2>1 DEF CountWithinStrays
<1>2. ASSUME NEW v \in Viewers, ConsumerAdded(v)
      PROVE  CountWithinStrays'
  <2>1. n' = n + 1
    BY <1>2, RegisteredMoves, RegisteredCount
  <2>2. consumers' = consumers + 1 /\ strays' = strays
    BY <1>2 DEF ConsumerAdded, Moves, OnConsumerAdded
  <2> QED
    BY <1>0, <2>1, <2>2 DEF CountWithinStrays
<1>3. ASSUME NEW v \in Viewers, ConsumerRemoved(v)
      PROVE  CountWithinStrays'
  <2>1. n' = n - 1
    BY <1>3, RegisteredMoves, RegisteredCount
  <2>2. consumers' = SaturatingPred(consumers) /\ strays' = strays
    BY <1>3 DEF ConsumerRemoved, Moves, OnConsumerRemoved
  <2>3. n' \in Nat
    BY <1>0, <1>3, <2>1, RegisteredMoves, RegisteredCount
  <2> QED
    BY <1>0, <2>1, <2>2, <2>3 DEF CountWithinStrays, SaturatingPred
<1>4. CASE StrayRemoval
  <2>1. consumers' = SaturatingPred(consumers) /\ strays' = strays + 1
    BY <1>4 DEF StrayRemoval, OnConsumerRemoved
  <2>2. n' = n
    BY <1>4 DEF StrayRemoval
  <2> QED
    BY <1>0, <2>1, <2>2 DEF CountWithinStrays, SaturatingPred
<1>5. CASE Unlock \/ PollStep \/ HyprStep \/ Tick \/ UNCHANGED vars
  <2>1. UNCHANGED <<consumers, viewer, strays>>
    BY <1>5 DEF Unlock, PollStep, HyprStep, Tick, vars, DecideToLock, ShouldLock,
       DecideToWait, Discover, Connect, ReadReply, ReadTimesOut
  <2> QED
    BY <2>1 DEF CountWithinStrays
<1> QED
  BY <1>1, <1>2, <1>3, <1>4, <1>5 DEF Next

(***************************************************************************)
(* The saturating counter is at most the number of registered viewers and  *)
(* misses at most one of them per stray removal (lifecycle.rs:156-168).    *)
(***************************************************************************)
THEOREM CountCorrect == SafetySpec => []CountWithinStrays
<1>1. Init => CountWithinStrays
  <2> SUFFICES ASSUME Init PROVE CountWithinStrays
    OBVIOUS
  <2>1. Registered = {} /\ consumers = 0 /\ strays = 0
    BY DEF Init, TrackerInit
  <2>2. Cardinality(Registered) = 0
    BY <2>1, FS_EmptySet
  <2> QED
    BY <2>1, <2>2 DEF CountWithinStrays
<1> QED
  BY <1>1, TypeInit, TypeStep, CountStep, PTL DEF SafetySpec

-----------------------------------------------------------------------------
(***************************************************************************)
(* The log line.  The invariant follows one command from the connection to *)
(* the log: an "ok" that is waiting to be read was sent by an execution,   *)
(* and only the attempt that opened the connection reads it.               *)
(***************************************************************************)
HonestInv ==
  /\ ReportIsHonest
  /\ conn = "ok" => ran
  /\ conn # "none" => pc = "await"
  /\ pc # "sleep" => report = "none"

LEMMA HonestStep == TypeOK /\ HonestInv /\ [Next]_vars => HonestInv'
<1> SUFFICES ASSUME TypeOK, HonestInv, [Next]_vars
             PROVE  HonestInv'
  OBVIOUS
<1> USE DEF HonestInv, ReportIsHonest
<1>1. CASE \E v \in Viewers : Connects(v) \/ ConsumerAdded(v)
                                \/ Disconnects(v) \/ ConsumerRemoved(v)
  BY <1>1 DEF Connects, Disconnects, ConsumerAdded, ConsumerRemoved, Moves
<1>2. CASE StrayRemoval \/ Unlock \/ Tick \/ UNCHANGED vars
  BY <1>2 DEF StrayRemoval, Unlock, Tick, vars
<1>3. CASE PollStep
  <2>1. CASE DecideToLock \/ DecideToWait
    BY <2>1 DEF DecideToLock, DecideToWait, BackToSleep
  <2>2. CASE Discover \/ Connect
    BY <2>2 DEF Discover, Connect, BackToSleep
  <2>3. CASE ReadReply
    <3>1. conn = "ok" <=> DispatchAccepted(conn)
      BY <2>3 DEF ReadReply, DispatchAccepted
    <3> QED
      BY <2>3, <3>1 DEF ReadReply, BackToSleep
  <2>4. CASE ReadTimesOut
    BY <2>4 DEF ReadTimesOut, BackToSleep
  <2> QED
    BY <1>3, <2>1, <2>2, <2>3, <2>4 DEF PollStep
<1>4. CASE HyprStep
  BY <1>4 DEF HyprStep, HyprNext, Execute, Refuse, ExecuteOrphan, Crash, Exit,
     Dies, Start
<1> QED
  BY <1>1, <1>2, <1>3, <1>4 DEF Next

(***************************************************************************)
(* "dispatched" is logged (lifecycle.rs:230) only if Hyprland executed the *)
(* command of that attempt.                                                *)
(***************************************************************************)
THEOREM ReportCorrect == SafetySpec => []ReportIsHonest
<1>1. Init => HonestInv
  BY DEF Init, HyprInit, HonestInv, ReportIsHonest
<1>2. HonestInv => ReportIsHonest
  BY DEF HonestInv
<1> QED
  BY <1>1, <1>2, TypeInit, TypeStep, HonestStep, PTL DEF SafetySpec

-----------------------------------------------------------------------------
(***************************************************************************)
(* Discovery.  The running instance is the last one born and its socket is *)
(* there, so the newest socket is the running instance's.                  *)
(***************************************************************************)
LiveInv ==
  /\ sockets \subseteq 1 .. born
  /\ alive \in {0, born}
  /\ alive # 0 => alive \in sockets

LEMMA LiveStep == TypeOK /\ LiveInv /\ [Next]_vars => LiveInv'
<1> SUFFICES ASSUME TypeOK, LiveInv, [Next]_vars
             PROVE  LiveInv'
  OBVIOUS
<1>1. CASE HyprStep
  <2>1. CASE Execute \/ Refuse \/ ExecuteOrphan
    BY <2>1 DEF Execute, Refuse, ExecuteOrphan, LiveInv
  <2>2. CASE Crash \/ Exit
    BY <2>2 DEF Crash, Exit, Dies, LiveInv
  <2>3. CASE Start
    BY <2>3 DEF Start, LiveInv
  <2> QED
    BY <1>1, <2>1, <2>2, <2>3 DEF HyprStep, HyprNext
<1>2. CASE \E v \in Viewers : Connects(v) \/ ConsumerAdded(v)
                                \/ Disconnects(v) \/ ConsumerRemoved(v)
  BY <1>2 DEF Connects, Disconnects, ConsumerAdded, ConsumerRemoved, LiveInv
<1>3. CASE StrayRemoval \/ Unlock \/ PollStep \/ Tick \/ UNCHANGED vars
  <2>1. UNCHANGED <<alive, born, sockets>>
    BY <1>3 DEF StrayRemoval, Unlock, PollStep, Tick, vars, DecideToLock,
       DecideToWait, Discover, Connect, ReadReply, ReadTimesOut
  <2> QED
    BY <2>1 DEF LiveInv
<1> QED
  BY <1>1, <1>2, <1>3 DEF Next

(***************************************************************************)
(* Whatever sockets crashed instances left behind, discover answers with   *)
(* the running instance when there is one (lifecycle.rs:86-110).           *)
(***************************************************************************)
THEOREM DiscoverCorrect == SafetySpec => DiscoverFindsLive
<1>1. Init => LiveInv
  BY DEF Init, HyprInit, LiveInv
<1>2. TypeOK /\ LiveInv /\ [Next]_vars =>
        [pc = "discover" /\ pc' = "connect" /\ alive # 0 => target' = alive]_vars
  <2> SUFFICES ASSUME TypeOK, LiveInv, [Next]_vars,
                      pc = "discover", pc' = "connect", alive # 0
               PROVE  target' = alive
    OBVIOUS
  <2>1. Discover
    BY DEF Next, Connects, Disconnects, ConsumerAdded, ConsumerRemoved, Moves,
       StrayRemoval, Unlock, HyprStep, Tick, vars, PollStep, DecideToLock,
       DecideToWait, Connect, ReadReply, ReadTimesOut, BackToSleep
  <2>2. target' = Newest(sockets) /\ sockets # {}
    BY <2>1 DEF Discover, BackToSleep
  <2>3. Newest(sockets) \in sockets /\ alive <= Newest(sockets)
    BY <2>2, NewestExists DEF LiveInv
  <2> HIDE DEF Newest
  <2>4. born \in Nat
    BY MaxInstancesAssumption
  <2>5. alive = born
    BY DEF LiveInv
  <2>6. Newest(sockets) \in 1 .. born
    BY <2>3 DEF LiveInv
  <2> QED
    BY <2>2, <2>3, <2>4, <2>5, <2>6
<1> QED
  BY <1>1, <1>2, TypeInit, TypeStep, LiveStep, PTL
  DEF SafetySpec, DiscoverFindsLive

-----------------------------------------------------------------------------
(***************************************************************************)
(* Refinement.  Where no stray removal happens, the count decides exactly  *)
(* whether somebody is present, and the three tracker fields encode the    *)
(* phase: a countdown runs only at count zero, and a decision stands only  *)
(* over a countdown.                                                       *)
(***************************************************************************)
TrackerInv ==
  /\ consumers > 0 => zeroSince = None
  /\ locked => consumers = 0 /\ zeroSince # None

\* No stray removal so far.
NoStray == strays = 0

LEMMA StrayCounts == TypeOK /\ StrayRemoval => ~(NoStray /\ NoStray')
BY DEF TypeOK, StrayRemoval, NoStray

LEMMA TrackerStep ==
  TypeOK /\ CountWithinStrays /\ NoStray /\ NoStray' /\ TrackerInv /\ [Next]_vars
    => TrackerInv'
<1> SUFFICES ASSUME TypeOK, CountWithinStrays, NoStray, NoStray', TrackerInv,
                    [Next]_vars
             PROVE  TrackerInv'
  OBVIOUS
<1> USE DEF TrackerInv
<1>1. CASE \E v \in Viewers : ConsumerAdded(v)
  BY <1>1 DEF ConsumerAdded, OnConsumerAdded
<1>2. ASSUME NEW v \in Viewers, ConsumerRemoved(v)
      PROVE  TrackerInv'
  <2>1. ~locked /\ zeroSince = None
    BY <1>2, RegisteredMoves, RegisteredCount DEF CountWithinStrays, NoStray
  <2>2. now # None
    BY NoneAssumption
  <2> QED
    BY <1>2, <2>1, <2>2 DEF ConsumerRemoved, OnConsumerRemoved
<1>3. CASE DecideToLock
  BY <1>3 DEF DecideToLock, ShouldLock, Due
<1>4. CASE \/ \E v \in Viewers : Connects(v) \/ Disconnects(v)
           \/ Unlock \/ HyprStep \/ Tick \/ UNCHANGED vars
           \/ DecideToWait \/ Discover \/ Connect \/ ReadReply \/ ReadTimesOut
  <2>1. UNCHANGED trackerVars
    BY <1>4 DEF Connects, Disconnects, Unlock, HyprStep, Tick,
       vars, DecideToWait, Discover, Connect, ReadReply, ReadTimesOut
  <2> QED
    BY <2>1
<1> QED
  BY <1>1, <1>2, <1>3, <1>4, StrayCounts DEF Next, PollStep

LEMMA PolicyStep ==
  TypeOK /\ CountWithinStrays /\ NoStray /\ NoStray' /\ TrackerInv /\ [Next]_vars
    => [Policy!Next]_(Policy!policyVars)
<1> SUFFICES ASSUME TypeOK, CountWithinStrays, NoStray, NoStray', TrackerInv,
                    [Next]_vars
             PROVE  Policy!Next \/ UNCHANGED Policy!policyVars
  OBVIOUS
<1>0. consumers = Cardinality(Registered)
  BY RegisteredCount DEF CountWithinStrays, NoStray
<1>1. ASSUME NEW v \in Viewers, ConsumerAdded(v)
      PROVE  Policy!Arrive(v)
  <2>1. consumers' > 0 /\ zeroSince' = None /\ now' = now
    BY <1>1 DEF ConsumerAdded, OnConsumerAdded, Moves
  <2> QED
    BY <1>1, <2>1, RegisteredMoves DEF Policy!Arrive, Phase
<1>2. ASSUME NEW v \in Viewers, ConsumerRemoved(v)
      PROVE  Policy!Depart(v)
  <2>1. v \in Registered /\ Registered' = Registered \ {v} /\ consumers > 0
    BY <1>0, <1>2, RegisteredMoves, RegisteredCount
  <2>2. ~locked /\ ~locked' /\ now' = now
    BY <1>2, <2>1 DEF ConsumerRemoved, OnConsumerRemoved, Moves, TrackerInv
  <2>3. consumers' = 0 <=> Registered' = {}
    <3>1. consumers' = Cardinality(Registered) - 1
      BY <1>0, <1>2, <2>1
      DEF ConsumerRemoved, OnConsumerRemoved, SaturatingPred
    <3>2. Cardinality(Registered') = Cardinality(Registered) - 1
      BY <2>1, RegisteredCount
    <3>3. IsFiniteSet(Registered')
      <4> HIDE DEF Registered
      <4> QED
        BY <2>1, RegisteredCount, FS_RemoveElement
    <3>4. Cardinality(Registered') = 0 <=> Registered' = {}
      BY <3>3, FS_EmptySet
    <3> QED
      BY <3>1, <3>2, <3>4
  <2>4. CASE consumers' = 0
    <3>1. zeroSince' = now /\ now # None
      BY <1>2, <2>4, NoneAssumption DEF ConsumerRemoved, OnConsumerRemoved
    <3>2. Phase' = "idle"
      BY <2>2, <2>4, <3>1 DEF Phase
    <3> QED
      BY <2>1, <2>2, <2>3, <2>4, <3>1, <3>2 DEF Policy!Depart
  <2>5. CASE consumers' # 0
    <3>1. zeroSince' = zeroSince /\ consumers' > 0
      BY <1>2, <2>5 DEF ConsumerRemoved, OnConsumerRemoved, SaturatingPred
    <3>2. Phase' = "watched" /\ Phase = "watched"
      BY <2>1, <3>1 DEF Phase
    <3> QED
      BY <2>1, <2>2, <2>3, <2>5, <3>1, <3>2 DEF Policy!Depart
  <2> QED
    BY <2>4, <2>5
<1>3. ASSUME DecideToLock
      PROVE  Policy!Fire
  <2>1. Due(now) /\ locked' /\ UNCHANGED <<consumers, zeroSince, now, viewer>>
    BY <1>3 DEF DecideToLock, ShouldLock
  <2>2. Phase = "idle" /\ Phase' = "fired"
    BY <2>1 DEF Due, Phase
  <2>3. now - zeroSince >= After
    BY <2>1 DEF Due
  <2> QED
    BY <2>1, <2>2, <2>3 DEF Policy!Fire
<1>4. ASSUME Tick
      PROVE  Policy!Pass
  BY <1>4 DEF Tick, Policy!Pass, Phase
<1>5. CASE \/ \E v \in Viewers : Connects(v) \/ Disconnects(v)
           \/ Unlock \/ HyprStep \/ UNCHANGED vars
           \/ DecideToWait \/ Discover \/ Connect \/ ReadReply \/ ReadTimesOut
  <2>1. UNCHANGED <<trackerVars, Registered, now>>
    BY <1>5, RegisteredMoves
    DEF Connects, Disconnects, Moves, Unlock, HyprStep,
        vars, DecideToWait, Discover, Connect, ReadReply, ReadTimesOut
  <2> QED
    BY <2>1 DEF Policy!policyVars, Phase
<1> QED
  BY <1>1, <1>2, <1>3, <1>4, <1>5, StrayCounts DEF Next, PollStep, Policy!Next

(***************************************************************************)
(* Without stray removals the mutex, the saturating counter and the poll   *)
(* thread implement IdlePolicy's safety: a decision is taken at most once  *)
(* per idle period, and only After seconds after the last viewer left.     *)
(***************************************************************************)
THEOREM PolicyRefined == SafetySpec /\ []NoStray => Policy!SafetySpec
<1>1. Init => TrackerInv
  BY DEF Init, TrackerInit, TrackerInv
<1>2. Init => Policy!Init
  <2> SUFFICES ASSUME Init PROVE Policy!Init
    OBVIOUS
  <2>1. Registered = {} /\ consumers = 0 /\ zeroSince = None /\ now = 0
    BY DEF Init, TrackerInit
  <2> QED
    BY <2>1 DEF Policy!Init, Phase
<1> QED
  BY <1>1, <1>2, TypeInit, TypeStep, CountCorrect, TrackerStep,
     PolicyStep, PTL DEF SafetySpec, Policy!SafetySpec

-----------------------------------------------------------------------------
(***************************************************************************)
(* What that means for whoever watches.  Both the start of a countdown and *)
(* the time at which somebody was last counted only grow.                  *)
(***************************************************************************)
\* No countdown that runs began before t.
NotBefore(t) == now >= t /\ (zeroSince # None => zeroSince >= t)

\* A decision comes late enough for an arrival at t.
Patient(t) == DecideToLock => now >= t + After

Attended == Registered # {}

\* Where nothing strays, who is registered is counted.
LEMMA CountedAttended ==
  TypeOK /\ CountWithinStrays /\ NoStray /\ Attended => consumers > 0
<1> SUFFICES ASSUME TypeOK, CountWithinStrays, NoStray, Attended PROVE consumers > 0
  OBVIOUS
<1>1. consumers >= Cardinality(Registered) /\ Cardinality(Registered) \in Nat
  BY RegisteredCount DEF CountWithinStrays, NoStray
<1>2. Cardinality(Registered) # 0
  <2>1. IsFiniteSet(Registered) /\ Registered # {}
    BY RegisteredCount DEF Attended
  <2> HIDE DEF Registered
  <2> QED
    BY <2>1, FS_EmptySet
<1> QED
  BY <1>1, <1>2 DEF TypeOK, TrackerTypeOK

LEMMA NotBeforeStep ==
  ASSUME NEW t \in Nat, TypeOK, NotBefore(t), [Next]_vars
  PROVE  NotBefore(t)' /\ Patient(t)
<1> USE DEF NotBefore, Patient
<1>1. /\ now \in Nat /\ zeroSince \in Nat \cup {None} /\ None \notin Int /\ After \in Nat
  BY NoneAssumption, AfterAssumption DEF TypeOK, TrackerTypeOK
<1>2. ASSUME zeroSince' \in {zeroSince, None, now}, now' = now \/ now' = now + 1
      PROVE  NotBefore(t)'
  BY <1>1, <1>2
<1>3. zeroSince' \in {zeroSince, None, now} /\ (now' = now \/ now' = now + 1)
  <2>1. CASE \E v \in Viewers : \/ Connects(v) \/ ConsumerAdded(v)
                                \/ Disconnects(v) \/ ConsumerRemoved(v)
    BY <2>1
    DEF Connects, ConsumerAdded, Disconnects, ConsumerRemoved, Moves, trackerVars,
        OnConsumerAdded, OnConsumerRemoved
  <2>2. CASE StrayRemoval
    BY <2>2 DEF StrayRemoval, OnConsumerRemoved
  <2>3. CASE PollStep
    BY <2>3
    DEF PollStep, DecideToLock, ShouldLock, DecideToWait, Discover, Connect, ReadReply,
        ReadTimesOut, trackerVars
  <2>4. CASE Unlock \/ HyprStep \/ Tick \/ UNCHANGED vars
    BY <2>4 DEF Unlock, HyprStep, Tick, vars, trackerVars
  <2> QED
    BY <2>1, <2>2, <2>3, <2>4 DEF Next
<1>4. ASSUME DecideToLock PROVE now >= t + After
  <2>1. zeroSince # None /\ now - zeroSince >= After
    BY <1>4 DEF DecideToLock, ShouldLock, Due
  <2> QED
    BY <1>1, <2>1
<1> QED
  BY <1>2, <1>3, <1>4

(***************************************************************************)
(* No viewer's arrival is forgotten: once its handler has run, at time t,  *)
(* no decision to lock is taken before t + After, whatever else is         *)
(* signalled in between, stray removals included (lifecycle.rs:156-183).   *)
(***************************************************************************)
THEOREM ArrivalIsRemembered ==
  ASSUME NEW t \in Nat
  PROVE  SafetySpec => [](zeroSince = None /\ now = t => [][Patient(t)]_vars)
<1>1. zeroSince = None /\ now = t => NotBefore(t)
  BY DEF NotBefore
<1>2. TypeOK /\ NotBefore(t) /\ [Next]_vars => NotBefore(t)' /\ [Patient(t)]_vars
  BY NotBeforeStep
<1> QED
  BY <1>1, <1>2, TypeInit, TypeStep, PTL DEF SafetySpec

(***************************************************************************)
(* Without stray removals the same holds of everybody who is registered:   *)
(* a decision comes at least After seconds after the last moment at which  *)
(* somebody was (lifecycle.rs:1, 176-183).                                 *)
(***************************************************************************)
THEOREM LockIsPatient ==
  ASSUME NEW t \in Nat
  PROVE  SafetySpec /\ []NoStray => [](Attended /\ now = t => [][Patient(t)]_vars)
<1>1. TypeOK /\ CountWithinStrays /\ NoStray /\ TrackerInv /\ Attended => zeroSince = None
  BY CountedAttended DEF TrackerInv
<1>2. Init => TrackerInv
  BY DEF Init, TrackerInit, TrackerInv
<1>3. zeroSince = None /\ now = t => NotBefore(t)
  BY DEF NotBefore
<1>4. TypeOK /\ NotBefore(t) /\ [Next]_vars => NotBefore(t)' /\ [Patient(t)]_vars
  BY NotBeforeStep
<1> QED
  BY <1>1, <1>2, <1>3, <1>4, TypeInit, TypeStep, CountCorrect, TrackerStep, PTL
  DEF SafetySpec

(***************************************************************************)
(* Without stray removals a decision is void as soon as somebody is        *)
(* registered, so `locked`, had it been looked at again before the         *)
(* dispatch, would tell of every viewer registered by then                 *)
(* (lifecycle.rs:156-160, 203-230).                                        *)
(***************************************************************************)
THEOREM DecisionIsWithdrawn == SafetySpec /\ []NoStray => [](Attended => ~locked)
<1>1. Init => TrackerInv
  BY DEF Init, TrackerInit, TrackerInv
<1>2. TypeOK /\ CountWithinStrays /\ NoStray /\ TrackerInv => (Attended => ~locked)
  BY CountedAttended DEF TrackerInv
<1> QED
  BY <1>1, <1>2, TypeInit, TypeStep, CountCorrect, TrackerStep, PTL DEF SafetySpec

FewWatch == DecideToLock => Cardinality(Registered) <= strays

(***************************************************************************)
(* How far a decision can be wrong when removals do go astray: it is taken *)
(* in front of at most as many registered viewers as there were strays.    *)
(***************************************************************************)
THEOREM WatchersWhenLocking == SafetySpec => [][FewWatch]_vars
<1>1. TypeOK /\ CountWithinStrays /\ [Next]_vars => [FewWatch]_vars
  <2> SUFFICES ASSUME TypeOK, CountWithinStrays, DecideToLock
               PROVE  Cardinality(Registered) <= strays
    BY DEF FewWatch
  <2>1. consumers = 0
    BY DEF DecideToLock, ShouldLock, Due
  <2>2. Cardinality(Registered) \in Nat /\ strays \in Int
    BY RegisteredCount DEF TypeOK
  <2> QED
    BY <2>1, <2>2 DEF CountWithinStrays
<1> QED
  BY <1>1, TypeInit, TypeStep, CountCorrect, PTL DEF SafetySpec
=============================================================================
