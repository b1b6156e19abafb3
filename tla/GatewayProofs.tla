---------------------------- MODULE GatewayProofs ----------------------------
(***************************************************************************)
(* Proofs about Gateway, for any host, any number of streamers and any     *)
(* flags: as long as no process has ended, a socket that is there has a    *)
(* streamer behind it whose graph was built.                               *)
(***************************************************************************)
EXTENDS Gateway, StreamerProofs

HasGraph(i) == phase[i] \in Built => setting[i].renderNode /\ host.builds

\* What a step of a streamer does to how far it is.
Moves(i) ==
  /\ UNCHANGED <<host, setting>>
  /\ \A j \in Instances \ {i} : phase'[j] = phase[j] /\ starts'[j] = starts[j]
  /\ phase[i] \in Hosting => phase'[i] \in Hosting \cup {"down"}
  /\ phase'[i] \in Built /\ phase[i] \notin Built => setting[i].renderNode /\ host.builds
  /\ \/ starts'[i] = starts[i] /\ (phase[i] = "down" => phase'[i] = "down")
     \/ phase[i] = "down" /\ starts'[i] = starts[i] + 1 /\ phase'[i] = "init"

LEMMA StepMoves ==
  ASSUME Types, NEW i \in Instances, Step(i)
  PROVE  Moves(i)
<1> USE DEF Types, Moves, Hosting, Built, Settled, Goto, Exit, GoOnIf, envVars
<1>1. CASE Start(i)
  BY <1>1 DEF Start
<1>2. CASE InitFails(i) \/ ResolveEncoder(i) \/ MakeSink(i)
  BY <1>2 DEF InitFails, ResolveEncoder, MakeSink
<1>10. CASE LooksForDir(i) \/ MakeDir(i) \/ TightenDir(i)
  BY <1>10 DEF LooksForDir, MakeDir, TightenDir
<1>3. CASE BuildCapture(i)
  BY <1>3 DEF BuildCapture, MakesSource
<1>4. CASE AttachAudio(i) \/ ArmLock(i) \/ SetPlaying(i)
  BY <1>4 DEF AttachAudio, ArmLock, SetPlaying
<1>5. CASE Settle(i)
  <2>1. /\ phase[i] = "settle" /\ UNCHANGED <<host, setting, starts>>
        /\ \E there \in {"verify", "down"} : phase' = [phase EXCEPT ![i] = there]
    BY <1>5, Zenon DEF Settle
  <2> QED
    BY <2>1
<1>6. CASE Verify(i)
  BY <1>6 DEF Verify
<1>7. CASE LooksForSocket(i) \/ RemovesSocket(i) \/ BindsSocket(i)
  BY <1>7 DEF LooksForSocket, RemovesSocket, BindsSocket
<1>8. CASE EncodeFor(i)
  BY <1>8 DEF EncodeFor, Running, Startup
<1>9. CASE BusEos(i) \/ BusError(i) \/ Kill(i)
  BY <1>9 DEF BusEos, BusError, Kill, Running, Startup
<1> QED
  BY <1>1, <1>2, <1>3, <1>4, <1>5, <1>6, <1>7, <1>8, <1>9, <1>10 DEF Step, MainStep

Started(i) == phase[i] # "down" => starts[i] # 0

Hosted == \E i \in Instances : phase[i] \in Hosting

PageInv ==
  /\ ProbeInv
  /\ \A i \in Instances : HasGraph(i) /\ Started(i)
  /\ request \in {"stat", "ready"} => gateway.renderNode = "there" /\ gateway.display # ""
  /\ NobodyEnded /\ (wayland # None \/ request = "ready") => Hosted

LEMMA PageStart == PageInit => PageInv
<1> SUFFICES ASSUME PageInit PROVE PageInv
  OBVIOUS
<1>1. ProbeInv
  BY ProbeInit DEF PageInit
<1> QED
  BY <1>1 DEF PageInit, Init, PageInv, HasGraph, Started, Built, Settled

LEMMA PageStep == PageInv /\ [PageNext]_pageVars => PageInv'
<1> SUFFICES ASSUME PageInv, [PageNext]_pageVars PROVE PageInv'
  OBVIOUS
<1>1. CASE UNCHANGED pageVars \/ Ask \/ StatSocket
  <2>1. UNCHANGED vars
    BY <1>1 DEF pageVars, Ask, StatSocket
  <2>2. ProbeInv'
    BY <2>1, ProbeStep DEF PageInv
  <2>3. UNCHANGED <<host, setting, phase, starts, dir>>
    BY <2>1 DEF vars, envVars, diskVars
  <2>4. (\A i \in Instances : HasGraph(i) /\ Started(i))'
    BY <2>3 DEF PageInv, HasGraph, Started
  <2>5. (Hosted' <=> Hosted) /\ (NobodyEnded' <=> NobodyEnded)
    BY <2>3 DEF Hosted, NobodyEnded
  <2>6. UNCHANGED <<gateway, wayland>>
    BY <1>1 DEF pageVars, Ask, StatSocket
  <2>7. request' \in {"stat", "ready"} => gateway.renderNode = "there" /\ gateway.display # ""
    BY <1>1 DEF PageInv, pageVars, Ask, StatSocket, IsConfigured
  <2>8. request' = "ready" => request = "ready" \/ wayland # None
    BY <1>1 DEF PageInv, pageVars, Ask, StatSocket, SocketIsThere
  <2> QED
    BY <2>2, <2>4, <2>5, <2>6, <2>7, <2>8 DEF PageInv
<1>2. CASE \E i \in Instances : StreamerStep(i)
  <2>1. PICK i \in Instances : StreamerStep(i)
    BY <1>2
  <2>2. Step(i) /\ Types /\ UNCHANGED <<gateway, request>>
    BY <2>1 DEF StreamerStep, PageInv, ProbeInv
  <2>3. Moves(i)
    BY <2>2, StepMoves
  <2>4. ProbeInv'
    BY <2>2, ProbeStep DEF PageInv, Next
  <2>5. \A j \in Instances : HasGraph(j)' /\ Started(j)'
    <3>1. \A j \in Instances : starts[j] \in Nat
      BY <2>2 DEF Types
    <3>2. \A j \in Instances : Started(j)'
      <4> SUFFICES ASSUME NEW j \in Instances PROVE Started(j)'
        OBVIOUS
      <4>1. starts[j] \in Nat /\ (phase[j] # "down" => starts[j] # 0)
        BY <3>1 DEF PageInv, Started
      <4>2. CASE j = i
        BY <2>3, <4>1, <4>2 DEF Started, Moves
      <4>3. CASE j # i
        BY <2>3, <4>1, <4>3 DEF Started, Moves
      <4> QED
        BY <4>2, <4>3
    <3>3. \A j \in Instances : HasGraph(j)'
      BY <2>3 DEF PageInv, HasGraph, Moves
    <3> QED
      BY <3>2, <3>3
  <2>6. ASSUME NobodyEnded' PROVE NobodyEnded /\ (Hosted => Hosted')
    <3>1. NobodyEnded
      <4> SUFFICES ASSUME NEW j \in Instances
                   PROVE  starts[j] = IF phase[j] = "down" THEN 0 ELSE 1
        BY DEF NobodyEnded
      <4>1. starts'[j] = IF phase'[j] = "down" THEN 0 ELSE 1
        BY <2>6 DEF NobodyEnded
      <4>2. starts[j] \in Nat
        BY <2>2 DEF Types
      <4>3. phase[j] # "down" => starts[j] # 0
        BY DEF PageInv, Started
      <4>4. CASE j # i
        BY <2>3, <4>1, <4>4 DEF Moves
      <4>5. CASE j = i
        BY <2>3, <4>1, <4>2, <4>3, <4>5 DEF Moves
      <4> QED
        BY <4>4, <4>5
    <3>2. ASSUME NEW j \in Instances, phase[j] \in Hosting PROVE phase'[j] \in Hosting
      <4>1. phase'[j] \in Hosting \cup {"down"} /\ starts'[j] = starts[j]
        <5>1. CASE j = i
          BY <2>3, <3>2, <5>1 DEF Moves, Hosting
        <5>2. CASE j # i
          BY <2>3, <3>2, <5>2 DEF Moves
        <5> QED
          BY <5>1, <5>2
      <4>2. starts[j] = 1 /\ starts'[j] = IF phase'[j] = "down" THEN 0 ELSE 1
        BY <2>6, <3>1, <3>2 DEF NobodyEnded, Hosting
      <4> QED
        BY <4>1, <4>2
    <3> QED
      BY <3>1, <3>2 DEF Hosted
  <2>7. ASSUME wayland' # None, wayland = None PROVE Hosted'
    <3>1. phase'[i] = "settle"
      BY <2>1, <2>7 DEF StreamerStep
    <3> QED
      BY <3>1 DEF Hosted, Hosting
  <2> QED
    BY <2>2, <2>4, <2>5, <2>6, <2>7 DEF PageInv
<1> QED
  BY <1>1, <1>2 DEF PageNext

(***************************************************************************)
(* Whatever the gateway's flags are, and however many streamers start, it  *)
(* says ready only of a host with a graph and a compositor that runs, as   *)
(* long as no process has ended (main.go:28-46).                           *)
(***************************************************************************)
THEOREM ReadyCorrect == PageSpec => []ReadyMeansHosted
<1>1. PageInv => ReadyMeansHosted
  BY DEF PageInv, ReadyMeansHosted, Hosted, HasGraph, Hosting, Built, Settled
<1> QED
  BY <1>1, PageStart, PageStep, PTL DEF PageSpec

-----------------------------------------------------------------------------
(***************************************************************************)
(* When ready is genuine.  What the socket's file misleads the gateway     *)
(* about is a streamer that ended without taking it along; on a host where *)
(* pipelines play and encoders open, only a kill does that.                *)
(***************************************************************************)
Untroubled ==
  /\ ~Kills
  /\ \A h \in Hosts : /\ h.negotiates = "yes" /\ h.nodes = Nodes
                      /\ h.present \subseteq h.opens

\* A compositor that runs goes on, or ends in a way that removes its socket.
EndsWell(i) ==
  \/ phase'[i] \in Hosting /\ starts'[i] = starts[i]
  \/ code'[i] # None /\ (phase[i] = "serving" \/ code'[i] = 0)

LEMMA AudioIsFound ==
  ASSUME Types, NEW i \in Instances, host.nodes = Nodes
  PROVE  AudioFound(i)
<1>1. setting[i].audio \in AudioWords
  BY DEF Types, Settings
<1>2. "cstream_speaker" \in Nodes
  BY DEF Nodes
<1> QED
  BY <1>1, <1>2 DEF AudioFound, AsksForAudio, AudioTarget, AudioWords

LEMMA HostEnds ==
  ASSUME Untroubled, ToldInv, NEW i \in Instances, Step(i), phase[i] \in Hosting
  PROVE  EndsWell(i)
<1>1. /\ Types /\ host \in Hosts /\ None \notin {0, 1}
      /\ code = [j \in Instances |-> code[j]]
  BY StreamerAssumption DEF ToldInv, Shapes, Types
<1>2. /\ host.negotiates = "yes" /\ host.nodes = Nodes /\ host.present \subseteq host.opens
      /\ ~Kills
  BY <1>1 DEF Untroubled
<1>3. Healthy(i)
  BY <1>1, <1>2, AudioIsFound DEF Healthy
<1> USE DEF Types, Hosting, EndsWell, Goto, Exit, GoOnIf
<1>4. CASE Settle(i)
  <2>1. phase' = [phase EXCEPT ![i] = "verify"] /\ UNCHANGED starts
    BY <1>2, <1>3, <1>4, Zenon DEF Settle
  <2> QED
    BY <1>1, <2>1
<1>5. CASE Verify(i)
  <2>1. encoder[i] = SelectEncoder(setting[i].policy, host.present) /\ encoder[i] # None
    BY <1>5 DEF Verify, ToldInv, Told, EncoderOf, Chosen, Running, Startup
  <2>2. VerifyOpenable(encoder[i])
    <3>1. host.present \in SUBSET Elements
      BY <1>1 DEF HostRecords
    <3>2. encoder[i] = "software" \/ encoder[i] \in host.present
      BY <2>1, <3>1, FoundFacts DEF SelectEncoder
    <3> QED
      BY <1>2, <3>2 DEF VerifyOpenable, Opens
  <2> QED
    BY <1>1, <1>5, <2>2 DEF Verify
<1>6. CASE LooksForSocket(i) \/ RemovesSocket(i) \/ BindsSocket(i) \/ EncodeFor(i)
  BY <1>1, <1>6 DEF LooksForSocket, RemovesSocket, BindsSocket, EncodeFor
<1>7. CASE BusEos(i) \/ BusError(i)
  BY <1>1, <1>7 DEF BusEos, BusError
<1>8. ~Kill(i)
  BY <1>2 DEF Kill
<1>9. /\ ~Start(i) /\ ~InitFails(i) /\ ~ResolveEncoder(i)
      /\ ~LooksForDir(i) /\ ~MakeDir(i) /\ ~TightenDir(i)
      /\ ~MakeSink(i) /\ ~BuildCapture(i) /\ ~AttachAudio(i) /\ ~ArmLock(i)
      /\ ~SetPlaying(i)
  BY DEF Start, InitFails, ResolveEncoder, LooksForDir, MakeDir, TightenDir, MakeSink,
         BuildCapture, AttachAudio, ArmLock, SetPlaying
<1> QED
  BY <1>4, <1>5, <1>6, <1>7, <1>8, <1>9 DEF Step, MainStep

GenuineInv ==
  /\ ToldInv /\ PageInv
  /\ wayland \in {None} \cup (Instances \X Nat)
  /\ wayland # None => Lives(wayland)

LEMMA GenuineStep ==
  ASSUME Untroubled, GenuineInv, [PageNext]_pageVars
  PROVE  GenuineInv'
<1>1. PageInv'
  BY PageStep DEF GenuineInv
<1>2. CASE UNCHANGED pageVars \/ Ask \/ StatSocket
  <2>1. UNCHANGED vars /\ UNCHANGED wayland
    BY <1>2 DEF pageVars, Ask, StatSocket
  <2>2. ToldInv'
    BY <2>1, ToldStep DEF GenuineInv
  <2>3. UNCHANGED <<phase, starts>>
    BY <2>1 DEF vars
  <2> QED
    BY <1>1, <2>1, <2>2, <2>3 DEF GenuineInv, Lives
<1>3. ASSUME NEW i \in Instances, StreamerStep(i)
      PROVE  GenuineInv'
  <2>1. Step(i) /\ ToldInv /\ Types /\ None \notin Instances \X Nat
    BY <1>3, StreamerAssumption DEF StreamerStep, GenuineInv, PageInv, ProbeInv
  <2>2. ToldInv' /\ Moves(i)
    BY <2>1, ToldStep, StepMoves DEF Next
  <2>3. starts[i] \in Nat /\ Me(i) \in Instances \X Nat
    BY <2>1 DEF Types, Me
  <2>4. wayland' \in {None, wayland, Me(i)}
    BY <1>3 DEF StreamerStep
  <2>5. ASSUME wayland' # None PROVE Lives(wayland)'
    <3>1. CASE phase[i] = "play" /\ phase'[i] = "settle"
      <4>1. wayland' = IF Lives(wayland) THEN wayland ELSE Me(i)
        BY <1>3, <3>1 DEF StreamerStep
      <4>2. CASE Lives(wayland)
        <5>1. wayland \in Instances \X Nat /\ wayland[1] # i
          BY <3>1, <4>2 DEF GenuineInv, Lives, Hosting
        <5> QED
          BY <2>2, <4>1, <4>2, <5>1 DEF Lives, Moves
      <4>3. CASE ~Lives(wayland)
        BY <2>1, <2>2, <2>3, <3>1, <4>1, <4>3 DEF Lives, Moves, Me, Hosting
      <4> QED
        BY <4>2, <4>3
    <3>2. CASE ~(phase[i] = "play" /\ phase'[i] = "settle")
      <4>1. wayland' = wayland /\ wayland \in Instances \X Nat /\ Lives(wayland)
        BY <1>3, <2>5, <3>2 DEF StreamerStep, GenuineInv
      <4>2. CASE wayland[1] # i
        BY <2>2, <4>1, <4>2 DEF Lives, Moves
      <4>3. CASE wayland[1] = i
        <5>1. wayland = Me(i) /\ phase[i] \in Hosting
          BY <4>1, <4>3 DEF Lives, Me
        <5>2. EndsWell(i)
          BY <2>1, <5>1, HostEnds
        <5>3. CASE code'[i] # None /\ (phase[i] = "serving" \/ code'[i] = 0)
          BY <1>3, <2>5, <3>2, <4>1, <5>1, <5>3 DEF StreamerStep
        <5>4. CASE phase'[i] \in Hosting /\ starts'[i] = starts[i]
          BY <4>1, <4>3, <5>4 DEF Lives
        <5> QED
          BY <5>2, <5>3, <5>4 DEF EndsWell
      <4> QED
        BY <4>2, <4>3
    <3> QED
      BY <3>1, <3>2
  <2> QED
    BY <1>1, <2>2, <2>3, <2>4, <2>5 DEF GenuineInv
<1> QED
  BY <1>2, <1>3 DEF PageNext

(***************************************************************************)
(* The page's marker keeps its promise (main.go:49-51) on an untroubled    *)
(* host, through any number of starts and regular ends of any number of    *)
(* streamers: it takes a failure or a kill to make it lie.                 *)
(***************************************************************************)
THEOREM GenuineUntroubled ==
  ASSUME Untroubled
  PROVE  PageSpec => ReadyIsGenuine
<1> DEFINE Genuine == request = "stat" /\ request' = "ready" => Lives(wayland)
<1>1. PageInit => GenuineInv
  BY PageStart, ToldInit DEF PageInit, GenuineInv
<1>2. GenuineInv /\ [PageNext]_pageVars => GenuineInv'
  BY GenuineStep
<1>3. GenuineInv /\ [PageNext]_pageVars => [Genuine]_pageVars
  <2> SUFFICES ASSUME GenuineInv, PageNext, request = "stat", request' = "ready"
               PROVE  Lives(wayland)
    OBVIOUS
  <2>1. StatSocket
    BY DEF PageNext, StreamerStep, Ask
  <2>2. SocketIsThere /\ gateway.display # ""
    BY <2>1 DEF StatSocket, GenuineInv, PageInv
  <2> QED
    BY <2>2 DEF SocketIsThere, GenuineInv
<1> QED
  BY <1>1, <1>2, <1>3, PTL DEF PageSpec, ReadyIsGenuine
=============================================================================
