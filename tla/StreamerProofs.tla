--------------------------- MODULE StreamerProofs ---------------------------
(***************************************************************************)
(* Proofs about Streamer, for any host, any number of instances and of     *)
(* starts.  What a probe's exit code says follows from how far main had to *)
(* get to exit with it; that a service is reachable follows from nobody    *)
(* but the service touching the socket's file between the steps of bind.   *)
(***************************************************************************)
EXTENDS Streamer, TLAPS

Settled == {"verify", "exists", "remove", "bind", "serving"}
Built == {"audio", "arm", "play", "settle"} \cup Settled
Binding == {"exists", "remove", "bind", "serving"}

Types ==
  /\ host \in HostRecords
  /\ setting \in [Instances -> Settings]
  /\ phase \in [Instances -> Running \cup {"down"}]
  /\ code \in [Instances -> {0, 1, None}]
  /\ starts \in [Instances -> Nat]
  /\ DOMAIN encoder = Instances /\ encoder = [j \in Instances |-> encoder[j]]

\* How far an instance got says what the host was found to be.
FarEnough(i) ==
  /\ phase[i] \in Built => host.builds
  /\ phase[i] \in Settled => host.negotiates = "yes"
  /\ phase[i] \in Binding => ~setting[i].probe
  /\ phase[i] \in Running => code[i] = None

Truthful(i) ==
  setting[i].probe /\ code[i] = 0 =>
    /\ host.builds /\ host.negotiates = "yes"
    /\ encoder[i] = "software" \/ encoder[i] \in host.opens

ProbeInv == Types /\ \A i \in Instances : FarEnough(i) /\ Truthful(i)

LEMMA ProbeInit == Init => ProbeInv
<1> SUFFICES ASSUME Init PROVE ProbeInv
  OBVIOUS
<1>1. host \in HostRecords /\ setting \in [Instances -> Settings]
  BY StreamerAssumption DEF Init
<1>2. None # 0
  BY StreamerAssumption
<1> QED
  BY <1>1, <1>2
  DEF Init, ProbeInv, Types, FarEnough, Truthful, Settled, Built, Binding, Running, Startup

\* A step of one instance leaves the others where they are.
Elsewhere(i) ==
  /\ UNCHANGED envVars
  /\ \A j \in Instances \ {i} :
       phase'[j] = phase[j] /\ code'[j] = code[j] /\ encoder'[j] = encoder[j]

LEMMA Local ==
  ASSUME ProbeInv, NEW i \in Instances, Elsewhere(i), Types',
         FarEnough(i)', Truthful(i)'
  PROVE  ProbeInv'
<1> SUFFICES ASSUME NEW j \in Instances \ {i}
             PROVE  FarEnough(j)' /\ Truthful(j)'
  BY DEF ProbeInv
<1>1. FarEnough(j) /\ Truthful(j)
  BY DEF ProbeInv
<1> QED
  BY <1>1 DEF Elsewhere, envVars, FarEnough, Truthful

LEMMA ProbeStep == ProbeInv /\ [Next]_vars => ProbeInv'
<1> SUFFICES ASSUME ProbeInv, [Next]_vars PROVE ProbeInv'
  OBVIOUS
<1> USE DEF Goto, Exit, GoOnIf, Running, Startup
<1>1. CASE UNCHANGED vars
  BY <1>1 DEF vars, envVars, runVars, diskVars, ProbeInv, Types, FarEnough, Truthful
<1>2. ASSUME NEW i \in Instances, Step(i)
      PROVE  ProbeInv'
  <2>1. Types /\ FarEnough(i) /\ Truthful(i) /\ None # 0 /\ None # 1
    BY StreamerAssumption DEF ProbeInv
  <2> USE <2>1
  <2> SUFFICES Elsewhere(i) /\ Types' /\ FarEnough(i)' /\ Truthful(i)'
    BY Local
  <2> USE DEF Types, Elsewhere, FarEnough, Truthful, Settled, Built, Binding,
              envVars, runVars, diskVars
  <2>2. CASE Start(i)
    <3>1. starts' \in [Instances -> Nat]
      BY <2>2 DEF Start
    <3>2. /\ phase' = [phase EXCEPT ![i] = "init"] /\ code' = [code EXCEPT ![i] = None]
          /\ encoder' = [encoder EXCEPT ![i] = None] /\ UNCHANGED envVars
      BY <2>2 DEF Start
    <3> QED
      BY <3>1, <3>2
  <2>3. CASE InitFails(i) \/ ResolveEncoder(i)
    BY <2>3 DEF InitFails, ResolveEncoder
  <2>4. CASE LooksForDir(i) \/ MakeDir(i) \/ TightenDir(i)
    BY <2>4 DEF LooksForDir, MakeDir, TightenDir
  <2>5. CASE MakeSink(i)
    BY <2>5 DEF MakeSink
  <2>6. CASE BuildCapture(i)
    BY <2>6 DEF BuildCapture, MakesSource
  <2>7. CASE AttachAudio(i) \/ ArmLock(i)
    BY <2>7 DEF AttachAudio, ArmLock
  <2>8. CASE SetPlaying(i)
    BY <2>8 DEF SetPlaying
  <2>9. CASE Settle(i)
    <3>1. phase[i] = "settle" /\ UNCHANGED <<host, setting, starts, encoder>>
      BY <2>9 DEF Settle
    <3>2. \/ host.negotiates = "yes" /\ phase' = [phase EXCEPT ![i] = "verify"]
                                   /\ code' = code
          \/ phase' = [phase EXCEPT ![i] = "down"] /\ code' = [code EXCEPT ![i] = 1]
      BY <2>9, Zenon DEF Settle, Healthy
    <3>3. CASE phase' = [phase EXCEPT ![i] = "down"] /\ code' = [code EXCEPT ![i] = 1]
      BY <3>1, <3>3
    <3> QED
      BY <3>1, <3>2, <3>3
  <2>10. CASE Verify(i)
    BY <2>10 DEF Verify, VerifyOpenable, Opens
  <2>11. CASE LooksForSocket(i) \/ RemovesSocket(i) \/ BindsSocket(i)
    BY <2>11 DEF LooksForSocket, RemovesSocket, BindsSocket
  <2>12. CASE EncodeFor(i)
    BY <2>12 DEF EncodeFor
  <2>13. CASE BusEos(i) \/ BusError(i)
    BY <2>13 DEF BusEos, BusError
  <2>14. CASE Kill(i)
    BY <2>14 DEF Kill
  <2> QED
    BY <1>2, <2>2, <2>3, <2>4, <2>5, <2>6, <2>7, <2>8, <2>9, <2>10, <2>11, <2>12,
       <2>13, <2>14 DEF Step, MainStep
<1> QED
  BY <1>1, <1>2 DEF Next

(***************************************************************************)
(* A probe that exits with 0 has seen the graph link and play, and the     *)
(* encoder it named open (main.rs:3-6).                                    *)
(***************************************************************************)
THEOREM ProbeCorrect == SafetySpec => []ProbeIsTruthful
<1>1. ProbeInv => ProbeIsTruthful
  BY DEF ProbeInv, Truthful, ProbeIsTruthful
<1> QED
  BY <1>1, ProbeInit, ProbeStep, PTL DEF SafetySpec

-----------------------------------------------------------------------------
(***************************************************************************)
(* The control socket of services that take turns: between the test for    *)
(* the file and the end of the service, nobody else makes or removes it,   *)
(* and a probe never comes that far.                                       *)
(***************************************************************************)
OneAtATime ==
  \A i, j \in Instances : phase[i] \in Binding /\ phase[j] \in Binding => i = j

SocketFound(i) ==
  /\ phase[i] = "remove" => path # None
  /\ phase[i] = "bind" => path = None
  /\ phase[i] = "serving" /\ host.writable => path = Me(i)

SocketInv ==
  ProbeInv /\ setting \in Setups /\ \A i \in Instances : SocketFound(i)

LEMMA SocketInit == Init => SocketInv
<1> SUFFICES ASSUME Init PROVE SocketInv
  OBVIOUS
<1>1. ProbeInv
  BY ProbeInit
<1> QED
  BY <1>1 DEF Init, SocketInv, SocketFound

\* A step of an instance that is not in the middle of bind.
LEMMA NotBinding ==
  ASSUME ProbeInv, NEW i \in Instances,
         Step(i),
         ~LooksForSocket(i), ~RemovesSocket(i), ~BindsSocket(i)
  PROVE  /\ UNCHANGED <<host, setting, path>>
         /\ phase'[i] \in {"remove", "bind", "serving"} =>
              phase'[i] = phase[i] /\ starts'[i] = starts[i]
         /\ \A j \in Instances \ {i} : phase'[j] = phase[j] /\ starts'[j] = starts[j]
<1> USE DEF ProbeInv, Types, Goto, Exit, GoOnIf, envVars, diskVars
<1>1. CASE Start(i)
  BY <1>1 DEF Start
<1>2. CASE InitFails(i) \/ ResolveEncoder(i) \/ MakeSink(i)
  BY <1>2 DEF InitFails, ResolveEncoder, MakeSink
<1>8. CASE LooksForDir(i) \/ MakeDir(i) \/ TightenDir(i)
  BY <1>8 DEF LooksForDir, MakeDir, TightenDir
<1>3. CASE BuildCapture(i) \/ AttachAudio(i) \/ ArmLock(i) \/ SetPlaying(i)
  BY <1>3 DEF BuildCapture, MakesSource, AttachAudio, ArmLock, SetPlaying
<1>4. CASE Settle(i)
  <2>1. /\ UNCHANGED <<host, setting, path, starts>>
        /\ \E there \in {"verify", "down"} : phase' = [phase EXCEPT ![i] = there]
    BY <1>4, Zenon DEF Settle
  <2> QED
    BY <2>1
<1>5. CASE Verify(i)
  BY <1>5 DEF Verify
<1>6. CASE EncodeFor(i)
  BY <1>6 DEF EncodeFor
<1>7. CASE BusEos(i) \/ BusError(i) \/ Kill(i)
  BY <1>7 DEF BusEos, BusError, Kill
<1> QED
  BY <1>1, <1>2, <1>3, <1>4, <1>5, <1>6, <1>7, <1>8 DEF Step, MainStep

LEMMA SocketStep ==
  ASSUME OneAtATime, SocketInv, [Next]_vars
  PROVE  SocketInv'
<1>1. ProbeInv'
  BY ProbeStep DEF SocketInv
<1>2. CASE UNCHANGED vars
  BY <1>1, <1>2
  DEF vars, envVars, diskVars, SocketInv, SocketFound, Me
<1>3. ASSUME NEW i \in Instances, Step(i)
      PROVE  SocketInv'
  <2>1. CASE ~LooksForSocket(i) /\ ~RemovesSocket(i) /\ ~BindsSocket(i)
    <3>1. /\ UNCHANGED <<host, setting, path>>
          /\ phase'[i] \in {"remove", "bind", "serving"} =>
               phase'[i] = phase[i] /\ starts'[i] = starts[i]
          /\ \A j \in Instances \ {i} :
               phase'[j] = phase[j] /\ starts'[j] = starts[j]
      BY <1>3, <2>1, NotBinding DEF SocketInv
    <3> QED
      BY <1>1, <3>1 DEF SocketInv, SocketFound, Me
  <2>2. CASE LooksForSocket(i) \/ RemovesSocket(i) \/ BindsSocket(i)
    <3>1. /\ phase[i] \in Binding /\ UNCHANGED <<host, setting, starts>>
          /\ \A j \in Instances \ {i} : phase'[j] = phase[j]
      BY <2>2 DEF LooksForSocket, RemovesSocket, BindsSocket, Goto, Binding, envVars,
                  SocketInv, ProbeInv, Types
    <3>2. \A j \in Instances \ {i} : phase[j] \notin Binding
      BY <3>1 DEF OneAtATime
    <3>3. \A j \in Instances \ {i} : SocketFound(j)'
      BY <3>1, <3>2 DEF SocketFound, Binding
    <3>4. SocketFound(i)'
      BY <2>2, <3>1
      DEF LooksForSocket, RemovesSocket, BindsSocket, Goto, diskVars, SocketFound, Me,
          SocketInv, ProbeInv, Types
    <3> QED
      BY <1>1, <3>1, <3>3, <3>4 DEF SocketInv
  <2> QED
    BY <2>1, <2>2
<1> QED
  BY <1>2, <1>3 DEF Next

(***************************************************************************)
(* Whatever was killed where and whatever probes run beside it, services   *)
(* that take turns can each be reached while they serve: a supervisor may  *)
(* replace one by another (main.rs:156-159).                               *)
(***************************************************************************)
THEOREM ReachableInTurns == SafetySpec /\ []OneAtATime => []ServingIsReachable
<1>1. SocketInv => ServingIsReachable
  BY DEF SocketInv, SocketFound, ServingIsReachable
<1>2. OneAtATime /\ SocketInv /\ [Next]_vars => SocketInv'
  BY SocketStep
<1> QED
  BY <1>1, <1>2, SocketInit, PTL DEF SafetySpec

OneService ==
  \A s \in Setups : \A i, j \in Instances : ~s[i].probe /\ ~s[j].probe => i = j

(***************************************************************************)
(* Where a single service is configured, it needs no such discipline: no   *)
(* probe comes as far as the socket.                                       *)
(***************************************************************************)
THEOREM ReachableAlone ==
  ASSUME OneService
  PROVE  SafetySpec => []ServingIsReachable
<1>1. SocketInv => OneAtATime /\ ServingIsReachable
  BY DEF SocketInv, SocketFound, ServingIsReachable, ProbeInv, FarEnough, OneService,
         OneAtATime
<1>2. OneAtATime /\ SocketInv /\ [Next]_vars => SocketInv'
  BY SocketStep
<1> QED
  BY <1>1, <1>2, SocketInit, PTL DEF SafetySpec

(***************************************************************************)
(* Where services do overlap, one that serves loses its socket only to     *)
(* another service that comes up and removes it: never to a probe, and     *)
(* never to a bind (control.rs:158-163).                                   *)
(***************************************************************************)
OnlyAServiceTakes ==
  \A i \in Instances :
    phase[i] = "serving" /\ path = Me(i) /\ path' # path =>
      \E j \in Instances \ {i} : ~setting[j].probe /\ RemovesSocket(j)

LEMMA TakesStep == ProbeInv /\ [Next]_vars => [OnlyAServiceTakes]_vars
<1> SUFFICES ASSUME ProbeInv, NEW j \in Instances, Step(j), NEW i \in Instances,
                    phase[i] = "serving", path = Me(i), path' # path
             PROVE  \E k \in Instances \ {i} : ~setting[k].probe /\ RemovesSocket(k)
  BY DEF Next, OnlyAServiceTakes
<1>1. path # None
  BY StreamerAssumption DEF ProbeInv, Types, Me
<1>2. LooksForSocket(j) \/ RemovesSocket(j) \/ BindsSocket(j)
  BY NotBinding
<1>3. RemovesSocket(j)
  BY <1>1, <1>2 DEF LooksForSocket, BindsSocket, diskVars
<1>4. phase[j] = "remove"
  BY <1>3 DEF RemovesSocket
<1>5. ~setting[j].probe
  BY <1>4 DEF ProbeInv, FarEnough, Binding
<1> QED
  BY <1>3, <1>4, <1>5

THEOREM SocketIsTaken == SafetySpec => [][OnlyAServiceTakes]_vars
BY ProbeInit, ProbeStep, TakesStep, PTL DEF SafetySpec
-----------------------------------------------------------------------------
(***************************************************************************)
(* Which encoder the sink's table leaves it, and which one is announced.   *)
(***************************************************************************)
TableOf(present) == CodecTable(RaiseHardwareEncoders(present))

LEMMA HardwareFacts ==
  /\ DOMAIN HardwareEncoders = {1, 2}
  /\ HardwareEncoders[1] = "vah264enc" /\ HardwareEncoders[2] = "vah265enc"
  /\ \A e : IsHardware(e) <=> e \in {"vah264enc", "vah265enc"}
  /\ Elements = {"vah264enc", "vah265enc", "x264enc"}
<1>1. DOMAIN HardwareEncoders = {1, 2}
  BY DEF HardwareEncoders
<1>2. HardwareEncoders[1] = "vah264enc" /\ HardwareEncoders[2] = "vah265enc"
  BY DEF HardwareEncoders
<1>3. Elements = {"vah264enc", "vah265enc", "x264enc"}
  BY DEF Elements, RegisteredRank
<1> QED
  BY <1>1, <1>2, <1>3 DEF IsHardware

LEMMA FoundFacts ==
  ASSUME NEW present \in SUBSET Elements
  PROVE  /\ "vah264enc" \in present => Found(present) = "vah264enc"
         /\ "vah264enc" \notin present /\ "vah265enc" \in present
              => Found(present) = "vah265enc"
         /\ "vah264enc" \notin present /\ "vah265enc" \notin present
              => Found(present) = None
<1> DEFINE hits == {n \in DOMAIN HardwareEncoders : HardwareEncoders[n] \in present}
<1>1. /\ 1 \in hits <=> "vah264enc" \in present
      /\ 2 \in hits <=> "vah265enc" \in present
      /\ hits \subseteq {1, 2}
  BY HardwareFacts
<1>2. Found(present) =
        IF hits = {} THEN None
        ELSE HardwareEncoders[CHOOSE n \in hits : \A m \in hits : n <= m]
  BY DEF Found
<1> DEFINE first == CHOOSE n \in hits : \A m \in hits : n <= m
<1> HIDE DEF hits
<1>3. ASSUME NEW k \in hits, \A m \in hits : k <= m
      PROVE  first = k
  <2>1. first \in hits /\ \A m \in hits : first <= m
    BY <1>3
  <2> HIDE DEF first
  <2> QED
    BY <1>1, <1>3, <2>1
<1>4. Found(present) = IF hits = {} THEN None ELSE HardwareEncoders[first]
  BY <1>2
<1> HIDE DEF first
<1>5. CASE "vah264enc" \in present
  <2>1. 1 \in hits /\ \A m \in hits : 1 <= m
    BY <1>1, <1>5
  <2> QED
    BY <1>3, <1>4, <1>5, <2>1, HardwareFacts
<1>6. CASE "vah264enc" \notin present /\ "vah265enc" \in present
  <2>1. 2 \in hits /\ \A m \in hits : 2 <= m
    BY <1>1, <1>6
  <2> QED
    BY <1>3, <1>4, <1>6, <2>1, HardwareFacts
<1>7. CASE "vah264enc" \notin present /\ "vah265enc" \notin present
  BY <1>1, <1>4, <1>7
<1> QED
  BY <1>5, <1>6, <1>7

LEMMA TableFacts ==
  ASSUME NEW present \in SUBSET Elements
  PROVE  /\ DOMAIN TableOf(present) = present
         /\ \A e \in present :
              TableOf(present)[e] = IF e \in {"vah264enc", "vah265enc"} THEN 257 ELSE 256
<1>1. \A e \in present : RaiseHardwareEncoders(present)[e]
                          = IF e \in {"vah264enc", "vah265enc"} THEN 257 ELSE 256
  BY HardwareFacts DEF RaiseHardwareEncoders, RaisedRank, RegisteredRank, Primary
<1>2. DOMAIN RaiseHardwareEncoders(present) = present
  BY DEF RaiseHardwareEncoders
<1> QED
  BY <1>1, <1>2 DEF TableOf, CodecTable, Marginal

\* The sink's pick is the promoted encoder where there is one.
LEMMA BestFacts ==
  ASSUME NEW present \in SUBSET Elements, Usable(TableOf(present)) # {}
  PROVE  Best(TableOf(present)) = IF "vah264enc" \in present THEN "vah264enc" ELSE "x264enc"
<1> DEFINE table == TableOf(present)
           best == IF "vah264enc" \in present THEN "vah264enc" ELSE "x264enc"
<1>1. Usable(table) = present \cap {"vah264enc", "x264enc"}
  BY TableFacts DEF Usable
<1>2. best \in Usable(table)
  BY <1>1
<1>3. \A d \in Usable(table) : table[d] = IF d = "vah264enc" THEN 257 ELSE 256
  BY <1>1, TableFacts
<1>4. \A e \in Usable(table) :
        (\A d \in Usable(table) : table[d] <= table[e]) <=> e = best
  BY <1>1, <1>2, <1>3
<1> HIDE DEF table, best
<1>5. Best(table) = best
  BY <1>2, <1>4 DEF Best
<1> QED
  BY <1>5 DEF table, best

\* What is announced under a policy that leaves the ranks alone is what carries.
LEMMA Announced ==
  ASSUME NEW present \in SUBSET Elements, NEW policy \in {"auto", "va"},
         Usable(TableOf(present)) # {},
         SelectEncoder(policy, present) \notin {None, "vah265enc"}
  PROVE  IF SelectEncoder(policy, present) = "software"
           THEN Best(TableOf(present)) = "x264enc"
           ELSE Best(TableOf(present)) = SelectEncoder(policy, present)
<1>1. None \notin {"software", "vah264enc", "vah265enc"}
  BY StreamerAssumption, HardwareFacts
<1> QED
  BY <1>1, FoundFacts, BestFacts DEF SelectEncoder

(***************************************************************************)
(* What main has done so far says what its variables hold; a viewer's      *)
(* carrier is the sink's pick from the table that was built then.          *)
(***************************************************************************)
Chosen == Running \ {"init"}
Tabled == Chosen \ {"dir", "mkdir", "chmod", "sink"}
Listening == {"play", "settle"} \cup Settled

EncoderOf(i) ==
  /\ setting[i].policy \in Policies
  /\ encoder[i] = SelectEncoder(setting[i].policy, host.present)
  /\ encoder[i] # None

LockOf(i) == armed[i] <=> setting[i].lock = "seconds"

CarrierOf(i) ==
  LET table == TableOf(host.present) IN
  /\ Usable(table) # {}
  /\ carrier[i] = [element |-> Best(table), lowLatency |-> LowLatency(Best(table), encoder[i])]

Told(i) ==
  /\ phase[i] \in Chosen => EncoderOf(i) /\ rank[i] = RaiseHardwareEncoders(host.present)
  /\ phase[i] \in Tabled => codecs[i] = TableOf(host.present)
  /\ phase[i] \in Listening => LockOf(i)
  /\ phase[i] \in Startup \ Settled => carrier[i] = None /\ "playing" \notin log[i]
  /\ carrier[i] # None => EncoderOf(i) /\ LockOf(i) /\ CarrierOf(i)

Shapes ==
  /\ Types
  /\ host \in Hosts /\ setting \in Setups
  /\ starts \in [Instances -> 0 .. MaxStarts]
  /\ \A i \in Instances : phase[i] # "down" => starts[i] # 0
  /\ log \in [Instances -> SUBSET {"playing", "openable", "listening"}]
  /\ armed \in [Instances -> BOOLEAN]
  /\ rank = [j \in Instances |-> rank[j]]
  /\ codecs = [j \in Instances |-> codecs[j]]
  /\ carrier = [j \in Instances |-> carrier[j]]
  /\ dir \in {"none", "wide", "private"}
  /\ path \in {None} \cup (Instances \X (1 .. MaxStarts))

ToldInv == Shapes /\ \A i \in Instances : Told(i)

LEMMA ToldInit == Init => ToldInv
<1> SUFFICES ASSUME Init PROVE ToldInv
  OBVIOUS
<1>1. Types
  BY ProbeInit DEF ProbeInv
<1>2. MaxStarts \in Nat
  BY StreamerAssumption
<1>3. Shapes
  BY <1>1, <1>2 DEF Init, Shapes
<1>4. \A i \in Instances : Told(i)
  BY DEF Init, Told, Chosen, Tabled,  Listening, Settled, Running, Startup
<1> QED
  BY <1>3, <1>4 DEF ToldInv

\* A step of one instance leaves the others' variables as they are.
Apart(i) ==
  /\ UNCHANGED envVars
  /\ \A j \in Instances \ {i} :
       /\ phase'[j] = phase[j] /\ log'[j] = log[j] /\ encoder'[j] = encoder[j]
       /\ rank'[j] = rank[j] /\ codecs'[j] = codecs[j] /\ carrier'[j] = carrier[j]
       /\ armed'[j] = armed[j]

LEMMA ToldApart ==
  ASSUME ToldInv, NEW i \in Instances, Apart(i), Shapes', Told(i)'
  PROVE  ToldInv'
<1> SUFFICES ASSUME NEW j \in Instances \ {i} PROVE Told(j)'
  BY DEF ToldInv
<1>1. Told(j)
  BY DEF ToldInv
<1> QED
  BY <1>1 DEF Apart, envVars, Told, EncoderOf, LockOf, CarrierOf

\* A step that leaves what main remembers.
Quiet(i, there) ==
  /\ phase[i] \in Running /\ there \in Running \cup {"down"}
  /\ phase' = [phase EXCEPT ![i] = there]
  /\ UNCHANGED <<host, setting, encoder, rank, codecs, carrier, armed>>
  /\ "playing" \in log'[i] => "playing" \in log[i] \/ there \in Settled
  /\ \A j \in Instances \ {i} : log'[j] = log[j]
  /\ \/ there \in {phase[i], "down"}
     \/ phase[i] \in Settled /\ there \in Settled
     \/ phase[i] = "dir" /\ there \in {"mkdir", "sink"}
     \/ phase[i] = "mkdir" /\ there = "chmod"
     \/ phase[i] = "chmod" /\ there = "sink"
     \/ phase[i] = "graph" /\ there = "audio"
     \/ phase[i] = "audio" /\ there = "arm"
     \/ phase[i] = "play" /\ there = "settle"
     \/ phase[i] = "settle" /\ there = "verify"

LEMMA ToldQuiet ==
  ASSUME ToldInv, NEW i \in Instances, NEW there, Quiet(i, there)
  PROVE  Apart(i) /\ Told(i)'
<1>1. Told(i) /\ Types
  BY DEF ToldInv, Shapes
<1>2. phase'[i] = there /\ \A j \in Instances \ {i} : phase'[j] = phase[j]
  BY <1>1 DEF Types, Quiet
<1>3. Apart(i)
  BY <1>2 DEF Apart, Quiet, envVars
<1>4. EncoderOf(i)' = EncoderOf(i) /\ LockOf(i)' = LockOf(i) /\ CarrierOf(i)' = CarrierOf(i)
  BY DEF EncoderOf, LockOf, CarrierOf, Quiet
<1> QED
  BY <1>1, <1>2, <1>3, <1>4
  DEF Told, Quiet, Chosen, Tabled,  Listening, Settled, Running, Startup

LEMMA ToldStep == ToldInv /\ [Next]_vars => ToldInv'
<1> SUFFICES ASSUME ToldInv, [Next]_vars PROVE ToldInv'
  OBVIOUS
<1>1. CASE UNCHANGED vars
  BY <1>1
  DEF vars, envVars, runVars, diskVars, ToldInv, Shapes, Types, Told, EncoderOf, LockOf,
      CarrierOf
<1>2. ASSUME NEW i \in Instances, Step(i)
      PROVE  ToldInv'
  <2>1. Shapes /\ Types /\ Told(i) /\ host.present \in SUBSET Elements
    BY DEF ToldInv, Shapes, Types, HostRecords
  <2>2. MaxStarts \in Nat /\ None \notin {0, 1, "software", "vah264enc", "vah265enc"}
    BY StreamerAssumption, HardwareFacts
  <2> SUFFICES Shapes' /\ Apart(i) /\ Told(i)'
    BY ToldApart
  <2> USE DEF Goto, Exit, GoOnIf, Mark, envVars, runVars, diskVars
  <2>3. CASE Start(i)
    <3>1. Shapes'
      <4>1. /\ starts' \in [Instances -> 0 .. MaxStarts] /\ starts' \in [Instances -> Nat]
            /\ starts'[i] # 0 /\ \A j \in Instances \ {i} : starts'[j] = starts[j]
        BY <2>1, <2>2, <2>3 DEF Start, Shapes, Types
      <4>2. /\ phase' = [phase EXCEPT ![i] = "init"] /\ code' = [code EXCEPT ![i] = None]
            /\ log' = [log EXCEPT ![i] = {}] /\ armed' = [armed EXCEPT ![i] = FALSE]
            /\ rank' = [rank EXCEPT ![i] = None] /\ codecs' = [codecs EXCEPT ![i] = None]
            /\ carrier' = [carrier EXCEPT ![i] = None]
            /\ encoder' = [encoder EXCEPT ![i] = None]
            /\ UNCHANGED <<host, setting, dir, path>>
        BY <2>3 DEF Start
      <4>3. Types'
        BY <2>1, <4>1, <4>2 DEF Types, Running, Startup
      <4> QED
        BY <2>1, <4>1, <4>2, <4>3 DEF Shapes, Types
    <3>2. Apart(i)
      BY <2>1, <2>3 DEF Start, Shapes, Types, Apart
    <3>3. phase'[i] = "init" /\ log'[i] = {} /\ carrier'[i] = None
      BY <2>1, <2>3 DEF Start, Shapes, Types
    <3> QED
      BY <3>1, <3>2, <3>3
      DEF Told, Chosen, Tabled,  Listening, Settled, Startup, Running
  <2>4. CASE ResolveEncoder(i)
    <3>1. Shapes'
      BY <2>1, <2>2, <2>4 DEF ResolveEncoder, Shapes, Types, Running, Startup
    <3>2. Apart(i)
      BY <2>1, <2>4 DEF ResolveEncoder, Shapes, Types, Apart
    <3>3. carrier[i] = None /\ carrier'[i] = None /\ log'[i] = log[i]
          /\ "playing" \notin log[i]
      BY <2>1, <2>4 DEF ResolveEncoder, Told, Startup, Settled
    <3>4. phase'[i] = "dir" =>
            EncoderOf(i)' /\ rank'[i] = RaiseHardwareEncoders(host'.present)
      BY <2>1, <2>4 DEF ResolveEncoder, Resolved, EncoderOf, Shapes, Types
    <3>5. phase'[i] \in {"dir", "down"}
      BY <2>1, <2>4 DEF ResolveEncoder, Shapes, Types
    <3> QED
      BY <3>1, <3>2, <3>3, <3>4, <3>5
      DEF Told, Chosen, Tabled,  Listening, Settled, Startup, Running
  <2>16. CASE InitFails(i)
    <3>1. Shapes'
      BY <2>1, <2>2, <2>16 DEF InitFails, Shapes, Types, Running, Startup
    <3>2. Quiet(i, "down")
      BY <2>16 DEF InitFails, Quiet, Running, Startup
    <3> QED
      BY <3>1, <3>2, ToldQuiet
  <2>5. CASE LooksForDir(i) \/ MakeDir(i) \/ TightenDir(i)
    <3>1. Shapes'
      BY <2>1, <2>2, <2>5
      DEF LooksForDir, MakeDir, TightenDir, Shapes, Types, Running, Startup
    <3>2. \E there \in {"mkdir", "chmod", "sink", "down"} : Quiet(i, there)
      BY <2>5 DEF LooksForDir, MakeDir, TightenDir, Quiet, Running, Startup
    <3> QED
      BY <3>1, <3>2, ToldQuiet
  <2>6. CASE MakeSink(i)
    <3>1. Shapes'
      BY <2>1, <2>2, <2>6 DEF MakeSink, Shapes, Types, Running, Startup
    <3>2. Apart(i)
      BY <2>1, <2>6 DEF MakeSink, Shapes, Types, Apart
    <3>3. /\ phase[i] = "sink" /\ phase'[i] \in {"graph", "down"}
          /\ phase'[i] = "graph" => codecs'[i] = CodecTable(rank[i])
          /\ UNCHANGED <<host, setting, log, encoder, rank, carrier, armed>>
      BY <2>1, <2>6 DEF MakeSink, Shapes, Types
    <3> QED
      BY <2>1, <3>1, <3>2, <3>3
      DEF Told, EncoderOf, LockOf, CarrierOf, TableOf, Chosen, Tabled, 
          Listening, Settled, Startup, Running
  <2>7. CASE BuildCapture(i)
    <3>1. Shapes'
      BY <2>1, <2>2, <2>7 DEF BuildCapture, Shapes, Types, Running, Startup
    <3>2. Quiet(i, "audio") \/ Quiet(i, "down")
      BY <2>7 DEF BuildCapture, Quiet, Running, Startup
    <3> QED
      BY <3>1, <3>2, ToldQuiet
  <2>8. CASE AttachAudio(i)
    <3>1. Shapes'
      BY <2>1, <2>2, <2>8 DEF AttachAudio, Shapes, Types, Running, Startup
    <3>2. Quiet(i, "arm") \/ Quiet(i, "down")
      BY <2>8 DEF AttachAudio, Quiet, Running, Startup
    <3> QED
      BY <3>1, <3>2, ToldQuiet
  <2>9. CASE ArmLock(i)
    <3>1. AsksForLock(setting[i].lock) \in BOOLEAN
      BY DEF AsksForLock
    <3>2. Shapes'
      BY <2>1, <2>2, <2>9, <3>1 DEF ArmLock, Shapes, Types, Running, Startup
    <3>3. Apart(i)
      BY <2>1, <2>9 DEF ArmLock, Shapes, Types, Apart
    <3>4. /\ phase[i] = "arm" /\ phase'[i] = "play"
          /\ armed'[i] = AsksForLock(setting[i].lock)
          /\ UNCHANGED <<host, setting, log, encoder, rank, codecs, carrier>>
      BY <2>1, <2>9 DEF ArmLock, Shapes, Types
    <3> QED
      BY <2>1, <3>2, <3>3, <3>4
      DEF Told, EncoderOf, LockOf, CarrierOf, AsksForLock, Chosen, Tabled, 
          Listening, Settled, Startup, Running
  <2>10. CASE SetPlaying(i)
    <3>1. Shapes'
      BY <2>1, <2>2, <2>10 DEF SetPlaying, Shapes, Types, Running, Startup
    <3>2. Quiet(i, "settle") \/ Quiet(i, "down")
      BY <2>10 DEF SetPlaying, Quiet, Running, Startup
    <3> QED
      BY <3>1, <3>2, ToldQuiet
  <2>11. CASE Settle(i)
    <3>1. \/ /\ phase' = [phase EXCEPT ![i] = "verify"] /\ code' = code
             /\ log' = [log EXCEPT ![i] = @ \cup {"playing"}]
          \/ /\ phase' = [phase EXCEPT ![i] = "down"] /\ code' = [code EXCEPT ![i] = 1]
             /\ log' = log
      BY <2>11, Zenon DEF Settle
    <3>2. phase[i] = "settle"
          /\ UNCHANGED <<envVars, starts, encoder, rank, codecs, carrier, armed, diskVars>>
      BY <2>11 DEF Settle
    <3>3. Shapes'
      BY <2>1, <2>2, <3>1, <3>2 DEF Shapes, Types, Running, Startup
    <3>4. \A j \in Instances \ {i} : log'[j] = log[j]
      BY <2>1, <3>1 DEF Shapes
    <3>5. Quiet(i, "verify") \/ Quiet(i, "down")
      BY <3>1, <3>2, <3>4 DEF Quiet, Running, Startup, Settled
    <3> QED
      BY <3>3, <3>5, ToldQuiet
  <2>12. CASE Verify(i)
    <3>1. Shapes'
      BY <2>1, <2>2, <2>12 DEF Verify, Shapes, Types, Running, Startup
    <3>2. ("playing" \in log'[i] => "playing" \in log[i])
          /\ \A j \in Instances \ {i} : log'[j] = log[j]
      BY <2>1, <2>12 DEF Verify, Shapes
    <3>3. Quiet(i, "exists") \/ Quiet(i, "down")
      BY <2>12, <3>2 DEF Verify, Quiet, Running, Startup, Settled
    <3> QED
      BY <3>1, <3>3, ToldQuiet
  <2>13. CASE LooksForSocket(i) \/ RemovesSocket(i) \/ BindsSocket(i)
    <3>1. Me(i) \in Instances \X (1 .. MaxStarts) \/ phase[i] = "down"
      BY <2>1, <2>2 DEF Me, Shapes
    <3>2. Shapes'
      BY <2>1, <2>2, <2>13, <3>1
      DEF LooksForSocket, RemovesSocket, BindsSocket, Shapes, Types, Running, Startup
    <3>3. ("playing" \in log'[i] => "playing" \in log[i])
          /\ \A j \in Instances \ {i} : log'[j] = log[j]
      BY <2>1, <2>13 DEF LooksForSocket, RemovesSocket, BindsSocket, Shapes
    <3>4. Quiet(i, "remove") \/ Quiet(i, "bind") \/ Quiet(i, "serving")
      BY <2>13, <3>3
      DEF LooksForSocket, RemovesSocket, BindsSocket, Quiet, Running, Startup, Settled
    <3> QED
      BY <3>2, <3>4, ToldQuiet
  <2>14. CASE EncodeFor(i)
    <3>1. Shapes'
      BY <2>1, <2>14 DEF EncodeFor, Shapes, Types
    <3>2. Apart(i)
      BY <2>1, <2>14 DEF EncodeFor, Shapes, Apart
    <3>3. phase[i] \in Settled
      BY <2>1, <2>14 DEF EncodeFor, Told, Running, Settled, Startup
    <3>4. /\ Usable(codecs[i]) # {}
          /\ carrier'[i] = [element |-> Best(codecs[i]),
                            lowLatency |-> LowLatency(Best(codecs[i]), encoder[i])]
          /\ UNCHANGED <<host, setting, phase, log, encoder, rank, codecs, armed>>
      BY <2>1, <2>14 DEF EncodeFor, Shapes
    <3>5. codecs[i] = TableOf(host.present) /\ EncoderOf(i) /\ LockOf(i)
      BY <2>1, <3>3 DEF Told, Chosen, Tabled, Listening, Settled, Running, Startup
    <3>6. EncoderOf(i)' /\ LockOf(i)' /\ CarrierOf(i)'
      BY <3>4, <3>5 DEF EncoderOf, LockOf, CarrierOf
    <3> QED
      BY <2>1, <3>1, <3>2, <3>3, <3>4, <3>6 DEF Told, Settled, Startup
  <2>15. CASE BusEos(i) \/ BusError(i) \/ Kill(i)
    <3>1. Shapes'
      BY <2>1, <2>2, <2>15 DEF BusEos, BusError, Kill, Shapes, Types, Running, Startup
    <3>2. Quiet(i, "down")
      BY <2>15 DEF BusEos, BusError, Kill, Quiet, Running
    <3> QED
      BY <3>1, <3>2, ToldQuiet
  <2> QED
    BY <1>2, <2>3, <2>4, <2>5, <2>6, <2>7, <2>8, <2>9, <2>10, <2>11, <2>12, <2>13, <2>14,
       <2>15, <2>16 DEF Step, MainStep
<1> QED
  BY <1>1, <1>2 DEF Next

(***************************************************************************)
(* The types of main's variables, and that past select_encoder it has one  *)
(* (webrtc.rs:58-76).                                                      *)
(***************************************************************************)
THEOREM StartTypes == SafetySpec => []TypeOK
<1>1. ToldInv => TypeOK
  <2> SUFFICES ASSUME ToldInv PROVE TypeOK
    OBVIOUS
  <2>1. Shapes /\ host.present \in SUBSET Elements
    BY DEF ToldInv, Shapes, Types, HostRecords
  <2>2. ASSUME NEW i \in Instances, phase[i] \in Running \ {"init"}
        PROVE  encoder[i] \in {"software"} \cup (host.present \cap {"vah264enc", "vah265enc"})
    <3>1. EncoderOf(i)
      BY <2>2 DEF ToldInv, Told, Chosen
    <3> QED
      BY <2>1, <3>1, FoundFacts, HardwareFacts DEF EncoderOf, SelectEncoder
  <2> QED
    BY <2>1, <2>2 DEF Shapes, Types, TypeOK
<1> QED
  BY <1>1, ToldInit, ToldStep, PTL DEF SafetySpec

(***************************************************************************)
(* The encoder that is announced carries the stream: it was promoted       *)
(* before the sink's table was built, high enough to win (rank.rs:3-11,    *)
(* webrtc.rs:3-7).                                                         *)
(***************************************************************************)
THEOREM CarriedCorrect == SafetySpec => []CarriedAsClaimed
<1>1. ToldInv => CarriedAsClaimed
  <2> SUFFICES ASSUME ToldInv, NEW i \in Instances, carrier[i] # None,
                      encoder[i] # "vah265enc", setting[i].policy # "software"
               PROVE  IF encoder[i] = "software"
                        THEN carrier[i] = [element |-> "x264enc", lowLatency |-> TRUE]
                        ELSE carrier[i].element = encoder[i]
    BY DEF CarriedAsClaimed
  <2>1. EncoderOf(i) /\ CarrierOf(i) /\ host.present \in SUBSET Elements
    BY DEF ToldInv, Told, Shapes, Types, HostRecords
  <2>2. setting[i].policy \in {"auto", "va"}
    BY <2>1 DEF EncoderOf, Policies
  <2>3. IF encoder[i] = "software" THEN Best(TableOf(host.present)) = "x264enc"
                                   ELSE Best(TableOf(host.present)) = encoder[i]
    BY <2>1, <2>2, Announced DEF EncoderOf, CarrierOf
  <2>4. CASE encoder[i] = "software"
    BY <2>1, <2>3, <2>4, Zenon DEF CarrierOf, LowLatency
  <2>5. CASE encoder[i] # "software"
    <3>1. carrier[i].element = Best(TableOf(host.present))
      BY <2>1 DEF CarrierOf
    <3> QED
      BY <2>3, <2>5, <3>1
  <2> QED
    BY <2>4, <2>5
<1> QED
  BY <1>1, ToldInit, ToldStep, PTL DEF SafetySpec

(***************************************************************************)
(* Nobody is given a stream before the lock listens, and it listens        *)
(* exactly if a number of seconds was asked for (main.rs:83-95).           *)
(***************************************************************************)
THEOREM CountedCorrect == SafetySpec => []ViewersAreCounted
<1>1. ToldInv => ViewersAreCounted
  BY DEF ToldInv, Told, LockOf, ViewersAreCounted
<1> QED
  BY <1>1, ToldInit, ToldStep, PTL DEF SafetySpec

-----------------------------------------------------------------------------
(***************************************************************************)
(* Where the policy is not kept.  What carries a stream is the host's: it  *)
(* is hardware exactly where there is hardware for H.264, whatever the     *)
(* policy says, since ranks are raised before the policy is read and       *)
(* nothing lowers them again (main.rs:26-29, rank.rs:3-11).                *)
(***************************************************************************)
H264InHardware == "vah264enc" \in host.present

CarrierIsTheHosts ==
  \A i \in Instances :
    carrier[i] # None => (IsHardware(carrier[i].element) <=> H264InHardware)

LEMMA ToldCarrier == ToldInv => CarrierIsTheHosts
<1> SUFFICES ASSUME ToldInv, NEW i \in Instances, carrier[i] # None
             PROVE  IsHardware(carrier[i].element) <=> H264InHardware
  BY DEF CarrierIsTheHosts
<1>1. CarrierOf(i) /\ host.present \in SUBSET Elements
  BY DEF ToldInv, Told, Shapes, Types, HostRecords
<1>2. carrier[i].element = IF H264InHardware THEN "vah264enc" ELSE "x264enc"
  BY <1>1, BestFacts DEF CarrierOf, H264InHardware
<1> QED
  BY <1>2, HardwareFacts

THEOREM PolicyHasNoSay == SafetySpec => []CarrierIsTheHosts
BY ToldInit, ToldStep, ToldCarrier, PTL DEF SafetySpec

(***************************************************************************)
(* ... so that the statements of webrtc.rs:19-21 hold exactly as long as   *)
(* every stream is carried on a host that agrees with its policy.          *)
(***************************************************************************)
HostAgrees ==
  \A i \in Instances :
    carrier[i] # None =>
      /\ setting[i].policy = "va" => H264InHardware
      /\ setting[i].policy = "software" => ~H264InHardware

THEOREM PolicyKeptExactly == SafetySpec => [](PolicyIsKept <=> HostAgrees)
<1>1. CarrierIsTheHosts => (PolicyIsKept <=> HostAgrees)
  BY DEF CarrierIsTheHosts, PolicyIsKept, HostAgrees
<1> QED
  BY <1>1, PolicyHasNoSay, PTL

-----------------------------------------------------------------------------
(***************************************************************************)
(* The runtime directory.  Whoever has found none is on the way to tighten *)
(* it; nobody else touches it (display.rs:74-85).                          *)
(***************************************************************************)
LEMMA StepElsewhere ==
  ASSUME Types, NEW i \in Instances, Step(i)
  PROVE  \A j \in Instances \ {i} : phase'[j] = phase[j]
<1> USE DEF Types, Goto, Exit, GoOnIf
<1>1. CASE Start(i) \/ InitFails(i) \/ ResolveEncoder(i)
  BY <1>1 DEF Start, InitFails, ResolveEncoder
<1>2. CASE LooksForDir(i) \/ MakeDir(i) \/ TightenDir(i) \/ MakeSink(i)
  BY <1>2 DEF LooksForDir, MakeDir, TightenDir, MakeSink
<1>3. CASE BuildCapture(i) \/ AttachAudio(i) \/ ArmLock(i) \/ SetPlaying(i)
  BY <1>3 DEF BuildCapture, AttachAudio, ArmLock, SetPlaying
<1>4. CASE Settle(i)
  <2>1. \E there \in {"verify", "down"} : phase' = [phase EXCEPT ![i] = there]
    BY <1>4, Zenon DEF Settle
  <2> QED
    BY <2>1
<1>5. CASE Verify(i) \/ LooksForSocket(i) \/ RemovesSocket(i) \/ BindsSocket(i)
  BY <1>5 DEF Verify, LooksForSocket, RemovesSocket, BindsSocket
<1>6. CASE EncodeFor(i) \/ BusEos(i) \/ BusError(i) \/ Kill(i)
  BY <1>6 DEF EncodeFor, BusEos, BusError, Kill
<1> QED
  BY <1>1, <1>2, <1>3, <1>4, <1>5, <1>6 DEF Step, MainStep

\* What a step of one instance does to the directory, and to its way there.
DirMoves(i) ==
  /\ \A j \in Instances \ {i} : phase'[j] = phase[j]
  /\ \/ dir' = dir
     \/ dir = "none" /\ dir' = "wide" /\ Making(i)'
     \/ dir' = "private" /\ phase[i] = "chmod"
  /\ Making(i)' /\ ~Making(i) => dir = "none"
  /\ Making(i) => Making(i)' \/ dir' = "private" \/ DiesMaking(i)

LEMMA DirStep ==
  ASSUME Types, NEW i \in Instances, Step(i)
  PROVE  DirMoves(i)
<1>1. \A j \in Instances \ {i} : phase'[j] = phase[j]
  BY StepElsewhere
<1> USE DEF Types, Goto, Exit, GoOnIf, diskVars, Making
<1>2. CASE MakeDir(i)
  <2>1. \/ phase'[i] = "chmod"
        \/ dir' = dir /\ phase'[i] = "down" /\ code'[i] = 1
    BY <1>2 DEF MakeDir
  <2> QED
    BY <1>1, <1>2, <2>1 DEF MakeDir, DirMoves, DiesMaking
<1>3. CASE TightenDir(i)
  <2>1. \/ dir' = "private" /\ phase'[i] = "sink"
        \/ dir' = dir /\ phase'[i] = "down" /\ code'[i] = 1
    BY <1>3 DEF TightenDir
  <2> QED
    BY <1>1, <1>3, <2>1 DEF TightenDir, DirMoves, DiesMaking
<1>4. CASE LooksForDir(i)
  BY <1>1, <1>4 DEF LooksForDir, DirMoves
<1>5. CASE Kill(i)
  <2>1. dir' = dir /\ phase'[i] = "down"
    BY <1>5 DEF Kill
  <2> QED
    BY <1>1, <1>5, <2>1 DEF DirMoves, DiesMaking
<1>6. CASE EncodeFor(i)
  BY <1>1, <1>6 DEF EncodeFor, DirMoves
<1>7. CASE ~MakeDir(i) /\ ~TightenDir(i) /\ ~LooksForDir(i) /\ ~Kill(i) /\ ~EncodeFor(i)
  <2>1. dir' = dir /\ phase[i] \notin {"mkdir", "chmod"} /\ phase'[i] \notin {"mkdir", "chmod"}
    <3>1. CASE Start(i) \/ InitFails(i) \/ ResolveEncoder(i) \/ MakeSink(i)
      BY <3>1 DEF Start, InitFails, ResolveEncoder, MakeSink
    <3>2. CASE BuildCapture(i) \/ AttachAudio(i) \/ ArmLock(i) \/ SetPlaying(i)
      BY <3>2 DEF BuildCapture, AttachAudio, ArmLock, SetPlaying
    <3>3. CASE Settle(i)
      <4>1. /\ phase[i] = "settle" /\ dir' = dir
            /\ \E there \in {"verify", "down"} : phase' = [phase EXCEPT ![i] = there]
        BY <3>3, Zenon DEF Settle
      <4> QED
        BY <4>1
    <3>4. CASE Verify(i) \/ LooksForSocket(i) \/ RemovesSocket(i) \/ BindsSocket(i)
      BY <3>4 DEF Verify, LooksForSocket, RemovesSocket, BindsSocket
    <3>5. CASE BusEos(i) \/ BusError(i)
      BY <3>5 DEF BusEos, BusError
    <3> QED
      BY <1>7, <3>1, <3>2, <3>3, <3>4, <3>5 DEF Step, MainStep
  <2> QED
    BY <1>1, <2>1 DEF DirMoves
<1> QED
  BY <1>2, <1>3, <1>4, <1>5, <1>6, <1>7

(***************************************************************************)
(* Whatever the hosts and however many streamers share the directory and   *)
(* race to make it, it is left wide by nothing but the death, by a kill or *)
(* with exit code 1, of the last one that could have tightened it.         *)
(***************************************************************************)
LEMMA LeftStep ==
  ProbeInv /\ [Next]_vars
    => [~LeftWide /\ LeftWide' => \E i \in Instances : DiesMaking(i)]_vars
<1> SUFFICES ASSUME ProbeInv, NEW i \in Instances, Step(i), ~LeftWide, LeftWide'
             PROVE  DiesMaking(i)
  BY DEF Next
<1>1. DirMoves(i)
  BY DirStep DEF ProbeInv
<1>2. dir' = "wide" /\ ~Making(i)'
  BY DEF LeftWide
<1>3. dir = "wide"
  BY <1>1, <1>2 DEF DirMoves
<1>4. PICK j \in Instances : Making(j)
  BY <1>3 DEF LeftWide
<1>5. j = i
  BY <1>1, <1>4 DEF DirMoves, LeftWide, Making
<1> QED
  BY <1>1, <1>2, <1>4, <1>5 DEF DirMoves

THEOREM WideByDeath == SafetySpec => WideOnlyByDeath
BY ProbeInit, ProbeStep, LeftStep, PTL DEF SafetySpec, WideOnlyByDeath

(***************************************************************************)
(* A directory that was left wide stays wide through every later start:    *)
(* who comes later finds it and leaves it alone, and nobody is left who    *)
(* found none (display.rs:71-73, 77-79).                                   *)
(***************************************************************************)
THEOREM WideStaysWide == SafetySpec => [](LeftWide => []LeftWide)
<1>1. ASSUME ProbeInv, LeftWide, [Next]_vars PROVE LeftWide'
  <2>1. CASE UNCHANGED vars
    BY <1>1, <2>1 DEF vars, diskVars, LeftWide, Making
  <2>2. ASSUME NEW i \in Instances, Step(i) PROVE LeftWide'
    BY <1>1, <2>2, DirStep DEF ProbeInv, DirMoves, LeftWide, Making
  <2> QED
    BY <1>1, <2>1, <2>2 DEF Next
<1> QED
  BY <1>1, ProbeInit, ProbeStep, PTL DEF SafetySpec
=============================================================================
