---------------------------- MODULE ControlProofs ----------------------------
(***************************************************************************)
(* What TLAPS proves of the control socket, for any number of clients, any *)
(* command lines, and any interval.                                        *)
(***************************************************************************)
EXTENDS ControlServer, GeometryProofs

USE DEF controlVars, clientVars, serverVars

(***************************************************************************)
(* Resizing: the geometry asked for, once sanitised, is legal and keeps    *)
(* the frame rate.                                                         *)
(***************************************************************************)
LEMMA WantIsLegal ==
  ASSUME current \in LegalGeometries, NEW line \in CommandLines
  PROVE  /\ Want(line) \in LegalGeometries
         /\ Want(line).framerate = current.framerate
<1> DEFINE asked == [width |-> line.width, height |-> line.height,
                     framerate |-> current.framerate]
<1>1. line.width \in Nat /\ line.height \in Nat
  BY DEF CommandLines
<1>2. /\ current.framerate \in Nat
      /\ 1 <= current.framerate /\ current.framerate <= 240
  BY DEF LegalGeometries, Geometries
<1>3. asked \in Geometries
  BY <1>1, <1>2 DEF Geometries
<1>4. Want(line) = Sanitised(asked)
  BY DEF Want
<1>5. Sanitised(asked).framerate = current.framerate
  BY <1>2, ClampFacts DEF Sanitised
<1> QED
  BY <1>3, <1>4, <1>5, SanitisedIsLegal

-----------------------------------------------------------------------------
(***************************************************************************)
(* Typing, and the agreement between what Control remembers and what the   *)
(* capsfilter went through: current is what is on it, and last_applied is  *)
(* when it last changed.                                                   *)
(***************************************************************************)
Agreement ==
  /\ caps = current
  /\ changedAt = lastApplied

ControlInv == TypeOK /\ Agreement

LEMMA ControlInit_Inv == Init => ControlInv
<1> SUFFICES ASSUME Init PROVE ControlInv
  OBVIOUS
<1>1. caps \in LegalGeometries /\ current = caps
  BY DefaultIsLegal DEF Init, ControlInit
<1>2. /\ \A c \in Clients : Len(sent[c]) = 0
      /\ sent \in [Clients -> Seq(Commands)]
      /\ replies \in [Clients -> Seq(Replies)]
      /\ backlog \in Seq(Clients)
  BY DEF Init
<1>3. 0 \in 0 .. MaxTime
  BY ServerBoundsAssumption
<1> QED
  BY <1>1, <1>2, <1>3, ServerBoundsAssumption
  DEF Init, ControlInit, ControlInv, TypeOK, Agreement

\* A line that is dispatched, whatever it says.
LEMMA DispatchStep ==
  ASSUME ControlInv, NEW line \in CommandLines, Dispatch(line, now),
         changedAt' = IF caps' # caps THEN now ELSE changedAt
  PROVE  /\ caps' \in LegalGeometries
         /\ caps'.framerate = caps.framerate
         /\ caps' # caps => ~TooSoon(now)
         /\ current' = caps' /\ lastApplied' = changedAt'
         /\ lastApplied' \in 0 .. MaxTime \cup {None}
         /\ answer' \in Replies
<1> USE DEF ControlInv, Agreement, TypeOK
<1>1. ASSUME NEW kind \in ReplyKinds, NEW shown \in LegalGeometries \cup {None}
      PROVE  Reply(kind, shown) \in Replies
  BY <1>1 DEF Reply, Replies
<1>2. CASE ResizeNoop(line, now)
  BY <1>1, <1>2 DEF ResizeNoop, ReplyKinds
<1>3. CASE ResizeLimited(line, now)
  BY <1>1, <1>3 DEF ResizeLimited, ReplyKinds
<1>4. CASE ResizeApplied(line, now)
  BY <1>1, <1>4, WantIsLegal DEF ResizeApplied, ReplyKinds
<1>5. CASE line.op = "geometry" /\ AnswerOnly(Reply("geometry", current))
  BY <1>1, <1>5 DEF AnswerOnly, ReplyKinds
<1>6. CASE line.op \in {"badargs", "unknown", "empty"}
           /\ AnswerOnly(Reply(line.op, None))
  BY <1>1, <1>6 DEF AnswerOnly, ReplyKinds
<1> QED
  BY <1>2, <1>3, <1>4, <1>5, <1>6 DEF Dispatch, Resize

\* A step that neither dispatches a line nor touches the clock.
Elsewhere ==
  /\ UNCHANGED <<caps, current, lastApplied, now, changedAt>>
  /\ answer' \in {answer, None}

LEMMA ElsewhereKeeps ==
  ASSUME ControlInv, Elsewhere,
         conn' \in [Clients -> {"none", "queued", "served", "closed"}],
         intent' \in [Clients -> {"open", "shut", "gone"}],
         backlog' \in Seq(Clients),
         sent' \in [Clients -> Seq(Commands)],
         consumed' \in [Clients -> Nat],
         replies' \in [Clients -> Seq(Replies)],
         \A c \in Clients : consumed'[c] <= Len(sent'[c]) /\ Len(sent'[c]) <= MaxLines
  PROVE  ControlInv'
BY DEF ControlInv, Agreement, TypeOK, Elsewhere

LEMMA ClientStep ==
  ASSUME ControlInv, NEW c \in Clients,
         \/ Dial(c)
         \/ \E line \in Commands : Send(c, line)
         \/ \E how \in {"shut", "gone"} : Leave(c, how)
  PROVE  Elsewhere /\ ControlInv'
<1> USE DEF ControlInv, TypeOK
<1>1. CASE Dial(c)
  <2>1. Elsewhere
    BY <1>1 DEF Dial, Elsewhere
  <2> QED
    BY <1>1, <2>1, ElsewhereKeeps DEF Dial
<1>2. ASSUME NEW line \in Commands, Send(c, line)
      PROVE  Elsewhere /\ ControlInv'
  <2>1. Elsewhere
    BY <1>2 DEF Send, Elsewhere
  <2>2. sent' = [sent EXCEPT ![c] = Append(sent[c], line)] /\ Len(sent[c]) < MaxLines
    BY <1>2 DEF Send
  <2>3. \A s \in Seq(Commands) :
          Append(s, line) \in Seq(Commands) /\ Len(Append(s, line)) = Len(s) + 1
    OBVIOUS
  <2>4. sent' \in [Clients -> Seq(Commands)]
    BY <2>2, <2>3
  <2>5. ASSUME NEW d \in Clients
        PROVE  consumed[d] <= Len(sent'[d]) /\ Len(sent'[d]) <= MaxLines
    <3>1. CASE d = c
      BY <2>2, <2>3, <3>1, ServerBoundsAssumption
    <3>2. CASE d # c
      BY <2>2, <3>2
    <3> QED
      BY <3>1, <3>2
  <2>6. UNCHANGED <<conn, intent, backlog, consumed, replies>>
    BY <1>2 DEF Send
  <2> QED
    BY <2>1, <2>4, <2>5, <2>6, ElsewhereKeeps
<1>3. ASSUME NEW how \in {"shut", "gone"}, Leave(c, how)
      PROVE  Elsewhere /\ ControlInv'
  <2>1. Elsewhere
    BY <1>3 DEF Leave, Elsewhere
  <2> QED
    BY <1>3, <2>1, ElsewhereKeeps DEF Leave
<1> QED
  BY <1>1, <1>2, <1>3

LEMMA ReadLineStep ==
  ASSUME ControlInv, NEW c \in Clients, ReadLine(c)
  PROVE  /\ ControlInv'
         /\ now' = now
         /\ caps'.framerate = caps.framerate
         /\ IF caps' = caps
              THEN changedAt' = changedAt
              ELSE changedAt' = now /\ ~TooSoon(now)
<1> USE DEF ControlInv, TypeOK
<1> DEFINE line == sent[c][consumed[c] + 1]
<1>1. line \in CommandLines
  BY CommandsAssumption DEF ReadLine
<1>2. /\ UNCHANGED <<clientVars, backlog, replies, now>>
      /\ consumed' = [consumed EXCEPT ![c] = consumed[c] + 1]
      /\ consumed[c] < Len(sent[c])
      /\ changedAt' = IF caps' # caps THEN now ELSE changedAt
  BY DEF ReadLine
<1>3. consumed' \in [Clients -> Nat]
      /\ \A d \in Clients : consumed'[d] <= Len(sent'[d])
  BY <1>2
<1>4. CASE conn' = [conn EXCEPT ![c] = "closed"] /\ UNCHANGED controlVars
  BY <1>2, <1>3, <1>4 DEF Agreement
<1>5. CASE Dispatch(line, now) /\ UNCHANGED conn
  <2> HIDE DEF line
  <2> QED
    BY <1>1, <1>2, <1>3, <1>5, DispatchStep DEF Agreement
<1> QED
  BY <1>4, <1>5 DEF ReadLine

LEMMA ServerElsewhere ==
  ASSUME ControlInv,
         Accept \/ \E c \in Clients : WriteReply(c) \/ ReadEnd(c)
  PROVE  Elsewhere /\ ControlInv'
<1> USE DEF ControlInv, TypeOK
<1>1. CASE Accept
  <2>1. Elsewhere
    BY <1>1 DEF Accept, Elsewhere
  <2>2. backlog' \in Seq(Clients)
    BY <1>1 DEF Accept
  <2> QED
    BY <1>1, <2>1, <2>2, ElsewhereKeeps DEF Accept
<1>2. ASSUME NEW c \in Clients, WriteReply(c)
      PROVE  Elsewhere /\ ControlInv'
  <2>1. Elsewhere
    BY <1>2 DEF WriteReply, Elsewhere
  <2>2. replies' \in [Clients -> Seq(Replies)]
    <3>1. answer \in Replies
      BY <1>2 DEF WriteReply
    <3>2. Append(replies[c], answer) \in Seq(Replies)
      BY <3>1
    <3>3. \/ replies' = replies
          \/ replies' = [replies EXCEPT ![c] = Append(replies[c], answer)]
      BY <1>2 DEF WriteReply
    <3> QED
      BY <3>2, <3>3
  <2>3. conn' \in [Clients -> {"none", "queued", "served", "closed"}]
    BY <1>2 DEF WriteReply
  <2>4. UNCHANGED <<intent, sent, backlog, consumed>>
    BY <1>2 DEF WriteReply
  <2> QED
    BY <2>1, <2>2, <2>3, <2>4, ElsewhereKeeps
<1>3. ASSUME NEW c \in Clients, ReadEnd(c)
      PROVE  Elsewhere /\ ControlInv'
  <2>1. Elsewhere
    BY <1>3 DEF ReadEnd, Elsewhere
  <2> QED
    BY <1>3, <2>1, ElsewhereKeeps DEF ReadEnd
<1> QED
  BY <1>1, <1>2, <1>3

LEMMA TickStep ==
  ASSUME ControlInv, Tick
  PROVE  ControlInv' /\ UNCHANGED <<caps, changedAt>>
BY ServerBoundsAssumption DEF ControlInv, Agreement, TypeOK, Tick

LEMMA ControlStep_Inv == ControlInv /\ [Next]_vars => ControlInv'
<1> SUFFICES ASSUME ControlInv, [Next]_vars
             PROVE  ControlInv'
  OBVIOUS
<1>1. CASE UNCHANGED vars
  BY <1>1 DEF vars, ControlInv, Agreement, TypeOK
<1> QED
  BY <1>1, ClientStep, ReadLineStep, ServerElsewhere, TickStep DEF Next, ServerStep

(***************************************************************************)
(* The control socket's state stays in its types: whatever lines arrive,   *)
(* the geometry on the capsfilter is legal (control.rs:61-92).             *)
(***************************************************************************)
THEOREM ControlTypes == SafetySpec => []TypeOK
<1>1. ControlInv => TypeOK
  BY DEF ControlInv
<1> QED
  BY <1>1, ControlInit_Inv, ControlStep_Inv, PTL DEF SafetySpec

-----------------------------------------------------------------------------
(***************************************************************************)
(* Refinement.                                                             *)
(***************************************************************************)
\* Register's own copy of the geometry definitions is the same.
LEMMA SameGeometry ==
  /\ Register!LegalGeometries = LegalGeometries
  /\ Register!DefaultGeometry = DefaultGeometry
BY DEF Register!LegalGeometries, LegalGeometries, Register!Geometries,
   Geometries, Register!DefaultGeometry, DefaultGeometry

LEMMA RegisterStep ==
  ControlInv /\ [Next]_vars => [Register!Next]_(Register!registerVars)
<1> SUFFICES ASSUME ControlInv, [Next]_vars
             PROVE  Register!Next \/ UNCHANGED <<caps, changedAt, now>>
  BY DEF Register!registerVars
<1>1. CASE Elsewhere
  BY <1>1 DEF Elsewhere
<1>2. ASSUME NEW c \in Clients, ReadLine(c)
      PROVE  Register!Next \/ UNCHANGED <<caps, changedAt, now>>
  <2>1. CASE caps' = caps
    BY <1>2, <2>1, ReadLineStep
  <2>2. CASE caps' # caps
    <3>1. ControlInv' /\ now' = now /\ changedAt' = now /\ ~TooSoon(now)
          /\ caps'.framerate = caps.framerate
      BY <1>2, <2>2, ReadLineStep
    <3>2. caps' \in LegalGeometries
      BY <3>1 DEF ControlInv, TypeOK
    <3>3. changedAt = None \/ now - changedAt >= MinInterval
      <4>1. lastApplied = None \/ (lastApplied \in Int /\ now \in Int)
        BY DEF ControlInv, TypeOK
      <4> QED
        BY <3>1, <4>1, MinIntervalAssumption DEF TooSoon, ControlInv, Agreement
    <3>4. Register!Change
      BY <2>2, <3>1, <3>2, <3>3, SameGeometry DEF Register!Change
    <3> QED
      BY <3>4 DEF Register!Next
  <2> QED
    BY <2>1, <2>2
<1>3. CASE Tick
  BY <1>3, TickStep DEF Tick, Register!Next, Register!Pass
<1>4. CASE UNCHANGED vars
  BY <1>4 DEF vars
<1> QED
  BY <1>1, <1>2, <1>3, <1>4, ClientStep, ServerElsewhere DEF Next, ServerStep

(***************************************************************************)
(* However many clients send whatever lines, the capsfilter behaves as a   *)
(* GeometryRegister: legal geometries at one frame rate, changed at least  *)
(* MinInterval apart (control.rs:25-30, 61-92).                            *)
(***************************************************************************)
THEOREM RegisterRefined == SafetySpec => RefinesRegister
<1>1. Init => Register!Init
  <2> SUFFICES ASSUME Init PROVE Register!Init
    OBVIOUS
  <2>1. caps = Sanitised(DefaultGeometry) /\ changedAt = None /\ now = 0
    BY DEF Init, ControlInit
  <2>2. caps = DefaultGeometry
    BY <2>1, DefaultIsLegal
  <2> QED
    BY <2>1, <2>2, SameGeometry DEF Register!Init
<1> QED
  BY <1>1, ControlInit_Inv, ControlStep_Inv, RegisterStep, PTL
  DEF SafetySpec, RefinesRegister, Register!Spec

(***************************************************************************)
(* What follows for the viewers: after a change of the caps there is none  *)
(* for MinInterval, be it the next one or a much later one, so that no     *)
(* crowd of clients can make the pipeline renegotiate faster               *)
(* (control.rs:25-30).                                                     *)
(***************************************************************************)
THEOREM ChangesSpaced ==
  ASSUME NEW t \in Nat
  PROVE  SafetySpec =>
           [](changedAt = t => [][caps' # caps => now >= t + MinInterval]_vars)
<1> DEFINE Changed == changedAt # None /\ changedAt >= t
           Spaced == caps' # caps => now >= t + MinInterval
<1>1. changedAt = t => Changed
  BY ControlNoneAssumption
<1>2. ControlInv /\ Changed /\ [Next]_vars => Changed' /\ Spaced
  <2> SUFFICES ASSUME ControlInv, Changed, [Next]_vars PROVE Changed' /\ Spaced
    OBVIOUS
  <2>1. changedAt \in Int /\ now \in Int /\ MinInterval \in Nat /\ None \notin Int
    BY MinIntervalAssumption, ControlNoneAssumption DEF ControlInv, TypeOK
  <2>2. Register!Change \/ (UNCHANGED <<caps, changedAt>>)
    BY RegisterStep DEF Register!Next, Register!Pass, Register!registerVars
  <2>3. CASE UNCHANGED <<caps, changedAt>>
    BY <2>3
  <2>4. CASE Register!Change
    <3>1. now - changedAt >= MinInterval /\ changedAt' = now
      BY <2>4 DEF Register!Change
    <3> QED
      BY <2>1, <3>1
  <2> QED
    BY <2>2, <2>3, <2>4
<1>3. ControlInv /\ Changed /\ [Next]_vars => [Spaced]_vars
  BY <1>2
<1> HIDE DEF Changed, Spaced
<1>4. SafetySpec => [](changedAt = t => [][Spaced]_vars)
  BY <1>1, <1>2, <1>3, ControlInit_Inv, ControlStep_Inv, PTL DEF SafetySpec
<1> QED
  BY <1>4 DEF Spaced

-----------------------------------------------------------------------------
(***************************************************************************)
(* Replies.  One client is served at a time, and only it can have a line   *)
(* read and not yet answered; a client that waits has had nothing read.    *)
(***************************************************************************)
QueueInv ==
  /\ \A i \in 1 .. Len(backlog) : conn[backlog[i]] = "queued"
  /\ \A i, j \in 1 .. Len(backlog) : backlog[i] = backlog[j] => i = j

TurnInv ==
  /\ Idle => answer = None
  /\ \A c, d \in Clients : conn[c] = "served" /\ conn[d] = "served" => c = d

WaitInv ==
  \A c \in Clients :
    conn[c] \in {"none", "queued"} => consumed[c] = 0 /\ replies[c] = <<>>

ServedInv ==
  \A c \in Clients : conn[c] = "served" =>
    IF answer = None
      THEN consumed[c] = Len(replies[c])
      ELSE /\ consumed[c] = Len(replies[c]) + 1
           /\ Fits(sent[c][consumed[c]], answer)

OrderInv == QueueInv /\ TurnInv /\ WaitInv /\ ServedInv /\ AnswersInOrder

LEMMA OrderInit == Init => OrderInv
BY DEF Init, ControlInit, OrderInv, QueueInv, TurnInv, WaitInv, ServedInv,
   AnswersInOrder, Idle

\* The steps that leave the lines read, the replies and the answer alone.
LEMMA OrderDial ==
  ASSUME TypeOK, OrderInv, NEW c \in Clients, Dial(c)
  PROVE  OrderInv'
<1> USE DEF OrderInv
<1>1. /\ conn[c] = "none"
      /\ conn' = [conn EXCEPT ![c] = "queued"]
      /\ backlog' = Append(backlog, c)
      /\ UNCHANGED <<answer, sent, consumed, replies>>
  BY DEF Dial
<1>2. /\ Len(backlog') = Len(backlog) + 1
      /\ \A i \in 1 .. Len(backlog) : backlog'[i] = backlog[i]
      /\ backlog'[Len(backlog) + 1] = c
      /\ Len(backlog) \in Nat
  BY <1>1 DEF TypeOK
<1>3. \A i \in 1 .. Len(backlog) : backlog[i] # c /\ conn'[backlog[i]] = "queued"
  BY <1>1 DEF TypeOK, QueueInv
<1>4. QueueInv'
  BY <1>1, <1>2, <1>3 DEF TypeOK, QueueInv
<1>5. TurnInv'
  BY <1>1 DEF TypeOK, TurnInv, Idle
<1>6. WaitInv' /\ ServedInv' /\ AnswersInOrder'
  BY <1>1 DEF TypeOK, WaitInv, ServedInv, AnswersInOrder
<1> QED
  BY <1>4, <1>5, <1>6

LEMMA OrderSend ==
  ASSUME TypeOK, OrderInv, NEW c \in Clients, NEW line \in Commands, Send(c, line)
  PROVE  OrderInv'
<1> USE DEF OrderInv
<1>1. /\ sent' = [sent EXCEPT ![c] = Append(sent[c], line)]
      /\ UNCHANGED <<conn, backlog, answer, consumed, replies>>
  BY DEF Send
<1>2. QueueInv' /\ TurnInv' /\ WaitInv'
  BY <1>1 DEF QueueInv, TurnInv, WaitInv, Idle
<1>3. ASSUME NEW d \in Clients, NEW i \in 1 .. Len(sent[d])
      PROVE  sent'[d][i] = sent[d][i]
  <2>1. sent[d] \in Seq(Commands)
    BY DEF TypeOK
  <2>2. CASE d = c
    <3>1. sent'[d] = Append(sent[d], line)
      BY <1>1, <2>2 DEF TypeOK
    <3> QED
      BY <1>3, <2>1, <3>1
  <2>3. CASE d # c
    BY <1>1, <2>3 DEF TypeOK
  <2> QED
    BY <2>2, <2>3
<1>4. \A d \in Clients :
        /\ Len(replies[d]) \in Nat /\ consumed[d] \in Nat /\ Len(sent[d]) \in Nat
        /\ Len(replies[d]) <= consumed[d] /\ consumed[d] <= Len(sent[d])
  BY DEF TypeOK, AnswersInOrder
<1>5. ServedInv'
  <2> SUFFICES ASSUME NEW d \in Clients, conn[d] = "served", answer # None
               PROVE  /\ consumed[d] = Len(replies[d]) + 1
                      /\ Fits(sent'[d][consumed[d]], answer)
    BY <1>1 DEF ServedInv
  <2>1. consumed[d] = Len(replies[d]) + 1 /\ Fits(sent[d][consumed[d]], answer)
    BY DEF ServedInv
  <2>2. consumed[d] \in 1 .. Len(sent[d])
    BY <1>4, <2>1
  <2> QED
    BY <1>3, <2>1, <2>2
<1>6. AnswersInOrder'
  <2> SUFFICES ASSUME NEW d \in Clients, NEW i \in 1 .. Len(replies[d])
               PROVE  Fits(sent'[d][i], replies[d][i])
    BY <1>1 DEF AnswersInOrder
  <2>1. i \in 1 .. Len(sent[d])
    BY <1>4
  <2> QED
    BY <1>3, <2>1 DEF AnswersInOrder
<1> QED
  BY <1>2, <1>5, <1>6

LEMMA OrderAccept ==
  ASSUME TypeOK, OrderInv, Accept
  PROVE  OrderInv'
<1> USE DEF OrderInv
<1> DEFINE h == Head(backlog)
<1>1. /\ Idle /\ backlog # <<>> /\ backlog' = Tail(backlog)
      /\ UNCHANGED <<answer, sent, consumed, replies>>
  BY DEF Accept
<1>2. PICK outcome \in {"served", "closed"} : conn' = [conn EXCEPT ![h] = outcome]
  BY DEF Accept
<1>3. /\ h \in Clients /\ h = backlog[1] /\ 1 \in 1 .. Len(backlog)
      /\ Len(backlog') = Len(backlog) - 1
      /\ Len(backlog) \in Nat
      /\ \A i \in 1 .. Len(backlog') :
           backlog'[i] = backlog[i + 1] /\ i + 1 \in 1 .. Len(backlog)
  BY <1>1 DEF TypeOK
<1> HIDE DEF h
<1>4. conn[h] = "queued"
  BY <1>3 DEF QueueInv
<1>5. \A i \in 1 .. Len(backlog') : backlog'[i] # h /\ backlog'[i] \in Clients
  <2> SUFFICES ASSUME NEW i \in 1 .. Len(backlog')
               PROVE  backlog'[i] # h /\ backlog'[i] \in Clients
    OBVIOUS
  <2>1. backlog'[i] = backlog[i + 1] /\ i + 1 \in 1 .. Len(backlog) /\ i + 1 # 1
    BY <1>3
  <2>2. backlog[i + 1] \in Clients
    BY <2>1 DEF TypeOK
  <2>3. backlog[i + 1] # backlog[1]
    BY <1>3, <2>1 DEF QueueInv
  <2> QED
    BY <1>3, <2>1, <2>2, <2>3
<1>6. QueueInv'
  <2>1. \A i \in 1 .. Len(backlog') : conn'[backlog'[i]] = "queued"
    <3> SUFFICES ASSUME NEW i \in 1 .. Len(backlog')
                 PROVE  conn'[backlog'[i]] = "queued"
      OBVIOUS
    <3>1. conn[backlog'[i]] = "queued"
      BY <1>3 DEF QueueInv
    <3>2. backlog'[i] # h /\ backlog'[i] \in Clients
      BY <1>5
    <3> QED
      BY <1>2, <3>1, <3>2 DEF TypeOK
  <2>2. \A i, j \in 1 .. Len(backlog') : backlog'[i] = backlog'[j] => i = j
    <3> SUFFICES ASSUME NEW i \in 1 .. Len(backlog'), NEW j \in 1 .. Len(backlog'),
                        backlog'[i] = backlog'[j]
                 PROVE  i = j
      OBVIOUS
    <3>1. i + 1 = j + 1
      BY <1>3 DEF QueueInv
    <3> QED
      BY <3>1
  <2> QED
    BY <2>1, <2>2 DEF QueueInv
<1>7. TurnInv'
  BY <1>1, <1>2, <1>3 DEF TypeOK, TurnInv, Idle
<1>8. WaitInv'
  BY <1>1, <1>2, <1>3 DEF TypeOK, WaitInv
<1>9. ServedInv'
  <2>1. consumed[h] = 0 /\ replies[h] = <<>> /\ answer = None
    BY <1>1, <1>3, <1>4 DEF WaitInv, TurnInv
  <2> QED
    BY <1>1, <1>2, <1>3, <2>1 DEF TypeOK, ServedInv, Idle
<1>10. AnswersInOrder'
  BY <1>1 DEF AnswersInOrder
<1> QED
  BY <1>6, <1>7, <1>8, <1>9, <1>10

\* An answer that dispatch has just returned fits the line it was given.
LEMMA DispatchFits ==
  ASSUME NEW line \in CommandLines, Dispatch(line, now), current \in LegalGeometries,
         caps \in LegalGeometries
  PROVE  answer' # None /\ Fits(line, answer')
<1>1. Want(line) \in LegalGeometries
  BY WantIsLegal
<1>2. CASE line.op = "resize" /\ Resize(line, now)
  <2>1. \E g \in LegalGeometries :
          answer' = Reply("resized", g) \/ answer' = Reply("limited", g)
    BY <1>1, <1>2 DEF Resize, ResizeNoop, ResizeLimited, ResizeApplied
  <2> QED
    BY <1>2, <2>1, ControlNoneAssumption DEF Fits, Reply, Replies, ReplyKinds
<1>3. CASE line.op = "geometry" /\ AnswerOnly(Reply("geometry", current))
  BY <1>3, ControlNoneAssumption DEF AnswerOnly, Fits, Reply, Replies, ReplyKinds
<1>4. CASE /\ line.op \in {"badargs", "unknown", "empty"}
           /\ AnswerOnly(Reply(line.op, None))
  BY <1>4, ControlNoneAssumption DEF AnswerOnly, Fits, Reply, Replies, ReplyKinds
<1> QED
  BY <1>2, <1>3, <1>4 DEF Dispatch

LEMMA OrderReadLine ==
  ASSUME TypeOK, OrderInv, NEW c \in Clients, ReadLine(c)
  PROVE  OrderInv'
<1> USE DEF OrderInv
<1> DEFINE line == sent[c][consumed[c] + 1]
<1>1. /\ conn[c] = "served" /\ answer = None
      /\ consumed[c] < Len(sent[c])
      /\ consumed' = [consumed EXCEPT ![c] = consumed[c] + 1]
      /\ UNCHANGED <<backlog, sent, replies>>
  BY DEF ReadLine, clientVars
<1>2. /\ consumed[c] \in Nat /\ Len(sent[c]) \in Nat /\ sent[c] \in Seq(Commands)
      /\ consumed[c] + 1 \in 1 .. Len(sent[c])
  BY <1>1 DEF TypeOK
<1>3. line \in CommandLines
  BY <1>2, CommandsAssumption
<1>4. consumed[c] = Len(replies[c])
  BY <1>1 DEF ServedInv
<1>5. \/ answer' = None /\ conn' = [conn EXCEPT ![c] = "closed"]
      \/ answer' # None /\ Fits(line, answer') /\ conn' = conn
  <2>1. CASE /\ line.op = "garbage" /\ conn' = [conn EXCEPT ![c] = "closed"]
             /\ UNCHANGED controlVars
    BY <1>1, <2>1 DEF controlVars
  <2>2. CASE Dispatch(line, now) /\ UNCHANGED conn
    <3>1. answer' # None /\ Fits(line, answer')
      BY <1>3, <2>2, DispatchFits DEF TypeOK
    <3> QED
      BY <2>2, <3>1
  <2> QED
    BY <2>1, <2>2 DEF ReadLine
<1>6. \A i \in 1 .. Len(backlog) : backlog[i] # c /\ backlog[i] \in Clients
  BY <1>1 DEF TypeOK, QueueInv
<1>7. QueueInv'
  <2>1. \A i \in 1 .. Len(backlog) : conn'[backlog[i]] = "queued"
    BY <1>5, <1>6 DEF TypeOK, QueueInv
  <2> QED
    BY <1>1, <2>1 DEF QueueInv
<1>8. \A d \in Clients : conn[d] = "served" => d = c
  BY <1>1 DEF TurnInv
<1>9. TurnInv'
  BY <1>1, <1>5, <1>8 DEF TypeOK, TurnInv, Idle
<1>10. WaitInv'
  BY <1>1, <1>5 DEF TypeOK, WaitInv
<1>11. ServedInv'
  BY <1>1, <1>2, <1>4, <1>5, <1>8 DEF TypeOK, ServedInv
<1>12. AnswersInOrder'
  <2>1. \A d \in Clients : /\ Len(replies[d]) <= consumed'[d]
                           /\ consumed'[d] <= Len(replies[d]) + 1
    BY <1>1, <1>2, <1>4 DEF TypeOK, AnswersInOrder
  <2> QED
    BY <1>1, <2>1 DEF AnswersInOrder
<1> QED
  BY <1>7, <1>9, <1>10, <1>11, <1>12

\* A served connection that ends with no answer pending.
LEMMA OrderClose ==
  ASSUME TypeOK, OrderInv, NEW c \in Clients, conn[c] = "served", answer' = None,
         conn' = [conn EXCEPT ![c] = "closed"],
         UNCHANGED <<backlog, sent, consumed, replies>>
  PROVE  OrderInv'
<1> USE DEF OrderInv
<1>1. \A i \in 1 .. Len(backlog) : backlog[i] # c /\ backlog[i] \in Clients
  BY DEF TypeOK, QueueInv
<1>2. QueueInv'
  <2>1. \A i \in 1 .. Len(backlog) : conn'[backlog[i]] = "queued"
    BY <1>1 DEF TypeOK, QueueInv
  <2> QED
    BY <2>1 DEF QueueInv
<1>3. \A d \in Clients : conn'[d] # "served"
  BY DEF TypeOK, TurnInv
<1>4. TurnInv' /\ ServedInv'
  BY <1>3 DEF TurnInv, ServedInv
<1>5. WaitInv'
  BY DEF TypeOK, WaitInv
<1>6. AnswersInOrder'
  BY DEF AnswersInOrder
<1> QED
  BY <1>2, <1>4, <1>5, <1>6

LEMMA OrderWriteReply ==
  ASSUME TypeOK, OrderInv, NEW c \in Clients, WriteReply(c)
  PROVE  OrderInv'
<1> USE DEF OrderInv
<1>1. /\ conn[c] = "served" /\ answer # None /\ answer' = None
      /\ UNCHANGED <<backlog, sent, consumed>>
  BY DEF WriteReply, clientVars
<1>2. CASE intent[c] = "gone"
  <2>1. conn' = [conn EXCEPT ![c] = "closed"] /\ UNCHANGED replies
    BY <1>2 DEF WriteReply
  <2> QED
    BY <1>1, <2>1, OrderClose
<1>3. CASE intent[c] # "gone"
  <2>1. replies' = [replies EXCEPT ![c] = Append(replies[c], answer)] /\ conn' = conn
    BY <1>3 DEF WriteReply
  <2>2. /\ consumed[c] = Len(replies[c]) + 1
        /\ Fits(sent[c][consumed[c]], answer)
    BY <1>1 DEF ServedInv
  <2>3. replies[c] \in Seq(Replies) /\ answer \in Replies /\ Len(replies[c]) \in Nat
    BY <1>1 DEF TypeOK
  <2>4. /\ Len(replies'[c]) = Len(replies[c]) + 1
        /\ \A i \in 1 .. Len(replies[c]) : replies'[c][i] = replies[c][i]
        /\ replies'[c][Len(replies[c]) + 1] = answer
        /\ \A d \in Clients \ {c} : replies'[d] = replies[d]
    BY <2>1, <2>3 DEF TypeOK
  <2>5. QueueInv' /\ TurnInv'
    BY <1>1, <2>1 DEF QueueInv, TurnInv
  <2>6. WaitInv'
    BY <1>1, <2>1, <2>4 DEF WaitInv
  <2>7. \A d \in Clients : conn[d] = "served" => d = c
    BY <1>1 DEF TurnInv
  <2>8. ServedInv'
    BY <1>1, <2>1, <2>2, <2>4, <2>7 DEF ServedInv
  <2>9. AnswersInOrder'
    <3> SUFFICES ASSUME NEW d \in Clients
                 PROVE  /\ Len(replies'[d]) <= consumed[d]
                        /\ consumed[d] <= Len(replies'[d]) + 1
                        /\ \A i \in 1 .. Len(replies'[d]) :
                             Fits(sent[d][i], replies'[d][i])
      BY <1>1 DEF AnswersInOrder
    <3>1. CASE d = c
      <4>1. \A i \in 1 .. Len(replies[c]) : Fits(sent[c][i], replies[c][i])
        BY DEF AnswersInOrder
      <4>2. \A i \in 1 .. Len(replies'[c]) :
              i \in 1 .. Len(replies[c]) \/ i = Len(replies[c]) + 1
        BY <2>3, <2>4
      <4>3. \A i \in 1 .. Len(replies'[c]) : Fits(sent[c][i], replies'[c][i])
        BY <2>2, <2>4, <4>1, <4>2
      <4> QED
        BY <2>2, <2>3, <2>4, <3>1, <4>3
    <3>2. CASE d # c
      BY <2>4, <3>2 DEF AnswersInOrder
    <3> QED
      BY <3>1, <3>2
  <2> QED
    BY <2>5, <2>6, <2>8, <2>9
<1> QED
  BY <1>2, <1>3

LEMMA OrderStep == TypeOK /\ OrderInv /\ [Next]_vars => OrderInv'
<1> SUFFICES ASSUME TypeOK, OrderInv, [Next]_vars PROVE OrderInv'
  OBVIOUS
<1>1. ASSUME NEW c \in Clients, Dial(c) PROVE OrderInv'
  BY <1>1, OrderDial
<1>2. ASSUME NEW c \in Clients, NEW line \in Commands, Send(c, line) PROVE OrderInv'
  BY <1>2, OrderSend
<1>3. ASSUME UNCHANGED <<conn, backlog, answer, sent, consumed, replies>>
      PROVE  OrderInv'
  BY <1>3 DEF OrderInv, QueueInv, TurnInv, WaitInv, ServedInv, AnswersInOrder, Idle
<1>4. ASSUME NEW c \in Clients, NEW how \in {"shut", "gone"}, Leave(c, how)
      PROVE  OrderInv'
  BY <1>3, <1>4 DEF Leave, controlVars, serverVars
<1>5. CASE Accept
  BY <1>5, OrderAccept
<1>6. ASSUME NEW c \in Clients, ReadLine(c) PROVE OrderInv'
  BY <1>6, OrderReadLine
<1>7. ASSUME NEW c \in Clients, WriteReply(c) PROVE OrderInv'
  BY <1>7, OrderWriteReply
<1>8. ASSUME NEW c \in Clients, ReadEnd(c) PROVE OrderInv'
  <2>1. /\ conn[c] = "served" /\ answer' = None
        /\ conn' = [conn EXCEPT ![c] = "closed"]
        /\ UNCHANGED <<backlog, sent, consumed, replies>>
    BY <1>8 DEF ReadEnd, controlVars, clientVars
  <2> QED
    BY <2>1, OrderClose
<1>9. CASE Tick
  BY <1>3, <1>9 DEF Tick, controlVars, clientVars, serverVars
<1>10. CASE UNCHANGED vars
  BY <1>3, <1>10 DEF vars, controlVars, clientVars, serverVars
<1> QED
  BY <1>1, <1>2, <1>4, <1>5, <1>6, <1>7, <1>8, <1>9, <1>10 DEF Next, ServerStep

\* One command, one reply line (control.rs:125): every reply a client has read
\* answers its own line, in order, with no line skipped or answered twice,
\* however many clients there are, whatever they send, whenever they vanish.
THEOREM AnswersCorrect == SafetySpec => []AnswersInOrder
<1>1. OrderInv => AnswersInOrder
  BY DEF OrderInv
<1> QED
  BY <1>1, ControlTypes, OrderInit, OrderStep, PTL DEF SafetySpec

-----------------------------------------------------------------------------
(***************************************************************************)
(* What the served client was told last is what is on the capsfilter.  It  *)
(* is told as soon as dispatch has returned, written or not, and nobody    *)
(* else's line can be dispatched while it is served.                       *)
(***************************************************************************)
\* What dispatch answers names the caps, or names nothing and leaves them.
LEMMA DispatchShows ==
  ASSUME ControlInv, NEW line \in CommandLines, Dispatch(line, now)
  PROVE  /\ answer' \in Replies
         /\ answer'.shown = caps' \/ (answer'.shown = None /\ caps' = caps)
<1> USE DEF ControlInv, Agreement, TypeOK
<1>1. ASSUME NEW kind \in ReplyKinds, NEW shown \in LegalGeometries \cup {None}
      PROVE  Reply(kind, shown) \in Replies /\ Reply(kind, shown).shown = shown
  BY <1>1 DEF Reply, Replies
<1>2. CASE ResizeNoop(line, now)
  BY <1>1, <1>2 DEF ResizeNoop, ReplyKinds
<1>3. CASE ResizeLimited(line, now)
  BY <1>1, <1>3 DEF ResizeLimited, ReplyKinds
<1>4. CASE ResizeApplied(line, now)
  <2>1. Want(line) \in LegalGeometries
    BY WantIsLegal
  <2>2. answer' = Reply("resized", Want(line)) /\ caps' = Want(line)
    BY <1>4 DEF ResizeApplied
  <2> QED
    BY <1>1, <2>1, <2>2 DEF ReplyKinds
<1>5. CASE line.op = "geometry" /\ AnswerOnly(Reply("geometry", current))
  BY <1>1, <1>5 DEF AnswerOnly, ReplyKinds
<1>6. CASE line.op \in {"badargs", "unknown", "empty"}
           /\ AnswerOnly(Reply(line.op, None))
  BY <1>1, <1>6 DEF AnswerOnly, ReplyKinds
<1> QED
  BY <1>2, <1>3, <1>4, <1>5, <1>6 DEF Dispatch, Resize

ToldInv == ControlInv /\ OrderInv /\ ReplyIsApplied

LEMMA ToldReadLine ==
  ASSUME ToldInv, NEW c \in Clients, ReadLine(c)
  PROVE  ReplyIsApplied'
<1> DEFINE line == sent[c][consumed[c] + 1]
<1>1. /\ conn[c] = "served" /\ answer = None /\ replies' = replies
      /\ \/ conn' = [conn EXCEPT ![c] = "closed"]
         \/ Dispatch(line, now) /\ conn' = conn
  BY DEF ReadLine
<1>2. /\ TypeOK /\ replies[c] \in Seq(Replies)
      /\ consumed[c] + 1 \in 1 .. Len(sent[c]) /\ sent[c] \in Seq(Commands)
      /\ \A d \in Clients : conn[d] = "served" => d = c
  BY <1>1 DEF ToldInv, ControlInv, TypeOK, OrderInv, TurnInv, ReadLine
<1>3. line \in CommandLines
  BY <1>2, CommandsAssumption
<1> HIDE DEF line
<1>4. CASE conn' = [conn EXCEPT ![c] = "closed"]
  <2>1. \A d \in Clients : conn'[d] # "served"
    BY <1>2, <1>4 DEF TypeOK
  <2> QED
    BY <2>1 DEF ReplyIsApplied
<1>5. CASE Dispatch(line, now) /\ conn' = conn
  <2>1. /\ answer' \in Replies /\ answer' # None
        /\ answer'.shown = caps' \/ (answer'.shown = None /\ caps' = caps)
    BY <1>3, <1>5, DispatchShows, ControlNoneAssumption DEF ToldInv
  <2>2. Told(c) = replies[c] /\ Told(c)' = Append(replies[c], answer')
    BY <1>1, <2>1 DEF Told
  <2>3. /\ Len(Told(c)') = Len(replies[c]) + 1 /\ Len(replies[c]) \in Nat
        /\ Told(c)'[Len(replies[c]) + 1] = answer'
        /\ \A n \in 1 .. Len(replies[c]) : Told(c)'[n] = replies[c][n]
    BY <1>2, <2>1, <2>2
  <2> SUFFICES ASSUME NEW n \in 1 .. Len(replies[c]) + 1,
                      Told(c)'[n].shown # None,
                      \A later \in n + 1 .. Len(replies[c]) + 1 :
                        Told(c)'[later].shown = None
               PROVE  Told(c)'[n].shown = caps'
    BY <1>2, <1>5, <2>3 DEF ReplyIsApplied
  <2>4. CASE n = Len(replies[c]) + 1
    BY <2>1, <2>3, <2>4
  <2>5. CASE n # Len(replies[c]) + 1
    <3>1. n \in 1 .. Len(replies[c]) /\ Len(replies[c]) + 1 \in n + 1 .. Len(replies[c]) + 1
      BY <2>3, <2>5
    <3>2. answer'.shown = None
      BY <2>3, <3>1
    <3>3. caps' = caps
      <4>1. caps' \in LegalGeometries
        BY ReadLineStep DEF ToldInv, ControlInv, TypeOK
      <4> QED
        BY <2>1, <3>2, <4>1, ControlNoneAssumption
    <3>4. replies[c][n].shown # None
          /\ \A later \in n + 1 .. Len(replies[c]) : replies[c][later].shown = None
      BY <2>3, <3>1
    <3> QED
      BY <1>1, <2>2, <2>3, <3>1, <3>3, <3>4 DEF ToldInv, ReplyIsApplied
  <2> QED
    BY <2>4, <2>5
<1> QED
  BY <1>1, <1>4, <1>5

LEMMA ToldWriteReply ==
  ASSUME ToldInv, NEW c \in Clients, WriteReply(c)
  PROVE  ReplyIsApplied'
<1>1. /\ conn[c] = "served" /\ answer # None /\ answer' = None /\ caps' = caps
      /\ \/ conn' = [conn EXCEPT ![c] = "closed"]
         \/ replies' = [replies EXCEPT ![c] = Append(replies[c], answer)] /\ conn' = conn
  BY DEF WriteReply
<1>2. TypeOK /\ \A d \in Clients : conn[d] = "served" => d = c
  BY <1>1 DEF ToldInv, ControlInv, OrderInv, TurnInv
<1>3. CASE conn' = [conn EXCEPT ![c] = "closed"]
  <2>1. \A d \in Clients : conn'[d] # "served"
    BY <1>2, <1>3 DEF TypeOK
  <2> QED
    BY <2>1 DEF ReplyIsApplied
<1>4. CASE replies' = [replies EXCEPT ![c] = Append(replies[c], answer)] /\ conn' = conn
  <2>1. Told(c)' = Told(c)
    BY <1>1, <1>2, <1>4 DEF TypeOK, Told
  <2> QED
    BY <1>1, <1>2, <1>4, <2>1 DEF ToldInv, ReplyIsApplied
<1> QED
  BY <1>1, <1>3, <1>4

LEMMA ToldElsewhere ==
  ASSUME ToldInv, UNCHANGED <<caps, answer, replies>>,
         \A c \in Clients : conn'[c] = "served" => conn[c] = "served" \/ Told(c) = <<>>
  PROVE  ReplyIsApplied'
<1>1. \A c \in Clients : Told(c)' = Told(c)
  BY DEF Told
<1> QED
  BY <1>1 DEF ToldInv, ReplyIsApplied

LEMMA ToldStep == ToldInv /\ [Next]_vars => ToldInv'
<1> SUFFICES ASSUME ToldInv, [Next]_vars PROVE ReplyIsApplied'
  BY ControlStep_Inv, OrderStep DEF ToldInv, ControlInv
<1>1. TypeOK
  BY DEF ToldInv, ControlInv
<1>2. ASSUME NEW c \in Clients, ReadLine(c) PROVE ReplyIsApplied'
  BY <1>2, ToldReadLine
<1>3. ASSUME NEW c \in Clients, WriteReply(c) PROVE ReplyIsApplied'
  BY <1>3, ToldWriteReply
<1>4. ASSUME NEW c \in Clients, Dial(c) \/ ReadEnd(c) PROVE ReplyIsApplied'
  <2>1. UNCHANGED <<caps, answer, replies>>
        /\ \A d \in Clients : conn'[d] = "served" => conn[d] = "served"
    BY <1>1, <1>4 DEF Dial, ReadEnd, TypeOK
  <2> QED
    BY <2>1, ToldElsewhere
<1>5. CASE Accept
  <2>1. PICK outcome \in {"served", "closed"} :
          conn' = [conn EXCEPT ![Head(backlog)] = outcome]
    BY <1>5 DEF Accept
  <2>2. UNCHANGED <<caps, answer, replies>> /\ Idle /\ backlog # <<>>
    BY <1>5 DEF Accept
  <2>3. Head(backlog) \in Clients /\ Head(backlog) = backlog[1] /\ 1 \in 1 .. Len(backlog)
    BY <1>1, <2>2 DEF TypeOK
  <2>4. answer = None /\ replies[Head(backlog)] = <<>>
    BY <2>2, <2>3 DEF ToldInv, OrderInv, TurnInv, QueueInv, WaitInv
  <2>5. \A d \in Clients : conn'[d] = "served" => conn[d] = "served" \/ Told(d) = <<>>
    BY <1>1, <2>1, <2>3, <2>4 DEF TypeOK, Told
  <2> QED
    BY <2>2, <2>5, ToldElsewhere
<1>6. ASSUME UNCHANGED <<caps, answer, replies, conn>> PROVE ReplyIsApplied'
  BY <1>6, ToldElsewhere
<1>7. CASE UNCHANGED vars \/ Tick
  BY <1>6, <1>7 DEF vars, Tick
<1>8. ASSUME NEW c \in Clients, NEW line \in Commands, Send(c, line) PROVE ReplyIsApplied'
  BY <1>6, <1>8 DEF Send
<1>9. ASSUME NEW c \in Clients, NEW how \in {"shut", "gone"}, Leave(c, how)
      PROVE  ReplyIsApplied'
  BY <1>6, <1>9 DEF Leave
<1> QED
  BY <1>2, <1>3, <1>4, <1>5, <1>7, <1>8, <1>9 DEF Next, ServerStep

(***************************************************************************)
(* A reply names the geometry actually applied (control.rs:53): however    *)
(* many clients wait, what the one being served was last told is on the    *)
(* capsfilter.                                                             *)
(***************************************************************************)
THEOREM AppliedCorrect == SafetySpec => []ReplyIsApplied
<1>1. Init => ToldInv
  BY ControlInit_Inv, OrderInit DEF ToldInv, Init, ReplyIsApplied
<1>2. ToldInv => ReplyIsApplied
  BY DEF ToldInv
<1> QED
  BY <1>1, <1>2, ToldStep, PTL DEF SafetySpec

-----------------------------------------------------------------------------
(***************************************************************************)
(* Connections closed under a client that still listens.  Once closed, a   *)
(* connection's lines, replies and reader's intent are what they were.     *)
(***************************************************************************)
DroppedInv == ControlInv /\ OrderInv /\ DroppedForGarbage

\* A step that closes nothing but what it names leaves what was closed alone.
LEMMA DroppedElsewhere ==
  ASSUME DroppedInv,
         \A d \in Clients :
           \/ /\ conn[d] = "closed"
              /\ UNCHANGED <<intent[d], sent[d], consumed[d], replies[d]>>
           \/ conn'[d] = "closed" => intent'[d] # "open" \/ consumed'[d] = 0
  PROVE  DroppedForGarbage'
<1> SUFFICES ASSUME NEW d \in Clients, conn'[d] = "closed", intent'[d] = "open",
                    consumed'[d] > 0
             PROVE  /\ sent'[d][consumed'[d]].op = "garbage"
                    /\ Len(replies'[d]) = consumed'[d] - 1
  BY DEF DroppedForGarbage
<1>1. conn[d] = "closed" /\ UNCHANGED <<intent[d], sent[d], consumed[d], replies[d]>>
  OBVIOUS
<1> QED
  BY <1>1 DEF DroppedInv, DroppedForGarbage

\* Only a line that is not text closes the connection on the spot.
LEMMA DroppedReadLine ==
  ASSUME DroppedInv, NEW c \in Clients, ReadLine(c)
  PROVE  DroppedForGarbage'
<1>1. /\ conn[c] = "served" /\ answer = None
      /\ consumed' = [consumed EXCEPT ![c] = consumed[c] + 1]
      /\ UNCHANGED <<intent, sent, replies>>
  BY DEF ReadLine
<1>2. \/ /\ sent[c][consumed[c] + 1].op = "garbage"
         /\ conn' = [conn EXCEPT ![c] = "closed"]
      \/ conn' = conn
  BY DEF ReadLine
<1>3. /\ conn \in [Clients -> {"none", "queued", "served", "closed"}]
      /\ consumed \in [Clients -> Nat]
      /\ consumed[c] = Len(replies[c])
  BY <1>1 DEF DroppedInv, ControlInv, TypeOK, OrderInv, ServedInv
<1> SUFFICES ASSUME NEW d \in Clients, conn'[d] = "closed", intent'[d] = "open",
                    consumed'[d] > 0
             PROVE  /\ sent'[d][consumed'[d]].op = "garbage"
                    /\ Len(replies'[d]) = consumed'[d] - 1
  BY DEF DroppedForGarbage
<1>4. CASE d = c
  <2>1. consumed'[d] = consumed[c] + 1 /\ conn' # conn
    BY <1>1, <1>3, <1>4
  <2>2. sent[c][consumed[c] + 1].op = "garbage"
    BY <1>2, <2>1
  <2> QED
    BY <1>1, <1>3, <1>4, <2>1, <2>2
<1>5. CASE d # c
  <2>1. conn[d] = "closed" /\ consumed'[d] = consumed[d]
    BY <1>1, <1>2, <1>3, <1>5
  <2> QED
    BY <1>1, <2>1 DEF DroppedInv, DroppedForGarbage
<1> QED
  BY <1>4, <1>5

LEMMA DroppedStep == DroppedInv /\ [Next]_vars => DroppedInv'
<1> SUFFICES ASSUME DroppedInv, [Next]_vars PROVE DroppedForGarbage'
  BY ControlStep_Inv, OrderStep DEF DroppedInv, ControlInv
<1> USE DEF TypeOK
<1>1. TypeOK
  BY DEF DroppedInv, ControlInv
<1>2. ASSUME NEW c \in Clients, ReadLine(c) PROVE DroppedForGarbage'
  BY <1>2, DroppedReadLine
<1>3. ASSUME NEW c \in Clients, WriteReply(c) PROVE DroppedForGarbage'
  <2>1. conn[c] = "served" /\ UNCHANGED <<intent, sent, consumed>>
        /\ \A d \in Clients \ {c} : conn'[d] = conn[d] /\ replies'[d] = replies[d]
    BY <1>1, <1>3 DEF WriteReply
  <2>2. conn'[c] = "closed" => intent[c] = "gone"
    BY <1>1, <1>3 DEF WriteReply
  <2> QED
    BY <2>1, <2>2, DroppedElsewhere
<1>4. ASSUME NEW c \in Clients, ReadEnd(c) PROVE DroppedForGarbage'
  <2>1. intent[c] # "open" /\ UNCHANGED <<intent, sent, consumed, replies>>
        /\ \A d \in Clients \ {c} : conn'[d] = conn[d]
    BY <1>1, <1>4 DEF ReadEnd, Ended
  <2> QED
    BY <2>1, DroppedElsewhere
<1>5. ASSUME NEW c \in Clients, Dial(c) PROVE DroppedForGarbage'
  <2>1. conn'[c] = "queued" /\ UNCHANGED <<intent, sent, consumed, replies>>
        /\ \A d \in Clients \ {c} : conn'[d] = conn[d]
    BY <1>1, <1>5 DEF Dial
  <2> QED
    BY <2>1, DroppedElsewhere
<1>6. ASSUME NEW c \in Clients, NEW line \in Commands, Send(c, line)
      PROVE  DroppedForGarbage'
  <2>1. conn[c] # "closed" /\ UNCHANGED <<conn, intent, consumed, replies>>
        /\ \A d \in Clients \ {c} : sent'[d] = sent[d]
    BY <1>1, <1>6 DEF Send, Connected
  <2> QED
    BY <2>1, DroppedElsewhere
<1>7. ASSUME NEW c \in Clients, NEW how \in {"shut", "gone"}, Leave(c, how)
      PROVE  DroppedForGarbage'
  <2>1. conn[c] # "closed" /\ UNCHANGED <<conn, sent, consumed, replies>>
        /\ \A d \in Clients \ {c} : intent'[d] = intent[d]
    BY <1>1, <1>7 DEF Leave, Connected
  <2> QED
    BY <2>1, DroppedElsewhere
<1>8. CASE Accept
  <2>1. PICK outcome \in {"served", "closed"} :
          conn' = [conn EXCEPT ![Head(backlog)] = outcome]
    BY <1>8 DEF Accept
  <2>2. backlog # <<>> /\ UNCHANGED <<intent, sent, consumed, replies>>
    BY <1>8 DEF Accept
  <2>3. Head(backlog) \in Clients /\ Head(backlog) = backlog[1] /\ 1 \in 1 .. Len(backlog)
    BY <1>1, <2>2
  <2>4. consumed[Head(backlog)] = 0
    BY <2>3 DEF DroppedInv, OrderInv, QueueInv, WaitInv
  <2>5. \A d \in Clients \ {Head(backlog)} : conn'[d] = conn[d]
    BY <1>1, <2>1
  <2> QED
    BY <2>2, <2>4, <2>5, DroppedElsewhere
<1>9. CASE Tick \/ UNCHANGED vars
  <2>1. UNCHANGED <<conn, intent, sent, consumed, replies>>
    BY <1>9 DEF Tick, vars
  <2> QED
    BY <2>1, DroppedElsewhere
<1> QED
  BY <1>2, <1>3, <1>4, <1>5, <1>6, <1>7, <1>8, <1>9 DEF Next, ServerStep

(***************************************************************************)
(* "Errors on a single connection [...] do not take the listener down"     *)
(* (control.rs:97): a client that listens loses its connection only to a   *)
(* failed accept or to a line that is not text, and then every line read   *)
(* before it has had its reply.                                            *)
(***************************************************************************)
THEOREM DroppedCorrect == SafetySpec => []DroppedForGarbage
<1>1. Init => DroppedInv
  BY ControlInit_Inv, OrderInit DEF DroppedInv, Init, DroppedForGarbage
<1>2. DroppedInv => DroppedForGarbage
  BY DEF DroppedInv
<1> QED
  BY <1>1, <1>2, DroppedStep, PTL DEF SafetySpec

(***************************************************************************)
(* Lines that are not text are all that stands between the code and what   *)
(* control.rs:97 says: where every client sends text, each one that still  *)
(* listens has a reply to every line the server took from it.              *)
(***************************************************************************)
THEOREM ReportedIfText ==
  ASSUME \A line \in Commands : line.op # "garbage"
  PROVE  SafetySpec => []ErrorsAreReported
<1>1. Init => DroppedInv
  BY ControlInit_Inv, OrderInit DEF DroppedInv, Init, DroppedForGarbage
<1>2. DroppedInv => ErrorsAreReported
  <2> SUFFICES ASSUME DroppedInv, NEW c \in Clients,
                      conn[c] = "closed", intent[c] = "open"
               PROVE  Len(replies[c]) = consumed[c]
    BY DEF ErrorsAreReported
  <2>1. /\ consumed[c] \in Nat /\ Len(replies[c]) \in Nat
        /\ Len(replies[c]) <= consumed[c]
        /\ sent[c] \in Seq(Commands) /\ consumed[c] <= Len(sent[c])
    BY DEF DroppedInv, ControlInv, TypeOK, OrderInv, AnswersInOrder
  <2>2. consumed[c] > 0 => sent[c][consumed[c]] \in Commands
    BY <2>1
  <2> QED
    BY <2>1, <2>2 DEF DroppedInv, DroppedForGarbage
<1> QED
  BY <1>1, <1>2, DroppedStep, PTL DEF SafetySpec

-----------------------------------------------------------------------------
(***************************************************************************)
(* Refusals.                                                               *)
(***************************************************************************)
Refusal ==
  \A c \in Clients :
    consumed'[c] # consumed[c] /\ answer' # None /\ answer'.kind = "limited"
      => /\ changedAt # None
         /\ now - changedAt < MinInterval
         /\ Want(sent[c][consumed'[c]]) # caps
         /\ caps' = caps

\* Of the replies dispatch has to give, only the rate limit's says "limited".
LEMMA LimitedDispatch ==
  ASSUME NEW line, Dispatch(line, now), answer'.kind = "limited"
  PROVE  ResizeLimited(line, now)
BY DEF Dispatch, Resize, ResizeNoop, ResizeApplied, AnswerOnly, Reply

LEMMA RefusalReadLine ==
  ASSUME ControlInv, OrderInv, NEW c \in Clients, ReadLine(c)
  PROVE  Refusal
<1> DEFINE line == sent[c][consumed[c] + 1]
<1>1. consumed' = [consumed EXCEPT ![c] = consumed[c] + 1]
      /\ consumed \in [Clients -> Nat] /\ answer = None
  BY DEF ReadLine, ControlInv, TypeOK
<1>2. answer' = None \/ Dispatch(line, now)
  BY <1>1 DEF ReadLine
<1> HIDE DEF line
<1> SUFFICES ASSUME answer' # None, answer'.kind = "limited"
             PROVE  /\ changedAt # None
                    /\ now - changedAt < MinInterval
                    /\ Want(line) # caps
                    /\ caps' = caps
  BY <1>1 DEF Refusal, line
<1>3. ResizeLimited(line, now)
  BY <1>2, LimitedDispatch
<1> QED
  BY <1>3 DEF ResizeLimited, TooSoon, ControlInv, Agreement

LEMMA RefusalStep == ControlInv /\ OrderInv /\ [Next]_vars => [Refusal]_vars
<1> SUFFICES ASSUME ControlInv, OrderInv, Next PROVE Refusal
  OBVIOUS
<1>1. ASSUME UNCHANGED consumed PROVE Refusal
  BY <1>1 DEF Refusal
<1>2. ASSUME NEW c \in Clients, NEW line \in Commands, Send(c, line) PROVE Refusal
  BY <1>1, <1>2 DEF Send
<1>3. ASSUME NEW c \in Clients, NEW how \in {"shut", "gone"}, Leave(c, how) PROVE Refusal
  BY <1>1, <1>3 DEF Leave
<1>4. ASSUME NEW c \in Clients, Dial(c) \/ WriteReply(c) \/ ReadEnd(c) PROVE Refusal
  BY <1>1, <1>4 DEF Dial, WriteReply, ReadEnd
<1>5. CASE Accept \/ Tick
  BY <1>1, <1>5 DEF Accept, Tick
<1> QED
  BY <1>2, <1>3, <1>4, <1>5, RefusalReadLine DEF Next, ServerStep

(***************************************************************************)
(* A resize is refused only for one that changed the caps less than        *)
(* MinInterval ago, and never a retry of what they already hold            *)
(* (control.rs:69-75): the agreement of current with the caps, and of      *)
(* last_applied with their last change, is what it takes.                  *)
(***************************************************************************)
THEOREM RefusalCorrect == SafetySpec => RefusalJustified
<1>1. [](ControlInv /\ OrderInv) /\ [][Next]_vars => [][Refusal]_vars
  BY RefusalStep, PTL
<1>2. OrderInv /\ ControlInv /\ [Next]_vars => OrderInv'
  BY OrderStep DEF ControlInv
<1>3. SafetySpec => [][Refusal]_vars
  BY <1>1, <1>2, ControlInit_Inv, ControlStep_Inv, OrderInit, PTL DEF SafetySpec
<1> QED
  BY <1>3 DEF RefusalJustified, Refusal

-----------------------------------------------------------------------------
(***************************************************************************)
(* What a resize does, in terms of the capsfilter and not of what Control  *)
(* remembers: it is carried out, and answered with what was asked for, if  *)
(* that is what the caps hold already or nothing changed them for          *)
(* MinInterval; otherwise nothing happens and the answer says so.          *)
(***************************************************************************)
Decided ==
  \A c \in Clients :
    LET line == sent[c][consumed[c] + 1] IN
    ReadLine(c) /\ line.op = "resize" =>
      IF Want(line) = caps \/ changedAt = None \/ now - changedAt >= MinInterval
        THEN caps' = Want(line) /\ answer' = Reply("resized", Want(line))
        ELSE caps' = caps /\ answer' = Reply("limited", caps)

LEMMA DecidedStep == ControlInv /\ [Next]_vars => [Decided]_vars
<1> SUFFICES ASSUME ControlInv, NEW c \in Clients, ReadLine(c),
                    sent[c][consumed[c] + 1].op = "resize"
             PROVE  LET line == sent[c][consumed[c] + 1] IN
                    IF Want(line) = caps \/ changedAt = None \/ now - changedAt >= MinInterval
                      THEN caps' = Want(line) /\ answer' = Reply("resized", Want(line))
                      ELSE caps' = caps /\ answer' = Reply("limited", caps)
  BY DEF Decided
<1> DEFINE line == sent[c][consumed[c] + 1]
<1>1. Resize(line, now)
  BY DEF ReadLine, Dispatch
<1>2. caps = current /\ changedAt = lastApplied
  BY DEF ControlInv, Agreement
<1>3. (changedAt # None => changedAt \in Int) /\ now \in Int /\ MinInterval \in Int
  BY MinIntervalAssumption DEF ControlInv, TypeOK
<1>4. TooSoon(now) <=> ~(changedAt = None \/ now - changedAt >= MinInterval)
  BY <1>2, <1>3 DEF TooSoon
<1> HIDE DEF line
<1> SUFFICES IF Want(line) = caps \/ ~TooSoon(now)
               THEN caps' = Want(line) /\ answer' = Reply("resized", Want(line))
               ELSE caps' = caps /\ answer' = Reply("limited", caps)
  BY <1>4 DEF line
<1> QED
  BY <1>1, <1>2 DEF Resize, ResizeNoop, ResizeLimited, ResizeApplied

(***************************************************************************)
(* A client that waits for MinInterval and asks again is not refused, and  *)
(* is told its own geometry and nobody else's (control.rs:61-92).          *)
(***************************************************************************)
THEOREM ResizeDecided == SafetySpec => [][Decided]_vars
BY DecidedStep, ControlInit_Inv, ControlStep_Inv, PTL DEF SafetySpec
=============================================================================
