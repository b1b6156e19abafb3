---------------------------- MODULE ControlServer ----------------------------
(***************************************************************************)
(* control.rs, serve and handle: one thread accepts connections in turn    *)
(* and serves each to its end, a line at a time, while clients dial, send, *)
(* half-close and vanish when they like.                                   *)
(***************************************************************************)
EXTENDS Control, Sequences

CONSTANTS
  Clients,
  Commands,  \* the command lines the clients of an instance choose from
  MaxLines,  \* bound: lines one client sends
  MaxTime    \* bound: the clock stops here

ASSUME CommandsAssumption == Commands \subseteq CommandLines
ASSUME ServerBoundsAssumption == MaxLines \in Nat /\ MaxTime \in Nat

VARIABLES
  now,
  conn,      \* per client: "none", "queued", "served" or "closed" by the server
  backlog,   \* connections not accepted yet, oldest first
  intent,    \* per client: "open", "shut" for writing, or "gone"
  sent,      \* per client: the lines it has written
  consumed,  \* per client: how many of them have been read
  replies,   \* per client: the replies it has been sent
  changedAt  \* history: when the caps last changed, or None

clientVars == <<intent, sent>>
serverVars == <<conn, backlog, consumed, replies>>
vars == <<controlVars, clientVars, serverVars, now, changedAt>>

Init ==
  /\ ControlInit
  /\ now = 0
  /\ conn = [c \in Clients |-> "none"]
  /\ backlog = <<>>
  /\ intent = [c \in Clients |-> "open"]
  /\ sent = [c \in Clients |-> <<>>]
  /\ consumed = [c \in Clients |-> 0]
  /\ replies = [c \in Clients |-> <<>>]
  /\ changedAt = None

Tick ==
  /\ now < MaxTime
  /\ now' = now + 1
  /\ UNCHANGED <<controlVars, clientVars, serverVars, changedAt>>

-----------------------------------------------------------------------------
(***************************************************************************)
(* Clients.  The kernel completes a connection and buffers what is sent on *)
(* it before the server accepts it, and keeps the buffer when the client   *)
(* goes away.                                                              *)
(***************************************************************************)
Dial(c) ==
  /\ conn[c] = "none"
  /\ conn' = [conn EXCEPT ![c] = "queued"]
  /\ backlog' = Append(backlog, c)
  /\ UNCHANGED <<controlVars, clientVars, consumed, replies, now, changedAt>>

Connected(c) == conn[c] \in {"queued", "served"}

\* The last line need not be terminated: the reader delivers it at the end.
Send(c, line) ==
  /\ Connected(c)
  /\ intent[c] = "open"
  /\ Len(sent[c]) < MaxLines
  /\ sent' = [sent EXCEPT ![c] = Append(@, line)]
  /\ UNCHANGED <<controlVars, intent, serverVars, now, changedAt>>

\* Writing is over; "gone" means nobody reads the replies either.
Leave(c, how) ==
  /\ Connected(c)
  /\ intent[c] = "open" \/ (intent[c] = "shut" /\ how = "gone")
  /\ intent' = [intent EXCEPT ![c] = how]
  /\ UNCHANGED <<controlVars, sent, serverVars, now, changedAt>>

(***************************************************************************)
(* Mutated forms of the server's steps.                                    *)
(***************************************************************************)
WriteSuccessOnly(c) ==
  /\ conn[c] = "served"
  /\ answer # None
  /\ answer' = None
  /\ IF intent[c] = "gone"
       THEN conn' = [conn EXCEPT ![c] = "closed"] /\ UNCHANGED replies
       ELSE /\ replies' = IF answer.kind \in {"resized", "geometry"}
                            THEN [replies EXCEPT ![c] = Append(@, answer)]
                            ELSE replies
            /\ UNCHANGED conn
  /\ UNCHANGED <<caps, current, lastApplied, clientVars, backlog, consumed>>
  /\ UNCHANGED <<now, changedAt>>

\* A command that is rejected costs the connection.
DropsOnRejection(c) ==
  /\ conn[c] = "served"
  /\ answer # None
  /\ answer' = None
  /\ replies' = [replies EXCEPT ![c] = Append(@, answer)]
  /\ conn' = [conn EXCEPT ![c] =
       IF intent[c] = "gone" \/ answer.kind \in {"badargs", "unknown"}
         THEN "closed" ELSE @]
  /\ UNCHANGED <<caps, current, lastApplied, clientVars, backlog, consumed>>
  /\ UNCHANGED <<now, changedAt>>

OnlyShutEnds(c) == intent[c] = "shut"

-----------------------------------------------------------------------------
(***************************************************************************)
(* The server thread.                                                      *)
(***************************************************************************)
Idle == \A c \in Clients : conn[c] # "served"

\* listener.incoming(), then try_clone, whose failure drops the connection.
Accept ==
  /\ Idle
  /\ backlog # <<>>
  /\ backlog' = Tail(backlog)
  /\ \E outcome \in {"served", "closed"} :
       conn' = [conn EXCEPT ![Head(backlog)] = outcome]
  /\ UNCHANGED <<controlVars, clientVars, consumed, replies, now, changedAt>>

\* A line is read and dispatched; one that is not UTF-8 ends the connection.
ReadLine(c) ==
  /\ conn[c] = "served"
  /\ answer = None
  /\ consumed[c] < Len(sent[c])
  /\ consumed' = [consumed EXCEPT ![c] = @ + 1]
  /\ LET line == sent[c][consumed[c] + 1] IN
       \/ line.op = "garbage" /\ conn' = [conn EXCEPT ![c] = "closed"]
                              /\ UNCHANGED controlVars
       \/ Dispatch(line, now) /\ UNCHANGED conn
  /\ changedAt' = IF caps' # caps THEN now ELSE changedAt
  /\ UNCHANGED <<clientVars, backlog, replies, now>>

\* The reply is written; if its reader is gone, the connection is dropped.
WriteReply(c) ==
  /\ conn[c] = "served"
  /\ answer # None
  /\ answer' = None
  /\ IF intent[c] = "gone"
       THEN conn' = [conn EXCEPT ![c] = "closed"] /\ UNCHANGED replies
       ELSE replies' = [replies EXCEPT ![c] = Append(@, answer)] /\ UNCHANGED conn
  /\ UNCHANGED <<caps, current, lastApplied, clientVars, backlog, consumed>>
  /\ UNCHANGED <<now, changedAt>>

Ended(c) == intent[c] # "open"

\* The end of the stream: handle returns and the connection is closed.
ReadEnd(c) ==
  /\ conn[c] = "served"
  /\ answer = None
  /\ consumed[c] = Len(sent[c])
  /\ Ended(c)
  /\ conn' = [conn EXCEPT ![c] = "closed"]
  /\ UNCHANGED <<controlVars, clientVars, backlog, consumed, replies>>
  /\ UNCHANGED <<now, changedAt>>

ServerStep ==
  \/ Accept
  \/ \E c \in Clients : ReadLine(c) \/ WriteReply(c) \/ ReadEnd(c)

Next ==
  \/ \E c \in Clients : \/ Dial(c)
                        \/ \E line \in Commands : Send(c, line)
                        \/ \E how \in {"shut", "gone"} : Leave(c, how)
  \/ ServerStep
  \/ Tick

SafetySpec == Init /\ [][Next]_vars

(***************************************************************************)
(* Fairness: the server thread runs.  That every client ends its stream at *)
(* some point is the clients' obligation, not the server's: serve has no   *)
(* timeout and no second thread.                                           *)
(***************************************************************************)
Fairness ==
  /\ WF_vars(ServerStep)
  /\ \A c \in Clients : WF_vars(Leave(c, "shut") \/ Leave(c, "gone"))

Spec == SafetySpec /\ Fairness

-----------------------------------------------------------------------------
(***************************************************************************)
(* Properties.                                                             *)
(***************************************************************************)
TypeOK ==
  /\ caps \in LegalGeometries
  /\ current \in LegalGeometries
  /\ lastApplied \in 0 .. MaxTime \cup {None}
  /\ answer \in Replies \cup {None}
  /\ now \in 0 .. MaxTime
  /\ conn \in [Clients -> {"none", "queued", "served", "closed"}]
  /\ intent \in [Clients -> {"open", "shut", "gone"}]
  /\ backlog \in Seq(Clients)
  /\ sent \in [Clients -> Seq(Commands)]
  /\ consumed \in [Clients -> Nat]
  /\ replies \in [Clients -> Seq(Replies)]
  /\ changedAt \in 0 .. MaxTime \cup {None}
  /\ \A c \in Clients : consumed[c] <= Len(sent[c]) /\ Len(sent[c]) <= MaxLines

\* The reply kinds a command line can be answered with.
Fits(line, reply) ==
  \/ line.op = "resize" /\ reply.kind \in {"resized", "limited"}
  \/ line.op # "resize" /\ reply.kind = line.op

(***************************************************************************)
(* "One command -> one reply line" (control.rs:125): the replies a client  *)
(* has read answer its lines one by one, in order, with at most the last   *)
(* line read still unanswered.  No line is answered twice, out of turn, or *)
(* skipped because its command failed.                                     *)
(***************************************************************************)
AnswersInOrder ==
  \A c \in Clients :
    /\ Len(replies[c]) <= consumed[c]
    /\ consumed[c] <= Len(replies[c]) + 1
    /\ \A i \in 1 .. Len(replies[c]) : Fits(sent[c][i], replies[c][i])

(***************************************************************************)
(* "Errors on a single connection [...] do not take the listener down"     *)
(* (control.rs:97): a client that still listens loses its connection only  *)
(* to a line that is not text or to a failed accept, having had a reply to *)
(* every other line the server read.                                       *)
(***************************************************************************)
DroppedForGarbage ==
  \A c \in Clients :
    conn[c] = "closed" /\ intent[c] = "open" /\ consumed[c] > 0
      => /\ sent[c][consumed[c]].op = "garbage"
         /\ Len(replies[c]) = consumed[c] - 1

(***************************************************************************)
(* A reply names the geometry ACTUALLY applied (control.rs:53): what the   *)
(* client being served was last told is what the capsfilter holds, until   *)
(* it sends another resize, however many clients are waiting.              *)
(***************************************************************************)
Told(c) == IF answer = None THEN replies[c] ELSE Append(replies[c], answer)

ReplyIsApplied ==
  \A c \in Clients : conn[c] = "served" =>
    \A n \in 1 .. Len(Told(c)) :
      /\ Told(c)[n].shown # None
      /\ \A later \in n + 1 .. Len(Told(c)) : Told(c)[later].shown = None
      => Told(c)[n].shown = caps

(***************************************************************************)
(* A resize is refused only within MinInterval of a change of the caps     *)
(* themselves, and only if it asks for other than what they hold: an       *)
(* idempotent retry never reads as a failure (control.rs:69-75).           *)
(***************************************************************************)
RefusalJustified ==
  [][ \A c \in Clients :
        consumed'[c] # consumed[c] /\ answer' # None /\ answer'.kind = "limited"
          => /\ changedAt # None
             /\ now - changedAt < MinInterval
             /\ Want(sent[c][consumed'[c]]) # caps
             /\ caps' = caps ]_vars

Register == INSTANCE GeometryRegister WITH geometry <- caps, clock <- now

(***************************************************************************)
(* Whatever the clients send and whenever they do, the capsfilter behaves  *)
(* as a GeometryRegister: always a legal geometry, at an unchanged frame   *)
(* rate, changed at least MinInterval apart (control.rs:25-30, 61-92).     *)
(***************************************************************************)
RefinesRegister == Register!Spec

(***************************************************************************)
(* As long as clients end their streams, every line that reaches the       *)
(* listener is read in the end, or its connection has been closed: no      *)
(* malformed command and no vanished client keeps the next one waiting.    *)
(***************************************************************************)
LinesAreRead ==
  \A c \in Clients :
    (Connected(c) /\ consumed[c] < Len(sent[c]))
      ~> (consumed[c] = Len(sent[c]) \/ conn[c] = "closed")

(***************************************************************************)
(* control.rs:97 says "Errors on a single connection are reported to that  *)
(* caller": a client that still listens would have a reply to every line   *)
(* the server took from it before closing.                                 *)
(***************************************************************************)
ErrorsAreReported ==
  \A c \in Clients :
    conn[c] = "closed" /\ intent[c] = "open" => Len(replies[c]) = consumed[c]
=============================================================================
