------------------------------- MODULE Control -------------------------------
(***************************************************************************)
(* control.rs, struct Control and dispatch: one command line in, one reply *)
(* line out, and the capsfilter rewritten at most every MinInterval.       *)
(***************************************************************************)
EXTENDS Geometry

CONSTANTS
  MinInterval,  \* MIN_RESIZE_INTERVAL, in clock ticks
  None

ASSUME MinIntervalAssumption == MinInterval \in Nat \ {0}

VARIABLES
  caps,         \* the geometry in the capsfilter's caps property
  current,      \* Control::current
  lastApplied,  \* Control::last_applied
  answer        \* the reply dispatch returned and that is yet to be written

controlVars == <<caps, current, lastApplied, answer>>

(***************************************************************************)
(* A command line, after trim: a resize with two numbers, or one of the    *)
(* other forms dispatch and the line reader tell apart.  "garbage" is a    *)
(* line that is not UTF-8.                                                 *)
(***************************************************************************)
Operations == {"resize", "badargs", "geometry", "unknown", "empty", "garbage"}

CommandLines == [op : Operations, width : Nat, height : Nat]

ReplyKinds ==
  {"resized", "limited", "geometry", "badargs", "unknown", "empty"}

Replies == [kind : ReplyKinds, shown : LegalGeometries \cup {None}]

ASSUME ControlNoneAssumption ==
  None \notin Int /\ None \notin LegalGeometries /\ None \notin Replies

Reply(kind, shown) == [kind |-> kind, shown |-> shown]

ControlInit ==
  /\ caps = Sanitised(DefaultGeometry)
  /\ current = Sanitised(DefaultGeometry)
  /\ lastApplied = None
  /\ answer = None

Want(line) ==
  Sanitised([width |-> line.width, height |-> line.height,
             framerate |-> current.framerate])

(***************************************************************************)
(* Mutated forms.                                                          *)
(***************************************************************************)
NoopTouchesWindow(line, t) ==
  /\ Want(line) = current
  /\ lastApplied' = t
  /\ answer' = Reply("resized", current)
  /\ UNCHANGED <<caps, current>>

LimitOnlyJustAfter(t) == lastApplied # None /\ t - lastApplied < 1

\* The rate limit of Control::resize.
TooSoon(t) == lastApplied # None /\ t - lastApplied < MinInterval

RecordsOnly(line, t) ==
  /\ Want(line) # current
  /\ ~TooSoon(t)
  /\ lastApplied' = t
  /\ current' = Want(line)
  /\ answer' = Reply("resized", Want(line))
  /\ UNCHANGED caps

(***************************************************************************)
(* Control::resize, by its three ways out, in the code's order.            *)
(***************************************************************************)
\* A no-op is answered with the geometry and is not rate-limited.
ResizeNoop(line, t) ==
  /\ Want(line) = current
  /\ answer' = Reply("resized", current)
  /\ UNCHANGED <<caps, current, lastApplied>>

ResizeLimited(line, t) ==
  /\ Want(line) # current
  /\ TooSoon(t)
  /\ answer' = Reply("limited", current)
  /\ UNCHANGED <<caps, current, lastApplied>>

ResizeApplied(line, t) ==
  /\ Want(line) # current
  /\ ~TooSoon(t)
  /\ caps' = Want(line)
  /\ lastApplied' = t
  /\ current' = Want(line)
  /\ answer' = Reply("resized", Want(line))

Resize(line, t) ==
  ResizeNoop(line, t) \/ ResizeLimited(line, t) \/ ResizeApplied(line, t)

(***************************************************************************)
(* dispatch.  Its own parse errors leave the control alone.                *)
(***************************************************************************)
AnswerOnly(reply) ==
  /\ answer' = reply
  /\ UNCHANGED <<caps, current, lastApplied>>

Dispatch(line, t) ==
  \/ line.op = "resize" /\ Resize(line, t)
  \/ line.op = "geometry" /\ AnswerOnly(Reply("geometry", current))
  \/ line.op \in {"badargs", "unknown", "empty"} /\ AnswerOnly(Reply(line.op, None))
=============================================================================
