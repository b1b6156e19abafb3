------------------------------ MODULE IdleLock ------------------------------
(***************************************************************************)
(* lifecycle::arm: the tracker behind its mutex, the signal handlers of    *)
(* webrtcsink that feed it, and the poll thread that asks it every second  *)
(* and, when told to, finds Hyprland and dispatches the lock.  Each action *)
(* is what one thread does between two points where another may run: the   *)
(* handlers and the decision hold the mutex, while discovering, connecting *)
(* and waiting for the reply happen after it has been released.            *)
(***************************************************************************)
EXTENDS LockTracker, Hyprland, FiniteSets, FiniteSetsExt

CONSTANTS
  Viewers,      \* the WebRTC consumers
  PollEvery,    \* the poll thread's sleep, in seconds
  ReadTimeout,  \* the read timeout on the IPC socket, in seconds
  MaxTime,      \* bound: the clock stops here
  MaxStray      \* bound: consumer-removed signals that match no consumer-added

ASSUME ViewersAssumption == IsFiniteSet(Viewers)
ASSUME TimingAssumption ==
  /\ PollEvery \in Nat \ {0}
  /\ ReadTimeout \in Nat \ {0}
  /\ MaxTime \in Nat
  /\ MaxStray \in Nat

VARIABLES
  now,      \* the monotonic clock
  viewer,   \* where each viewer is in its session
  strays,   \* stray removals signalled so far
  pc,       \* the poll thread: "sleep", "discover", "connect" or "await"
  wakeAt,   \* when its sleep is over
  readBy,   \* when its read times out
  target,   \* the instance whose socket discover returned
  report,   \* the last attempt's log line, "none" while one is under way
  ran       \* history: Hyprland executed the command of the last attempt

pollVars == <<pc, wakeAt, readBy, target, report>>
vars == <<trackerVars, hyprVars, now, viewer, strays, pollVars, ran>>

(***************************************************************************)
(* "joining" and "leaving": the session has begun or ended, the signal is  *)
(* emitted, and its handler has yet to take the mutex.                     *)
(***************************************************************************)
Stages == {"out", "joining", "in", "leaving"}

Registered == {v \in Viewers : viewer[v] \in {"in", "leaving"}}

\* Somebody is looking at the desktop.
Watching == \E v \in Viewers : viewer[v] \in {"joining", "in"}

TypeOK ==
  /\ TrackerTypeOK
  /\ HyprTypeOK
  /\ now \in 0 .. MaxTime
  /\ viewer \in [Viewers -> Stages]
  /\ strays \in 0 .. MaxStray
  /\ pc \in {"sleep", "discover", "connect", "await"}
  /\ wakeAt \in Nat
  /\ readBy \in Nat
  /\ target \in 0 .. MaxInstances
  /\ report \in {"none", "unreachable", "failed", "refused", "dispatched"}
  /\ ran \in BOOLEAN

Init ==
  /\ TrackerInit
  /\ HyprInit
  /\ now = 0
  /\ viewer = [v \in Viewers |-> "out"]
  /\ strays = 0
  /\ pc = "sleep"
  /\ wakeAt = PollEvery
  /\ readBy = 0
  /\ target = 0
  /\ report = "none"
  /\ ran = FALSE

\* The clock, up to the horizon; there, every timer counts as run out.
Elapsed(t) == now >= t \/ now = MaxTime

Tick ==
  /\ now < MaxTime
  /\ now' = now + 1
  /\ UNCHANGED <<trackerVars, hyprVars, viewer, strays, pollVars, ran>>

-----------------------------------------------------------------------------
(***************************************************************************)
(* Viewers and the two signal handlers.                                    *)
(***************************************************************************)
Moves(v, from, to) ==
  /\ viewer[v] = from
  /\ viewer' = [viewer EXCEPT ![v] = to]
  /\ UNCHANGED <<now, strays, pollVars, ran>>

Connects(v) == Moves(v, "out", "joining") /\ UNCHANGED <<trackerVars, hyprVars>>

Disconnects(v) == Moves(v, "in", "leaving") /\ UNCHANGED <<trackerVars, hyprVars>>

ConsumerAdded(v) ==
  Moves(v, "joining", "in") /\ OnConsumerAdded /\ UNCHANGED hyprVars

ConsumerRemoved(v) ==
  Moves(v, "leaving", "out") /\ OnConsumerRemoved(now) /\ UNCHANGED hyprVars

\* A consumer-removed for a session that never got its consumer-added.
StrayRemoval ==
  /\ "stray" \in Faults
  /\ strays < MaxStray
  /\ strays' = strays + 1
  /\ OnConsumerRemoved(now)
  /\ UNCHANGED <<hyprVars, now, viewer, pollVars, ran>>

\* A viewer types the password.
Unlock ==
  /\ curtain
  /\ Watching
  /\ curtain' = FALSE
  /\ UNCHANGED <<alive, born, sockets, conn, orphans, trackerVars>>
  /\ UNCHANGED <<now, viewer, strays, pollVars, ran>>

(***************************************************************************)
(* Mutated forms of the poll thread's steps.                               *)
(***************************************************************************)
NoTimeout == FALSE

AnyReplyAccepted(reply) == reply # "error"

FirstIsNewest(S) == Min(S)

-----------------------------------------------------------------------------
(***************************************************************************)
(* The poll thread.                                                        *)
(***************************************************************************)
\* The attempt is over, well or badly: log it and sleep again.
BackToSleep(outcome) ==
  /\ pc' = "sleep"
  /\ wakeAt' = now + PollEvery
  /\ report' = outcome

\* Under the mutex, after the sleep: should_lock said yes.
DecideToLock ==
  /\ pc = "sleep"
  /\ Elapsed(wakeAt)
  /\ ShouldLock(now)
  /\ pc' = "discover"
  /\ report' = "none"
  /\ UNCHANGED <<wakeAt, readBy, target>>
  /\ UNCHANGED <<hyprVars, now, viewer, strays, ran>>

\* ... or no.
DecideToWait ==
  /\ pc = "sleep"
  /\ Elapsed(wakeAt)
  /\ ~Due(now)
  /\ BackToSleep(report)
  /\ UNCHANGED <<readBy, target, trackerVars>>
  /\ UNCHANGED <<hyprVars, now, viewer, strays, ran>>

Newest(S) == Max(S)

\* HyprIpc::discover: the newest instance directory that has a socket.
Discover ==
  /\ pc = "discover"
  /\ IF sockets = {}
       THEN BackToSleep("unreachable") /\ UNCHANGED target
       ELSE /\ target' = Newest(sockets)
            /\ pc' = "connect"
            /\ UNCHANGED <<wakeAt, report>>
  /\ UNCHANGED <<readBy, trackerVars, hyprVars, now, viewer, strays, ran>>

\* HyprIpc::send, up to the write: a dead or removed socket refuses.
Connect ==
  /\ pc = "connect"
  /\ IF Listening(target)
       THEN /\ conn' = "sent"
            /\ pc' = "await"
            /\ readBy' = now + ReadTimeout
            /\ UNCHANGED <<wakeAt, report>>
       ELSE BackToSleep("failed") /\ UNCHANGED <<conn, readBy>>
  /\ ran' = FALSE
  /\ UNCHANGED <<target, alive, born, sockets, orphans, curtain>>
  /\ UNCHANGED <<trackerVars, now, viewer, strays>>

DispatchAccepted(reply) == reply \notin {"eof", "error"}

\* read_to_string returned: an empty or an error reply is a refusal.
ReadReply ==
  /\ pc = "await"
  /\ conn \in Replies
  /\ BackToSleep(IF DispatchAccepted(conn) THEN "dispatched" ELSE "refused")
  /\ conn' = "none"
  /\ UNCHANGED <<readBy, target, alive, born, sockets, orphans, curtain>>
  /\ UNCHANGED <<trackerVars, now, viewer, strays, ran>>

\* The read times out; the command stays queued at the other end.
ReadTimesOut ==
  /\ pc = "await"
  /\ conn = "sent"
  /\ Elapsed(readBy)
  /\ BackToSleep("failed")
  /\ conn' = "none"
  /\ orphans' = orphans + 1
  /\ UNCHANGED <<readBy, target, alive, born, sockets, curtain>>
  /\ UNCHANGED <<trackerVars, now, viewer, strays, ran>>

PollStep ==
  \/ DecideToLock
  \/ DecideToWait
  \/ Discover
  \/ Connect
  \/ ReadReply
  \/ ReadTimesOut

\* Hyprland's steps; ran remembers the one that answers with "ok".
HyprStep ==
  /\ HyprNext
  /\ ran' = (ran \/ conn' = "ok")
  /\ UNCHANGED <<trackerVars, now, viewer, strays, pollVars>>

Next ==
  \/ \E v \in Viewers : \/ Connects(v) \/ ConsumerAdded(v)
                        \/ Disconnects(v) \/ ConsumerRemoved(v)
  \/ StrayRemoval
  \/ Unlock
  \/ PollStep
  \/ HyprStep
  \/ Tick

SafetySpec == Init /\ [][Next]_vars

(***************************************************************************)
(* Fairness: time passes, an emitted signal's handler runs, and the poll   *)
(* thread is never descheduled for good.  Nothing is assumed of viewers    *)
(* or of Hyprland.                                                         *)
(***************************************************************************)
Fairness ==
  /\ WF_vars(Tick)
  /\ WF_vars(PollStep)
  /\ \A v \in Viewers : WF_vars(ConsumerAdded(v)) /\ WF_vars(ConsumerRemoved(v))

Spec == SafetySpec /\ Fairness

\* A Hyprland that answers: what is written to it is executed in the end.
HyprAnswers ==
  /\ Execute \/ ExecuteOrphan
  /\ ran' = (ran \/ conn' = "ok")
  /\ UNCHANGED <<trackerVars, now, viewer, strays, pollVars>>

-----------------------------------------------------------------------------
(***************************************************************************)
(* Properties.                                                             *)
(***************************************************************************)
(***************************************************************************)
(* The saturating counter of lifecycle.rs:156-168 never counts a viewer    *)
(* that is not there, and misses at most one viewer per stray removal: in  *)
(* particular it is exact when there are none, in every interleaving of    *)
(* the two handlers.                                                       *)
(***************************************************************************)
CountWithinStrays ==
  /\ consumers <= Cardinality(Registered)
  /\ consumers >= Cardinality(Registered) - strays

(***************************************************************************)
(* The log says the lock was dispatched (lifecycle.rs:230) only if         *)
(* Hyprland executed the command of that very attempt: not when it refused *)
(* it, and not when it died with the connection open.                      *)
(***************************************************************************)
ReportIsHonest == report = "dispatched" => ran

(***************************************************************************)
(* Crashed instances leave sockets behind (lifecycle.rs:87, 220), yet the  *)
(* lock is never sent into a dead one while a live one is there to be      *)
(* found.                                                                  *)
(***************************************************************************)
DiscoverFindsLive ==
  [][ pc = "discover" /\ pc' = "connect" /\ alive # 0 => target' = alive ]_vars

(***************************************************************************)
(* The poll thread always gets back to its loop, whatever Hyprland does:   *)
(* restart between discover and connect, die with the connection open, or  *)
(* accept the command and never answer (lifecycle.rs:116, 211).            *)
(***************************************************************************)
PollReturns == []<>(pc = "sleep")

\* Commands that were decided on and are queued or under way.
InFlight == orphans + (IF pc = "sleep" THEN 0 ELSE 1)

(***************************************************************************)
(* The desktop of every idle period whose deadline lies within the horizon *)
(* really is locked, or somebody has come back (lifecycle.rs:1), provided  *)
(* that a Hyprland is there when the thread decides, that it stays, and    *)
(* that it executes what it is sent; and that there are no strays.         *)
(***************************************************************************)
HyprUp == locked => alive # 0 /\ conn \notin {"error", "eof"}

Deadline == zeroSince # None /\ zeroSince + After <= MaxTime

IdleGetsLocked ==
  WF_vars(HyprAnswers) /\ []HyprUp => (Deadline ~> (curtain \/ Watching))

\* IdlePolicy, read off the tracker and the viewers whose handlers have run.
Phase ==
  IF consumers > 0 THEN "watched"
  ELSE IF zeroSince = None THEN "unseen"
  ELSE IF locked THEN "fired" ELSE "idle"

Policy == INSTANCE IdlePolicy
  WITH present <- Registered, phase <- Phase, since <- zeroSince, clock <- now

(***************************************************************************)
(* Without strays the counter, the mutex and the poll thread together do   *)
(* what IdlePolicy says of the set of viewers, step by step; with the      *)
(* thread's fairness they also act on every idle period that lasts.        *)
(***************************************************************************)
RefinesPolicy == Policy!Spec

(***************************************************************************)
(* lifecycle.rs:149 says `locked` is "Set once we have locked for this     *)
(* idle period": outside an attempt the flag would mean a locked desktop.  *)
(***************************************************************************)
LockedMeansLocked == locked /\ InFlight = 0 => curtain

(***************************************************************************)
(* lifecycle.rs:1 says the desktop is locked "once the last viewer has     *)
(* been gone long enough": the curtain would never fall in front of one.   *)
(***************************************************************************)
LockOnlyUnwatched == [][ ~curtain /\ curtain' => ~Watching ]_vars
=============================================================================
