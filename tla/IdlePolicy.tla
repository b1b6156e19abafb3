----------------------------- MODULE IdlePolicy -----------------------------
(***************************************************************************)
(* What the idle lock promises, with no counter, no mutex and no poll      *)
(* thread: from the set of viewers that are present, decide to lock at     *)
(* most once per idle period, and only after After seconds without any.    *)
(* A desktop nobody has watched yet ("unseen") has no idle period.         *)
(***************************************************************************)
EXTENDS Integers

CONSTANTS
  Viewers,
  After,
  MaxTime,  \* bound: the clock stops here
  None

VARIABLES
  present,  \* the viewers that are watching
  phase,    \* "unseen", "watched", "idle" or "fired"
  since,    \* when the idle period began, None outside one
  clock

policyVars == <<present, phase, since, clock>>

Init ==
  /\ present = {}
  /\ phase = "unseen"
  /\ since = None
  /\ clock = 0

Arrive(v) ==
  /\ v \notin present
  /\ present' = present \cup {v}
  /\ phase' = "watched"
  /\ since' = None
  /\ UNCHANGED clock

\* Only the last viewer's departure begins an idle period.
Depart(v) ==
  /\ v \in present
  /\ present' = present \ {v}
  /\ IF present' = {}
       THEN phase' = "idle" /\ since' = clock
       ELSE UNCHANGED <<phase, since>>
  /\ UNCHANGED clock

Fire ==
  /\ phase = "idle"
  /\ clock - since >= After
  /\ phase' = "fired"
  /\ UNCHANGED <<present, since, clock>>

Pass ==
  /\ clock < MaxTime
  /\ clock' = clock + 1
  /\ UNCHANGED <<present, phase, since>>

Next ==
  \/ \E v \in Viewers : Arrive(v) \/ Depart(v)
  \/ Fire
  \/ Pass

SafetySpec == Init /\ [][Next]_policyVars

\* Time passes, and an idle period that has lasted long enough is acted on.
Spec == SafetySpec /\ WF_policyVars(Pass) /\ WF_policyVars(Fire)
=============================================================================
