-------------------------- MODULE GeometryRegister --------------------------
(***************************************************************************)
(* What runtime resizing promises of the capsfilter, whoever asks and      *)
(* however often: its geometry is always legal, its frame rate never       *)
(* changes, and two changes are at least MinInterval apart.                *)
(***************************************************************************)
EXTENDS Geometry

CONSTANTS
  MinInterval,
  MaxTime,  \* bound: the clock stops here
  None

VARIABLES
  geometry,   \* on the capsfilter
  changedAt,  \* when it last changed, or None
  clock

registerVars == <<geometry, changedAt, clock>>

Init ==
  /\ geometry = DefaultGeometry
  /\ changedAt = None
  /\ clock = 0

Change ==
  /\ changedAt = None \/ clock - changedAt >= MinInterval
  /\ geometry' # geometry
  /\ geometry' \in LegalGeometries
  /\ geometry'.framerate = geometry.framerate
  /\ changedAt' = clock
  /\ UNCHANGED clock

Pass ==
  /\ clock < MaxTime
  /\ clock' = clock + 1
  /\ UNCHANGED <<geometry, changedAt>>

Next == Change \/ Pass

Spec == Init /\ [][Next]_registerVars
=============================================================================
