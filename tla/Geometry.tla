------------------------------ MODULE Geometry ------------------------------
(***************************************************************************)
(* pipeline.rs: the video geometry and its sanitisation.                   *)
(***************************************************************************)
EXTENDS Integers

\* Geometry::default
DefaultGeometry == [width |-> 1920, height |-> 1080, framerate |-> 60]

\* What the u32 fields can hold.
Geometries == [width : Nat, height : Nat, framerate : Nat]

\* Mutated forms: rounding that overshoots, a clamp without its lower end.
RoundUp8(x) == x + ((8 - (x % 8)) % 8)

CapOnly(x, low, high) == IF x > high THEN high ELSE x

Clamp(x, low, high) ==
  IF x < low THEN low ELSE IF x > high THEN high ELSE x

\* x & !7
RoundDown8(x) == x - (x % 8)

Sanitised(g) ==
  [width     |-> RoundDown8(Clamp(g.width, 640, 3840)),
   height    |-> RoundDown8(Clamp(g.height, 480, 2160)),
   framerate |-> Clamp(g.framerate, 1, 240)]

(***************************************************************************)
(* What the compositor can configure and the encoder can represent.        *)
(***************************************************************************)
LegalGeometries ==
  {g \in Geometries :
     /\ 640 <= g.width /\ g.width <= 3840 /\ g.width % 8 = 0
     /\ 480 <= g.height /\ g.height <= 2160 /\ g.height % 8 = 0
     /\ 1 <= g.framerate /\ g.framerate <= 240}
=============================================================================
