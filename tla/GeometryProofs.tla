--------------------------- MODULE GeometryProofs ---------------------------
(***************************************************************************)
(* What sanitising computes, for every request the u32 fields can carry.   *)
(***************************************************************************)
EXTENDS Geometry, TLAPS

\* A clamp stays between its bounds and does not move what is between them.
LEMMA ClampFacts ==
  ASSUME NEW x \in Nat
  PROVE  /\ Clamp(x, 640, 3840) \in Nat
         /\ 640 <= Clamp(x, 640, 3840) /\ Clamp(x, 640, 3840) <= 3840
         /\ 640 <= x /\ x <= 3840 => Clamp(x, 640, 3840) = x
         /\ Clamp(x, 480, 2160) \in Nat
         /\ 480 <= Clamp(x, 480, 2160) /\ Clamp(x, 480, 2160) <= 2160
         /\ 480 <= x /\ x <= 2160 => Clamp(x, 480, 2160) = x
         /\ Clamp(x, 1, 240) \in Nat
         /\ 1 <= Clamp(x, 1, 240) /\ Clamp(x, 1, 240) <= 240
         /\ 1 <= x /\ x <= 240 => Clamp(x, 1, 240) = x
BY DEF Clamp

\* Rounding down lands on a multiple of 8, less than one step below.
LEMMA RoundDown8Facts ==
  ASSUME NEW n \in Nat
  PROVE  /\ RoundDown8(n) \in Nat
         /\ RoundDown8(n) <= n /\ n - 7 <= RoundDown8(n)
         /\ RoundDown8(n) % 8 = 0
         /\ n % 8 = 0 => RoundDown8(n) = n
BY DEF RoundDown8

(***************************************************************************)
(* Every request is sanitised to a geometry the compositor can configure   *)
(* and the encoder can represent (pipeline.rs:32-44).                      *)
(***************************************************************************)
THEOREM SanitisedIsLegal ==
  ASSUME NEW g \in Geometries
  PROVE  Sanitised(g) \in LegalGeometries
<1> DEFINE w == Clamp(g.width, 640, 3840)
           h == Clamp(g.height, 480, 2160)
           f == Clamp(g.framerate, 1, 240)
<1>1. g.width \in Nat /\ g.height \in Nat /\ g.framerate \in Nat
  BY DEF Geometries
<1>2. w \in Nat /\ 640 <= w /\ w <= 3840
  BY <1>1, ClampFacts
<1>3. h \in Nat /\ 480 <= h /\ h <= 2160
  BY <1>1, ClampFacts
<1>4. f \in Nat /\ 1 <= f /\ f <= 240
  BY <1>1, ClampFacts
<1>5. Sanitised(g) = [width |-> RoundDown8(w), height |-> RoundDown8(h), framerate |-> f]
  BY DEF Sanitised
<1> HIDE DEF w, h, f
<1>6. /\ RoundDown8(w) \in Nat /\ RoundDown8(w) % 8 = 0
      /\ 640 <= RoundDown8(w) /\ RoundDown8(w) <= 3840
  BY <1>2 DEF RoundDown8
<1>7. /\ RoundDown8(h) \in Nat /\ RoundDown8(h) % 8 = 0
      /\ 480 <= RoundDown8(h) /\ RoundDown8(h) <= 2160
  BY <1>3 DEF RoundDown8
<1> QED
  BY <1>4, <1>5, <1>6, <1>7 DEF LegalGeometries, Geometries

(***************************************************************************)
(* Sanitising a legal geometry changes nothing, so asking again for the    *)
(* geometry a reply named is a no-op (control.rs:69-74).                   *)
(***************************************************************************)
THEOREM LegalIsFixed ==
  ASSUME NEW g \in LegalGeometries
  PROVE  Sanitised(g) = g
<1>1. /\ g.width \in Nat /\ 640 <= g.width /\ g.width <= 3840
      /\ g.height \in Nat /\ 480 <= g.height /\ g.height <= 2160
      /\ g.framerate \in Nat /\ 1 <= g.framerate /\ g.framerate <= 240
      /\ g \in Geometries
  BY DEF LegalGeometries, Geometries
<1>2. g.width % 8 = 0 /\ g.height % 8 = 0
  BY DEF LegalGeometries
<1>3. /\ Clamp(g.width, 640, 3840) = g.width
      /\ Clamp(g.height, 480, 2160) = g.height
      /\ Clamp(g.framerate, 1, 240) = g.framerate
  BY <1>1, ClampFacts
<1>4. RoundDown8(g.width) = g.width /\ RoundDown8(g.height) = g.height
  BY <1>1, <1>2, RoundDown8Facts
<1>5. g = [width |-> g.width, height |-> g.height, framerate |-> g.framerate]
  BY <1>1 DEF Geometries
<1> QED
  BY <1>3, <1>4, <1>5 DEF Sanitised

\* The geometry a stream starts with is legal as it stands.
LEMMA DefaultIsLegal ==
  /\ DefaultGeometry \in LegalGeometries
  /\ Sanitised(DefaultGeometry) = DefaultGeometry
<1>1. DefaultGeometry \in LegalGeometries
  BY DEF DefaultGeometry, LegalGeometries, Geometries
<1> QED
  BY <1>1, LegalIsFixed
=============================================================================
