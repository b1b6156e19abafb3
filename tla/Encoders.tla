------------------------------ MODULE Encoders ------------------------------
(***************************************************************************)
(* rank.rs and webrtc.rs: which encoder is promoted, which one the policy  *)
(* resolves to, and (external) which one webrtcsink then uses.             *)
(***************************************************************************)
EXTENDS Integers, Sequences

CONSTANT None

Policies == {"auto", "va", "software"}

\* HARDWARE_ENCODERS, in its order of preference.
HardwareEncoders == <<"vah264enc", "vah265enc">>

IsHardware(e) == \E i \in DOMAIN HardwareEncoders : HardwareEncoders[i] = e

(***************************************************************************)
(* GStreamer's ranks, and the elements a host may have with the rank they  *)
(* register at (external).                                                 *)
(***************************************************************************)
Marginal == 64
Primary == 256

RegisteredRank == [vah264enc |-> 0, vah265enc |-> 0, x264enc |-> Primary]
Elements == DOMAIN RegisteredRank

MarginalRank == Marginal  \* mutated form of RaisedRank

\* raise_hardware_encoders sets each one it finds above every software encoder.
RaisedRank == Primary + 1

RaiseHardwareEncoders(present) ==
  [e \in present |-> IF IsHardware(e) THEN RaisedRank ELSE RegisteredRank[e]]

(***************************************************************************)
(* select_encoder: the first hardware encoder present, whether or not the  *)
(* sink's pinned codec can use it; None is its error.                      *)
(***************************************************************************)
Found(present) ==
  LET hits == {n \in DOMAIN HardwareEncoders : HardwareEncoders[n] \in present}
  IN  IF hits = {} THEN None
      ELSE HardwareEncoders[CHOOSE n \in hits : \A m \in hits : n <= m]

SelectEncoder(policy, present) ==
  CASE policy = "software" -> "software"
    [] policy = "auto" /\ Found(present) = None -> "software"
    [] OTHER -> Found(present)

(***************************************************************************)
(* webrtcsink (external, as rank.rs:1-11 and webrtc.rs:96-105 describe     *)
(* it).  Its codec table is built once, from the ranks of that moment, and *)
(* holds what ranks MARGINAL or above; the pinned caps leave it H.264, and *)
(* the highest rank wins.                                                  *)
(***************************************************************************)
CodecTable(rank) ==
  [e \in {d \in DOMAIN rank : rank[d] >= Marginal} |-> rank[e]]

Usable(table) == DOMAIN table \cap {"vah264enc", "x264enc"}

Best(table) ==
  CHOOSE e \in Usable(table) : \A d \in Usable(table) : table[d] <= table[e]

(***************************************************************************)
(* tune_encoder: "tune" is set where the element has it (only x264enc      *)
(* does) and the resolved encoder is Software.                             *)
(***************************************************************************)
LowLatency(element, encoder) == element = "x264enc" /\ encoder = "software"
=============================================================================
