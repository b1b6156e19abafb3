------------------------------ MODULE MCGateway ------------------------------
(* Instances of Gateway for TLC. *)
EXTENDS Gateway, MCStreamer

Defaults == [renderNode |-> "there", display |-> "named"]

AnyFlags ==
  {Defaults, [Defaults EXCEPT !.renderNode = ""], [Defaults EXCEPT !.renderNode = "missing"],
   [Defaults EXCEPT !.display = ""]}

\* A service on a host where all goes well.
OnlyGood == {Good}
OneService == {[i \in Instances |-> Set("auto", FALSE, "off")]}
=============================================================================
