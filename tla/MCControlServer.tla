--------------------------- MODULE MCControlServer ---------------------------
(* Instances of ControlServer for TLC: the lines clients choose from. *)
EXTENDS ControlServer

ResizeTo(w, h) == [op |-> "resize", width |-> w, height |-> h]
Other(op) == [op |-> op, width |-> 0, height |-> 0]

\* A size that is rounded down, one that is clamped up, a question, a command that
\* is rejected, and a line that is not text.
AllForms ==
  {ResizeTo(1601, 903), ResizeTo(0, 0), Other("geometry"), Other("badargs"),
   Other("garbage")}
=============================================================================
