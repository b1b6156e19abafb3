------------------------------ MODULE Hyprland ------------------------------
(***************************************************************************)
(* The compositor the lock is dispatched into, as far as lifecycle.rs can  *)
(* tell: instances come and go under one runtime directory, each with its  *)
(* own directory and .socket.sock, a crashed one leaves its socket behind, *)
(* and a command that was written is executed even if the streamer has     *)
(* stopped waiting for the answer.  External code.                         *)
(***************************************************************************)
EXTENDS Integers

CONSTANTS
  MaxInstances,  \* bound: instances started in one behaviour
  Faults         \* which of {"crash", "exit", "refuse", "stray"} may happen

ASSUME MaxInstancesAssumption == MaxInstances \in Nat \ {0}

Replies == {"ok", "error", "eof"}

VARIABLES
  alive,    \* the running instance, 0 when there is none
  born,     \* instances started so far; a later one has a newer directory
  sockets,  \* instances whose .socket.sock exists
  conn,     \* the streamer's connection: "none", "sent", or the reply on it
  orphans,  \* commands still queued on connections the streamer gave up
  curtain   \* the desktop is locked

hyprVars == <<alive, born, sockets, conn, orphans, curtain>>

HyprTypeOK ==
  /\ alive \in 0 .. MaxInstances
  /\ born \in 0 .. MaxInstances
  /\ sockets \subseteq 1 .. MaxInstances
  /\ conn \in {"none", "sent"} \cup Replies
  /\ orphans \in Nat
  /\ curtain \in BOOLEAN

\* arm is called before the compositor that Hyprland nests in plays, so none is
\* up; a run that ended before this one may have left directories and sockets.
HyprInit ==
  /\ alive = 0
  /\ born \in {0, 1}
  /\ sockets \in SUBSET (1 .. born)
  /\ conn = "none"
  /\ orphans = 0
  /\ curtain = FALSE

Listening(n) == n = alive /\ n \in sockets

\* exec_raw("hyprlock") is dispatched; the reply is "ok".
Execute ==
  /\ conn = "sent"
  /\ conn' = "ok"
  /\ curtain' = TRUE
  /\ UNCHANGED <<alive, born, sockets, orphans>>

\* The dispatcher does not exist in this version, or the Lua call fails.
Refuse ==
  /\ "refuse" \in Faults
  /\ conn = "sent"
  /\ conn' = "error"
  /\ UNCHANGED <<alive, born, sockets, orphans, curtain>>

\* A command whose sender timed out is executed all the same.
ExecuteOrphan ==
  /\ orphans > 0
  /\ orphans' = orphans - 1
  /\ curtain' = TRUE
  /\ UNCHANGED <<alive, born, sockets, conn>>

\* The instance ends: its clients, hyprlock among them, end with it, and
\* a reader of its socket sees the end of the stream.
Dies(left) ==
  /\ alive # 0
  /\ alive' = 0
  /\ sockets' = left
  /\ conn' = IF conn = "sent" THEN "eof" ELSE conn
  /\ orphans' = 0
  /\ curtain' = FALSE
  /\ UNCHANGED born

Crash == "crash" \in Faults /\ Dies(sockets)

Exit == "exit" \in Faults /\ Dies(sockets \ {alive})

Start ==
  /\ alive = 0
  /\ born < MaxInstances
  /\ born' = born + 1
  /\ alive' = born + 1
  /\ sockets' = sockets \cup {born + 1}
  /\ UNCHANGED <<conn, orphans, curtain>>

HyprNext == Execute \/ Refuse \/ ExecuteOrphan \/ Crash \/ Exit \/ Start
=============================================================================
