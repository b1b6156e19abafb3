------------------------------ MODULE Gateway ------------------------------
(***************************************************************************)
(* cmd/cstream-gateway beside the streamers of a host: what /healthz and   *)
(* the page say is read off two files, the render node and the Wayland     *)
(* socket that a streamer's compositor publishes (external).               *)
(***************************************************************************)
EXTENDS Streamer

CONSTANT Gateways  \* the flags the gateway may be started with

ASSUME GatewaysAssumption ==
  Gateways \subseteq [renderNode : {"", "missing", "there"}, display : {"", "named"}]

VARIABLES
  gateway,  \* fixed once chosen
  wayland,  \* the Wayland socket's file: whose it is, or None
  request   \* the request in hand: "none", "stat", or its answer

pageVars == <<vars, gateway, wayland, request>>

PageInit ==
  /\ Init
  /\ gateway \in Gateways
  /\ wayland = None
  /\ request = "none"

\* From its state change on, a streamer's compositor runs.
Hosting == {"settle", "verify", "exists", "remove", "bind", "serving"}

Lives(owner) ==
  owner # None /\ phase[owner[1]] \in Hosting /\ starts[owner[1]] = owner[2]

\* A step of a streamer, and of its compositor: it takes the name from a socket
\* that was left behind, and removes its own when the pipeline is brought to
\* Null, as main does at its regular ends; other failures may leave it.
StreamerStep(i) ==
  /\ Step(i)
  /\ wayland' \in
       IF phase[i] = "play" /\ phase'[i] = "settle"
         THEN {IF Lives(wayland) THEN wayland ELSE Me(i)}
       ELSE IF wayland = Me(i) /\ code'[i] # None
         THEN {None} \cup (IF phase[i] = "serving" \/ code'[i] = 0 THEN {} ELSE {wayland})
       ELSE {wayland}
  /\ UNCHANGED <<gateway, request>>

OnlyRenderNode == gateway.renderNode # ""  \* mutated form of IsConfigured

(***************************************************************************)
(* probeStatus: the flags, then one stat, then the other.                  *)
(***************************************************************************)
IsConfigured == gateway.renderNode # "" /\ gateway.display # ""

Ask ==
  /\ request # "stat"
  /\ request' = IF IsConfigured /\ gateway.renderNode = "there" THEN "stat" ELSE "not-ready"
  /\ UNCHANGED <<vars, gateway, wayland>>

\* Joined with an empty name, the path is the runtime directory's.
SocketIsThere == IF gateway.display = "" THEN dir # "none" ELSE wayland # None

StatSocket ==
  /\ request = "stat"
  /\ request' = IF SocketIsThere THEN "ready" ELSE "not-ready"
  /\ UNCHANGED <<vars, gateway, wayland>>

PageNext == (\E i \in Instances : StreamerStep(i)) \/ Ask \/ StatSocket

PageSpec == PageInit /\ [][PageNext]_pageVars

-----------------------------------------------------------------------------
(***************************************************************************)
(* Properties.                                                             *)
(***************************************************************************)
NobodyEnded == \A i \in Instances : starts[i] = IF phase[i] = "down" THEN 0 ELSE 1

(***************************************************************************)
(* "Reporting ready without those would let a page load and then stream    *)
(* nothing" (main.go:30-33): as long as no process has ended, ready means  *)
(* that a streamer on this host has a graph, and a compositor that runs,   *)
(* whatever the gateway's flags are.                                       *)
(***************************************************************************)
ReadyMeansHosted ==
  request = "ready" /\ NobodyEnded =>
    /\ gateway.renderNode = "there"
    /\ host.builds
    /\ \E i \in Instances : phase[i] \in Hosting /\ setting[i].renderNode

(***************************************************************************)
(* main.go:49-51 says of the page's marker that "it is only emitted when   *)
(* the stack is genuinely ready": what is found would be a compositor that *)
(* runs.                                                                   *)
(***************************************************************************)
ReadyIsGenuine ==
  [][request = "stat" /\ request' = "ready" => Lives(wayland)]_pageVars
=============================================================================
