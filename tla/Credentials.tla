----------------------------- MODULE Credentials -----------------------------
(***************************************************************************)
(* The identity the kernel keeps of a process, as one record, and the      *)
(* calls of lib.rs that change it (external: setgroups(2), setgid(2),      *)
(* setuid(2), capabilities(7), with the default secure bits).  A call that *)
(* is not permitted fails and changes nothing.                             *)
(***************************************************************************)
EXTENDS Integers

CONSTANT Ids  \* user and group ids; 0 is root

ASSUME IdsAssumption == 0 \in Ids

Capabilities == {"setuid", "setgid"}

\* Real, effective and saved ids, supplementary groups, effective capabilities.
Credential ==
  [ruid : Ids, euid : Ids, suid : Ids, rgid : Ids, egid : Ids, sgid : Ids,
   groups : SUBSET Ids, caps : SUBSET Capabilities]

MaySetGroups(c) == "setgid" \in c.caps

SetGroups(c) == [c EXCEPT !.groups = {}]

MaySetGid(c, g) == "setgid" \in c.caps \/ g \in {c.rgid, c.sgid}

SetGid(c, g) ==
  IF "setgid" \in c.caps THEN [c EXCEPT !.rgid = g, !.egid = g, !.sgid = g]
                         ELSE [c EXCEPT !.egid = g]

MaySetUid(c, u) == "setuid" \in c.caps \/ u \in {c.ruid, c.suid}

Uids(c) == {c.ruid, c.euid, c.suid}

\* Leaving root behind, as the effective id or in all three, ends the
\* capabilities; becoming root brings them back.
CapsAfter(before, after) ==
  IF \/ before.euid = 0 /\ after.euid # 0
     \/ 0 \in Uids(before) /\ 0 \notin Uids(after)
    THEN {}
  ELSE IF before.euid # 0 /\ after.euid = 0 THEN Capabilities
  ELSE before.caps

SetUid(c, u) ==
  LET d == IF "setuid" \in c.caps
             THEN [c EXCEPT !.ruid = u, !.euid = u, !.suid = u]
             ELSE [c EXCEPT !.euid = u]
  IN  [d EXCEPT !.caps = CapsAfter(c, d)]

\* No sequence of these calls makes the process root again.
RootIsGone(c) == 0 \notin Uids(c) /\ "setuid" \notin c.caps
=============================================================================
