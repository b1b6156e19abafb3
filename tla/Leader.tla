------------------------------- MODULE Leader -------------------------------
(***************************************************************************)
(* cstream-leader: one process that reads a password, authenticates with   *)
(* PAM and opens a session.  The command line tool then reports and exits; *)
(* a session leader (external, as lib.rs:3-4 and 41-43 describe it) drops  *)
(* to the user and runs the session, if the drop succeeds.                 *)
(***************************************************************************)
EXTENDS Credentials, Sequences

CONSTANTS
  None,
  Requests   \* what the process may be started with, and by whom

(***************************************************************************)
(* A request: which program it is, whether argv has three words, what      *)
(* stdin holds (None if it is not UTF-8), the account's secret, whether   *)
(* the account may log in, the process's credential, and the identity to   *)
(* drop to.                                                                *)
(***************************************************************************)
Texts == Seq({"x", "CR", "LF"})

RequestRecords ==
  [program : {"cli", "leader"}, usage : BOOLEAN, stdin : Texts \cup {None},
   secret : Texts, allowed : BOOLEAN, held : Credential, id : [uid : Ids, gid : Ids]]

ASSUME RequestsAssumption == Requests \subseteq RequestRecords
ASSUME NoneIsNoCode == None \notin Int \cup Texts

VARIABLES
  request,   \* fixed once chosen
  at,        \* the next call, "done" or "running"
  password,  \* what PAM is asked about
  env,       \* how many of the session's variables were put
  session,   \* "none", "open" or "closed"
  code,      \* the exit code, or None
  cred,      \* the process's credential
  dropped    \* steps of the drop that were taken

vars == <<request, at, password, env, session, code, cred, dropped>>
pamVars == <<password, env, session>>

Init ==
  /\ request \in Requests
  /\ at = "start"
  /\ password = <<>>
  /\ env = 0
  /\ session = "none"
  /\ code = None
  /\ cred = request.held
  /\ dropped = 0

Exit(c) == at' = "done" /\ code' = c

\* The call returned Ok and the next follows, or its Err ends the process.
Proceed(ok, next) == IF ok THEN at' = next /\ UNCHANGED code ELSE Exit(1)

\* ends_with and pop.
WithoutLast(text, end) ==
  IF text # <<>> /\ text[Len(text)] = end THEN SubSeq(text, 1, Len(text) - 1) ELSE text

(***************************************************************************)
(* Mutated forms.                                                          *)
(***************************************************************************)
CRThenLF(text) == WithoutLast(WithoutLast(text, "CR"), "LF")

GuardDropped == FALSE

\* open_session's error is ignored.
SessionOptional ==
  /\ at = "open"
  /\ at' = "return"
  /\ \E ok \in BOOLEAN : session' = IF ok THEN "open" ELSE "none"
  /\ UNCHANGED <<request, password, env, code, cred, dropped>>

\* The read's error is unwrapped: a panic, which exits with 101.
PanicsOnBadInput ==
  /\ at = "start"
  /\ IF request.stdin = None THEN Exit(101) /\ UNCHANGED password
       ELSE IF request.usage THEN at' = "context" /\ UNCHANGED <<code, password>>
       ELSE Exit(2) /\ UNCHANGED password
  /\ UNCHANGED <<request, env, session, cred, dropped>>

Unmanaged ==
  /\ at = "account"
  /\ Proceed(TRUE, "env")
  /\ UNCHANGED <<request, pamVars, cred, dropped>>

UidFirst == <<"SetUid", "SetGroups", "SetGid">>

NoClimb ==
  /\ at = "verify"
  /\ Proceed({cred.ruid, cred.euid} = {request.id.uid}, "running")
  /\ UNCHANGED <<request, pamVars, cred, dropped>>

-----------------------------------------------------------------------------
(***************************************************************************)
(* main, and authenticate_and_open.                                        *)
(***************************************************************************)
\* One line ending, as LF or as CR LF.
Stripped(text) == WithoutLast(WithoutLast(text, "LF"), "CR")

ReadPassword ==
  /\ at = "start"
  /\ IF request.usage /\ request.stdin # None
       THEN at' = "context" /\ password' = Stripped(request.stdin) /\ UNCHANGED code
       ELSE Exit(2) /\ UNCHANGED password
  /\ UNCHANGED <<request, env, session, cred, dropped>>

\* A call into PAM, which may fail although nothing speaks against it.
Pam(call, allowed, next) ==
  /\ at = call
  /\ \E ok \in {FALSE, allowed} : Proceed(ok, next)
  /\ UNCHANGED <<request, pamVars, cred, dropped>>

NewContext == Pam("context", TRUE, "authenticate")

Authenticate == Pam("authenticate", password = request.secret, "account")

AcctMgmt == Pam("account", request.allowed, "env")

SessionEnv == <<"XDG_SESSION_CLASS", "XDG_SESSION_TYPE", "USER">>

PutEnv ==
  /\ at = "env"
  /\ \E ok \in BOOLEAN :
       IF ok THEN /\ env' = env + 1
                  /\ at' = IF env' = Len(SessionEnv) THEN "open" ELSE "env"
                  /\ UNCHANGED code
             ELSE Exit(1) /\ UNCHANGED env
  /\ UNCHANGED <<request, password, session, cred, dropped>>

\* The guard is forgotten; dropped, it would close the session on return.
GuardForgotten == TRUE

OpenSession ==
  /\ at = "open"
  /\ \E ok \in BOOLEAN :
       /\ Proceed(ok, "return")
       /\ session' = IF ~ok THEN "none" ELSE IF GuardForgotten THEN "open" ELSE "closed"
  /\ UNCHANGED <<request, password, env, cred, dropped>>

\* Dropping the context tears the session down.
TornDown == IF session = "open" THEN "closed" ELSE session

\* The tool prints LEADER-AUTH-OK, drops the context and exits; a leader keeps
\* the context and calls the drop.
Return ==
  /\ at = "return"
  /\ IF request.program = "cli"
       THEN Exit(0) /\ session' = TornDown
       ELSE at' = "drop" /\ UNCHANGED <<code, session>>
  /\ UNCHANGED <<request, password, env, cred, dropped>>

-----------------------------------------------------------------------------
(***************************************************************************)
(* drop_privileges_permanently and verify_irreversible.                    *)
(***************************************************************************)
DropOrder == <<"SetGroups", "SetGid", "SetUid">>

May(step, c) ==
  CASE step = "SetGroups" -> MaySetGroups(c)
    [] step = "SetGid" -> MaySetGid(c, request.id.gid)
    [] step = "SetUid" -> MaySetUid(c, request.id.uid)

After(step, c) ==
  CASE step = "SetGroups" -> SetGroups(c)
    [] step = "SetGid" -> SetGid(c, request.id.gid)
    [] step = "SetUid" -> SetUid(c, request.id.uid)

\* An error is fatal to the leader, which ends with its context.
GoesOn(ok, next) ==
  Proceed(ok, next) /\ session' = IF ok THEN session ELSE TornDown

\* Uid 0 is refused before the first call; each call is checked.
Drop ==
  /\ at = "drop"
  /\ LET step == DropOrder[dropped + 1]
         ok == request.id.uid # 0 /\ May(step, cred)
     IN  /\ cred' = IF ok THEN After(step, cred) ELSE cred
         /\ dropped' = IF ok THEN dropped + 1 ELSE dropped
         /\ GoesOn(ok, IF dropped + 1 < Len(DropOrder) THEN "drop" ELSE "verify")
  /\ UNCHANGED <<request, password, env>>

\* The ids are compared, then setuid(0) is tried and has to fail.
VerifyIrreversible ==
  /\ at = "verify"
  /\ LET same == /\ {cred.ruid, cred.euid} = {request.id.uid}
                 /\ {cred.rgid, cred.egid} = {request.id.gid}
         climbs == MaySetUid(cred, 0)
     IN  /\ GoesOn(same /\ ~climbs, "running")
         /\ cred' = IF same /\ climbs THEN SetUid(cred, 0) ELSE cred
  /\ UNCHANGED <<request, password, env, dropped>>

Next ==
  \/ ReadPassword \/ NewContext \/ Authenticate \/ AcctMgmt \/ PutEnv
  \/ OpenSession \/ Return \/ Drop \/ VerifyIrreversible

Spec == Init /\ [][Next]_vars

-----------------------------------------------------------------------------
(***************************************************************************)
(* Properties.                                                             *)
(***************************************************************************)
Points == {"start", "context", "authenticate", "account", "env", "open", "return",
           "drop", "verify", "running", "done"}

TypeOK ==
  /\ request \in RequestRecords
  /\ at \in Points
  /\ password \in Texts
  /\ env \in 0 .. Len(SessionEnv)
  /\ session \in {"none", "open", "closed"}
  /\ code \in {0, 1, 2, None}
  /\ cred \in Credential
  /\ dropped \in 0 .. 3

(***************************************************************************)
(* A session is registered only for an account that gave its secret and    *)
(* may log in, and with all its variables put first, in whichever order   *)
(* PAM's calls fail (lib.rs:133-141).                                      *)
(***************************************************************************)
SessionIsPermitted ==
  session # "none" =>
    /\ request.usage /\ request.stdin # None
    /\ Stripped(request.stdin) = request.secret
    /\ request.allowed
    /\ env = Len(SessionEnv)

(***************************************************************************)
(* The exit code is a contract (cstream-leader.rs:8-11): 0 exactly when a  *)
(* session was opened, which the tool's own return has torn down by then,  *)
(* and always 1 for one who did not give the secret or may not log in,     *)
(* whatever else went wrong.                                               *)
(***************************************************************************)
ExitIsTruthful ==
  request.program = "cli" /\ at = "done" =>
    /\ code = 0 <=> session # "none"
    /\ /\ request.usage /\ request.stdin # None
       /\ Stripped(request.stdin) # request.secret \/ ~request.allowed
       => code = 1

(***************************************************************************)
(* A secret that is sent with one line ending of either kind reaches PAM   *)
(* as it is, a newline of its own included (cstream-leader.rs:26-29), if   *)
(* it does not end with a carriage return.                                 *)
(***************************************************************************)
SecretArrives ==
  LET secret == request.secret
      sent == {secret \o <<"LF">>, secret \o <<"CR", "LF">>}
  IN  /\ at \notin {"start", "done"}
      /\ WithoutLast(secret, "CR") = secret
      /\ request.stdin \in sent
      => password = secret

(***************************************************************************)
(* The session runs only as the user, with no supplementary groups left    *)
(* and with no way back to root, whatever the process was holding when it  *)
(* began to drop (lib.rs:6-9, 34-43, 73-78), in a session that is still    *)
(* there (lib.rs:169-176).                                                 *)
(***************************************************************************)
RunsAsUser ==
  at = "running" =>
    /\ session = "open"
    /\ {cred.ruid, cred.euid} = {request.id.uid}
    /\ {cred.rgid, cred.egid} = {request.id.gid}
    /\ cred.groups = {}
    /\ RootIsGone(cred)

(***************************************************************************)
(* The drop fails for no process that is root and holds what root holds:   *)
(* each call is made while the right to make it is still there             *)
(* (lib.rs:6-9).                                                           *)
(***************************************************************************)
RootCanDrop ==
  /\ at = "done" /\ session # "none" /\ request.program = "leader"
  /\ request.held.euid = 0 /\ request.held.caps = Capabilities
  => request.id.uid = 0
=============================================================================
