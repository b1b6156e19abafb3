---------------------------- MODULE LeaderProofs ----------------------------
(***************************************************************************)
(* Proofs about Leader, for any requests over any ids: what the process    *)
(* has reached says which calls succeeded, and what those say of its       *)
(* request and of its credential.                                          *)
(***************************************************************************)
EXTENDS Leader, TLAPS

Opened == {"return", "drop", "verify", "running"}
Permitted == {"env", "open"} \cup Opened
Known == {"account"} \cup Permitted
Asked == {"context", "authenticate"} \cup Known

Types ==
  /\ request \in RequestRecords
  /\ at \in Points
  /\ env \in 0 .. 3
  /\ session \in {"none", "open", "closed"}
  /\ code \in {0, 1, 2, None}
  /\ cred \in Credential
  /\ dropped \in 0 .. 3
  /\ at = "drop" => dropped \in 0 .. 2
  /\ at \notin {"drop", "verify", "running", "done"} => dropped = 0

\* The calls that led to this point have all succeeded.
Earned ==
  /\ at \in Asked => request.usage /\ request.stdin # None
                     /\ password = Stripped(request.stdin)
  /\ at \in Known => password = request.secret
  /\ at \in Permitted => request.allowed
  /\ at \in {"open"} \cup Opened => env = 3
  /\ at = "env" => env # 3
  /\ at \in {"start", "context", "authenticate", "account"} => env = 0

\* Whether a session was registered, and who for, decides the exit code.
Registered ==
  /\ at \in Opened => session = "open"
  /\ at \in Points \ (Opened \cup {"done"}) => session = "none"
  /\ at # "done" => code = None
  /\ request.program = "cli" => at \notin {"drop", "verify", "running"}
  /\ at = "done" =>
       /\ code \in {0, 1, 2}
       /\ request.program = "cli" => (code = 0 <=> session # "none")
       /\ code = 0 => request.allowed /\ Stripped(request.stdin) = request.secret
       /\ code = 2 => ~request.usage \/ request.stdin = None

SessionInv == Types /\ Earned /\ Registered /\ SessionIsPermitted

LEMMA CredentialKept ==
  ASSUME NEW c \in Credential, NEW u \in Ids
  PROVE  /\ SetGroups(c) \in Credential
         /\ SetGid(c, u) \in Credential
         /\ SetUid(c, u) \in Credential
<1>1. SetGroups(c) \in Credential /\ SetGid(c, u) \in Credential
  BY DEF SetGroups, SetGid, Credential
<1>2. \A d \in Credential : CapsAfter(c, d) \in SUBSET Capabilities
  BY DEF CapsAfter, Credential, Capabilities
<1> DEFINE d == IF "setuid" \in c.caps
                  THEN [c EXCEPT !.ruid = u, !.euid = u, !.suid = u]
                  ELSE [c EXCEPT !.euid = u]
<1>3. d \in Credential
  BY DEF Credential
<1>4. SetUid(c, u) = [d EXCEPT !.caps = CapsAfter(c, d)]
  BY DEF SetUid
<1> HIDE DEF d
<1> QED
  BY <1>1, <1>2, <1>3, <1>4 DEF Credential

LEMMA SessionInit == Init => SessionInv
<1> SUFFICES ASSUME Init PROVE SessionInv
  OBVIOUS
<1>1. request \in RequestRecords /\ cred \in Credential
  BY RequestsAssumption DEF Init, RequestRecords
<1> QED
  BY <1>1
  DEF Init, SessionInv, Types, Points, Earned, Registered, SessionIsPermitted, Asked,
      Known, Permitted, Opened

LEMMA SessionStep == SessionInv /\ [Next]_vars => SessionInv'
<1> SUFFICES ASSUME SessionInv, [Next]_vars PROVE SessionInv'
  OBVIOUS
<1>0. None # 0 /\ None # 1 /\ None # 2 /\ Len(SessionEnv) = 3 /\ Len(DropOrder) = 3
  BY NoneIsNoCode DEF SessionEnv, DropOrder
<1> USE <1>0 DEF Exit, Proceed, SessionInv, Types, Points, Earned, Registered,
                 SessionIsPermitted, Asked, Known, Permitted, Opened, pamVars
<1>1. CASE UNCHANGED vars
  BY <1>1 DEF vars
<1>2. CASE ReadPassword
  BY <1>2 DEF ReadPassword
<1>3. CASE NewContext
  BY <1>3 DEF NewContext, Pam
<1>4. CASE Authenticate
  <2>1. /\ at = "authenticate" /\ UNCHANGED <<request, pamVars, cred, dropped>>
        /\ \/ password = request.secret /\ at' = "account" /\ UNCHANGED code
           \/ at' = "done" /\ code' = 1
    BY <1>4, Zenon DEF Authenticate, Pam
  <2> QED
    BY <2>1
<1>5. CASE AcctMgmt
  <2>1. /\ at = "account" /\ UNCHANGED <<request, pamVars, cred, dropped>>
        /\ \/ request.allowed /\ at' = "env" /\ UNCHANGED code
           \/ at' = "done" /\ code' = 1
    BY <1>5, Zenon DEF AcctMgmt, Pam
  <2> QED
    BY <2>1
<1>6. CASE PutEnv
  BY <1>6 DEF PutEnv
<1>7. CASE OpenSession
  <2>1. /\ at = "open" /\ UNCHANGED <<request, password, env, cred, dropped>>
        /\ \/ at' = "return" /\ code' = code /\ session' = "open"
           \/ at' = "done" /\ code' = 1 /\ session' = "none"
    BY <1>7 DEF OpenSession, GuardForgotten
  <2> QED
    BY <2>1
<1>8. CASE Return
  <2>1. /\ at = "return" /\ UNCHANGED <<request, password, env, cred, dropped>>
        /\ \/ request.program = "cli" /\ at' = "done" /\ code' = 0 /\ session' = "closed"
           \/ request.program # "cli" /\ at' = "drop" /\ UNCHANGED <<code, session>>
    BY <1>8 DEF Return, TornDown
  <2> QED
    BY <2>1
<1>9. CASE Drop
  <2>1. DropOrder[dropped + 1] \in {"SetGroups", "SetGid", "SetUid"}
    BY <1>9 DEF Drop, DropOrder
  <2>2. request.id.uid \in Ids /\ request.id.gid \in Ids
    BY DEF RequestRecords
  <2>3. After(DropOrder[dropped + 1], cred) \in Credential
    BY <2>1, <2>2, CredentialKept DEF After
  <2>4. cred' \in Credential
    BY <1>9, <2>3 DEF Drop
  <2> QED
    BY <1>9, <2>4 DEF Drop, GoesOn, TornDown
<1>10. CASE VerifyIrreversible
  <2>1. cred' \in Credential
    BY <1>10, CredentialKept, IdsAssumption DEF VerifyIrreversible
  <2> QED
    BY <1>10, <2>1 DEF VerifyIrreversible, GoesOn, TornDown
<1> QED
  BY <1>1, <1>2, <1>3, <1>4, <1>5, <1>6, <1>7, <1>8, <1>9, <1>10 DEF Next

(***************************************************************************)
(* A session is registered only after the secret, the account and the      *)
(* variables (lib.rs:133-141).                                             *)
(***************************************************************************)
THEOREM SessionCorrect == Spec => []SessionIsPermitted
<1> QED
  BY SessionInit, SessionStep, PTL DEF Spec, SessionInv

(***************************************************************************)
(* The exit code says whether a session was opened, and never hides that   *)
(* the secret or the account was refused (cstream-leader.rs:8-11).         *)
(***************************************************************************)
THEOREM ExitCorrect == Spec => []ExitIsTruthful
<1>1. SessionInv => ExitIsTruthful
  BY NoneIsNoCode DEF SessionInv, Registered, ExitIsTruthful, Types
<1> QED
  BY <1>1, SessionInit, SessionStep, PTL DEF Spec
-----------------------------------------------------------------------------
(***************************************************************************)
(* The drop.  Groups are gone from the first step on and nothing brings    *)
(* them back; the ids and the way to root are what the verification found. *)
(***************************************************************************)
IsUser ==
  /\ {cred.ruid, cred.euid} = {request.id.uid}
  /\ {cred.rgid, cred.egid} = {request.id.gid}
  /\ cred.groups = {}
  /\ RootIsGone(cred)

DropInv ==
  /\ SessionInv
  /\ at \in {"drop", "verify"} /\ dropped > 0 => request.id.uid # 0 /\ cred.groups = {}
  /\ at = "verify" => dropped = 3
  /\ at = "running" => IsUser

LEMMA DropInit == Init => DropInv
BY SessionInit DEF Init, DropInv

LEMMA GroupsStay ==
  ASSUME NEW c \in Credential, NEW u \in Ids
  PROVE  /\ SetGroups(c).groups = {}
         /\ SetGid(c, u).groups = c.groups
         /\ SetUid(c, u).groups = c.groups
<1>1. SetGroups(c).groups = {} /\ SetGid(c, u).groups = c.groups
  BY DEF SetGroups, SetGid, Credential
<1> DEFINE d == IF "setuid" \in c.caps
                  THEN [c EXCEPT !.ruid = u, !.euid = u, !.suid = u]
                  ELSE [c EXCEPT !.euid = u]
<1>2. d \in Credential /\ d.groups = c.groups
  BY DEF Credential
<1>3. SetUid(c, u) = [d EXCEPT !.caps = CapsAfter(c, d)]
  BY DEF SetUid
<1> HIDE DEF d
<1> QED
  BY <1>1, <1>2, <1>3 DEF Credential

LEMMA DropStep == DropInv /\ [Next]_vars => DropInv'
<1> SUFFICES ASSUME DropInv, [Next]_vars PROVE DropInv'
  OBVIOUS
<1>1. SessionInv'
  BY SessionStep DEF DropInv
<1>2. Types /\ cred \in Credential /\ request.id.uid \in Ids /\ request.id.gid \in Ids
  BY DEF DropInv, SessionInv, Types, RequestRecords
<1> USE <1>1, <1>2 DEF DropInv, Exit, Proceed, GoesOn, pamVars
<1>3. CASE UNCHANGED vars
  BY <1>3 DEF vars, IsUser
<1>4. CASE ReadPassword \/ NewContext \/ Authenticate \/ AcctMgmt \/ PutEnv \/ OpenSession
  <2>1. at' \notin {"drop", "verify", "running"}
    BY <1>4, Zenon DEF ReadPassword, NewContext, Authenticate, AcctMgmt, Pam, PutEnv,
                      OpenSession
  <2> QED
    BY <2>1
<1>5. CASE Return
  BY <1>5 DEF Return, Types
<1>6. CASE Drop
  <2>1. CASE at' = "done"
    BY <2>1
  <2>2. CASE at' # "done"
    <3>1. /\ request.id.uid # 0 /\ at' \in {"drop", "verify"}
          /\ dropped' = dropped + 1 /\ UNCHANGED request
          /\ cred' = After(DropOrder[dropped + 1], cred)
          /\ at' = "verify" => dropped' = 3
      BY <1>6, <2>2 DEF Drop, Types, DropOrder
    <3>2. /\ at = "drop" /\ dropped = 0 => DropOrder[dropped + 1] = "SetGroups"
          /\ at = "drop" /\ dropped \in 1 .. 2 => DropOrder[dropped + 1] \in {"SetGid", "SetUid"}
      BY DEF DropOrder
    <3>3. cred'.groups = {}
      BY <1>6, <3>1, <3>2, GroupsStay DEF Drop, Types, After
    <3> QED
      BY <3>1, <3>3
  <2> QED
    BY <2>1, <2>2
<1>7. CASE VerifyIrreversible
  <2>1. CASE at' = "done"
    BY <2>1
  <2>2. CASE at' # "done"
    <3>1. /\ at = "verify" /\ at' = "running" /\ UNCHANGED <<request, cred>>
          /\ {cred.ruid, cred.euid} = {request.id.uid}
          /\ {cred.rgid, cred.egid} = {request.id.gid}
          /\ ~MaySetUid(cred, 0)
      BY <1>7, <2>2 DEF VerifyIrreversible
    <3>2. request.id.uid # 0 /\ cred.groups = {}
      BY <3>1
    <3>3. IsUser
      BY <3>1, <3>2 DEF IsUser, RootIsGone, MaySetUid, Uids
    <3> QED
      BY <3>1, <3>3 DEF IsUser
  <2> QED
    BY <2>1, <2>2
<1> QED
  BY <1>3, <1>4, <1>5, <1>6, <1>7 DEF Next

(***************************************************************************)
(* Whatever the process was holding, the session it runs is the user's,    *)
(* without groups and with no way back to root (lib.rs:6-9, 34-43).        *)
(***************************************************************************)
THEOREM RunsAsUserCorrect == Spec => []RunsAsUser
<1>1. DropInv => RunsAsUser
  BY DEF DropInv, IsUser, RunsAsUser, SessionInv, Registered, Opened
<1> QED
  BY <1>1, DropInit, DropStep, PTL DEF Spec
-----------------------------------------------------------------------------
(***************************************************************************)
(* A process that is root and holds what root holds keeps both until the   *)
(* last of the three calls, which takes them away for good.                *)
(***************************************************************************)
HeldRoot ==
  request.held.euid = 0 /\ request.held.caps = Capabilities /\ request.id.uid # 0

StillRoot ==
  /\ cred.euid = 0 /\ cred.caps = Capabilities
  /\ dropped = 2 => {cred.rgid, cred.egid} = {request.id.gid}

FullyDropped ==
  /\ {cred.ruid, cred.euid, cred.suid} = {request.id.uid}
  /\ {cred.rgid, cred.egid} = {request.id.gid}
  /\ cred.caps = {}

RootInv ==
  /\ DropInv
  /\ HeldRoot =>
       /\ at \notin {"verify", "running", "done"} => StillRoot
       /\ at = "verify" => FullyDropped
       /\ at = "done" /\ request.program = "leader" => session = "none"

LEMMA RootInit == Init => RootInv
BY DropInit DEF Init, RootInv, HeldRoot, StillRoot

LEMMA RootSteps ==
  ASSUME NEW c \in Credential, NEW u \in Ids, u # 0, c.euid = 0, c.caps = Capabilities
  PROVE  /\ MaySetGroups(c) /\ MaySetGid(c, u) /\ MaySetUid(c, u)
         /\ \A g \in Ids : MaySetGid(c, g)
         /\ SetGroups(c).euid = 0 /\ SetGroups(c).caps = Capabilities
         /\ \A g \in Ids : /\ SetGid(c, g).euid = 0
                            /\ SetGid(c, g).caps = Capabilities
                            /\ {SetGid(c, g).rgid, SetGid(c, g).egid} = {g}
         /\ {SetUid(c, u).ruid, SetUid(c, u).euid, SetUid(c, u).suid} = {u}
         /\ SetUid(c, u).caps = {}
         /\ SetUid(c, u).rgid = c.rgid /\ SetUid(c, u).egid = c.egid
<1>1. "setuid" \in c.caps /\ "setgid" \in c.caps
  BY DEF Capabilities
<1>2. MaySetGroups(c) /\ MaySetUid(c, u) /\ \A g \in Ids : MaySetGid(c, g)
  BY <1>1 DEF MaySetGroups, MaySetUid, MaySetGid
<1>3. SetGroups(c).euid = 0 /\ SetGroups(c).caps = Capabilities
  BY DEF SetGroups, Credential
<1>4. ASSUME NEW g \in Ids
      PROVE  /\ SetGid(c, g).euid = 0 /\ SetGid(c, g).caps = Capabilities
             /\ {SetGid(c, g).rgid, SetGid(c, g).egid} = {g}
  BY <1>1 DEF SetGid, Credential
<1> DEFINE d == [c EXCEPT !.ruid = u, !.euid = u, !.suid = u]
<1>5. /\ d \in Credential /\ d.ruid = u /\ d.euid = u /\ d.suid = u
      /\ d.rgid = c.rgid /\ d.egid = c.egid
  BY DEF Credential
<1>6. SetUid(c, u) = [d EXCEPT !.caps = CapsAfter(c, d)]
  BY <1>1 DEF SetUid
<1> HIDE DEF d
<1>7. CapsAfter(c, d) = {}
  BY <1>5 DEF CapsAfter
<1>8. /\ {SetUid(c, u).ruid, SetUid(c, u).euid, SetUid(c, u).suid} = {u}
      /\ SetUid(c, u).caps = {}
      /\ SetUid(c, u).rgid = c.rgid /\ SetUid(c, u).egid = c.egid
  BY <1>5, <1>6, <1>7 DEF Credential
<1> QED
  BY <1>2, <1>3, <1>4, <1>8

LEMMA RootStep == RootInv /\ [Next]_vars => RootInv'
<1> SUFFICES ASSUME RootInv, [Next]_vars PROVE RootInv'
  OBVIOUS
<1>1. DropInv'
  BY DropStep DEF RootInv
<1>2. /\ SessionInv /\ Types /\ cred \in Credential /\ request.id.uid \in Ids
      /\ request.id.gid \in Ids
  BY DEF RootInv, DropInv, SessionInv, Types, RequestRecords
<1> USE <1>1, <1>2 DEF RootInv, HeldRoot, Exit, Proceed, GoesOn, pamVars
<1>3. CASE UNCHANGED vars
  BY <1>3 DEF vars, StillRoot, FullyDropped
<1>4. CASE ReadPassword \/ NewContext \/ Authenticate \/ AcctMgmt \/ PutEnv
  <2>1. /\ UNCHANGED <<request, session, cred, dropped>>
        /\ at \notin {"verify", "running", "done"} \cup Opened
        /\ at' \notin {"verify", "running"}
    BY <1>4, Zenon DEF ReadPassword, NewContext, Authenticate, AcctMgmt, Pam, PutEnv, Opened
  <2>2. session = "none"
    BY <2>1 DEF SessionInv, Registered, Types
  <2> QED
    BY <2>1, <2>2 DEF StillRoot
<1>5. CASE OpenSession
  <2>1. /\ UNCHANGED <<request, cred, dropped>> /\ at = "open"
        /\ at' = "return" \/ (at' = "done" /\ session' = "none")
    BY <1>5 DEF OpenSession
  <2> QED
    BY <2>1 DEF StillRoot
<1>6. CASE Return
  <2>1. /\ UNCHANGED <<request, cred, dropped>> /\ at = "return"
        /\ at' = "drop" \/ (at' = "done" /\ request.program = "cli")
    BY <1>6 DEF Return
  <2> QED
    BY <2>1 DEF StillRoot
<1>7. CASE Drop
  <2>1. UNCHANGED request /\ at = "drop" /\ dropped \in 0 .. 2
    BY <1>7 DEF Drop, Types
  <2> SUFFICES ASSUME HeldRoot
               PROVE  /\ at' \notin {"verify", "running", "done"} => StillRoot'
                      /\ at' = "verify" => FullyDropped'
                      /\ at' # "done"
    BY <2>1
  <2>2. StillRoot
    BY <2>1
  <2>3. CASE dropped = 0
    <3>1. DropOrder[dropped + 1] = "SetGroups" /\ Len(DropOrder) = 3
      BY <2>3 DEF DropOrder
    <3>2. cred' = SetGroups(cred) /\ dropped' = 1 /\ at' = "drop"
      BY <1>7, <2>2, <2>3, <3>1, RootSteps DEF Drop, May, After, StillRoot
    <3> QED
      BY <2>2, <3>2, RootSteps DEF StillRoot
  <2>4. CASE dropped = 1
    <3>1. DropOrder[dropped + 1] = "SetGid" /\ Len(DropOrder) = 3
      BY <2>4 DEF DropOrder
    <3>2. cred' = SetGid(cred, request.id.gid) /\ dropped' = 2 /\ at' = "drop"
      BY <1>7, <2>2, <2>4, <3>1, RootSteps DEF Drop, May, After, StillRoot
    <3> QED
      BY <2>1, <2>2, <3>2, RootSteps DEF StillRoot
  <2>5. CASE dropped = 2
    <3>1. DropOrder[dropped + 1] = "SetUid" /\ Len(DropOrder) = 3
      BY <2>5 DEF DropOrder
    <3>2. cred' = SetUid(cred, request.id.uid) /\ at' = "verify"
      BY <1>7, <2>2, <2>5, <3>1, RootSteps DEF Drop, May, After, StillRoot
    <3> QED
      BY <2>1, <2>2, <2>5, <3>2, RootSteps DEF StillRoot, FullyDropped
  <2> QED
    BY <2>1, <2>3, <2>4, <2>5
<1>8. CASE VerifyIrreversible
  <2>1. UNCHANGED request /\ at = "verify" /\ at' \in {"running", "done"}
    BY <1>8 DEF VerifyIrreversible
  <2> SUFFICES ASSUME HeldRoot PROVE at' # "done"
    BY <2>1
  <2>2. FullyDropped
    BY <2>1
  <2>3. ~MaySetUid(cred, 0) /\ {cred.ruid, cred.euid} = {request.id.uid}
    BY <2>2 DEF FullyDropped, MaySetUid
  <2> QED
    BY <1>8, <2>2, <2>3 DEF VerifyIrreversible, FullyDropped
<1> QED
  BY <1>3, <1>4, <1>5, <1>6, <1>7, <1>8 DEF Next

(***************************************************************************)
(* A process with root's rights never fails to drop to a user: the three   *)
(* calls come in an order in which each is still permitted (lib.rs:6-9).   *)
(***************************************************************************)
THEOREM RootCanDropCorrect == Spec => []RootCanDrop
<1>1. RootInv => RootCanDrop
  BY DEF RootInv, HeldRoot, RootCanDrop
<1> QED
  BY <1>1, RootInit, RootStep, PTL DEF Spec
-----------------------------------------------------------------------------
(***************************************************************************)
(* What ends_with and pop do to a text of any length.                      *)
(***************************************************************************)
LEMMA WithoutLastOf ==
  ASSUME NEW S, NEW text \in Seq(S), NEW c \in S
  PROVE  /\ WithoutLast(text \o <<c>>, c) = text
         /\ \A end : WithoutLast(text, end) \in Seq(S)
<1> DEFINE longer == text \o <<c>>
<1>1. /\ longer \in Seq(S) /\ longer # <<>> /\ Len(longer) = Len(text) + 1
      /\ longer[Len(longer)] = c
  OBVIOUS
<1>2. SubSeq(longer, 1, Len(longer) - 1) = text
  OBVIOUS
<1>3. WithoutLast(longer, c) = text
  BY <1>1, <1>2 DEF WithoutLast
<1>4. ASSUME NEW end PROVE WithoutLast(text, end) \in Seq(S)
  <2>1. SubSeq(text, 1, Len(text) - 1) \in Seq(S)
    <3>1. CASE text = <<>>
      BY <3>1
    <3>2. CASE text # <<>>
      BY <3>2
    <3> QED
      BY <3>1, <3>2
  <2> QED
    BY <2>1 DEF WithoutLast
<1> QED
  BY <1>3, <1>4

\* One line ending of either kind is taken off, and no more than that.
LEMMA StrippedOf ==
  ASSUME NEW text \in Texts
  PROVE  /\ Stripped(text) \in Texts
         /\ Stripped(text \o <<"LF">>) = WithoutLast(text, "CR")
         /\ Stripped(text \o <<"CR", "LF">>) = text
<1> DEFINE S == {"x", "CR", "LF"}
<1>1. text \in Seq(S) /\ text \o <<"CR">> \in Seq(S)
  BY DEF Texts
<1>2. text \o <<"CR", "LF">> = (text \o <<"CR">>) \o <<"LF">>
  BY <1>1
<1>3. ASSUME NEW t \in Seq(S), NEW c \in S PROVE WithoutLast(t \o <<c>>, c) = t
  <2> HIDE DEF S
  <2> QED
    BY WithoutLastOf
<1>4. WithoutLast(text \o <<"LF">>, "LF") = text /\ WithoutLast(text \o <<"CR">>, "CR") = text
  BY <1>1, <1>3
<1>5. WithoutLast((text \o <<"CR">>) \o <<"LF">>, "LF") = text \o <<"CR">>
  BY <1>1, <1>3
<1>6. WithoutLast(WithoutLast(text, "LF"), "CR") \in Seq(S)
  <2>1. WithoutLast(text, "LF") \in Seq(S)
    BY <1>1, WithoutLastOf
  <2> QED
    BY <2>1, WithoutLastOf
<1> QED
  BY <1>2, <1>4, <1>5, <1>6 DEF Stripped, Texts

(***************************************************************************)
(* A secret sent with one line ending reaches PAM as it is, however long   *)
(* it is (cstream-leader.rs:26-29).                                        *)
(***************************************************************************)
THEOREM SecretCorrect == Spec => []SecretArrives
<1>1. SessionInv => SecretArrives
  <2> SUFFICES ASSUME SessionInv, at \notin {"start", "done"},
                      WithoutLast(request.secret, "CR") = request.secret,
                      \/ request.stdin = request.secret \o <<"LF">>
                      \/ request.stdin = request.secret \o <<"CR", "LF">>
               PROVE  password = request.secret
    BY DEF SecretArrives
  <2>1. request.secret \in Texts
    BY DEF SessionInv, Types, RequestRecords
  <2>2. Stripped(request.stdin) = request.secret
    BY <2>1, StrippedOf
  <2>3. password = Stripped(request.stdin)
    BY DEF SessionInv, Types, Earned, Points, Asked, Known, Permitted, Opened
  <2> QED
    BY <2>2, <2>3
<1> QED
  BY <1>1, SessionInit, SessionStep, PTL DEF Spec

(***************************************************************************)
(* Every variable keeps its type; what was read is a text again.           *)
(***************************************************************************)
THEOREM LeaderTypes == Spec => []TypeOK
<1> DEFINE TypesInv == SessionInv /\ password \in Texts
<1>1. Init => TypesInv
  BY SessionInit DEF Init, Texts
<1>2. TypesInv /\ [Next]_vars => TypesInv'
  <2> SUFFICES ASSUME TypesInv, [Next]_vars PROVE TypesInv'
    OBVIOUS
  <2>1. password' = password \/ ReadPassword
    BY Zenon DEF Next, vars, pamVars, NewContext, Authenticate, AcctMgmt, Pam, PutEnv,
                 OpenSession, Return, Drop, VerifyIrreversible
  <2>2. ASSUME ReadPassword PROVE password' \in Texts
    <3>1. request.stdin # None => request.stdin \in Texts
      BY DEF SessionInv, Types, RequestRecords
    <3>2. request.stdin \in Texts => Stripped(request.stdin) \in Texts
      BY StrippedOf
    <3> QED
      BY <2>2, <3>1, <3>2 DEF ReadPassword
  <2> QED
    BY <2>1, <2>2, SessionStep
<1>3. TypesInv => TypeOK
  BY DEF SessionInv, Types, TypeOK, SessionEnv
<1> QED
  BY <1>1, <1>2, <1>3, PTL DEF Spec
-----------------------------------------------------------------------------
(***************************************************************************)
(* What the session may go on to do with the identity it runs under: any   *)
(* of the three calls that the kernel permits, with any id, any number of  *)
(* times.                                                                  *)
(***************************************************************************)
AnyCall ==
  \/ MaySetGroups(cred) /\ cred' = SetGroups(cred)
  \/ \E g \in Ids : MaySetGid(cred, g) /\ cred' = SetGid(cred, g)
  \/ \E u \in Ids : MaySetUid(cred, u) /\ cred' = SetUid(cred, u)

LEMMA NoCallClimbs ==
  ASSUME NEW c \in Credential, RootIsGone(c), NEW u \in Ids
  PROVE  /\ RootIsGone(SetGroups(c))
         /\ RootIsGone(SetGid(c, u))
         /\ MaySetUid(c, u) => RootIsGone(SetUid(c, u))
<1>1. "setuid" \notin c.caps /\ c.ruid # 0 /\ c.euid # 0 /\ c.suid # 0
  BY DEF RootIsGone, Uids
<1>2. RootIsGone(SetGroups(c)) /\ RootIsGone(SetGid(c, u))
  BY <1>1 DEF RootIsGone, Uids, SetGroups, SetGid, Credential
<1>3. ASSUME MaySetUid(c, u) PROVE RootIsGone(SetUid(c, u))
  <2> DEFINE d == [c EXCEPT !.euid = u]
  <2>1. u # 0
    BY <1>1, <1>3 DEF MaySetUid
  <2>2. /\ d \in Credential /\ d.ruid = c.ruid /\ d.euid = u /\ d.suid = c.suid
    BY DEF Credential
  <2>3. SetUid(c, u) = [d EXCEPT !.caps = CapsAfter(c, d)]
    BY <1>1 DEF SetUid
  <2> HIDE DEF d
  <2>4. "setuid" \notin CapsAfter(c, d)
    BY <1>1, <2>1, <2>2 DEF CapsAfter
  <2> QED
    BY <1>1, <2>1, <2>2, <2>3, <2>4 DEF RootIsGone, Uids, Credential
<1> QED
  BY <1>2, <1>3

(***************************************************************************)
(* What the verification finds once is found for good: no sequence of      *)
(* these calls, of any length, makes the process root again, so that one   *)
(* refused setuid(0) is enough (lib.rs:73-78).                             *)
(***************************************************************************)
THEOREM RootStaysGone ==
  cred \in Credential /\ RootIsGone(cred) /\ [][AnyCall]_cred => []RootIsGone(cred)
<1> DEFINE Gone == cred \in Credential /\ RootIsGone(cred)
<1>1. Gone /\ [AnyCall]_cred => Gone'
  <2> SUFFICES ASSUME Gone, [AnyCall]_cred PROVE Gone'
    OBVIOUS
  <2>1. CASE UNCHANGED cred
    BY <2>1
  <2>2. CASE MaySetGroups(cred) /\ cred' = SetGroups(cred)
    BY <2>2, IdsAssumption, CredentialKept, NoCallClimbs
  <2>3. ASSUME NEW g \in Ids, cred' = SetGid(cred, g) PROVE Gone'
    BY <2>3, CredentialKept, NoCallClimbs
  <2>4. ASSUME NEW u \in Ids, MaySetUid(cred, u), cred' = SetUid(cred, u) PROVE Gone'
    BY <2>4, CredentialKept, NoCallClimbs
  <2> QED
    BY <2>1, <2>2, <2>3, <2>4 DEF AnyCall
<1> QED
  BY <1>1, PTL
=============================================================================
