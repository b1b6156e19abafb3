------------------------------ MODULE MCLeader ------------------------------
(* Instances of Leader for TLC. *)
EXTENDS Leader

Root(g) == [ruid |-> 0, euid |-> 0, suid |-> 0, rgid |-> 0, egid |-> 0, sgid |-> 0,
            groups |-> g, caps |-> Capabilities]

Alice == [uid |-> 1, gid |-> 1]

Ask(program, stdin, secret) ==
  [program |-> program, usage |-> TRUE, stdin |-> stdin, secret |-> secret,
   allowed |-> TRUE, held |-> Root({0}), id |-> Alice]

Secrets == {<<>>, <<"x">>, <<"x", "LF">>, <<"x", "CR">>}

\* Every secret with every ending, or another one's, of any account.
Logins ==
  {[Ask(p, t \o e, s) EXCEPT !.allowed = a] :
     p \in {"cli", "leader"}, t \in Secrets, s \in Secrets, a \in BOOLEAN,
     e \in {<<>>, <<"LF">>, <<"CR", "LF">>}}

\* What is wrong before PAM is asked.
Misuses ==
  {[Ask("cli", <<"x">>, <<"x">>) EXCEPT !.usage = FALSE],
   Ask("cli", None, <<"x">>)}

\* A session leader that holds anything a process can hold, and every target.
Drops ==
  {[Ask("leader", <<"x">>, <<"x">>) EXCEPT !.held = c, !.id = i] :
     c \in {d \in Credential : d.groups \in {{}, {0}}},
     i \in [uid : Ids, gid : Ids]}

AnyRequest == Logins \cup Misuses \cup Drops
=============================================================================
