----------------------------- MODULE Invocation -----------------------------
(***************************************************************************)
(* What one call of ph.exe promises, seen from outside: it starts at most  *)
(* one precmd and then at most one cmd, and it ends once.  An invocation   *)
(* that ends with an error has started nothing; one that has started its   *)
(* precmd goes on to start its cmd, and one that has started its cmd can   *)
(* only end with OK (unless it is killed from outside).                    *)
(***************************************************************************)
EXTENDS Integers, Sequences

CONSTANTS
  Proc,   \* the invocations
  Killed  \* the exit code of an invocation that was killed

Running == -1

VARIABLES
  exit,   \* the exit code, Running before there is one
  kinds   \* the kinds of the commands it has started, in order

vars == <<exit, kinds>>

Init ==
  /\ exit = [p \in Proc |-> Running]
  /\ kinds = [p \in Proc |-> <<>>]

StartPrecmd(p) ==
  /\ exit[p] = Running /\ kinds[p] = <<>>
  /\ kinds' = [kinds EXCEPT ![p] = <<"precmd">>]
  /\ UNCHANGED exit

StartCmd(p) ==
  /\ exit[p] = Running /\ kinds[p] \in {<<>>, <<"precmd">>}
  /\ kinds' = [kinds EXCEPT ![p] = Append(@, "cmd")]
  /\ UNCHANGED exit

\* It ends without having started anything, with whatever code.
Refuse(p) ==
  /\ exit[p] = Running /\ kinds[p] = <<>>
  /\ exit'[p] \in Int \ {Running}
  /\ exit' = [exit EXCEPT ![p] = exit'[p]]
  /\ UNCHANGED kinds

Succeed(p) ==
  /\ exit[p] = Running /\ kinds[p] \in {<<"cmd">>, <<"precmd", "cmd">>}
  /\ exit' = [exit EXCEPT ![p] = 0]
  /\ UNCHANGED kinds

Die(p) ==
  /\ exit[p] = Running
  /\ exit' = [exit EXCEPT ![p] = Killed]
  /\ UNCHANGED kinds

Next == \E p \in Proc : StartPrecmd(p) \/ StartCmd(p) \/ Refuse(p)
                        \/ Succeed(p) \/ Die(p)

Spec == Init /\ [][Next]_vars

=============================================================================
