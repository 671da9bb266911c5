---------------------------- MODULE TaskContract ----------------------------
(***************************************************************************)
(* What the driver promises a client that looks at its tasks: a task that  *)
(* has been taken over, by a start or a recovery, runs until it has        *)
(* exited, it never comes back to life, and its exit is told only after    *)
(* it.  With the plugin goes all it knows, never what it has told.         *)
(***************************************************************************)
CONSTANT Task

VARIABLES
  status,  \* "none", "running" or "exited", as far as the plugin knows
  told     \* the client has heard of the exit of the task

vars == <<status, told>>

Init ==
  /\ status = [t \in Task |-> "none"]
  /\ told = [t \in Task |-> FALSE]

TakeOver(t) ==
  /\ status[t] = "none"
  /\ status' = [status EXCEPT ![t] = "running"]
  /\ UNCHANGED told

Exit(t) ==
  /\ status[t] = "running"
  /\ status' = [status EXCEPT ![t] = "exited"]
  /\ UNCHANGED told

Tell(t) ==
  /\ status[t] = "exited"
  /\ told' = [told EXCEPT ![t] = TRUE]
  /\ UNCHANGED status

Forget ==
  /\ status' = [t \in Task |-> "none"]
  /\ UNCHANGED told

Next ==
  \/ Forget
  \/ \E t \in Task : TakeOver(t) \/ Exit(t) \/ Tell(t)

Spec == Init /\ [][Next]_vars
=============================================================================
