---------------------------- MODULE ExecContract ----------------------------
(***************************************************************************)
(* What an interactive exec session promises its client, whatever carries  *)
(* the bytes: every piece of output of the command arrives, a stream is    *)
(* closed only behind its last piece, and the exit of the command is the   *)
(* last thing the client hears.  A session may also just fall silent.      *)
(***************************************************************************)
EXTENDS Naturals

CONSTANT Stream

VARIABLES
  made,       \* pieces of output the command has written, by stream
  delivered,  \* pieces the client has received
  closed,     \* streams the client has been told to be at their end
  ended,      \* the command has terminated
  reported    \* the client has been told so

vars == <<made, delivered, closed, ended, reported>>

Init ==
  /\ made = [s \in Stream |-> 0]
  /\ delivered = [s \in Stream |-> 0]
  /\ closed = {}
  /\ ended = FALSE
  /\ reported = FALSE

Produce(s) ==
  /\ ~ended
  /\ made' = [made EXCEPT ![s] = @ + 1]
  /\ UNCHANGED <<delivered, closed, ended, reported>>

Deliver(s) ==
  /\ delivered[s] < made[s]
  /\ s \notin closed
  /\ ~reported
  /\ delivered' = [delivered EXCEPT ![s] = @ + 1]
  /\ UNCHANGED <<made, closed, ended, reported>>

Terminate ==
  /\ ~ended
  /\ ended' = TRUE
  /\ UNCHANGED <<made, delivered, closed, reported>>

CloseStream(s) ==
  /\ ended
  /\ delivered[s] = made[s]
  /\ ~reported
  /\ closed' = closed \cup {s}
  /\ UNCHANGED <<made, delivered, ended, reported>>

Report ==
  /\ ended
  /\ closed = Stream
  /\ reported' = TRUE
  /\ UNCHANGED <<made, delivered, closed, ended>>

Next ==
  \/ \E s \in Stream : Produce(s) \/ Deliver(s) \/ CloseStream(s)
  \/ Terminate
  \/ Report

Spec == Init /\ [][Next]_vars
=============================================================================
