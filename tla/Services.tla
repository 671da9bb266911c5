------------------------------ MODULE Services ------------------------------
(***************************************************************************)
(* Fingerprint and HandleCommands.  The two share no state, so that a      *)
(* behaviour is about one of them, chosen at the start, with the other at  *)
(* rest.                                                                   *)
(***************************************************************************)
EXTENDS Fingerprint, HandleCommands

VARIABLE part  \* the component at work

vars == <<fpVars, handleVars, part>>

TypeOK == FpTypeOK /\ HandleTypeOK /\ part \in {"fingerprint", "handle"}

Init == FpInit /\ HandleInit /\ part \in {"fingerprint", "handle"}

Next ==
  \/ FpNext /\ part = "fingerprint" /\ UNCHANGED <<handleVars, part>>
  \/ HandleNext /\ part = "handle" /\ UNCHANGED <<fpVars, part>>

Spec == Init /\ [][Next]_vars

-----------------------------------------------------------------------------
(* Fairness: a goroutine at a select, in a command or in a sleep goes on.  *)
(* Return has strong fairness: Go chooses at random between the cases of a *)
(* select that are ready, and a cancelled context stays ready.  The client *)
(* of a call, a configuration and Shutdown owe nothing, but a reader that  *)
(* is there receives.                                                      *)

Fp(Action)     == part = "fingerprint" /\ Action /\ UNCHANGED <<handleVars, part>>
Handle(Action) == part = "handle" /\ Action /\ UNCHANGED <<fpVars, part>>

Fairness ==
  /\ WF_vars(Fp(Tick \/ Send))
  /\ SF_vars(Fp(Return))
  /\ \A c \in Call :
       /\ WF_vars(Handle(StatStep(c)))
       /\ SF_vars(Handle(StatReturn(c)))
  /\ WF_vars(Handle(ExecWait))

FairSpec == Spec /\ Fairness
=============================================================================
