---------------------------- MODULE MCPotDriver ----------------------------
(***************************************************************************)
(* PotDriver for one task, with all that runs for it at the same time: an  *)
(* RPC that launches or forgets it, StopTask, WaitTask, and the goroutines *)
(* run, potWait or recoverWait, and handleWait.  Tasks share nothing but   *)
(* the life of the plugin and ctx.  The runs differ in Faults, given in    *)
(* their cfg files; one non-zero exit code of the enclosed program is      *)
(* enough to tell its own code from success (0) and from defaultFailedCode *)
(* (255).                                                                  *)
(***************************************************************************)
EXTENDS PotDriver

CONSTANT t1
=============================================================================
