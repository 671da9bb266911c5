--------------------------- MODULE ServicesProofs ---------------------------
(***************************************************************************)
(* Proofs about Services: how stale a fingerprint can be, and, for any     *)
(* number of statistics streams, what the race for the exit code of a      *)
(* handle can do: a lone stream sends its own samples, and none ends       *)
(* without a cause.                                                        *)
(***************************************************************************)
EXTENDS Services, TLAPS

FpSpec     == FpInit /\ [][FpNext]_fpVars
HandleSpec == HandleInit /\ [][HandleNext]_handleVars

\* Each component takes its own steps, or rests.
LEMMA Parts == Spec => FpSpec /\ HandleSpec
<1>1. Init => FpInit /\ HandleInit
  BY DEF Init
<1>2. [Next]_vars => [FpNext]_fpVars /\ [HandleNext]_handleVars
  BY DEF Next, vars
<1> QED
  BY <1>1, <1>2, PTL DEF Spec, FpSpec, HandleSpec

-----------------------------------------------------------------------------
\* The flags of both components.
FpFlags     == /\ enabled \in BOOLEAN /\ stopped \in BOOLEAN
               /\ left \in BOOLEAN /\ reading \in BOOLEAN
HandleFlags == /\ failed \in BOOLEAN /\ waiting \in BOOLEAN
               /\ cancelled \in [Call -> BOOLEAN]
               /\ json \in [Call -> BOOLEAN]

LEMMA FpFlagsTyped == FpSpec => []FpFlags
<1>1. FpInit => FpFlags
  BY DEF FpInit, FpFlags
<1>2. FpFlags /\ [FpNext]_fpVars => FpFlags'
  BY DEF FpFlags, FpNext, fpVars, SetConfig, FpShutdown, FingerprintCall,
         Leave, StopReading, Tick, Send, Return
<1> QED
  BY <1>1, <1>2, PTL DEF FpSpec

LEMMA HandleFlagsTyped == HandleSpec => []HandleFlags
<1>1. HandleInit => HandleFlags
  BY DEF HandleInit, HandleFlags
<1>2. HandleFlags /\ [HandleNext]_handleVars => HandleFlags'
  BY DEF HandleFlags, HandleNext, handleVars, statVars, execVars, TaskStats,
         Cancel, StatStep, StatTick, StatCommand, StatCheck, StatSend,
         StatReturn, OnlyStat, ExecTask, ExecWait, OnlyExec
<1> QED
  BY <1>1, <1>2, PTL DEF HandleSpec

\* A fingerprint that is under way since a change of the configuration, and is
\* not the first one, is up to date.
FreshInv ==
  /\ at \in {"off", "select", "send", "closed"}
  /\ built \in Health
  /\ seen \in Health \cup {"none"}
  /\ since \in 0..Many
  /\ since > 0 /\ at = "send" => built = buildFingerprint
  /\ since = Many => seen = buildFingerprint

LEMMA Fresh == FpSpec => []FreshInv
<1>1. FpInit => FreshInv
  BY DEF FpInit, FreshInv, Health, Many
<1>2. FreshInv /\ [FpNext]_fpVars => FreshInv'
  <2> SUFFICES ASSUME FreshInv, [FpNext]_fpVars
               PROVE  FreshInv'
    OBVIOUS
  <2> USE DEF FreshInv, Health, Many, buildFingerprint
  <2>1. CASE SetConfig
    BY <2>1 DEF SetConfig
  <2>2. CASE FpShutdown \/ FingerprintCall \/ Leave \/ StopReading
    BY <2>2 DEF FpShutdown, FingerprintCall, Leave, StopReading
  <2>3. CASE Tick
    BY <2>3 DEF Tick
  <2>4. CASE Send
    BY <2>4 DEF Send
  <2>5. CASE Return
    BY <2>5 DEF Return
  <2>6. CASE UNCHANGED fpVars
    BY <2>6 DEF fpVars
  <2> QED
    BY <2>1, <2>2, <2>3, <2>4, <2>5, <2>6 DEF FpNext
<1> QED
  BY <1>1, <1>2, PTL DEF FpSpec

-----------------------------------------------------------------------------
\* A stream sleeps before its end, and only when a command has failed or its
\* own has printed no JSON.  As long as no other stream has been opened, the
\* exit code is that of its own command.
SleepCause(c) == stat[c] = "sleep" => failed \/ ~json[c]
Alone(c)      == \A d \in Call \ {c} : stat[d] = "off"

OwnInv ==
  /\ code \in Codes
  /\ stat \in [Call -> StatPc]
  /\ reply \in [Call -> Codes]
  /\ exec \in {"idle", "wait", "done"}
  /\ execCode \in Codes
  /\ code # 0 => failed
  /\ \A c \in Call : SleepCause(c)
  /\ \A c \in Call : stat[c] = "check" /\ Alone(c) => code = reply[c]
  /\ LoneSampleIsOwn

LEMMA OwnInit == HandleInit => OwnInv
  BY DEF HandleInit, OwnInv, StatPc, Codes, SleepCause, LoneSampleIsOwn

\* No stream goes back to "off": one that has had company keeps it.
LEMMA OwnNext == OwnInv /\ HandleFlags /\ [HandleNext]_handleVars => OwnInv'
<1> SUFFICES ASSUME OwnInv, HandleFlags, [HandleNext]_handleVars
             PROVE  OwnInv'
  OBVIOUS
<1> USE DEF OwnInv, StatPc, Codes, SleepCause, Alone, LoneSampleIsOwn,
            statVars, execVars, OnlyStat, OnlyExec, StatGoto
<1>1. ASSUME NEW c \in Call, TaskStats(c) \/ Cancel(c)
      PROVE  OwnInv'
  BY <1>1 DEF TaskStats, Cancel
<1>2. ASSUME NEW c \in Call, StatTick(c) \/ StatSend(c) \/ StatReturn(c)
      PROVE  OwnInv'
  BY <1>2 DEF StatTick, StatSend, StatReturn
<1>3. ASSUME NEW c \in Call, StatCommand(c)
      PROVE  OwnInv'
  <2>1. PICK s \in Codes : /\ reply' = [reply EXCEPT ![c] = s]
                           /\ code' = s
                           /\ failed' = (failed \/ s # 0)
    BY <1>3 DEF StatCommand
  <2>2. failed \/ s # 0 => failed'
    BY <2>1
  <2>3. /\ stat[c] = "command" /\ stat' = [stat EXCEPT ![c] = "check"]
        /\ UNCHANGED <<exec, execCode>>
    BY <1>3 DEF StatCommand
  <2>4. \A d \in Call \ {c} : json'[d] = json[d]
    BY <1>3 DEF StatCommand, HandleFlags
  <2>5. \A d \in Call : SleepCause(d)'
    BY <2>2, <2>3, <2>4
  <2> QED
    BY <2>1, <2>2, <2>3, <2>5
<1>4. ASSUME NEW c \in Call, StatCheck(c)
      PROVE  OwnInv'
  <2>1. /\ stat[c] = "check"
        /\ \/ /\ code = 0
              /\ stat' = [stat EXCEPT ![c] = "send"]
           \/ /\ code # 0 \/ ~json[c]
              /\ stat' = [stat EXCEPT ![c] = "sleep"]
        /\ UNCHANGED <<code, failed, cancelled, reply, json, exec, execCode>>
    BY <1>4 DEF StatCheck
  <2>2. \A d \in Call : SleepCause(d)'
    BY <2>1
  <2> QED
    BY <2>1, <2>2
<1>5. CASE ExecTask
  BY <1>5 DEF ExecTask
<1>6. CASE ExecWait
  BY <1>6 DEF ExecWait
<1>7. CASE UNCHANGED handleVars
  BY <1>7 DEF handleVars
<1> QED
  BY <1>1, <1>2, <1>3, <1>4, <1>5, <1>6, <1>7 DEF HandleNext, StatStep

LEMMA Own == HandleSpec => []OwnInv
  BY OwnInit, OwnNext, HandleFlagsTyped, PTL DEF HandleSpec

-----------------------------------------------------------------------------
(* What a reader should know of.                                           *)

\* Every variable of both components has its type.
THEOREM TypeCorrect == Spec => []TypeOK
<1>1. Spec => [](part \in {"fingerprint", "handle"})
  <2>1. Init => part \in {"fingerprint", "handle"}
    BY DEF Init
  <2>2. part \in {"fingerprint", "handle"} /\ [Next]_vars
          => (part \in {"fingerprint", "handle"})'
    BY DEF Next, vars
  <2> QED
    BY <2>1, <2>2, PTL DEF Spec
<1>2. FpFlags /\ FreshInv => FpTypeOK
  BY DEF FpFlags, FreshInv, FpTypeOK
<1>3. HandleFlags /\ OwnInv => HandleTypeOK
  BY DEF HandleFlags, OwnInv, HandleTypeOK
<1> QED
  BY <1>1, <1>2, <1>3, Parts, FpFlagsTyped, Fresh, HandleFlagsTyped, Own, PTL
     DEF TypeOK

\* After a SetConfig the reader sees one stale fingerprint at most.
THEOREM OneStaleFingerprint == Spec => []StaleOnce
<1>1. FreshInv => StaleOnce
  BY DEF FreshInv, StaleOnce
<1> QED
  BY <1>1, Parts, Fresh, PTL

\* What a failed statistics command prints is never sent as a sample while its
\* stream is the only one of the task, whatever commands ExecTask runs.
THEOREM LoneSamplesAreOwn == Spec => []LoneSampleIsOwn
<1>1. OwnInv => LoneSampleIsOwn
  BY DEF OwnInv
<1> QED
  BY <1>1, Parts, Own, PTL

\* No number of streams that write one exit code makes one of them end while
\* its call goes on, its command has printed JSON, and every statistics command
\* has succeeded.
THEOREM StreamsEndForCause == Spec => StreamEndsForCause
<1> DEFINE Cause == \A c \in Call : StatReturn(c) => cancelled[c] \/ failed \/ ~json[c]
<1>1. OwnInv => Cause
  BY DEF OwnInv, SleepCause, StatReturn
<1>2. OwnInv /\ [HandleNext]_handleVars => [Cause]_handleVars
  BY <1>1
<1> QED
  BY <1>2, Parts, Own, PTL DEF HandleSpec, StreamEndsForCause
=============================================================================
