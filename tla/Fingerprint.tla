---------------------------- MODULE Fingerprint ----------------------------
(***************************************************************************)
(* How the agent learns of the health of the driver: SetConfig, Shutdown   *)
(* and one Fingerprint call with its goroutine handleFingerprint and its   *)
(* reader.  A tick is always possible: how long the timer runs, and how    *)
(* long the select takes, is not told apart.                               *)
(***************************************************************************)
EXTENDS Integers

VARIABLES
  enabled,  \* Driver.config.Enabled
  stopped,  \* Driver.ctx is cancelled
  left,     \* the context of the call is cancelled
  reading,  \* the reader still receives
  at,       \* where handleFingerprint is
  built,    \* the fingerprint it sends
  seen,     \* the last one the reader has received
  since     \* how many it has received since SetConfig, up to Many (history)

fpVars == <<enabled, stopped, left, reading, at, built, seen, since>>

Health == {"healthy", "undetected"}
Many   == 2

FpTypeOK ==
  /\ enabled \in BOOLEAN /\ stopped \in BOOLEAN
  /\ left \in BOOLEAN /\ reading \in BOOLEAN
  /\ at \in {"off", "select", "send", "closed"}
  /\ built \in Health
  /\ seen \in Health \cup {"none"}
  /\ since \in 0..Many

FpInit ==
  /\ enabled = FALSE /\ stopped = FALSE
  /\ left = FALSE /\ reading = TRUE
  /\ at = "off"
  /\ built = "undetected"
  /\ seen = "none"
  /\ since = 0

-----------------------------------------------------------------------------
\* A configuration that does not decode leaves the old one; one that is empty
\* does not enable the driver.
SetConfig ==
  /\ enabled' \in BOOLEAN
  /\ since' = 0
  /\ UNCHANGED <<stopped, left, reading, at, built, seen>>

FpShutdown ==
  /\ stopped' = TRUE
  /\ UNCHANGED <<enabled, left, reading, at, built, seen, since>>

FingerprintCall ==
  /\ at = "off"
  /\ at' = "select"
  /\ UNCHANGED <<enabled, stopped, left, reading, built, seen, since>>

\* The agent cancels the call; its reader leaves at some time after that.
Leave ==
  /\ at # "off"
  /\ left' = TRUE
  /\ UNCHANGED <<enabled, stopped, reading, at, built, seen, since>>

StopReading ==
  /\ left
  /\ reading' = FALSE
  /\ UNCHANGED <<enabled, stopped, left, at, built, seen, since>>

buildFingerprint == IF enabled THEN "healthy" ELSE "undetected"

\* (Mutant: the fingerprint is built once.)
TickOnce ==
  /\ at = "select"
  /\ at' = "send"
  /\ built' = IF seen = "none" THEN buildFingerprint ELSE built
  /\ UNCHANGED <<enabled, stopped, left, reading, seen, since>>

Tick ==
  /\ at = "select"
  /\ at' = "send"
  /\ built' = buildFingerprint
  /\ UNCHANGED <<enabled, stopped, left, reading, seen, since>>

\* The send watches neither context.
Send ==
  /\ at = "send"
  /\ reading
  /\ at' = "select"
  /\ seen' = built
  /\ since' = IF since = Many THEN Many ELSE since + 1
  /\ UNCHANGED <<enabled, stopped, left, reading, built>>

\* (Mutant: Driver.ctx is not watched.)
ReturnLeft ==
  /\ at = "select"
  /\ left
  /\ at' = "closed"
  /\ UNCHANGED <<enabled, stopped, left, reading, built, seen, since>>

Return ==
  /\ at = "select"
  /\ left \/ stopped
  /\ at' = "closed"
  /\ UNCHANGED <<enabled, stopped, left, reading, built, seen, since>>

FpNext ==
  \/ SetConfig
  \/ FpShutdown
  \/ FingerprintCall
  \/ Leave
  \/ StopReading
  \/ Tick
  \/ Send
  \/ Return

-----------------------------------------------------------------------------
\* A change of the configuration shows after one stale fingerprint at most:
\* the one that was built, and not yet received, when it came.
StaleOnce == since = Many => seen = buildFingerprint

\* A reader that stays learns of the configuration the driver ends up with.
Follows ==
  \A h \in Health :
    <>[](buildFingerprint = h /\ at # "off" /\ ~left /\ ~stopped)
      => <>[](seen = h)

\* Shutdown and the end of the call both close the stream, unless its reader
\* has left handleFingerprint in a send.
FingerprintEnds ==
  at # "off" /\ (left \/ stopped) ~>
    at = "closed" \/ (at = "send" /\ ~reading)
=============================================================================
