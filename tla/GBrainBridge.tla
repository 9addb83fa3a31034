---------------------------- MODULE GBrainBridge ----------------------------
(***************************************************************************)
(* How GBrainBridge starts its MCPClient, watches it (healthMonitor),      *)
(* replaces it when it fails (attemptRestart) and stops it.  None of its   *)
(* goroutines has a deadline: runtime.go starts it on context.Background.  *)
(*                                                                         *)
(* A client is known here by what a tools/list call on it does: it answers *)
(* (up), returns ErrDisconnected (new, down) or never returns (hung).  A   *)
(* client that was replaced was stopped first, hence is down.              *)
(***************************************************************************)
EXTENDS Integers, FiniteSets

CONSTANTS
  Restarters,   \* bound: names for the goroutines running attemptRestart
  MaxAttempts,  \* config: max_restart_attempts, 3 when not set
  MaxFailures,  \* bound: launches and tools/list calls that fail
  MaxCrashes,   \* bound: exits of a running server
  MayHang,      \* whether a running server may stop answering
  MayStop       \* whether the bridge may be stopped

ASSUME BridgeAssumption ==
  /\ MaxAttempts \in Nat \ {0}
  /\ MaxFailures \in Nat /\ MaxCrashes \in Nat
  /\ MayHang \in BOOLEAN /\ MayStop \in BOOLEAN

VARIABLES
  boot,      \* where Start is
  client,    \* the client the bridge has: "new", "up", "hung", "down"
  listed,    \* history: whether a tools/list call succeeded on it
  available,
  checking,  \* whose answer healthMonitor waits for: "none", "current", "old"
  monitor,   \* where healthMonitor is
  restart,   \* where each attemptRestart is
  attempt,   \* the attempt each is at
  lost,      \* history: attempts of the latest restart that failed
  stopper,   \* where Stop is
  failures,  \* failures that happened
  crashes    \* exits that happened

environment == <<failures, crashes>>
vars == <<boot, client, listed, available, checking, monitor, restart, attempt,
          lost, stopper, environment>>

Init ==
  /\ boot = "launch"
  /\ client = "new" /\ listed = FALSE
  /\ available = FALSE
  /\ checking = "none" /\ monitor = "none"
  /\ restart = [r \in Restarters |-> "none"]
  /\ attempt = [r \in Restarters |-> 0] /\ lost = 0
  /\ stopper = "idle"
  /\ failures = 0 /\ crashes = 0

-----------------------------------------------------------------------------
(* The server *)

Fail == failures < MaxFailures /\ failures' = failures + 1

Crash ==
  /\ client \in {"up", "hung"} /\ crashes < MaxCrashes
  /\ client' = "down" /\ crashes' = crashes + 1
  /\ UNCHANGED <<boot, listed, available, checking, monitor, restart, attempt, lost,
                 stopper, failures>>

Hang ==
  /\ MayHang /\ client = "up"
  /\ client' = "hung"
  /\ UNCHANGED <<boot, listed, available, checking, monitor, restart, attempt, lost,
                 stopper, environment>>

\* client.Start, on a client never started: the subprocess runs, or does not.
LaunchSucceeds == client = "new" /\ client' = "up" /\ UNCHANGED failures
LaunchFails == client = "new" /\ client' = client /\ Fail

\* A tools/list call on the client the bridge has.
ListSucceeds == client = "up" /\ UNCHANGED failures
ListFails == (client = "up" /\ Fail) \/ (client \in {"new", "down"} /\ UNCHANGED failures)

\* client.Stop: stdin is closed and the subprocess waited for.
ClientStops == client # "hung" /\ client' = IF client = "up" THEN "down" ELSE client

-----------------------------------------------------------------------------
(* Start: a bridge that fails to start is dropped by the runtime *)

StartLaunch ==
  /\ boot = "launch"
  /\ \/ LaunchSucceeds /\ boot' = "list"
     \/ LaunchFails /\ boot' = "failed"
  /\ UNCHANGED <<listed, available, checking, monitor, restart, attempt, lost,
                 stopper, crashes>>

StartList ==
  /\ boot = "list"
  /\ \/ /\ ListSucceeds
        /\ boot' = "running"
        /\ listed' = TRUE /\ available' = TRUE
        /\ monitor' = "wait"
        /\ UNCHANGED client
     \/ /\ ListFails /\ ClientStops
        /\ boot' = "failed"
        /\ UNCHANGED <<listed, available, monitor>>
  /\ UNCHANGED <<checking, restart, attempt, lost, stopper, crashes>>

-----------------------------------------------------------------------------
(* healthMonitor *)

Tick ==
  /\ monitor = "wait" /\ checking = "none"
  /\ checking' = "current"
  /\ UNCHANGED <<boot, client, listed, available, monitor, restart, attempt, lost,
                 stopper,
                 environment>>

CheckSucceeds ==
  /\ checking = "current" /\ ListSucceeds
  /\ checking' = "none"
  /\ UNCHANGED <<boot, client, listed, available, monitor, restart, attempt, lost,
                 stopper, crashes>>

\* The check failed while a restart was under way: available is not looked at.
CheckFails_Blind ==
  /\ \/ checking = "current" /\ ListFails
     \/ checking = "old" /\ UNCHANGED failures
  /\ checking' = "none" /\ monitor' = "degrade"
  /\ UNCHANGED <<boot, client, listed, available, restart, attempt, lost, stopper,
                 crashes>>

\* The test of available is the wrong way round.
CheckFails_Inverted ==
  /\ \/ checking = "current" /\ ListFails
     \/ checking = "old" /\ UNCHANGED failures
  /\ checking' = "none"
  /\ monitor' = IF available THEN "wait" ELSE "degrade"
  /\ UNCHANGED <<boot, client, listed, available, restart, attempt, lost, stopper,
                 crashes>>

\* A failure counts only while the bridge is available: otherwise a restart is
\* under way, or none is left.
CheckFails ==
  /\ \/ checking = "current" /\ ListFails
     \/ checking = "old" /\ UNCHANGED failures
  /\ checking' = "none"
  /\ monitor' = IF available THEN "degrade" ELSE "wait"
  /\ UNCHANGED <<boot, client, listed, available, restart, attempt, lost, stopper,
                 crashes>>

\* go attemptRestart
Degrade ==
  /\ monitor = "degrade" /\ monitor' = "wait"
  /\ available' = FALSE
  /\ \E r \in Restarters :
       /\ restart[r] = "none"
       /\ restart' = [restart EXCEPT ![r] = "backoff"]
       /\ attempt' = [attempt EXCEPT ![r] = 1]
  /\ lost' = 0
  /\ UNCHANGED <<boot, client, listed, checking, stopper, environment>>

-----------------------------------------------------------------------------
(* attemptRestart *)

Step(r, from, to) == restart[r] = from /\ restart' = [restart EXCEPT ![r] = to]

EndRestart(r) ==
  /\ attempt' = [attempt EXCEPT ![r] = 0]
  /\ restart' = [restart EXCEPT ![r] = "none"]

TryAgain(r) ==
  /\ attempt' = [attempt EXCEPT ![r] = @ + 1]
  /\ restart' = [restart EXCEPT ![r] = "backoff"]

\* One attempt too many.
NextAttempt_OffByOne(r) ==
  /\ IF attempt[r] <= MaxAttempts THEN TryAgain(r) ELSE EndRestart(r)
  /\ lost' = lost + 1

\* A failed attempt ends the restart.
NextAttempt_Last(r) == EndRestart(r) /\ lost' = lost + 1

\* The next attempt, or the end of them: the bridge stays unavailable.
NextAttempt(r) ==
  /\ IF attempt[r] < MaxAttempts THEN TryAgain(r) ELSE EndRestart(r)
  /\ lost' = lost + 1

\* After the backoff the old client is stopped ...
StopOld(r) ==
  /\ Step(r, "backoff", "replace")
  /\ ClientStops
  /\ UNCHANGED <<boot, listed, available, checking, monitor, attempt, lost, stopper,
                 environment>>

\* ... and replaced; a check that waits for the old one goes on waiting for it.
Replace(r) ==
  /\ Step(r, "replace", "launch")
  /\ client' = "new" /\ listed' = FALSE
  /\ checking' = IF checking = "current" THEN "old" ELSE checking
  /\ UNCHANGED <<boot, available, monitor, attempt, lost, stopper, environment>>

\* Available as soon as the subprocess runs.
Launch_Eager(r) ==
  /\ restart[r] = "launch"
  /\ \/ /\ LaunchSucceeds /\ Step(r, "launch", "list")
        /\ available' = TRUE
        /\ UNCHANGED <<attempt, lost>>
     \/ LaunchFails /\ NextAttempt(r) /\ UNCHANGED available
  /\ UNCHANGED <<boot, listed, checking, monitor, stopper, crashes>>

Launch(r) ==
  /\ restart[r] = "launch"
  /\ \/ LaunchSucceeds /\ Step(r, "launch", "list") /\ UNCHANGED <<attempt, lost>>
     \/ LaunchFails /\ NextAttempt(r)
  /\ UNCHANGED <<boot, listed, available, checking, monitor, stopper, crashes>>

ListTools(r) ==
  /\ restart[r] = "list"
  /\ \/ ListSucceeds /\ Step(r, "list", "restore") /\ listed' = TRUE /\ UNCHANGED client
     \/ ListFails /\ Step(r, "list", "discard") /\ UNCHANGED <<client, listed>>
  /\ UNCHANGED <<boot, available, checking, monitor, attempt, lost, stopper, crashes>>

StopNew(r) ==
  /\ restart[r] = "discard"
  /\ ClientStops
  /\ NextAttempt(r)
  /\ UNCHANGED <<boot, listed, available, checking, monitor, stopper, environment>>

Restore(r) ==
  /\ Step(r, "restore", "none")
  /\ attempt' = [attempt EXCEPT ![r] = 0]
  /\ available' = TRUE
  /\ UNCHANGED <<boot, client, listed, checking, monitor, lost, stopper, environment>>

-----------------------------------------------------------------------------
(* Stop *)

StopBegin ==
  /\ MayStop /\ boot = "running" /\ stopper = "idle"
  /\ stopper' = "client"
  /\ available' = FALSE
  /\ UNCHANGED <<boot, client, listed, checking, monitor, restart, attempt, lost,
                 environment>>

StopClient ==
  /\ stopper = "client" /\ stopper' = "done"
  /\ ClientStops
  /\ UNCHANGED <<boot, listed, available, checking, monitor, restart, attempt, lost,
                 environment>>

-----------------------------------------------------------------------------
Start == StartLaunch \/ StartList
HealthMonitor == Tick \/ CheckSucceeds \/ CheckFails \/ Degrade
AttemptRestart(r) ==
  StopOld(r) \/ Replace(r) \/ Launch(r) \/ ListTools(r) \/ StopNew(r) \/ Restore(r)
Stop == StopBegin \/ StopClient

Next ==
  \/ Start \/ HealthMonitor \/ Stop
  \/ \E r \in Restarters : AttemptRestart(r)
  \/ Crash \/ Hang

Spec == Init /\ [][Next]_vars

\* Tickers tick, backoffs end and goroutines are scheduled; servers and whoever
\* calls Stop owe nothing.
FairSpec ==
  /\ Spec
  /\ WF_vars(Start) /\ WF_vars(HealthMonitor)
  /\ \A r \in Restarters : WF_vars(AttemptRestart(r))

-----------------------------------------------------------------------------
(* Properties *)

TypeOK ==
  /\ boot \in {"launch", "list", "running", "failed"}
  /\ client \in {"new", "up", "hung", "down"}
  /\ listed \in BOOLEAN /\ available \in BOOLEAN
  /\ checking \in {"none", "current", "old"}
  /\ monitor \in {"none", "wait", "degrade"}
  /\ restart \in [Restarters -> {"none", "backoff", "replace", "launch", "list",
                                 "discard", "restore"}]
  /\ attempt \in [Restarters -> 0 .. MaxAttempts]
  /\ lost \in Nat
  /\ stopper \in {"idle", "client", "done"}
  /\ failures \in 0 .. MaxFailures /\ crashes \in 0 .. MaxCrashes

\* Two restarts are never under way together, although available is all that
\* keeps them apart: each would stop the client the other has just started.
OneRestart == \A r, s \in Restarters : restart[r] # "none" /\ restart[s] # "none" => r = s

\* The bridge is never available with a client that has not listed its tools:
\* not with one that a restart has put in place but not got through to.
AvailableWasListed == available => listed

\* The bridge is out of service for good only after Stop, with a server that hangs,
\* which no check survives, or once all the attempts of one restart have failed: PRD-03
\* has the monitor go on trying even then, but it starts no restart while available is
\* FALSE.
Reconnects ==
  [](boot = "running" =>
       <>(available \/ stopper # "idle" \/ client = "hung" \/ lost = MaxAttempts))

\* A server that is gone does not go unnoticed, whatever the checks wait for.
FailureDetected == (available /\ client = "down") ~> (~available \/ client = "up")
=============================================================================
