------------------------ MODULE GBrainBridge_proofs ------------------------
(***************************************************************************)
(* Restarts of the bridge exclude each other, and it is never available    *)
(* with a client that has not listed its tools, whatever the number of     *)
(* attempts, failures and crashes.                                         *)
(***************************************************************************)
EXTENDS GBrainBridge, TLAPS

NoRestart == \A r \in Restarters : restart[r] = "none"

\* available, the monitor about to start a restart, and a restart under way
\* exclude each other: that is what makes available do for a lock.
Apart ==
  /\ available => NoRestart
  /\ monitor = "degrade" => NoRestart

\* A restart about to set available has had its answer from the client in place.
ListedBeforeRestore == \A r \in Restarters : restart[r] = "restore" => listed

Booting ==
  boot # "running" =>
    ~available /\ NoRestart /\ stopper = "idle" /\ monitor = "none" /\ checking = "none"

BridgeInv ==
  TypeOK /\ OneRestart /\ AvailableWasListed /\ Apart /\ ListedBeforeRestore /\ Booting

USE BridgeAssumption DEF BridgeAssumption

-----------------------------------------------------------------------------
LEMMA InitBridge == Init => BridgeInv
<1> SUFFICES ASSUME Init PROVE BridgeInv
  OBVIOUS
<1> USE DEF Init
<1>1. TypeOK
  <2>1. listed \in BOOLEAN /\ available \in BOOLEAN
    OBVIOUS
  <2>2. attempt \in [Restarters -> 0 .. MaxAttempts]
    OBVIOUS
  <2>3. failures \in 0 .. MaxFailures /\ crashes \in 0 .. MaxCrashes
    OBVIOUS
  <2> QED BY <2>1, <2>2, <2>3 DEF TypeOK
<1>2. OneRestart /\ ListedBeforeRestore /\ NoRestart
  BY DEF OneRestart, ListedBeforeRestore, NoRestart
<1>3. ~available
  OBVIOUS
<1> QED BY <1>1, <1>2, <1>3 DEF BridgeInv, AvailableWasListed, Apart, Booting

LEMMA StartKeeps == ASSUME BridgeInv, Start PROVE BridgeInv'
<1> USE DEF BridgeInv, TypeOK, OneRestart, AvailableWasListed, Apart, NoRestart,
            ListedBeforeRestore, Booting, environment, Fail, ListSucceeds, ListFails, ClientStops
<1>1. CASE StartLaunch
  BY <1>1 DEF StartLaunch, LaunchSucceeds, LaunchFails
<1>2. CASE StartList
  <2> USE <1>2 DEF StartList
  <2>1. TypeOK'
    <3>1. listed' \in BOOLEAN /\ available' \in BOOLEAN
      OBVIOUS
    <3>2. /\ boot' \in {"launch", "list", "running", "failed"}
          /\ client' \in {"new", "up", "hung", "down"}
          /\ checking' \in {"none", "current", "old"}
          /\ monitor' \in {"none", "wait", "degrade"}
          /\ stopper' \in {"idle", "client", "done"}
      OBVIOUS
    <3>3. restart' \in [Restarters -> {"none", "backoff", "replace", "launch", "list",
                                     "discard", "restore"}]
      OBVIOUS
    <3>4. /\ attempt' \in [Restarters -> 0 .. MaxAttempts]
          /\ failures' \in 0 .. MaxFailures /\ crashes' \in 0 .. MaxCrashes /\ lost' \in Nat
      OBVIOUS
    <3> QED BY <3>1, <3>2, <3>3, <3>4
  <2>2. OneRestart'
    OBVIOUS
  <2>3. AvailableWasListed'
    OBVIOUS
  <2>4. Apart'
    OBVIOUS
  <2>5. ListedBeforeRestore'
    OBVIOUS
  <2>6. Booting'
    OBVIOUS
  <2> QED BY <2>1, <2>2, <2>3, <2>4, <2>5, <2>6
<1> QED BY <1>1, <1>2 DEF Start

LEMMA MonitorKeeps == ASSUME BridgeInv, HealthMonitor PROVE BridgeInv'
<1> USE DEF BridgeInv, TypeOK, OneRestart, AvailableWasListed, Apart, NoRestart,
            ListedBeforeRestore, Booting, environment, Fail, ListSucceeds, ListFails
<1>1. CASE Tick
  BY <1>1 DEF Tick
<1>2. CASE CheckSucceeds
  BY <1>2 DEF CheckSucceeds
<1>3. CASE CheckFails
  <2> USE <1>3 DEF CheckFails
  <2>1. TypeOK'
    <3>1. listed' \in BOOLEAN /\ available' \in BOOLEAN
      OBVIOUS
    <3>2. /\ boot' \in {"launch", "list", "running", "failed"}
          /\ client' \in {"new", "up", "hung", "down"}
          /\ checking' \in {"none", "current", "old"}
          /\ monitor' \in {"none", "wait", "degrade"}
          /\ stopper' \in {"idle", "client", "done"}
      OBVIOUS
    <3>3. restart' \in [Restarters -> {"none", "backoff", "replace", "launch", "list",
                                     "discard", "restore"}]
      OBVIOUS
    <3>4. /\ attempt' \in [Restarters -> 0 .. MaxAttempts]
          /\ failures' \in 0 .. MaxFailures /\ crashes' \in 0 .. MaxCrashes /\ lost' \in Nat
      OBVIOUS
    <3> QED BY <3>1, <3>2, <3>3, <3>4
  <2>2. OneRestart'
    OBVIOUS
  <2>3. AvailableWasListed'
    OBVIOUS
  <2>4. Apart'
    OBVIOUS
  <2>5. ListedBeforeRestore'
    OBVIOUS
  <2>6. Booting'
    OBVIOUS
  <2> QED BY <2>1, <2>2, <2>3, <2>4, <2>5, <2>6
<1>4. CASE Degrade
  <2> USE <1>4 DEF Degrade
  <2>1. TypeOK'
    <3>1. listed' \in BOOLEAN /\ available' \in BOOLEAN
      OBVIOUS
    <3>2. /\ boot' \in {"launch", "list", "running", "failed"}
          /\ client' \in {"new", "up", "hung", "down"}
          /\ checking' \in {"none", "current", "old"}
          /\ monitor' \in {"none", "wait", "degrade"}
          /\ stopper' \in {"idle", "client", "done"}
      OBVIOUS
    <3>3. restart' \in [Restarters -> {"none", "backoff", "replace", "launch", "list",
                                     "discard", "restore"}]
      OBVIOUS
    <3>4. /\ attempt' \in [Restarters -> 0 .. MaxAttempts]
          /\ failures' \in 0 .. MaxFailures /\ crashes' \in 0 .. MaxCrashes /\ lost' \in Nat
      OBVIOUS
    <3> QED BY <3>1, <3>2, <3>3, <3>4
  <2>2. OneRestart'
    OBVIOUS
  <2>3. AvailableWasListed'
    OBVIOUS
  <2>4. Apart'
    OBVIOUS
  <2>5. ListedBeforeRestore'
    OBVIOUS
  <2>6. Booting'
    OBVIOUS
  <2> QED BY <2>1, <2>2, <2>3, <2>4, <2>5, <2>6
<1> QED BY <1>1, <1>2, <1>3, <1>4 DEF HealthMonitor

LEMMA RestartKeeps ==
  ASSUME BridgeInv, NEW r \in Restarters, AttemptRestart(r) PROVE BridgeInv'
<1> USE DEF BridgeInv, TypeOK, OneRestart, AvailableWasListed, Apart, NoRestart,
            ListedBeforeRestore, Booting, environment, Fail, Step, NextAttempt,
            TryAgain, EndRestart
<1>1. CASE StopOld(r)
  BY <1>1 DEF StopOld, ClientStops
<1>2. CASE Replace(r)
  BY <1>2 DEF Replace
<1>3. CASE Launch(r)
  BY <1>3 DEF Launch, LaunchSucceeds, LaunchFails
<1>4. CASE ListTools(r)
  <2> USE <1>4 DEF ListTools, ListSucceeds, ListFails
  <2>1. TypeOK'
    <3>1. listed' \in BOOLEAN /\ available' \in BOOLEAN
      OBVIOUS
    <3>2. /\ boot' \in {"launch", "list", "running", "failed"}
          /\ client' \in {"new", "up", "hung", "down"}
          /\ checking' \in {"none", "current", "old"}
          /\ monitor' \in {"none", "wait", "degrade"}
          /\ stopper' \in {"idle", "client", "done"}
      OBVIOUS
    <3>3. restart' \in [Restarters -> {"none", "backoff", "replace", "launch", "list",
                                     "discard", "restore"}]
      OBVIOUS
    <3>4. /\ attempt' \in [Restarters -> 0 .. MaxAttempts]
          /\ failures' \in 0 .. MaxFailures /\ crashes' \in 0 .. MaxCrashes /\ lost' \in Nat
      OBVIOUS
    <3> QED BY <3>1, <3>2, <3>3, <3>4
  <2>2. OneRestart'
    OBVIOUS
  <2>3. AvailableWasListed'
    OBVIOUS
  <2>4. Apart'
    OBVIOUS
  <2>5. ListedBeforeRestore'
    OBVIOUS
  <2>6. Booting'
    OBVIOUS
  <2> QED BY <2>1, <2>2, <2>3, <2>4, <2>5, <2>6
<1>5. CASE StopNew(r)
  BY <1>5 DEF StopNew, ClientStops
<1>6. CASE Restore(r)
  BY <1>6 DEF Restore
<1> QED BY <1>1, <1>2, <1>3, <1>4, <1>5, <1>6 DEF AttemptRestart

LEMMA OthersKeep == ASSUME BridgeInv, Stop \/ Crash \/ Hang PROVE BridgeInv'
<1> USE DEF BridgeInv, TypeOK, OneRestart, AvailableWasListed, Apart, NoRestart,
            ListedBeforeRestore, Booting, environment
<1>1. CASE StopBegin
  BY <1>1 DEF StopBegin
<1>2. CASE StopClient
  BY <1>2 DEF StopClient, ClientStops
<1>3. CASE Crash
  BY <1>3 DEF Crash
<1>4. CASE Hang
  BY <1>4 DEF Hang
<1> QED BY <1>1, <1>2, <1>3, <1>4 DEF Stop

\* Every state of the bridge satisfies the inductive invariant: restarts are kept
\* apart by available and by the monitor's place in its loop.
THEOREM BridgeInvariant == Spec => []BridgeInv
<1>1. BridgeInv /\ [Next]_vars => BridgeInv'
  <2> SUFFICES ASSUME BridgeInv, [Next]_vars PROVE BridgeInv'
    OBVIOUS
  <2>1. CASE UNCHANGED vars
    BY <2>1 DEF vars, BridgeInv, TypeOK, OneRestart, AvailableWasListed,
                Apart, NoRestart, ListedBeforeRestore, Booting, environment
  <2> QED BY <2>1, StartKeeps, MonitorKeeps, RestartKeeps, OthersKeep DEF Next
<1> QED BY InitBridge, <1>1, PTL DEF Spec

\* Each variable of the bridge keeps its type.
THEOREM BridgeTypeCorrect == Spec => []TypeOK
BY BridgeInvariant, PTL DEF BridgeInv

\* healthMonitor never starts attemptRestart while another is under way.
THEOREM OneRestartAlways == Spec => []OneRestart
BY BridgeInvariant, PTL DEF BridgeInv

\* available is only ever true of a client that answered tools/list.
THEOREM AvailableAlwaysListed == Spec => []AvailableWasListed
BY BridgeInvariant, PTL DEF BridgeInv
=============================================================================
