----------------------------- MODULE KafkaProofs -----------------------------
(* Proofs about KafkaConsumer: its types, one build at a time, and the watch kept over a   *)
(* consumer that stopped.                                                                  *)
EXTENDS KafkaConsumer, TLAPS

Events ==
    \/ Stop \/ CrashRestarted \/ CrashForGood \/ Restarted \/ RestartLost \/ LateStop
    \/ Destroy

-----------------------------------------------------------------------------
(* The flag stands for the one call of buildAndRun in progress. *)

Flagged ==
    /\ rebuilding => builders = 1
    /\ ~rebuilding => builders = 0
    /\ phase = "none" => ~rebuilding

BuildInv == TypeOK /\ Flagged

\* The types of the numbers and of the flags, which different provers like.
Numbers == builders \in Nat /\ attempt \in 0..MaxAttempt
Flags ==
    /\ phase \in Phase
    /\ rebuilding \in BOOLEAN /\ connected \in BOOLEAN /\ destroyed \in BOOLEAN
    /\ retry \in BOOLEAN /\ watchdog \in BOOLEAN
    /\ kafkajsRestarting \in BOOLEAN /\ leaving \in BOOLEAN

LEMMA TypeParts == TypeOK <=> Numbers /\ Flags
BY DEF TypeOK, Numbers, Flags

LEMMA BuildInit == Init => BuildInv
<1>1. Init => Numbers
  BY ConsumerAssumption DEF ConsumerAssumption, Init, Numbers
<1>2. Init => Flags
  BY DEF Init, Flags, Phase
<1>3. Init => Flagged
  BY DEF Init, Flagged
<1> QED
  BY <1>1, <1>2, <1>3, TypeParts DEF BuildInv

LEMMA FlaggedStep ==
    ASSUME Numbers, Flagged, [Next]_vars
    PROVE  Numbers' /\ Flagged'
<1> USE ConsumerAssumption DEF ConsumerAssumption, Numbers, Flagged
<1>1. CASE Start
  BY <1>1 DEF Start, RunOnce
<1>2. CASE Fire
  BY <1>2 DEF Fire, RunOnce, MayBuild
<1>3. CASE Watchdog
  BY <1>3 DEF Watchdog, ScheduleCrashRetry, NextAttempt
<1>4. CASE Connect
  BY <1>4 DEF Connect, OnConnect
<1>5. CASE BuildFails
  BY <1>5 DEF BuildFails, Built, ScheduleCrashRetry, NextAttempt
<1>6. CASE RunReturns
  BY <1>6 DEF RunReturns, Built
<1>7. CASE Events
  <2>1. CASE CrashForGood
    BY <2>1 DEF CrashForGood, ScheduleCrashRetry, NextAttempt
  <2>2. CASE Stop \/ CrashRestarted \/ RestartLost
    BY <2>2 DEF Stop, CrashRestarted, RestartLost, Armed
  <2>3. CASE Restarted \/ LateStop \/ Destroy
    BY <2>3 DEF Restarted, LateStop, Destroy, OnConnect
  <2> QED
    BY <1>7, <2>1, <2>2, <2>3 DEF Events
<1>8. CASE UNCHANGED vars
  BY <1>8 DEF vars
<1> QED
  BY <1>1, <1>2, <1>3, <1>4, <1>5, <1>6, <1>7, <1>8 DEF Next, Events

LEMMA FlagsStep ==
    ASSUME Flags, [Next]_vars
    PROVE  Flags'
<1> USE DEF Flags, Phase
<1>1. CASE Start \/ Fire \/ Watchdog
  BY <1>1 DEF Start, Fire, Watchdog, RunOnce, ScheduleCrashRetry
<1>2. CASE Connect \/ BuildFails \/ RunReturns
  BY <1>2 DEF Connect, BuildFails, RunReturns, Built, OnConnect, ScheduleCrashRetry
<1>3. CASE Stop \/ CrashRestarted \/ CrashForGood
  BY <1>3 DEF Stop, CrashRestarted, CrashForGood, Armed, ScheduleCrashRetry
<1>4. CASE Restarted \/ RestartLost \/ LateStop \/ Destroy
  BY <1>4 DEF Restarted, RestartLost, LateStop, Destroy, OnConnect
<1>5. CASE UNCHANGED vars
  BY <1>5 DEF vars
<1> QED
  BY <1>1, <1>2, <1>3, <1>4, <1>5 DEF Next

LEMMA BuildStep ==
    ASSUME BuildInv, [Next]_vars
    PROVE  BuildInv'
<1>1. Numbers /\ Flags
  BY TypeParts DEF BuildInv
<1>2. Numbers' /\ Flagged'
  BY <1>1, FlaggedStep DEF BuildInv
<1>3. Flags'
  BY <1>1, FlagsStep
<1>4. TypeOK'
  BY <1>2, <1>3 DEF TypeOK, Numbers, Flags
<1> QED
  BY <1>2, <1>4 DEF BuildInv

LEMMA BuildAlways == Spec => []BuildInv
<1>1. Init => BuildInv
  BY BuildInit
<1>2. BuildInv /\ [Next]_vars => BuildInv'
  BY BuildStep
<1> QED
  BY <1>1, <1>2, PTL DEF Spec

\* Every variable of the service keeps its type; its retry counter never leaves its range
\* (kafka-consumer.service.ts, scheduleCrashRetry).
THEOREM ConsumerTyped == Spec => []TypeOK
<1>1. BuildInv => TypeOK
  BY DEF BuildInv
<1> QED
  BY <1>1, BuildAlways, PTL

\* Two builds of the consumer never overlap, whatever fires when, crashes while starting
\* included (the rebuilding flag of runOnce and the retry timer's test of it).
THEOREM BuildsAlone == Spec => []OneBuild
<1>1. BuildInv => OneBuild
  BY DEF BuildInv, TypeOK, Flagged, OneBuild
<1> QED
  BY <1>1, BuildAlways, PTL

-----------------------------------------------------------------------------
(* Who watches.  A watchdog lets a consumer go only if it is connected or being built, so  *)
(* one that reports itself connected but has stopped must have the retry timer set.        *)

Watched ==
    /\ phase \in {"running", "restarting"} => ~rebuilding
    /\ phase \in {"starting", "running"} => ~kafkajsRestarting
    /\ phase = "stopped" /\ rebuilding /\ ~destroyed => retry
    /\ phase \in {"stopped", "restarting"} /\ connected /\ ~destroyed => retry
    /\ NeverUnwatched

WatchInv == BuildInv /\ Watched

LEMMA WatchInit == Init => WatchInv
<1>1. Init => BuildInv
  BY BuildInit
<1> QED
  BY <1>1 DEF Init, WatchInv, Watched, NeverUnwatched

LEMMA WatchStep ==
    ASSUME ~StartCrash, WatchInv, [Next]_vars
    PROVE  WatchInv'
<1>0. BuildInv'
  BY BuildStep DEF WatchInv
<1> SUFFICES Watched'
  BY <1>0 DEF WatchInv
<1> USE ConsumerAssumption DEF ConsumerAssumption, WatchInv, Watched, NeverUnwatched, BuildInv, TypeOK, Flagged, Phase
<1>1. CASE Start
  BY <1>1 DEF Start, RunOnce
<1>2. CASE Fire
  BY <1>2 DEF Fire, RunOnce, MayBuild
<1>3. CASE Watchdog
  BY <1>3 DEF Watchdog, ScheduleCrashRetry
<1>4. CASE Connect
  BY <1>4 DEF Connect, OnConnect
<1>5. CASE BuildFails
  BY <1>5 DEF BuildFails, Built, ScheduleCrashRetry
<1>6. CASE RunReturns
  BY <1>6 DEF RunReturns, Built
<1>7. CASE Stop
  BY <1>7 DEF Stop, Armed
<1>8. CASE CrashRestarted
  BY <1>8 DEF CrashRestarted, Armed
<1>9. CASE CrashForGood
  BY <1>9 DEF CrashForGood, ScheduleCrashRetry
<1>10. CASE Restarted \/ RestartLost \/ LateStop \/ Destroy
  BY <1>10 DEF Restarted, RestartLost, LateStop, Destroy, OnConnect
<1>11. CASE UNCHANGED vars
  BY <1>11 DEF vars
<1> QED
  BY <1>1, <1>2, <1>3, <1>4, <1>5, <1>6, <1>7, <1>8, <1>9, <1>10, <1>11 DEF Next

\* If kafkajs announces no restart while run() has not returned, a consumer that stopped or
\* waits for kafkajs always has a build in progress or a timer that will replace it.
THEOREM StoppedIsWatched ==
    ASSUME ~StartCrash
    PROVE  Spec => []NeverUnwatched
<1>1. Init => WatchInv
  BY WatchInit
<1>2. WatchInv /\ [Next]_vars => WatchInv'
  BY WatchStep
<1>3. WatchInv => NeverUnwatched
  BY DEF WatchInv, Watched
<1> QED
  BY <1>1, <1>2, <1>3, PTL DEF Spec
=============================================================================
