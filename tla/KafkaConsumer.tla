---------------------------- MODULE KafkaConsumer ----------------------------
(***************************************************************************)
(* The life of the Kafka consumer of the ERP integration                   *)
(* (erp-integration/src/kafka-consumer.service.ts): it is built, connects, *)
(* joins its group and runs; it crashes with or without a restart by       *)
(* kafkajs, or stops without a word; the retry timer and the stall         *)
(* watchdog build another one.  Timers are flags, their windows are        *)
(* abstracted: a set timer fires some time later.                          *)
(*                                                                         *)
(* The library's part (when it connects, crashes, restarts, stops, which   *)
(* events it emits) is external.  Left out: the status mirror, subscribing *)
(* to topics, the handling of messages (module Inbox begins there).        *)
(***************************************************************************)
EXTENDS Naturals

CONSTANTS
    StartCrash,     \* may kafkajs announce a restart while run() has not returned?
    MaxAttempt      \* bound of the retry counter: its delay no longer grows from there on

ASSUME ConsumerAssumption == StartCrash \in BOOLEAN /\ MaxAttempt \in Nat \ {0}

VARIABLES
    phase,              \* what the current consumer really does
    builders,           \* calls of buildAndRun in progress
    rebuilding,         \* the service's flag for them
    connected,          \* what the service reports
    destroyed,
    retry,              \* is the crash-retry timer set?
    attempt,            \* crashRetryAttempt
    watchdog,           \* is the stall watchdog set?
    kafkajsRestarting,
    leaving             \* a replaced consumer has still to report that it stopped

vars == <<phase, builders, rebuilding, connected, destroyed, retry, attempt, watchdog,
          kafkajsRestarting, leaving>>

\* "starting": connected, run() called; "restarting": kafkajs promised to start it again.
Phase == {"none", "connecting", "starting", "running", "restarting", "stopped"}

\* Every variable keeps its type.
TypeOK ==
    /\ phase \in Phase /\ builders \in Nat
    /\ rebuilding \in BOOLEAN /\ connected \in BOOLEAN /\ destroyed \in BOOLEAN
    /\ retry \in BOOLEAN /\ attempt \in 0..MaxAttempt /\ watchdog \in BOOLEAN
    /\ kafkajsRestarting \in BOOLEAN /\ leaving \in BOOLEAN

Init ==
    /\ phase = "none" /\ builders = 0
    /\ rebuilding = FALSE /\ connected = FALSE /\ destroyed = FALSE
    /\ retry = FALSE /\ attempt = 0 /\ watchdog = FALSE
    /\ kafkajsRestarting = FALSE /\ leaving = FALSE

-----------------------------------------------------------------------------
(* Timers *)

\* armStallWatchdog: the value of the watchdog after it.
Armed(set) == set \/ ~(destroyed \/ retry \/ rebuilding)

NextAttemptUncapped == attempt + 1
NextAttempt == IF attempt = MaxAttempt THEN attempt ELSE attempt + 1

\* scheduleCrashRetry: the old consumer is told to disconnect, nobody waits for it.
ScheduleCrashRetry ==
    /\ retry' = (retry \/ ~destroyed)
    /\ watchdog' = (watchdog /\ destroyed)
    /\ attempt' = IF destroyed THEN attempt ELSE NextAttempt

\* runOnce up to its first await: the flag and the new consumer.
RunOnce ==
    /\ rebuilding' = TRUE /\ builders' = builders + 1
    /\ phase' = "connecting"
    /\ leaving' = (leaving \/ phase \in {"running", "restarting", "stopped"})

Start ==
    /\ phase = "none" /\ ~destroyed
    /\ RunOnce
    /\ UNCHANGED <<connected, destroyed, retry, attempt, watchdog, kafkajsRestarting>>

MayAlwaysBuild == TRUE
MayBuild == ~rebuilding

\* The retry timer: while a build is in progress it only sets itself again.
Fire ==
    /\ retry
    /\ MayBuild
    /\ retry' = FALSE
    /\ RunOnce
    /\ UNCHANGED <<connected, destroyed, attempt, watchdog, kafkajsRestarting>>

\* The watchdog that trusts kafkajs to restart.
WatchdogTrusts ==
    /\ watchdog
    /\ IF destroyed \/ connected \/ rebuilding \/ kafkajsRestarting
       THEN watchdog' = FALSE /\ UNCHANGED <<retry, attempt, phase>>
       ELSE /\ ScheduleCrashRetry
            /\ phase' = "stopped"
    /\ UNCHANGED <<builders, rebuilding, connected, destroyed, kafkajsRestarting, leaving>>

\* It finds the consumer connected again, being built or the service destroyed, or
\* asks for another one.
Watchdog ==
    /\ watchdog
    /\ IF destroyed \/ connected \/ rebuilding
       THEN watchdog' = FALSE /\ UNCHANGED <<retry, attempt, phase>>
       ELSE /\ ScheduleCrashRetry
            /\ phase' = "stopped"
    /\ UNCHANGED <<builders, rebuilding, connected, destroyed, kafkajsRestarting, leaving>>

-----------------------------------------------------------------------------
(* buildAndRun *)

Built == rebuilding' = FALSE /\ builders' = builders - 1

OnConnect ==
    /\ connected' = TRUE /\ kafkajsRestarting' = FALSE
    /\ attempt' = 0 /\ watchdog' = FALSE

Connect ==
    /\ builders > 0 /\ phase = "connecting"
    /\ phase' = "starting"
    /\ OnConnect
    /\ UNCHANGED <<builders, rebuilding, destroyed, retry, leaving>>

\* A retry that is not tried again when it fails.
BuildFailsOnce ==
    /\ builders > 0 /\ phase \in {"connecting", "starting"}
    /\ phase' = "stopped"
    /\ Built
    /\ UNCHANGED <<connected, destroyed, retry, attempt, watchdog, kafkajsRestarting, leaving>>

\* connect() or run() throws: the caller schedules another try.
BuildFails ==
    /\ builders > 0 /\ phase \in {"connecting", "starting"}
    /\ phase' = "stopped"
    /\ Built
    /\ ScheduleCrashRetry
    /\ UNCHANGED <<connected, destroyed, kafkajsRestarting, leaving>>

\* run() returns, also when the consumer crashed while it was joining its group.
RunReturns ==
    /\ builders > 0 /\ phase \notin {"none", "connecting"}
    /\ phase' = IF phase = "starting" THEN "running" ELSE phase
    /\ Built
    /\ UNCHANGED <<connected, destroyed, retry, attempt, watchdog, kafkajsRestarting, leaving>>

-----------------------------------------------------------------------------
(* Events of the library *)

\* STOP or DISCONNECT of the current consumer; after a failed start it comes late.
Stop ==
    /\ phase \in {"running", "stopped"}
    /\ phase' = "stopped"
    /\ connected' = FALSE
    /\ watchdog' = IF kafkajsRestarting THEN watchdog ELSE Armed(watchdog)
    /\ UNCHANGED <<builders, rebuilding, destroyed, retry, attempt, kafkajsRestarting, leaving>>

CrashRestarted ==
    /\ phase \in {"running", "restarting"} \cup (IF StartCrash THEN {"starting"} ELSE {})
    /\ phase' = "restarting"
    /\ kafkajsRestarting' = TRUE
    /\ connected' = FALSE
    /\ watchdog' = Armed(FALSE)
    /\ UNCHANGED <<builders, rebuilding, destroyed, retry, attempt, leaving>>

CrashForGood ==
    /\ phase \in {"starting", "running", "restarting"}
    /\ phase' = "stopped"
    /\ connected' = FALSE
    /\ ScheduleCrashRetry
    /\ UNCHANGED <<builders, rebuilding, destroyed, kafkajsRestarting, leaving>>

\* kafkajs keeps its promise, ...
Restarted ==
    /\ phase = "restarting"
    /\ phase' = "running"
    /\ OnConnect
    /\ UNCHANGED <<builders, rebuilding, destroyed, retry, leaving>>

\* ... or never does, without an event.
RestartLost ==
    /\ phase = "restarting"
    /\ phase' = "stopped"
    /\ UNCHANGED <<builders, rebuilding, connected, destroyed, retry, attempt, watchdog,
                   kafkajsRestarting, leaving>>

\* A replaced consumer reports its stop: not the current one, so no watchdog.
LateStop ==
    /\ leaving
    /\ leaving' = FALSE /\ connected' = FALSE
    /\ UNCHANGED <<phase, builders, rebuilding, destroyed, retry, attempt, watchdog,
                   kafkajsRestarting>>

\* onModuleDestroy.
Destroy ==
    /\ ~destroyed
    /\ destroyed' = TRUE
    /\ retry' = FALSE /\ watchdog' = FALSE /\ connected' = FALSE
    /\ phase' = IF phase \in {"running", "restarting"} THEN "stopped" ELSE phase
    /\ UNCHANGED <<builders, rebuilding, attempt, kafkajsRestarting, leaving>>

Next ==
    \/ Start \/ Fire \/ Watchdog
    \/ Connect \/ BuildFails \/ RunReturns
    \/ Stop \/ CrashRestarted \/ CrashForGood \/ Restarted \/ RestartLost
    \/ LateStop \/ Destroy

Spec == Init /\ [][Next]_vars

\* Timers fire, calls return, and the broker lets a consumer connect and join again
\* whenever it is asked often enough.
Fairness ==
    /\ WF_vars(Start) /\ WF_vars(Fire) /\ WF_vars(Watchdog) /\ WF_vars(RunReturns)
    /\ SF_vars(Connect) /\ SF_vars(RunReturns /\ phase = "starting")

FairSpec == Spec /\ Fairness

-----------------------------------------------------------------------------
(* Properties *)

\* Two builds never overlap: no timer starts a consumer next to one that is still
\* connecting (the guard of the retry timer against a build in progress).
OneBuild == builders <= 1

\* A consumer that stopped, or that kafkajs has promised to restart, is never left alone:
\* a build is in progress or a timer will replace it, whatever the order of events, crashes
\* while starting, retries and late stops.
NeverUnwatched ==
    ~destroyed /\ phase \in {"stopped", "restarting"} => rebuilding \/ retry \/ watchdog

\* The service always comes back to a running consumer unless it is destroyed.
ComesBack == []<>(phase = "running" \/ destroyed)
=============================================================================
