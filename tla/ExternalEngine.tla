--------------------------- MODULE ExternalEngine ---------------------------
(* One FreeRDP or SPICE viewer (engines.ts): the program is looked for, is  *)
(* spawned, is watched for a line that says it failed and for its exit, and *)
(* is ended with SIGTERM and then SIGKILL.                                  *)
EXTENDS Naturals

CONSTANTS
    Settle,         \* settleMs, in ticks
    HangKill,       \* hangKillMs
    KillAfter       \* the 3000 ms of stop()

ASSUME EngineAssumption == {Settle, HangKill, KillAfter} \subseteq Nat \ {0}

VARIABLES
    startAt,          \* where start() is
    child,          \* "none", "alive", "unborn" (spawn failed) or "gone"
    deaf,           \* the viewer ignores SIGTERM
    termed,         \* SIGTERM has been sent
    stopping, fatal,
    settleIn, hangIn, killIn,   \* timers: 0 is off, 1 is due, else ticks to go
    told,           \* the last state event
    stopCalled      \* history: stop() found a child

clocks == <<settleIn, hangIn, killIn>>
engineVars == <<startAt, child, deaf, termed, stopping, fatal, clocks, told, stopCalled>>

EngineInit ==
    /\ startAt = "looking" /\ child = "none" /\ deaf = FALSE /\ termed = FALSE
    /\ stopping = FALSE /\ fatal = FALSE /\ settleIn = 0 /\ hangIn = 0 /\ killIn = 0
    /\ told = "nothing" /\ stopCalled = FALSE
-----------------------------------------------------------------------------
(* No program on PATH.                                                     *)
NotFound ==
    /\ startAt = "looking" /\ startAt' = "over" /\ told' = "failed"
    /\ UNCHANGED <<child, deaf, termed, stopping, fatal, clocks, stopCalled>>

(* A launch that cannot be planned, as the password has a line break: this *)
(* is thrown to whoever called, and no event tells of it.                  *)
NotPlanned ==
    /\ startAt = "looking" /\ startAt' = "over"
    /\ UNCHANGED <<child, deaf, termed, stopping, fatal, clocks, told, stopCalled>>

(* The capabilities are known; an earlier stop() is forgotten.  bash may   *)
(* not start, which only the error event tells: there is no exit.          *)
Spawn(ok, d) ==
    /\ startAt = "looking" /\ startAt' = "settling"
    /\ stopping' = FALSE /\ fatal' = FALSE /\ told' = "starting"
    /\ child' = (IF ok THEN "alive" ELSE "unborn") /\ deaf' = (ok /\ d)
    /\ settleIn' = Settle + 1
    /\ UNCHANGED <<termed, hangIn, killIn, stopCalled>>

SpawnError ==
    /\ child = "unborn" /\ told = "starting" /\ told' = "failed"
    /\ UNCHANGED <<startAt, child, deaf, termed, stopping, fatal, clocks, stopCalled>>

(* Mutant: a line that reports an error starts no timer.                   *)
ReportsOnly ==
    /\ child = "alive" /\ ~fatal /\ ~stopping /\ fatal' = TRUE
    /\ UNCHANGED <<startAt, child, deaf, termed, stopping, clocks, told, stopCalled>>
(* A line with ERRCONNECT_: capture().                                     *)
Reports ==
    /\ child = "alive" /\ ~fatal /\ ~stopping
    /\ fatal' = TRUE /\ hangIn' = HangKill + 1
    /\ UNCHANGED <<startAt, child, deaf, termed, stopping, settleIn, killIn, told, stopCalled>>

HangTimer ==
    /\ hangIn = 1 /\ hangIn' = 0
    /\ termed' = (termed \/ child = "alive")
    /\ UNCHANGED <<startAt, child, deaf, stopping, fatal, settleIn, killIn, told, stopCalled>>

(* Mutant: how it ended is read from the exit code alone.                  *)
ExitByCode(clean) ==
    /\ child = "alive" /\ child' = "gone" /\ hangIn' = 0
    /\ told' = IF clean THEN "exited" ELSE "failed"
    /\ UNCHANGED <<startAt, deaf, termed, stopping, fatal, settleIn, killIn, stopCalled>>
(* The exit handler.                                                       *)
Exit(clean) ==
    /\ child = "alive" /\ child' = "gone" /\ hangIn' = 0
    /\ told' = IF stopping \/ (clean /\ ~fatal) THEN "exited" ELSE "failed"
    /\ UNCHANGED <<startAt, deaf, termed, stopping, fatal, settleIn, killIn, stopCalled>>

(* Mutant: what has not failed to start by the deadline is up.             *)
SettlesAnyway ==
    /\ startAt = "settling" /\ (settleIn = 1 \/ child = "gone" \/ fatal)
    /\ startAt' = "over" /\ told' = "running"
    /\ UNCHANGED <<child, deaf, termed, stopping, fatal, clocks, stopCalled>>
(* The loop of start() ends.                                               *)
Settles ==
    /\ startAt = "settling" /\ (settleIn = 1 \/ child = "gone" \/ fatal)
    /\ startAt' = "over"
    /\ told' = IF child \in {"alive", "unborn"} /\ ~fatal THEN "running" ELSE told
    /\ UNCHANGED <<child, deaf, termed, stopping, fatal, clocks, stopCalled>>
-----------------------------------------------------------------------------
(* Mutant: SIGTERM, and that is all.                                       *)
StopPolitely ==
    /\ stopping' = TRUE /\ stopCalled' = (child \in {"alive", "unborn"})
    /\ termed' = (termed \/ child = "alive")
    /\ UNCHANGED <<startAt, child, deaf, fatal, clocks, told>>
(* stop(), once.                                                           *)
Stop ==
    /\ stopping' = TRUE /\ stopCalled' = (child \in {"alive", "unborn"})
    /\ IF child \in {"alive", "unborn"}
       THEN termed' = (termed \/ child = "alive") /\ killIn' = KillAfter + 1
       ELSE UNCHANGED <<termed, killIn>>
    /\ UNCHANGED <<startAt, child, deaf, fatal, settleIn, hangIn, told>>
Stops == ~stopping /\ Stop

KillTimer ==
    /\ killIn = 1 /\ killIn' = 0
    /\ IF child = "alive"
       THEN child' = "gone" /\ told' = "exited" /\ hangIn' = 0
       ELSE UNCHANGED <<child, told, hangIn>>
    /\ UNCHANGED <<startAt, deaf, termed, stopping, fatal, settleIn, stopCalled>>

Tick ==
    LET counted(t) == IF t > 1 THEN t - 1 ELSE t
    IN /\ settleIn > 1 \/ hangIn > 1 \/ killIn > 1
       /\ settleIn' = counted(settleIn) /\ hangIn' = counted(hangIn) /\ killIn' = counted(killIn)
       /\ UNCHANGED <<startAt, child, deaf, termed, stopping, fatal, told, stopCalled>>

(* A viewer exits on SIGTERM unless it is deaf to it.                      *)
Obeys == termed /\ ~deaf /\ Exit(FALSE)

EngineNext ==
    \/ NotFound \/ NotPlanned \/ (\E ok, d \in BOOLEAN : Spawn(ok, d)) \/ SpawnError
    \/ Reports \/ HangTimer \/ (\E clean \in BOOLEAN : Exit(clean)) \/ Settles
    \/ Stops \/ KillTimer \/ Obeys \/ Tick

(* Timers go off, signals are delivered; the clock goes on.                *)
EngineTimers == Tick \/ HangTimer \/ KillTimer
-----------------------------------------------------------------------------
(* A viewer that was told to stop ends, even one that is deaf to SIGTERM   *)
(* (engines.ts:271).                                                       *)
StopEnds == stopCalled /\ child = "alive" ~> child # "alive"

(* One that reports an error is ended as well, but only with SIGTERM: a    *)
(* deaf one stays until it is stopped (engines.ts:194).                    *)
DeadSessionDies == fatal /\ child = "alive" ~> child # "alive" \/ deaf

(* What is told of a viewer comes in an order that makes sense: one that   *)
(* failed does not run afterwards, except a spawn that failed, which has   *)
(* no exit to tell start() (engines.ts:205, :242); one that reported an    *)
(* error does not begin to look alive; and what the person ended is not    *)
(* shown as a failure, whatever it says on its way out (engines.ts:212).   *)
ToldIsTrue ==
    [][/\ told = "failed" /\ told' = "running" => child = "unborn"
       /\ fatal => told' # "running" \/ told = "running"
       /\ stopCalled /\ stopping /\ child = "alive" => told' # "failed" \/ told = "failed"]_engineVars
=============================================================================
