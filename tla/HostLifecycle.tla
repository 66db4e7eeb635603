---------------------------- MODULE HostLifecycle ----------------------------
(***************************************************************************)
(* Switching remote access on and off: HostRole.start, stop and            *)
(* regenerateCode (apps/desktop/src/host.ts) under everything that calls   *)
(* them (main.ts): the switch and the settings in the window, the tray,    *)
(* waking up, launching, and the periodic authorization check.             *)
(*                                                                         *)
(* A task is one such call.  Its steps are what runs between two awaits:   *)
(* saving the settings, opening the announcer's socket, closing the        *)
(* listener, closing the announcer.  Binding the port is not one of them:  *)
(* Node binds before listen() returns and reports it before it handles     *)
(* anything else.  Handshakes are HostSessions; here a viewer is admitted  *)
(* in one step, and a wrong guess is one step too, so that nothing but     *)
(* start and stop comes between them.                                      *)
(***************************************************************************)
EXTENDS Naturals, FiniteSets

CONSTANTS
    Task,           \* calls that may be under way at once
    MaxAnnouncer,   \* bound: announcers made in a run
    MaxCode,        \* bound: access codes generated in a run
    RotateAfter,    \* the limiter's rotateAfter
    PortMayBeTaken, \* another program may have the port
    DiskMayFail     \* settings.update may fail after it changed them in memory

ASSUME LifecycleAssumption ==
    /\ MaxAnnouncer \in Nat
    /\ MaxCode \in Nat \ {0}
    /\ RotateAfter \in Nat \ {0}
    /\ PortMayBeTaken \in BOOLEAN
    /\ DiskMayFail \in BOOLEAN

VARIABLES
    enabled,    \* settings.remoteAccess.enabled
    permitted,  \* the authorization answer in hand lets this computer host
    portTaken,  \* another program holds the port
    listening,  \* listener # null
    accepting,  \* authenticator # null
    code,       \* the access code, 0 before there is one
    counted,    \* failures the authenticator's limiter has counted
    sessions,   \* sessions carried, "lan" and "relay"
    announcer,  \* the announcer in use, 0 for none
    made,       \* announcers made so far
    open,       \* announcers whose socket answers on the network
    announcing, \* what the window is told about it
    task        \* task -> what it waits for

lifecycleVars == <<enabled, permitted, portTaken, listening, accepting, code, counted,
          sessions, announcer, made, open, announcing, task>>

Announcer == 1 .. MaxAnnouncer

(* What a task waits for.  `then' of a stop: whether a start follows; of a *)
(* save: what the caller will compare, the tray its own value, the window  *)
(* whatever the settings hold by then.                                     *)
Idle == [at |-> "idle"]
WindowSaving == [at : {"window"}, restart : BOOLEAN]
TraySaving == [at : {"tray"}, on : BOOLEAN]
Announcing == [at : {"announcing"}, announcer : Announcer]
Stopping == [at : {"closing", "hushing"}, then : BOOLEAN]
Waiting == {Idle} \cup WindowSaving \cup TraySaving \cup Announcing \cup Stopping

Settled == \A t \in Task : task[t] = Idle
TaskGoes(t, wait) == task' = [task EXCEPT ![t] = wait]
-----------------------------------------------------------------------------
LifecycleInit ==
    /\ enabled \in BOOLEAN
    /\ permitted \in BOOLEAN
    /\ portTaken \in {FALSE, PortMayBeTaken}
    /\ listening = FALSE /\ accepting = FALSE
    /\ code = 0 /\ counted = 0
    /\ sessions = {}
    /\ announcer = 0 /\ made = 0 /\ open = {} /\ announcing = FALSE
    /\ task = [t \in Task |-> Idle]

(* Mutant: the announcer is named for the start that is to come.           *)
StartMisnamed(t) ==
    IF listening \/ ~ permitted
    THEN /\ TaskGoes(t, Idle)
         /\ UNCHANGED <<listening, accepting, code, counted, announcer, made>>
    ELSE /\ accepting' = TRUE
         /\ code' = IF code = 0 THEN 1 ELSE code
         /\ UNCHANGED counted
         /\ listening' = ~ portTaken
         /\ \/ TaskGoes(t, Idle) /\ UNCHANGED <<announcer, made>>
            \/ /\ ~ portTaken
               /\ made < MaxAnnouncer
               /\ UNCHANGED made
               /\ announcer' = made + 1
               /\ TaskGoes(t, [at |-> "announcing", announcer |-> made + 1])

(* start(), up to the wait for the announcer.  The authenticator is new,   *)
(* and its limiter with it; the code is kept if there is one.              *)
StartHost(t) ==
    IF listening \/ ~ permitted
    THEN /\ TaskGoes(t, Idle)
         /\ UNCHANGED <<listening, accepting, code, counted, announcer, made>>
    ELSE /\ accepting' = TRUE
         /\ code' = IF code = 0 THEN 1 ELSE code
         /\ counted' = 0
         /\ listening' = ~ portTaken
         /\ \/ TaskGoes(t, Idle) /\ UNCHANGED <<announcer, made>>
            \/ /\ ~ portTaken
               /\ made < MaxAnnouncer
               /\ made' = made + 1
               /\ announcer' = made + 1
               /\ TaskGoes(t, [at |-> "announcing", announcer |-> made + 1])

(* announcer.start() resolves: bound, or not for some reason.              *)
Announced(t) ==
    /\ task[t].at = "announcing"
    /\ \/ open' = open \cup {task[t].announcer} /\ announcing' = TRUE
       \/ announcing' = FALSE /\ UNCHANGED open
    /\ TaskGoes(t, Idle)
    /\ UNCHANGED <<enabled, permitted, portTaken, listening, accepting, code,
                   counted, sessions, announcer, made>>

(* Mutant: the announcer is closed and the window is not told.             *)
HushQuietly(t, then) ==
    /\ announcer' = 0
    /\ UNCHANGED announcing
    /\ open' = open \ {announcer}
    /\ TaskGoes(t, [at |-> "hushing", then |-> then])

(* stop(), once the listener is closed: whatever announcer there is by now *)
(* is taken away.  One that has no socket yet has nothing to close.        *)
Hush(t, then) ==
    /\ announcer' = 0
    /\ announcing' = FALSE
    /\ open' = open \ {announcer}
    /\ TaskGoes(t, [at |-> "hushing", then |-> then])

(* stop(), up to the wait for the listener's sockets.                      *)
StopHost(t, then) ==
    /\ sessions' = {}
    /\ listening' = FALSE
    /\ accepting' = FALSE
    /\ IF listening
       THEN TaskGoes(t, [at |-> "closing", then |-> then]) /\ UNCHANGED <<announcer, open, announcing>>
       ELSE Hush(t, then)

(* Mutant: the authenticator goes once the listener is closed.             *)
ClosedLate(t) ==
    /\ task[t].at = "closing"
    /\ Hush(t, task[t].then)
    /\ accepting' = FALSE
    /\ UNCHANGED <<enabled, permitted, portTaken, listening, code,
                   counted, sessions, made>>

Closed(t) ==
    /\ task[t].at = "closing"
    /\ Hush(t, task[t].then)
    /\ UNCHANGED <<enabled, permitted, portTaken, listening, accepting, code,
                   counted, sessions, made>>

(* The end of stop(), and the start() that a change of port goes on to.    *)
Hushed(t) ==
    /\ task[t].at = "hushing"
    /\ IF task[t].then
       THEN StartHost(t)
       ELSE TaskGoes(t, Idle) /\ UNCHANGED <<listening, accepting, code, counted, announcer, made>>
    /\ UNCHANGED <<enabled, permitted, portTaken, sessions, open, announcing>>
-----------------------------------------------------------------------------
(* The switch in the window (setRemoteAccess), or its port and announcement.*)
WindowSwitch(t, on) ==
    /\ task[t] = Idle
    /\ enabled' = on
    /\ TaskGoes(t, [at |-> "window", restart |-> FALSE])
    /\ UNCHANGED <<permitted, portTaken, listening, accepting, code, counted,
                   sessions, announcer, made, open, announcing>>

WindowSettings(t) ==
    /\ task[t] = Idle
    /\ TaskGoes(t, [at |-> "window", restart |-> TRUE])
    /\ UNCHANGED <<enabled, permitted, portTaken, listening, accepting, code,
                   counted, sessions, announcer, made, open, announcing>>

TraySwitch(t, on) ==
    /\ task[t] = Idle
    /\ enabled' = on
    /\ TaskGoes(t, [at |-> "tray", on |-> on])
    /\ UNCHANGED <<permitted, portTaken, listening, accepting, code, counted,
                   sessions, announcer, made, open, announcing>>

(* The settings are on disk: the window acts on what they say by now.      *)
WindowSaved(t) ==
    /\ task[t].at = "window"
    /\ CASE enabled /\ ~ listening ->
              StartHost(t) /\ UNCHANGED <<sessions, open, announcing>>
         [] ~ enabled /\ listening ->
              StopHost(t, FALSE) /\ UNCHANGED <<code, counted, made>>
         [] enabled /\ listening /\ task[t].restart ->
              StopHost(t, TRUE) /\ UNCHANGED <<code, counted, made>>
         [] OTHER ->
              TaskGoes(t, Idle) /\ UNCHANGED <<listening, accepting, code, counted,
                                           sessions, announcer, made, open, announcing>>
    /\ UNCHANGED <<enabled, permitted, portTaken>>

TraySaved(t) ==
    /\ task[t].at = "tray"
    /\ IF task[t].on
       THEN StartHost(t) /\ UNCHANGED <<sessions, open, announcing>>
       ELSE StopHost(t, FALSE) /\ UNCHANGED <<code, counted, made>>
    /\ UNCHANGED <<enabled, permitted, portTaken>>

(* The write fails: the call does too, and the settings stay as changed.   *)
SaveFails(t) ==
    /\ DiskMayFail
    /\ task[t].at \in {"window", "tray"}
    /\ TaskGoes(t, Idle)
    /\ UNCHANGED <<enabled, permitted, portTaken, listening, accepting, code,
                   counted, sessions, announcer, made, open, announcing>>

(* Launching with remote access on, or waking up.                          *)
Launch(t) ==
    /\ task[t] = Idle
    /\ enabled
    /\ StartHost(t)
    /\ UNCHANGED <<enabled, permitted, portTaken, sessions, open, announcing>>

(* The service says what the answer in hand already says, or otherwise.    *)
AnswerChanges ==
    /\ permitted' = ~ permitted
    /\ UNCHANGED <<enabled, portTaken, listening, accepting, code, counted,
                   sessions, announcer, made, open, announcing, task>>

(* Mutant: a check that only ever stops the host.                          *)
CheckWithoutResuming(t) ==
    /\ task[t] = Idle
    /\ ~ permitted
    /\ listening
    /\ StopHost(t, FALSE)
    /\ UNCHANGED <<enabled, permitted, portTaken, code, counted, made>>

(* Mutant: a check that leaves a host alone that carries a session.        *)
CheckUnlessBusy(t) ==
    /\ task[t] = Idle
    /\ \/ /\ ~ permitted /\ listening /\ sessions = {}
          /\ StopHost(t, FALSE)
          /\ UNCHANGED <<code, counted, made>>
       \/ /\ permitted /\ ~ listening /\ enabled
          /\ StartHost(t)
          /\ UNCHANGED <<sessions, open, announcing>>
    /\ UNCHANGED <<enabled, permitted, portTaken>>

(* check(): stops a host that may not, starts one that may and should.     *)
Check(t) ==
    /\ task[t] = Idle
    /\ \/ /\ ~ permitted /\ listening
          /\ StopHost(t, FALSE)
          /\ UNCHANGED <<code, counted, made>>
       \/ /\ permitted /\ ~ listening /\ enabled
          /\ StartHost(t)
          /\ UNCHANGED <<sessions, open, announcing>>
    /\ UNCHANGED <<enabled, permitted, portTaken>>

PortChanges ==
    /\ PortMayBeTaken
    /\ ~ listening
    /\ portTaken' = ~ portTaken
    /\ UNCHANGED <<enabled, permitted, listening, accepting, code, counted,
                   sessions, announcer, made, open, announcing, task>>

(* A viewer is admitted, over the network or through the relay.            *)
ReachableFrom(way) ==
    /\ permitted
    /\ \/ way = "lan" /\ listening
       \/ way = "relay" /\ accepting /\ enabled

Admit(way) ==
    /\ ReachableFrom(way)
    /\ accepting
    /\ sessions' = sessions \cup {way}
    /\ UNCHANGED <<enabled, permitted, portTaken, listening, accepting, code,
                   counted, announcer, made, open, announcing, task>>

Leave(way) ==
    /\ way \in sessions
    /\ sessions' = sessions \ {way}
    /\ UNCHANGED <<enabled, permitted, portTaken, listening, accepting, code,
                   counted, announcer, made, open, announcing, task>>

(* A wrong code, one at a time; enough of them replace it.                 *)
Guess ==
    /\ \E way \in {"lan", "relay"} : ReachableFrom(way)
    /\ accepting
    /\ IF counted + 1 >= RotateAfter
       THEN code < MaxCode /\ code' = code + 1 /\ counted' = 0
       ELSE counted' = counted + 1 /\ UNCHANGED code
    /\ UNCHANGED <<enabled, permitted, portTaken, listening, accepting,
                   sessions, announcer, made, open, announcing, task>>

RegenerateCode ==
    /\ listening
    /\ code < MaxCode
    /\ code' = code + 1 /\ counted' = 0
    /\ UNCHANGED <<enabled, permitted, portTaken, listening, accepting,
                   sessions, announcer, made, open, announcing, task>>

Call(t) ==
    \/ \E on \in BOOLEAN : WindowSwitch(t, on) \/ TraySwitch(t, on)
    \/ WindowSettings(t) \/ Launch(t) \/ Check(t)

(* What is awaited here always answers: a write of the disk, sockets of    *)
(* this computer.                                                          *)
TaskProceeds(t) == WindowSaved(t) \/ TraySaved(t) \/ Announced(t) \/ Closed(t) \/ Hushed(t)

LifecycleNext ==
    \/ \E t \in Task : Call(t) \/ TaskProceeds(t) \/ SaveFails(t)
    \/ \E way \in {"lan", "relay"} : Admit(way) \/ Leave(way)
    \/ AnswerChanges \/ PortChanges \/ Guess \/ RegenerateCode

LifecycleSpec == LifecycleInit /\ [][LifecycleNext]_lifecycleVars

-----------------------------------------------------------------------------
LifecycleTypeOK ==
    /\ enabled \in BOOLEAN /\ permitted \in BOOLEAN /\ portTaken \in BOOLEAN
    /\ listening \in BOOLEAN /\ accepting \in BOOLEAN
    /\ code \in 0 .. MaxCode
    /\ counted \in 0 .. RotateAfter - 1
    /\ sessions \subseteq {"lan", "relay"}
    /\ made \in 0 .. MaxAnnouncer
    /\ announcer \in 0 .. made
    /\ open \subseteq 1 .. made
    /\ announcing \in BOOLEAN
    /\ task \in [Task -> Waiting]
    /\ \A t \in Task : task[t].at = "announcing" => task[t].announcer <= made

(* However starts and stops overlap, an open listener always has an        *)
(* authenticator and a code to answer with: never "the worst of both" of   *)
(* host.ts:148-155, a port that is open to turn everyone away.             *)
ListenerCanAnswer == listening => accepting /\ code # 0

(* The window never says that this computer announces itself when nothing  *)
(* of it answers, whichever start or stop finished last (host.ts 190-217). *)
AnnouncedForReal == announcing => open # {}

(* A computer that is switched on, allowed and has its port listens again, *)
(* whatever was under way when it was allowed (main.ts 855-872).           *)
ListensAgain ==
    <>[](enabled /\ permitted /\ ~ portTaken) => []<>listening

(* A computer that stays blocked stops listening and carries nobody who    *)
(* came over the network (main.ts 844-854).                                *)
BlockedGoesQuiet == <>[](~ permitted) => <>[](~ listening /\ "lan" \notin sessions)

-----------------------------------------------------------------------------
(* What the repository says of the program, and the program does not do.   *)

(* tray-state.ts:6-8 and 35-36: `Offline' means "nobody can connect";      *)
(* "Enabled but not listening yet is still not reachable".                 *)
Offline == sessions = {} /\ ~ (enabled /\ listening)
OfflineMeansUnreachable ==
    Settled /\ Offline => \A way \in {"lan", "relay"} : ~ ReachableFrom(way)

(* What the window and the network are told of the host is so: a listener  *)
(* that is open can answer, and an announcement has somebody behind it.    *)
ShownIsSo == LifecycleTypeOK /\ ListenerCanAnswer /\ AnnouncedForReal
=============================================================================
