----------------------------- MODULE RolesProofs -----------------------------
(***************************************************************************)
(* The long-running roles, each on its own.                                *)
(*                                                                         *)
(* Of the host, for any number of overlapping starts, stops and checks: an *)
(* open listener can answer, and what the window says of the announcement  *)
(* is so.  LifecycleTypeOK, ListenerCanAnswer and AnnouncedForReal are     *)
(* inductive together; the first holds because start() and stop() each     *)
(* change the listener, the authenticator and the code between the same    *)
(* two awaits.                                                             *)
(*                                                                         *)
(* Of the viewer, for any number of tries: types, `Reconnecting...' is     *)
(* never shown with nothing scheduled, and a session its host ended is not *)
(* resumed.  The last needs one fact more than it states, HeardBye: while  *)
(* the session that runs has been told `bye', endedByPeer is still set,    *)
(* although every close and every disconnect clears it.                    *)
(*                                                                         *)
(* Of the relay server, for any number of devices, accounts, connections   *)
(* and sessions: an open connection is the one its device is reached by    *)
(* and belongs to a device enrolled and approved where it arrived, and a   *)
(* session joins two devices of one account.  The three hold together and  *)
(* rest on one fact more, OnlineIsThere: what a device is reached by is a  *)
(* connection of its own whose close has not been reported.                *)
(***************************************************************************)
EXTENDS HostLifecycle, ViewerRole, RelayServer, TLAPS

LifecycleIInv == LifecycleTypeOK /\ ListenerCanAnswer /\ AnnouncedForReal

LEMMA LifecycleInitIInv == LifecycleInit => LifecycleIInv
  <1> SUFFICES ASSUME LifecycleInit PROVE LifecycleIInv
    OBVIOUS
  <1> USE LifecycleAssumption DEF LifecycleInit
  <1>1. /\ enabled \in BOOLEAN /\ permitted \in BOOLEAN /\ portTaken \in BOOLEAN
        /\ listening \in BOOLEAN /\ accepting \in BOOLEAN /\ announcing \in BOOLEAN
    OBVIOUS
  <1>2. /\ task \in [Task -> Waiting]
        /\ \A t \in Task : task[t].at = "announcing" => task[t].announcer <= made
    BY DEF Idle, Waiting
  <1>3. /\ code \in 0 .. MaxCode /\ counted \in 0 .. RotateAfter - 1
        /\ sessions \subseteq {"lan", "relay"}
        /\ made \in 0 .. MaxAnnouncer /\ announcer \in 0 .. made /\ open \subseteq 1 .. made
    OBVIOUS
  <1> QED BY <1>1, <1>2, <1>3 DEF LifecycleIInv, LifecycleTypeOK, ListenerCanAnswer, AnnouncedForReal

(* start() keeps the types, and leaves a listener with what it needs.      *)
LEMMA StartKeeps ==
    ASSUME LifecycleIInv, NEW t \in Task, StartHost(t)
    PROVE  /\ listening' \in BOOLEAN /\ accepting' \in BOOLEAN
           /\ code' \in 0 .. MaxCode /\ counted' \in 0 .. RotateAfter - 1
           /\ made' \in made .. MaxAnnouncer /\ announcer' \in 0 .. made'
           /\ task' \in [Task -> Waiting]
           /\ \A u \in Task : task'[u].at = "announcing" => task'[u].announcer <= made'
           /\ ListenerCanAnswer'
  <1> USE LifecycleAssumption DEF LifecycleIInv, LifecycleTypeOK, ListenerCanAnswer, TaskGoes, Announcer
  <1>1. CASE listening \/ ~ permitted
    BY <1>1 DEF StartHost, Waiting, Idle
  <1>2. CASE ~ (listening \/ ~ permitted) /\ task' = [task EXCEPT ![t] = Idle] /\ UNCHANGED <<announcer, made>>
    BY <1>2 DEF StartHost, Waiting, Idle
  <1>3. CASE /\ ~ (listening \/ ~ permitted)
             /\ made < MaxAnnouncer /\ made' = made + 1 /\ announcer' = made + 1
             /\ task' = [task EXCEPT ![t] = [at |-> "announcing", announcer |-> made + 1]]
    <2>1. [at |-> "announcing", announcer |-> made + 1] \in Waiting
      BY <1>3 DEF Waiting, Announcing
    <2>2. task' \in [Task -> Waiting]
      BY <1>3, <2>1
    <2>3. ASSUME NEW u \in Task, task'[u].at = "announcing"
          PROVE  task'[u].announcer <= made'
      <3>1. CASE u = t
        BY <1>3, <3>1
      <3>2. CASE u # t
        <4>1. task[u] \in Announcing
          BY <1>3, <2>3, <3>2 DEF Waiting, Idle, WindowSaving, TraySaving, Announcing, Stopping
        <4>2. task'[u] = task[u] /\ task[u].announcer \in Nat /\ task[u].announcer <= made
          BY <1>3, <2>3, <3>2, <4>1 DEF Announcing
        <4> QED BY <1>3, <4>2
      <3> QED BY <3>1, <3>2
    <2>4. made' \in made .. MaxAnnouncer /\ announcer' \in 0 .. made'
      BY <1>3
    <2>5. /\ listening' \in BOOLEAN /\ accepting' = TRUE /\ counted' = 0
          /\ code' \in 0 .. MaxCode /\ code' # 0
      BY <1>3 DEF StartHost
    <2> QED BY <2>2, <2>3, <2>4, <2>5
  <1> QED BY <1>1, <1>2, <1>3 DEF StartHost

(* Both halves of stop() keep the types and leave no listener behind them. *)
LEMMA HushKeeps ==
    ASSUME LifecycleIInv, NEW t \in Task, NEW then \in BOOLEAN, Hush(t, then), UNCHANGED made
    PROVE  /\ announcer' \in 0 .. made' /\ open' \subseteq 1 .. made'
           /\ announcing' = FALSE
           /\ task' \in [Task -> Waiting]
           /\ \A u \in Task : task'[u].at = "announcing" => task'[u].announcer <= made'
  <1>1. [at |-> "hushing", then |-> then] \in Waiting
    BY DEF Waiting, Stopping
  <1> QED BY <1>1, LifecycleAssumption DEF Hush, LifecycleIInv, LifecycleTypeOK, TaskGoes

LEMMA StopKeeps ==
    ASSUME LifecycleIInv, NEW t \in Task, NEW then \in BOOLEAN, StopHost(t, then), UNCHANGED made
    PROVE  /\ sessions' \subseteq {"lan", "relay"} /\ listening' = FALSE /\ accepting' = FALSE
           /\ announcer' \in 0 .. made' /\ open' \subseteq 1 .. made'
           /\ announcing' \in BOOLEAN
           /\ task' \in [Task -> Waiting]
           /\ \A u \in Task : task'[u].at = "announcing" => task'[u].announcer <= made'
           /\ AnnouncedForReal'
  <1>1. [at |-> "closing", then |-> then] \in Waiting
    BY DEF Waiting, Stopping
  <1>2. CASE listening
    <2>1. /\ sessions' \subseteq {"lan", "relay"} /\ listening' = FALSE /\ accepting' = FALSE
          /\ announcer' \in 0 .. made' /\ open' \subseteq 1 .. made'
          /\ announcing' \in BOOLEAN
      BY <1>2 DEF StopHost, LifecycleIInv, LifecycleTypeOK
    <2>2. AnnouncedForReal'
      BY <1>2 DEF StopHost, LifecycleIInv, AnnouncedForReal
    <2>3. task' = [task EXCEPT ![t] = [at |-> "closing", then |-> then]]
      BY <1>2 DEF StopHost, TaskGoes
    <2>4. task' \in [Task -> Waiting]
      BY <1>1, <2>3 DEF LifecycleIInv, LifecycleTypeOK
    <2>5. \A u \in Task : task'[u].at = "announcing" => task'[u].announcer <= made'
      BY <2>3 DEF LifecycleIInv, LifecycleTypeOK
    <2> QED BY <2>1, <2>2, <2>4, <2>5
  <1>3. CASE ~ listening
    BY <1>3, HushKeeps DEF StopHost, AnnouncedForReal
  <1> QED BY <1>2, <1>3

LEMMA CallKeeps ==
    ASSUME LifecycleIInv, NEW t \in Task, Call(t)
    PROVE  LifecycleIInv'
  <1> USE LifecycleAssumption
  <1>1. ASSUME NEW on \in BOOLEAN, WindowSwitch(t, on)
        PROVE  LifecycleIInv'
    <2>1. [at |-> "window", restart |-> FALSE] \in Waiting
      BY DEF Waiting, WindowSaving
    <2> QED BY <1>1, <2>1 DEF WindowSwitch, TaskGoes, LifecycleIInv, LifecycleTypeOK, ListenerCanAnswer, AnnouncedForReal
  <1>2. ASSUME NEW on \in BOOLEAN, TraySwitch(t, on)
        PROVE  LifecycleIInv'
    <2>1. [at |-> "tray", on |-> on] \in Waiting
      BY DEF Waiting, TraySaving
    <2> QED BY <1>2, <2>1 DEF TraySwitch, TaskGoes, LifecycleIInv, LifecycleTypeOK, ListenerCanAnswer, AnnouncedForReal
  <1>3. CASE WindowSettings(t)
    <2>1. [at |-> "window", restart |-> TRUE] \in Waiting
      BY DEF Waiting, WindowSaving
    <2> QED BY <1>3, <2>1 DEF WindowSettings, TaskGoes, LifecycleIInv, LifecycleTypeOK, ListenerCanAnswer, AnnouncedForReal
  <1>4. CASE Launch(t)
    BY <1>4, StartKeeps DEF Launch, LifecycleIInv, LifecycleTypeOK, AnnouncedForReal
  <1>5. CASE Check(t)
    <2>1. CASE StopHost(t, FALSE) /\ UNCHANGED <<code, counted, made>>
      BY <1>5, <2>1, StopKeeps DEF Check, LifecycleIInv, LifecycleTypeOK, ListenerCanAnswer
    <2>2. CASE StartHost(t) /\ UNCHANGED <<sessions, open, announcing>>
      BY <1>5, <2>2, StartKeeps DEF Check, LifecycleIInv, LifecycleTypeOK, AnnouncedForReal
    <2> QED BY <1>5, <2>1, <2>2 DEF Check
  <1> QED BY <1>1, <1>2, <1>3, <1>4, <1>5 DEF Call

LEMMA LifecycleProceedKeeps ==
    ASSUME LifecycleIInv, NEW t \in Task, TaskProceeds(t)
    PROVE  LifecycleIInv'
  <1> USE LifecycleAssumption
  <1>0. task[t].at \in {"closing", "hushing"} => task[t].then \in BOOLEAN
    BY DEF LifecycleIInv, LifecycleTypeOK, Waiting, Stopping, Idle, WindowSaving, TraySaving, Announcing
  <1>1. CASE WindowSaved(t)
    <2>1. CASE StartHost(t) /\ UNCHANGED <<sessions, open, announcing>>
      BY <1>1, <2>1, StartKeeps DEF WindowSaved, LifecycleIInv, LifecycleTypeOK, AnnouncedForReal
    <2>2. CASE \E then \in BOOLEAN : StopHost(t, then) /\ UNCHANGED <<code, counted, made>>
      BY <1>1, <2>2, StopKeeps DEF WindowSaved, LifecycleIInv, LifecycleTypeOK, ListenerCanAnswer
    <2>3. CASE TaskGoes(t, Idle) /\ UNCHANGED <<listening, accepting, code, counted,
                                            sessions, announcer, made, open, announcing>>
      BY <1>1, <2>3 DEF WindowSaved, TaskGoes, Waiting, Idle, LifecycleIInv, LifecycleTypeOK, ListenerCanAnswer, AnnouncedForReal
    <2> QED BY <1>1, <2>1, <2>2, <2>3 DEF WindowSaved
  <1>2. CASE TraySaved(t)
    <2>1. CASE StartHost(t) /\ UNCHANGED <<sessions, open, announcing>>
      BY <1>2, <2>1, StartKeeps DEF TraySaved, LifecycleIInv, LifecycleTypeOK, AnnouncedForReal
    <2>2. CASE StopHost(t, FALSE) /\ UNCHANGED <<code, counted, made>>
      BY <1>2, <2>2, StopKeeps DEF TraySaved, LifecycleIInv, LifecycleTypeOK, ListenerCanAnswer
    <2> QED BY <1>2, <2>1, <2>2 DEF TraySaved
  <1>3. CASE Announced(t)
    <2>1. task[t].announcer \in 1 .. made
      BY <1>3 DEF Announced, LifecycleIInv, LifecycleTypeOK, Waiting, Announcing, Announcer, Idle, WindowSaving, TraySaving, Stopping
    <2> QED BY <1>3, <2>1 DEF Announced, TaskGoes, Waiting, Idle, LifecycleIInv, LifecycleTypeOK, ListenerCanAnswer, AnnouncedForReal
  <1>4. CASE Closed(t)
    BY <1>0, <1>4, HushKeeps DEF Closed, LifecycleIInv, LifecycleTypeOK, ListenerCanAnswer, AnnouncedForReal
  <1>5. CASE Hushed(t)
    <2>1. CASE StartHost(t)
      BY <1>5, <2>1, StartKeeps DEF Hushed, LifecycleIInv, LifecycleTypeOK, AnnouncedForReal
    <2>2. CASE TaskGoes(t, Idle) /\ UNCHANGED <<listening, accepting, code, counted, announcer, made>>
      BY <1>5, <2>2 DEF Hushed, TaskGoes, Waiting, Idle, LifecycleIInv, LifecycleTypeOK, ListenerCanAnswer, AnnouncedForReal
    <2> QED BY <1>5, <2>1, <2>2 DEF Hushed
  <1> QED BY <1>1, <1>2, <1>3, <1>4, <1>5 DEF TaskProceeds

LEMMA LifecycleNextIInv == LifecycleIInv /\ [LifecycleNext]_lifecycleVars => LifecycleIInv'
  <1> SUFFICES ASSUME LifecycleIInv, [LifecycleNext]_lifecycleVars PROVE LifecycleIInv'
    OBVIOUS
  <1> USE LifecycleAssumption
  <1>1. ASSUME NEW t \in Task, Call(t) \/ TaskProceeds(t) PROVE LifecycleIInv'
    BY <1>1, CallKeeps, LifecycleProceedKeeps
  <1>2. ASSUME NEW t \in Task, SaveFails(t) PROVE LifecycleIInv'
    BY <1>2 DEF SaveFails, TaskGoes, Waiting, Idle, LifecycleIInv, LifecycleTypeOK, ListenerCanAnswer, AnnouncedForReal
  <1>3. ASSUME NEW way \in {"lan", "relay"}, Admit(way) \/ Leave(way) PROVE LifecycleIInv'
    <2>1. UNCHANGED <<listening, accepting, code, announcing, open, task, made>>
      BY <1>3 DEF Admit, Leave
    <2>2. sessions' \subseteq {"lan", "relay"}
      BY <1>3 DEF Admit, Leave, LifecycleIInv, LifecycleTypeOK
    <2>3. UNCHANGED <<enabled, permitted, portTaken, counted, announcer>>
      BY <1>3 DEF Admit, Leave
    <2> QED BY <2>1, <2>2, <2>3 DEF LifecycleIInv, LifecycleTypeOK, ListenerCanAnswer, AnnouncedForReal, Waiting, Idle
  <1>4. CASE AnswerChanges
    BY <1>4 DEF AnswerChanges, Waiting, Idle, LifecycleIInv, LifecycleTypeOK, ListenerCanAnswer, AnnouncedForReal
  <1>5. CASE PortChanges
    BY <1>5 DEF PortChanges, Waiting, Idle, LifecycleIInv, LifecycleTypeOK, ListenerCanAnswer, AnnouncedForReal
  <1>6. CASE Guess
    <2>1. code' \in 0 .. MaxCode /\ (code # 0 => code' # 0)
      BY <1>6 DEF Guess, LifecycleIInv, LifecycleTypeOK
    <2>2. counted' \in 0 .. RotateAfter - 1
      BY <1>6 DEF Guess, LifecycleIInv, LifecycleTypeOK
    <2> QED BY <1>6, <2>1, <2>2 DEF Guess, Waiting, Idle, LifecycleIInv, LifecycleTypeOK, ListenerCanAnswer, AnnouncedForReal
  <1>7. CASE RegenerateCode
    BY <1>7 DEF RegenerateCode, Waiting, Idle, LifecycleIInv, LifecycleTypeOK, ListenerCanAnswer, AnnouncedForReal
  <1>8. CASE UNCHANGED lifecycleVars
    BY <1>8 DEF lifecycleVars, Waiting, Idle, LifecycleIInv, LifecycleTypeOK, ListenerCanAnswer, AnnouncedForReal
  <1> QED BY <1>1, <1>2, <1>3, <1>4, <1>5, <1>6, <1>7, <1>8 DEF LifecycleNext

LEMMA LifecycleInductive == LifecycleSpec => []LifecycleIInv
  BY LifecycleInitIInv, LifecycleNextIInv, PTL DEF LifecycleSpec

(* The types of every variable, for any number of calls at once.           *)
THEOREM LifecycleTypes == LifecycleSpec => []LifecycleTypeOK
  <1>1. LifecycleIInv => LifecycleTypeOK
    BY DEF LifecycleIInv
  <1> QED BY <1>1, LifecycleInductive, PTL

(* An open listener has an authenticator and a code (host.ts:148-155).     *)
THEOREM OpenMeansAnswering == LifecycleSpec => []ListenerCanAnswer
  <1>1. LifecycleIInv => ListenerCanAnswer
    BY DEF LifecycleIInv
  <1> QED BY <1>1, LifecycleInductive, PTL

(* What the window is told of the announcement is so (host.ts:190-217).    *)
THEOREM AnnouncementIsTrue == LifecycleSpec => []AnnouncedForReal
  <1>1. LifecycleIInv => AnnouncedForReal
    BY DEF LifecycleIInv
  <1> QED BY <1>1, LifecycleInductive, PTL

(* The three together: what is shown of the host is so.                    *)
THEOREM ShownStaysSo == LifecycleSpec => []ShownIsSo
  <1>1. LifecycleIInv => ShownIsSo
    BY DEF LifecycleIInv, ShownIsSo
  <1> QED BY <1>1, LifecycleInductive, PTL
-----------------------------------------------------------------------------

HeardBye == \A t \in Try : step[t] = "running" /\ t \in said /\ session = t => byPeer

ViewerIInv == ViewerTypeOK /\ ReconnectingMeansScheduled /\ HeardBye

LEMMA ViewerInitIInv == ViewerInit => ViewerIInv
  <1> SUFFICES ASSUME ViewerInit PROVE ViewerIInv
    OBVIOUS
  <1> USE ViewerAssumption DEF ViewerInit, Status, Step, Setup
  <1>1. shown \in BOOLEAN /\ stopped \in BOOLEAN /\ byPeer \in BOOLEAN
    OBVIOUS
  <1>2. /\ step \in [Try -> Step] /\ caller \in [Try -> {"person", "timer"}]
        /\ link \in [Try -> {"none", "open", "closed"}]
    OBVIOUS
  <1>3. attempt \in 0 .. MaxAttempt
    OBVIOUS
  <1>4. HeardBye /\ ReconnectingMeansScheduled
    BY DEF HeardBye, ReconnectingMeansScheduled
  <1> QED BY <1>1, <1>2, <1>3, <1>4 DEF ViewerIInv, ViewerTypeOK

(* The ways to connect, and the steps of a try.                            *)
LEMMA ConnectKeeps ==
    ASSUME ViewerIInv, NEW t \in Try,
           (\E how \in {"code", "paired"} : Connect(t, how)) \/ ConnectAccount(t)
    PROVE  ViewerIInv'
  <1> USE ViewerAssumption DEF Status, Step, Setup
  <1>1. ASSUME NEW how \in {"code", "paired"}, Connect(t, how) PROVE ViewerIInv'
    <2>1. stopped' \in BOOLEAN /\ attempt' \in 0 .. MaxAttempt /\ shown' \in BOOLEAN
      <3>1. stopped' = FALSE
        BY <1>1 DEF Connect
      <3>2. attempt' = 0
        BY <1>1 DEF Connect
      <3>3. shown' \in BOOLEAN
        BY <1>1 DEF Connect, Shows
      <3>4. stopped' \in BOOLEAN
        BY <3>1, Zenon
      <3>5. attempt' \in 0 .. MaxAttempt
        BY <3>2
      <3> QED BY <3>3, <3>4, <3>5
    <2>2. step' \in [Try -> Step] /\ link' \in [Try -> {"none", "open", "closed"}]
      BY <1>1 DEF Connect, Goes, ViewerIInv, ViewerTypeOK
    <2>3. HeardBye'
      BY <1>1 DEF Connect, Goes, ViewerIInv, ViewerTypeOK, HeardBye
    <2>4. /\ status' \in Status /\ status' # "reconnecting" /\ grant' = "none"
          /\ request' \in {"none", "code", "paired"}
      BY <1>1 DEF Connect, Shows
    <2>5. UNCHANGED <<session, peer, media, timers, latest, byPeer, caller, said, retried>>
      BY <1>1 DEF Connect
    <2>6. ViewerTypeOK'
      BY <2>1, <2>2, <2>4, <2>5 DEF ViewerIInv, ViewerTypeOK
    <2> QED BY <2>3, <2>4, <2>6 DEF ViewerIInv, ReconnectingMeansScheduled
  <1>2. CASE ConnectAccount(t)
    <2>1. stopped' \in BOOLEAN /\ attempt' \in 0 .. MaxAttempt /\ shown' \in BOOLEAN
      <3>1. stopped' = FALSE
        BY <1>2 DEF ConnectAccount
      <3>2. attempt' = 0
        BY <1>2 DEF ConnectAccount
      <3>3. shown' \in BOOLEAN
        BY <1>2 DEF ConnectAccount, Shows
      <3>4. stopped' \in BOOLEAN
        BY <3>1, Zenon
      <3>5. attempt' \in 0 .. MaxAttempt
        BY <3>2
      <3> QED BY <3>3, <3>4, <3>5
    <2>2. step' \in [Try -> Step] /\ link' \in [Try -> {"none", "open", "closed"}]
      BY <1>2 DEF ConnectAccount, Goes, ViewerIInv, ViewerTypeOK
    <2>3. HeardBye'
      BY <1>2 DEF ConnectAccount, Goes, ViewerIInv, ViewerTypeOK, HeardBye
    <2>4. /\ status' \in Status /\ status' # "reconnecting" /\ grant' = "none"
          /\ request' \in {"none", "code", "paired"}
      BY <1>2 DEF ConnectAccount, Shows
    <2>5. UNCHANGED <<session, peer, media, timers, latest, byPeer, caller, said, retried>>
      BY <1>2 DEF ConnectAccount
    <2>6. ViewerTypeOK'
      BY <2>1, <2>2, <2>4, <2>5 DEF ViewerIInv, ViewerTypeOK
    <2> QED BY <2>3, <2>4, <2>6 DEF ViewerIInv, ReconnectingMeansScheduled
  <1> QED BY <1>1, <1>2

LEMMA ViewerProceedKeeps ==
    ASSUME ViewerIInv, NEW t \in Try, Proceed(t)
    PROVE  ViewerIInv'
  <1> USE ViewerAssumption DEF Goes, Shows, ViewerIInv, ViewerTypeOK, ReconnectingMeansScheduled, HeardBye, Status, Step, Setup
  <1>1. CASE Located(t)
    BY <1>1 DEF Located
  <1>2. CASE NotReached(t)
    BY <1>2 DEF NotReached
  <1>3. CASE Dialed(t)
    BY <1>3 DEF Dialed
  <1>4. CASE Refused(t)
    BY <1>4 DEF Refused
  <1>5. CASE KeyAccepted(t)
    BY <1>5 DEF KeyAccepted
  <1>6. ASSUME NEW trusted \in BOOLEAN, NEW granted \in BOOLEAN, LetIn(t, trusted, granted)
        PROVE  ViewerIInv'
    BY <1>6 DEF LetIn
  <1>7. CASE PrepareFails(t)
    BY <1>7 DEF PrepareFails
  <1>8. CASE Prepared(t)
    BY <1>8 DEF Prepared
  <1>9. CASE Offered(t)
    BY <1>9 DEF Offered
  <1>10. CASE NegotiationFails(t)
    BY <1>10 DEF NegotiationFails, Teardown
  <1>11. CASE Connected(t)
    BY <1>11 DEF Connected
  <1> QED BY <1>1, <1>2, <1>3, <1>4, <1>5, <1>6, <1>7, <1>8, <1>9, <1>10, <1>11 DEF Proceed

(* What the host, the network, the timer and the person do.                *)
LEMMA OthersKeep ==
    ASSUME ViewerIInv,
           \/ \E t \in Try : Bye(t) \/ Drop(t)
           \/ \E t, u \in Try : Fire(t, u)
           \/ Disconnect \/ GrantLapses
    PROVE  ViewerIInv'
  <1> USE ViewerAssumption DEF Goes, Shows, Teardown, ViewerIInv, ViewerTypeOK, ReconnectingMeansScheduled, HeardBye, Status, Step, Setup
  <1>1. ASSUME NEW t \in Try, Bye(t) PROVE ViewerIInv'
    <2>1. CASE step[t] = "running"
      BY <1>1, <2>1 DEF Bye
    <2>2. CASE step[t] \in {"preparing", "offering"}
      BY <1>1, <2>2 DEF Bye
    <2>3. CASE step[t] = "racing"
      BY <1>1, <2>3 DEF Bye
    <2> QED BY <1>1, <2>1, <2>2, <2>3 DEF Bye
  <1>2. ASSUME NEW t \in Try, Drop(t) PROVE ViewerIInv'
    <2>1. CASE stopped \/ session = NoTry
      BY <1>2, <2>1 DEF Drop, OnClosed
    <2>2. CASE ~ (stopped \/ session = NoTry) /\ ~ byPeer /\ CanResume /\ attempt < MaxAttempt
      <3>1. attempt' \in 0 .. MaxAttempt /\ shown' \in BOOLEAN /\ byPeer' = FALSE
        BY <1>2, <2>2 DEF Drop, OnClosed
      <3>2. /\ timers' = timers \cup {t} /\ latest' = t /\ session' = NoTry /\ peer' = NoTry
            /\ media' = media \ {peer} /\ status' = "reconnecting"
            /\ link' = [link EXCEPT ![t] = "closed"]
            /\ UNCHANGED <<grant, request, stopped, step, caller, said, retried>>
        BY <1>2, <2>2 DEF Drop, OnClosed
      <3> QED BY <3>1, <3>2
    <2>3. CASE ~ (stopped \/ session = NoTry) /\ ~ (~ byPeer /\ CanResume /\ attempt < MaxAttempt)
      BY <1>2, <2>3 DEF Drop, OnClosed
    <2> QED BY <2>1, <2>2, <2>3
  <1>3. ASSUME NEW t \in Try, NEW u \in Try, Fire(t, u) PROVE ViewerIInv'
    BY <1>3 DEF Fire
  <1>4. CASE Disconnect
    BY <1>4 DEF Disconnect
  <1>5. CASE GrantLapses
    BY <1>5 DEF GrantLapses
  <1> QED BY <1>1, <1>2, <1>3, <1>4, <1>5

LEMMA ViewerNextIInv == ViewerIInv /\ [ViewerNext]_viewerVars => ViewerIInv'
  <1> SUFFICES ASSUME ViewerIInv, [ViewerNext]_viewerVars PROVE ViewerIInv'
    OBVIOUS
  <1>1. CASE ViewerNext
    BY <1>1, ConnectKeeps, ViewerProceedKeeps, OthersKeep DEF ViewerNext
  <1>2. CASE UNCHANGED viewerVars
    BY <1>2 DEF viewerVars, ViewerIInv, ViewerTypeOK, ReconnectingMeansScheduled, HeardBye
  <1> QED BY <1>1, <1>2

LEMMA ViewerInductive == ViewerSpec => []ViewerIInv
  BY ViewerInitIInv, ViewerNextIInv, PTL DEF ViewerSpec

(* The types of every variable, for any number of tries.                   *)
THEOREM ViewerTypes == ViewerSpec => []ViewerTypeOK
  <1>1. ViewerIInv => ViewerTypeOK
    BY DEF ViewerIInv
  <1> QED BY <1>1, ViewerInductive, PTL

(* The window says `Reconnecting...' only with a timer set (viewer.ts      *)
(* 321-349).                                                               *)
THEOREM ReconnectingIsScheduled == ViewerSpec => []ReconnectingMeansScheduled
  <1>1. ViewerIInv => ReconnectingMeansScheduled
    BY DEF ViewerIInv
  <1> QED BY <1>1, ViewerInductive, PTL

(* No step that closes the link of a running session whose host said `bye' *)
(* sets a timer (viewer.ts 283-286, 321-333).                              *)
LEMMA NoStepResumes ==
    ASSUME ViewerIInv, [ViewerNext]_viewerVars, NEW t \in Try,
           step[t] = "running", t \in said, session = t,
           link[t] = "open", link'[t] = "closed"
    PROVE  timers' \subseteq timers
  <1> USE ViewerAssumption DEF ViewerIInv, ViewerTypeOK, HeardBye
  <1>1. byPeer
    OBVIOUS
  <1>2. ASSUME NEW u \in Try, Drop(u) PROVE timers' \subseteq timers
    BY <1>1, <1>2 DEF Drop, OnClosed
  <1>3. CASE Disconnect
    BY <1>3 DEF Disconnect
  <1>4. ASSUME NEW u \in Try, Bye(u) PROVE timers' \subseteq timers
    BY <1>4 DEF Bye
  <1>5. ASSUME NEW u \in Try, NEW w \in Try, Fire(u, w) PROVE timers' \subseteq timers
    BY <1>5 DEF Fire
  <1>6. CASE UNCHANGED viewerVars \/ GrantLapses
    BY <1>6 DEF viewerVars, GrantLapses
  <1>7. ASSUME NEW u \in Try, Proceed(u) PROVE timers' \subseteq timers
    BY <1>7 DEF Proceed, Located, NotReached, Dialed, Refused, KeyAccepted, LetIn, PrepareFails,
                Prepared, Offered, NegotiationFails, Connected
  <1>8. ASSUME NEW u \in Try, (\E how \in {"code", "paired"} : Connect(u, how)) \/ ConnectAccount(u)
        PROVE  timers' \subseteq timers
    BY <1>8 DEF Connect, ConnectAccount
  <1> QED BY <1>2, <1>3, <1>4, <1>5, <1>6, <1>7, <1>8 DEF ViewerNext

(* A session the host ended on purpose is not resumed.                     *)
THEOREM EndedStaysEnded == ViewerSpec => DeliberateIsFinal
  <1>1. ViewerIInv /\ [ViewerNext]_viewerVars =>
          [\A t \in Try : /\ step[t] = "running" /\ t \in said /\ session = t
                          /\ link[t] = "open" /\ link'[t] = "closed"
                          => timers' \subseteq timers]_viewerVars
    BY NoStepResumes
  <1> QED BY <1>1, ViewerInductive, PTL DEF ViewerSpec, DeliberateIsFinal

-----------------------------------------------------------------------------
(* The relay server.                                                       *)

OnlineIsThere ==
    \A d \in Device : online[d] # None => socket[online[d]] # "free" /\ who[online[d]] = d

(* A connection that is counted is that of some device.                    *)
CountedHasDevice == \A c \in Connection : socket[c] # "free" => who[c] \in Device

RelayInv ==
    /\ RelayTypeOK
    /\ OnlineIsThere /\ CountedHasDevice
    /\ OpenIsOnline /\ OpenIsEnrolled /\ SessionsJoinDevices

Sockets == {"free", "open", "closing"}

LEMMA RelayInitInv == RelayInit => RelayInv
  <1> SUFFICES ASSUME RelayInit PROVE RelayInv
    OBVIOUS
  <1> USE RelayServerAssumption DEF RelayInit
  <1>1. RelayTypeOK
    BY DEF RelayTypeOK
  <1>2. OnlineIsThere /\ CountedHasDevice
    BY DEF OnlineIsThere, CountedHasDevice
  <1>3. OpenIsOnline /\ OpenIsEnrolled /\ SessionsJoinDevices
    BY DEF OpenIsOnline, OpenIsEnrolled, SessionsJoinDevices
  <1> QED BY <1>1, <1>2, <1>3 DEF RelayInv

(* Closing connections keeps everything that is said of the open ones.     *)
LEMMA ClosedSockets ==
    ASSUME RelayTypeOK, NEW cs
    PROVE  /\ ClosesThem(cs) \in [Connection -> Sockets]
           /\ \A c \in Connection :
                /\ ClosesThem(cs)[c] = "open" <=> socket[c] = "open" /\ c \notin cs
                /\ ClosesThem(cs)[c] = "free" <=> socket[c] = "free"
  BY DEF ClosesThem, RelayTypeOK, Sockets

LEMMA ClosingKeeps ==
    ASSUME RelayInv, NEW cs, socket' = ClosesThem(cs),
           UNCHANGED <<register, who, under, online, joins>>
    PROVE  RelayInv'
  <1> USE DEF register, blocks
  <1>1. /\ socket' \in [Connection -> Sockets]
        /\ \A c \in Connection : /\ socket'[c] = "open" => socket[c] = "open"
                                 /\ socket'[c] = "free" <=> socket[c] = "free"
    BY ClosedSockets DEF RelayInv
  <1>2. RelayTypeOK'
    BY <1>1 DEF RelayInv, RelayTypeOK, Sockets
  <1>3. OnlineIsThere' /\ CountedHasDevice'
    BY <1>1 DEF RelayInv, RelayTypeOK, OnlineIsThere, CountedHasDevice
  <1>4. OpenIsOnline' /\ OpenIsEnrolled'
    BY <1>1 DEF RelayInv, OpenIsOnline, OpenIsEnrolled
  <1>5. SessionsJoinDevices'
    BY <1>1 DEF RelayInv, RelayTypeOK, SessionsJoinDevices
  <1> QED BY <1>2, <1>3, <1>4, <1>5 DEF RelayInv

(* Decisions about the records, by a person, a computer or administrator.  *)
LEMMA EnrolKeeps ==
    ASSUME RelayInv, NEW d \in Device, NEW a \in Account, Enrol(d, a)
    PROVE  RelayInv'
  <1> USE RelayServerAssumption DEF Enrol, connections, blocks
  <1>1. /\ owner' \in [Device -> Account \cup {None}]
        /\ approved \subseteq approved' /\ approved' \subseteq approved \cup {d}
    BY DEF RelayInv, RelayTypeOK
  <1>2. owner'[d] = a /\ \A e \in Device : e # d => owner'[e] = owner[e]
    BY DEF RelayInv, RelayTypeOK
  <1>3. RelayTypeOK'
    BY <1>1, <1>2 DEF RelayInv, RelayTypeOK
  <1>4. OpenIsEnrolled'
    BY <1>1, <1>2 DEF RelayInv, RelayTypeOK, OpenIsEnrolled, CountedHasDevice
  <1>5. OnlineIsThere' /\ CountedHasDevice' /\ OpenIsOnline' /\ SessionsJoinDevices'
    BY DEF RelayInv, OnlineIsThere, CountedHasDevice, OpenIsOnline, SessionsJoinDevices
  <1> QED BY <1>3, <1>4, <1>5 DEF RelayInv

LEMMA ApproveKeeps ==
    ASSUME RelayInv, NEW by \in Device, NEW d \in Device, Approve(by, d)
    PROVE  RelayInv'
  <1> USE DEF Approve, connections, blocks
  <1>1. RelayTypeOK'
    BY DEF RelayInv, RelayTypeOK, Authenticates
  <1>2. OpenIsEnrolled'
    BY DEF RelayInv, OpenIsEnrolled
  <1>3. OnlineIsThere' /\ CountedHasDevice' /\ OpenIsOnline' /\ SessionsJoinDevices'
    BY DEF RelayInv, OnlineIsThere, CountedHasDevice, OpenIsOnline, SessionsJoinDevices
  <1> QED BY <1>1, <1>2, <1>3 DEF RelayInv

(* The record and the connection go in one step: an open connection is     *)
(* online, so DisconnectAll finds it.                                      *)
LEMMA RemoveKeeps ==
    ASSUME RelayInv, NEW d \in Device, Remove(d)
    PROVE  RelayInv'
  <1> USE RelayServerAssumption DEF Remove, DisconnectAll
  <1> DEFINE cs == {online[e] : e \in {d}}
  <1>1. /\ socket' = ClosesThem(cs)
        /\ socket' \in [Connection -> Sockets]
        /\ \A c \in Connection :
             /\ socket'[c] = "open" => socket[c] = "open" /\ c # online[d]
             /\ socket'[c] = "free" <=> socket[c] = "free"
    BY ClosedSockets DEF RelayInv
  <1>2. /\ owner' \in [Device -> Account \cup {None}] /\ owner'[d] = None
        /\ \A e \in Device : e # d => owner'[e] = owner[e]
    BY DEF RelayInv, RelayTypeOK
  <1>3. RelayTypeOK'
    BY <1>1, <1>2 DEF RelayInv, RelayTypeOK, Sockets
  <1>4. OnlineIsThere' /\ CountedHasDevice'
    BY <1>1 DEF RelayInv, RelayTypeOK, OnlineIsThere, CountedHasDevice
  <1>5. OpenIsOnline'
    BY <1>1 DEF RelayInv, OpenIsOnline
  <1>6. OpenIsEnrolled'
    <2> SUFFICES ASSUME NEW c \in Connection, socket'[c] = "open"
                 PROVE  who'[c] \in approved' /\ owner'[who'[c]] = under'[c]
      BY DEF OpenIsEnrolled
    <2>1. socket[c] = "open" /\ c # online[d]
      BY <1>1
    <2>2. who[c] \in Device /\ who[c] # d
      BY <2>1 DEF RelayInv, CountedHasDevice, OpenIsOnline
    <2> QED BY <1>2, <2>1, <2>2 DEF RelayInv, OpenIsEnrolled
  <1>7. SessionsJoinDevices'
    BY <1>1 DEF RelayInv, RelayTypeOK, SessionsJoinDevices
  <1> QED BY <1>3, <1>4, <1>5, <1>6, <1>7 DEF RelayInv

LEMMA RecordsKeep ==
    ASSUME RelayInv, NEW d \in Device, RegisterInstallation(d) \/ Unblock(d)
    PROVE  RelayInv'
  <1> USE DEF RegisterInstallation, Unblock, connections, blocks
  <1>1. RelayTypeOK'
    BY DEF RelayInv, RelayTypeOK
  <1>2. UNCHANGED <<owner, approved, connections, joins>>
    OBVIOUS
  <1> QED BY <1>1, <1>2
          DEF RelayInv, OnlineIsThere, CountedHasDevice, OpenIsOnline, OpenIsEnrolled, SessionsJoinDevices

(* Blocking is a change of the registers and a closing of connections.     *)
LEMMA BlocksKeep ==
    ASSUME RelayInv, NEW ds \in SUBSET Device, DisconnectAll(ds),
           UNCHANGED <<owner, approved, installed>>,
           blockedDevice' \subseteq {d \in Device : owner[d] # None},
           blockedInstallation' \subseteq installed,
           blockedAccount' \subseteq Account
    PROVE  RelayInv'
  <1> USE DEF DisconnectAll
  <1>1. /\ socket' \in [Connection -> Sockets]
        /\ \A c \in Connection : /\ socket'[c] = "open" => socket[c] = "open"
                                 /\ socket'[c] = "free" <=> socket[c] = "free"
    BY ClosedSockets DEF RelayInv
  <1>2. RelayTypeOK'
    BY <1>1 DEF RelayInv, RelayTypeOK, Sockets
  <1>3. OnlineIsThere' /\ CountedHasDevice'
    BY <1>1 DEF RelayInv, RelayTypeOK, OnlineIsThere, CountedHasDevice
  <1>4. OpenIsOnline' /\ OpenIsEnrolled'
    BY <1>1 DEF RelayInv, OpenIsOnline, OpenIsEnrolled
  <1>5. SessionsJoinDevices'
    BY <1>1 DEF RelayInv, RelayTypeOK, SessionsJoinDevices
  <1> QED BY <1>2, <1>3, <1>4, <1>5 DEF RelayInv

LEMMA BlockKeeps ==
    ASSUME RelayInv, NEW d \in Device, NEW route, Block(d, route)
    PROVE  RelayInv'
  <1>1. PICK ds \in SUBSET Device : DisconnectAll(ds)
    <2>1. DisconnectAll(IF route = "console" THEN {d} ELSE {})
      BY DEF Block
    <2> QED BY <2>1
  <1>2. /\ blockedDevice' \subseteq {e \in Device : owner[e] # None}
        /\ blockedInstallation' \subseteq installed
        /\ blockedAccount' \subseteq Account
    BY DEF Block, RelayInv, RelayTypeOK
  <1>3. UNCHANGED <<owner, approved, installed>>
    BY DEF Block
  <1> QED BY <1>1, <1>2, <1>3, BlocksKeep

LEMMA AccountsKeep ==
    ASSUME RelayInv, NEW a \in Account, DecideAccount(a)
    PROVE  RelayInv'
  <1>1. CASE UnblockAccount(a)
    <2>1. RelayTypeOK'
      BY <1>1 DEF UnblockAccount, connections, RelayInv, RelayTypeOK
    <2>2. UNCHANGED <<owner, approved, connections, joins>>
      BY <1>1 DEF UnblockAccount
    <2> QED BY <2>1, <2>2
            DEF connections, RelayInv, OnlineIsThere, CountedHasDevice, OpenIsOnline,
                OpenIsEnrolled, SessionsJoinDevices
  <1>2. ASSUME NEW route \in {"console", "command"}, BlockAccount(a, route)
        PROVE  RelayInv'
    <2>1. PICK ds \in SUBSET Device : DisconnectAll(ds)
      <3>1. DisconnectAll(IF route = "console" THEN {d \in Device : owner[d] = a} ELSE {})
        BY <1>2 DEF BlockAccount
      <3> QED BY <3>1
    <2>2. /\ blockedDevice' \subseteq {e \in Device : owner[e] # None}
          /\ blockedInstallation' \subseteq installed
          /\ blockedAccount' \subseteq Account
      BY <1>2 DEF BlockAccount, RelayInv, RelayTypeOK
    <2>3. UNCHANGED <<owner, approved, installed>>
      BY <1>2 DEF BlockAccount
    <2> QED BY <2>1, <2>2, <2>3, BlocksKeep
  <1> QED BY <1>1, <1>2 DEF DecideAccount

LEMMA SweepKeeps == ASSUME RelayInv, Sweep PROVE RelayInv'
  <1>1. PICK ds \in SUBSET Device : DisconnectAll(ds)
    <2>1. DisconnectAll({d \in Device : IsBlocked(d)})
      BY DEF Sweep
    <2> QED BY <2>1
  <1>2. UNCHANGED <<owner, approved, installed, blockedDevice, blockedInstallation, blockedAccount>>
    BY DEF Sweep, register, blocks
  <1> QED BY <1>1, <1>2, BlocksKeep DEF RelayInv, RelayTypeOK
-----------------------------------------------------------------------------
(* The name of a connection that arrives was in no session, and the device *)
(* had at most one open connection, which Presence.add closes.             *)
LEMMA ArriveKeeps ==
    ASSUME RelayInv, NEW c \in Connection, NEW d \in Device, Arrive(c, d)
    PROVE  RelayInv'
  <1> USE RelayServerAssumption DEF Arrive, register, blocks
  <1> DEFINE cs == {online[d]}
  <1>1. /\ socket' = [ClosesThem(cs) EXCEPT ![c] = "open"]
        /\ ClosesThem(cs) \in [Connection -> Sockets]
        /\ \A k \in Connection :
             /\ ClosesThem(cs)[k] = "open" => socket[k] = "open" /\ k # online[d]
             /\ ClosesThem(cs)[k] = "free" <=> socket[k] = "free"
    BY ClosedSockets DEF RelayInv
  <1>2. /\ socket' \in [Connection -> Sockets] /\ socket'[c] = "open"
        /\ \A k \in Connection \ {c} :
             /\ socket'[k] = "open" => socket[k] = "open" /\ k # online[d]
             /\ socket'[k] = "free" <=> socket[k] = "free"
    BY <1>1 DEF Sockets
  <1>3. /\ who' \in [Connection -> Device \cup {None}] /\ who'[c] = d
        /\ under' \in [Connection -> Account \cup {None}] /\ under'[c] = owner[d]
        /\ \A k \in Connection \ {c} : who'[k] = who[k] /\ under'[k] = under[k]
    BY DEF RelayInv, RelayTypeOK
  <1>4. /\ online' \in [Device -> Connection \cup {None}] /\ online'[d] = c
        /\ \A e \in Device \ {d} : online'[e] = online[e]
    BY DEF RelayInv, RelayTypeOK
  <1>0. /\ socket[c] = "free" /\ d \in approved
        /\ UNCHANGED <<owner, approved, installed, blockedDevice, blockedInstallation,
                       blockedAccount, joins>>
    OBVIOUS
  <1> HIDE DEF Arrive
  <1>5. RelayTypeOK'
    BY <1>2, <1>3, <1>4, <1>0 DEF RelayInv, RelayTypeOK, Sockets
  <1>6. OnlineIsThere'
    <2> SUFFICES ASSUME NEW e \in Device, online'[e] # None
                 PROVE  socket'[online'[e]] # "free" /\ who'[online'[e]] = e
      BY DEF OnlineIsThere
    <2>1. CASE e = d
      BY <2>1, <1>2, <1>3, <1>4
    <2>2. CASE e # d
      <3>1. /\ online'[e] = online[e] /\ online[e] \in Connection
            /\ socket[online[e]] # "free" /\ who[online[e]] = e
        BY <2>2, <1>4 DEF RelayInv, RelayTypeOK, OnlineIsThere
      <3>2. online[e] \in Connection \ {c}
        BY <3>1, <1>0
      <3> QED BY <3>1, <3>2, <1>2, <1>3
    <2> QED BY <2>1, <2>2
  <1>7. CountedHasDevice'
    BY <1>2, <1>3 DEF RelayInv, CountedHasDevice
  <1>8. OpenIsOnline'
    <2> SUFFICES ASSUME NEW k \in Connection, socket'[k] = "open"
                 PROVE  online'[who'[k]] = k
      BY DEF OpenIsOnline
    <2>1. CASE k = c
      BY <2>1, <1>3, <1>4
    <2>2. CASE k # c
      <3>1. socket[k] = "open" /\ k # online[d] /\ who'[k] = who[k]
        BY <2>2, <1>2, <1>3
      <3>2. who[k] \in Device /\ online[who[k]] = k
        BY <3>1 DEF RelayInv, OpenIsOnline, CountedHasDevice
      <3>3. who[k] # d
        BY <3>1, <3>2
      <3> QED BY <3>1, <3>2, <3>3, <1>4
    <2> QED BY <2>1, <2>2
  <1>9. OpenIsEnrolled'
    BY <1>2, <1>3, <1>0 DEF RelayInv, OpenIsEnrolled
  <1>10. SessionsJoinDevices'
    <2>1. \A s \in Session : c \notin joins[s]
      BY <1>0 DEF RelayInv, SessionsJoinDevices
    <2> SUFFICES ASSUME NEW s \in Session, NEW k \in joins[s], NEW l \in joins[s]
                 PROVE  /\ socket'[k] # "free"
                        /\ socket'[k] = "open" /\ socket'[l] = "open" => under'[k] = under'[l]
                        /\ who'[k] = who'[l] => k = l
      BY <1>0 DEF SessionsJoinDevices
    <2>2. k \in Connection \ {c} /\ l \in Connection \ {c}
      BY <2>1 DEF RelayInv, RelayTypeOK
    <2>3. /\ socket[k] # "free"
          /\ socket[k] = "open" /\ socket[l] = "open" => under[k] = under[l]
          /\ who[k] = who[l] => k = l
      BY DEF RelayInv, SessionsJoinDevices
    <2> QED BY <2>2, <2>3, <1>2, <1>3
  <1> QED BY <1>5, <1>6, <1>7, <1>8, <1>9, <1>10 DEF RelayInv

LEMMA GoneKeeps ==
    ASSUME RelayInv, NEW c \in Connection, Gone(c)
    PROVE  RelayInv'
  <1> USE RelayServerAssumption DEF Gone, register, blocks
  <1>1. /\ socket' \in [Connection -> Sockets] /\ socket'[c] = "free"
        /\ \A k \in Connection \ {c} : socket'[k] = socket[k]
    BY DEF RelayInv, RelayTypeOK, Sockets
  <1>2. /\ who' \in [Connection -> Device \cup {None}]
        /\ under' \in [Connection -> Account \cup {None}]
        /\ \A k \in Connection \ {c} : who'[k] = who[k] /\ under'[k] = under[k]
    BY DEF RelayInv, RelayTypeOK
  <1>3. /\ online' \in [Device -> Connection \cup {None}]
        /\ \A d \in Device : online'[d] = IF online[d] = c THEN None ELSE online[d]
    BY DEF RelayInv, RelayTypeOK
  <1>4. /\ joins' \in [Session -> SUBSET Connection]
        /\ \A s \in Session : joins'[s] \subseteq joins[s] /\ c \notin joins'[s]
    BY DEF RelayInv, RelayTypeOK
  <1>5. RelayTypeOK'
    BY <1>1, <1>2, <1>3, <1>4 DEF RelayInv, RelayTypeOK, Sockets
  <1>6. OnlineIsThere' /\ CountedHasDevice'
    BY <1>1, <1>2, <1>3 DEF RelayInv, RelayTypeOK, OnlineIsThere, CountedHasDevice
  <1>7. OpenIsOnline'
    BY <1>1, <1>2, <1>3 DEF RelayInv, OpenIsOnline, CountedHasDevice
  <1>8. OpenIsEnrolled'
    BY <1>1, <1>2 DEF RelayInv, OpenIsEnrolled
  <1>9. SessionsJoinDevices'
    BY <1>1, <1>2, <1>4 DEF RelayInv, RelayTypeOK, SessionsJoinDevices
  <1> QED BY <1>5, <1>6, <1>7, <1>8, <1>9 DEF RelayInv

(* The record of the one asked for is on the account of the one who asks;  *)
(* if its connection is open, so is the account it arrived under.          *)
LEMMA IntroduceKeeps ==
    ASSUME RelayInv, NEW c \in Connection, NEW d \in Device, NEW s \in Session, Introduce(c, d, s)
    PROVE  RelayInv'
  <1> USE RelayServerAssumption DEF Introduce, register, blocks, connections
  <1> DEFINE o == online[d]
  <1>1. o \in Connection /\ socket[o] # "free" /\ who[o] = d /\ d # who[c]
    BY DEF MayReach, RelayInv, RelayTypeOK, OnlineIsThere
  <1>2. socket[c] = "open" /\ socket[o] = "open" => under[c] = under[o]
    BY <1>1 DEF MayReach, RelayInv, OpenIsEnrolled
  <1>3. /\ joins' \in [Session -> SUBSET Connection] /\ joins'[s] = {c, o}
        /\ \A r \in Session \ {s} : joins'[r] = joins[r]
    BY <1>1 DEF RelayInv, RelayTypeOK
  <1>4. RelayTypeOK'
    BY <1>3 DEF RelayInv, RelayTypeOK
  <1>5. SessionsJoinDevices'
    <2> SUFFICES ASSUME NEW r \in Session, NEW k \in joins'[r], NEW l \in joins'[r]
                 PROVE  /\ socket[k] # "free"
                        /\ socket[k] = "open" /\ socket[l] = "open" => under[k] = under[l]
                        /\ who[k] = who[l] => k = l
      BY DEF SessionsJoinDevices
    <2>1. CASE r = s
      BY <2>1, <1>1, <1>2, <1>3
    <2>2. CASE r # s
      BY <2>2, <1>3 DEF RelayInv, SessionsJoinDevices
    <2> QED BY <2>1, <2>2
  <1>6. OnlineIsThere' /\ CountedHasDevice' /\ OpenIsOnline' /\ OpenIsEnrolled'
    BY DEF RelayInv, OnlineIsThere, CountedHasDevice, OpenIsOnline, OpenIsEnrolled
  <1> QED BY <1>4, <1>5, <1>6 DEF RelayInv

LEMMA EndSessionKeeps ==
    ASSUME RelayInv, NEW c \in Connection, NEW s \in Session, EndSession(c, s)
    PROVE  RelayInv'
  <1> USE DEF EndSession, register, blocks, connections
  <1>1. /\ joins' \in [Session -> SUBSET Connection]
        /\ \A r \in Session : joins'[r] \subseteq joins[r]
    BY DEF RelayInv, RelayTypeOK
  <1>2. RelayTypeOK'
    BY <1>1 DEF RelayInv, RelayTypeOK
  <1>3. SessionsJoinDevices'
    BY <1>1 DEF RelayInv, SessionsJoinDevices
  <1>4. OnlineIsThere' /\ CountedHasDevice' /\ OpenIsOnline' /\ OpenIsEnrolled'
    BY DEF RelayInv, OnlineIsThere, CountedHasDevice, OpenIsOnline, OpenIsEnrolled
  <1> QED BY <1>2, <1>3, <1>4 DEF RelayInv
-----------------------------------------------------------------------------
LEMMA NextIInv == RelayInv /\ [RelayNext]_relayVars => RelayInv'
  <1> SUFFICES ASSUME RelayInv, [RelayNext]_relayVars PROVE RelayInv'
    OBVIOUS
  <1>1. ASSUME NEW d \in Device, Decide(d) PROVE RelayInv'
    BY <1>1, EnrolKeeps, ApproveKeeps, RemoveKeeps, RecordsKeep, BlockKeeps DEF Decide
  <1>2. ASSUME NEW a \in Account, DecideAccount(a) PROVE RelayInv'
    BY <1>2, AccountsKeep
  <1>3. ASSUME NEW c \in Connection, Serve(c) PROVE RelayInv'
    <2>1. CASE ClientDrops(c) \/ RefuseBlocked(c)
      BY <2>1, ClosingKeeps DEF ClientDrops, RefuseBlocked
    <2> QED BY <1>3, <2>1, ArriveKeeps, GoneKeeps, IntroduceKeeps, EndSessionKeeps DEF Serve
  <1>4. CASE UNCHANGED relayVars
    BY <1>4 DEF relayVars, register, blocks, connections, RelayInv, RelayTypeOK, OnlineIsThere,
                CountedHasDevice, OpenIsOnline, OpenIsEnrolled, SessionsJoinDevices
  <1> QED BY <1>1, <1>2, <1>3, <1>4, SweepKeeps DEF RelayNext

(* What the theorems below are conjuncts of: arrival, replacement, closing *)
(* and the records kept by api.ts never part company.                      *)
THEOREM RelayInvariance == RelaySpec => []RelayInv
  BY RelayInitInv, NextIInv, PTL DEF RelaySpec

(* Types, and no answer or block without a record.                         *)
THEOREM RelayTypeCorrect == RelaySpec => []RelayTypeOK
  <1>1. RelayInv => RelayTypeOK
    BY DEF RelayInv
  <1> QED BY <1>1, RelayInvariance, PTL

(* presence.ts: whichever order connections of a device arrive, replace    *)
(* one another and close in, one that is open is the one the device is     *)
(* reached by, so nothing sent to the device goes to a connection it left. *)
THEOREM OpenStaysOnline == RelaySpec => []OpenIsOnline
  <1>1. RelayInv => OpenIsOnline
    BY DEF RelayInv
  <1> QED BY <1>1, RelayInvariance, PTL

(* signaling.ts checks a credential on arrival only; this is why an open   *)
(* connection needs no second look: whatever took the enrolment away has   *)
(* closed it.                                                              *)
THEOREM OpenStaysEnrolled == RelaySpec => []OpenIsEnrolled
  <1>1. RelayInv => OpenIsEnrolled
    BY DEF RelayInv
  <1> QED BY <1>1, RelayInvariance, PTL

(* signaling.ts:205-211: no session joins two accounts.                  *)
THEOREM OneAccountPerSession == RelaySpec => []SessionsJoinDevices
  <1>1. RelayInv => SessionsJoinDevices
    BY DEF RelayInv
  <1> QED BY <1>1, RelayInvariance, PTL

(* Both together, as the sweep and the introductions rely on them.         *)
THEOREM OpenStaysRightful == RelaySpec => []OpenIsRightful
  <1>1. RelayInv => OpenIsRightful
    BY DEF RelayInv, OpenIsRightful
  <1> QED BY <1>1, RelayInvariance, PTL
=============================================================================
