---------------------------- MODULE SharedScreen ----------------------------
(* The capture window of the host (host-rtc.js and peer.js): one capture of *)
(* the screen for every session, taken when the first needs it, replaced    *)
(* when another screen is chosen, with an await at every step.  The main    *)
(* process begins and closes sessions, and the window with the last one.    *)
EXTENDS Naturals, FiniteSets

CONSTANTS
    Watcher,        \* sessions
    Switcher,       \* calls of switchScreen()
    MaxTracks       \* bound: captures

ASSUME ScreenAssumption == MaxTracks \in Nat

VARIABLES
    live,           \* captured tracks that have not been stopped
    capture,        \* the module's `capture`: a track, or 0
    taken,          \* tracks so far
    at,             \* where each session's answer() is
    got,            \* the track it is about to send
    sends,          \* the track in its sender
    change,         \* where each switchScreen() is
    old, fresh, todo,   \* its locals; the sessions it has not been to
    raced,          \* history: two requests for the screen at once, or a switch of one
    overtaken       \* history: sessions whose answer was under way during a switch

tracks == <<live, capture, taken>>
answers == <<at, got, sends>>
switching == <<change, old, fresh, todo>>
screenVars == <<tracks, answers, switching, raced, overtaken>>

Open(s) == at[s] \notin {"none", "closed", "orphan"}
Requesting == {s \in Watcher : at[s] \in {"capturing", "orphan", "constraining"}}
Changing == {x \in Switcher : change[x] \in {"capturing", "constraining", "replacing"}}
Answering == {s \in Watcher : at[s] \in {"capturing", "constraining", "placing"}}
-----------------------------------------------------------------------------
ScreenInit ==
    /\ live = {} /\ capture = 0 /\ taken = 0
    /\ at = [s \in Watcher |-> "none"] /\ got = [s \in Watcher |-> 0] /\ sends = [s \in Watcher |-> 0]
    /\ change = [x \in Switcher |-> "none"] /\ old = [x \in Switcher |-> 0]
    /\ fresh = [x \in Switcher |-> 0] /\ todo = [x \in Switcher |-> {}]
    /\ raced = FALSE /\ overtaken = {}

(* A session is let in; its offer is applied.                              *)
Begin(s) ==
    /\ at[s] = "none" /\ at' = [at EXCEPT ![s] = "describing"]
    /\ UNCHANGED <<tracks, got, sends, switching, raced, overtaken>>

(* Mutant: every session asks for the screen.                              *)
HasScreenNever == FALSE
(* screenStream() looks for a live capture first.                          *)
HasScreen == capture \in live

GetStream(s) ==
    /\ at[s] = "describing"
    /\ IF HasScreen THEN at' = [at EXCEPT ![s] = "placing"] /\ got' = [got EXCEPT ![s] = capture]
                    ELSE at' = [at EXCEPT ![s] = "capturing"] /\ UNCHANGED got
    /\ raced' = (raced \/ (~HasScreen /\ Requesting \cup Changing # {}))
    /\ overtaken' = IF Changing # {} THEN overtaken \cup {s} ELSE overtaken
    /\ UNCHANGED <<tracks, sends, switching>>

(* getDisplayMedia() gives a track; its constraints are awaited next, and  *)
(* what is returned is the capture of that moment.  If a switch has just   *)
(* taken that away, there is nothing to log the tracks of, and it throws.  *)
Granted == taken < MaxTracks /\ taken' = taken + 1 /\ live' = live \cup {taken'} /\ capture' = taken'
Captured(s) ==
    /\ at[s] = "capturing" /\ Granted /\ at' = [at EXCEPT ![s] = "constraining"]
    /\ UNCHANGED <<got, sends, switching, raced, overtaken>>
Constrained(s) ==
    /\ at[s] = "constraining" /\ at' = [at EXCEPT ![s] = IF capture = 0 THEN "failed" ELSE "placing"]
    /\ got' = [got EXCEPT ![s] = capture]
    /\ UNCHANGED <<tracks, sends, switching, raced, overtaken>>
CaptureRefused(s) ==
    /\ at[s] = "capturing" /\ at' = [at EXCEPT ![s] = "failed"]
    /\ UNCHANGED <<tracks, got, sends, switching, raced, overtaken>>
Placed(s) ==
    /\ at[s] = "placing" /\ at' = [at EXCEPT ![s] = "ready"]
    /\ sends' = [sends EXCEPT ![s] = got[s]] /\ got' = [got EXCEPT ![s] = 0]
    /\ UNCHANGED <<tracks, switching, raced, overtaken>>

(* A session ends: close() stops the tracks it sends.  With the last one   *)
(* the window goes, and everything in it.                                  *)
Close(s) ==
    /\ Open(s)
    /\ IF \E r \in Watcher \ {s} : Open(r)
       THEN /\ at' = [at EXCEPT ![s] = IF @ = "capturing" THEN "orphan" ELSE "closed"]
            /\ live' = live \ {sends[s]} /\ UNCHANGED <<capture, switching>>
       ELSE /\ at' = [r \in Watcher |-> IF at[r] = "none" THEN "none" ELSE "closed"]
            /\ live' = {} /\ capture' = 0
            /\ change' = [x \in Switcher |-> IF change[x] = "none" THEN "none" ELSE "done"]
            /\ old' = [x \in Switcher |-> 0] /\ fresh' = [x \in Switcher |-> 0]
            /\ todo' = [x \in Switcher |-> {}]
    /\ sends' = [sends EXCEPT ![s] = 0] /\ got' = [got EXCEPT ![s] = 0]
    /\ UNCHANGED <<taken, raced, overtaken>>

(* What was asked for while the session closed comes all the same.         *)
CapturedLate(s) ==
    /\ at[s] = "orphan" /\ at' = [at EXCEPT ![s] = "closed"] /\ Granted
    /\ UNCHANGED <<got, sends, switching, raced, overtaken>>
-----------------------------------------------------------------------------
(* Another screen is chosen: switchScreen().                               *)
Chosen(x) ==
    /\ change[x] = "none" /\ \E s \in Watcher : Open(s)
    /\ change' = [change EXCEPT ![x] = "capturing"] /\ old' = [old EXCEPT ![x] = capture] /\ capture' = 0
    /\ raced' = (raced \/ Requesting \cup Changing # {}) /\ overtaken' = overtaken \cup Answering
    /\ UNCHANGED <<live, taken, answers, fresh, todo>>
ChangeCaptured(x) ==
    /\ change[x] = "capturing" /\ Granted /\ change' = [change EXCEPT ![x] = "constraining"]
    /\ UNCHANGED <<answers, old, fresh, todo, raced, overtaken>>
(* Mutant: what is on is stopped as soon as there is something else.       *)
ChangeStopsFirst(x) ==
    /\ change[x] = "constraining" /\ capture # 0 /\ change' = [change EXCEPT ![x] = "replacing"]
    /\ fresh' = [fresh EXCEPT ![x] = capture] /\ live' = live \ {old[x]}
    /\ todo' = [todo EXCEPT ![x] = {s \in Watcher : Open(s)}]
    /\ UNCHANGED <<capture, taken, answers, old, raced, overtaken>>
ChangeConstrained(x) ==
    /\ change[x] = "constraining" /\ capture # 0 /\ change' = [change EXCEPT ![x] = "replacing"]
    /\ fresh' = [fresh EXCEPT ![x] = capture]
    /\ todo' = [todo EXCEPT ![x] = {s \in Watcher : Open(s)}]
    /\ UNCHANGED <<tracks, answers, old, raced, overtaken>>
(* screenStream() throws: refused, or another switch has begun.            *)
ChangeRefused(x) ==
    /\ change[x] = "capturing" \/ (change[x] = "constraining" /\ capture = 0)
    /\ change' = [change EXCEPT ![x] = "done"] /\ capture' = old[x]
    /\ old' = [old EXCEPT ![x] = 0]
    /\ UNCHANGED <<live, taken, answers, fresh, todo, raced, overtaken>>

(* One sender after the other; a session without one is passed over.       *)
Replace(x, s) ==
    /\ change[x] = "replacing" /\ s \in todo[x] /\ todo' = [todo EXCEPT ![x] = @ \ {s}]
    /\ sends' = IF sends[s] # 0 THEN [sends EXCEPT ![s] = fresh[x]] ELSE sends
    /\ UNCHANGED <<tracks, at, got, change, old, fresh, raced, overtaken>>
ChangeEnds(x) ==
    /\ change[x] = "replacing" /\ todo[x] = {} /\ change' = [change EXCEPT ![x] = "done"]
    /\ live' = live \ {old[x]} /\ old' = [old EXCEPT ![x] = 0] /\ fresh' = [fresh EXCEPT ![x] = 0]
    /\ UNCHANGED <<capture, taken, answers, todo, raced, overtaken>>

(* The screen is unplugged.                                                *)
TrackEnds(t) ==
    /\ t \in live /\ live' = live \ {t}
    /\ UNCHANGED <<capture, taken, answers, switching, raced, overtaken>>

ScreenNext ==
    \/ \E s \in Watcher :
        \/ Begin(s) \/ GetStream(s) \/ Captured(s) \/ Constrained(s) \/ CaptureRefused(s) \/ Placed(s)
        \/ Close(s) \/ CapturedLate(s)
    \/ \E x \in Switcher :
        \/ Chosen(x) \/ ChangeCaptured(x) \/ ChangeConstrained(x) \/ ChangeRefused(x) \/ ChangeEnds(x)
        \/ \E s \in Watcher : Replace(x, s)
    \/ \E t \in live : TrackEnds(t)
-----------------------------------------------------------------------------
(* One screen is captured for everybody, and beside it only the one that a *)
(* switch is replacing; two requests at once may leave one behind          *)
(* (host-rtc.js:15, :21).                                                  *)
OneScreen == ~raced => live \subseteq {capture} \cup {old[x] : x \in Changing}

(* Changing the screen stops nobody's picture: the old one goes once it is *)
(* sent to nobody (host-rtc.js:78), but for a session that was just being  *)
(* answered with it.                                                       *)
SwitchFreezesNobody ==
    [][\A x \in Switcher, s \in Watcher \ overtaken :
        /\ change'[x] # change[x] /\ at[s] = "ready" /\ at'[s] = "ready"
        /\ ~raced' /\ sends[s] \in live
        => sends'[s] \in live']_screenVars

(* Nor does a session that ends stop the picture of another, which         *)
(* host-rtc.js:78 knows to be frozen by it: "Only once nobody is sending   *)
(* it any more: stopping it first freezes the picture."                    *)
EndFreezesNobody ==
    [][\A r, s \in Watcher :
        Open(r) /\ at'[r] = "closed" /\ at[s] = "ready" /\ at'[s] = "ready" /\ sends[s] \in live
        => sends'[s] \in live']_screenVars
=============================================================================
