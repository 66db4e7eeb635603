---------------------------- MODULE ActiveSession ----------------------------
(* The one session to a saved computer (main.ts): the connect calls with    *)
(* what each waits for, the `active` session and what its listeners do,     *)
(* the rows of the history and what the window shows.  A VNC session and an *)
(* external viewer are what they report here; VncSession and ExternalEngine *)
(* say how they come to it.                                                 *)
EXTENDS Naturals, FiniteSets

CONSTANTS
    Call,           \* connect calls, each with the session it may start
    Computer,       \* saved connections
    Target,         \* the computer each call is for
    NoCall,         \* `active` is null
    MaxDrops        \* bound: reconnections of VNC sessions

ASSUME ActiveAssumption ==
    /\ Target \in [Call -> Computer] /\ NoCall \notin Call /\ MaxDrops \in Nat

VARIABLES
    saved,          \* the computers that are still saved
    phase,          \* what a connect call waits for
    kind,           \* "vnc" or "external"
    life,           \* the session or the viewer itself
    active,
    stopped,        \* sessions that were told to stop
    row,            \* history: "none", "open", "live", "ended", "livedEnded"
    count,          \* connectCount
    shown,          \* the last thing the window was told, and why
    explaining,     \* explainCertificateFailure() waits for its probe
    drops,
    overlapped,     \* history: calls that waited while another one waited
    early,          \* history: viewers told to stop before they were spawned
    lived           \* history: calls whose session connected

activeVars == <<saved, phase, kind, life, active, stopped, row, count, shown,
                explaining, drops, overlapped, early, lived>>

Waiting == {"asked", "probing", "finding", "recording"}
Live == {"booting", "starting", "up"}
Shown(c, state, why) == [of |-> c, state |-> state, why |-> why]
For(p) == {c \in Call : Target[c] = p}
-----------------------------------------------------------------------------
ActiveInit ==
    /\ saved = Computer /\ active = NoCall /\ stopped = {} /\ explaining = {} /\ drops = 0
    /\ phase = [c \in Call |-> "unused"] /\ kind = [c \in Call |-> "vnc"]
    /\ life = [c \in Call |-> "none"] /\ row = [c \in Call |-> "none"]
    /\ count = [p \in Computer |-> 0] /\ shown = Shown(NoCall, "none", "state")
    /\ overlapped = {} /\ early = {} /\ lived = {}

(* recordSessionEnd(): a row that has ended, or is gone, is left alone.    *)
EndRow(c) ==
    [row EXCEPT ![c] = CASE @ = "open" -> "ended" [] @ = "live" -> "livedEnded" [] OTHER -> @]

(* Mutant: a row is counted whenever its session says it is connected.     *)
RecordAlways(c) ==
    /\ row' = IF row[c] = "open" THEN [row EXCEPT ![c] = "live"] ELSE row
    /\ count' = IF row[c] \in {"open", "live"} /\ Target[c] \in saved
                THEN [count EXCEPT ![Target[c]] = @ + 1] ELSE count
(* recordConnected() and countConnected().                                 *)
RecordConnected(c) ==
    /\ row' = IF row[c] = "open" THEN [row EXCEPT ![c] = "live"] ELSE row
    /\ count' = IF row[c] = "open" /\ Target[c] \in saved
                THEN [count EXCEPT ![Target[c]] = @ + 1] ELSE count

(* Mutant: the row is left to the session's own events.                    *)
StopQuietly ==
    /\ active' = NoCall
    /\ IF active = NoCall THEN UNCHANGED <<stopped, life, row, shown>> ELSE
       /\ stopped' = stopped \cup {active}
       /\ life' = IF kind[active] = "vnc" THEN [life EXCEPT ![active] = "over"] ELSE life
       /\ shown' = Shown(active, "ended", "state")
       /\ UNCHANGED row
(* stopActive().  A VNC session is over at once; a viewer is asked to go.  *)
StopActive ==
    /\ active' = NoCall
    /\ IF active = NoCall THEN UNCHANGED <<stopped, life, row, shown>> ELSE
       /\ stopped' = stopped \cup {active}
       /\ life' = IF kind[active] = "vnc" THEN [life EXCEPT ![active] = "over"] ELSE life
       /\ shown' = Shown(active, "ended", "state")
       /\ row' = EndRow(active)

(* The handler up to its first await.                                      *)
Connect(c, k) ==
    /\ phase[c] = "unused" /\ Target[c] \in saved
    /\ StopActive
    /\ phase' = [phase EXCEPT ![c] = "asked"] /\ kind' = [kind EXCEPT ![c] = k]
    /\ LET others == {d \in Call : phase[d] \in Waiting}
       IN overlapped' = IF others = {} THEN overlapped ELSE overlapped \cup others \cup {c}
    /\ UNCHANGED <<saved, count, explaining, drops, early, lived>>

(* An answer that needs the person: credentials, the vault, a certificate. *)
Asks(c) ==
    /\ phase[c] \in {"asked", "probing"} /\ (phase[c] = "probing" => kind[c] = "external")
    /\ phase' = [phase EXCEPT ![c] = "done"]
    /\ UNCHANGED <<saved, kind, life, active, stopped, row, count, shown, explaining, drops, overlapped, early, lived>>

(* A call that throws is shown as a failure: connect() in the window.      *)
CallThrows(c) ==
    /\ phase[c] \in {"asked", "recording"}
    /\ phase' = [phase EXCEPT ![c] = IF @ = "asked" THEN "done" ELSE "unsaved"]
    /\ shown' = Shown(c, "failed", "error")
    /\ UNCHANGED <<saved, kind, life, active, stopped, row, count, explaining, drops, overlapped, early, lived>>

(* Passwords are read; RDP looks at the certificate, then for the program. *)
Proceeds(c) ==
    /\ kind[c] = "external" /\ phase[c] \in {"asked", "probing"}
    /\ phase' = [phase EXCEPT ![c] = IF @ = "asked" THEN "probing" ELSE "finding"]
    /\ UNCHANGED <<saved, kind, life, active, stopped, row, count, shown, explaining, drops, overlapped, early, lived>>

(* The program is not installed: the window is told, whoever is active.    *)
Missing(c) ==
    /\ phase[c] = "finding" /\ phase' = [phase EXCEPT ![c] = "done"]
    /\ shown' = Shown(c, "failed", "state")
    /\ UNCHANGED <<saved, kind, life, active, stopped, row, count, explaining, drops, overlapped, early, lived>>

(* recordStart() before its write; it throws for a computer that is gone.  *)
RecordStart(c) ==
    /\ phase[c] = (IF kind[c] = "vnc" THEN "asked" ELSE "finding")
    /\ IF Target[c] \in saved
       THEN /\ phase' = [phase EXCEPT ![c] = "recording"] /\ row' = [row EXCEPT ![c] = "open"]
            /\ UNCHANGED shown
       ELSE /\ phase' = [phase EXCEPT ![c] = "done"] /\ shown' = Shown(c, "failed", "error")
            /\ UNCHANGED row
    /\ UNCHANGED <<saved, kind, life, active, stopped, count, explaining, drops, overlapped, early, lived>>

(* The row is written: this session is the active one, and is started.  A  *)
(* viewer still looks for its program before it says anything.             *)
Begins(c) ==
    /\ phase[c] = "recording" /\ phase' = [phase EXCEPT ![c] = "begun"]
    /\ active' = c
    /\ IF kind[c] = "vnc"
       THEN life' = [life EXCEPT ![c] = "starting"] /\ shown' = Shown(c, "connecting", "state")
       ELSE life' = [life EXCEPT ![c] = "booting"] /\ UNCHANGED shown
    /\ UNCHANGED <<saved, kind, stopped, row, count, explaining, drops, overlapped, early, lived>>
-----------------------------------------------------------------------------
(* A listener that publishes only for the active session.                  *)
Tells(c, state) == shown' = IF active = c THEN Shown(c, state, "state") ELSE shown

(* ExternalEngine.start() forgets an earlier stop().                       *)
Spawns(c) ==
    /\ life[c] = "booting" /\ life' = [life EXCEPT ![c] = "starting"]
    /\ stopped' = stopped \ {c} /\ early' = early \cup (stopped \cap {c})
    /\ Tells(c, "connecting")
    /\ UNCHANGED <<saved, phase, kind, active, row, count, explaining, drops, overlapped, lived>>

(* Or it throws: the row stays as it is, the window is told by the call.   *)
BootThrows(c) ==
    /\ life[c] = "booting" /\ life' = [life EXCEPT ![c] = "over"]
    /\ phase' = [phase EXCEPT ![c] = "threw"]
    /\ active' = IF active = c THEN NoCall ELSE active
    /\ shown' = Shown(c, "failed", "error")
    /\ UNCHANGED <<saved, kind, stopped, row, count, explaining, drops, overlapped, early, lived>>

(* Mutant: every session's events are published.                           *)
ComesUpLoudly(c) ==
    /\ life[c] = "starting" /\ life' = [life EXCEPT ![c] = "up"] /\ lived' = lived \cup {c}
    /\ RecordConnected(c) /\ shown' = Shown(c, "connected", "state")
    /\ UNCHANGED <<saved, phase, kind, active, stopped, explaining, drops, overlapped, early>>
ComesUp(c) ==
    /\ life[c] = "starting" /\ life' = [life EXCEPT ![c] = "up"] /\ lived' = lived \cup {c}
    /\ IF active = c THEN RecordConnected(c) ELSE UNCHANGED <<row, count>>
    /\ Tells(c, "connected")
    /\ UNCHANGED <<saved, phase, kind, active, stopped, explaining, drops, overlapped, early>>

(* A VNC session that was up tries again.                                  *)
Drops(c) ==
    /\ kind[c] = "vnc" /\ life[c] = "up" /\ drops < MaxDrops /\ drops' = drops + 1
    /\ life' = [life EXCEPT ![c] = "starting"] /\ Tells(c, "connecting")
    /\ UNCHANGED <<saved, phase, kind, active, stopped, row, count, explaining, overlapped, early, lived>>

(* Mutant: the end of any session empties `active`.                        *)
EndsAnyone(c, state, tls) ==
    /\ life[c] \in {"starting", "up"} /\ life' = [life EXCEPT ![c] = "over"]
    /\ shown' = Shown(c, state, "state") /\ row' = EndRow(c) /\ active' = NoCall
    /\ explaining' = IF tls THEN explaining \cup {c} ELSE explaining
    /\ UNCHANGED <<saved, phase, kind, stopped, count, drops, overlapped, early, lived>>
(* A session fails, or a viewer is closed.  Of an RDP viewer whose TLS     *)
(* failed the certificate is looked at again.                              *)
Ends(c, state, tls) ==
    /\ life[c] \in {"starting", "up"} /\ life' = [life EXCEPT ![c] = "over"]
    /\ IF active = c
       THEN /\ shown' = Shown(c, state, "state") /\ row' = EndRow(c) /\ active' = NoCall
            /\ explaining' = IF tls THEN explaining \cup {c} ELSE explaining
       ELSE UNCHANGED <<shown, row, active, explaining>>
    /\ UNCHANGED <<saved, phase, kind, stopped, count, drops, overlapped, early, lived>>
SessionEnds(c) ==
    \/ \E tls \in {FALSE, kind[c] = "external"} : Ends(c, "failed", tls)
    \/ kind[c] = "external" /\ Ends(c, "ended", FALSE)

(* The second look ends: nothing to decide, or a question in the window    *)
(* that nobody checks against the active session.                          *)
Explains(c, ask) ==
    /\ c \in explaining /\ explaining' = explaining \ {c}
    /\ shown' = IF ask THEN Shown(c, "failed", "explained") ELSE shown
    /\ UNCHANGED <<saved, phase, kind, life, active, stopped, row, count, drops, overlapped, early, lived>>
-----------------------------------------------------------------------------
Disconnect ==
    /\ active # NoCall /\ StopActive
    /\ UNCHANGED <<saved, phase, kind, count, explaining, drops, overlapped, early, lived>>

(* remove(): its rows go with it.                                          *)
RemoveComputer(p) ==
    /\ p \in saved /\ saved' = saved \ {p}
    /\ LET gone(r) == [c \in Call |-> IF Target[c] = p /\ r[c] # "none" THEN "none" ELSE r[c]]
       IN IF active # NoCall /\ Target[active] = p
          THEN /\ active' = NoCall /\ stopped' = stopped \cup {active}
               /\ life' = IF kind[active] = "vnc" THEN [life EXCEPT ![active] = "over"] ELSE life
               /\ shown' = Shown(active, "ended", "state") /\ row' = gone(EndRow(active))
          ELSE row' = gone(row) /\ UNCHANGED <<active, stopped, life, shown>>
    /\ UNCHANGED <<phase, kind, count, explaining, drops, overlapped, early, lived>>

ActiveNext ==
    \/ Disconnect
    \/ \E p \in Computer : RemoveComputer(p)
    \/ \E c \in Call :
        \/ \E k \in {"vnc", "external"} : Connect(c, k)
        \/ Asks(c) \/ CallThrows(c) \/ Proceeds(c) \/ Missing(c) \/ RecordStart(c) \/ Begins(c)
        \/ Spawns(c) \/ BootThrows(c) \/ ComesUp(c) \/ Drops(c) \/ SessionEnds(c)
        \/ \E ask \in BOOLEAN : Explains(c, ask)
-----------------------------------------------------------------------------
(* A session that runs is the one the person can end, or has been told to  *)
(* stop.  Two calls that overlapped may leave one behind, and a viewer     *)
(* told to stop before it was spawned starts all the same: nothing else    *)
(* leaves a session that nobody holds (main.ts:1120, :1178, :1226).        *)
EverySessionIsHeld ==
    \A c \in Call : life[c] \in Live =>
        active = c \/ c \in stopped \cup overlapped \cup early

(* A row of the history is open only while its session is the active one   *)
(* or about to be.  The exceptions: overlapping calls, a row that could    *)
(* not be written, a viewer that threw (connections.ts:412).               *)
RowsAreClosed ==
    \A c \in Call : row[c] \in {"open", "live"} =>
        \/ active = c \/ c \in overlapped
        \/ phase[c] \in {"recording", "unsaved", "threw"}

(* However often a session reconnects it is one connection of its computer *)
(* (connections.ts:396).                                                   *)
CountsSessions == \A p \in Computer : count[p] <= Cardinality(lived \cap For(p))

(* The window shows a session as live only while it is the active one, and *)
(* the active one as connected while it is; what an older call has to say  *)
(* (an error, a certificate) may cover it, and overlapping calls may leave *)
(* the window at either (main.ts:1226, :1330).                             *)
ShownIsTrue ==
    /\ shown.state \in {"connecting", "connected"} =>
        active = shown.of \/ shown.of \in overlapped
    /\ active # NoCall /\ life[active] = "up" /\ active \notin overlapped =>
        shown = Shown(active, "connected", "state") \/ shown.why # "state"

(* What main.ts:1120 says of connect: "Never run two sessions at once; the *)
(* previous one is torn down first".                                       *)
OneSession == Cardinality({c \in Call : life[c] \in Live /\ c \notin stopped}) <= 1

(* The window, the history and the session that runs tell one story,       *)
(* however connects, disconnects and removals overlap.                     *)
ActiveHolds == EverySessionIsHeld /\ RowsAreClosed /\ CountsSessions /\ ShownIsTrue
=============================================================================
