---------------------------- MODULE DesktopProofs ----------------------------
(* What holds of sessions to saved computers, for every set of calls, of    *)
(* computers, of certificates, of keys and of bounds: the one session, the  *)
(* launch of an RDP session, the window, the loop of a VNC session and the  *)
(* stream it reads.  A behaviour of MCDesktop is one of them, and what the  *)
(* others are stays.                                                        *)
EXTENDS MCDesktop, FiniteSetTheorems, SequenceTheorems, TLAPS
-----------------------------------------------------------------------------
(* The session to a saved computer.                                        *)

ConnectPhase == {"unused", "asked", "probing", "finding", "recording", "begun", "done", "unsaved", "threw"}
LifeStage == {"none", "booting", "starting", "up", "over"}
RowState == {"none", "open", "live", "ended", "livedEnded"}
ShownRecord == [of : Call \cup {NoCall},
                state : {"none", "connecting", "connected", "failed", "ended"},
                why : {"state", "error", "explained"}]

ActiveTypes ==
    /\ saved \subseteq Computer /\ active \in Call \cup {NoCall} /\ drops \in Nat
    /\ phase \in [Call -> ConnectPhase] /\ kind \in [Call -> {"vnc", "external"}]
    /\ life \in [Call -> LifeStage] /\ row \in [Call -> RowState]
    /\ count \in [Computer -> Nat] /\ shown \in ShownRecord
    /\ {stopped, explaining, overlapped, early, lived} \subseteq SUBSET Call

(* How far a call has come says what there is of its session.              *)
CallsProceed ==
    /\ active # NoCall => phase[active] = "begun"
    /\ shown.state \in {"connecting", "connected"} => shown.of # NoCall
    /\ \A c \in Call : phase[c] \notin {"begun", "threw"} => life[c] = "none" /\ c \notin lived
    /\ \A c \in Call : phase[c] \in {"unused", "asked", "probing", "finding"} => row[c] = "none"

(* Whoever waits while another session is active, or another call waits    *)
(* with it, overlaps it.                                                   *)
OverlapsAreNoted ==
    /\ \A c \in Call : phase[c] \in Waiting /\ active # NoCall => {c, active} \subseteq overlapped
    /\ \A c, d \in Call : c # d /\ {phase[c], phase[d]} \subseteq Waiting => {c, d} \subseteq overlapped

(* The active session is counted the first time it connects, and no more.  *)
CountedOnce ==
    /\ active # NoCall /\ active \in lived => row[active] # "open"
    /\ IsFiniteSet(lived)
    /\ CountsSessions

ActiveInv ==
    ActiveTypes /\ CallsProceed /\ OverlapsAreNoted /\ EverySessionIsHeld /\ RowsAreClosed
    /\ CountedOnce /\ ShownIsTrue

LEMMA ActiveBegins == ActiveInit => ActiveInv
<1> SUFFICES ASSUME ActiveInit PROVE ActiveInv
    OBVIOUS
<1>1. ActiveTypes /\ CallsProceed /\ OverlapsAreNoted /\ EverySessionIsHeld /\ RowsAreClosed /\ ShownIsTrue
    BY DEF ActiveInit, ActiveTypes, CallsProceed, OverlapsAreNoted, EverySessionIsHeld, RowsAreClosed,
           ShownIsTrue, Shown, ShownRecord, Waiting, Live, ConnectPhase, LifeStage, RowState
<1>2. CountedOnce
    <2>1. IsFiniteSet(lived) /\ \A m \in Computer : lived \cap For(m) = {} /\ count[m] = 0
        BY FS_EmptySet DEF ActiveInit
    <2>2. \A m \in Computer : count[m] <= Cardinality(lived \cap For(m))
        BY <2>1, FS_EmptySet
    <2> QED
        BY <2>1, <2>2 DEF CountedOnce, CountsSessions, ActiveInit
<1> QED
    BY <1>1, <1>2 DEF ActiveInv

(* What stopping does, whoever does it.                                    *)
LEMMA StopsActive ==
    ASSUME ActiveTypes, StopActive
    PROVE  /\ active' = NoCall /\ stopped' \subseteq Call /\ stopped \subseteq stopped'
           /\ life' \in [Call -> LifeStage] /\ row' \in [Call -> RowState] /\ shown' \in ShownRecord
           /\ active # NoCall => active \in stopped' /\ row'[active] \notin {"open", "live"}
           /\ \A c \in Call : c # active => life'[c] = life[c] /\ row'[c] = row[c]
           /\ \A c \in Call : life'[c] \in {life[c], "over"}
           /\ \A c \in Call : row[c] = "none" => row'[c] = "none"
           /\ IF active = NoCall THEN shown' = shown ELSE shown'.state = "ended"
           /\ \A c \in Call : life[c] = "none" => life'[c] = "none" \/ c = active
<1>1. CASE active = NoCall
    BY <1>1, ActiveAssumption DEF StopActive, ActiveTypes
<1>2. CASE active # NoCall
    <2>1. active \in Call
        BY <1>2 DEF ActiveTypes
    <2>2. row' = [row EXCEPT ![active] = CASE @ = "open" -> "ended" [] @ = "live" -> "livedEnded" [] OTHER -> @]
        BY <1>2 DEF StopActive, EndRow
    <2>3. /\ row' \in [Call -> RowState] /\ row'[active] \notin {"open", "live"}
          /\ \A c \in Call : c # active => row'[c] = row[c]
          /\ \A c \in Call : row[c] = "none" => row'[c] = "none"
        BY <2>1, <2>2 DEF ActiveTypes, RowState
    <2>4. /\ life' \in [Call -> LifeStage]
          /\ \A c \in Call : c # active => life'[c] = life[c]
          /\ \A c \in Call : life'[c] \in {life[c], "over"}
        BY <1>2, <2>1 DEF StopActive, ActiveTypes, LifeStage
    <2>5. shown' \in ShownRecord /\ shown'.state = "ended"
        BY <1>2, <2>1 DEF StopActive, Shown, ShownRecord
    <2> QED
        BY <1>2, <2>1, <2>3, <2>4, <2>5 DEF StopActive, ActiveTypes
<1> QED
    BY <1>1, <1>2

(* Counting stays as it is where neither the counts nor who has lived do.  *)
LEMMA CountsStay ==
    ASSUME ActiveInv, UNCHANGED <<count, lived>>, active' # NoCall => active' = active,
           \A c \in Call : row'[c] = "open" => row[c] = "open"
    PROVE  CountedOnce'
BY DEF ActiveInv, CountedOnce, CountsSessions, For, ActiveTypes

LEMMA ConnectKeeps ==
    ASSUME ActiveInv, NEW c \in Call, NEW k \in {"vnc", "external"}, Connect(c, k)
    PROVE  ActiveInv'
<1>1. ActiveTypes /\ StopActive
    BY DEF ActiveInv, Connect
<1>2. /\ active' = NoCall /\ stopped' \subseteq Call /\ stopped \subseteq stopped'
      /\ life' \in [Call -> LifeStage] /\ row' \in [Call -> RowState] /\ shown' \in ShownRecord
      /\ active # NoCall => active \in stopped' /\ row'[active] \notin {"open", "live"}
      /\ \A d \in Call : d # active => life'[d] = life[d] /\ row'[d] = row[d]
      /\ \A d \in Call : life'[d] \in {life[d], "over"}
      /\ \A d \in Call : row[d] = "none" => row'[d] = "none"
      /\ IF active = NoCall THEN shown' = shown ELSE shown'.state = "ended"
    BY <1>1, StopsActive
<1>3. /\ phase' \in [Call -> ConnectPhase] /\ phase'[c] = "asked" /\ phase[c] = "unused"
      /\ \A d \in Call : d # c => phase'[d] = phase[d]
      /\ kind' \in [Call -> {"vnc", "external"}]
      /\ UNCHANGED <<saved, count, explaining, drops, early, lived>>
    BY <1>1 DEF Connect, ActiveTypes, ConnectPhase
<1>4. /\ overlapped \subseteq overlapped' /\ overlapped' \subseteq Call
      /\ \A d \in Call : d # c /\ phase[d] \in Waiting => {c, d} \subseteq overlapped'
    BY <1>1 DEF Connect, ActiveTypes
<1>5. ActiveTypes'
    BY <1>1, <1>2, <1>3, <1>4 DEF ActiveTypes
<1>6. /\ active # c /\ c \in Call /\ (active # NoCall => active \in Call)
      /\ \A d \in Call : d = active => active # NoCall /\ phase[d] = "begun"
    BY <1>3, ActiveAssumption DEF ActiveInv, CallsProceed, ActiveTypes
<1>7. CallsProceed'
    BY <1>2, <1>3, <1>6 DEF ActiveInv, CallsProceed
<1>8. OverlapsAreNoted'
    BY <1>2, <1>3, <1>4 DEF ActiveInv, OverlapsAreNoted
<1>9. EverySessionIsHeld'
    BY <1>2, <1>3, <1>4, <1>6 DEF ActiveInv, EverySessionIsHeld, Live
<1>10. RowsAreClosed'
    BY <1>2, <1>3, <1>4, <1>6 DEF ActiveInv, RowsAreClosed, CallsProceed
<1>11. CountedOnce'
    
    <2>1. \A d \in Call : row'[d] = "open" => row[d] = "open"
        BY <1>2, <1>6
    <2> QED
        BY <1>2, <1>3, <2>1, CountsStay
<1>12. ShownIsTrue'
    BY <1>2, <1>4 DEF ActiveInv, ShownIsTrue
<1> QED
    BY <1>5, <1>7, <1>8, <1>9, <1>10, <1>11, <1>12 DEF ActiveInv

LEMMA AsksKeeps ==
    ASSUME ActiveInv, NEW c \in Call, Asks(c)
    PROVE  ActiveInv'
<1>1. /\ ActiveTypes /\ CallsProceed /\ OverlapsAreNoted /\ EverySessionIsHeld /\ RowsAreClosed
      /\ CountedOnce /\ ShownIsTrue
    BY DEF ActiveInv
<1>2. /\ phase' \in [Call -> ConnectPhase] /\ \A d \in Call : d # c => phase'[d] = phase[d]
      /\ UNCHANGED <<saved, kind, life, active, stopped, row, count, shown, explaining, drops, overlapped, early, lived>>
      /\ phase[c] \in {"asked", "probing"} /\ phase'[c] = "done"
    BY <1>1 DEF Asks, ActiveTypes, ConnectPhase
<1>3. ActiveTypes'
    BY <1>1, <1>2 DEF ActiveTypes, Shown, ShownRecord, RowState, LifeStage
<1>4. CallsProceed'
    BY <1>1, <1>2, ActiveAssumption DEF CallsProceed, ActiveTypes, Shown
<1>5. OverlapsAreNoted'
    BY <1>1, <1>2, ActiveAssumption DEF OverlapsAreNoted, CallsProceed, ActiveTypes, Waiting
<1>6. EverySessionIsHeld'
    BY <1>1, <1>2, ActiveAssumption DEF EverySessionIsHeld, CallsProceed, OverlapsAreNoted, ActiveTypes, Live, Waiting
<1>7. RowsAreClosed'
    BY <1>1, <1>2, ActiveAssumption DEF RowsAreClosed, CallsProceed, OverlapsAreNoted, ActiveTypes, Waiting
<1>8. CountedOnce'
    BY <1>2, CountsStay
<1>9. ShownIsTrue'
    BY <1>1, <1>2, ActiveAssumption DEF ShownIsTrue, CallsProceed, OverlapsAreNoted, ActiveTypes, Shown, Waiting
<1> QED
    BY <1>3, <1>4, <1>5, <1>6, <1>7, <1>8, <1>9 DEF ActiveInv

LEMMA CallThrowsKeeps ==
    ASSUME ActiveInv, NEW c \in Call, CallThrows(c)
    PROVE  ActiveInv'
<1>1. /\ ActiveTypes /\ CallsProceed /\ OverlapsAreNoted /\ EverySessionIsHeld /\ RowsAreClosed
      /\ CountedOnce /\ ShownIsTrue
    BY DEF ActiveInv
<1>2. /\ phase' \in [Call -> ConnectPhase] /\ \A d \in Call : d # c => phase'[d] = phase[d]
      /\ UNCHANGED <<saved, kind, life, active, stopped, row, count, explaining, drops, overlapped, early, lived>>
      /\ shown' = Shown(c, "failed", "error")
      /\ (phase[c] = "asked" /\ phase'[c] = "done") \/ (phase[c] = "recording" /\ phase'[c] = "unsaved")
    <2>1. CASE phase[c] = "asked"
        BY <1>1, <2>1 DEF CallThrows, ActiveTypes, ConnectPhase
    <2>2. CASE phase[c] = "recording"
        BY <1>1, <2>2 DEF CallThrows, ActiveTypes, ConnectPhase
    <2> QED
        BY <1>1, <2>1, <2>2 DEF CallThrows, ActiveTypes, ConnectPhase
<1>3. ActiveTypes'
    BY <1>1, <1>2 DEF ActiveTypes, Shown, ShownRecord, RowState, LifeStage
<1>4. CallsProceed'
    BY <1>1, <1>2, ActiveAssumption DEF CallsProceed, ActiveTypes, Shown
<1>5. OverlapsAreNoted'
    BY <1>1, <1>2, ActiveAssumption DEF OverlapsAreNoted, CallsProceed, ActiveTypes, Waiting
<1>6. EverySessionIsHeld'
    BY <1>1, <1>2, ActiveAssumption DEF EverySessionIsHeld, CallsProceed, OverlapsAreNoted, ActiveTypes, Live, Waiting
<1>7. RowsAreClosed'
    BY <1>1, <1>2, ActiveAssumption DEF RowsAreClosed, CallsProceed, OverlapsAreNoted, ActiveTypes, Waiting
<1>8. CountedOnce'
    BY <1>2, CountsStay
<1>9. ShownIsTrue'
    BY <1>1, <1>2, ActiveAssumption DEF ShownIsTrue, CallsProceed, OverlapsAreNoted, ActiveTypes, Shown, Waiting
<1> QED
    BY <1>3, <1>4, <1>5, <1>6, <1>7, <1>8, <1>9 DEF ActiveInv

LEMMA ProceedsKeeps ==
    ASSUME ActiveInv, NEW c \in Call, Proceeds(c)
    PROVE  ActiveInv'
<1>1. /\ ActiveTypes /\ CallsProceed /\ OverlapsAreNoted /\ EverySessionIsHeld /\ RowsAreClosed
      /\ CountedOnce /\ ShownIsTrue
    BY DEF ActiveInv
<1>2. /\ phase' \in [Call -> ConnectPhase] /\ \A d \in Call : d # c => phase'[d] = phase[d]
      /\ UNCHANGED <<saved, kind, life, active, stopped, row, count, shown, explaining, drops, overlapped, early, lived>>
      /\ (phase[c] = "asked" /\ phase'[c] = "probing") \/ (phase[c] = "probing" /\ phase'[c] = "finding")
    <2>1. CASE phase[c] = "asked"
        BY <1>1, <2>1 DEF Proceeds, ActiveTypes, ConnectPhase
    <2>2. CASE phase[c] = "probing"
        BY <1>1, <2>2 DEF Proceeds, ActiveTypes, ConnectPhase
    <2> QED
        BY <1>1, <2>1, <2>2 DEF Proceeds, ActiveTypes, ConnectPhase
<1>3. ActiveTypes'
    BY <1>1, <1>2 DEF ActiveTypes, Shown, ShownRecord, RowState, LifeStage
<1>4. CallsProceed'
    BY <1>1, <1>2, ActiveAssumption DEF CallsProceed, ActiveTypes, Shown
<1>5. OverlapsAreNoted'
    BY <1>1, <1>2, ActiveAssumption DEF OverlapsAreNoted, CallsProceed, ActiveTypes, Waiting
<1>6. EverySessionIsHeld'
    BY <1>1, <1>2, ActiveAssumption DEF EverySessionIsHeld, CallsProceed, OverlapsAreNoted, ActiveTypes, Live, Waiting
<1>7. RowsAreClosed'
    BY <1>1, <1>2, ActiveAssumption DEF RowsAreClosed, CallsProceed, OverlapsAreNoted, ActiveTypes, Waiting
<1>8. CountedOnce'
    BY <1>2, CountsStay
<1>9. ShownIsTrue'
    BY <1>1, <1>2, ActiveAssumption DEF ShownIsTrue, CallsProceed, OverlapsAreNoted, ActiveTypes, Shown, Waiting
<1> QED
    BY <1>3, <1>4, <1>5, <1>6, <1>7, <1>8, <1>9 DEF ActiveInv

LEMMA MissingKeeps ==
    ASSUME ActiveInv, NEW c \in Call, Missing(c)
    PROVE  ActiveInv'
<1>1. /\ ActiveTypes /\ CallsProceed /\ OverlapsAreNoted /\ EverySessionIsHeld /\ RowsAreClosed
      /\ CountedOnce /\ ShownIsTrue
    BY DEF ActiveInv
<1>2. /\ phase' \in [Call -> ConnectPhase] /\ \A d \in Call : d # c => phase'[d] = phase[d]
      /\ UNCHANGED <<saved, kind, life, active, stopped, row, count, explaining, drops, overlapped, early, lived>>
      /\ shown' = Shown(c, "failed", "state")
      /\ phase[c] = "finding" /\ phase'[c] = "done"
    BY <1>1 DEF Missing, ActiveTypes, ConnectPhase
<1>3. ActiveTypes'
    BY <1>1, <1>2 DEF ActiveTypes, Shown, ShownRecord, RowState, LifeStage
<1>4. CallsProceed'
    BY <1>1, <1>2, ActiveAssumption DEF CallsProceed, ActiveTypes, Shown
<1>5. OverlapsAreNoted'
    BY <1>1, <1>2, ActiveAssumption DEF OverlapsAreNoted, CallsProceed, ActiveTypes, Waiting
<1>6. EverySessionIsHeld'
    BY <1>1, <1>2, ActiveAssumption DEF EverySessionIsHeld, CallsProceed, OverlapsAreNoted, ActiveTypes, Live, Waiting
<1>7. RowsAreClosed'
    BY <1>1, <1>2, ActiveAssumption DEF RowsAreClosed, CallsProceed, OverlapsAreNoted, ActiveTypes, Waiting
<1>8. CountedOnce'
    BY <1>2, CountsStay
<1>9. ShownIsTrue'
    BY <1>1, <1>2, ActiveAssumption DEF ShownIsTrue, CallsProceed, OverlapsAreNoted, ActiveTypes, Shown, Waiting
<1> QED
    BY <1>3, <1>4, <1>5, <1>6, <1>7, <1>8, <1>9 DEF ActiveInv

LEMMA RecordStartKeeps ==
    ASSUME ActiveInv, NEW c \in Call, RecordStart(c)
    PROVE  ActiveInv'
<1>1. /\ ActiveTypes /\ CallsProceed /\ OverlapsAreNoted /\ EverySessionIsHeld /\ RowsAreClosed
      /\ CountedOnce /\ ShownIsTrue
    BY DEF ActiveInv
<1>2. /\ phase' \in [Call -> ConnectPhase] /\ \A d \in Call : d # c => phase'[d] = phase[d]
      /\ row' \in [Call -> RowState] /\ \A d \in Call : d # c => row'[d] = row[d]
      /\ UNCHANGED <<saved, kind, life, active, stopped, count, explaining, drops, overlapped, early, lived>>
      /\ phase[c] \in {"asked", "finding"}
      /\ \/ phase'[c] = "recording" /\ row'[c] = "open" /\ shown' = shown
         \/ phase'[c] = "done" /\ row' = row /\ shown' = Shown(c, "failed", "error")
    <2>1. CASE Target[c] \in saved
        BY <1>1, <2>1 DEF RecordStart, ActiveTypes, ConnectPhase, RowState
    <2>2. CASE Target[c] \notin saved
        BY <1>1, <2>2 DEF RecordStart, ActiveTypes, ConnectPhase, RowState
    <2> QED
        BY <1>1, <2>1, <2>2 DEF RecordStart, ActiveTypes, ConnectPhase, RowState
<1>3. ActiveTypes'
    BY <1>1, <1>2 DEF ActiveTypes, Shown, ShownRecord, RowState, LifeStage
<1>4. CallsProceed'
    BY <1>1, <1>2, ActiveAssumption DEF CallsProceed, ActiveTypes, Shown
<1>5. OverlapsAreNoted'
    BY <1>1, <1>2, ActiveAssumption DEF OverlapsAreNoted, CallsProceed, ActiveTypes, Waiting
<1>6. EverySessionIsHeld'
    BY <1>1, <1>2, ActiveAssumption DEF EverySessionIsHeld, CallsProceed, OverlapsAreNoted, ActiveTypes, Live, Waiting
<1>7. RowsAreClosed'
    BY <1>1, <1>2, ActiveAssumption DEF RowsAreClosed, CallsProceed, OverlapsAreNoted, ActiveTypes, Waiting
<1>8. CountedOnce'
    BY <1>1, <1>2, ActiveAssumption DEF CountedOnce, CountsSessions, For, ActiveTypes, CallsProceed
<1>9. ShownIsTrue'
    BY <1>1, <1>2, ActiveAssumption DEF ShownIsTrue, CallsProceed, OverlapsAreNoted, ActiveTypes, Shown, Waiting
<1> QED
    BY <1>3, <1>4, <1>5, <1>6, <1>7, <1>8, <1>9 DEF ActiveInv

LEMMA BeginsKeeps ==
    ASSUME ActiveInv, NEW c \in Call, Begins(c)
    PROVE  ActiveInv'
<1>1. /\ ActiveTypes /\ CallsProceed /\ OverlapsAreNoted /\ EverySessionIsHeld /\ RowsAreClosed
      /\ CountedOnce /\ ShownIsTrue
    BY DEF ActiveInv
<1>2. /\ phase' \in [Call -> ConnectPhase] /\ \A d \in Call : d # c => phase'[d] = phase[d]
      /\ life' \in [Call -> LifeStage] /\ \A d \in Call : d # c => life'[d] = life[d]
      /\ UNCHANGED <<saved, kind, stopped, row, count, explaining, drops, overlapped, early, lived>>
      /\ phase[c] = "recording" /\ phase'[c] = "begun" /\ active' = c
      /\ life'[c] \in {"starting", "booting"}
      /\ shown' = Shown(c, "connecting", "state") \/ shown' = shown
      /\ c # NoCall
    <2>1. CASE kind[c] = "vnc"
        BY <1>1, <2>1, ActiveAssumption DEF Begins, ActiveTypes, ConnectPhase, LifeStage
    <2>2. CASE kind[c] # "vnc"
        BY <1>1, <2>2, ActiveAssumption DEF Begins, ActiveTypes, ConnectPhase, LifeStage
    <2> QED
        BY <1>1, <2>1, <2>2 DEF Begins, ActiveTypes, ConnectPhase, LifeStage
<1>3. ActiveTypes'
    BY <1>1, <1>2 DEF ActiveTypes, Shown, ShownRecord, RowState, LifeStage
<1>4. CallsProceed'
    BY <1>1, <1>2, ActiveAssumption DEF CallsProceed, ActiveTypes, Shown
<1>5. OverlapsAreNoted'
    BY <1>1, <1>2, ActiveAssumption DEF OverlapsAreNoted, CallsProceed, ActiveTypes, Waiting
<1>6. EverySessionIsHeld'
    BY <1>1, <1>2, ActiveAssumption DEF EverySessionIsHeld, CallsProceed, OverlapsAreNoted, ActiveTypes, Live, Waiting
<1>7. RowsAreClosed'
    BY <1>1, <1>2, ActiveAssumption DEF RowsAreClosed, CallsProceed, OverlapsAreNoted, ActiveTypes, Waiting
<1>8. CountedOnce'
    BY <1>1, <1>2, ActiveAssumption DEF CountedOnce, CountsSessions, For, ActiveTypes, CallsProceed
<1>9. ShownIsTrue'
    BY <1>1, <1>2, ActiveAssumption DEF ShownIsTrue, CallsProceed, OverlapsAreNoted, ActiveTypes, Shown, Waiting
<1> QED
    BY <1>3, <1>4, <1>5, <1>6, <1>7, <1>8, <1>9 DEF ActiveInv

LEMMA SpawnsKeeps ==
    ASSUME ActiveInv, NEW c \in Call, Spawns(c)
    PROVE  ActiveInv'
<1>1. /\ ActiveTypes /\ CallsProceed /\ OverlapsAreNoted /\ EverySessionIsHeld /\ RowsAreClosed
      /\ CountedOnce /\ ShownIsTrue
    BY DEF ActiveInv
<1>2. /\ life' \in [Call -> LifeStage] /\ \A d \in Call : d # c => life'[d] = life[d]
      /\ UNCHANGED <<saved, phase, kind, active, row, count, explaining, drops, overlapped, lived>>
      /\ life[c] = "booting" /\ life'[c] = "starting"
      /\ stopped' = stopped \ {c} /\ early' = early \cup (stopped \cap {c})
      /\ IF active = c THEN shown' = Shown(c, "connecting", "state") ELSE shown' = shown
    BY <1>1 DEF Spawns, Tells, ActiveTypes, LifeStage
<1>3. ActiveTypes'
    BY <1>1, <1>2 DEF ActiveTypes, Shown, ShownRecord, RowState, LifeStage
<1>4. CallsProceed'
    BY <1>1, <1>2, ActiveAssumption DEF CallsProceed, ActiveTypes, Shown
<1>5. OverlapsAreNoted'
    BY <1>1, <1>2, ActiveAssumption DEF OverlapsAreNoted, CallsProceed, ActiveTypes, Waiting
<1>6. EverySessionIsHeld'
    BY <1>1, <1>2, ActiveAssumption DEF EverySessionIsHeld, CallsProceed, OverlapsAreNoted, ActiveTypes, Live, Waiting
<1>7. RowsAreClosed'
    BY <1>1, <1>2, ActiveAssumption DEF RowsAreClosed, CallsProceed, OverlapsAreNoted, ActiveTypes, Waiting
<1>8. CountedOnce'
    BY <1>2, CountsStay
<1>9. ShownIsTrue'
    BY <1>1, <1>2, ActiveAssumption DEF ShownIsTrue, CallsProceed, OverlapsAreNoted, ActiveTypes, Shown, Waiting
<1> QED
    BY <1>3, <1>4, <1>5, <1>6, <1>7, <1>8, <1>9 DEF ActiveInv

LEMMA BootThrowsKeeps ==
    ASSUME ActiveInv, NEW c \in Call, BootThrows(c)
    PROVE  ActiveInv'
<1>1. /\ ActiveTypes /\ CallsProceed /\ OverlapsAreNoted /\ EverySessionIsHeld /\ RowsAreClosed
      /\ CountedOnce /\ ShownIsTrue
    BY DEF ActiveInv
<1>2. /\ phase' \in [Call -> ConnectPhase] /\ \A d \in Call : d # c => phase'[d] = phase[d]
      /\ life' \in [Call -> LifeStage] /\ \A d \in Call : d # c => life'[d] = life[d]
      /\ UNCHANGED <<saved, kind, stopped, row, count, explaining, drops, overlapped, early, lived>>
      /\ life[c] = "booting" /\ life'[c] = "over" /\ phase'[c] = "threw"
      /\ active' = IF active = c THEN NoCall ELSE active
      /\ shown' = Shown(c, "failed", "error")
    BY <1>1 DEF BootThrows, ActiveTypes, LifeStage, ConnectPhase
<1>3. ActiveTypes'
    BY <1>1, <1>2 DEF ActiveTypes, Shown, ShownRecord, RowState, LifeStage
<1>4. CallsProceed'
    BY <1>1, <1>2, ActiveAssumption DEF CallsProceed, ActiveTypes, Shown
<1>5. OverlapsAreNoted'
    BY <1>1, <1>2, ActiveAssumption DEF OverlapsAreNoted, CallsProceed, ActiveTypes, Waiting
<1>6. EverySessionIsHeld'
    BY <1>1, <1>2, ActiveAssumption DEF EverySessionIsHeld, CallsProceed, OverlapsAreNoted, ActiveTypes, Live, Waiting
<1>7. RowsAreClosed'
    BY <1>1, <1>2, ActiveAssumption DEF RowsAreClosed, CallsProceed, OverlapsAreNoted, ActiveTypes, Waiting
<1>8. CountedOnce'
    BY <1>2, CountsStay
<1>9. ShownIsTrue'
    BY <1>1, <1>2, ActiveAssumption DEF ShownIsTrue, CallsProceed, OverlapsAreNoted, ActiveTypes, Shown, Waiting
<1> QED
    BY <1>3, <1>4, <1>5, <1>6, <1>7, <1>8, <1>9 DEF ActiveInv

LEMMA DropsKeeps ==
    ASSUME ActiveInv, NEW c \in Call, Drops(c)
    PROVE  ActiveInv'
<1>1. /\ ActiveTypes /\ CallsProceed /\ OverlapsAreNoted /\ EverySessionIsHeld /\ RowsAreClosed
      /\ CountedOnce /\ ShownIsTrue
    BY DEF ActiveInv
<1>2. /\ life' \in [Call -> LifeStage] /\ \A d \in Call : d # c => life'[d] = life[d]
      /\ UNCHANGED <<saved, phase, kind, active, stopped, row, count, explaining, overlapped, early, lived>>
      /\ life[c] = "up" /\ life'[c] = "starting" /\ drops' \in Nat
      /\ IF active = c THEN shown' = Shown(c, "connecting", "state") ELSE shown' = shown
    BY <1>1 DEF Drops, Tells, ActiveTypes, LifeStage
<1>3. ActiveTypes'
    BY <1>1, <1>2 DEF ActiveTypes, Shown, ShownRecord, RowState, LifeStage
<1>4. CallsProceed'
    BY <1>1, <1>2, ActiveAssumption DEF CallsProceed, ActiveTypes, Shown
<1>5. OverlapsAreNoted'
    BY <1>1, <1>2, ActiveAssumption DEF OverlapsAreNoted, CallsProceed, ActiveTypes, Waiting
<1>6. EverySessionIsHeld'
    BY <1>1, <1>2, ActiveAssumption DEF EverySessionIsHeld, CallsProceed, OverlapsAreNoted, ActiveTypes, Live, Waiting
<1>7. RowsAreClosed'
    BY <1>1, <1>2, ActiveAssumption DEF RowsAreClosed, CallsProceed, OverlapsAreNoted, ActiveTypes, Waiting
<1>8. CountedOnce'
    BY <1>2, CountsStay
<1>9. ShownIsTrue'
    BY <1>1, <1>2, ActiveAssumption DEF ShownIsTrue, CallsProceed, OverlapsAreNoted, ActiveTypes, Shown, Waiting
<1> QED
    BY <1>3, <1>4, <1>5, <1>6, <1>7, <1>8, <1>9 DEF ActiveInv

LEMMA EndsKeeps ==
    ASSUME ActiveInv, NEW c \in Call, NEW how \in {"failed", "ended"}, NEW tls \in BOOLEAN,
           Ends(c, how, tls)
    PROVE  ActiveInv'
<1>1. /\ ActiveTypes /\ CallsProceed /\ OverlapsAreNoted /\ EverySessionIsHeld /\ RowsAreClosed
      /\ CountedOnce /\ ShownIsTrue
    BY DEF ActiveInv
<1>2. /\ life' \in [Call -> LifeStage] /\ \A d \in Call : d # c => life'[d] = life[d]
      /\ row' \in [Call -> RowState] /\ \A d \in Call : d # c => row'[d] = row[d]
      /\ UNCHANGED <<saved, phase, kind, stopped, count, drops, overlapped, early, lived>>
      /\ life[c] \in {"starting", "up"} /\ life'[c] = "over" /\ explaining' \subseteq Call
      /\ IF active = c THEN shown' = Shown(c, how, "state") /\ active' = NoCall /\ row'[c] \notin {"open", "live"}
                    ELSE shown' = shown /\ active' = active /\ row' = row
      /\ row[c] = "none" => row'[c] = "none"
    <2>1. CASE active = c
        BY <1>1, <2>1 DEF Ends, EndRow, ActiveTypes, LifeStage, RowState
    <2>2. CASE active # c
        BY <1>1, <2>2 DEF Ends, EndRow, ActiveTypes, LifeStage, RowState
    <2> QED
        BY <1>1, <2>1, <2>2 DEF Ends, EndRow, ActiveTypes, LifeStage, RowState
<1>3. ActiveTypes'
    BY <1>1, <1>2 DEF ActiveTypes, Shown, ShownRecord, RowState, LifeStage
<1>4. CallsProceed'
    BY <1>1, <1>2, ActiveAssumption DEF CallsProceed, ActiveTypes, Shown
<1>5. OverlapsAreNoted'
    BY <1>1, <1>2, ActiveAssumption DEF OverlapsAreNoted, CallsProceed, ActiveTypes, Waiting
<1>6. EverySessionIsHeld'
    BY <1>1, <1>2, ActiveAssumption DEF EverySessionIsHeld, CallsProceed, OverlapsAreNoted, ActiveTypes, Live, Waiting
<1>7. RowsAreClosed'
    BY <1>1, <1>2, ActiveAssumption DEF RowsAreClosed, CallsProceed, OverlapsAreNoted, ActiveTypes, Waiting
<1>8. CountedOnce'
    BY <1>2, CountsStay
<1>9. ShownIsTrue'
    BY <1>1, <1>2, ActiveAssumption DEF ShownIsTrue, CallsProceed, OverlapsAreNoted, ActiveTypes, Shown, Waiting
<1> QED
    BY <1>3, <1>4, <1>5, <1>6, <1>7, <1>8, <1>9 DEF ActiveInv

LEMMA ExplainsKeeps ==
    ASSUME ActiveInv, NEW c \in Call, NEW ask \in BOOLEAN, Explains(c, ask)
    PROVE  ActiveInv'
<1>1. /\ ActiveTypes /\ CallsProceed /\ OverlapsAreNoted /\ EverySessionIsHeld /\ RowsAreClosed
      /\ CountedOnce /\ ShownIsTrue
    BY DEF ActiveInv
<1>2. /\ UNCHANGED <<saved, phase, kind, life, active, stopped, row, count, drops, overlapped, early, lived>>
      /\ explaining' \subseteq Call
      /\ shown' = shown \/ shown' = Shown(c, "failed", "explained")
    BY <1>1 DEF Explains, ActiveTypes
<1>3. ActiveTypes'
    BY <1>1, <1>2 DEF ActiveTypes, Shown, ShownRecord, RowState, LifeStage
<1>4. CallsProceed'
    BY <1>1, <1>2, ActiveAssumption DEF CallsProceed, ActiveTypes, Shown
<1>5. OverlapsAreNoted'
    BY <1>1, <1>2, ActiveAssumption DEF OverlapsAreNoted, CallsProceed, ActiveTypes, Waiting
<1>6. EverySessionIsHeld'
    BY <1>1, <1>2, ActiveAssumption DEF EverySessionIsHeld, CallsProceed, OverlapsAreNoted, ActiveTypes, Live, Waiting
<1>7. RowsAreClosed'
    BY <1>1, <1>2, ActiveAssumption DEF RowsAreClosed, CallsProceed, OverlapsAreNoted, ActiveTypes, Waiting
<1>8. CountedOnce'
    BY <1>2, CountsStay
<1>9. ShownIsTrue'
    BY <1>1, <1>2, ActiveAssumption DEF ShownIsTrue, CallsProceed, OverlapsAreNoted, ActiveTypes, Shown, Waiting
<1> QED
    BY <1>3, <1>4, <1>5, <1>6, <1>7, <1>8, <1>9 DEF ActiveInv

LEMMA ComesUpKeeps ==
    ASSUME ActiveInv, NEW c \in Call, ComesUp(c)
    PROVE  ActiveInv'
<1>1. /\ ActiveTypes /\ CallsProceed /\ OverlapsAreNoted /\ EverySessionIsHeld /\ RowsAreClosed
      /\ CountedOnce /\ ShownIsTrue
    BY DEF ActiveInv
<1>2. /\ life' \in [Call -> LifeStage] /\ \A d \in Call : d # c => life'[d] = life[d]
      /\ row' \in [Call -> RowState] /\ \A d \in Call : d # c => row'[d] = row[d]
      /\ UNCHANGED <<saved, phase, kind, active, stopped, explaining, drops, overlapped, early>>
      /\ life[c] = "starting" /\ life'[c] = "up" /\ lived' = lived \cup {c}
      /\ IF active = c THEN row'[c] \in {row[c], "live"} /\ row'[c] # "open" ELSE row' = row
      /\ row[c] = "none" => row'[c] = "none"
      /\ count' \in [Computer -> Nat]
      /\ count' = IF active = c /\ row[c] = "open" /\ Target[c] \in saved
                  THEN [count EXCEPT ![Target[c]] = @ + 1] ELSE count
      /\ IF active = c THEN shown' = Shown(c, "connected", "state") ELSE shown' = shown
    <2>1. CASE active = c /\ row[c] = "open"
        BY <1>1, <2>1, ActiveAssumption DEF ComesUp, RecordConnected, Tells, ActiveTypes, LifeStage, RowState
    <2>2. CASE active = c /\ row[c] # "open"
        BY <1>1, <2>2, ActiveAssumption DEF ComesUp, RecordConnected, Tells, ActiveTypes, LifeStage, RowState
    <2>3. CASE active # c
        BY <1>1, <2>3, ActiveAssumption DEF ComesUp, RecordConnected, Tells, ActiveTypes, LifeStage, RowState
    <2> QED
        BY <1>1, <2>1, <2>2, <2>3 DEF ComesUp, RecordConnected, Tells, ActiveTypes, LifeStage, RowState
<1>3. ActiveTypes'
    BY <1>1, <1>2 DEF ActiveTypes, Shown, ShownRecord, RowState, LifeStage
<1>4. CallsProceed'
    BY <1>1, <1>2, ActiveAssumption DEF CallsProceed, ActiveTypes, Shown
<1>5. OverlapsAreNoted'
    BY <1>1, <1>2, ActiveAssumption DEF OverlapsAreNoted, CallsProceed, ActiveTypes, Waiting
<1>6. EverySessionIsHeld'
    BY <1>1, <1>2, ActiveAssumption DEF EverySessionIsHeld, CallsProceed, OverlapsAreNoted, ActiveTypes, Live, Waiting
<1>7. RowsAreClosed'
    BY <1>1, <1>2, ActiveAssumption DEF RowsAreClosed, CallsProceed, OverlapsAreNoted, ActiveTypes, Waiting
<1>8. CountedOnce'
    <2>1. IsFiniteSet(lived) /\ lived' = lived \cup {c} /\ \A r \in Computer : count[r] <= Cardinality(lived \cap For(r))
        BY <1>1, <1>2 DEF CountedOnce, CountsSessions
    <2>2. \A r \in Computer : /\ IsFiniteSet(lived \cap For(r)) /\ IsFiniteSet(lived' \cap For(r))
                             /\ Cardinality(lived \cap For(r)) <= Cardinality(lived' \cap For(r))
                             /\ {Cardinality(lived \cap For(r)), Cardinality(lived' \cap For(r))} \subseteq Nat
        <3> SUFFICES ASSUME NEW r \in Computer
                     PROVE  /\ IsFiniteSet(lived \cap For(r)) /\ IsFiniteSet(lived' \cap For(r))
                            /\ Cardinality(lived \cap For(r)) <= Cardinality(lived' \cap For(r))
                            /\ {Cardinality(lived \cap For(r)), Cardinality(lived' \cap For(r))} \subseteq Nat
            OBVIOUS
        <3>1. IsFiniteSet(lived \cup {c})
            BY <2>1, FS_AddElement
        <3>2. lived \cap For(r) \subseteq lived' \cap For(r) /\ lived' \cap For(r) \subseteq lived \cup {c}
            BY <2>1
        <3>3. IsFiniteSet(lived' \cap For(r))
            BY <3>1, <3>2, FS_Subset
        <3> QED
            BY <3>2, <3>3, FS_Subset, FS_CardinalityType
    <2>3. CASE active = c /\ row[c] = "open" /\ Target[c] \in saved
        <3>1. c \notin lived /\ Target[c] \in Computer
            BY <1>1, <2>3, ActiveAssumption DEF CountedOnce
        <3>2. lived' \cap For(Target[c]) = (lived \cap For(Target[c])) \cup {c}
            BY <2>1 DEF For
        <3>3. Cardinality(lived' \cap For(Target[c])) = Cardinality(lived \cap For(Target[c])) + 1
            BY <2>2, <3>1, <3>2, FS_AddElement
        <3>4. count' = [count EXCEPT ![Target[c]] = @ + 1]
            BY <1>2, <2>3
        <3>5. \A r \in Computer : count'[r] <= Cardinality(lived' \cap For(r))
            <4> SUFFICES ASSUME NEW r \in Computer PROVE count'[r] <= Cardinality(lived' \cap For(r))
                OBVIOUS
            <4> DEFINE old == Cardinality(lived \cap For(r))
                       new == Cardinality(lived' \cap For(r))
            <4>1. count \in [Computer -> Nat] /\ count[r] \in Nat
                BY <1>1 DEF ActiveTypes
            <4>2. count[r] <= old
                BY <2>1
            <4>3. old <= new /\ old \in Nat /\ new \in Nat
                BY <2>2
            <4>4. r = Target[c] => new = old + 1
                BY <3>3
            <4>5. count'[r] = IF r = Target[c] THEN count[r] + 1 ELSE count[r]
                BY <3>4, <4>1
            <4> HIDE DEF old, new
            <4>6. count'[r] <= new
                BY <4>1, <4>2, <4>3, <4>4, <4>5
            <4> QED
                BY <4>6 DEF new
        <3> QED
            BY <1>2, <2>1, <2>3, <3>5, FS_AddElement DEF CountedOnce, CountsSessions, For
    <2>4. CASE ~(active = c /\ row[c] = "open" /\ Target[c] \in saved)
        <3>1. count' = count /\ (active = c => row'[c] # "open")
            BY <1>1, <1>2, <2>4 DEF ActiveTypes
        <3>2. \A r \in Computer : count'[r] <= Cardinality(lived' \cap For(r))
            <4> SUFFICES ASSUME NEW r \in Computer PROVE count'[r] <= Cardinality(lived' \cap For(r))
                OBVIOUS
            <4>1. count[r] \in Nat /\ count'[r] = count[r]
                BY <1>1, <3>1 DEF ActiveTypes
            <4> DEFINE old == Cardinality(lived \cap For(r))
                       new == Cardinality(lived' \cap For(r))
            <4>2. count[r] <= old
                BY <2>1
            <4>3. old <= new /\ old \in Nat /\ new \in Nat
                BY <2>2
            <4> HIDE DEF old, new
            <4>4. count'[r] <= new
                BY <4>1, <4>2, <4>3
            <4> QED
                BY <4>4 DEF new
        <3>3. IsFiniteSet(lived')
            BY <2>1, FS_AddElement
        <3>4. active' # NoCall /\ active' \in lived' => row'[active'] # "open"
            BY <1>1, <1>2, <2>1, <3>1 DEF CountedOnce, ActiveTypes
        <3> QED
            BY <3>2, <3>3, <3>4 DEF CountedOnce, CountsSessions, For
    <2> QED
        BY <2>3, <2>4
<1>9. ShownIsTrue'
    BY <1>1, <1>2, ActiveAssumption DEF ShownIsTrue, CallsProceed, OverlapsAreNoted, ActiveTypes, Shown, Waiting
<1> QED
    BY <1>3, <1>4, <1>5, <1>6, <1>7, <1>8, <1>9 DEF ActiveInv

(* Stopping the active session where no call moves, and rows may go.       *)
StopsAndForgets ==
    /\ active' = NoCall /\ stopped' \subseteq Call /\ stopped \subseteq stopped'
    /\ life' \in [Call -> LifeStage] /\ row' \in [Call -> RowState] /\ shown' \in ShownRecord
    /\ active # NoCall => active \in stopped' /\ row'[active] \notin {"open", "live"}
    /\ \A c \in Call : c # active => life'[c] = life[c] /\ row'[c] \in {row[c], "none"}
    /\ \A c \in Call : life'[c] \in {life[c], "over"}
    /\ \A c \in Call : row[c] = "none" => row'[c] = "none"
    /\ IF active = NoCall THEN shown' = shown ELSE shown'.state = "ended"
    /\ saved' \subseteq saved
    /\ UNCHANGED <<phase, kind, count, explaining, drops, overlapped, early, lived>>

LEMMA StoppingKeeps ==
    ASSUME ActiveInv, StopsAndForgets
    PROVE  ActiveInv'
<1>1. /\ ActiveTypes /\ CallsProceed /\ OverlapsAreNoted /\ EverySessionIsHeld /\ RowsAreClosed
      /\ CountedOnce /\ ShownIsTrue
    BY DEF ActiveInv
<1>2. \A d \in Call : d = active => active # NoCall /\ phase[d] = "begun"
    BY <1>1, ActiveAssumption DEF CallsProceed
<1>3. ActiveTypes'
    BY <1>1 DEF ActiveTypes, StopsAndForgets
<1>4. CallsProceed'
    BY <1>1, <1>2 DEF CallsProceed, StopsAndForgets
<1>5. OverlapsAreNoted'
    BY <1>1 DEF OverlapsAreNoted, Waiting, StopsAndForgets
<1>6. EverySessionIsHeld'
    BY <1>1, <1>2 DEF EverySessionIsHeld, Live, StopsAndForgets
<1>7. RowsAreClosed'
    BY <1>1, <1>2 DEF RowsAreClosed, StopsAndForgets
<1>8. CountedOnce'
    <2>1. \A d \in Call : row'[d] = "open" => row[d] = "open"
        BY <1>2 DEF StopsAndForgets
    <2> QED
        BY <2>1, CountsStay DEF StopsAndForgets
<1>9. ShownIsTrue'
    BY <1>1 DEF ShownIsTrue, StopsAndForgets
<1> QED
    BY <1>3, <1>4, <1>5, <1>6, <1>7, <1>8, <1>9 DEF ActiveInv

(* What is asked of rows holds of fewer of them.                           *)
LEMMA FewerRows ==
    ASSUME ActiveInv, UNCHANGED <<phase, kind, life, active, stopped, count, shown, explaining, drops,
                                  overlapped, early, lived>>,
           saved' \subseteq saved, row' \in [Call -> RowState],
           \A c \in Call : row'[c] \in {row[c], "none"}
    PROVE  ActiveInv'
<1>1. /\ ActiveTypes /\ CallsProceed /\ OverlapsAreNoted /\ EverySessionIsHeld /\ RowsAreClosed
      /\ CountedOnce /\ ShownIsTrue
    BY DEF ActiveInv
<1>2. ActiveTypes' /\ CallsProceed' /\ OverlapsAreNoted' /\ EverySessionIsHeld'
    BY <1>1 DEF ActiveTypes, CallsProceed, OverlapsAreNoted, EverySessionIsHeld
<1>3. RowsAreClosed'
    BY <1>1 DEF RowsAreClosed
<1>4. CountedOnce'
    BY CountsStay
<1>5. ShownIsTrue'
    BY <1>1 DEF ShownIsTrue
<1> QED
    BY <1>2, <1>3, <1>4, <1>5 DEF ActiveInv

LEMMA DisconnectKeeps ==
    ASSUME ActiveInv, Disconnect
    PROVE  ActiveInv'
<1>1. ActiveTypes /\ StopActive
    BY DEF Disconnect, ActiveInv
<1>2. StopsAndForgets
    BY <1>1, StopsActive DEF Disconnect, StopsAndForgets
<1> QED
    BY <1>2, StoppingKeeps

LEMMA RemoveComputerKeeps ==
    ASSUME ActiveInv, NEW saves \in Computer, RemoveComputer(saves)
    PROVE  ActiveInv'
<1> DEFINE gone(r) == [c \in Call |-> IF Target[c] = saves /\ r[c] # "none" THEN "none" ELSE r[c]]
<1>1. /\ saved' = saved \ {saves} /\ ActiveTypes
      /\ UNCHANGED <<phase, kind, count, explaining, drops, overlapped, early, lived>>
    BY DEF RemoveComputer, ActiveInv
<1>2. CASE active # NoCall /\ Target[active] = saves
    <2>1. /\ active' = NoCall /\ stopped' = stopped \cup {active}
          /\ life' = IF kind[active] = "vnc" THEN [life EXCEPT ![active] = "over"] ELSE life
          /\ shown' = Shown(active, "ended", "state") /\ row' = gone(EndRow(active))
        BY <1>2 DEF RemoveComputer
    <2>2. active \in Call
        BY <1>1, <1>2 DEF ActiveTypes
    <2>3. /\ EndRow(active) \in [Call -> RowState] /\ EndRow(active)[active] \notin {"open", "live"}
          /\ \A c \in Call : c # active => EndRow(active)[c] = row[c]
          /\ \A c \in Call : row[c] = "none" => EndRow(active)[c] = "none"
        BY <1>1, <2>2 DEF EndRow, ActiveTypes, RowState
    <2>4. /\ row' \in [Call -> RowState] /\ row'[active] \notin {"open", "live"}
          /\ \A c \in Call : c # active => row'[c] \in {row[c], "none"}
          /\ \A c \in Call : row[c] = "none" => row'[c] = "none"
        <3> HIDE DEF gone
        <3>1. /\ gone(EndRow(active)) \in [Call -> RowState]
              /\ \A c \in Call : gone(EndRow(active))[c] \in {EndRow(active)[c], "none"}
            BY <2>3 DEF gone, RowState
        <3> QED
            BY <2>1, <2>2, <2>3, <3>1
    <2>5. /\ life' \in [Call -> LifeStage] /\ \A c \in Call : c # active => life'[c] = life[c]
          /\ \A c \in Call : life'[c] \in {life[c], "over"}
        BY <1>1, <2>1, <2>2 DEF ActiveTypes, LifeStage
    <2>6. shown' \in ShownRecord /\ shown'.state = "ended"
        BY <2>1, <2>2 DEF Shown, ShownRecord
    <2>7. stopped' \subseteq Call
        BY <1>1, <2>1, <2>2 DEF ActiveTypes
    <2>8. StopsAndForgets
        BY <1>1, <1>2, <2>1, <2>4, <2>5, <2>6, <2>7 DEF StopsAndForgets
    <2> QED
        BY <2>8, StoppingKeeps
<1>3. CASE ~(active # NoCall /\ Target[active] = saves)
    <2>1. row' = gone(row) /\ UNCHANGED <<active, stopped, life, shown>>
        BY <1>3 DEF RemoveComputer
    <2>2. row' \in [Call -> RowState] /\ \A c \in Call : row'[c] \in {row[c], "none"}
        BY <1>1, <2>1 DEF ActiveTypes, RowState
    <2> QED
        BY <1>1, <2>1, <2>2, FewerRows
<1> QED
    BY <1>2, <1>3

LEMMA ActiveKeeps ==
    ASSUME ActiveInv, ActiveNext
    PROVE  ActiveInv'
<1>1. CASE Disconnect
    BY <1>1, DisconnectKeeps
<1>2. CASE \E saves \in Computer : RemoveComputer(saves)
    BY <1>2, RemoveComputerKeeps
<1>3. ASSUME NEW c \in Call, NEW k \in {"vnc", "external"}, Connect(c, k) PROVE ActiveInv'
    BY <1>3, ConnectKeeps
<1>4. ASSUME NEW c \in Call,
             Asks(c) \/ CallThrows(c) \/ Proceeds(c) \/ Missing(c) \/ RecordStart(c) \/ Begins(c)
      PROVE  ActiveInv'
    BY <1>4, AsksKeeps, CallThrowsKeeps, ProceedsKeeps, MissingKeeps, RecordStartKeeps, BeginsKeeps
<1>5. ASSUME NEW c \in Call, Spawns(c) \/ BootThrows(c) \/ ComesUp(c) \/ Drops(c)
      PROVE  ActiveInv'
    BY <1>5, SpawnsKeeps, BootThrowsKeeps, ComesUpKeeps, DropsKeeps
<1>6. ASSUME NEW c \in Call, SessionEnds(c) PROVE ActiveInv'
    <2>1. \E how \in {"failed", "ended"}, tls \in BOOLEAN : Ends(c, how, tls)
        BY <1>6 DEF SessionEnds
    <2> QED
        BY <2>1, EndsKeeps
<1>7. ASSUME NEW c \in Call, NEW ask \in BOOLEAN, Explains(c, ask) PROVE ActiveInv'
    BY <1>7, ExplainsKeeps
<1> QED
    BY <1>1, <1>2, <1>3, <1>4, <1>5, <1>6, <1>7 DEF ActiveNext

LEMMA ActiveStays ==
    ASSUME ActiveInv, UNCHANGED activeVars
    PROVE  ActiveInv'
<1>1. UNCHANGED <<saved, phase, kind, life, active, stopped, row, count, shown, explaining, drops,
                  overlapped, early, lived>>
    BY DEF activeVars
<1>2. \A c \in Call : row'[c] \in {row[c], "none"}
    BY <1>1
<1> QED
    BY <1>1, <1>2, FewerRows DEF ActiveInv, ActiveTypes
-----------------------------------------------------------------------------
(* The launch of an RDP session.                                           *)

LaunchTypes ==
    /\ presented \in Cert \cup {NoCert} /\ canPin \in BOOLEAN /\ used \in Cert \cup {NoCert}
    /\ step \in {"idle", "probing", "asking", "launched", "up", "explaining"}
    /\ probed \in Cert \cup {NoCert}
    /\ prompt \in [cert : Cert \cup {NoCert}, why : {"none", "changed", "untrusted"}]

(* Every certificate that is held is one the person has said yes to, and   *)
(* what a question is about is a certificate.                              *)
OnlyApproved ==
    /\ approved \subseteq Cert
    /\ {savedTrust, onceTrust, trusted, pin} \subseteq approved \cup {NoCert}
    /\ step = "asking" => prompt.cert \in Cert

LaunchInv == LaunchTypes /\ OnlyApproved /\ SessionIsVouchedFor /\ ChangeIsAskedAbout

LEMMA LaunchBegins == RdpInit => LaunchInv
BY LaunchAssumption DEF RdpInit, LaunchInv, LaunchTypes, OnlyApproved, SessionIsVouchedFor, ChangeIsAskedAbout,
       NoPrompt

(* What is decided of a certificate, of what is known of it.               *)
LEMMA Decided ==
    ASSUME NEW cert \in Cert \cup {NoCert}, NEW known \in Cert \cup {NoCert}
    PROVE  /\ Decide(cert, known).action \in {"go", "ask"}
           /\ Decide(cert, known).why \in {"none", "changed", "untrusted"}
           /\ Decide(cert, known).action = "ask" => cert # NoCert /\ cert # known
           /\ Decide(cert, known).action = "go" =>
                Decide(cert, known).pin = known /\ (known # NoCert => cert \in {NoCert, known})
<1>1. CASE cert = NoCert
    BY <1>1, LaunchAssumption DEF Decide
<1>2. CASE cert # NoCert /\ known # NoCert
    BY <1>2, LaunchAssumption DEF Decide
<1>3. CASE cert # NoCert /\ known = NoCert
    BY <1>3, LaunchAssumption DEF Decide
<1> QED
    BY <1>1, <1>2, <1>3

LEMMA LaunchKeeps ==
    ASSUME LaunchInv, RdpNext
    PROVE  LaunchInv'
<1> USE LaunchAssumption
<1>1. LaunchTypes /\ OnlyApproved /\ SessionIsVouchedFor /\ ChangeIsAskedAbout
    BY DEF LaunchInv
<1>2. CASE ConnectRdp
    BY <1>1, <1>2 DEF ConnectRdp, OrElse, NoPrompt, LaunchInv, LaunchTypes, OnlyApproved, SessionIsVouchedFor,
                      ChangeIsAskedAbout
<1>3. ASSUME NEW tls \in BOOLEAN, ProbeAnswers(tls) PROVE LaunchInv'
    <2> DEFINE cert == IF tls THEN presented ELSE NoCert
               d == Decide(cert, trusted)
    <2>1. cert \in Cert \cup {NoCert} /\ trusted \in Cert \cup {NoCert}
        BY <1>1 DEF LaunchTypes, OnlyApproved
    <2>2. /\ d.action \in {"go", "ask"} /\ d.why \in {"none", "changed", "untrusted"}
          /\ d.action = "ask" => cert # NoCert
          /\ d.action = "go" => d.pin = trusted /\ (trusted # NoCert => cert \in {NoCert, trusted})
        BY <2>1, Decided
    <2>3. /\ step = "probing" /\ probed' = cert
          /\ IF d.action = "ask"
             THEN step' = "asking" /\ prompt' = [cert |-> cert, why |-> d.why] /\ UNCHANGED pin
             ELSE step' = "launched" /\ pin' = d.pin /\ UNCHANGED prompt
          /\ UNCHANGED <<presented, canPin, savedTrust, onceTrust, trusted, used, approved>>
        BY <1>3 DEF ProbeAnswers
    <2> HIDE DEF cert, d
    <2> QED
        BY <1>1, <2>1, <2>2, <2>3 DEF LaunchInv, LaunchTypes, OnlyApproved, SessionIsVouchedFor, ChangeIsAskedAbout
<1>4. CASE SessionStarts
    BY <1>1, <1>4 DEF SessionStarts, Accepts, LaunchInv, LaunchTypes, OnlyApproved, SessionIsVouchedFor,
                      ChangeIsAskedAbout
<1>5. CASE TlsFails \/ Refuse
    BY <1>1, <1>5 DEF TlsFails, Refuse, NoPrompt, LaunchInv, LaunchTypes, OnlyApproved, SessionIsVouchedFor,
                      ChangeIsAskedAbout
<1>6. ASSUME NEW tls \in BOOLEAN, Explain(tls) PROVE LaunchInv'
    <2> DEFINE cert == IF tls THEN presented ELSE NoCert
               d == Decide(cert, pin)
    <2>1. cert \in Cert \cup {NoCert} /\ pin \in Cert \cup {NoCert}
        BY <1>1 DEF LaunchTypes, OnlyApproved
    <2>2. /\ d.action \in {"go", "ask"} /\ d.why \in {"none", "changed", "untrusted"}
          /\ d.action = "ask" => cert # NoCert
        BY <2>1, Decided
    <2>3. /\ step = "explaining"
          /\ IF d.action = "ask" THEN step' = "asking" /\ prompt' = [cert |-> cert, why |-> d.why]
                                 ELSE step' = "idle" /\ UNCHANGED prompt
          /\ UNCHANGED <<presented, canPin, savedTrust, onceTrust, trusted, probed, pin, used, approved>>
        BY <1>6 DEF Explain
    <2> HIDE DEF cert, d
    <2> QED
        BY <1>1, <2>1, <2>2, <2>3 DEF LaunchInv, LaunchTypes, OnlyApproved, SessionIsVouchedFor, ChangeIsAskedAbout
<1>7. ASSUME NEW remember \in BOOLEAN, TrustAnswer(remember) PROVE LaunchInv'
    BY <1>1, <1>7 DEF TrustAnswer, NoPrompt, LaunchInv, LaunchTypes, OnlyApproved, SessionIsVouchedFor,
                      ChangeIsAskedAbout
<1>8. CASE ForgetCertificate
    BY <1>1, <1>8 DEF ForgetCertificate, LaunchInv, LaunchTypes, OnlyApproved, SessionIsVouchedFor,
                      ChangeIsAskedAbout
<1>9. ASSUME NEW cert \in Cert \cup {NoCert}, ServerChanges(cert) PROVE LaunchInv'
    BY <1>1, <1>9 DEF ServerChanges, LaunchInv, LaunchTypes, OnlyApproved, SessionIsVouchedFor,
                      ChangeIsAskedAbout
<1> QED
    BY <1>2, <1>3, <1>4, <1>5, <1>6, <1>7, <1>8, <1>9 DEF RdpNext

LEMMA LaunchStays ==
    ASSUME LaunchInv, UNCHANGED rdpVars
    PROVE  LaunchInv'
BY DEF rdpVars, LaunchInv, LaunchTypes, OnlyApproved, SessionIsVouchedFor, ChangeIsAskedAbout

(* Whatever is asked for and whatever the installed FreeRDP can do.        *)
LEMMA PlansAreHonest == PlanIsHonest
<1> SUFFICES ASSUME NEW o \in Options, NEW k \in Caps
             PROVE  /\ ~({"smart-sizing", "dynamic"} \subseteq Arguments(o, k))
                    /\ o.scaling # "none" =>
                        \/ {"smart-sizing", "dynamic"} \cap Arguments(o, k) # {}
                        \/ "scaling" \in Warnings(o, k)
                    /\ o.monitors # "one" =>
                        "multimon" \in Arguments(o, k) \cup Warnings(o, k)
                        /\ {"size", "dynamic"} \cap Arguments(o, k) = {}
                    /\ o.monitors = "some" /\ k.multimon => "monitors" \in Arguments(o, k) \cup Warnings(o, k)
    BY DEF PlanIsHonest
<1>1. /\ o.scaling \in {"fit", "fill", "none"} /\ o.monitors \in {"one", "all", "some"}
      /\ {o.full, o.fixed, k.smart, k.multimon, k.select, k.dynamic, k.size} \subseteq BOOLEAN
    BY DEF Options, Caps
<1>2. /\ "smart-sizing" \in Arguments(o, k) <=> Scales(o, k) /\ k.smart
      /\ "multimon" \in Arguments(o, k) <=> o.monitors # "one" /\ k.multimon
      /\ "monitors" \in Arguments(o, k) <=> o.monitors = "some" /\ k.multimon /\ k.select
      /\ "size" \in Arguments(o, k) <=> o.monitors = "one" /\ k.size /\ (o.fixed \/ ~o.full)
      /\ "dynamic" \in Arguments(o, k) <=>
            o.monitors = "one" /\ ~(o.fixed /\ k.size) /\ ~o.full /\ FollowWindow(o, k)
    BY DEF Arguments, When
<1>3. /\ "scaling" \in Warnings(o, k) <=> Scales(o, k) /\ ~k.smart
      /\ "multimon" \in Warnings(o, k) <=> o.monitors # "one" /\ ~k.multimon
      /\ "monitors" \in Warnings(o, k) <=> o.monitors = "some" /\ k.multimon /\ ~k.select
    BY DEF Warnings, When
<1> QED
    BY <1>1, <1>2, <1>3 DEF Scales, FollowWindow
-----------------------------------------------------------------------------
(* The window of a VNC session.                                            *)

ScreenSymbol == ScreenKey \X BOOLEAN
ToWindow == [kind : {"shown", "over", "frame"}, of : Screen]
ToMain == {Rendered} \cup [kind : {"tap"}, symbol : ScreenSymbol]
          \cup [kind : {"key"}, symbol : ScreenSymbol, down : BOOLEAN]

WindowTypes ==
    /\ serves \in Screen \cup {NoScreen} /\ connected \in BOOLEAN /\ awaiting \in BOOLEAN
    /\ connected => serves \in Screen
    /\ downThere \subseteq ScreenSymbol /\ (~connected => downThere = {})
    /\ toWindow \in Seq(ToWindow) /\ toMain \in Seq(ToMain)
    /\ screenOf \in Screen \cup {NoScreen} /\ queue \in Seq(Screen)
    /\ held \in [ScreenKey -> ScreenSymbol \cup {NoSymbol}]
    /\ focused \in BOOLEAN

(* The queue is of the screen that is shown.                               *)
QueueIsTheirs ==
    /\ screenOf # NoScreen => \A i \in 1..Len(queue) : queue[i] = screenOf
    /\ PictureIsTheirs

(* The frame that is awaited is on its way with nothing after it that      *)
(* would empty the queue, or it is in the queue of its own screen with     *)
(* nothing such on the way, or it is acknowledged.                         *)
Harmless(message, c) == message.kind \in {"shown", "frame"} /\ message.of = c
FrameIsSafe ==
    awaiting =>
        \/ \E i \in 1..Len(toWindow) : /\ toWindow[i].kind = "frame"
                                       /\ \A j \in i..Len(toWindow) : Harmless(toWindow[j], serves)
        \/ /\ queue # <<>> /\ scheduled /\ screenOf = serves
           /\ \A j \in 1..Len(toWindow) : Harmless(toWindow[j], serves)
        \/ \E i \in 1..Len(toMain) : toMain[i].kind = "rendered"

(* Without the focus the tracker holds nothing.                            *)
NothingHeld == ~focused => \A k \in ScreenKey : held[k] = NoSymbol

WindowInv ==
    WindowTypes /\ QueueIsTheirs /\ FrameIsSafe /\ NothingHeld /\ KeysAreTracked /\ UpIsUp

LEMMA WindowBegins == VncScreenInit => WindowInv
<1> SUFFICES ASSUME VncScreenInit PROVE WindowInv
    OBVIOUS
<1>1. WindowTypes
    BY EmptySeq DEF VncScreenInit, WindowTypes
<1>2. QueueIsTheirs /\ FrameIsSafe /\ NothingHeld /\ UpIsUp
    BY DEF VncScreenInit, QueueIsTheirs, PictureIsTheirs, FrameIsSafe, NothingHeld, UpIsUp
<1>3. KeysAreTracked
    BY DEF VncScreenInit, KeysAreTracked, PressedSoon, StaysDown
<1> QED
    BY <1>1, <1>2, <1>3 DEF WindowInv

LEMMA WindowShows == WindowInv => WindowHolds
<1> SUFFICES ASSUME WindowInv PROVE WindowHolds
    OBVIOUS
<1>1. FlowNeverStalls
    BY DEF WindowInv, FrameIsSafe, FlowNeverStalls, WindowTypes
<1> QED
    BY <1>1 DEF WindowInv, QueueIsTheirs, WindowHolds

-----------------------------------------------------------------------------
(* A finite set made a sequence is a sequence of its members, all of them. *)
LEMMA SequenceOfSet ==
    ASSUME NEW S, IsFiniteSet(S)
    PROVE  /\ SetToSeq(S) \in Seq(S)
           /\ \A e \in S : \E i \in 1..Len(SetToSeq(S)) : SetToSeq(S)[i] = e
<1> DEFINE N == 1..Cardinality(S)
           f == SetToSeq(S)
<1>1. Cardinality(S) \in Nat /\ ExistsBijection(N, S)
    BY FS_CardinalityType
<1>2. \E g \in [N -> S] : IsInjective(g)
    BY <1>1 DEF ExistsBijection, Bijection, Injection
<1>3. f \in [N -> S] /\ IsInjective(f)
    BY <1>2 DEF SetToSeq
<1>4. f \in Injection(N, S)
    BY <1>3 DEF Injection
<1>5. Cardinality(N) = Cardinality(S)
    BY <1>1, FS_Interval
<1>6. f \in Surjection(N, S)
    BY <1>4, <1>5, FS_Injection
<1>7. f \in Seq(S) /\ Len(f) = Cardinality(S)
    BY <1>1, <1>3, IsASeq
<1> QED
    BY <1>6, <1>7 DEF Surjection

(* What is told to the main process only adds to what stays down what is   *)
(* pressed, and takes from it what is let go.                              *)
LEMMA Told ==
    ASSUME NEW down \in SUBSET ScreenSymbol, NEW said \in Seq(ToMain), NEW more \in Seq(ToMain),
           NEW s \in ScreenSymbol, StaysDown(s, down, said \o more)
    PROVE  \/ /\ StaysDown(s, down, said)
              /\ \A j \in 1..Len(more) : ~LetsGo(more[j], s)
           \/ \E i \in 1..Len(more) : Presses(more[i], s)
<1>1. /\ Len(said \o more) = Len(said) + Len(more) /\ Len(said) \in Nat /\ Len(more) \in Nat
      /\ \A i \in 1..(Len(said) + Len(more)) :
            (said \o more)[i] = IF i <= Len(said) THEN said[i] ELSE more[i - Len(said)]
    BY ConcatProperties, LenProperties
<1>2. PICK i \in 0..Len(said \o more) :
         /\ IF i = 0 THEN s \in down ELSE Presses((said \o more)[i], s)
         /\ \A j \in (i + 1)..Len(said \o more) : ~LetsGo((said \o more)[j], s)
    BY DEF StaysDown
<1>3. CASE i <= Len(said)
    <2>1. i \in 0..Len(said) /\ (i # 0 => i \in 1..(Len(said) + Len(more)))
        BY <1>1, <1>3
    <2>2. IF i = 0 THEN s \in down ELSE Presses(said[i], s)
        BY <1>1, <1>2, <1>3, <2>1
    <2>3. ASSUME NEW j \in (i + 1)..Len(said) PROVE ~LetsGo(said[j], s)
        <3>1. j \in (i + 1)..Len(said \o more) /\ j \in 1..(Len(said) + Len(more)) /\ j <= Len(said)
            BY <1>1, <2>1
        <3> QED
            BY <1>1, <1>2, <3>1
    <2>4. ASSUME NEW j \in 1..Len(more) PROVE ~LetsGo(more[j], s)
        <3>1. /\ Len(said) + j \in (i + 1)..Len(said \o more)
              /\ Len(said) + j \in 1..(Len(said) + Len(more)) /\ ~(Len(said) + j <= Len(said))
              /\ (Len(said) + j) - Len(said) = j
            BY <1>1, <2>1
        <3>2. (said \o more)[Len(said) + j] = more[j]
            BY <1>1, <3>1
        <3> QED
            BY <1>2, <3>1, <3>2
    <2> QED
        BY <2>1, <2>2, <2>3, <2>4 DEF StaysDown
<1>4. CASE ~(i <= Len(said))
    <2>1. i # 0 /\ i - Len(said) \in 1..Len(more) /\ i \in 1..(Len(said) + Len(more))
        BY <1>1, <1>4
    <2>2. Presses(more[i - Len(said)], s)
        BY <1>1, <1>2, <1>4, <2>1
    <2> QED
        BY <2>1, <2>2
<1> QED
    BY <1>3, <1>4

(* Hearing the oldest of what was said leaves down what it would have.     *)
LEMMA Heard ==
    ASSUME NEW down \in SUBSET ScreenSymbol, NEW said \in Seq(ToMain), said # <<>>,
           NEW s \in ScreenSymbol, StaysDown(s, DownAfter(down, Head(said)), Tail(said))
    PROVE  StaysDown(s, down, said)
<1>1. /\ Tail(said) \in Seq(ToMain) /\ Len(Tail(said)) = Len(said) - 1 /\ Head(said) \in ToMain
      /\ \A i \in 1..Len(Tail(said)) : Tail(said)[i] = said[i + 1]
      /\ Len(said) \in Nat /\ Len(said) >= 1 /\ Head(said) = said[1]
    BY HeadTailProperties, LenProperties, EmptySeq
<1>2. PICK i \in 0..Len(Tail(said)) :
         /\ IF i = 0 THEN s \in DownAfter(down, Head(said)) ELSE Presses(Tail(said)[i], s)
         /\ \A j \in (i + 1)..Len(Tail(said)) : ~LetsGo(Tail(said)[j], s)
    BY DEF StaysDown
<1>3. ASSUME NEW j \in (i + 2)..Len(said) PROVE ~LetsGo(said[j], s)
    <2>1. j - 1 \in (i + 1)..Len(Tail(said)) /\ (j - 1) + 1 = j /\ j - 1 \in 1..Len(Tail(said))
        BY <1>1
    <2>2. Tail(said)[j - 1] = said[j]
        BY <1>1, <2>1
    <2> QED
        BY <1>2, <2>1, <2>2
<1>4. CASE i # 0
    <2>1. i + 1 \in 0..Len(said) /\ i + 1 # 0 /\ Tail(said)[i] = said[i + 1] /\ (i + 1) + 1 = i + 2
        BY <1>1, <1>4
    <2>2. Presses(said[i + 1], s)
        BY <1>2, <1>4, <2>1
    <2> QED
        BY <1>3, <2>1, <2>2 DEF StaysDown
<1>5. CASE i = 0
    <2>1. Presses(said[1], s) \/ (s \in down /\ ~LetsGo(said[1], s))
        BY <1>1, <1>2, <1>5 DEF DownAfter, ToMain, Rendered, Presses, LetsGo
    <2>2. CASE Presses(said[1], s)
        <3>1. 1 \in 0..Len(said) /\ 1 # 0 /\ 1 + 1 = 2 /\ i + 2 = 2
            BY <1>1, <1>5
        <3> QED
            BY <1>3, <2>2, <3>1 DEF StaysDown
    <2>3. CASE s \in down /\ ~LetsGo(said[1], s)
        <3>1. 0 \in 0..Len(said) /\ 0 + 1 = 1 /\ i + 2 = 2 /\ \A j \in 1..Len(said) : j = 1 \/ j \in 2..Len(said)
            BY <1>1, <1>5
        <3> QED
            BY <1>3, <2>3, <3>1 DEF StaysDown
    <2> QED
        BY <2>1, <2>2, <2>3
<1> QED
    BY <1>4, <1>5

(* Less down at the start is less down at the end.                         *)
LEMMA LessDown ==
    ASSUME NEW down, NEW less \in SUBSET down, NEW said, NEW s, StaysDown(s, less, said)
    PROVE  StaysDown(s, down, said)
BY DEF StaysDown
-----------------------------------------------------------------------------
(* The keys, whatever is said to the main process.                         *)
Keys == NothingHeld /\ KeysAreTracked /\ UpIsUp

(* What main does about them: a message heard, or fewer down.              *)
LEMMA MainKeepsKeys ==
    ASSUME WindowTypes, Keys, UNCHANGED <<fingers, held, focused, overtaken, swallowed>>,
           \A s \in ScreenSymbol : StaysDown(s, downThere', toMain') => StaysDown(s, downThere, toMain)
    PROVE  Keys'
<1>1. PressedSoon' \subseteq PressedSoon
    BY DEF PressedSoon, ScreenSymbol
<1>2. KeysAreTracked'
    BY <1>1 DEF Keys, KeysAreTracked, Down
<1> QED
    BY <1>2 DEF Keys, NothingHeld, UpIsUp

(* Saying more: what is still down is down and not let go, or pressed.     *)
LEMMA SaidMore ==
    ASSUME WindowTypes, NEW more \in Seq(ToMain), Says(more), downThere' = downThere
    PROVE  /\ toMain' \in Seq(ToMain)
           /\ \A s \in PressedSoon' :
                \/ s \in PressedSoon /\ \A j \in 1..Len(more) : ~LetsGo(more[j], s)
                \/ \E i \in 1..Len(more) : Presses(more[i], s)
<1>1. toMain' = toMain \o more /\ toMain \in Seq(ToMain) /\ downThere \in SUBSET ScreenSymbol
    BY DEF Says, WindowTypes
<1>2. toMain' \in Seq(ToMain)
    BY <1>1, ConcatProperties
<1>3. ASSUME NEW s \in PressedSoon'
      PROVE  \/ s \in PressedSoon /\ \A j \in 1..Len(more) : ~LetsGo(more[j], s)
             \/ \E i \in 1..Len(more) : Presses(more[i], s)
    <2>1. s \in ScreenSymbol /\ StaysDown(s, downThere, toMain \o more)
        BY <1>1, <1>3 DEF PressedSoon, ScreenSymbol
    <2> QED
        BY <1>1, <2>1, Told DEF PressedSoon, ScreenSymbol
<1> QED
    BY <1>2, <1>3

(* Releasing all that is held leaves down only what was overtaken.         *)
LEMMA ReleasesAll ==
    ASSUME WindowTypes, Keys, ReleaseHeld, downThere' = downThere, focused' \in BOOLEAN
    PROVE  /\ toMain' \in Seq(ToMain) /\ Keys' /\ held' \in [ScreenKey -> ScreenSymbol \cup {NoSymbol}]
           /\ \E more \in Seq(ToMain) : toMain' = toMain \o more
<1> DEFINE releases == {TypeKey(s, FALSE) : s \in Down}
           more == SetToSeq(releases)
<1>1. IsFiniteSet(ScreenKey)
    BY ScreenAssumption, FS_AddElement DEF ScreenKey
<1>2. IsFiniteSet(Down) /\ Down \subseteq ScreenSymbol
    <2> DEFINE tracked == {i \in ScreenKey : held[i] # NoSymbol}
    <2>1. IsFiniteSet(tracked)
        BY <1>1, FS_Subset
    <2>2. [k \in tracked |-> held[k]] \in Surjection(tracked, {held[k] : k \in tracked})
        BY DEF Surjection
    <2>3. IsFiniteSet({held[k] : k \in tracked})
        BY <2>1, <2>2, FS_Surjection
    <2> QED
        BY <2>3 DEF Down, WindowTypes
<1>3. IsFiniteSet(releases) /\ releases \subseteq ToMain
    <2>1. [s \in Down |-> TypeKey(s, FALSE)] \in Surjection(Down, releases)
        BY DEF Surjection
    <2>2. IsFiniteSet(releases)
        BY <1>2, <2>1, FS_Surjection
    <2>3. \A s \in ScreenSymbol : TypeKey(s, FALSE) \in ToMain
        BY DEF TypeKey, ToMain
    <2> QED
        BY <1>2, <2>2, <2>3
<1>4. /\ more \in Seq(ToMain)
      /\ \A e \in releases : \E i \in 1..Len(more) : more[i] = e
      /\ \A i \in 1..Len(more) : more[i] \in releases
    <2>1. more \in Seq(releases) /\ \A e \in releases : \E i \in 1..Len(more) : more[i] = e
        BY <1>3, SequenceOfSet
    <2>2. \A i \in 1..Len(more) : more[i] \in releases
        BY <2>1, ElementOfSeq
    <2>3. more \in Seq(ToMain)
        BY <1>3, <2>1, SeqMonotonic
    <2> QED
        BY <2>1, <2>2, <2>3
<1>5. Says(more) /\ held' = [k \in ScreenKey |-> NoSymbol] /\ overtaken' = overtaken \ Down
    BY DEF ReleaseHeld
<1> HIDE DEF more
<1>6. /\ toMain' \in Seq(ToMain)
      /\ \A s \in PressedSoon' :
            \/ s \in PressedSoon /\ \A j \in 1..Len(more) : ~LetsGo(more[j], s)
            \/ \E i \in 1..Len(more) : Presses(more[i], s)
    BY <1>4, <1>5, SaidMore
<1>7. PressedSoon' \subseteq overtaken'
    <2> SUFFICES ASSUME NEW s \in PressedSoon' PROVE s \in overtaken \ Down
        BY <1>5
    <2>1. \A i \in 1..Len(more) : ~Presses(more[i], s)
        BY <1>4 DEF TypeKey, Presses
    <2>2. s \in PressedSoon /\ \A j \in 1..Len(more) : ~LetsGo(more[j], s)
        BY <1>6, <2>1
    <2>3. s \notin Down
        <3> SUFFICES ASSUME s \in Down PROVE FALSE
            OBVIOUS
        <3>1. PICK i \in 1..Len(more) : more[i] = TypeKey(s, FALSE)
            BY <1>4
        <3>2. LetsGo(more[i], s)
            BY <3>1 DEF TypeKey, LetsGo, Presses
        <3> QED
            BY <2>2, <3>2
    <2> QED
        BY <2>2, <2>3 DEF Keys, KeysAreTracked
<1>8. Keys'
    BY <1>5, <1>7 DEF Keys, NothingHeld, KeysAreTracked, UpIsUp
<1> QED
    BY <1>4, <1>5, <1>6, <1>8 DEF Says

LEMMA AcknowledgementsStay ==
    ASSUME NEW said \in Seq(ToMain), NEW more \in Seq(ToMain)
    PROVE  /\ (\E i \in 1..Len(said) : said[i].kind = "rendered") =>
                \E i \in 1..Len(said \o more) : (said \o more)[i].kind = "rendered"
           /\ (\E i \in 1..Len(more) : more[i].kind = "rendered") =>
                \E i \in 1..Len(said \o more) : (said \o more)[i].kind = "rendered"
<1>1. /\ Len(said \o more) = Len(said) + Len(more) /\ Len(said) \in Nat /\ Len(more) \in Nat
      /\ \A i \in 1..(Len(said) + Len(more)) :
            (said \o more)[i] = IF i <= Len(said) THEN said[i] ELSE more[i - Len(said)]
    BY ConcatProperties, LenProperties
<1>2. ASSUME NEW i \in 1..Len(said), said[i].kind = "rendered"
      PROVE  \E j \in 1..Len(said \o more) : (said \o more)[j].kind = "rendered"
    <2>1. i \in 1..(Len(said) + Len(more)) /\ i <= Len(said) /\ i \in 1..Len(said \o more)
        BY <1>1
    <2>2. (said \o more)[i] = said[i]
        BY <1>1, <2>1
    <2> QED
        BY <1>2, <2>1, <2>2
<1>3. ASSUME NEW i \in 1..Len(more), more[i].kind = "rendered"
      PROVE  \E j \in 1..Len(said \o more) : (said \o more)[j].kind = "rendered"
    <2>1. /\ Len(said) + i \in 1..(Len(said) + Len(more)) /\ ~(Len(said) + i <= Len(said))
          /\ Len(said) + i \in 1..Len(said \o more) /\ (Len(said) + i) - Len(said) = i
        BY <1>1
    <2>2. (said \o more)[Len(said) + i] = more[i]
        BY <1>1, <2>1
    <2> QED
        BY <1>3, <2>1, <2>2
<1> QED
    BY <1>2, <1>3

(* Nothing changes for the frame that is awaited.                          *)
LEMMA FrameStays ==
    ASSUME WindowTypes, FrameIsSafe, awaiting' => awaiting,
           UNCHANGED <<serves, toWindow, screenOf, queue, scheduled>>,
           toMain' = toMain \/ \E more \in Seq(ToMain) : toMain' = toMain \o more
    PROVE  FrameIsSafe'
<1>1. (\E i \in 1..Len(toMain) : toMain[i].kind = "rendered") =>
        \E i \in 1..Len(toMain') : toMain'[i].kind = "rendered"
    BY AcknowledgementsStay DEF WindowTypes
<1> QED
    BY <1>1 DEF FrameIsSafe, Harmless

(* A session begins, ends or publishes; a frame, or a timer.               *)
LEMMA PublishingKeeps ==
    ASSUME WindowInv,
           (\E c \in Screen : StartSession(c)) \/ EndSession \/ (\E up \in BOOLEAN : Publishes(up))
           \/ Frame \/ RenderTimer
    PROVE  WindowInv'
<1>1. /\ WindowTypes /\ QueueIsTheirs /\ FrameIsSafe /\ Keys
      /\ toWindow \in Seq(ToWindow) /\ UNCHANGED <<toMain, screenOf, canvas, queue, scheduled,
                                        fingers, held, focused, composing, overtaken, swallowed>>
    BY DEF WindowInv, WindowTypes, Keys, StartSession, EndSession, Publishes, Frame, RenderTimer, paper, keyboard
<1>2. downThere' \subseteq downThere
    BY <1>1 DEF StartSession, EndSession, Publishes, Frame, RenderTimer
<1>3. Keys'
    <2>1. \A s \in ScreenSymbol : StaysDown(s, downThere', toMain') => StaysDown(s, downThere, toMain)
        BY <1>1, <1>2, LessDown
    <2> QED
        BY <1>1, <2>1, MainKeepsKeys
<1>4. QueueIsTheirs'
    BY <1>1 DEF QueueIsTheirs, PictureIsTheirs
<1>5. ASSUME NEW what \in {"shown", "over", "frame"}, NEW of \in Screen
      PROVE  /\ Append(toWindow, [kind |-> what, of |-> of]) \in Seq(ToWindow)
             /\ Len(Append(toWindow, [kind |-> what, of |-> of])) = Len(toWindow) + 1
             /\ \A i \in 1..Len(toWindow) : Append(toWindow, [kind |-> what, of |-> of])[i] = toWindow[i]
             /\ Append(toWindow, [kind |-> what, of |-> of])[Len(toWindow) + 1] = [kind |-> what, of |-> of]
             /\ Len(toWindow) \in Nat
    <2>1. [kind |-> what, of |-> of] \in ToWindow
        BY DEF ToWindow
    <2> QED
        BY <1>1, <2>1, AppendProperties, LenProperties
<1>6. /\ serves' \in Screen \cup {NoScreen} /\ connected' \in BOOLEAN /\ awaiting' \in BOOLEAN
      /\ connected' => serves' \in Screen
      /\ ~connected' => downThere' = {}
    <2>1. CASE (\E c \in Screen : StartSession(c)) \/ EndSession
        BY <1>1, <2>1 DEF StartSession, EndSession, WindowTypes
    <2>2. CASE \E up \in BOOLEAN : Publishes(up)
        BY <1>1, <2>2 DEF Publishes, WindowTypes
    <2>3. CASE Frame
        BY <1>1, <2>3 DEF Frame, WindowTypes
    <2>4. CASE RenderTimer
        BY <1>1, <2>4 DEF RenderTimer, WindowTypes
    <2> QED
        BY <2>1, <2>2, <2>3, <2>4
<1>7. toWindow' \in Seq(ToWindow)
    <2>1. ASSUME NEW c \in Screen, StartSession(c) PROVE toWindow' \in Seq(ToWindow)
        <3> DEFINE first == IF serves = NoScreen THEN toWindow ELSE Tell("over", serves)
        <3>1. first \in Seq(ToWindow)
            BY <1>1, <1>5 DEF WindowTypes, Tell
        <3>2. <<[kind |-> "shown", of |-> c]>> \in Seq(ToWindow)
            BY DEF ToWindow
        <3>3. toWindow' = first \o <<[kind |-> "shown", of |-> c]>>
            BY <2>1 DEF StartSession
        <3> HIDE DEF first
        <3> QED
            BY <3>1, <3>2, <3>3, ConcatProperties
    <2>2. CASE EndSession
        BY <1>1, <1>5, <2>2 DEF EndSession, WindowTypes, Tell
    <2>3. CASE \E up \in BOOLEAN : Publishes(up)
        BY <1>1, <1>5, <2>3 DEF Publishes, WindowTypes, Tell
    <2>4. CASE Frame
        BY <1>1, <1>5, <2>4 DEF Frame, WindowTypes, Tell
    <2>5. CASE RenderTimer
        BY <1>1, <2>5 DEF RenderTimer
    <2> QED
        BY <2>1, <2>2, <2>3, <2>4, <2>5
<1>8. FrameIsSafe'
    <2>1. CASE (\E c \in Screen : StartSession(c)) \/ EndSession \/ RenderTimer
        BY <2>1 DEF StartSession, EndSession, RenderTimer, FrameIsSafe
    <2>2. ASSUME NEW up \in BOOLEAN, Publishes(up) PROVE FrameIsSafe'
        <3>1. /\ toWindow' = Append(toWindow, [kind |-> "shown", of |-> serves]) /\ serves' = serves
              /\ serves \in Screen /\ (awaiting' => awaiting)
            BY <1>1, <2>2 DEF Publishes, Tell, WindowTypes
        <3>2. /\ Len(toWindow') = Len(toWindow) + 1 /\ Len(toWindow) \in Nat
              /\ \A i \in 1..Len(toWindow) : toWindow'[i] = toWindow[i]
              /\ toWindow'[Len(toWindow) + 1] = [kind |-> "shown", of |-> serves]
            BY <1>5, <3>1
        <3>3. \A i \in 1..Len(toWindow') : Harmless(toWindow'[i], serves) \/
                    (i \in 1..Len(toWindow) /\ (Harmless(toWindow[i], serves) => Harmless(toWindow'[i], serves)))
            BY <3>1, <3>2 DEF Harmless
        <3>4. ASSUME NEW i \in 1..Len(toWindow), toWindow[i].kind = "frame",
                     \A j \in i..Len(toWindow) : Harmless(toWindow[j], serves)
              PROVE  i \in 1..Len(toWindow') /\ toWindow'[i].kind = "frame"
                     /\ \A j \in i..Len(toWindow') : Harmless(toWindow'[j], serves)
            <4>1. i \in 1..Len(toWindow') /\ toWindow'[i].kind = "frame"
                BY <3>2, <3>4
            <4>2. ASSUME NEW j \in i..Len(toWindow') PROVE Harmless(toWindow'[j], serves)
                <5>1. j \in 1..Len(toWindow') /\ (j \in 1..Len(toWindow) => j \in i..Len(toWindow))
                    BY <3>2
                <5> QED
                    BY <3>3, <3>4, <5>1
            <4> QED
                BY <4>1, <4>2
        <3>5. (\A j \in 1..Len(toWindow) : Harmless(toWindow[j], serves)) =>
                \A j \in 1..Len(toWindow') : Harmless(toWindow'[j], serves)
            BY <3>3
        <3> QED
            BY <1>1, <3>1, <3>4, <3>5 DEF FrameIsSafe
    <2>3. CASE Frame
        <3>1. /\ toWindow' = Append(toWindow, [kind |-> "frame", of |-> serves]) /\ serves' = serves
              /\ serves \in Screen
            BY <1>1, <2>3 DEF Frame, Tell, WindowTypes
        <3>2. /\ Len(toWindow') = Len(toWindow) + 1 /\ Len(toWindow) \in Nat
              /\ toWindow'[Len(toWindow) + 1] = [kind |-> "frame", of |-> serves]
            BY <1>5, <3>1
        <3>3. /\ Len(toWindow) + 1 \in 1..Len(toWindow') /\ toWindow'[Len(toWindow) + 1].kind = "frame"
              /\ \A j \in (Len(toWindow) + 1)..Len(toWindow') : Harmless(toWindow'[j], serves)
            BY <3>1, <3>2 DEF Harmless
        <3> QED
            BY <3>1, <3>3 DEF FrameIsSafe
    <2> QED
        BY <2>1, <2>2, <2>3
<1>9. WindowTypes'
    BY <1>1, <1>2, <1>6, <1>7 DEF WindowTypes
<1> QED
    BY <1>3, <1>4, <1>8, <1>9 DEF WindowInv, Keys

LEMMA MainHearsKeeps ==
    ASSUME WindowInv, MainHears
    PROVE  WindowInv'
<1>1. /\ WindowTypes /\ QueueIsTheirs /\ FrameIsSafe /\ Keys
      /\ UNCHANGED <<serves, connected, toWindow, screenOf, canvas, queue, scheduled,
                     fingers, held, focused, composing, overtaken, swallowed>>
      /\ toMain \in Seq(ToMain) /\ toMain # <<>> /\ toMain' = Tail(toMain)
    BY DEF WindowInv, WindowTypes, Keys, MainHears, paper, keyboard
<1>2. /\ Tail(toMain) \in Seq(ToMain) /\ Len(Tail(toMain)) = Len(toMain) - 1 /\ Head(toMain) \in ToMain
      /\ \A i \in 1..Len(Tail(toMain)) : Tail(toMain)[i] = toMain[i + 1]
      /\ Len(toMain) \in Nat /\ Len(toMain) >= 1 /\ Head(toMain) = toMain[1]
    BY <1>1, HeadTailProperties, LenProperties, EmptySeq
<1>3. /\ downThere' = IF connected THEN DownAfter(downThere, Head(toMain)) ELSE downThere
      /\ awaiting' = (awaiting /\ Head(toMain).kind # "rendered")
    BY DEF MainHears
<1>4. DownAfter(downThere, Head(toMain)) \subseteq ScreenSymbol
    BY <1>1, <1>2 DEF DownAfter, ToMain, Rendered, WindowTypes
<1>5. WindowTypes'
    BY <1>1, <1>2, <1>3, <1>4 DEF WindowTypes
<1>6. Keys'
    <2>1. downThere' \subseteq DownAfter(downThere, Head(toMain))
        BY <1>1, <1>3 DEF WindowTypes
    <2>2. ASSUME NEW s \in ScreenSymbol, StaysDown(s, downThere', toMain')
          PROVE  StaysDown(s, downThere, toMain)
        <3>1. StaysDown(s, DownAfter(downThere, Head(toMain)), Tail(toMain))
            BY <1>1, <2>1, <2>2, LessDown
        <3> QED
            BY <1>1, <3>1, Heard DEF WindowTypes
    <2> QED
        BY <1>1, <2>2, MainKeepsKeys
<1>7. FrameIsSafe'
    <2> SUFFICES ASSUME awaiting', \E i \in 1..Len(toMain) : toMain[i].kind = "rendered"
                 PROVE  \E i \in 1..Len(toMain') : toMain'[i].kind = "rendered"
        BY <1>1, <1>3 DEF FrameIsSafe, Harmless
    <2>1. PICK i \in 1..Len(toMain) : toMain[i].kind = "rendered"
        OBVIOUS
    <2>2. i # 1
        BY <1>2, <1>3, <2>1
    <2>3. i - 1 \in 1..Len(Tail(toMain)) /\ Tail(toMain)[i - 1] = toMain[i]
        BY <1>2, <2>2
    <2> QED
        BY <1>1, <2>1, <2>3
<1>8. QueueIsTheirs'
    BY <1>1 DEF QueueIsTheirs, PictureIsTheirs
<1> QED
    BY <1>5, <1>6, <1>7, <1>8 DEF WindowInv, Keys

(* Acknowledging frames says nothing of keys.                              *)
LEMMA AcknowledgingKeepsKeys ==
    ASSUME WindowTypes, Keys, UNCHANGED <<fingers, held, focused, overtaken, swallowed, downThere>>,
           NEW more \in Seq(ToMain), Says(more), \A i \in 1..Len(more) : more[i] = Rendered
    PROVE  Keys' /\ toMain' \in Seq(ToMain)
<1>1. /\ toMain' \in Seq(ToMain)
      /\ \A s \in PressedSoon' :
            \/ s \in PressedSoon /\ \A j \in 1..Len(more) : ~LetsGo(more[j], s)
            \/ \E i \in 1..Len(more) : Presses(more[i], s)
    BY SaidMore
<1>2. PressedSoon' \subseteq PressedSoon
    BY <1>1 DEF Presses, Rendered
<1>3. KeysAreTracked'
    BY <1>2 DEF Keys, KeysAreTracked, Down
<1> QED
    BY <1>1, <1>3 DEF Keys, NothingHeld, UpIsUp

LEMMA KeysStay ==
    ASSUME WindowTypes, Keys, UNCHANGED <<fingers, held, focused, overtaken, swallowed, downThere, toMain>>
    PROVE  Keys'
BY MainKeepsKeys

LEMMA WindowHearsKeeps ==
    ASSUME WindowInv, WindowHears
    PROVE  WindowInv'
<1>1. /\ WindowTypes /\ QueueIsTheirs /\ FrameIsSafe /\ Keys
      /\ UNCHANGED <<serves, connected, awaiting, downThere>>
      /\ toWindow \in Seq(ToWindow) /\ toWindow # <<>> /\ toWindow' = Tail(toWindow)
      /\ HearsShown \/ HearsOver \/ HearsFrame
    BY DEF WindowInv, WindowTypes, Keys, WindowHears, main
<1>2. /\ Tail(toWindow) \in Seq(ToWindow) /\ Len(Tail(toWindow)) = Len(toWindow) - 1
      /\ \A i \in 1..Len(Tail(toWindow)) : Tail(toWindow)[i] = toWindow[i + 1]
      /\ Len(toWindow) \in Nat /\ Len(toWindow) >= 1 /\ Head(toWindow) = toWindow[1]
      /\ Head(toWindow).kind \in {"shown", "over", "frame"} /\ Head(toWindow).of \in Screen
    <2>1. Head(toWindow) \in ToWindow
        BY <1>1, HeadTailProperties
    <2> QED
        BY <1>1, <2>1, HeadTailProperties, LenProperties, EmptySeq DEF ToWindow
<1>3. (\A j \in 1..Len(toWindow) : Harmless(toWindow[j], serves)) =>
        Harmless(Head(toWindow), serves) /\ \A j \in 1..Len(toWindow') : Harmless(toWindow'[j], serves')
    <2> SUFFICES ASSUME \A j \in 1..Len(toWindow) : Harmless(toWindow[j], serves)
                 PROVE  /\ Harmless(Head(toWindow), serves)
                        /\ \A j \in 1..Len(Tail(toWindow)) : Harmless(Tail(toWindow)[j], serves)
        BY <1>1
    <2>1. Harmless(Head(toWindow), serves)
        BY <1>2
    <2>2. ASSUME NEW j \in 1..Len(Tail(toWindow)) PROVE Harmless(Tail(toWindow)[j], serves)
        <3>1. j + 1 \in 1..Len(toWindow) /\ Tail(toWindow)[j] = toWindow[j + 1]
            BY <1>2
        <3> QED
            BY <3>1
    <2> QED
        BY <2>1, <2>2
<1>4. ASSUME NEW i \in 1..Len(toWindow), toWindow[i].kind = "frame",
             \A j \in i..Len(toWindow) : Harmless(toWindow[j], serves)
      PROVE  \/ /\ Head(toWindow).kind = "frame"
                /\ \A j \in 1..Len(toWindow) : Harmless(toWindow[j], serves)
             \/ \E m \in 1..Len(toWindow') : /\ toWindow'[m].kind = "frame"
                                            /\ \A j \in m..Len(toWindow') : Harmless(toWindow'[j], serves')
    <2>1. CASE i = 1
        BY <1>2, <1>4, <2>1
    <2>2. CASE i # 1
        <3>1. i - 1 \in 1..Len(Tail(toWindow)) /\ Tail(toWindow)[i - 1] = toWindow[i]
            BY <1>2, <2>2
        <3>2. ASSUME NEW j \in (i - 1)..Len(Tail(toWindow)) PROVE Harmless(Tail(toWindow)[j], serves)
            <4>1. j + 1 \in i..Len(toWindow) /\ Tail(toWindow)[j] = toWindow[j + 1]
                BY <1>2, <2>2
            <4> QED
                BY <1>4, <4>1
        <3> QED
            BY <1>1, <1>4, <3>1, <3>2
    <2> QED
        BY <2>1, <2>2
<1>5. CASE HearsShown
    <2>1. /\ Head(toWindow).kind = "shown" /\ screenOf' = Head(toWindow).of /\ UNCHANGED <<scheduled, toMain>>
          /\ IF Head(toWindow).of = screenOf THEN UNCHANGED <<canvas, queue>>
             ELSE canvas' = NoScreen /\ queue' = <<>>
          /\ UNCHANGED <<fingers, held, focused, composing, overtaken, swallowed>>
        BY <1>5 DEF HearsShown, ResetScreen, keyboard
    <2>2. WindowTypes'
        BY <1>1, <1>2, <2>1, EmptySeq DEF WindowTypes
    <2>3. QueueIsTheirs'
        BY <1>1, <1>2, <2>1, ScreenAssumption DEF QueueIsTheirs, PictureIsTheirs, WindowTypes
    <2>4. Keys'
        BY <1>1, <2>1, KeysStay
    <2>5. FrameIsSafe'
        BY <1>1, <1>3, <1>4, <2>1 DEF FrameIsSafe, Harmless
    <2> QED
        BY <2>2, <2>3, <2>4, <2>5 DEF WindowInv, Keys
<1>6. CASE HearsOver
    <2>1. Head(toWindow).kind = "over" /\ UNCHANGED <<canvas, queue, scheduled, fingers, focused, composing>>
        BY <1>6 DEF HearsOver
    <2>2. /\ toMain' \in Seq(ToMain) /\ Keys' /\ held' \in [ScreenKey -> ScreenSymbol \cup {NoSymbol}]
          /\ toMain' = toMain \/ \E more \in Seq(ToMain) : toMain' = toMain \o more
          /\ screenOf' \in {NoScreen, screenOf}
        <3>1. CASE Head(toWindow).of = screenOf
            <4>1. ReleaseHeld /\ screenOf' = NoScreen /\ focused' \in BOOLEAN
                BY <1>1, <1>6, <2>1, <3>1 DEF HearsOver, WindowTypes
            <4> QED
                BY <1>1, <4>1, ReleasesAll
        <3>2. CASE Head(toWindow).of # screenOf
            <4>1. UNCHANGED <<screenOf, toMain, held, swallowed, overtaken>>
                BY <1>6, <3>2 DEF HearsOver
            <4> QED
                BY <1>1, <2>1, <4>1, KeysStay DEF WindowTypes
        <3> QED
            BY <3>1, <3>2
    <2>3. WindowTypes'
        BY <1>1, <1>2, <2>1, <2>2 DEF WindowTypes
    <2>4. QueueIsTheirs'
        BY <1>1, <2>1, <2>2 DEF QueueIsTheirs, PictureIsTheirs
    <2>5. FrameIsSafe'
        <3>1. (\E i \in 1..Len(toMain) : toMain[i].kind = "rendered") =>
                \E i \in 1..Len(toMain') : toMain'[i].kind = "rendered"
            BY <1>1, <2>2, AcknowledgementsStay DEF WindowTypes
        <3>2. ~(\A j \in 1..Len(toWindow) : Harmless(toWindow[j], serves))
            BY <1>3, <2>1 DEF Harmless
        <3>3. awaiting => \/ \E i \in 1..Len(toWindow) :
                                 /\ toWindow[i].kind = "frame"
                                 /\ \A j \in i..Len(toWindow) : Harmless(toWindow[j], serves)
                          \/ \E i \in 1..Len(toMain) : toMain[i].kind = "rendered"
            BY <1>1, <3>2 DEF FrameIsSafe
        <3> QED
            BY <1>1, <1>4, <3>1, <3>2, <3>3 DEF FrameIsSafe
    <2> QED
        BY <2>2, <2>3, <2>4, <2>5 DEF WindowInv, Keys
<1>7. CASE HearsFrame
    <2>1. /\ Head(toWindow).kind = "frame"
          /\ UNCHANGED <<screenOf, canvas, fingers, held, focused, composing, overtaken, swallowed>>
        BY <1>7 DEF HearsFrame, keyboard
    <2>2. CASE Head(toWindow).of = screenOf
        <3>1. queue' = Append(queue, screenOf) /\ scheduled' = TRUE /\ toMain' = toMain
            BY <1>7, <2>2 DEF HearsFrame
        <3>2. /\ screenOf \in Screen /\ queue' \in Seq(Screen) /\ queue' # <<>>
              /\ Len(queue') = Len(queue) + 1 /\ Len(queue) \in Nat
              /\ \A i \in 1..Len(queue) : queue'[i] = queue[i]
              /\ queue'[Len(queue) + 1] = screenOf
            BY <1>1, <1>2, <2>2, <3>1, AppendProperties, LenProperties DEF WindowTypes
        <3>3. WindowTypes'
            BY <1>1, <1>2, <2>1, <3>1, <3>2 DEF WindowTypes
        <3>4. QueueIsTheirs'
            <4>1. ASSUME NEW i \in 1..Len(queue'), screenOf # NoScreen PROVE queue'[i] = screenOf
                BY <1>1, <3>2, <4>1 DEF QueueIsTheirs
            <4> QED
                BY <1>1, <2>1, <4>1 DEF QueueIsTheirs, PictureIsTheirs
        <3>5. Keys'
            BY <1>1, <2>1, <3>1, KeysStay
        <3>6. FrameIsSafe'
            <4>1. (\A j \in 1..Len(toWindow) : Harmless(toWindow[j], serves)) =>
                    screenOf' = serves' /\ \A j \in 1..Len(toWindow') : Harmless(toWindow'[j], serves')
                BY <1>1, <1>3, <2>1, <2>2 DEF Harmless
            <4> QED
                BY <1>1, <1>4, <3>1, <3>2, <4>1 DEF FrameIsSafe
        <3> QED
            BY <3>3, <3>4, <3>5, <3>6 DEF WindowInv, Keys
    <2>3. CASE Head(toWindow).of # screenOf
        <3>1. Says(<<Rendered>>) /\ UNCHANGED <<queue, scheduled>>
            BY <1>7, <2>3 DEF HearsFrame
        <3>2. /\ <<Rendered>> \in Seq(ToMain) /\ Len(<<Rendered>>) = 1
              /\ \A i \in 1..Len(<<Rendered>>) : <<Rendered>>[i] = Rendered
            BY DEF ToMain
        <3>3. Keys' /\ toMain' \in Seq(ToMain)
            BY <1>1, <2>1, <3>1, <3>2, AcknowledgingKeepsKeys
        <3>4. \E i \in 1..Len(toMain') : toMain'[i].kind = "rendered"
            <4>1. toMain' = toMain \o <<Rendered>> /\ toMain \in Seq(ToMain)
                BY <1>1, <3>1 DEF Says, WindowTypes
            <4>2. 1 \in 1..Len(<<Rendered>>) /\ <<Rendered>>[1].kind = "rendered"
                BY DEF Rendered
            <4> QED
                BY <3>2, <4>1, <4>2, AcknowledgementsStay
        <3>5. WindowTypes' /\ QueueIsTheirs' /\ FrameIsSafe'
            BY <1>1, <1>2, <2>1, <3>1, <3>3, <3>4 DEF WindowTypes, QueueIsTheirs, PictureIsTheirs, FrameIsSafe
        <3> QED
            BY <3>3, <3>5 DEF WindowInv, Keys
    <2> QED
        BY <2>2, <2>3
<1> QED
    BY <1>1, <1>5, <1>6, <1>7

LEMMA PaintsKeeps ==
    ASSUME WindowInv, Paints
    PROVE  WindowInv'
<1> DEFINE more == [i \in 1..Len(queue) |-> Rendered]
<1>1. /\ WindowTypes /\ QueueIsTheirs /\ FrameIsSafe /\ Keys
      /\ UNCHANGED <<serves, connected, awaiting, downThere, toWindow, screenOf,
                     fingers, held, focused, composing, overtaken, swallowed>>
      /\ scheduled' = FALSE /\ queue' = <<>> /\ Says(more)
      /\ canvas' = IF queue = <<>> THEN canvas ELSE Last(queue)
    BY DEF WindowInv, Keys, Paints, main, keyboard
<1>2. Len(queue) \in Nat /\ (queue # <<>> => Len(queue) >= 1)
    BY <1>1, LenProperties, EmptySeq DEF WindowTypes
<1>3. more \in Seq(ToMain) /\ Len(more) = Len(queue) /\ \A i \in 1..Len(more) : more[i] = Rendered
    <2>1. Rendered \in ToMain
        BY DEF ToMain
    <2> QED
        BY <1>2, <2>1, IsASeq
<1> HIDE DEF more
<1>4. Keys' /\ toMain' \in Seq(ToMain)
    BY <1>1, <1>3, AcknowledgingKeepsKeys
<1>5. WindowTypes'
    BY <1>1, <1>4, EmptySeq DEF WindowTypes
<1>6. QueueIsTheirs'
    BY <1>1, <1>2 DEF QueueIsTheirs, PictureIsTheirs, Last
<1>7. FrameIsSafe'
    <2>1. toMain' = toMain \o more /\ toMain \in Seq(ToMain)
        BY <1>1 DEF Says, WindowTypes
    <2>2. queue # <<>> => \E i \in 1..Len(toMain') : toMain'[i].kind = "rendered"
        <3>1. queue # <<>> => 1 \in 1..Len(more) /\ more[1].kind = "rendered"
            BY <1>2, <1>3 DEF Rendered
        <3> QED
            BY <1>3, <2>1, <3>1, AcknowledgementsStay
    <2>3. (\E i \in 1..Len(toMain) : toMain[i].kind = "rendered") =>
            \E i \in 1..Len(toMain') : toMain'[i].kind = "rendered"
        BY <1>3, <2>1, AcknowledgementsStay
    <2> QED
        BY <1>1, <2>2, <2>3 DEF FrameIsSafe
<1> QED
    BY <1>4, <1>5, <1>6, <1>7 DEF WindowInv, Keys

(* What the keyboard does is seen in the keys and in what is said only.    *)
LEMMA KeyboardKeeps ==
    ASSUME WindowInv, Keyed, Keys', held' \in [ScreenKey -> ScreenSymbol \cup {NoSymbol}],
           focused' \in BOOLEAN, toMain' \in Seq(ToMain),
           toMain' = toMain \/ \E more \in Seq(ToMain) : toMain' = toMain \o more
    PROVE  WindowInv'
<1>1. /\ WindowTypes /\ QueueIsTheirs /\ FrameIsSafe
      /\ UNCHANGED <<serves, connected, awaiting, downThere, toWindow, screenOf, canvas, queue, scheduled>>
    BY DEF WindowInv, Keyed, main, paper
<1>2. WindowTypes' /\ QueueIsTheirs'
    BY <1>1 DEF WindowTypes, QueueIsTheirs, PictureIsTheirs
<1>3. FrameIsSafe'
    BY <1>1, FrameStays
<1> QED
    BY <1>2, <1>3 DEF WindowInv, Keys

(* Where nothing is said, and what is held stays.                          *)
LEMMA SilentKeeps ==
    ASSUME WindowInv, Keyed, UNCHANGED <<toMain, held, overtaken, focused>>,
           \A k \in ScreenKey : held[k] # NoSymbol /\ k \in fingers \cup swallowed => k \in fingers' \cup swallowed'
    PROVE  WindowInv'
<1>1. WindowTypes /\ Keys
    BY DEF WindowInv, Keys
<1>2. PressedSoon' = PressedSoon
    BY DEF PressedSoon, Keyed, main
<1>3. Keys'
    BY <1>1, <1>2 DEF Keys, NothingHeld, KeysAreTracked, Down, UpIsUp
<1> QED
    BY <1>1, <1>3, KeyboardKeeps DEF WindowTypes

LEMMA OneMessage ==
    ASSUME NEW message \in ToMain
    PROVE  /\ <<message>> \in Seq(ToMain) /\ Len(<<message>>) = 1 /\ <<message>>[1] = message
           /\ \A i \in 1..Len(<<message>>) : i = 1
OBVIOUS

LEMMA SymbolsAreSome == \A s \in ScreenSymbol : s # NoSymbol
BY SMTT(30) DEF ScreenSymbol, NoSymbol

LEMMA KeyDownKeeps ==
    ASSUME WindowInv, NEW k \in ScreenKey, KeyDown(k)
    PROVE  WindowInv'
<1>1. WindowTypes /\ Keys /\ focused /\ fingers' = fingers \cup {k} /\ Keyed /\ focused' = focused
    BY DEF WindowInv, Keys, KeyDown
<1>2. CASE composing
    <2>1. UNCHANGED <<toMain, held, overtaken, swallowed>>
        BY <1>2 DEF KeyDown
    <2> QED
        BY <1>1, <2>1, SilentKeeps
<1>3. CASE ~composing
    <2> DEFINE now == <<k, k # "Shift" /\ "Shift" \in fingers'>>
               more == <<TypeKey(now, TRUE)>>
    <2>1. /\ held' = [held EXCEPT ![k] = now] /\ Says(more) /\ swallowed' = swallowed \ {k}
          /\ overtaken' = (IF held[k] \in {NoSymbol, now} THEN overtaken ELSE overtaken \cup {held[k]}) \ {now}
        BY <1>3 DEF KeyDown
    <2>2. now \in ScreenSymbol
        BY DEF ScreenSymbol
    <2>3. /\ more \in Seq(ToMain) /\ Len(more) = 1 /\ more[1] = TypeKey(now, TRUE)
          /\ \A i \in 1..Len(more) : i = 1
        <3> HIDE DEF now
        <3>1. TypeKey(now, TRUE) \in ToMain
            BY <2>2 DEF TypeKey, ToMain
        <3> QED
            BY <3>1, OneMessage
    <2> HIDE DEF now, more
    <2>4. /\ toMain' \in Seq(ToMain)
          /\ \A s \in PressedSoon' :
                \/ s \in PressedSoon /\ \A j \in 1..Len(more) : ~LetsGo(more[j], s)
                \/ \E i \in 1..Len(more) : Presses(more[i], s)
        BY <1>1, <2>1, <2>3, SaidMore DEF Keyed, main
    <2>5. \A s \in PressedSoon' : s \in PressedSoon \/ s = now
        BY <2>3, <2>4 DEF Presses, TypeKey
    <2>6. /\ held' \in [ScreenKey -> ScreenSymbol \cup {NoSymbol}] /\ held'[k] = now /\ now # NoSymbol
          /\ \A i \in ScreenKey : i # k => held'[i] = held[i]
        BY <1>1, <2>1, <2>2, SymbolsAreSome DEF WindowTypes
    <2>7. \A s \in Down : s = held[k] \/ s \in Down'
        BY <2>6 DEF Down
    <2>8. now \in Down'
        BY <2>6 DEF Down
    <2>9. KeysAreTracked'
        <3> SUFFICES ASSUME NEW s \in PressedSoon' PROVE s \in overtaken' \cup Down'
            BY <1>1 DEF KeysAreTracked
        <3>1. CASE s = now
            BY <2>8, <3>1
        <3>2. CASE s # now /\ s \in PressedSoon
            <4>1. s \in overtaken \/ s \in Down
                BY <1>1, <3>2 DEF Keys, KeysAreTracked
            <4>2. s \in Down => s # NoSymbol
                BY DEF Down
            <4> QED
                BY <2>1, <2>7, <3>2, <4>1, <4>2
        <3> QED
            BY <2>5, <3>1, <3>2
    <2>10. UpIsUp' /\ NothingHeld'
        BY <1>1, <2>1, <2>6 DEF Keys, UpIsUp, NothingHeld
    <2> QED
        BY <1>1, <2>1, <2>3, <2>4, <2>6, <2>9, <2>10, KeyboardKeeps DEF Keys, WindowTypes, Says
<1> QED
    BY <1>2, <1>3

LEMMA KeyUpKeeps ==
    ASSUME WindowInv, NEW k \in ScreenKey, KeyUp(k)
    PROVE  WindowInv'
<1>1. /\ WindowTypes /\ Keys /\ focused /\ fingers' = fingers \ {k} /\ Keyed /\ focused' = focused
      /\ swallowed' = IF composing /\ held[k] # NoSymbol THEN swallowed \cup {k} ELSE swallowed \ {k}
    BY DEF WindowInv, Keys, KeyUp
<1>2. CASE ~(~composing /\ held[k] # NoSymbol)
    <2>1. UNCHANGED <<toMain, held, overtaken>>
        BY <1>2 DEF KeyUp, Tracked
    <2> QED
        BY <1>1, <1>2, <2>1, SilentKeeps
<1>3. CASE ~composing /\ held[k] # NoSymbol
    <2> DEFINE more == <<TypeKey(held[k], FALSE)>>
    <2>1. held' = [held EXCEPT ![k] = NoSymbol] /\ Says(more) /\ overtaken' = overtaken \ {held[k]}
        BY <1>3 DEF KeyUp, Tracked, Sent
    <2>2. held[k] \in ScreenSymbol
        BY <1>1, <1>3 DEF WindowTypes
    <2>3. more \in Seq(ToMain) /\ Len(more) = 1 /\ more[1] = TypeKey(held[k], FALSE)
        <3>1. TypeKey(held[k], FALSE) \in ToMain
            BY <2>2 DEF TypeKey, ToMain
        <3> QED
            BY <3>1, OneMessage
    <2> HIDE DEF more
    <2>4. /\ toMain' \in Seq(ToMain)
          /\ \A s \in PressedSoon' :
                \/ s \in PressedSoon /\ \A j \in 1..Len(more) : ~LetsGo(more[j], s)
                \/ \E i \in 1..Len(more) : Presses(more[i], s)
        BY <1>1, <2>1, <2>3, SaidMore DEF Keyed, main
    <2>5. \A s \in PressedSoon' : s \in PressedSoon /\ s # held[k]
        BY <2>3, <2>4 DEF Presses, LetsGo, TypeKey
    <2>6. /\ held' \in [ScreenKey -> ScreenSymbol \cup {NoSymbol}] /\ held'[k] = NoSymbol
          /\ \A i \in ScreenKey : i # k => held'[i] = held[i]
        BY <1>1, <2>1 DEF WindowTypes
    <2>7. \A s \in Down : s = held[k] \/ s \in Down'
        BY <2>6 DEF Down
    <2>8. KeysAreTracked'
        BY <1>1, <2>1, <2>5, <2>7 DEF Keys, KeysAreTracked
    <2>9. UpIsUp' /\ NothingHeld'
        BY <1>1, <2>6 DEF Keys, UpIsUp, NothingHeld
    <2> QED
        BY <1>1, <2>1, <2>3, <2>4, <2>6, <2>8, <2>9, KeyboardKeeps DEF Keys, WindowTypes, Says
<1> QED
    BY <1>2, <1>3

(* A text, or a button's keys: each is pressed and let go.                 *)
LEMMA TappingKeeps ==
    ASSUME WindowInv, Keyed, NEW text \in Typed, Says(text), held' = held, swallowed' = swallowed,
           focused' \in BOOLEAN, focused => focused' /\ fingers' = fingers,
           overtaken' = overtaken \ {m.symbol : m \in {text[i] : i \in DOMAIN text}}
    PROVE  WindowInv'
<1>1. WindowTypes /\ Keys
    BY DEF WindowInv, Keys
<1>2. CASE text = <<>>
    <2>1. text \in Seq(ToMain) /\ Len(text) = 0 /\ overtaken' = overtaken
        BY <1>2, EmptySeq
    <2>2. downThere' = downThere
        BY DEF Keyed, main
    <2>3. /\ toMain' \in Seq(ToMain)
          /\ \A s \in PressedSoon' :
                \/ s \in PressedSoon /\ \A j \in 1..Len(text) : ~LetsGo(text[j], s)
                \/ \E i \in 1..Len(text) : Presses(text[i], s)
        BY <1>1, <2>1, <2>2, SaidMore
    <2>4. PressedSoon' \subseteq PressedSoon
        BY <2>1, <2>3
    <2>5. Keys'
        BY <1>1, <2>1, <2>4 DEF Keys, NothingHeld, KeysAreTracked, Down, UpIsUp
    <2> QED
        BY <1>1, <2>1, <2>3, <2>5, KeyboardKeeps DEF WindowTypes, Says
<1>3. CASE text # <<>>
    <2>1. PICK k \in ScreenKey : text = <<[kind |-> "tap", symbol |-> <<k, FALSE>>]>>
        BY <1>3 DEF Typed
    <2>2. <<k, FALSE>> \in ScreenSymbol
        BY DEF ScreenSymbol
    <2>3. [kind |-> "tap", symbol |-> <<k, FALSE>>] \in ToMain
        BY <2>2 DEF ToMain
    <2>4. text \in Seq(ToMain) /\ Len(text) = 1 /\ text[1] = [kind |-> "tap", symbol |-> <<k, FALSE>>]
          /\ overtaken' = overtaken \ {<<k, FALSE>>}
        <3> DEFINE tap == [kind |-> "tap", symbol |-> <<k, FALSE>>]
        <3>1. tap.symbol = <<k, FALSE>>
            OBVIOUS
        <3> HIDE DEF tap
        <3>2. text \in Seq(ToMain) /\ Len(text) = 1 /\ text[1] = tap
            BY <2>1, <2>3, OneMessage DEF tap
        <3>3. DOMAIN text = {1}
            BY <2>1
        <3>4. overtaken' = overtaken \ {tap.symbol}
            BY <3>2, <3>3
        <3> QED
            BY <3>1, <3>2, <3>4 DEF tap
    <2>5. /\ toMain' \in Seq(ToMain)
          /\ \A s \in PressedSoon' :
                \/ s \in PressedSoon /\ \A j \in 1..Len(text) : ~LetsGo(text[j], s)
                \/ \E i \in 1..Len(text) : Presses(text[i], s)
        BY <1>1, <2>4, SaidMore DEF Keyed, main
    <2>6. \A s \in PressedSoon' : s \in PressedSoon /\ s # <<k, FALSE>>
        <3>1. \A s : ~Presses(text[1], s) /\ (LetsGo(text[1], s) <=> s = <<k, FALSE>>)
            BY <2>4 DEF Presses, LetsGo
        <3>2. 1 \in 1..Len(text) /\ \A i \in 1..Len(text) : i = 1
            BY <2>4
        <3> QED
            BY <2>5, <3>1, <3>2
    <2>7. Keys'
        BY <1>1, <2>4, <2>6 DEF Keys, NothingHeld, KeysAreTracked, Down, UpIsUp
    <2> QED
        BY <1>1, <2>4, <2>5, <2>7, KeyboardKeeps DEF WindowTypes, Says
<1> QED
    BY <1>2, <1>3

LEMMA WindowKeeps ==
    ASSUME WindowInv, VncScreenNext
    PROVE  WindowInv'
<1>1. WindowTypes /\ Keys
    BY DEF WindowInv, Keys
<1>2. CASE EndSession \/ Frame \/ RenderTimer \/ MainHears \/ WindowHears \/ Paints
    BY <1>2, PublishingKeeps, MainHearsKeeps, WindowHearsKeeps, PaintsKeeps
<1>3. CASE (\E c \in Screen : StartSession(c)) \/ \E up \in BOOLEAN : Publishes(up)
    BY <1>3, PublishingKeeps
<1>4. CASE ComposeBegins
    BY <1>4, SilentKeeps DEF ComposeBegins
<1>5. CASE Blur
    <2>1. ReleaseHeld /\ focused' \in BOOLEAN /\ Keyed
        BY <1>5 DEF Blur
    <2> QED
        BY <1>1, <2>1, ReleasesAll, KeyboardKeeps DEF Keyed, main
<1>6. ASSUME NEW k \in ScreenKey, KeyDown(k) \/ KeyUp(k) PROVE WindowInv'
    BY <1>6, KeyDownKeeps, KeyUpKeeps
<1>7. ASSUME NEW k \in Letter, Shortcut(k) PROVE WindowInv'
    BY <1>7, SilentKeeps DEF Shortcut
<1>8. ASSUME NEW text \in Typed, ComposeEnds(text) \/ Focus(text) PROVE WindowInv'
    BY <1>1, <1>8, TappingKeeps DEF ComposeEnds, Focus, WindowTypes
<1> QED
    BY <1>2, <1>3, <1>4, <1>5, <1>6, <1>7, <1>8 DEF VncScreenNext

LEMMA WindowStays ==
    ASSUME WindowInv, UNCHANGED vncScreenVars
    PROVE  WindowInv'
BY DEF vncScreenVars, main, paper, keyboard, WindowInv, WindowTypes, QueueIsTheirs, PictureIsTheirs, FrameIsSafe,
       Harmless, NothingHeld, KeysAreTracked, UpIsUp, PressedSoon, StaysDown, Down
-----------------------------------------------------------------------------
(* The loop of a VNC session, and its retries.                             *)

Requests == [incremental : BOOLEAN, area : SUBSET Areas]
Answers == [pixels : SUBSET Areas, good : SUBSET Areas, size : BOOLEAN, layout : BOOLEAN]

SessionTypes ==
    /\ VncTypeOK
    /\ asked \in Seq(Requests) /\ lastRequest \in Requests /\ answers \in Seq(Answers)

(* Whatever waits to run, there is one thing for the session to do next.   *)
RetriesAreOne ==
    /\ timer \in 0..1 /\ (timer = 1 => client = "none" /\ ~stopping)
    /\ attempt <= 1 \/ attempt <= IF everConnected THEN MaxAttempts ELSE InitialAttempts
    /\ timer = 1 => attempt = 0 \/ attempt < IF everConnected THEN MaxAttempts ELSE InitialAttempts
    /\ stopping => client = "none" /\ continuation # "resolved"
    /\ client = "handshake" => Quiet
    /\ continuation = "rejected" => client = "none"
    /\ status = "idle" => Quiet /\ attempt = 0
    /\ continuation # "resolved" =>
        /\ status \in {"connecting", "reconnecting"} => timer = 1 \/ client = "handshake"
        /\ status \in {"idle", "disconnected", "failed"} => timer = 0 /\ client = "none"

(* A session that is up has at most one thing going on for each repaint it *)
(* was asked for, and one more: a request, an answer or the timer of a     *)
(* picture that is painted.  One that is not has a few timers at most.     *)
Running == client = "ready" /\ Quiet
PaceIsKept ==
    /\ repaints \in 0..MaxRepaints
    /\ IsFiniteSet(renderTimers) /\ renderTimers \subseteq 1..(MaxRepaints + 2)
    /\ awaitingRender => Running /\ renderTimer \in renderTimers
    /\ IF Running
       THEN /\ InFlight + Cardinality(renderTimers) <= 1 + repaints
            /\ InFlight > 0 \/ awaitingRender
       ELSE InFlight = 0 /\ Cardinality(renderTimers) <= repaints

VncInv == SessionTypes /\ RetriesAreOne /\ PaceIsKept /\ NothingIsForgotten

LEMMA NoTimer == 0 \in 0..(MaxRepaints + 2)
<1>1. MaxRepaints \in Nat
    BY VncAssumption
<1> QED
    BY <1>1

LEMMA SessionBegins == VncInit => VncInv
<1> SUFFICES ASSUME VncInit PROVE VncInv
    OBVIOUS
<1>1. SessionTypes
    <2>1. VncTypeOK
        BY NoTimer DEF VncInit, VncTypeOK
    <2>2. asked \in Seq(Requests) /\ answers \in Seq(Answers)
        BY EmptySeq DEF VncInit
    <2>3. lastRequest \in Requests
        BY DEF VncInit, None, Requests
    <2> QED
        BY <2>1, <2>2, <2>3 DEF SessionTypes
<1>2. RetriesAreOne
    BY VncAssumption DEF VncInit, RetriesAreOne, Quiet
<1>3. PaceIsKept
    BY VncAssumption, FS_EmptySet DEF VncInit, PaceIsKept, Running, InFlight
<1>4. NothingIsForgotten
    BY DEF VncInit, NothingIsForgotten
<1> QED
    BY <1>1, <1>2, <1>3, <1>4 DEF VncInv

LEMMA SessionHolds == VncInv => VncHolds
<1> SUFFICES ASSUME VncInv PROVE VncHolds
    OBVIOUS
<1>1. Len(asked) \in Nat /\ Len(answers) \in Nat
    BY LenProperties DEF VncInv, SessionTypes
<1>2. Cardinality(renderTimers) \in Nat /\ repaints \in Nat
    BY FS_CardinalityType, VncAssumption DEF VncInv, PaceIsKept
<1>3. LoopIsAlive
    BY DEF VncInv, PaceIsKept, Running, LoopIsAlive
<1>4. RequestsAreBounded
    BY <1>1, <1>2 DEF VncInv, PaceIsKept, RequestsAreBounded, InFlight
<1>5. RetriesAreSingle
    BY DEF VncInv, RetriesAreOne, RetriesAreSingle, Quiet
<1> QED
    BY <1>3, <1>4, <1>5 DEF VncInv, SessionTypes, VncHolds

(* A new timer is none of those that run, as long as they are not too many.*)
LEMMA TimerIsNew ==
    ASSUME PaceIsKept, Cardinality(renderTimers) <= repaints
    PROVE  /\ NewTimer \in 1..(MaxRepaints + 2) /\ NewTimer \notin renderTimers
           /\ IsFiniteSet(renderTimers \cup {NewTimer})
           /\ Cardinality(renderTimers \cup {NewTimer}) = Cardinality(renderTimers) + 1
<1>1. Cardinality(renderTimers) \in Nat /\ MaxRepaints \in Nat /\ repaints \in 0..MaxRepaints
    BY FS_CardinalityType, VncAssumption DEF PaceIsKept
<1>2. \E i \in 1..(MaxRepaints + 2) : i \notin renderTimers
    <2> SUFFICES ASSUME 1..(MaxRepaints + 2) \subseteq renderTimers PROVE FALSE
        OBVIOUS
    <2>1. Cardinality(1..(MaxRepaints + 2)) = MaxRepaints + 2
        BY <1>1, FS_Interval
    <2>2. Cardinality(1..(MaxRepaints + 2)) <= Cardinality(renderTimers)
        BY FS_Subset DEF PaceIsKept
    <2> QED
        BY <1>1, <2>1, <2>2
<1>3. NewTimer \in 1..(MaxRepaints + 2) /\ NewTimer \notin renderTimers
    BY <1>2 DEF NewTimer
<1> QED
    BY <1>3, FS_AddElement DEF PaceIsKept

(* Fewer timers run, or one less.                                          *)
LEMMA FewerTimers ==
    ASSUME PaceIsKept, NEW rest \in SUBSET renderTimers
    PROVE  /\ IsFiniteSet(rest) /\ Cardinality(rest) \in Nat
           /\ Cardinality(rest) <= Cardinality(renderTimers) /\ Cardinality(renderTimers) \in Nat
           /\ rest # renderTimers => Cardinality(rest) < Cardinality(renderTimers)
<1>1. IsFiniteSet(rest) /\ IsFiniteSet(renderTimers)
    BY FS_Subset DEF PaceIsKept
<1>2. Cardinality(rest) \in Nat /\ Cardinality(renderTimers) \in Nat
    BY <1>1, FS_CardinalityType
<1> QED
    BY <1>1, <1>2, FS_Subset

(* Asking: one more request, which is the last.                            *)
LEMMA Asking ==
    ASSUME asked \in Seq(Requests), NEW r \in Requests, AsksFor(r)
    PROVE  /\ asked' \in Seq(Requests) /\ Len(asked') = Len(asked) + 1 /\ lastRequest' = r
           /\ \A i \in 1..Len(asked) : i \in 1..Len(asked') /\ asked'[i] = asked[i]
           /\ Len(asked) + 1 \in 1..Len(asked') /\ asked'[Len(asked) + 1] = r
           /\ Len(asked) \in Nat
<1>1. asked' = Append(asked, r) /\ lastRequest' = r
    BY DEF AsksFor
<1>2. Len(asked) \in Nat
    BY LenProperties
<1> QED
    BY <1>1, <1>2, AppendProperties

LEMMA AskingNext ==
    ASSUME SessionTypes, NEW full \in BOOLEAN, RequestNext(full), client = "ready", ~stopping
    PROVE  /\ needFullUpdate' = FALSE /\ probeDue' \in {"no", "due", "late"}
           /\ asked' \in Seq(Requests) /\ Len(asked') = Len(asked) + 1 /\ lastRequest' \in Requests
           /\ Len(asked) \in Nat
           /\ \A i \in 1..Len(asked) : i \in 1..Len(asked') /\ asked'[i] = asked[i]
           /\ full => \E i \in 1..Len(asked') : ~asked'[i].incremental /\ asked'[i].area = Areas
<1> DEFINE r == IF full THEN Request(FALSE, Areas)
                ELSE IF probeDue # "no" THEN Request(FALSE, {"corner"}) ELSE Request(TRUE, Areas)
<1>1. needFullUpdate' = FALSE /\ probeDue' = (IF full THEN probeDue ELSE "no") /\ AsksFor(r)
    BY DEF RequestNext
<1>2. r \in Requests /\ (full => ~r.incremental /\ r.area = Areas)
    BY DEF Request, Requests, Areas
<1>3. asked \in Seq(Requests) /\ probeDue \in {"no", "due", "late"}
    BY DEF SessionTypes, VncTypeOK
<1> HIDE DEF r
<1> QED
    BY <1>1, <1>2, <1>3, Asking

(* What is fresh stays covered where nothing that covers it goes.          *)
LEMMA CoverStays ==
    ASSUME NothingIsForgotten, Running, fresh' = fresh, damage \subseteq damage', answers' = answers,
           \A i \in 1..Len(asked) : i \in 1..Len(asked') /\ asked'[i] = asked[i],
           \/ needFullUpdate => needFullUpdate'
           \/ \E i \in 1..Len(asked') : ~asked'[i].incremental /\ asked'[i].area = Areas
    PROVE  NothingIsForgotten'
<1> SUFFICES ASSUME NEW a \in Areas \ fresh
             PROVE  \/ a \in damage' \/ needFullUpdate'
                    \/ \E i \in 1..Len(asked') : ~asked'[i].incremental /\ a \in asked'[i].area
                    \/ \E i \in 1..Len(answers) : a \in answers[i].good \/ answers[i].size
    BY DEF NothingIsForgotten
<1>1. \/ a \in damage \/ needFullUpdate
      \/ \E i \in 1..Len(asked) : ~asked[i].incremental /\ a \in asked[i].area
      \/ \E i \in 1..Len(answers) : a \in answers[i].good \/ answers[i].size
    BY DEF NothingIsForgotten, Running
<1>2. (\E i \in 1..Len(asked) : ~asked[i].incremental /\ a \in asked[i].area) =>
        \E i \in 1..Len(asked') : ~asked'[i].incremental /\ a \in asked'[i].area
    OBVIOUS
<1> QED
    BY <1>1, <1>2

(* An attempt begins, at the start or when the timer of a retry fires.     *)
LEMMA AttemptKeeps ==
    ASSUME VncInv, Start \/ Retry
    PROVE  VncInv'
<1>1. /\ SessionTypes /\ RetriesAreOne /\ PaceIsKept /\ VncTypeOK
      /\ attempt' = attempt + 1 /\ status' \in {"connecting", "reconnecting"} /\ client' = "handshake"
      /\ UNCHANGED <<everConnected, enabled, stopping, continuation, flowControl>>
      /\ UNCHANGED <<needFullUpdate, awaitingRender, renderTimer, renderTimers>>
      /\ UNCHANGED <<lastRequest, asked, probeDue, answers, damage, resizing, fresh, changes, repaints>>
    BY DEF VncInv, SessionTypes, Start, Retry, Attempt, loop, paint, link, asking, server, bounds
<1>2. /\ client = "none" /\ ~stopping /\ Quiet /\ timer' = 0
      /\ attempt = 0 \/ attempt < IF everConnected THEN MaxAttempts ELSE InitialAttempts
    <2>1. CASE Start
        BY <1>1, <2>1 DEF Start, RetriesAreOne, Quiet
    <2>2. CASE Retry
        <3>1. timer = 1
            BY <1>1, <2>2 DEF Retry, RetriesAreOne
        <3> QED
            BY <1>1, <2>2, <3>1 DEF Retry, RetriesAreOne
    <2> QED
        BY <2>1, <2>2
<1>3. SessionTypes'
    BY <1>1, <1>2 DEF SessionTypes, VncTypeOK
<1>4. RetriesAreOne'
    BY <1>1, <1>2, VncAssumption DEF RetriesAreOne, VncTypeOK, Quiet
<1>5. PaceIsKept'
    BY <1>1, <1>2 DEF PaceIsKept, Running, InFlight
<1>6. NothingIsForgotten'
    BY <1>1 DEF NothingIsForgotten
<1> QED
    BY <1>3, <1>4, <1>5, <1>6 DEF VncInv

LEMMA LoopStops ==
    ASSUME SessionTypes, PaceIsKept, StopLoop, NoLink, client' = "none", repaints' = repaints
    PROVE  /\ PaceIsKept' /\ NothingIsForgotten'
           /\ asked' \in Seq(Requests) /\ answers' \in Seq(Answers) /\ lastRequest' \in Requests
<1>1. Cardinality(renderTimers \ {renderTimer}) <= repaints
    <2>1. /\ Len(asked) \in Nat /\ Len(answers) \in Nat /\ repaints \in Nat
        BY LenProperties, VncAssumption DEF SessionTypes, PaceIsKept
    <2>2. /\ Cardinality(renderTimers \ {renderTimer}) \in Nat /\ Cardinality(renderTimers) \in Nat
          /\ Cardinality(renderTimers \ {renderTimer}) <= Cardinality(renderTimers)
          /\ renderTimer \in renderTimers =>
                Cardinality(renderTimers \ {renderTimer}) < Cardinality(renderTimers)
        BY FewerTimers
    <2> QED
        BY <2>1, <2>2 DEF PaceIsKept, InFlight
<1>2. renderTimers' = renderTimers \ {renderTimer} /\ IsFiniteSet(renderTimers')
    BY FewerTimers DEF StopLoop
<1>3. asked' = <<>> /\ answers' = <<>> /\ awaitingRender' = FALSE /\ lastRequest' = None
    BY DEF NoLink, StopLoop
<1>4. PaceIsKept'
    <2>1. InFlight' = 0 /\ ~Running'
        BY <1>3 DEF InFlight, Running
    <2>2. renderTimers' \subseteq 1..(MaxRepaints + 2) /\ repaints' \in 0..MaxRepaints
        BY <1>2 DEF PaceIsKept
    <2> QED
        BY <1>1, <1>2, <1>3, <2>1, <2>2 DEF PaceIsKept
<1> QED
    BY <1>3, <1>4, EmptySeq DEF NothingIsForgotten, None, Requests

LEMMA DroppedKeeps ==
    ASSUME VncInv, NEW terminal \in BOOLEAN, Dropped(terminal), client # "none", Quiet,
           continuation' \in {"none", "resolved", "rejected"}
    PROVE  VncInv'
<1>1. /\ SessionTypes /\ RetriesAreOne /\ PaceIsKept /\ VncTypeOK
      /\ StopLoop /\ NoLink /\ client' = "none"
      /\ UNCHANGED <<attempt, everConnected, enabled, stopping, flowControl, changes, repaints>>
    BY DEF VncInv, SessionTypes, Dropped, bounds
<1>2. /\ ~stopping /\ timer = 0
      /\ \/ status' = "failed" /\ timer' = 0
         \/ /\ status' = "reconnecting" /\ timer' = 1
            /\ ~(attempt >= IF everConnected THEN MaxAttempts ELSE InitialAttempts)
    <2>1. ~stopping /\ timer = 0
        BY <1>1 DEF RetriesAreOne
    <2>2. IF terminal \/ ~enabled \/ attempt >= Limit THEN status' = "failed" /\ UNCHANGED timer
          ELSE status' = "reconnecting" /\ timer' = timer + 1
        BY <2>1 DEF Dropped
    <2> QED
        BY <2>1, <2>2 DEF Limit
<1>3. /\ PaceIsKept' /\ NothingIsForgotten'
      /\ asked' \in Seq(Requests) /\ answers' \in Seq(Answers) /\ lastRequest' \in Requests
    BY <1>1, LoopStops
<1>4. VncTypeOK'
    <2>1. /\ needFullUpdate' = needFullUpdate /\ renderTimer' = 0 /\ awaitingRender' = FALSE
          /\ damage' = {} /\ resizing' = FALSE /\ fresh' = {} /\ probeDue' = probeDue
        BY <1>1 DEF StopLoop, NoLink
    <2>2. status' \in {"failed", "reconnecting"} /\ timer' \in Nat
        BY <1>2
    <2>3. client' \in {"none", "handshake", "ready"} /\ attempt' \in Nat /\ renderTimer' \in 0..(MaxRepaints + 2)
        BY <1>1, <2>1, NoTimer DEF VncTypeOK
    <2> QED
        BY <1>1, <2>1, <2>2, <2>3 DEF VncTypeOK
<1>5. RetriesAreOne'
    BY <1>1, <1>2, VncAssumption DEF RetriesAreOne, VncTypeOK, Quiet
<1> QED
    BY <1>3, <1>4, <1>5 DEF VncInv, SessionTypes

LEMMA ConnectedKeeps ==
    ASSUME VncInv, Connected
    PROVE  VncInv'
<1>1. /\ SessionTypes /\ RetriesAreOne /\ PaceIsKept /\ VncTypeOK
      /\ client = "handshake" /\ Quiet /\ client' = "ready" /\ continuation' = "resolved" /\ fresh' = {}
      /\ UNCHANGED <<status, attempt, everConnected, stopping, timer, enabled, flowControl,
                     needFullUpdate, awaitingRender, renderTimer, renderTimers,
                     lastRequest, asked, probeDue, answers, damage, resizing, changes, repaints>>
    BY DEF VncInv, SessionTypes, Connected, loop, paint, asking, bounds
<1>2. SessionTypes'
    BY <1>1 DEF SessionTypes, VncTypeOK
<1>3. RetriesAreOne'
    BY <1>1 DEF RetriesAreOne, Quiet
<1>4. PaceIsKept' /\ NothingIsForgotten'
    BY <1>1 DEF PaceIsKept, Running, Quiet, InFlight, NothingIsForgotten
<1> QED
    BY <1>2, <1>3, <1>4 DEF VncInv

LEMMA ResolvedKeeps ==
    ASSUME VncInv, Resolved
    PROVE  VncInv'
<1>1. /\ SessionTypes /\ RetriesAreOne /\ PaceIsKept /\ VncTypeOK
      /\ continuation = "resolved" /\ continuation' = "none"
      /\ attempt' = 0 /\ everConnected' = TRUE /\ status' = "connected" /\ awaitingRender' = FALSE
      /\ RequestNext(TRUE)
      /\ UNCHANGED <<stopping, timer, client, enabled, flowControl, renderTimer, renderTimers,
                     answers, damage, resizing, fresh, changes, repaints>>
    BY DEF VncInv, SessionTypes, Resolved, server, bounds
<1>2. ~stopping /\ ~Running /\ client # "handshake"
    BY <1>1 DEF RetriesAreOne, Running, Quiet
<1>3. RetriesAreOne'
    BY <1>1, <1>2, VncAssumption DEF RetriesAreOne, Quiet
<1>4. CASE client = "ready"
    <2>1. /\ needFullUpdate' = FALSE /\ probeDue' \in {"no", "due", "late"}
          /\ asked' \in Seq(Requests) /\ Len(asked') = Len(asked) + 1 /\ lastRequest' \in Requests
          /\ Len(asked) \in Nat
          /\ \E i \in 1..Len(asked') : ~asked'[i].incremental /\ asked'[i].area = Areas
        BY <1>1, <1>2, <1>4, AskingNext
    <2>2. SessionTypes'
        BY <1>1, <2>1, VncAssumption DEF SessionTypes, VncTypeOK
    <2>3. Len(answers) \in Nat /\ Cardinality(renderTimers) \in Nat /\ repaints \in Nat
        BY <1>1, LenProperties, FS_CardinalityType, VncAssumption DEF SessionTypes, PaceIsKept
    <2>4. PaceIsKept'
        BY <1>1, <1>2, <1>4, <2>1, <2>3 DEF PaceIsKept, Running, Quiet, InFlight
    <2>5. NothingIsForgotten'
        BY <2>1 DEF NothingIsForgotten
    <2> QED
        BY <1>3, <2>2, <2>4, <2>5 DEF VncInv
<1>5. CASE client # "ready"
    <2>1. needFullUpdate' = TRUE /\ UNCHANGED <<lastRequest, asked, probeDue>>
        BY <1>1, <1>5 DEF RequestNext, asking
    <2>2. SessionTypes'
        BY <1>1, <2>1, VncAssumption DEF SessionTypes, VncTypeOK
    <2>3. PaceIsKept' /\ NothingIsForgotten'
        BY <1>1, <1>2, <1>5, <2>1 DEF PaceIsKept, Running, InFlight, NothingIsForgotten
    <2> QED
        BY <1>3, <2>2, <2>3 DEF VncInv
<1> QED
    BY <1>4, <1>5

LEMMA StopKeeps ==
    ASSUME VncInv, Stop
    PROVE  VncInv'
<1>1. /\ SessionTypes /\ RetriesAreOne /\ PaceIsKept /\ VncTypeOK
      /\ Quiet /\ ~stopping /\ stopping' = TRUE /\ StopLoop /\ NoLink /\ client' = "none"
      /\ continuation' = (IF client = "handshake" THEN "rejected" ELSE "none")
      /\ status' = (IF status \in {"idle", "failed"} THEN status ELSE "disconnected")
      /\ UNCHANGED <<attempt, everConnected, enabled, flowControl, changes, repaints>>
    BY DEF VncInv, SessionTypes, Stop, bounds
<1>2. timer' = 0
    BY <1>1 DEF RetriesAreOne, Stop
<1>3. /\ PaceIsKept' /\ NothingIsForgotten'
      /\ asked' \in Seq(Requests) /\ answers' \in Seq(Answers) /\ lastRequest' \in Requests
    BY <1>1, LoopStops
<1>4. VncTypeOK'
    <2>1. /\ needFullUpdate' = needFullUpdate /\ renderTimer' = 0 /\ awaitingRender' = FALSE
          /\ damage' = {} /\ resizing' = FALSE /\ fresh' = {} /\ probeDue' = probeDue
        BY <1>1 DEF StopLoop, NoLink
    <2> QED
        BY <1>1, <1>2, <2>1, NoTimer DEF VncTypeOK
<1>5. RetriesAreOne'
    BY <1>1, <1>2 DEF RetriesAreOne, Quiet, VncTypeOK
<1> QED
    BY <1>3, <1>4, <1>5 DEF VncInv, SessionTypes

(* The window has painted, or is no longer waited for.                     *)
LEMMA RenderCompletes ==
    ASSUME VncInv, NEW rest \in SUBSET renderTimers, RenderComplete(rest),
           rest \ {renderTimer} # renderTimers, flowControl' \in BOOLEAN,
           UNCHANGED <<status, attempt, everConnected, stopping, timer, client, continuation, enabled,
                       answers, damage, resizing, fresh, changes, repaints>>
    PROVE  VncInv'
<1>1. /\ SessionTypes /\ RetriesAreOne /\ PaceIsKept /\ NothingIsForgotten /\ VncTypeOK
      /\ awaitingRender /\ awaitingRender' = FALSE /\ renderTimer' = 0
      /\ renderTimers' = rest \ {renderTimer} /\ RequestNext(needFullUpdate)
    BY DEF VncInv, SessionTypes, RenderComplete
<1>2. Running /\ client = "ready" /\ Quiet /\ ~stopping
    BY <1>1 DEF PaceIsKept, Running, RetriesAreOne
<1>3. /\ needFullUpdate' = FALSE /\ probeDue' \in {"no", "due", "late"}
      /\ asked' \in Seq(Requests) /\ Len(asked') = Len(asked) + 1 /\ lastRequest' \in Requests
      /\ Len(asked) \in Nat
      /\ \A i \in 1..Len(asked) : i \in 1..Len(asked') /\ asked'[i] = asked[i]
      /\ needFullUpdate => \E i \in 1..Len(asked') : ~asked'[i].incremental /\ asked'[i].area = Areas
    BY <1>1, <1>2, AskingNext DEF VncTypeOK
<1>4. SessionTypes'
    BY <1>1, <1>3, NoTimer DEF SessionTypes, VncTypeOK
<1>5. RetriesAreOne'
    BY <1>1 DEF RetriesAreOne, Quiet
<1>6. PaceIsKept'
    <2>1. rest \ {renderTimer} \in SUBSET renderTimers
        OBVIOUS
    <2>2. /\ IsFiniteSet(renderTimers') /\ Cardinality(renderTimers') \in Nat /\ Cardinality(renderTimers) \in Nat
          /\ Cardinality(renderTimers') < Cardinality(renderTimers)
        BY <1>1, <2>1, FewerTimers
    <2>3. Len(answers) \in Nat /\ repaints \in Nat
        BY <1>1, LenProperties, VncAssumption DEF SessionTypes, PaceIsKept
    <2>4. Len(asked') + Len(answers) + Cardinality(renderTimers') <= 1 + repaints /\ Len(asked') + Len(answers) > 0
        BY <1>1, <1>2, <1>3, <2>2, <2>3 DEF PaceIsKept, InFlight
    <2>5. Running' /\ renderTimers' \subseteq 1..(MaxRepaints + 2) /\ InFlight' = Len(asked') + Len(answers)
        BY <1>1, <1>2 DEF PaceIsKept, Running, Quiet, InFlight
    <2> QED
        BY <1>1, <2>2, <2>4, <2>5 DEF PaceIsKept
<1>7. NothingIsForgotten'
    BY <1>1, <1>2, <1>3, CoverStays
<1> QED
    BY <1>4, <1>5, <1>6, <1>7 DEF VncInv

LEMMA PaintingKeeps ==
    ASSUME VncInv, Painted \/ RenderTimeout \/ \E b \in BOOLEAN : SetFlowControl(b)
    PROVE  VncInv'
<1>1. /\ SessionTypes /\ RetriesAreOne /\ PaceIsKept /\ NothingIsForgotten /\ VncTypeOK
      /\ UNCHANGED <<status, attempt, everConnected, stopping, timer, client, continuation, enabled,
                     answers, damage, resizing, fresh, changes, repaints>>
      /\ flowControl' \in BOOLEAN
    BY DEF VncInv, SessionTypes, VncTypeOK, Painted, RenderTimeout, SetFlowControl, control, server, bounds
<1>2. awaitingRender => renderTimer \in renderTimers
    BY <1>1 DEF PaceIsKept
<1>3. ASSUME awaitingRender, RenderComplete(renderTimers) PROVE VncInv'
    BY <1>1, <1>2, <1>3, RenderCompletes
<1>4. CASE RenderTimeout
    <2>1. PICK i \in renderTimers :
             \/ RenderComplete(renderTimers \ {i})
             \/ /\ ~awaitingRender /\ renderTimers' = renderTimers \ {i}
                /\ UNCHANGED <<needFullUpdate, awaitingRender, renderTimer, asking>>
        BY <1>4 DEF RenderTimeout
    <2>2. CASE RenderComplete(renderTimers \ {i})
        <3>1. (renderTimers \ {i}) \ {renderTimer} # renderTimers /\ renderTimers \ {i} \in SUBSET renderTimers
            OBVIOUS
        <3> QED
            BY <1>1, <2>2, <3>1, RenderCompletes
    <2>3. CASE /\ ~awaitingRender /\ renderTimers' = renderTimers \ {i}
               /\ UNCHANGED <<needFullUpdate, awaitingRender, renderTimer, asking>>
        <3>1. /\ IsFiniteSet(renderTimers') /\ Cardinality(renderTimers') \in Nat
              /\ Cardinality(renderTimers) \in Nat /\ Cardinality(renderTimers') <= Cardinality(renderTimers)
            BY <1>1, <2>3, FewerTimers
        <3>2. UNCHANGED <<needFullUpdate, awaitingRender, renderTimer, lastRequest, asked, probeDue>>
            BY <2>3 DEF asking
        <3>3. /\ Len(asked) \in Nat /\ Len(answers) \in Nat /\ repaints \in Nat
            BY <1>1, LenProperties, VncAssumption DEF SessionTypes, PaceIsKept
        <3>4. SessionTypes' /\ RetriesAreOne'
            BY <1>1, <2>3, <3>2 DEF SessionTypes, VncTypeOK, RetriesAreOne, Quiet
        <3>5. PaceIsKept'
            BY <1>1, <2>3, <3>1, <3>2, <3>3 DEF PaceIsKept, Running, Quiet, InFlight
        <3>6. NothingIsForgotten'
            BY <1>1, <3>2 DEF NothingIsForgotten, Quiet
        <3> QED
            BY <3>4, <3>5, <3>6 DEF VncInv
    <2> QED
        BY <2>1, <2>2, <2>3
<1>5. CASE Painted
    BY <1>3, <1>5 DEF Painted, RenderComplete
<1>6. ASSUME NEW b \in BOOLEAN, SetFlowControl(b) PROVE VncInv'
    <2>1. CASE ~b /\ awaitingRender
        BY <1>3, <1>6, <2>1 DEF SetFlowControl
    <2>2. CASE ~(~b /\ awaitingRender)
        <3>1. UNCHANGED <<needFullUpdate, awaitingRender, renderTimer, renderTimers, lastRequest, asked, probeDue>>
            BY <1>6, <2>2 DEF SetFlowControl, loop, paint, asking
        <3>2. SessionTypes' /\ RetriesAreOne'
            BY <1>1, <3>1 DEF SessionTypes, VncTypeOK, RetriesAreOne, Quiet
        <3>3. PaceIsKept' /\ NothingIsForgotten'
            BY <1>1, <3>1 DEF PaceIsKept, Running, Quiet, InFlight, NothingIsForgotten
        <3> QED
            BY <3>2, <3>3 DEF VncInv
    <2> QED
        BY <2>1, <2>2
<1> QED
    BY <1>4, <1>5, <1>6

LEMMA RepaintKeeps ==
    ASSUME VncInv, Repaint
    PROVE  VncInv'
<1>1. /\ SessionTypes /\ RetriesAreOne /\ PaceIsKept /\ NothingIsForgotten /\ VncTypeOK
      /\ Quiet /\ repaints < MaxRepaints /\ repaints' = repaints + 1 /\ needFullUpdate' = TRUE
      /\ UNCHANGED <<status, attempt, everConnected, stopping, timer, client, continuation, enabled, flowControl,
                     awaitingRender, renderTimer, renderTimers, probeDue, answers, damage, resizing, fresh, changes>>
    BY DEF VncInv, SessionTypes, Repaint, control, paint, server
<1>2. /\ Len(asked) \in Nat /\ Len(answers) \in Nat /\ repaints \in Nat /\ repaints' \in 0..MaxRepaints
      /\ Cardinality(renderTimers) \in Nat
    BY <1>1, LenProperties, VncAssumption, FS_CardinalityType DEF SessionTypes, PaceIsKept
<1>3. RetriesAreOne'
    BY <1>1 DEF RetriesAreOne, Quiet
<1>4. NothingIsForgotten'
    BY <1>1 DEF NothingIsForgotten
<1>5. CASE client = "ready" /\ ~awaitingRender
    <2>1. Request(FALSE, Areas) \in Requests
        BY DEF Request, Requests
    <2>2. AsksFor(Request(FALSE, Areas))
        BY <1>5 DEF Repaint
    <2>3. asked' \in Seq(Requests) /\ Len(asked') = Len(asked) + 1 /\ lastRequest' \in Requests
        BY <1>1, <2>1, <2>2, Asking DEF SessionTypes
    <2>4. SessionTypes'
        BY <1>1, <2>3 DEF SessionTypes, VncTypeOK
    <2>5. PaceIsKept'
        BY <1>1, <1>2, <1>5, <2>3 DEF PaceIsKept, Running, Quiet, InFlight
    <2> QED
        BY <1>3, <1>4, <2>4, <2>5 DEF VncInv
<1>6. CASE ~(client = "ready" /\ ~awaitingRender)
    <2>1. UNCHANGED <<lastRequest, asked>>
        BY <1>6 DEF Repaint
    <2>2. SessionTypes'
        BY <1>1, <2>1 DEF SessionTypes, VncTypeOK
    <2>3. PaceIsKept'
        BY <1>1, <1>2, <1>6, <2>1 DEF PaceIsKept, Running, Quiet, InFlight
    <2> QED
        BY <1>3, <1>4, <2>2, <2>3 DEF VncInv
<1> QED
    BY <1>5, <1>6

LEMMA UpdateKeeps ==
    ASSUME VncInv, Update
    PROVE  VncInv'
<1> DEFINE u == Head(answers)
           full == needFullUpdate \/ u.size
<1>1. /\ SessionTypes /\ RetriesAreOne /\ PaceIsKept /\ NothingIsForgotten /\ VncTypeOK
      /\ client = "ready" /\ Quiet /\ answers # <<>> /\ answers' = Tail(answers)
      /\ fresh' = (IF u.size THEN {} ELSE fresh) \cup u.good
      /\ IF u.layout /\ ~u.size /\ u.pixels = {} /\ ~lastRequest.incremental
         THEN AsksFor(Request(TRUE, lastRequest.area)) /\ UNCHANGED <<loop, probeDue>>
         ELSE UpdateEnd(u.pixels, full)
      /\ UNCHANGED <<status, attempt, everConnected, stopping, timer, client, continuation, enabled, flowControl,
                     damage, resizing, changes, repaints>>
    BY DEF VncInv, SessionTypes, Update, control, bounds
<1>2. Running /\ ~stopping
    BY <1>1 DEF Running, RetriesAreOne
<1>3. /\ u \in Answers /\ Tail(answers) \in Seq(Answers) /\ Len(Tail(answers)) = Len(answers) - 1
      /\ \A i \in 1..Len(Tail(answers)) : Tail(answers)[i] = answers[i + 1]
      /\ Len(answers) \in Nat /\ Len(answers) >= 1 /\ u = answers[1]
      /\ asked \in Seq(Requests) /\ Len(asked) \in Nat /\ full \in BOOLEAN /\ fresh' \subseteq Areas
    <2>1. answers \in Seq(Answers) /\ asked \in Seq(Requests)
        BY <1>1 DEF SessionTypes
    <2>2. /\ u \in Answers /\ Tail(answers) \in Seq(Answers) /\ Len(Tail(answers)) = Len(answers) - 1
          /\ \A i \in 1..Len(Tail(answers)) : Tail(answers)[i] = answers[i + 1]
        BY <1>1, <2>1, HeadTailProperties
    <2>3. Len(answers) \in Nat /\ Len(answers) >= 1 /\ u = answers[1] /\ Len(asked) \in Nat
        BY <1>1, <2>1, LenProperties, EmptySeq
    <2>4. full \in BOOLEAN /\ fresh' \subseteq Areas
        BY <1>1, <2>2 DEF VncTypeOK, Answers
    <2> QED
        BY <2>1, <2>2, <2>3, <2>4
<1>4. /\ Cardinality(renderTimers) \in Nat /\ repaints \in Nat
      /\ Len(asked) + Len(answers) + Cardinality(renderTimers) <= 1 + repaints
    BY <1>1, <1>2, VncAssumption, FS_CardinalityType DEF PaceIsKept, InFlight
<1>5. Running' /\ RetriesAreOne'
    BY <1>1, <1>2 DEF Running, RetriesAreOne, Quiet
<1> HIDE DEF u, full
(* What was owed stays so, wherever what asked for it is kept.             *)
<1>6. ASSUME \A i \in 1..Len(asked) : i \in 1..Len(asked') /\ asked'[i] = asked[i],
             \/ ~u.size /\ (needFullUpdate => needFullUpdate')
             \/ needFullUpdate' = full
             \/ (full => \E i \in 1..Len(asked') : ~asked'[i].incremental /\ asked'[i].area = Areas)
      PROVE  NothingIsForgotten'
    <2> SUFFICES ASSUME NEW a \in Areas \ fresh'
                 PROVE  \/ a \in damage \/ needFullUpdate'
                        \/ \E i \in 1..Len(asked') : ~asked'[i].incremental /\ a \in asked'[i].area
                        \/ \E i \in 1..Len(answers') : a \in answers'[i].good \/ answers'[i].size
        BY <1>1 DEF NothingIsForgotten
    <2>1. \/ full
          \/ /\ ~full /\ a \notin fresh /\ a \notin u.good /\ ~u.size
             /\ \/ a \in damage
                \/ \E i \in 1..Len(asked) : ~asked[i].incremental /\ a \in asked[i].area
                \/ \E i \in 1..Len(answers) : a \in answers[i].good \/ answers[i].size
        BY <1>1 DEF NothingIsForgotten, full
    <2>2. CASE full /\ (needFullUpdate' \/ \E i \in 1..Len(asked') : ~asked'[i].incremental /\ asked'[i].area = Areas)
        BY <2>2
    <2>3. CASE ~full
        <3>1. ASSUME NEW i \in 1..Len(answers), a \in answers[i].good \/ answers[i].size
              PROVE  \E j \in 1..Len(answers') : a \in answers'[j].good \/ answers'[j].size
            <4>1. i # 1
                BY <1>3, <2>1, <2>3, <3>1
            <4>2. i - 1 \in 1..Len(Tail(answers)) /\ Tail(answers)[i - 1] = answers[i]
                BY <1>3, <4>1
            <4> QED
                BY <1>1, <3>1, <4>2
        <3>2. ASSUME NEW i \in 1..Len(asked), ~asked[i].incremental /\ a \in asked[i].area
              PROVE  \E j \in 1..Len(asked') : ~asked'[j].incremental /\ a \in asked'[j].area
            BY <1>6, <3>2
        <3> QED
            BY <2>1, <2>3, <3>1, <3>2
    <2> QED
        BY <1>6, <2>2, <2>3 DEF full
<1>7. CASE u.layout /\ ~u.size /\ u.pixels = {} /\ ~lastRequest.incremental
    <2>1. /\ AsksFor(Request(TRUE, lastRequest.area))
          /\ UNCHANGED <<needFullUpdate, awaitingRender, renderTimer, renderTimers, probeDue>>
        BY <1>1, <1>7 DEF loop, paint
    <2>2. Request(TRUE, lastRequest.area) \in Requests
        BY <1>1 DEF SessionTypes, Requests, Request
    <2>3. /\ asked' \in Seq(Requests) /\ Len(asked') = Len(asked) + 1 /\ lastRequest' \in Requests
          /\ \A i \in 1..Len(asked) : i \in 1..Len(asked') /\ asked'[i] = asked[i]
        BY <1>3, <2>1, <2>2, Asking
    <2>4. SessionTypes'
        BY <1>1, <1>3, <2>1, <2>3 DEF SessionTypes, VncTypeOK
    <2>5. InFlight' = Len(asked) + Len(answers) /\ InFlight' > 0
        BY <1>1, <1>3, <2>3 DEF InFlight
    <2>6. PaceIsKept'
        BY <1>1, <1>4, <1>5, <2>1, <2>5 DEF PaceIsKept
    <2>7. NothingIsForgotten'
        BY <1>6, <1>7, <2>1, <2>3
    <2> QED
        BY <1>5, <2>4, <2>6, <2>7 DEF VncInv
<1>8. CASE ~(u.layout /\ ~u.size /\ u.pixels = {} /\ ~lastRequest.incremental)
    <2>1. UpdateEnd(u.pixels, full)
        BY <1>1, <1>8
    <2>2. CASE flowControl /\ u.pixels # {}
        <3>1. /\ awaitingRender' = TRUE /\ renderTimer' = NewTimer /\ renderTimers' = renderTimers \cup {NewTimer}
              /\ needFullUpdate' = full /\ UNCHANGED <<lastRequest, asked, probeDue>>
            BY <2>1, <2>2 DEF UpdateEnd, asking
        <3>2. Cardinality(renderTimers) <= repaints
            BY <1>3, <1>4
        <3>3. /\ NewTimer \in 1..(MaxRepaints + 2) /\ NewTimer \notin renderTimers
              /\ IsFiniteSet(renderTimers \cup {NewTimer})
              /\ Cardinality(renderTimers \cup {NewTimer}) = Cardinality(renderTimers) + 1
            BY <1>1, <3>2, TimerIsNew
        <3>4. NewTimer \in 0..(MaxRepaints + 2) /\ renderTimers' \subseteq 1..(MaxRepaints + 2)
            BY <1>1, <3>1, <3>3, VncAssumption DEF PaceIsKept
        <3>5. SessionTypes'
            BY <1>1, <1>3, <3>1, <3>4 DEF SessionTypes, VncTypeOK
        <3>6. InFlight' = Len(asked) + Len(answers) - 1
            BY <1>1, <1>3, <3>1 DEF InFlight
        <3>7. PaceIsKept'
            BY <1>1, <1>3, <1>4, <1>5, <3>1, <3>3, <3>4, <3>6 DEF PaceIsKept
        <3>8. NothingIsForgotten'
            BY <1>6, <3>1
        <3> QED
            BY <1>5, <3>5, <3>7, <3>8 DEF VncInv
    <2>3. CASE ~(flowControl /\ u.pixels # {})
        <3>1. RequestNext(full) /\ UNCHANGED <<awaitingRender, renderTimer, renderTimers>>
            BY <2>1, <2>3 DEF UpdateEnd, paint
        <3>2. /\ needFullUpdate' = FALSE /\ probeDue' \in {"no", "due", "late"}
              /\ asked' \in Seq(Requests) /\ Len(asked') = Len(asked) + 1 /\ lastRequest' \in Requests
              /\ \A i \in 1..Len(asked) : i \in 1..Len(asked') /\ asked'[i] = asked[i]
              /\ full => \E i \in 1..Len(asked') : ~asked'[i].incremental /\ asked'[i].area = Areas
            BY <1>1, <1>2, <1>3, <3>1, AskingNext
        <3>3. SessionTypes'
            BY <1>1, <1>3, <3>1, <3>2 DEF SessionTypes, VncTypeOK
        <3>4. InFlight' = Len(asked) + Len(answers) /\ InFlight' > 0
            BY <1>1, <1>3, <3>2 DEF InFlight
        <3>5. PaceIsKept'
            BY <1>1, <1>4, <1>5, <3>1, <3>4 DEF PaceIsKept
        <3>6. NothingIsForgotten'
            BY <1>6, <3>2
        <3> QED
            BY <1>5, <3>3, <3>5, <3>6 DEF VncInv
    <2> QED
        BY <2>2, <2>3
<1> QED
    BY <1>7, <1>8

(* Taking one element out of a sequence leaves the others.                 *)
LEMMA Removing ==
    ASSUME NEW S, NEW s \in Seq(S), NEW i \in 1..Len(s)
    PROVE  /\ RemoveAt(s, i) \in Seq(S) /\ Len(RemoveAt(s, i)) = Len(s) - 1
           /\ \A j \in 1..Len(s) : j # i =>
                \E m \in 1..Len(RemoveAt(s, i)) : RemoveAt(s, i)[m] = s[j]
<1> DEFINE left == SubSeq(s, 1, i - 1)
           right == SubSeq(s, i + 1, Len(s))
<1>1. Len(s) \in Nat /\ \A j \in 1..Len(s) : s[j] \in S
    BY LenProperties, ElementOfSeq
<1>2. /\ left \in Seq(S) /\ Len(left) = i - 1 /\ \A j \in 1..(i - 1) : left[j] = s[j]
    <2>1. \A j \in 1..(i - 1) : s[j] \in S
        BY <1>1
    <2>2. left \in Seq(S) /\ Len(left) = (IF 1 <= i - 1 THEN (i - 1) - 1 + 1 ELSE 0)
          /\ \A j \in 1..((i - 1) - 1 + 1) : left[j] = s[1 + j - 1]
        BY <1>1, <2>1, SubSeqProperties
    <2>3. (i - 1) - 1 + 1 = i - 1 /\ \A j \in 1..(i - 1) : 1 + j - 1 = j
        BY <1>1, SMTT(30)
    <2> QED
        BY <1>1, <2>2, <2>3
<1>3. /\ right \in Seq(S) /\ Len(right) = Len(s) - i
      /\ \A j \in 1..(Len(s) - i) : right[j] = s[i + j]
    <2>1. \A j \in (i + 1)..Len(s) : s[j] \in S
        BY <1>1
    <2>2. right \in Seq(S) /\ Len(right) = (IF i + 1 <= Len(s) THEN Len(s) - (i + 1) + 1 ELSE 0)
          /\ \A j \in 1..(Len(s) - (i + 1) + 1) : right[j] = s[(i + 1) + j - 1]
        BY <1>1, <2>1, SubSeqProperties
    <2>3. Len(s) - (i + 1) + 1 = Len(s) - i /\ \A j \in 1..(Len(s) - i) : (i + 1) + j - 1 = i + j
        BY <1>1
    <2>4. Len(right) = Len(s) - i
        BY <1>1, <2>2
    <2> QED
        BY <2>2, <2>3, <2>4, Zenon
<1>4. RemoveAt(s, i) = left \o right
    BY DEF RemoveAt
<1> HIDE DEF left, right
<1>5. /\ RemoveAt(s, i) \in Seq(S) /\ Len(RemoveAt(s, i)) = Len(left) + Len(right)
      /\ \A j \in 1..(Len(left) + Len(right)) :
            RemoveAt(s, i)[j] = IF j <= Len(left) THEN left[j] ELSE right[j - Len(left)]
    <2>1. left \in Seq(S) /\ right \in Seq(S)
        BY <1>2, <1>3
    <2>2. /\ left \o right \in Seq(S) /\ Len(left \o right) = Len(left) + Len(right)
          /\ \A j \in 1..(Len(left) + Len(right)) :
                (left \o right)[j] = IF j <= Len(left) THEN left[j] ELSE right[j - Len(left)]
        BY <2>1, ConcatProperties
    <2> QED
        BY <1>4, <2>2
<1>6. Len(RemoveAt(s, i)) = Len(s) - 1
    BY <1>1, <1>2, <1>3, <1>5
<1>7. ASSUME NEW j \in 1..Len(s), j # i
      PROVE  \E m \in 1..Len(RemoveAt(s, i)) : RemoveAt(s, i)[m] = s[j]
    <2>1. CASE j < i
        <3>1. j \in 1..(i - 1) /\ j \in 1..(Len(left) + Len(right)) /\ j <= Len(left)
            BY <1>1, <1>2, <1>3, <2>1
        <3>2. RemoveAt(s, i)[j] = s[j]
            BY <1>2, <1>5, <3>1
        <3> QED
            BY <1>5, <3>1, <3>2
    <2>2. CASE j > i
        <3>1. /\ j - 1 \in 1..(Len(left) + Len(right)) /\ ~(j - 1 <= Len(left))
              /\ j - i \in 1..(Len(s) - i) /\ (j - 1) - Len(left) = j - i /\ i + (j - i) = j
            <4>1. i \in Int /\ j \in Int /\ Len(s) \in Int /\ 1 <= i /\ i < j /\ j <= Len(s)
                BY <1>1, <2>2
            <4>2. Len(left) = i - 1 /\ Len(right) = Len(s) - i
                BY <1>2, <1>3
            <4> QED
                BY <4>1, <4>2
        <3>2. RemoveAt(s, i)[j - 1] = right[j - i] /\ right[j - i] = s[j]
            BY <1>3, <1>5, <3>1
        <3> QED
            BY <1>5, <3>1, <3>2
    <2> QED
        BY <1>1, <1>7, <2>1, <2>2
<1> QED
    BY <1>5, <1>6, <1>7

LEMMA ServerAnswersKeeps ==
    ASSUME VncInv, ServerAnswers
    PROVE  VncInv'
<1>1. /\ SessionTypes /\ RetriesAreOne /\ PaceIsKept /\ NothingIsForgotten /\ VncTypeOK
      /\ client = "ready" /\ resizing' = FALSE
      /\ UNCHANGED <<status, attempt, everConnected, stopping, timer, client, continuation, enabled, flowControl,
                     needFullUpdate, awaitingRender, renderTimer, renderTimers, lastRequest, probeDue, fresh,
                     changes, repaints>>
      /\ asked \in Seq(Requests) /\ answers \in Seq(Answers)
    BY DEF VncInv, SessionTypes, ServerAnswers, control, loop, paint, bounds
<1>2. PICK i \in 1..Len(asked) :
         /\ asked' = RemoveAt(asked, i)
         /\ LET r == asked[i]
                pixels == IF r.incremental THEN damage \cap r.area ELSE r.area
            IN  \/ /\ r.incremental => pixels # {} \/ resizing
                   /\ answers' = Append(answers, Answer(pixels, resizing, FALSE))
                   /\ damage' = damage \ pixels
                \/ /\ ~r.incremental
                   /\ answers' = Append(answers, Answer({}, resizing, TRUE))
                   /\ damage' = damage \cup r.area
    BY DEF ServerAnswers
<1>3. /\ Len(asked) \in Nat /\ Len(answers) \in Nat /\ asked[i] \in Requests
      /\ asked' \in Seq(Requests) /\ Len(asked') = Len(asked) - 1
      /\ \A j \in 1..Len(asked) : j # i => \E m \in 1..Len(asked') : asked'[m] = asked[j]
    BY <1>1, <1>2, Removing, LenProperties, ElementOfSeq
<1>4. Running
    <2>1. InFlight # 0
        BY <1>3 DEF InFlight
    <2> QED
        BY <1>1, <2>1 DEF PaceIsKept
<1> DEFINE r == asked[i]
           pixels == IF r.incremental THEN damage \cap r.area ELSE r.area
<1>5. PICK u \in Answers :
         /\ answers' = Append(answers, u) /\ damage' \subseteq Areas
         /\ \A a \in damage \cup (IF r.incremental THEN {} ELSE r.area) : a \in damage' \cup u.good
    <2>1. r.area \subseteq Areas /\ pixels \subseteq Areas /\ damage \subseteq Areas /\ resizing \in BOOLEAN
        BY <1>1, <1>3 DEF Requests, VncTypeOK
    <2>2. CASE answers' = Append(answers, Answer(pixels, resizing, FALSE)) /\ damage' = damage \ pixels
        <3>1. Answer(pixels, resizing, FALSE) \in Answers /\ Answer(pixels, resizing, FALSE).good = pixels
            BY <2>1 DEF Answer, Answers
        <3> QED
            BY <2>1, <2>2, <3>1
    <2>3. CASE /\ ~r.incremental /\ answers' = Append(answers, Answer({}, resizing, TRUE))
               /\ damage' = damage \cup r.area
        <3>1. Answer({}, resizing, TRUE) \in Answers
            BY <2>1 DEF Answer, Answers
        <3> QED
            BY <2>1, <2>3, <3>1
    <2> QED
        BY <1>2, <2>2, <2>3
<1>6. /\ answers' \in Seq(Answers) /\ Len(answers') = Len(answers) + 1
      /\ \A j \in 1..Len(answers) : j \in 1..Len(answers') /\ answers'[j] = answers[j]
      /\ Len(answers) + 1 \in 1..Len(answers') /\ answers'[Len(answers) + 1] = u
    BY <1>1, <1>3, <1>5, AppendProperties
<1>7. SessionTypes' /\ RetriesAreOne'
    BY <1>1, <1>3, <1>5, <1>6, ZenonT(60) DEF SessionTypes, VncTypeOK, RetriesAreOne, Quiet
<1>8. PaceIsKept'
    <2>1. InFlight' = InFlight /\ InFlight > 0
        BY <1>3, <1>6 DEF InFlight
    <2> QED
        BY <1>1, <1>4, <2>1 DEF PaceIsKept, Running, Quiet
<1>9. NothingIsForgotten'
    <2> SUFFICES ASSUME NEW a \in Areas \ fresh
                 PROVE  \/ a \in damage' \/ needFullUpdate'
                        \/ \E j \in 1..Len(asked') : ~asked'[j].incremental /\ a \in asked'[j].area
                        \/ \E j \in 1..Len(answers') : a \in answers'[j].good \/ answers'[j].size
        BY <1>1 DEF NothingIsForgotten
    <2>1. \/ a \in damage \/ needFullUpdate
          \/ \E j \in 1..Len(asked) : ~asked[j].incremental /\ a \in asked[j].area
          \/ \E j \in 1..Len(answers) : a \in answers[j].good \/ answers[j].size
        BY <1>1, <1>4 DEF NothingIsForgotten, Running
    <2>2. CASE a \in damage \/ (~r.incremental /\ a \in r.area)
        BY <1>5, <1>6, <2>2
    <2>3. ASSUME NEW j \in 1..Len(asked), j # i, ~asked[j].incremental /\ a \in asked[j].area
          PROVE  \E m \in 1..Len(asked') : ~asked'[m].incremental /\ a \in asked'[m].area
        BY <1>3, <2>3
    <2>4. ASSUME NEW j \in 1..Len(answers), a \in answers[j].good \/ answers[j].size
          PROVE  \E m \in 1..Len(answers') : a \in answers'[m].good \/ answers'[m].size
        BY <1>6, <2>4
    <2> QED
        BY <1>1, <2>1, <2>2, <2>3, <2>4
<1> QED
    BY <1>7, <1>8, <1>9 DEF VncInv

LEMMA ScreenChangesKeeps ==
    ASSUME VncInv, ScreenChanges
    PROVE  VncInv'
<1>1. /\ SessionTypes /\ RetriesAreOne /\ PaceIsKept /\ NothingIsForgotten /\ VncTypeOK
      /\ UNCHANGED <<status, attempt, everConnected, stopping, timer, client, continuation, enabled, flowControl,
                     needFullUpdate, awaitingRender, renderTimer, renderTimers, lastRequest, asked, probeDue,
                     repaints>>
      /\ answers \in Seq(Answers) /\ Len(answers) \in Nat /\ DOMAIN answers = 1..Len(answers)
    BY LenProperties DEF VncInv, SessionTypes, ScreenChanges, control, loop, paint, asking
<1>2. ASSUME NEW a \in SUBSET Areas, damage' = damage \cup a, fresh' = fresh \ a,
             answers' = [i \in DOMAIN answers |-> [answers[i] EXCEPT !.good = @ \ a]], UNCHANGED resizing
      PROVE  VncInv'
    <2>1. /\ answers' \in Seq(Answers) /\ Len(answers') = Len(answers)
          /\ \A i \in 1..Len(answers) : answers'[i].good = answers[i].good \ a /\ answers'[i].size = answers[i].size
        <3>1. \A i \in 1..Len(answers) : answers[i] \in Answers
            BY <1>1, ElementOfSeq
        <3>2. \A i \in 1..Len(answers) :
                 /\ [answers[i] EXCEPT !.good = @ \ a] \in Answers
                 /\ [answers[i] EXCEPT !.good = @ \ a].good = answers[i].good \ a
                 /\ [answers[i] EXCEPT !.good = @ \ a].size = answers[i].size
            BY <3>1 DEF Answers
        <3>3. answers' = [i \in 1..Len(answers) |-> [answers[i] EXCEPT !.good = @ \ a]]
            BY <1>1, <1>2
        <3>4. answers' \in Seq(Answers) /\ Len(answers') = Len(answers)
            BY <1>1, <3>2, <3>3, IsASeq
        <3> QED
            BY <3>2, <3>3, <3>4
    <2>2. SessionTypes' /\ RetriesAreOne'
        BY <1>1, <1>2, <2>1 DEF SessionTypes, VncTypeOK, RetriesAreOne, Quiet
    <2>3. PaceIsKept'
        BY <1>1, <2>1 DEF PaceIsKept, Running, Quiet, InFlight
    <2>4. NothingIsForgotten'
        <3> SUFFICES ASSUME Running, NEW x \in Areas \ fresh'
                     PROVE  \/ x \in damage' \/ needFullUpdate
                            \/ \E i \in 1..Len(asked) : ~asked[i].incremental /\ x \in asked[i].area
                            \/ \E i \in 1..Len(answers') : x \in answers'[i].good \/ answers'[i].size
            BY <1>1 DEF NothingIsForgotten, Running, Quiet
        <3>1. CASE x \in a
            BY <1>2, <3>1
        <3>2. CASE x \notin a
            <4>1. \/ x \in damage \/ needFullUpdate
                  \/ \E i \in 1..Len(asked) : ~asked[i].incremental /\ x \in asked[i].area
                  \/ \E i \in 1..Len(answers) : x \in answers[i].good \/ answers[i].size
                BY <1>1, <1>2, <3>2 DEF NothingIsForgotten, Running
            <4>2. ASSUME NEW i \in 1..Len(answers), x \in answers[i].good \/ answers[i].size
                  PROVE  i \in 1..Len(answers') /\ (x \in answers'[i].good \/ answers'[i].size)
                BY <2>1, <3>2, <4>2
            <4> QED
                BY <1>2, <4>1, <4>2
        <3> QED
            BY <3>1, <3>2
    <2> QED
        BY <2>2, <2>3, <2>4 DEF VncInv
<1>3. CASE resizing' = TRUE /\ UNCHANGED <<damage, fresh, answers>>
    <2>1. SessionTypes' /\ RetriesAreOne'
        BY <1>1, <1>3 DEF SessionTypes, VncTypeOK, RetriesAreOne, Quiet
    <2>2. PaceIsKept' /\ NothingIsForgotten'
        BY <1>1, <1>3 DEF PaceIsKept, Running, Quiet, InFlight, NothingIsForgotten
    <2> QED
        BY <2>1, <2>2 DEF VncInv
<1> QED
    BY <1>2, <1>3 DEF ScreenChanges, Areas

LEMMA LittleChanges ==
    ASSUME VncInv, probeDue' \in {"no", "due", "late"}, continuation' = continuation \/ (continuation' = "none" /\ client = "none"),
           UNCHANGED <<status, attempt, everConnected, stopping, timer, client, enabled, flowControl,
                       needFullUpdate, awaitingRender, renderTimer, renderTimers, lastRequest, asked,
                       answers, damage, resizing, fresh, repaints>>,
           continuation # "resolved" \/ continuation' = continuation
    PROVE  VncInv'
<1>1. SessionTypes /\ RetriesAreOne /\ PaceIsKept /\ NothingIsForgotten
    BY DEF VncInv
<1>2. SessionTypes'
    BY <1>1 DEF SessionTypes, VncTypeOK
<1>3. RetriesAreOne'
    BY <1>1 DEF RetriesAreOne, Quiet
<1>4. PaceIsKept' /\ NothingIsForgotten'
    BY <1>1 DEF PaceIsKept, Running, Quiet, InFlight, NothingIsForgotten
<1> QED
    BY <1>2, <1>3, <1>4 DEF VncInv

LEMMA SessionKeeps ==
    ASSUME VncInv, VncNext
    PROVE  VncInv'
<1>1. CASE Start \/ Retry
    BY <1>1, AttemptKeeps
<1>2. CASE HandshakeFails
    BY <1>2, DroppedKeeps DEF HandshakeFails
<1>3. CASE ConnectedThenFails
    BY <1>3, DroppedKeeps DEF ConnectedThenFails
<1>4. CASE ClientFails
    BY <1>4, DroppedKeeps DEF ClientFails, Quiet
<1>5. CASE Connected \/ Resolved \/ Stop \/ Update
    BY <1>5, ConnectedKeeps, ResolvedKeeps, StopKeeps, UpdateKeeps
<1>6. CASE Rejected
    <2>1. client = "none"
        BY <1>6 DEF Rejected, VncInv, RetriesAreOne
    <2> QED
        BY <1>6, <2>1, LittleChanges
           DEF Rejected, VncInv, SessionTypes, VncTypeOK, loop, paint, link, asking, server, bounds
<1>7. CASE Painted \/ RenderTimeout \/ \E b \in BOOLEAN : SetFlowControl(b)
    BY <1>7, PaintingKeeps
<1>8. CASE Repaint \/ ServerAnswers \/ ScreenChanges
    BY <1>8, RepaintKeeps, ServerAnswersKeeps, ScreenChangesKeeps
<1>9. CASE ProbeDue
    BY <1>9, LittleChanges DEF ProbeDue, control, loop, paint, server, bounds
<1> QED
    BY <1>1, <1>2, <1>3, <1>4, <1>5, <1>6, <1>7, <1>8, <1>9 DEF VncNext

LEMMA SessionStays ==
    ASSUME VncInv, UNCHANGED vncVars
    PROVE  VncInv'
BY LittleChanges DEF vncVars, control, loop, paint, link, asking, server, bounds, VncInv, SessionTypes, VncTypeOK
-----------------------------------------------------------------------------
(* The stream of a VNC server.                                             *)

(* What a piece may be: any string, those of a handshake among them.       *)
Opening == {"3", "7", "8", "not VNC", "zero", "None", "VncAuth", "both", "other", "count", "challenge",
            "ok", "bad", "init", "name", "length", "reason"}
Word == STRING \cup Opening
Message == [says : Seq(Word), upTo : Nat]
StreamTypes ==
    /\ sent \in Seq(Message) /\ buffer \in Seq(Word) /\ wire \in Seq(Word)
    /\ closed => ~draining

(* Where the k-th message of s ends, how much was consumed of s when b and *)
(* w are left of it, and the i-th piece of what is left.                   *)
End(s, k) == IF k = 0 THEN 0 ELSE s[k].upTo
Taken(s, b, w) == End(s, Len(s)) - Len(w) - Len(b)
Piece(b, w, i) == IF i <= Len(b) THEN b[i] ELSE w[i - Len(b)]

InTurn(s) ==
    /\ \A k \in 1..Len(s) : Len(s[k].says) > 0 /\ End(s, k) = End(s, k - 1) + Len(s[k].says)
    /\ \A j, k \in 0..Len(s) : j <= k => End(s, j) <= End(s, k)

(* What was not consumed is what is left of the messages.                  *)
Whole(s, h, b, w) ==
    \A k \in (h + 1)..Len(s) : \A j \in 1..Len(s[k].says) :
        End(s, k - 1) + j > Taken(s, b, w) =>
            Piece(b, w, End(s, k - 1) + j - Taken(s, b, w)) = s[k].says[j]

(* Outside of an update a message begins here; inside of one its           *)
(* rectangles go on.                                                       *)
Ahead(m, i, left, pending, tiles) ==
    /\ pending = "none" => RectsFollow(m, i, left)
    /\ pending = "hextile" => tiles > 0 /\ RectsFollow(m, i + 2 * tiles, left - 1)
    /\ pending \notin {"none", "hextile"} =>
          Body(pending) > 0 /\ RectsFollow(m, i + Body(pending), left - 1)
UnderWay(s, h, t, left, pending, tiles) ==
    IF left = 0
    THEN t = End(s, h) /\ pending = "none"
    ELSE /\ h < Len(s) /\ s[h + 1].says \in Updates
         /\ t > End(s, h) /\ Ahead(s[h + 1].says, t - End(s, h), left, pending, tiles)

MessagesAreKnown ==
    IF state = "ready"
    THEN \A k \in (handled + 1)..Len(sent) : sent[k].says \in Updates \cup Others
    ELSE /\ rectsLeft = 0 /\ Len(sent) <= handled + 1
         /\ handled < Len(sent) => sent[handled + 1].says \in Messages

RestIsMissing ==
    ~draining /\ handled < Len(sent) =>
        End(sent, handled + 1) > Taken(sent, buffer, wire) + Len(buffer)
AnswersAreOwed == requests + Cardinality(Unanswered) = IF owner = "waiting" THEN 1 ELSE 0

StreamOpen ==
    /\ InTurn(sent) /\ Whole(sent, handled, buffer, wire)
    /\ UnderWay(sent, handled, Taken(sent, buffer, wire), rectsLeft, pendingRect, tilesLeft)
    /\ MessagesAreKnown /\ RestIsMissing /\ AnswersAreOwed
StreamInv == RfbTypeOK /\ StreamTypes /\ (closed \/ StreamOpen)

LEMMA StreamBegins == RfbInit => StreamInv
<1> SUFFICES ASSUME RfbInit PROVE StreamInv
    OBVIOUS
<1>1. sent = <<>> /\ buffer = <<>> /\ wire = <<>> /\ Len(<<>>) = 0 /\ <<>> \in Seq(Message) /\ <<>> \in Seq(Word)
    BY EmptySeq DEF RfbInit
<1>2. RfbTypeOK /\ StreamTypes
    <2>1. /\ state = "version" /\ minor = 8 /\ rectsLeft = 0 /\ tilesLeft = 0 /\ requests = 0 /\ handled = 0
          /\ lastKind = "none" /\ promise = "none" /\ owner = "idle" /\ ~closed
          /\ password \in BOOLEAN /\ draining \in BOOLEAN /\ closed \in BOOLEAN
          /\ had \in BOOLEAN /\ layout \in BOOLEAN
        BY DEF RfbInit
    <2>2. handled \in 0..Len(sent) /\ rectsLeft \in 0..2 /\ tilesLeft \in 0..Tiles
        BY <1>1, <2>1 DEF Tiles
    <2> QED
        BY <1>1, <2>1, <2>2 DEF RfbTypeOK, StreamTypes, Handshake
<1>3. Unanswered = {}
    BY <1>1 DEF RfbInit, Unanswered
<1>4. InTurn(sent)
    BY <1>1 DEF InTurn, End
<1>5. Whole(sent, handled, buffer, wire)
    BY <1>1 DEF Whole, RfbInit
<1>6. UnderWay(sent, handled, Taken(sent, buffer, wire), rectsLeft, pendingRect, tilesLeft)
    BY <1>1 DEF UnderWay, Taken, End, RfbInit
<1>7. MessagesAreKnown /\ RestIsMissing /\ AnswersAreOwed
    BY <1>1, <1>3, FS_EmptySet DEF MessagesAreKnown, RestIsMissing, AnswersAreOwed, RfbInit
<1> QED
    BY <1>2, <1>4, <1>5, <1>6, <1>7 DEF StreamInv, StreamOpen

(* Numbers.                                                                *)
LEMMA StreamNumbers ==
    ASSUME StreamInv
    PROVE  /\ handled \in Nat /\ Len(sent) \in Nat /\ handled <= Len(sent)
           /\ Len(buffer) \in Nat /\ Len(wire) \in Nat
           /\ \A k \in 1..Len(sent) : /\ sent[k].says \in Seq(Word) /\ Len(sent[k].says) \in Nat
                                      /\ sent[k].upTo \in Nat
           /\ \A k \in 0..Len(sent) : End(sent, k) \in Nat
           /\ Taken(sent, buffer, wire) \in Int
           /\ \A i \in 1..Len(buffer) : buffer[i] \in Word
<1>1. /\ sent \in Seq(Message) /\ buffer \in Seq(Word) /\ wire \in Seq(Word) /\ handled \in 0..Len(sent)
    BY DEF StreamInv, StreamTypes, RfbTypeOK
<1>2. Len(sent) \in Nat /\ Len(buffer) \in Nat /\ Len(wire) \in Nat
    BY <1>1, LenProperties
<1>3. ASSUME NEW k \in 1..Len(sent)
      PROVE  sent[k].says \in Seq(Word) /\ Len(sent[k].says) \in Nat /\ sent[k].upTo \in Nat
    <2>1. sent[k] \in Message
        BY <1>1, <1>3, ElementOfSeq
    <2>2. sent[k].says \in Seq(Word) /\ sent[k].upTo \in Nat
        BY <2>1 DEF Message
    <2> QED
        BY <2>2, LenProperties
<1>4. \A k \in 0..Len(sent) : End(sent, k) \in Nat
    BY <1>2, <1>3 DEF End
<1>5. Taken(sent, buffer, wire) \in Int
    BY <1>2, <1>4 DEF Taken
<1>6. \A i \in 1..Len(buffer) : buffer[i] \in Word
    BY <1>1, ElementOfSeq
<1> QED
    BY <1>1, <1>2, <1>3, <1>4, <1>5, <1>6

(* What is consumed goes from the front.                                   *)
LEMMA Shorter ==
    ASSUME StreamInv, NEW n \in 0..Len(buffer), buffer' = SubSeq(buffer, n + 1, Len(buffer))
    PROVE  /\ buffer' \in Seq(Word) /\ Len(buffer') = Len(buffer) - n
           /\ \A i \in 1..(Len(buffer) - n) : buffer'[i] = buffer[i + n]
<1>1. buffer \in Seq(Word) /\ Len(buffer) \in Nat
    BY StreamNumbers DEF StreamInv, StreamTypes
<1>2. \A i \in (n + 1)..Len(buffer) : buffer[i] \in Word
    BY <1>1, StreamNumbers
<1>3. PICK from \in Int : from = n + 1
    BY <1>1
<1>4. /\ SubSeq(buffer, from, Len(buffer)) \in Seq(Word)
      /\ Len(SubSeq(buffer, from, Len(buffer))) = (IF from <= Len(buffer) THEN Len(buffer) - from + 1 ELSE 0)
      /\ \A i \in 1..(Len(buffer) - from + 1) : SubSeq(buffer, from, Len(buffer))[i] = buffer[from + i - 1]
    BY <1>1, <1>2, <1>3, SubSeqProperties
<1>5. buffer' = SubSeq(buffer, from, Len(buffer))
    BY <1>3
<1>6. buffer' \in Seq(Word) /\ Len(buffer') = Len(buffer) - n
    BY <1>1, <1>3, <1>4, <1>5
<1>7. ASSUME NEW i \in 1..(Len(buffer) - n) PROVE buffer'[i] = buffer[i + n]
    <2>1. i \in 1..(Len(buffer) - from + 1) /\ from + i - 1 = i + n
        BY <1>1, <1>3
    <2> QED
        BY <1>4, <1>5, <2>1
<1> QED
    BY <1>6, <1>7

(* A read moves what was consumed, and nothing else of the stream.         *)
LEMMA Consumed ==
    ASSUME StreamInv, ~closed, NEW n \in 0..Len(buffer), buffer' = SubSeq(buffer, n + 1, Len(buffer)),
           UNCHANGED <<sent, wire>>, handled' >= handled, handled' \in Nat
    PROVE  /\ buffer' \in Seq(Word) /\ Len(buffer') = Len(buffer) - n
           /\ Taken(sent', buffer', wire') = Taken(sent, buffer, wire) + n
           /\ InTurn(sent') /\ Whole(sent', handled', buffer', wire')
<1>0. /\ handled \in Nat /\ Len(sent) \in Nat /\ Len(buffer) \in Nat /\ Len(wire) \in Nat
      /\ \A k \in 1..Len(sent) : Len(sent[k].says) \in Nat
      /\ \A k \in 0..Len(sent) : End(sent, k) \in Nat
    BY StreamNumbers
<1>1. /\ buffer' \in Seq(Word) /\ Len(buffer') = Len(buffer) - n
      /\ \A i \in 1..(Len(buffer) - n) : buffer'[i] = buffer[i + n]
    BY Shorter
<1>2. Taken(sent', buffer', wire') = Taken(sent, buffer, wire) + n
    <2>1. sent' = sent /\ wire' = wire
        OBVIOUS
    <2>2. End(sent', Len(sent')) = End(sent, Len(sent))
        BY <2>1
    <2>3. End(sent, Len(sent)) \in Nat
        BY <1>0
    <2>4. PICK e \in Nat : e = End(sent, Len(sent))
        BY <2>3
    <2>5. Len(buffer') = Len(buffer) - n /\ n \in Nat
        BY <1>0, <1>1
    <2> QED
        BY <1>0, <2>1, <2>2, <2>4, <2>5 DEF Taken
<1>3. InTurn(sent) /\ Whole(sent, handled, buffer, wire)
    BY DEF StreamInv, StreamOpen
<1>4. PICK taken \in Int : taken = Taken(sent, buffer, wire)
    BY StreamNumbers
<1>7. PICK later \in Nat : later = handled' /\ handled <= later
    BY <1>0
<1>5. ASSUME NEW k \in (later + 1)..Len(sent), NEW j \in 1..Len(sent[k].says),
             End(sent, k - 1) + j > taken + n
      PROVE  Piece(buffer', wire, End(sent, k - 1) + j - (taken + n)) = sent[k].says[j]
    <2>1. k \in (handled + 1)..Len(sent) /\ k \in 1..Len(sent) /\ k - 1 \in 0..Len(sent)
        <3>1. handled \in Nat /\ handled <= later /\ Len(sent) \in Nat
            BY <1>0, <1>7
        <3>2. k \in (later + 1)..Len(sent)
            OBVIOUS
        <3> QED
            BY <3>1, <3>2
    <2>0. PICK before \in Nat : before = End(sent, k - 1)
        BY <1>0, <2>1
    <2>8. j \in Nat /\ n \in Nat
        BY <1>0, <1>5, <2>1
    <2>2. PICK i \in Int : i = before + j - taken
        BY <2>8
    <2>3. i > n /\ before + j - (taken + n) = i - n
        BY <1>5, <2>0, <2>2, <2>8, SMTT(30)
    <2>4. Piece(buffer, wire, i) = sent[k].says[j]
        <3>1. End(sent, k - 1) + j > taken
            BY <1>5, <2>0, <2>8
        <3> QED
            BY <1>3, <1>4, <1>5, <2>0, <2>1, <2>2, <3>1 DEF Whole
    <2>5. Piece(buffer', wire, i - n) = Piece(buffer, wire, i)
        <3>1. CASE i <= Len(buffer)
            <4>1. i - n \in 1..(Len(buffer) - n) /\ (i - n) + n = i /\ i - n <= Len(buffer')
                <5>1. Len(buffer) \in Nat /\ Len(buffer') = Len(buffer) - n
                    BY <1>0, <1>1
                <5>2. i > n /\ i <= Len(buffer) /\ n \in Nat
                    BY <2>3, <2>8, <3>1
                <5>3. i - n \in 1..(Len(buffer) - n) /\ (i - n) + n = i
                    BY <5>1, <5>2
                <5> QED
                    BY <5>1, <5>3
            <4>2. buffer'[i - n] = buffer[i]
                BY <1>1, <4>1
            <4> QED
                BY <3>1, <4>1, <4>2 DEF Piece
        <3>2. CASE ~(i <= Len(buffer))
            <4>1. ~(i - n <= Len(buffer')) /\ (i - n) - Len(buffer') = i - Len(buffer)
                <5>1. Len(buffer) \in Nat /\ Len(buffer') = Len(buffer) - n
                    BY <1>0, <1>1
                <5> QED
                    BY <2>8, <3>2, <5>1, SMTT(30)
            <4> QED
                BY <3>2, <4>1 DEF Piece
        <3> QED
            BY <3>1, <3>2
    <2> QED
        BY <2>0, <2>3, <2>4, <2>5
<1>6. Whole(sent', handled', buffer', wire')
    BY <1>2, <1>4, <1>5, <1>7 DEF Whole
<1> QED
    BY <1>1, <1>2, <1>3, <1>6

(* The message being read, and how much of it was consumed.                *)
This == sent[handled + 1].says
Off == Taken(sent, buffer, wire) - End(sent, handled)

LEMMA FrontMessage ==
    ASSUME StreamInv, ~closed, rectsLeft # 0 \/ Len(buffer) # 0
    PROVE  /\ handled < Len(sent) /\ handled + 1 \in 1..Len(sent) /\ handled \in Nat /\ Len(sent) \in Nat
           /\ This \in Seq(Word) /\ Len(This) \in Nat /\ Len(This) > 0
           /\ End(sent, handled + 1) = End(sent, handled) + Len(This)
           /\ Taken(sent, buffer, wire) = End(sent, handled) + Off
           /\ End(sent, handled) \in Nat /\ Off \in Nat /\ (rectsLeft = 0 => Off = 0) /\ (rectsLeft # 0 => Off > 0)
           /\ \A j \in 1..Len(This) : j > Off /\ j - Off <= Len(buffer) => buffer[j - Off] = This[j]
<1>1. /\ handled \in Nat /\ Len(sent) \in Nat /\ handled <= Len(sent) /\ Len(buffer) \in Nat /\ Len(wire) \in Nat
      /\ \A k \in 0..Len(sent) : End(sent, k) \in Nat
      /\ Taken(sent, buffer, wire) \in Int
    BY StreamNumbers
<1>2. PICK taken \in Int : taken = Taken(sent, buffer, wire)
    BY <1>1
<1>3. PICK began \in Nat : began = End(sent, handled)
    BY <1>1
<1>4. InTurn(sent) /\ Whole(sent, handled, buffer, wire) /\ UnderWay(sent, handled, taken, rectsLeft, pendingRect, tilesLeft)
    BY <1>2 DEF StreamInv, StreamOpen
<1>5. IF rectsLeft = 0 THEN taken = began ELSE handled < Len(sent) /\ taken > began
    BY <1>3, <1>4 DEF UnderWay
<1>6. handled < Len(sent)
    <2>1. SUFFICES ASSUME handled = Len(sent) PROVE FALSE
        BY <1>1
    <2>2. rectsLeft = 0 /\ taken = began /\ Len(buffer) > 0
        BY <1>1, <1>5, <2>1
    <2>3. taken = began - Len(wire) - Len(buffer)
        BY <1>2, <1>3, <2>1 DEF Taken
    <2> QED
        BY <1>1, <2>2, <2>3
<1>7. handled + 1 \in 1..Len(sent) /\ (handled + 1) - 1 = handled
    BY <1>1, <1>6
<1>8. This \in Seq(Word) /\ Len(This) \in Nat
    BY <1>7, StreamNumbers DEF This
<1>9. Len(This) > 0 /\ End(sent, handled + 1) = began + Len(This)
    BY <1>3, <1>4, <1>7 DEF InTurn, This
<1>10. Off = taken - began
    BY <1>2, <1>3 DEF Off
<1>11. taken = began + Off /\ Off \in Nat /\ (rectsLeft = 0 => Off = 0) /\ (rectsLeft # 0 => Off > 0)
    BY <1>5, <1>10
<1>12. ASSUME NEW j \in 1..Len(This), j > Off, j - Off <= Len(buffer)
       PROVE  buffer[j - Off] = This[j]
    <2>1. handled + 1 \in (handled + 1)..Len(sent)
        BY <1>1, <1>6
    <2>2. j \in Nat /\ began + j > taken /\ began + j - taken = j - Off
        BY <1>8, <1>11, <1>12
    <2>3. Piece(buffer, wire, began + j - taken) = This[j]
        BY <1>2, <1>3, <1>4, <1>7, <1>12, <2>1, <2>2 DEF Whole, This
    <2> QED
        BY <1>12, <2>2, <2>3 DEF Piece
<1> QED
    BY <1>1, <1>2, <1>3, <1>6, <1>7, <1>8, <1>9, <1>11, <1>12

(* What the reads do to the stream: a message is finished, goes on, or is  *)
(* not all there.                                                          *)
LEMMA Finishes ==
    ASSUME StreamInv, ~closed, NEW n \in 1..Len(buffer), Consume(n), Off + n = Len(This), UNCHANGED <<sent, wire>>,
           handled' = handled + 1, rectsLeft' = 0, pendingRect' = "none"
    PROVE  /\ buffer' \in Seq(Word) /\ draining' = TRUE /\ handled' \in 0..Len(sent')
           /\ InTurn(sent') /\ Whole(sent', handled', buffer', wire') /\ RestIsMissing'
           /\ UnderWay(sent', handled', Taken(sent', buffer', wire'), rectsLeft', pendingRect', tilesLeft')
<1>1. Len(buffer) \in Nat /\ n \in 0..Len(buffer) /\ Len(buffer) # 0 /\ n > 0
    BY StreamNumbers
<1>2. /\ handled < Len(sent) /\ handled \in Nat /\ Len(sent) \in Nat
      /\ End(sent, handled + 1) = End(sent, handled) + Len(This)
      /\ Taken(sent, buffer, wire) = End(sent, handled) + Off
      /\ End(sent, handled) \in Nat /\ Off \in Nat
    BY <1>1, FrontMessage
<1>3. buffer' = SubSeq(buffer, n + 1, Len(buffer)) /\ draining' = TRUE
    BY <1>1 DEF Consume
<1>4. /\ buffer' \in Seq(Word) /\ Taken(sent', buffer', wire') = Taken(sent, buffer, wire) + n
      /\ InTurn(sent') /\ Whole(sent', handled', buffer', wire')
    BY <1>1, <1>2, <1>3, Consumed, SMTT(30)
<1>5. Taken(sent', buffer', wire') = End(sent', handled')
    <2>1. Taken(sent', buffer', wire') = End(sent, handled) + Off + n
        BY <1>1, <1>2, <1>4
    <2>2. End(sent', handled') = End(sent, handled) + Len(This)
        BY <1>2
    <2> QED
        BY <1>1, <1>2, <2>1, <2>2
<1>6. RestIsMissing'
    BY <1>3 DEF RestIsMissing
<1>7. handled' \in 0..Len(sent')
    BY <1>2
<1> QED
    BY <1>3, <1>4, <1>5, <1>6, <1>7 DEF UnderWay

LEMMA Continues ==
    ASSUME StreamInv, ~closed, NEW n \in 1..Len(buffer), Consume(n), UNCHANGED <<sent, wire, handled>>,
           This \in Updates, rectsLeft' # 0, Ahead(This, Off + n, rectsLeft', pendingRect', tilesLeft')
    PROVE  /\ buffer' \in Seq(Word) /\ draining' = TRUE /\ handled' \in 0..Len(sent')
           /\ InTurn(sent') /\ Whole(sent', handled', buffer', wire') /\ RestIsMissing'
           /\ UnderWay(sent', handled', Taken(sent', buffer', wire'), rectsLeft', pendingRect', tilesLeft')
<1>1. Len(buffer) \in Nat /\ n \in 0..Len(buffer) /\ Len(buffer) # 0 /\ n > 0
    BY StreamNumbers
<1>2. /\ handled < Len(sent) /\ handled \in Nat /\ Len(sent) \in Nat
      /\ Taken(sent, buffer, wire) = End(sent, handled) + Off
      /\ End(sent, handled) \in Nat /\ Off \in Nat
    BY <1>1, FrontMessage
<1>3. buffer' = SubSeq(buffer, n + 1, Len(buffer)) /\ draining' = TRUE
    BY <1>1 DEF Consume
<1>4. /\ buffer' \in Seq(Word) /\ Taken(sent', buffer', wire') = Taken(sent, buffer, wire) + n
      /\ InTurn(sent') /\ Whole(sent', handled', buffer', wire')
    BY <1>1, <1>2, <1>3, Consumed
<1>5. PICK taken \in Int : taken = End(sent, handled) + Off + n
    BY <1>1, <1>2
<1>6. Taken(sent', buffer', wire') = taken /\ taken > End(sent, handled) /\ taken - End(sent, handled) = Off + n
    BY <1>1, <1>2, <1>4, <1>5
<1>7. UnderWay(sent, handled, taken, rectsLeft', pendingRect', tilesLeft')
    BY <1>2, <1>6 DEF UnderWay, This
<1>8. UnderWay(sent', handled', Taken(sent', buffer', wire'), rectsLeft', pendingRect', tilesLeft')
    BY <1>6, <1>7
<1>9. RestIsMissing'
    BY <1>3 DEF RestIsMissing
<1>10. handled' \in 0..Len(sent')
    BY <1>2
<1> QED
    BY <1>3, <1>4, <1>8, <1>9, <1>10

LEMMA Waits ==
    ASSUME StreamInv, ~closed, Short, handled < Len(sent) => Len(This) > Off + Len(buffer)
    PROVE  StreamInv'
<1>1. /\ handled \in Nat /\ Len(sent) \in Nat /\ Len(buffer) \in Nat /\ End(sent, handled) \in Nat
      /\ Taken(sent, buffer, wire) \in Int /\ buffer \in Seq(Word)
    BY StreamNumbers DEF StreamInv, StreamTypes
<1>2. /\ draining' = FALSE
      /\ UNCHANGED <<state, minor, parse, requesting, closed, promise, outside, handled>>
    <2>1. /\ draining' = (0 > 0)
          /\ UNCHANGED <<state, minor, parse, requesting, closed, promise, outside, handled>>
        BY Zenon DEF Short, Consume
    <2>2. (0 > 0) = FALSE
        OBVIOUS
    <2> QED
        BY <2>1, <2>2, Zenon
<1>3. buffer' = buffer
    <2>1. /\ buffer' \in Seq(Word) /\ Len(buffer') = Len(buffer) - 0
          /\ \A i \in 1..(Len(buffer) - 0) : buffer'[i] = buffer[i + 0]
        BY <1>1, Shorter DEF Short, Consume
    <2>2. Len(buffer') = Len(buffer) /\ \A i \in 1..Len(buffer) : buffer'[i] = buffer[i]
        BY <1>1, <2>1
    <2> QED
        BY <1>1, <2>1, <2>2, SeqEqual
<1>4. RfbTypeOK' /\ StreamTypes'
    BY <1>2, <1>3 DEF StreamInv, RfbTypeOK, StreamTypes, parse, requesting, outside
<1>5. StreamOpen
    BY DEF StreamInv
<1>6. Unanswered' = Unanswered /\ Messages' = Messages
    BY <1>2 DEF Unanswered, Messages, outside, requesting
<1>7. RestIsMissing'
    <2>1. handled < Len(sent) => End(sent, handled + 1) > Taken(sent, buffer, wire) + Len(buffer)
        <3> SUFFICES ASSUME handled < Len(sent) PROVE End(sent, handled + 1) > Taken(sent, buffer, wire) + Len(buffer)
            OBVIOUS
        <3>1. End(sent, handled + 1) = End(sent, handled) + Len(This) /\ Len(This) \in Nat
            <4>1. handled + 1 \in 1..Len(sent) /\ (handled + 1) - 1 = handled
                BY <1>1
            <4> QED
                BY <1>5, <4>1, StreamNumbers DEF StreamOpen, InTurn, This
        <3>2. Taken(sent, buffer, wire) = End(sent, handled) + Off /\ Off \in Int
            BY <1>1 DEF Off
        <3> QED
            BY <1>1, <3>1, <3>2
    <2> QED
        BY <1>2, <1>3, <2>1 DEF RestIsMissing, outside
<1>8. StreamOpen'
    <2>1. InTurn(sent') /\ Whole(sent', handled', buffer', wire')
          /\ UnderWay(sent', handled', Taken(sent', buffer', wire'), rectsLeft', pendingRect', tilesLeft')
        BY <1>2, <1>3, <1>5 DEF StreamOpen, outside, parse
    <2>2. MessagesAreKnown' /\ AnswersAreOwed'
        BY <1>2, <1>5, <1>6 DEF StreamOpen, MessagesAreKnown, AnswersAreOwed, outside, parse, requesting
    <2> QED
        BY <1>7, <2>1, <2>2 DEF StreamOpen
<1> QED
    BY <1>4, <1>8 DEF StreamInv

LEMMA Throws ==
    ASSUME StreamInv, ~closed, NEW n \in 1..Len(buffer), Throw(n)
    PROVE  StreamInv'
<1>1. Len(buffer) \in Nat /\ n \in 0..Len(buffer) /\ Len(buffer) # 0
    BY StreamNumbers
<1>2. handled < Len(sent) /\ handled \in Nat /\ Len(sent) \in Nat
    BY <1>1, FrontMessage
<1>3. /\ buffer' = SubSeq(buffer, n + 1, Len(buffer)) /\ draining' = FALSE /\ closed'
      /\ promise' \in {promise, "rejected"} /\ handled' = handled + 1
      /\ closed' \in BOOLEAN /\ draining' \in BOOLEAN
      /\ UNCHANGED <<state, minor, parse, requesting, outside>>
    BY DEF Throw
<1>4. buffer' \in Seq(Word)
    BY <1>1, <1>3, Shorter
<1>5. handled' \in 0..Len(sent')
    BY <1>2, <1>3 DEF outside
<1>6. RfbTypeOK'
    BY <1>3, <1>5 DEF StreamInv, RfbTypeOK, parse, requesting, outside
<1>7. StreamTypes'
    BY <1>3, <1>4 DEF StreamInv, StreamTypes, outside
<1> QED
    BY <1>3, <1>6, <1>7 DEF StreamInv

(* What is owed when a message has been handled.                           *)
LEMMA HandledIsOut ==
    ASSUME StreamInv, handled < Len(sent), sent' = sent, handled' = handled + 1
    PROVE  /\ IsFiniteSet(Unanswered) /\ Unanswered' = Unanswered \ {handled + 1}
           /\ Cardinality(Unanswered) \in Nat
           /\ This \notin Updates => Unanswered' = Unanswered
           /\ This \in Updates => Cardinality(Unanswered') = Cardinality(Unanswered) - 1
<1>1. handled \in Nat /\ Len(sent) \in Nat
    BY StreamNumbers
<1>2. IsFiniteSet(Unanswered)
    <2>1. IsFiniteSet((handled + 1)..Len(sent))
        BY <1>1, FS_Interval
    <2> QED
        BY <2>1, FS_Subset DEF Unanswered
<1>3. PICK later \in Nat : later = handled + 1
    BY <1>1
<1>4. Unanswered' = {k \in (later + 1)..Len(sent) : sent[k].says \in Updates}
    BY <1>3 DEF Unanswered
<1>5. Unanswered = {k \in later..Len(sent) : sent[k].says \in Updates}
    BY <1>3 DEF Unanswered
<1>6. Unanswered' = Unanswered \ {later}
    BY <1>1, <1>3, <1>4, <1>5
<1>7. later \in Unanswered <=> This \in Updates
    BY <1>1, <1>3, <1>5 DEF This
<1>8. Cardinality(Unanswered) \in Nat
    BY <1>2, FS_CardinalityType
<1>9. This \notin Updates => Unanswered' = Unanswered
    BY <1>6, <1>7
<1>10. This \in Updates => Cardinality(Unanswered') = Cardinality(Unanswered) - 1
    BY <1>2, <1>6, <1>7, FS_RemoveElement
<1> QED
    BY <1>2, <1>3, <1>6, <1>8, <1>9, <1>10

LEMMA OtherHandled ==
    ASSUME StreamInv, ~closed, handled < Len(sent), UNCHANGED <<sent, requests, owner>>, handled' = handled + 1,
           This \notin Updates
    PROVE  AnswersAreOwed'
<1>1. Unanswered' = Unanswered
    BY HandledIsOut
<1>2. AnswersAreOwed
    BY DEF StreamInv, StreamOpen
<1> QED
    BY <1>1, <1>2 DEF AnswersAreOwed

LEMMA UpdateEnded ==
    ASSUME StreamInv, ~closed, handled < Len(sent), UNCHANGED sent, NEW hadContent, NEW announced,
           EndUpdate(hadContent, announced), This \in Updates
    PROVE  /\ AnswersAreOwed' /\ handled' = handled + 1
           /\ lastKind' \in {"none", "full", "incremental"} /\ owner' \in {"idle", "waiting"} /\ requests' \in Nat
<1>1. handled' = handled + 1
    BY DEF EndUpdate
<1>2. /\ IsFiniteSet(Unanswered) /\ Cardinality(Unanswered) \in Nat
      /\ Cardinality(Unanswered') = Cardinality(Unanswered) - 1
      /\ IsFiniteSet(Unanswered')
    <2>1. /\ IsFiniteSet(Unanswered) /\ Cardinality(Unanswered) \in Nat
          /\ Cardinality(Unanswered') = Cardinality(Unanswered) - 1 /\ Unanswered' = Unanswered \ {handled + 1}
        BY <1>1, HandledIsOut
    <2>2. IsFiniteSet(Unanswered')
        BY <2>1, FS_RemoveElement
    <2> QED
        BY <2>1, <2>2
<1>3. Cardinality(Unanswered') \in Nat
    BY <1>2, FS_CardinalityType
<1>4. /\ requests \in Nat /\ owner \in {"idle", "waiting"} /\ lastKind \in {"none", "full", "incremental"}
      /\ requests + Cardinality(Unanswered) = IF owner = "waiting" THEN 1 ELSE 0
    BY DEF StreamInv, StreamOpen, RfbTypeOK, AnswersAreOwed
<1>5. owner = "waiting" /\ requests = 0 /\ Cardinality(Unanswered) = 1
    BY <1>2, <1>3, <1>4
<1>6. Cardinality(Unanswered') = 0
    BY <1>2, <1>5
<1>7. \/ lastKind' = "incremental" /\ requests' = requests + 1 /\ owner' = owner
      \/ owner' = "idle" /\ lastKind' = lastKind /\ requests' = requests
    BY DEF EndUpdate
<1>8. AnswersAreOwed'
    BY <1>5, <1>6, <1>7 DEF AnswersAreOwed
<1> QED
    BY <1>1, <1>4, <1>5, <1>7, <1>8

(* Between messages.                                                       *)
LEMMA BetweenMessages ==
    ASSUME StreamInv, ~closed, rectsLeft = 0
    PROVE  /\ Off = 0 /\ pendingRect = "none" /\ Len(buffer) \in Nat
           /\ handled < Len(sent) => This \in Seq(Word) /\ Len(This) \in Nat /\ Len(This) > 0
           /\ Len(buffer) # 0 => /\ handled < Len(sent) /\ Head(buffer) = buffer[1]
                                 /\ \A j \in 1..Len(This) : j <= Len(buffer) => buffer[j] = This[j]
<1>1. /\ handled \in Nat /\ Len(sent) \in Nat /\ Len(buffer) \in Nat /\ End(sent, handled) \in Nat
      /\ buffer \in Seq(Word)
    BY StreamNumbers DEF StreamInv, StreamTypes
<1>2. InTurn(sent) /\ UnderWay(sent, handled, Taken(sent, buffer, wire), rectsLeft, pendingRect, tilesLeft)
    BY DEF StreamInv, StreamOpen
<1>3. Off = 0 /\ pendingRect = "none"
    BY <1>1, <1>2 DEF UnderWay, Off
<1>4. ASSUME handled < Len(sent) PROVE This \in Seq(Word) /\ Len(This) \in Nat /\ Len(This) > 0
    <2>1. handled + 1 \in 1..Len(sent)
        BY <1>1, <1>4
    <2> QED
        BY <1>2, <2>1, StreamNumbers DEF InTurn, This
<1>5. ASSUME Len(buffer) # 0
      PROVE  /\ handled < Len(sent) /\ Head(buffer) = buffer[1]
             /\ \A j \in 1..Len(This) : j <= Len(buffer) => buffer[j] = This[j]
    <2>1. /\ handled < Len(sent) /\ Len(This) \in Nat
          /\ \A j \in 1..Len(This) : j > Off /\ j - Off <= Len(buffer) => buffer[j - Off] = This[j]
        BY <1>5, FrontMessage
    <2>2. \A j \in 1..Len(This) : j > 0 /\ j - 0 = j
        BY <2>1
    <2>3. Head(buffer) = buffer[1]
        BY <1>1, <1>5, HeadTailProperties
    <2> QED
        BY <1>3, <2>1, <2>2, <2>3
<1> QED
    BY <1>1, <1>3, <1>4, <1>5

(* What a server says before it is ready.                                  *)
Pieces(m, t, n) == m \in Seq(Word) /\ m[1] = t /\ Len(m) = n
LEMMA FirstPieces ==
    ASSUME NEW S, NEW t \in S, NEW u \in S, NEW v \in S
    PROVE  /\ <<t>> \in Seq(S) /\ Len(<<t>>) = 1 /\ <<t>>[1] = t
           /\ <<t, u>> \in Seq(S) /\ Len(<<t, u>>) = 2 /\ <<t, u>>[1] = t
           /\ <<t, u, v>> \in Seq(S) /\ Len(<<t, u, v>>) = 3 /\ <<t, u, v>>[1] = t
    OBVIOUS
LEMMA OnePiece ==
    ASSUME NEW t \in Opening
    PROVE  Pieces(<<t>>, t, 1)
<1>1. t \in Word
    BY DEF Word
<1>2. <<t>> \in Seq(Word) /\ Len(<<t>>) = 1 /\ <<t>>[1] = t
    BY <1>1, FirstPieces, Zenon
<1> QED
    BY <1>2, Zenon DEF Pieces
LEMMA TwoPieces ==
    ASSUME NEW t \in Opening, NEW u \in Opening
    PROVE  Pieces(<<t, u>>, t, 2)
<1>1. t \in Word /\ u \in Word
    BY DEF Word
<1>2. <<t, u>> \in Seq(Word) /\ Len(<<t, u>>) = 2 /\ <<t, u>>[1] = t
    BY <1>1, FirstPieces, Zenon
<1> QED
    BY <1>2, Zenon DEF Pieces
LEMMA ThreePieces ==
    ASSUME NEW t \in Opening, NEW u \in Opening, NEW v \in Opening
    PROVE  Pieces(<<t, u, v>>, t, 3)
<1>1. t \in Word /\ u \in Word /\ v \in Word
    BY DEF Word
<1>2. <<t, u, v>> \in Seq(Word) /\ Len(<<t, u, v>>) = 3 /\ <<t, u, v>>[1] = t
    BY <1>1, FirstPieces, Zenon
<1> QED
    BY <1>2, Zenon DEF Pieces
LEMMA Openings ==
    /\ \A t \in {"3", "7", "8", "not VNC", "None", "VncAuth", "other", "challenge", "ok", "bad"} : Pieces(<<t>>, t, 1)
    /\ \A t \in {"None", "VncAuth", "both", "other"} : Pieces(<<"count", t>>, "count", 2)
    /\ Pieces(<<"init", "name">>, "init", 2)
    /\ Pieces(<<"bad", "length", "reason">>, "bad", 3)
    /\ Pieces(<<"zero", "length", "reason">>, "zero", 3)
<1>1. ASSUME NEW t \in {"3", "7", "8", "not VNC", "None", "VncAuth", "other", "challenge", "ok", "bad"}
      PROVE  Pieces(<<t>>, t, 1)
    <2>1. t \in Opening
        BY DEF Opening
    <2> QED
        BY <2>1, OnePiece, Zenon
<1>2. ASSUME NEW t \in {"None", "VncAuth", "both", "other"}
      PROVE  Pieces(<<"count", t>>, "count", 2)
    <2>1. t \in Opening /\ "count" \in Opening
        BY DEF Opening
    <2> QED
        BY <2>1, TwoPieces, Zenon
<1>3. {"init", "name", "bad", "length", "reason", "zero"} \subseteq Opening
    BY DEF Opening
<1>4. Pieces(<<"init", "name">>, "init", 2)
    BY <1>3, TwoPieces, Zenon
<1>5. Pieces(<<"bad", "length", "reason">>, "bad", 3)
    BY <1>3, ThreePieces, Zenon
<1>6. Pieces(<<"zero", "length", "reason">>, "zero", 3)
    BY <1>3, ThreePieces, Zenon
<1> QED
    BY <1>1, <1>2, <1>4, <1>5, <1>6, Zenon

LEMMA HandshakeForms ==
    ASSUME state \in Handshake, minor \in {3, 7, 8}, NEW m \in Messages
    PROVE  /\ m \in Seq(Word) /\ Len(m) > 0 /\ m \notin Updates
           /\ state = "version" => Len(m) = 1
           /\ state = "security33" => IF m[1] = "zero" THEN Len(m) = 3 ELSE Len(m) = 1
           /\ state = "security" => IF m[1] = "zero" THEN Len(m) = 3 ELSE m[1] = "count" /\ Len(m) = 2
           /\ state = "auth" => Len(m) = 1
           /\ state = "result" => IF m[1] = "bad" /\ minor >= 8 THEN Len(m) = 3 ELSE Len(m) = 1
           /\ state = "init" => Len(m) = 2
<1>1. \A u \in Updates : u[1] \in {"update0", "update1", "update2"}
    BY ServerAssumption
<1>2. Pieces(Refusal, "zero", 3)
    BY Openings, Zenon DEF Refusal
<1>3. ASSUME NEW t, NEW n, Pieces(m, t, n)
      PROVE  m \in Seq(Word) /\ m[1] = t /\ Len(m) = n
    BY <1>3, Zenon DEF Pieces
<1>10. m[1] \notin {"update0", "update1", "update2"} => m \notin Updates
    BY <1>1
<1>4. CASE state = "version"
    <2>1. m \in {<<"3">>, <<"7">>, <<"8">>, <<"not VNC">>}
        BY <1>4 DEF Messages
    <2>2. \E t \in {"3", "7", "8", "not VNC"} : Pieces(m, t, 1)
        BY <2>1, Openings, Zenon
    <2>3. m \in Seq(Word) /\ m[1] \in {"3", "7", "8", "not VNC"} /\ Len(m) = 1
        BY <1>3, <2>2, Zenon
    <2> QED
        <3>1. m \notin Updates
            BY <1>10, <2>3
        <3>2. m \in Seq(Word) /\ Len(m) = 1
            BY <2>3
        <3>3. Len(m) > 0
            BY <3>2
        <3> QED
            BY <1>4, <3>1, <3>2, <3>3, Zenon
<1>5. CASE state = "security33"
    <2>1. m \in {Refusal, <<"None">>, <<"VncAuth">>, <<"other">>}
        BY <1>5 DEF Messages
    <2>2. Pieces(m, "zero", 3) \/ \E t \in {"None", "VncAuth", "other"} : Pieces(m, t, 1)
        BY <1>2, <2>1, Openings, Zenon
    <2>3. /\ m \in Seq(Word)
          /\ \/ m[1] = "zero" /\ Len(m) = 3
             \/ m[1] \in {"None", "VncAuth", "other"} /\ Len(m) = 1
        BY <1>3, <2>2, Zenon
    <2> QED
        BY <1>10, <1>5, <2>3
<1>6. CASE state = "security"
    <2>1. m = Refusal \/ \E t \in {"None", "VncAuth", "both", "other"} : m = <<"count", t>>
        BY <1>6 DEF Messages
    <2>2. Pieces(m, "zero", 3) \/ Pieces(m, "count", 2)
        BY <1>2, <2>1, Openings, Zenon
    <2>3. m \in Seq(Word) /\ ((m[1] = "zero" /\ Len(m) = 3) \/ (m[1] = "count" /\ Len(m) = 2))
        BY <1>3, <2>2, Zenon
    <2> QED
        BY <1>10, <1>6, <2>3
<1>7. CASE state = "auth"
    <2>1. m = <<"challenge">>
        BY <1>7 DEF Messages
    <2>2. Pieces(m, "challenge", 1)
        BY <2>1, Openings, Zenon
    <2>3. m \in Seq(Word) /\ m[1] = "challenge" /\ Len(m) = 1
        BY <1>3, <2>2, Zenon
    <2> QED
        BY <1>10, <1>7, <2>3
<1>8. CASE state = "result"
    <2>1. m = <<"ok">> \/ (minor = 8 /\ m = <<"bad", "length", "reason">>) \/ (minor # 8 /\ m = <<"bad">>)
        BY <1>8 DEF Messages
    <2>2. Pieces(m, "ok", 1) \/ (minor = 8 /\ Pieces(m, "bad", 3)) \/ (minor # 8 /\ Pieces(m, "bad", 1))
        BY <2>1, Openings, Zenon
    <2>3. /\ m \in Seq(Word)
          /\ \/ m[1] = "ok" /\ Len(m) = 1
             \/ minor = 8 /\ m[1] = "bad" /\ Len(m) = 3
             \/ minor # 8 /\ m[1] = "bad" /\ Len(m) = 1
        BY <1>3, <2>2, Zenon
    <2> QED
        BY <1>10, <1>8, <2>3
<1>9. CASE state = "init"
    <2>1. m = <<"init", "name">>
        BY <1>9 DEF Messages
    <2>2. Pieces(m, "init", 2)
        BY <2>1, Openings, Zenon
    <2>3. m \in Seq(Word) /\ m[1] = "init" /\ Len(m) = 2
        BY <1>3, <2>2, Zenon
    <2> QED
        BY <1>10, <1>9, <2>3
<1> QED
    BY <1>4, <1>5, <1>6, <1>7, <1>8, <1>9 DEF Handshake

LEMMA Greeting ==
    ASSUME StreamInv, ~closed, state # "ready"
    PROVE  /\ state \in Handshake /\ minor \in {3, 7, 8} /\ rectsLeft = 0 /\ handled >= Len(sent) - 1
           /\ handled < Len(sent) => This \in Messages
<1>1. state \in Handshake \cup {"ready"} /\ minor \in {3, 7, 8}
    BY DEF StreamInv, RfbTypeOK
<1>2. MessagesAreKnown /\ handled \in Nat /\ Len(sent) \in Nat
    BY StreamNumbers DEF StreamInv, StreamOpen
<1> QED
    BY <1>1, <1>2 DEF MessagesAreKnown, This

LEMMA WaitsBetween ==
    ASSUME StreamInv, ~closed, rectsLeft = 0, Short, handled < Len(sent) => Len(This) > Len(buffer)
    PROVE  StreamInv'
<1>1. Off = 0 /\ Len(buffer) \in Nat
    BY BetweenMessages
<1> QED
    BY <1>1, Waits

LEMMA WaitsForSome ==
    ASSUME StreamInv, ~closed, rectsLeft = 0, Short, Len(buffer) = 0
    PROVE  StreamInv'
<1>1. handled < Len(sent) => Len(This) > Len(buffer)
    BY BetweenMessages
<1> QED
    BY <1>1, WaitsBetween

LEMMA Passing ==
    ASSUME StreamInv, ~closed, state # "ready", NEW n \in 1..Len(buffer), NEW s \in Handshake \cup {"ready"},
           Passes(n, s), n = Len(This), minor' \in {3, 7, 8}, promise' \in {promise, "resolved"}
    PROVE  StreamInv'
<1>1. /\ rectsLeft = 0 /\ pendingRect = "none" /\ Off = 0 /\ handled < Len(sent) /\ Len(buffer) \in Nat
      /\ handled \in Nat /\ Len(sent) \in Nat
    <2>1. Len(buffer) # 0 /\ rectsLeft = 0
        BY Greeting, StreamNumbers
    <2> QED
        BY <2>1, BetweenMessages, StreamNumbers
<1>2. /\ Consume(n) /\ state' = s /\ handled' = handled + 1
      /\ UNCHANGED <<parse, requesting, closed, outside>>
    BY Zenon DEF Passes
<1>3. /\ UNCHANGED <<sent, wire, password, rectsLeft, pendingRect, tilesLeft, had, layout, lastKind, owner, requests, closed>>
    BY <1>2 DEF parse, requesting, outside
<1>4. Off + n = Len(This)
    BY <1>1
<1>5. /\ buffer' \in Seq(Word) /\ draining' = TRUE /\ handled' \in 0..Len(sent')
      /\ InTurn(sent') /\ Whole(sent', handled', buffer', wire') /\ RestIsMissing'
      /\ UnderWay(sent', handled', Taken(sent', buffer', wire'), rectsLeft', pendingRect', tilesLeft')
    BY <1>1, <1>2, <1>3, <1>4, Finishes
<1>6. This \notin Updates /\ handled' = Len(sent)
    BY <1>1, <1>2, Greeting, HandshakeForms
<1>7. AnswersAreOwed'
    BY <1>1, <1>2, <1>3, <1>6, OtherHandled
<1>8. MessagesAreKnown'
    <2>1. PICK all \in Nat : all = Len(sent)
        BY <1>1
    <2>2. handled' = all /\ Len(sent') = all /\ rectsLeft' = 0
        BY <1>1, <1>3, <1>6, <2>1
    <2>3. (all + 1)..all = {} /\ all <= all + 1 /\ ~(all < all)
        BY <2>1
    <2> QED
        BY <2>2, <2>3 DEF MessagesAreKnown
<1>9. RfbTypeOK'
    <2>1. state' \in Handshake \cup {"ready"} /\ draining' \in BOOLEAN /\ promise' \in {"none", "pending", "resolved", "rejected"}
        BY <1>2, <1>5 DEF StreamInv, RfbTypeOK
    <2> QED
        BY <1>3, <1>5, <2>1 DEF StreamInv, RfbTypeOK
<1>10. StreamTypes'
    BY <1>3, <1>5 DEF StreamInv, StreamTypes
<1> QED
    BY <1>5, <1>7, <1>8, <1>9, <1>10 DEF StreamInv, StreamOpen

(* The handshake, message by message.                                      *)
LEMMA HandshakeKeeps ==
    ASSUME StreamInv, \/ ReadVersion \/ ReadSecurity33 \/ ReadSecurity
                      \/ ReadAuthChallenge \/ ReadSecurityResult \/ ReadServerInit
    PROVE  StreamInv'
<1>1. draining /\ state \in Handshake
    BY DEF ReadVersion, ReadSecurity33, ReadSecurity, ReadAuthChallenge, ReadSecurityResult, ReadServerInit, Handshake
<1>2. ~closed /\ state # "ready"
    BY <1>1 DEF StreamInv, StreamTypes, Handshake
<1>3. /\ minor \in {3, 7, 8} /\ rectsLeft = 0 /\ Len(buffer) \in Nat
      /\ handled < Len(sent) => This \in Messages
    BY <1>2, Greeting, StreamNumbers
<1>4. Short /\ Len(buffer) = 0 => StreamInv'
    BY <1>2, <1>3, WaitsForSome
<1>5. Short /\ Len(buffer) < Len(This) => StreamInv'
    <2>1. Len(buffer) < Len(This) => (handled < Len(sent) => Len(This) > Len(buffer))
        <3> SUFFICES ASSUME Len(buffer) < Len(This), handled < Len(sent) PROVE Len(This) > Len(buffer)
            OBVIOUS
        <3>1. Len(This) \in Nat
            BY <1>2, <1>3, BetweenMessages
        <3> QED
            BY <1>3, <3>1
    <2> QED
        BY <1>2, <1>3, <2>1, WaitsBetween
<1>6. \A n \in 1..Len(buffer) : Throw(n) => StreamInv'
    BY <1>2, Throws
<1>7. ASSUME NEW n \in 1..Len(buffer), NEW s \in Handshake \cup {"ready"}, Passes(n, s), n = Len(This),
             minor' \in {3, 7, 8}, promise' \in {promise, "resolved"}
      PROVE  StreamInv'
    BY <1>2, <1>7, Passing
<1>8. CASE Len(buffer) = 0
    <2>1. Short
        BY <1>8 DEF Has, ReadVersion, ReadSecurity33, ReadSecurity, ReadAuthChallenge, ReadSecurityResult, ReadServerInit
    <2> QED
        BY <1>4, <1>8, <2>1
<1>9. CASE Len(buffer) # 0
    <2>1. /\ Head(buffer) = buffer[1] /\ Len(This) \in Nat /\ Len(This) > 0 /\ This \in Messages
          /\ \A j \in 1..Len(This) : j <= Len(buffer) => buffer[j] = This[j]
        BY <1>2, <1>3, <1>9, BetweenMessages
    <2>2. Has(1) /\ 1 \in 1..Len(buffer) /\ Head(buffer) = This[1]
        BY <1>3, <1>9, <2>1 DEF Has
    <2>3. /\ state = "version" => Len(This) = 1
          /\ state = "security33" => IF This[1] = "zero" THEN Len(This) = 3 ELSE Len(This) = 1
          /\ state = "security" => IF This[1] = "zero" THEN Len(This) = 3 ELSE This[1] = "count" /\ Len(This) = 2
          /\ state = "auth" => Len(This) = 1
          /\ state = "result" => IF This[1] = "bad" /\ minor >= 8 THEN Len(This) = 3 ELSE Len(This) = 1
          /\ state = "init" => Len(This) = 2
        BY <1>1, <1>3, <2>1, HandshakeForms
    <2>4. \A n \in {1, 2, 3} : (Has(n) => n \in 1..Len(buffer)) /\ (~Has(n) => Len(buffer) < n)
        BY <1>3, <1>9 DEF Has
    <2>5. CASE ReadVersion
        <3>1. state = "version" /\ Len(This) = 1
            BY <2>3, <2>5 DEF ReadVersion
        <3>2. CASE Throw(1)
            BY <1>6, <2>2, <3>2
        <3>3. CASE /\ minor' = CASE Head(buffer) = "3" -> 3 [] Head(buffer) = "7" -> 7 [] OTHER -> 8
                   /\ Passes(1, IF minor' = 3 THEN "security33" ELSE "security")
                   /\ UNCHANGED promise
            <4>1. minor' \in {3, 7, 8} /\ promise' = promise
                BY <3>3
            <4>2. Passes(1, "security33") \/ Passes(1, "security")
                BY <3>3
            <4> QED
                BY <1>7, <2>2, <3>1, <4>1, <4>2 DEF Handshake
        <3> QED
            BY <2>2, <2>5, <3>2, <3>3 DEF ReadVersion
    <2>6. CASE ReadSecurity33
        <3>1. state = "security33"
            BY <2>6 DEF ReadSecurity33
        <3>2. CASE Head(buffer) = "zero" /\ (IF Has(3) THEN Throw(3) ELSE Short)
            BY <1>5, <1>6, <2>2, <2>3, <2>4, <3>1, <3>2
        <3>3. CASE Throw(1)
            BY <1>6, <2>2, <3>3
        <3>4. CASE /\ Head(buffer) \in {"None", "VncAuth"}
                   /\ Passes(1, IF Head(buffer) = "None" THEN "init" ELSE "auth")
                   /\ UNCHANGED <<minor, promise>>
            <4>1. Passes(1, "init") \/ Passes(1, "auth")
                BY <3>4
            <4>2. Len(This) = 1 /\ minor' \in {3, 7, 8} /\ promise' = promise
                BY <1>3, <2>2, <2>3, <3>1, <3>4
            <4> QED
                BY <1>7, <2>2, <4>1, <4>2 DEF Handshake
        <3> QED
            BY <2>2, <2>6, <3>2, <3>3, <3>4 DEF ReadSecurity33
    <2>7. CASE ReadSecurity
        <3>1. state = "security"
            BY <2>7 DEF ReadSecurity
        <3>2. CASE Head(buffer) = "zero" /\ (IF Has(3) THEN Throw(3) ELSE Short)
            BY <1>5, <1>6, <2>2, <2>3, <2>4, <3>1, <3>2
        <3>3. CASE Head(buffer) = "count" /\ ~Has(2) /\ Short
            BY <1>5, <2>2, <2>3, <2>4, <3>1, <3>3
        <3>4. CASE Has(2) /\ Throw(2)
            BY <1>6, <2>4, <3>4
        <3>5. CASE /\ Has(2) /\ Head(buffer) = "count"
                   /\ Passes(2, "auth") \/ Passes(2, IF minor >= 8 THEN "result" ELSE "init")
                   /\ UNCHANGED <<minor, promise>>
            <4>1. Passes(2, "auth") \/ Passes(2, "result") \/ Passes(2, "init")
                BY <3>5
            <4>2. Len(This) = 2 /\ minor' \in {3, 7, 8} /\ promise' = promise /\ 2 \in 1..Len(buffer)
                BY <1>3, <2>2, <2>3, <2>4, <3>1, <3>5
            <4> QED
                BY <1>7, <4>1, <4>2 DEF Handshake
        <3> QED
            BY <2>2, <2>7, <3>2, <3>3, <3>4, <3>5 DEF ReadSecurity
    <2>8. CASE ReadAuthChallenge
        <3>1. Passes(1, "result") /\ UNCHANGED <<minor, promise>> /\ Len(This) = 1
            BY <2>2, <2>3, <2>8 DEF ReadAuthChallenge
        <3> QED
            BY <1>3, <1>7, <2>2, <3>1 DEF Handshake
    <2>9. CASE ReadSecurityResult
        <3>1. state = "result"
            BY <2>9 DEF ReadSecurityResult
        <3>2. CASE Head(buffer) = "ok" /\ Passes(1, "init") /\ UNCHANGED <<minor, promise>>
            <4>1. Len(This) = 1
                BY <2>2, <2>3, <3>1, <3>2
            <4> QED
                BY <1>3, <1>7, <2>2, <3>2, <4>1 DEF Handshake
        <3>3. CASE Throw(1)
            BY <1>6, <2>2, <3>3
        <3>4. CASE Head(buffer) = "bad" /\ minor >= 8 /\ (IF Has(3) THEN Throw(3) ELSE Short)
            BY <1>5, <1>6, <2>2, <2>3, <2>4, <3>1, <3>4
        <3> QED
            BY <2>2, <2>9, <3>2, <3>3, <3>4 DEF ReadSecurityResult
    <2>10. CASE ReadServerInit
        <3>1. Len(This) = 2
            BY <2>3, <2>10 DEF ReadServerInit
        <3>2. CASE Has(2) /\ Passes(2, "ready") /\ promise' = "resolved" /\ UNCHANGED minor
            BY <1>3, <1>7, <2>4, <3>1, <3>2
        <3>3. CASE ~Has(2) /\ Short
            BY <1>5, <2>4, <3>1, <3>3
        <3> QED
            BY <2>10, <3>2, <3>3 DEF ReadServerInit
    <2> QED
        BY <2>5, <2>6, <2>7, <2>8, <2>9, <2>10
<1> QED
    BY <1>8, <1>9

(* The messages of a server that is ready.                                 *)
LEMMA ReadyMessage ==
    ASSUME StreamInv, ~closed, state = "ready", handled < Len(sent)
    PROVE  This \in Updates \cup Others
<1>1. handled + 1 \in (handled + 1)..Len(sent)
    BY StreamNumbers
<1> QED
    BY <1>1 DEF StreamInv, StreamOpen, MessagesAreKnown, This

LEMMA KnownStay ==
    ASSUME StreamInv, ~closed, state = "ready", state' = state, sent' = sent, NEW later \in {handled, handled + 1},
           handled' = later
    PROVE  MessagesAreKnown'
<1>1. handled \in Nat /\ Len(sent) \in Nat /\ later \in Nat
    BY StreamNumbers
<1>2. \A k \in (handled + 1)..Len(sent) : sent[k].says \in Updates \cup Others
    BY DEF StreamInv, StreamOpen, MessagesAreKnown
<1>3. \A k \in (later + 1)..Len(sent) : k \in (handled + 1)..Len(sent)
    BY <1>1
<1> HIDE DEF StreamInv
<1>4. \A k \in (later + 1)..Len(sent) : sent[k].says \in Updates \cup Others
    BY <1>2, <1>3, Zenon
<1> QED
    BY <1>4, Zenon DEF MessagesAreKnown

LEMMA UpdateFinished ==
    ASSUME StreamInv, ~closed, state = "ready", NEW n \in 1..Len(buffer), Consume(n), Off + n = Len(This),
           UNCHANGED <<state, minor, closed, promise, outside>>, This \in Updates, rectsLeft' = 0, pendingRect' = "none",
           tilesLeft' \in 0..Tiles, had' \in BOOLEAN, layout' \in BOOLEAN,
           NEW hadContent, NEW announced, EndUpdate(hadContent, announced)
    PROVE  StreamInv'
<1>1. handled < Len(sent) /\ UNCHANGED <<sent, wire, password>>
    BY FrontMessage, StreamNumbers DEF outside
<1>2. /\ AnswersAreOwed' /\ handled' = handled + 1
      /\ lastKind' \in {"none", "full", "incremental"} /\ owner' \in {"idle", "waiting"} /\ requests' \in Nat
    BY <1>1, UpdateEnded
<1>3. /\ buffer' \in Seq(Word) /\ draining' = TRUE /\ handled' \in 0..Len(sent')
      /\ InTurn(sent') /\ Whole(sent', handled', buffer', wire') /\ RestIsMissing'
      /\ UnderWay(sent', handled', Taken(sent', buffer', wire'), rectsLeft', pendingRect', tilesLeft')
    BY <1>1, <1>2, Finishes
<1>4. MessagesAreKnown'
    BY <1>1, <1>2, KnownStay
<1>5. RfbTypeOK'
    <2>1. draining' \in BOOLEAN /\ rectsLeft' \in 0..2
        BY <1>3
    <2> QED
        BY <1>1, <1>2, <1>3, <2>1 DEF StreamInv, RfbTypeOK
<1>6. StreamTypes'
    BY <1>1, <1>3 DEF StreamInv, StreamTypes
<1> QED
    BY <1>2, <1>3, <1>4, <1>5, <1>6 DEF StreamInv, StreamOpen

LEMMA UpdateGoesOn ==
    ASSUME StreamInv, ~closed, state = "ready", NEW n \in 1..Len(buffer), Consume(n), rectsLeft' \in 1..2,
           UNCHANGED <<state, minor, closed, promise, outside, handled, requesting>>, This \in Updates,
           Ahead(This, Off + n, rectsLeft', pendingRect', tilesLeft'),
           tilesLeft' \in 0..Tiles, had' \in BOOLEAN, layout' \in BOOLEAN
    PROVE  StreamInv'
<1>1. UNCHANGED <<sent, wire, password, handled, lastKind, owner, requests>> /\ rectsLeft' # 0
    BY DEF outside, requesting
<1>2. /\ buffer' \in Seq(Word) /\ draining' = TRUE /\ handled' \in 0..Len(sent')
      /\ InTurn(sent') /\ Whole(sent', handled', buffer', wire') /\ RestIsMissing'
      /\ UnderWay(sent', handled', Taken(sent', buffer', wire'), rectsLeft', pendingRect', tilesLeft')
    BY <1>1, Continues
<1>3. MessagesAreKnown'
    BY <1>1, KnownStay
<1>4. AnswersAreOwed'
    <2>1. Unanswered' = Unanswered
        BY <1>1 DEF Unanswered
    <2> QED
        BY <1>1, <2>1 DEF StreamInv, StreamOpen, AnswersAreOwed
<1>5. RfbTypeOK'
    <2>1. draining' \in BOOLEAN /\ rectsLeft' \in 0..2
        BY <1>2
    <2> QED
        BY <1>1, <1>2, <2>1 DEF StreamInv, RfbTypeOK
<1>6. StreamTypes'
    BY <1>1, <1>2 DEF StreamInv, StreamTypes
<1> QED
    BY <1>2, <1>3, <1>4, <1>5, <1>6 DEF StreamInv, StreamOpen

LEMMA OtherFinished ==
    ASSUME StreamInv, ~closed, state = "ready", rectsLeft = 0, NEW n \in 1..Len(buffer), Simple(n), n = Len(This),
           This \notin Updates
    PROVE  StreamInv'
<1>1. /\ Consume(n) /\ handled' = handled + 1
      /\ UNCHANGED <<state, minor, parse, requesting, closed, promise, outside>>
    BY Zenon DEF Simple
<1>2. UNCHANGED <<sent, wire, password, rectsLeft, pendingRect, tilesLeft, had, layout, lastKind, owner, requests>>
    BY <1>1 DEF outside, requesting, parse
<1>3. handled < Len(sent) /\ Off + n = Len(This) /\ pendingRect = "none"
    <2>1. Len(buffer) # 0
        BY StreamNumbers
    <2> QED
        BY <2>1, BetweenMessages
<1>4. /\ buffer' \in Seq(Word) /\ draining' = TRUE /\ handled' \in 0..Len(sent')
      /\ InTurn(sent') /\ Whole(sent', handled', buffer', wire') /\ RestIsMissing'
      /\ UnderWay(sent', handled', Taken(sent', buffer', wire'), rectsLeft', pendingRect', tilesLeft')
    BY <1>1, <1>2, <1>3, Finishes
<1>5. MessagesAreKnown'
    BY <1>1, <1>2, KnownStay
<1>6. AnswersAreOwed'
    BY <1>1, <1>2, <1>3, OtherHandled
<1>7. RfbTypeOK'
    <2>1. draining' \in BOOLEAN
        BY <1>4
    <2> QED
        BY <1>1, <1>2, <1>4, <2>1 DEF StreamInv, RfbTypeOK
<1>8. StreamTypes'
    BY <1>1, <1>2, <1>4 DEF StreamInv, StreamTypes
<1> QED
    BY <1>4, <1>5, <1>6, <1>7, <1>8 DEF StreamInv, StreamOpen

(* Rectangles follow one another.                                          *)
LEMMA Sizes == \A r : Body(r) \in 0..2 /\ Size(r) \in Nat /\ (r # "hextile" => Size(r) = Body(r)) /\ Size("hextile") = 4
    BY DEF Body, Size, Tiles

LEMMA RoomForRects ==
    ASSUME NEW m, NEW i \in Nat, NEW n \in 0..2, Len(m) \in Nat, RectsFollow(m, i, n)
    PROVE  i <= Len(m) /\ (n = 0 => i = Len(m)) /\ (n > 0 => i < Len(m))
    BY DEF RectsFollow

LEMMA RectsGoOn ==
    ASSUME NEW m, NEW i \in Nat, NEW n \in 1..2, Len(m) \in Nat, RectsFollow(m, i, n), m[i + 1] # "unknown"
    PROVE  RectsFollow(m, i + 1 + Size(m[i + 1]), n - 1)
<1>1. PICK j \in Nat : j = Behind(m, i) /\ j = i + 1 + Size(m[i + 1])
    BY Sizes DEF Behind
<1>2. CASE n = 1
    <2>1. j = Len(m)
        BY <1>1, <1>2 DEF RectsFollow
    <2> QED
        BY <1>1, <1>2, <2>1 DEF RectsFollow
<1>3. CASE n = 2
    <2>1. j < Len(m) /\ (m[j + 1] = "unknown" \/ Behind(m, j) = Len(m))
        BY <1>1, <1>3 DEF RectsFollow
    <2>2. RectsFollow(m, j, 1)
        BY <1>1, <2>1 DEF RectsFollow
    <2> QED
        BY <1>1, <1>3, <2>2
<1> QED
    BY <1>2, <1>3

LEMMA RectRead ==
    ASSUME StreamInv, ~closed, state = "ready", rectsLeft > 0, NEW n \in 1..Len(buffer), NEW r, Consume(n), RectDone(r),
           UNCHANGED <<state, minor, closed, promise, outside>>, RectsFollow(This, Off + n, rectsLeft - 1)
    PROVE  StreamInv'
<1>1. /\ rectsLeft \in 1..2 /\ This \in Updates /\ Len(This) \in Nat /\ Off \in Nat /\ Len(buffer) \in Nat
      /\ had \in BOOLEAN /\ layout \in BOOLEAN
    <2>1. rectsLeft \in 1..2 /\ had \in BOOLEAN /\ layout \in BOOLEAN
        BY DEF StreamInv, RfbTypeOK
    <2>2. This \in Updates
        BY <2>1 DEF StreamInv, StreamOpen, UnderWay, This
    <2> QED
        BY <2>1, <2>2, FrontMessage, StreamNumbers
<1>2. rectsLeft' = rectsLeft - 1 /\ pendingRect' = "none" /\ tilesLeft' = 0
    BY DEF RectDone
<1>3. /\ had' = (had \/ r \in {"raw", "copy", "rre", "hextile", "size", "moved"})
      /\ layout' = (layout \/ r = "layout")
    BY Zenon DEF RectDone
<1>4. had' \in BOOLEAN /\ layout' \in BOOLEAN /\ tilesLeft' \in 0..Tiles
    BY <1>2, <1>3 DEF Tiles
<1>5. CASE rectsLeft = 1
    <2>1. PICK contained, announced : EndUpdate(contained, announced)
        <3>1. EndUpdate(had', layout')
            BY <1>5, Zenon DEF RectDone
        <3>2. \E contained, announced : contained = had' /\ announced = layout'
            OBVIOUS
        <3> QED
            BY <3>1, <3>2, Zenon DEF EndUpdate
    <2>2. Off + n = Len(This)
        BY <1>1, <1>5, RoomForRects
    <2>3. rectsLeft' = 0
        BY <1>2, <1>5
    <2> QED
        BY <1>1, <1>2, <1>4, <2>1, <2>2, <2>3, UpdateFinished
<1>6. CASE rectsLeft # 1
    <2>1. UNCHANGED <<handled, requesting>>
        BY <1>6, Zenon DEF RectDone
    <2>2. rectsLeft' \in 1..2
        BY <1>1, <1>2, <1>6
    <2>3. Ahead(This, Off + n, rectsLeft', pendingRect', tilesLeft')
        BY <1>2 DEF Ahead
    <2> QED
        BY <1>1, <1>4, <2>1, <2>2, <2>3, UpdateGoesOn
<1> QED
    BY <1>5, <1>6

LEMMA RectWaits ==
    ASSUME StreamInv, ~closed, Consume(0), Len(This) > Off + Len(buffer),
           UNCHANGED <<state, minor, closed, promise, outside, handled, requesting>>,
           UNCHANGED <<rectsLeft, pendingRect, tilesLeft, had, layout>>
    PROVE  StreamInv'
<1>1. Short
    BY Zenon DEF Short, parse
<1> QED
    BY <1>1, Waits

(* As many tiles as are there, and no more than are left.                  *)
LEMMA WholeTiles ==
    ASSUME NEW c \in Nat, NEW l \in 0..2
    PROVE  \E w \in 0..2 : w = Min2(c \div 2, l) /\ 2 * w <= c /\ w <= l /\ (w # l => c < 2 * w + 2)
<1>1. PICK d \in Nat : d = c \div 2 /\ 2 * d <= c /\ c < 2 * d + 2
    OBVIOUS
<1>2. CASE d < l
    <2>1. Min2(c \div 2, l) = d /\ d \in 0..2
        BY <1>1, <1>2 DEF Min2
    <2> QED
        BY <1>1, <1>2, <2>1
<1>3. CASE ~(d < l)
    <2>1. Min2(c \div 2, l) = l /\ 2 * l <= c
        BY <1>1, <1>3 DEF Min2
    <2> QED
        BY <2>1
<1> QED
    BY <1>2, <1>3

LEMMA RectKeeps == StreamInv /\ ReadRect => StreamInv'
<1> SUFFICES ASSUME StreamInv, ReadRect PROVE StreamInv'
    OBVIOUS
<1> DEFINE skip == IF pendingRect = "none" THEN 1 ELSE 0
           r == IF skip = 1 THEN Head(buffer) ELSE pendingRect
           here == Len(buffer) - skip
           left == IF skip = 1 THEN Tiles ELSE tilesLeft
           whole == Min2(here \div 2, left)
<1>1. /\ draining /\ state = "ready" /\ rectsLeft > 0
      /\ \/ skip = 1 /\ ~Has(1) /\ Short
         \/ Has(skip) /\ r = "unknown" /\ Throw(skip)
         \/ /\ Has(skip) /\ r = "hextile" /\ Consume(skip + 2 * whole)
            /\ IF whole = left
               THEN RectDone(r)
               ELSE /\ pendingRect' = r /\ tilesLeft' = left - whole
                    /\ UNCHANGED <<rectsLeft, had, layout, requesting, handled>>
            /\ UNCHANGED <<state, minor, closed, promise, outside>>
         \/ /\ Has(skip) /\ r \notin {"unknown", "hextile"}
            /\ IF here >= Body(r)
               THEN Consume(skip + Body(r)) /\ RectDone(r)
               ELSE /\ Consume(skip) /\ pendingRect' = r
                    /\ UNCHANGED <<rectsLeft, tilesLeft, had, layout, requesting, handled>>
            /\ UNCHANGED <<state, minor, closed, promise, outside>>
    BY Zenon DEF ReadRect
<1>2. /\ ~closed /\ rectsLeft \in 1..2 /\ tilesLeft \in 0..Tiles /\ Len(buffer) \in Nat /\ skip \in {0, 1}
      /\ had \in BOOLEAN /\ layout \in BOOLEAN
    BY <1>1, StreamNumbers DEF StreamInv, StreamTypes, RfbTypeOK
<1>3. /\ handled < Len(sent) /\ Len(This) \in Nat /\ Off \in Nat
      /\ \A j \in 1..Len(This) : j > Off /\ j - Off <= Len(buffer) => buffer[j - Off] = This[j]
    BY <1>1, <1>2, FrontMessage
<1>4. This \in Updates /\ Ahead(This, Off, rectsLeft, pendingRect, tilesLeft)
    BY <1>2 DEF StreamInv, StreamOpen, UnderWay, This, Off
<1>7. left \in 0..2
    BY <1>2 DEF Tiles
<1>8. here \in Nat => \E w \in 0..2 : w = whole /\ 2 * w <= here /\ w <= left /\ (w # left => here < 2 * w + 2)
    <2> HIDE DEF left, here
    <2> QED
        BY <1>7, WholeTiles
<1> HIDE DEF whole
<1>5. CASE pendingRect = "none"
    <2>1. skip = 1 /\ left = 2 /\ RectsFollow(This, Off, rectsLeft)
        BY <1>4, <1>5 DEF Ahead, Tiles
    <2>2. Off < Len(This)
        BY <1>2, <1>3, <2>1, RoomForRects
    <2>3. CASE ~Has(1) /\ Short
        <3>1. Len(buffer) = 0
            BY <1>2, <2>3 DEF Has
        <3>2. Len(This) > Off + Len(buffer)
            BY <1>3, <2>2, <3>1
        <3> QED
            BY <1>2, <2>3, <3>2, Waits
    <2>4. CASE Has(1)
        <3>1. Len(buffer) > 0 /\ r = This[Off + 1]
            <4>1. Len(buffer) > 0 /\ buffer \in Seq(Word)
                BY <1>2, <2>4 DEF Has, StreamInv, StreamTypes
            <4>2. Head(buffer) = buffer[1]
                BY <4>1, HeadTailProperties
            <4>3. PICK j \in 1..Len(This) : j = Off + 1 /\ j - Off = 1
                BY <1>3, <2>2
            <4>4. buffer[1] = This[j]
                BY <1>2, <1>3, <4>1, <4>3
            <4> QED
                BY <2>1, <4>1, <4>2, <4>3, <4>4
        <3>2. CASE r = "unknown" /\ Throw(1)
            BY <1>2, <3>1, <3>2, Throws
        <3>3. r # "unknown" => RectsFollow(This, Off + 1 + Size(r), rectsLeft - 1)
            BY <1>2, <1>3, <2>1, <3>1, RectsGoOn
        <3>4. CASE /\ r = "hextile" /\ Consume(1 + 2 * whole)
                   /\ IF whole = left
                      THEN RectDone(r)
                      ELSE /\ pendingRect' = r /\ tilesLeft' = left - whole
                           /\ UNCHANGED <<rectsLeft, had, layout, requesting, handled>>
                   /\ UNCHANGED <<state, minor, closed, promise, outside>>
            <4>1. PICK w \in 0..2 : w = whole /\ 2 * w <= Len(buffer) - 1
                <5>1. here \in Nat /\ here = Len(buffer) - 1
                    BY <1>2, <2>1, <3>1
                <5> QED
                    BY <1>8, <5>1
            <4>2. PICK n \in 1..Len(buffer) : n = 1 + 2 * w
                BY <1>2, <3>1, <4>1
            <4>3. RectsFollow(This, Off + 5, rectsLeft - 1)
                <5>1. Off + 1 + Size(r) = Off + 5
                    BY <1>3, <3>4, Sizes
                <5> QED
                    BY <3>3, <3>4, <5>1
            <4>4. Consume(n)
                BY <3>4, <4>1, <4>2
            <4>5. CASE w = 2
                <5>1. RectDone(r) /\ UNCHANGED <<state, minor, closed, promise, outside>>
                    BY <2>1, <3>4, <4>1, <4>5
                <5>2. RectsFollow(This, Off + n, rectsLeft - 1)
                    BY <4>2, <4>3, <4>5
                <5> HIDE DEF r
                <5> QED
                    BY <1>1, <1>2, <4>4, <5>1, <5>2, RectRead
            <4>6. CASE w # 2
                <5>1. /\ pendingRect' = "hextile" /\ tilesLeft' = 2 - w
                      /\ UNCHANGED <<rectsLeft, had, layout, requesting, handled>>
                      /\ UNCHANGED <<state, minor, closed, promise, outside>>
                    BY <2>1, <3>4, <4>1, <4>6
                <5>2. Off + n + 2 * tilesLeft' = Off + 5 /\ tilesLeft' > 0 /\ tilesLeft' \in 0..Tiles
                    BY <1>3, <4>1, <4>2, <4>6, <5>1 DEF Tiles
                <5>3. Ahead(This, Off + n, rectsLeft', pendingRect', tilesLeft')
                    BY <4>3, <5>1, <5>2 DEF Ahead
                <5> QED
                    BY <1>1, <1>2, <1>4, <4>4, <5>1, <5>2, <5>3, UpdateGoesOn
            <4> QED
                BY <4>5, <4>6
        <3>5. CASE /\ r \notin {"unknown", "hextile"}
                   /\ IF here >= Body(r)
                      THEN Consume(1 + Body(r)) /\ RectDone(r)
                      ELSE /\ Consume(1) /\ pendingRect' = r
                           /\ UNCHANGED <<rectsLeft, tilesLeft, had, layout, requesting, handled>>
                   /\ UNCHANGED <<state, minor, closed, promise, outside>>
            <4>1. PICK b \in 0..2 : b = Body(r) /\ b = Size(r)
                BY <3>5, Sizes
            <4>2. RectsFollow(This, Off + 1 + b, rectsLeft - 1)
                BY <3>3, <3>5, <4>1
            <4>3. CASE here >= b
                <5>1. PICK n \in 1..Len(buffer) : n = 1 + b
                    BY <1>2, <2>1, <4>3
                <5>2. /\ Consume(n) /\ RectDone(r) /\ UNCHANGED <<state, minor, closed, promise, outside>>
                    BY <3>5, <4>1, <4>3, <5>1
                <5>3. RectsFollow(This, Off + n, rectsLeft - 1)
                    <6>1. Off + n = Off + 1 + b
                        BY <1>3, <5>1
                    <6> QED
                        BY <4>2, <6>1
                <5> HIDE DEF r
                <5> QED
                    BY <1>1, <1>2, <5>2, <5>3, RectRead
            <4>4. CASE ~(here >= b)
                <5>1. /\ Consume(1) /\ pendingRect' = r
                      /\ UNCHANGED <<rectsLeft, tilesLeft, had, layout, requesting, handled>>
                      /\ UNCHANGED <<state, minor, closed, promise, outside>>
                    BY <3>5, <4>1, <4>4
                <5>2. b > 0 /\ r \notin {"none", "hextile"}
                    <6>1. b > 0
                        BY <1>2, <2>1, <3>1, <4>4
                    <6>2. Body("none") = 0
                        BY DEF Body
                    <6> QED
                        BY <3>5, <4>1, <6>1, <6>2
                <5>3. Ahead(This, Off + 1, rectsLeft', pendingRect', tilesLeft')
                    BY <4>1, <4>2, <5>1, <5>2 DEF Ahead
                <5>4. 1 \in 1..Len(buffer) /\ rectsLeft' \in 1..2
                    BY <1>2, <3>1, <5>1
                <5>5. tilesLeft' \in 0..Tiles /\ had' \in BOOLEAN /\ layout' \in BOOLEAN
                    BY <1>2, <5>1
                <5> QED
                    BY <1>1, <1>2, <1>4, <5>1, <5>3, <5>4, <5>5, UpdateGoesOn
            <4> QED
                BY <4>3, <4>4
        <3> QED
            BY <1>1, <2>1, <2>4, <3>2, <3>4, <3>5
    <2> QED
        BY <1>1, <2>1, <2>3, <2>4
<1>6. CASE pendingRect # "none"
    <2>1. skip = 0 /\ r = pendingRect /\ here = Len(buffer) /\ left = tilesLeft
        BY <1>2, <1>6
    <2>2. pendingRect # "hextile" => Body(pendingRect) > 0 /\ RectsFollow(This, Off + Body(pendingRect), rectsLeft - 1)
        BY <1>4, <1>6 DEF Ahead
    <2>3. pendingRect # "unknown"
        <3>1. Body("unknown") = 0
            BY DEF Body
        <3> QED
            BY <2>2, <3>1
    <2>4. CASE pendingRect = "hextile"
        <3>1. tilesLeft > 0 /\ RectsFollow(This, Off + 2 * tilesLeft, rectsLeft - 1)
            BY <1>4, <2>4 DEF Ahead
        <3>2. /\ Consume(0 + 2 * whole)
              /\ IF whole = left
                 THEN RectDone(r)
                 ELSE /\ pendingRect' = r /\ tilesLeft' = left - whole
                      /\ UNCHANGED <<rectsLeft, had, layout, requesting, handled>>
              /\ UNCHANGED <<state, minor, closed, promise, outside>>
            BY <1>1, <2>1, <2>4
        <3>3. PICK w \in 0..2 : w = whole /\ 2 * w <= Len(buffer) /\ w <= tilesLeft
                                /\ (w # tilesLeft => Len(buffer) < 2 * w + 2)
            <4>1. PICK w \in 0..2 : w = whole /\ 2 * w <= here /\ w <= left /\ (w # left => here < 2 * w + 2)
                BY <1>2, <1>8, <2>1
            <4> QED
                BY <2>1, <4>1
        <3>4. 2 * tilesLeft + Off <= Len(This)
            <4>1. PICK i \in Nat : i = Off + 2 * tilesLeft
                BY <1>2, <1>3 DEF Tiles
            <4>2. rectsLeft - 1 \in 0..2
                BY <1>2
            <4>3. RectsFollow(This, i, rectsLeft - 1)
                BY <3>1, <4>1
            <4>4. i <= Len(This)
                BY <1>3, <4>2, <4>3, RoomForRects
            <4> QED
                BY <1>2, <1>3, <4>1, <4>4 DEF Tiles
        <3>5. Consume(2 * w)
            BY <3>2, <3>3
        <3>6. CASE w = tilesLeft
            <4>1. RectDone(r)
                BY <2>1, <3>2, <3>3, <3>6
            <4>2. PICK n \in 1..Len(buffer) : n = 2 * w /\ n = 2 * tilesLeft
                BY <1>2, <3>1, <3>3, <3>6 DEF Tiles
            <4>3. RectsFollow(This, Off + n, rectsLeft - 1) /\ Consume(n)
                BY <3>1, <3>5, <4>2
            <4> HIDE DEF r
            <4> QED
                BY <1>1, <1>2, <3>2, <4>1, <4>3, RectRead
        <3>7. CASE w # tilesLeft /\ w = 0
            <4>1. /\ pendingRect' = pendingRect /\ tilesLeft' = tilesLeft - 0
                  /\ UNCHANGED <<rectsLeft, had, layout, requesting, handled>>
                BY <2>1, <3>2, <3>3, <3>7
            <4>2. Consume(0) /\ tilesLeft' = tilesLeft
                BY <1>2, <3>5, <3>7, <4>1 DEF Tiles
            <4>3. Len(This) > Off + Len(buffer)
                BY <1>2, <1>3, <3>1, <3>3, <3>4, <3>7 DEF Tiles
            <4>4. UNCHANGED <<state, minor, closed, promise, outside, handled, requesting>>
                BY <3>2, <4>1
            <4>5. UNCHANGED <<rectsLeft, pendingRect, tilesLeft, had, layout>>
                BY <4>1, <4>2
            <4> QED
                BY <1>2, <4>2, <4>3, <4>4, <4>5, RectWaits
        <3>8. CASE w # tilesLeft /\ w # 0
            <4>1. /\ pendingRect' = "hextile" /\ tilesLeft' = tilesLeft - w
                  /\ UNCHANGED <<rectsLeft, had, layout, requesting, handled>>
                BY <2>1, <2>4, <3>2, <3>3, <3>8
            <4>2. PICK n \in 1..Len(buffer) : n = 2 * w
                BY <1>2, <3>3, <3>8
            <4>3. tilesLeft' > 0 /\ tilesLeft' \in 0..Tiles /\ Off + n + 2 * tilesLeft' = Off + 2 * tilesLeft
                BY <1>2, <1>3, <3>3, <3>8, <4>1, <4>2 DEF Tiles
            <4>4. Ahead(This, Off + n, rectsLeft', pendingRect', tilesLeft')
                BY <3>1, <4>1, <4>3 DEF Ahead
            <4>5. Consume(n)
                BY <3>5, <4>2
            <4>6. rectsLeft' \in 1..2 /\ had' \in BOOLEAN /\ layout' \in BOOLEAN
                BY <1>2, <4>1
            <4>7. UNCHANGED <<state, minor, closed, promise, outside, handled, requesting>>
                BY <3>2, <4>1
            <4> QED
                BY <1>1, <1>2, <1>4, <4>3, <4>4, <4>5, <4>6, <4>7, UpdateGoesOn
        <3> QED
            BY <3>6, <3>7, <3>8
    <2>5. CASE pendingRect # "hextile"
        <3>1. /\ IF here >= Body(r)
                 THEN Consume(0 + Body(r)) /\ RectDone(r)
                 ELSE /\ Consume(0) /\ pendingRect' = r
                      /\ UNCHANGED <<rectsLeft, tilesLeft, had, layout, requesting, handled>>
              /\ UNCHANGED <<state, minor, closed, promise, outside>>
            <4>1. r \notin {"unknown", "hextile"}
                BY <2>1, <2>3, <2>5
            <4> HIDE DEF r, here
            <4> QED
                BY <1>1, <2>1, <4>1
        <3>2. PICK b \in 1..2 : b = Body(r) /\ b = Body(pendingRect)
            BY <2>1, <2>2, <2>5, Sizes
        <3>3. RectsFollow(This, Off + b, rectsLeft - 1)
            BY <2>2, <2>5, <3>2
        <3>4. CASE Len(buffer) >= b
            <4>1. b \in 1..Len(buffer) /\ Consume(b) /\ RectDone(r)
                BY <1>2, <2>1, <3>1, <3>2, <3>4
            <4> HIDE DEF r
            <4> QED
                BY <1>1, <1>2, <3>1, <3>3, <4>1, RectRead
        <3>5. CASE ~(Len(buffer) >= b)
            <4>1. /\ Consume(0) /\ pendingRect' = pendingRect
                  /\ UNCHANGED <<rectsLeft, tilesLeft, had, layout, requesting, handled>>
                BY <2>1, <3>1, <3>2, <3>5
            <4>2. Len(This) > Off + Len(buffer)
                <5>1. PICK i \in Nat : i = Off + b
                    BY <1>3, <3>2
                <5>2. rectsLeft - 1 \in 0..2
                    BY <1>2
                <5>3. i <= Len(This)
                    BY <1>3, <3>3, <5>1, <5>2, RoomForRects
                <5> QED
                    BY <1>2, <1>3, <3>5, <5>1, <5>3
            <4>3. UNCHANGED <<state, minor, closed, promise, outside, handled, requesting>>
                BY <3>1, <4>1
            <4>4. UNCHANGED <<rectsLeft, pendingRect, tilesLeft, had, layout>>
                BY <4>1
            <4> QED
                BY <1>2, <4>1, <4>2, <4>3, <4>4, RectWaits
        <3> QED
            BY <3>4, <3>5
    <2> QED
        BY <2>4, <2>5
<1> QED
    BY <1>5, <1>6

LEMMA MessageKeeps == StreamInv /\ ReadMessage => StreamInv'
<1> SUFFICES ASSUME StreamInv, ReadMessage PROVE StreamInv'
    OBVIOUS
<1>1. draining /\ state = "ready" /\ rectsLeft = 0
    BY DEF ReadMessage
<1>2. ~closed /\ Len(buffer) \in Nat /\ tilesLeft \in 0..Tiles
    BY <1>1, StreamNumbers DEF StreamInv, StreamTypes, RfbTypeOK
<1>3. Off = 0 /\ pendingRect = "none"
    BY <1>1, <1>2, BetweenMessages
<1>4. CASE ~Has(1) /\ Short
    <2>1. Len(buffer) = 0
        BY <1>2, <1>4 DEF Has
    <2> QED
        BY <1>1, <1>2, <1>4, <2>1, WaitsForSome
<1>5. CASE Has(1)
    <2>1. /\ Len(buffer) # 0 /\ 1 \in 1..Len(buffer) /\ handled < Len(sent) /\ Head(buffer) = buffer[1]
          /\ Len(This) \in Nat /\ Len(This) > 0
          /\ \A j \in 1..Len(This) : j <= Len(buffer) => buffer[j] = This[j]
        <3>1. Len(buffer) # 0 /\ 1 \in 1..Len(buffer)
            BY <1>2, <1>5 DEF Has
        <3> QED
            BY <1>1, <1>2, <3>1, BetweenMessages
    <2>2. Head(buffer) = This[1]
        BY <2>1
    <2>3. This \in Updates \cup Others
        BY <1>1, <1>2, <2>1, ReadyMessage
    <2>4. \A m \in Updates : m[1] \in {"update0", "update1", "update2"} /\ RectsFollow(m, 1, RectCount(m[1]))
        BY ServerAssumption
    <2>5. \A m \in Others : \/ m[1] \in {"bell", "EndOfContinuousUpdates", "junk"} /\ Len(m) = 1
                            \/ m[1] = "cut" /\ Len(m) = 2 /\ m[2] = "too long"
                            \/ m[1] = "cut" /\ Len(m) = 3 /\ m[2] = "length"
        BY ServerAssumption
    <2>6. CASE ReadUpdate
        <3>1. Head(buffer) \in {"update0", "update1", "update2"}
            BY <2>6 DEF ReadUpdate
        <3>2. This \in Updates /\ RectsFollow(This, 1, RectCount(This[1]))
            <4>1. This \notin Others
                BY <2>2, <2>5, <3>1
            <4> QED
                BY <2>3, <2>4, <4>1
        <3>3. PICK many \in 0..2 : many = RectCount(This[1])
            BY DEF RectCount
        <3>4. /\ Consume(1) /\ rectsLeft' = many /\ had' = FALSE /\ layout' = FALSE
              /\ IF many = 0 THEN EndUpdate(FALSE, FALSE) ELSE UNCHANGED <<handled, requesting>>
              /\ UNCHANGED <<state, minor, pendingRect, tilesLeft, closed, promise, outside>>
            BY <2>2, <2>6, <3>3, Zenon DEF ReadUpdate
        <3>5. UNCHANGED <<state, minor, closed, promise, outside>> /\ tilesLeft' \in 0..Tiles /\ pendingRect' = "none"
            BY <1>2, <1>3, <3>4
        <3>6. had' \in BOOLEAN /\ layout' \in BOOLEAN
            BY <3>4
        <3>7. RectsFollow(This, 1, many) /\ Off + 1 = 1
            BY <1>3, <3>2, <3>3
        <3>8. CASE many = 0
            <4>1. Off + 1 = Len(This)
                BY <2>1, <3>7, <3>8, RoomForRects
            <4>2. rectsLeft' = 0 /\ EndUpdate(FALSE, FALSE)
                BY <3>4, <3>8
            <4> QED
                BY <1>1, <1>2, <2>1, <3>2, <3>4, <3>5, <3>6, <4>1, <4>2, UpdateFinished
        <3>9. CASE many # 0
            <4>1. rectsLeft' \in 1..2 /\ UNCHANGED <<handled, requesting>>
                BY <3>4, <3>9
            <4>2. Ahead(This, Off + 1, rectsLeft', pendingRect', tilesLeft')
                BY <3>4, <3>5, <3>7 DEF Ahead
            <4>3. UNCHANGED <<state, minor, closed, promise, outside, handled, requesting>>
                BY <3>5, <4>1
            <4> QED
                BY <1>1, <1>2, <2>1, <3>2, <3>4, <3>5, <3>6, <4>1, <4>2, <4>3, UpdateGoesOn
        <3> QED
            BY <3>8, <3>9
    <2>7. CASE ReadCutText
        <3>1. Head(buffer) = "cut"
            BY <2>7 DEF ReadCutText
        <3>2. /\ This \notin Updates
              /\ (Len(This) = 2 /\ This[2] = "too long") \/ (Len(This) = 3 /\ This[2] = "length")
            <4>1. This \notin Updates
                BY <2>2, <2>4, <3>1
            <4>2. This \in Others
                BY <2>3, <4>1
            <4> QED
                BY <2>2, <2>5, <3>1, <4>1, <4>2
        <3>3. Has(2) => 2 \in 1..Len(buffer) /\ buffer[2] = This[2]
            <4>1. 2 \in 1..Len(This)
                <5>1. Len(This) \in {2, 3}
                    BY <3>2
                <5> QED
                    BY <5>1
            <4>2. Has(2) => 2 \in 1..Len(buffer) /\ 2 <= Len(buffer)
                BY <1>2 DEF Has
            <4> QED
                BY <2>1, <4>1, <4>2
        <3>4. CASE ~Has(2) /\ Short
            <4>1. Len(This) > Len(buffer)
                <5>1. Len(This) \in {2, 3}
                    BY <3>2
                <5>2. ~(Len(buffer) >= 2)
                    BY <3>4 DEF Has
                <5> QED
                    BY <1>2, <5>1, <5>2
            <4> QED
                BY <1>1, <1>2, <3>4, <4>1, WaitsBetween
        <3>5. CASE Has(2) /\ Throw(2)
            BY <1>2, <3>3, <3>5, Throws
        <3>6. CASE Has(2) /\ buffer[2] = "length" /\ ~Has(3) /\ Short
            <4>1. Len(This) = 3
                BY <3>2, <3>3, <3>6
            <4>2. Len(This) > Len(buffer)
                BY <1>2, <3>6, <4>1 DEF Has
            <4> QED
                BY <1>1, <1>2, <3>6, <4>2, WaitsBetween
        <3>7. CASE Has(3) /\ buffer[2] = "length" /\ Simple(3)
            <4>1. 3 \in 1..Len(buffer) /\ Has(2)
                BY <1>2, <3>7 DEF Has
            <4>2. Len(This) = 3
                BY <3>2, <3>3, <3>7, <4>1
            <4> QED
                BY <1>1, <1>2, <3>2, <3>7, <4>1, <4>2, OtherFinished
        <3> QED
            BY <2>7, <3>4, <3>5, <3>6, <3>7 DEF ReadCutText
    <2>8. CASE Head(buffer) \in {"bell", "EndOfContinuousUpdates"} /\ Simple(1)
        <3>1. This \notin Updates
            BY <2>2, <2>4, <2>8
        <3>2. This \in Others
            BY <2>3, <3>1
        <3>3. Len(This) = 1
            BY <2>2, <2>5, <2>8, <3>2
        <3> QED
            BY <1>1, <1>2, <2>1, <2>8, <3>1, <3>3, OtherFinished
    <2>9. CASE Throw(1)
        BY <1>2, <2>1, <2>9, Throws
    <2> QED
        BY <1>5, <2>6, <2>7, <2>8, <2>9 DEF ReadMessage
<1> QED
    BY <1>4, <1>5 DEF ReadMessage

(* A chunk arrives, wherever it was cut.                                   *)
LEMMA DataKeeps == StreamInv /\ Data => StreamInv'
<1> SUFFICES ASSUME StreamInv, Data PROVE StreamInv'
    OBVIOUS
<1>1. /\ ~closed /\ draining' = TRUE
      /\ UNCHANGED <<state, minor, parse, requesting, closed, promise, password, sent, handled>>
    BY Zenon DEF Data
<1>2. PICK n \in 1..Len(wire) : buffer' = buffer \o SubSeq(wire, 1, n) /\ wire' = SubSeq(wire, n + 1, Len(wire))
    BY DEF Data
<1>3. /\ buffer \in Seq(Word) /\ wire \in Seq(Word) /\ Len(buffer) \in Nat /\ Len(wire) \in Nat
      /\ handled \in Nat /\ Len(sent) \in Nat /\ \A k \in 0..Len(sent) : End(sent, k) \in Nat
      /\ \A k \in 1..Len(sent) : Len(sent[k].says) \in Nat
    BY StreamNumbers DEF StreamInv, StreamTypes
<1>4. \A i \in 1..Len(wire) : wire[i] \in Word
    BY <1>3, ElementOfSeq
<1>5. /\ SubSeq(wire, 1, n) \in Seq(Word) /\ Len(SubSeq(wire, 1, n)) = n
      /\ \A i \in 1..n : SubSeq(wire, 1, n)[i] = wire[i]
    <2>1. \A i \in 1..n : wire[i] \in Word
        BY <1>3, <1>4
    <2>2. n \in Int /\ n - 1 + 1 = n /\ 1 <= n
        BY <1>3
    <2>3. /\ SubSeq(wire, 1, n) \in Seq(Word)
          /\ Len(SubSeq(wire, 1, n)) = (IF 1 <= n THEN n - 1 + 1 ELSE 0)
          /\ \A i \in 1..(n - 1 + 1) : SubSeq(wire, 1, n)[i] = wire[1 + i - 1]
        BY <1>3, <2>1, <2>2, SubSeqProperties
    <2>4. \A i \in 1..n : 1 + i - 1 = i
        OBVIOUS
    <2> QED
        BY <2>2, <2>3, <2>4
<1>6. /\ wire' \in Seq(Word) /\ Len(wire') = Len(wire) - n
      /\ \A i \in 1..(Len(wire) - n) : wire'[i] = wire[i + n]
    <2>1. PICK from \in Int : from = n + 1
        BY <1>3
    <2>2. \A i \in from..Len(wire) : wire[i] \in Word
        BY <1>3, <1>4, <2>1
    <2>3. /\ SubSeq(wire, from, Len(wire)) \in Seq(Word)
          /\ Len(SubSeq(wire, from, Len(wire))) = (IF from <= Len(wire) THEN Len(wire) - from + 1 ELSE 0)
          /\ \A i \in 1..(Len(wire) - from + 1) : SubSeq(wire, from, Len(wire))[i] = wire[from + i - 1]
        BY <1>3, <2>2, SubSeqProperties
    <2>4. wire' = SubSeq(wire, from, Len(wire))
        BY <1>2, <2>1
    <2>5. Len(wire') = Len(wire) - n
        BY <1>3, <2>1, <2>3, <2>4
    <2>6. ASSUME NEW i \in 1..(Len(wire) - n) PROVE wire'[i] = wire[i + n]
        <3>1. i \in 1..(Len(wire) - from + 1) /\ from + i - 1 = i + n
            BY <1>3, <2>1
        <3> QED
            BY <2>3, <2>4, <3>1
    <2> QED
        BY <2>3, <2>4, <2>5, <2>6
<1>7. /\ buffer' \in Seq(Word) /\ Len(buffer') = Len(buffer) + n
      /\ \A i \in 1..(Len(buffer) + n) : buffer'[i] = IF i <= Len(buffer) THEN buffer[i] ELSE wire[i - Len(buffer)]
    <2>1. /\ buffer' \in Seq(Word) /\ Len(buffer') = Len(buffer) + n
          /\ \A i \in 1..(Len(buffer) + n) :
                buffer'[i] = IF i <= Len(buffer) THEN buffer[i] ELSE SubSeq(wire, 1, n)[i - Len(buffer)]
        BY <1>2, <1>3, <1>5, ConcatProperties
    <2>2. \A i \in 1..(Len(buffer) + n) : ~(i <= Len(buffer)) => i - Len(buffer) \in 1..n
        BY <1>3
    <2> QED
        BY <1>5, <2>1, <2>2
<1>8. Taken(sent', buffer', wire') = Taken(sent, buffer, wire)
    <2>1. PICK last \in Nat : last = End(sent, Len(sent)) /\ last = End(sent', Len(sent'))
        BY <1>1, <1>3
    <2>2. Len(wire') + Len(buffer') = Len(wire) + Len(buffer) /\ Len(wire') \in Nat /\ Len(buffer') \in Nat
        BY <1>3, <1>6, <1>7
    <2> QED
        BY <1>3, <2>1, <2>2, SMTT(30) DEF Taken
<1>9. StreamOpen
    BY <1>1 DEF StreamInv
<1>10. \A i \in 1..(Len(buffer) + Len(wire)) : Piece(buffer', wire', i) = Piece(buffer, wire, i)
    <2> SUFFICES ASSUME NEW i \in 1..(Len(buffer) + Len(wire)) PROVE Piece(buffer', wire', i) = Piece(buffer, wire, i)
        OBVIOUS
    <2>1. CASE i <= Len(buffer) + n
        <3>1. i \in 1..(Len(buffer) + n) /\ i <= Len(buffer')
            BY <1>3, <1>7, <2>1
        <3> QED
            BY <1>7, <3>1 DEF Piece
    <2>2. CASE ~(i <= Len(buffer) + n)
        <3>1. /\ ~(i <= Len(buffer')) /\ ~(i <= Len(buffer)) /\ i - Len(buffer') \in 1..(Len(wire) - n)
              /\ (i - Len(buffer')) + n = i - Len(buffer)
            BY <1>3, <1>7, <2>2
        <3>2. wire'[i - Len(buffer')] = wire[i - Len(buffer)]
            BY <1>6, <3>1
        <3> QED
            BY <3>1, <3>2 DEF Piece
    <2> QED
        BY <2>1, <2>2
<1>11. PICK taken \in Int : taken = Taken(sent, buffer, wire) /\ taken = End(sent, Len(sent)) - Len(wire) - Len(buffer)
    BY StreamNumbers DEF Taken
<1>12. InTurn(sent) /\ Whole(sent, handled, buffer, wire)
    BY <1>9 DEF StreamOpen
<1>13. ASSUME NEW k \in (handled + 1)..Len(sent), NEW j \in 1..Len(sent[k].says), End(sent, k - 1) + j > taken
       PROVE  Piece(buffer', wire', End(sent, k - 1) + j - taken) = sent[k].says[j]
    <2>1. k \in 1..Len(sent) /\ k - 1 \in 0..Len(sent) /\ k \in 0..Len(sent) /\ Len(sent) \in 0..Len(sent) /\ k <= Len(sent)
        BY <1>3
    <2>2. PICK before \in Nat : before = End(sent, k - 1)
        BY <1>3, <2>1
    <2>3. End(sent, k) = before + Len(sent[k].says) /\ End(sent, k) <= End(sent, Len(sent)) /\ Len(sent[k].says) \in Nat
        BY <1>3, <1>12, <2>1, <2>2 DEF InTurn
    <2>4. PICK i \in Int : i = before + j - taken
        BY <2>2, <2>3
    <2>5. i \in 1..(Len(buffer) + Len(wire))
        <3>1. PICK end \in Nat, last \in Nat : end = End(sent, k) /\ last = End(sent, Len(sent))
            BY <1>3, <2>1
        <3>2. PICK long \in Nat : long = Len(sent[k].says) /\ j \in 1..long
            BY <2>3
        <3>3. end = before + long /\ end <= last
            BY <2>2, <2>3, <3>1, <3>2
        <3>4. i > 0 /\ i <= end - taken
            <4>1. before + j > taken
                BY <1>13, <2>2
            <4>2. j \in Nat /\ j <= long
                BY <3>2
            <4>3. i > 0
                BY <2>4, <4>1, <4>2
            <4>4. i <= (before + long) - taken
                BY <2>4, <4>2
            <4> QED
                BY <3>3, <4>3, <4>4
        <3>5. taken = last - Len(wire) - Len(buffer)
            BY <1>11, <3>1
        <3>6. i <= last - taken
            BY <3>3, <3>4
        <3>7. last - taken = Len(buffer) + Len(wire)
            BY <1>3, <3>5
        <3> QED
            BY <1>3, <3>4, <3>6, <3>7
    <2>6. Piece(buffer, wire, i) = sent[k].says[j]
        BY <1>11, <1>12, <1>13, <2>2, <2>4 DEF Whole
    <2> QED
        BY <1>10, <2>2, <2>4, <2>5, <2>6
<1>14. InTurn(sent') /\ Whole(sent', handled', buffer', wire')
    BY <1>1, <1>8, <1>11, <1>12, <1>13 DEF Whole
<1>15. UnderWay(sent', handled', Taken(sent', buffer', wire'), rectsLeft', pendingRect', tilesLeft')
    BY <1>1, <1>8, <1>9 DEF StreamOpen, parse
<1>16. MessagesAreKnown' /\ AnswersAreOwed'
    <2>1. Messages' = Messages /\ Unanswered' = Unanswered
        BY <1>1 DEF Messages, Unanswered, requesting
    <2> QED
        BY <1>1, <1>9, <2>1 DEF StreamOpen, MessagesAreKnown, AnswersAreOwed, parse, requesting
<1>17. RestIsMissing'
    BY <1>1 DEF RestIsMissing
<1>18. RfbTypeOK' /\ StreamTypes'
    BY <1>1, <1>6, <1>7 DEF StreamInv, RfbTypeOK, StreamTypes, parse, requesting
<1> QED
    BY <1>14, <1>15, <1>16, <1>17, <1>18 DEF StreamInv, StreamOpen

LEMMA MessagesAreSeqs ==
    ASSUME StreamInv, NEW m \in Messages
    PROVE  /\ m \in Seq(Word) /\ Len(m) \in Nat /\ Len(m) > 0
           /\ m \in Updates => state = "ready" /\ requests > 0
           /\ state = "ready" => m \in Updates \cup Others
<1>1. state \in Handshake \cup {"ready"} /\ minor \in {3, 7, 8} /\ requests \in Nat
    BY DEF StreamInv, RfbTypeOK
<1>2. CASE state = "ready"
    <2>1. m \in Others \/ (requests > 0 /\ m \in Updates)
        BY <1>2 DEF Messages
    <2>2. m \in Seq(STRING) /\ m # <<>>
        BY <2>1, ServerAssumption
    <2>3. m \in Seq(Word)
        <3>1. STRING \subseteq Word
            BY DEF Word
        <3> QED
            BY <2>2, <3>1, SeqMonotonic
    <2>4. Len(m) \in Nat /\ Len(m) > 0
        BY <2>2, EmptySeq, LenProperties
    <2>5. m \in Updates => requests > 0
        <3>1. \A u \in Updates : u[1] \in {"update0", "update1", "update2"}
            BY ServerAssumption
        <3>2. \A u \in Others : u[1] \in {"bell", "EndOfContinuousUpdates", "junk", "cut"}
            BY ServerAssumption
        <3> QED
            BY <2>1, <3>1, <3>2
    <2> QED
        BY <1>2, <2>1, <2>3, <2>4, <2>5
<1>3. CASE state # "ready"
    <2>1. m \in Seq(Word) /\ Len(m) > 0 /\ m \notin Updates
        BY <1>1, <1>3, HandshakeForms
    <2> QED
        BY <1>3, <2>1, LenProperties
<1> QED
    BY <1>2, <1>3

(* The server sends a message.                                             *)
LEMMA SendKeeps ==
    ASSUME StreamInv, NEW m \in Messages, Send(m)
    PROVE  StreamInv'
<1>1. /\ ~closed /\ ~draining
      /\ IF state = "ready" THEN Len(sent) < MaxMessages ELSE handled = Len(sent)
      /\ sent' = Append(sent, [says |-> m, upTo |-> EndOf(Len(sent)) + Len(m)]) /\ wire' = wire \o m
      /\ requests' = IF m \in Updates THEN requests - 1 ELSE requests
      /\ UNCHANGED <<state, minor, buffer, draining, parse, lastKind, owner, closed, promise, password, handled>>
    BY DEF Send
<1>2. /\ buffer \in Seq(Word) /\ wire \in Seq(Word) /\ sent \in Seq(Message) /\ Len(buffer) \in Nat /\ Len(wire) \in Nat
      /\ handled \in Nat /\ Len(sent) \in Nat /\ handled <= Len(sent)
      /\ \A k \in 0..Len(sent) : End(sent, k) \in Nat
      /\ \A k \in 1..Len(sent) : Len(sent[k].says) \in Nat
    BY StreamNumbers DEF StreamInv, StreamTypes
<1>3. /\ m \in Seq(Word) /\ Len(m) \in Nat /\ Len(m) > 0
      /\ (m \in Updates => state = "ready" /\ requests > 0)
      /\ (state = "ready" => m \in Updates \cup Others)
    BY MessagesAreSeqs
<1>4. PICK all \in Nat, last \in Nat : all = Len(sent) /\ last = End(sent, all)
    BY <1>2
<1>5. /\ sent' \in Seq(Message) /\ Len(sent') = all + 1 /\ \A k \in 1..all : sent'[k] = sent[k]
      /\ sent'[all + 1] = [says |-> m, upTo |-> last + Len(m)]
    <2>1. EndOf(Len(sent)) = last
        BY <1>4 DEF EndOf, End
    <2>2. [says |-> m, upTo |-> last + Len(m)] \in Message
        BY <1>3 DEF Message
    <2> QED
        BY <1>1, <1>2, <1>4, <2>1, <2>2, AppendProperties
<1>6. sent'[all + 1].says = m /\ sent'[all + 1].upTo = last + Len(m)
    BY <1>5
<1>7. /\ \A k \in 0..all : End(sent', k) = End(sent, k)
      /\ End(sent', all + 1) = last + Len(m)
    BY <1>5, <1>6 DEF End
<1>8. /\ wire' \in Seq(Word) /\ Len(wire') = Len(wire) + Len(m)
      /\ \A i \in 1..(Len(wire) + Len(m)) : wire'[i] = IF i <= Len(wire) THEN wire[i] ELSE m[i - Len(wire)]
    BY <1>1, <1>2, <1>3, ConcatProperties
<1>9. PICK taken \in Int : taken = Taken(sent, buffer, wire) /\ taken = last - Len(wire) - Len(buffer)
    BY <1>4, StreamNumbers DEF Taken
<1>10. Taken(sent', buffer', wire') = taken
    <2>1. End(sent', Len(sent')) = last + Len(m) /\ buffer' = buffer
        BY <1>1, <1>5, <1>7
    <2>2. last + Len(m) - (Len(wire) + Len(m)) - Len(buffer) = taken
        BY <1>2, <1>3, <1>9
    <2> QED
        BY <1>8, <2>1, <2>2 DEF Taken
<1>11. StreamOpen /\ InTurn(sent) /\ Whole(sent, handled, buffer, wire)
    BY <1>1 DEF StreamInv, StreamOpen
<1>12. \A k \in 0..all : End(sent, k) \in Nat /\ End(sent, k) <= last
    BY <1>2, <1>4, <1>11 DEF InTurn
<1>13. InTurn(sent')
    <2>1. ASSUME NEW k \in 1..(all + 1)
          PROVE  Len(sent'[k].says) > 0 /\ End(sent', k) = End(sent', k - 1) + Len(sent'[k].says)
        <3>1. CASE k \in 1..all
            <4>1. k \in 0..all /\ k - 1 \in 0..all
                BY <3>1
            <4>2. Len(sent[k].says) > 0 /\ End(sent, k) = End(sent, k - 1) + Len(sent[k].says)
                BY <1>4, <1>11, <3>1 DEF InTurn
            <4> QED
                BY <1>5, <1>7, <3>1, <4>1, <4>2
        <3>2. CASE k = all + 1
            <4>1. k - 1 = all /\ all \in 0..all
                BY <3>2
            <4> QED
                BY <1>3, <1>4, <1>6, <1>7, <3>2, <4>1
        <3> QED
            BY <3>1, <3>2
    <2>2. ASSUME NEW j \in 0..(all + 1), NEW k \in 0..(all + 1), j <= k PROVE End(sent', j) <= End(sent', k)
        <3>1. CASE k \in 0..all
            <4>1. j \in 0..all
                BY <2>2, <3>1
            <4> QED
                BY <1>4, <1>7, <1>11, <2>2, <3>1, <4>1 DEF InTurn
        <3>2. CASE k = all + 1 /\ j \in 0..all
            <4>1. PICK e \in Nat : e = End(sent, j) /\ e <= last
                BY <1>12, <3>2
            <4>2. e <= last + Len(m)
                BY <1>3, <4>1
            <4> QED
                BY <1>7, <3>2, <4>1, <4>2
        <3>3. CASE k = all + 1 /\ j = all + 1
            <4>1. last + Len(m) <= last + Len(m)
                BY <1>3
            <4> QED
                BY <1>7, <3>3, <4>1
        <3> QED
            BY <3>1, <3>2, <3>3
    <2> QED
        BY <1>5, <2>1, <2>2 DEF InTurn
<1>14. ASSUME NEW k \in (handled + 1)..(all + 1), NEW j \in 1..Len(sent'[k].says), End(sent', k - 1) + j > taken
       PROVE  Piece(buffer, wire', End(sent', k - 1) + j - taken) = sent'[k].says[j]
    <2>1. CASE k \in (handled + 1)..all
        <3>1. k \in 1..all /\ k - 1 \in 0..all /\ k \in 0..all
            BY <1>2, <2>1
        <3>2. PICK before \in Nat, long \in Nat : /\ before = End(sent, k - 1) /\ long = Len(sent[k].says) /\ j \in 1..long
                                                  /\ before + long = End(sent, k)
            BY <1>2, <1>4, <1>5, <1>11, <3>1 DEF InTurn
        <3>3. before + long <= last
            BY <1>12, <3>1, <3>2
        <3>4. before + j > taken
            BY <1>7, <1>14, <3>1, <3>2
        <3>5. PICK i \in Int : i = before + j - taken
            BY <3>2
        <3>6. i <= Len(buffer) + Len(wire) /\ i > 0
            <4>1. j \in Nat /\ j <= long
                BY <3>2
            <4>2. i > 0
                BY <3>4, <3>5, <4>1
            <4>3. i <= last - taken
                BY <3>3, <3>5, <4>1
            <4>4. last - taken = Len(buffer) + Len(wire)
                BY <1>2, <1>9
            <4> QED
                BY <1>2, <4>2, <4>3, <4>4
        <3>7. Piece(buffer, wire', i) = Piece(buffer, wire, i)
            <4>1. CASE i <= Len(buffer)
                BY <4>1 DEF Piece
            <4>2. CASE ~(i <= Len(buffer))
                <5>1. i - Len(buffer) \in 1..(Len(wire) + Len(m)) /\ i - Len(buffer) <= Len(wire)
                    BY <1>2, <1>3, <3>6, <4>2
                <5>2. wire'[i - Len(buffer)] = wire[i - Len(buffer)]
                    BY <1>8, <5>1
                <5> QED
                    BY <4>2, <5>2 DEF Piece
            <4> QED
                BY <4>1, <4>2
        <3>8. Piece(buffer, wire, i) = sent[k].says[j]
            BY <1>4, <1>9, <1>11, <2>1, <3>2, <3>4, <3>5 DEF Whole
        <3> QED
            BY <1>5, <1>7, <3>1, <3>2, <3>5, <3>7, <3>8
    <2>2. CASE k = all + 1
        <3>1. k - 1 = all /\ all \in 0..all /\ End(sent', k - 1) = last /\ sent'[k].says = m
            BY <1>4, <1>6, <1>7, <2>2
        <3>2. j \in 1..Len(m)
            BY <3>1
        <3>3. PICK i \in Int : i = last + j - taken /\ i = Len(buffer) + Len(wire) + j
            BY <1>2, <1>9, <3>2
        <3>4. /\ ~(i <= Len(buffer)) /\ i - Len(buffer) \in 1..(Len(wire) + Len(m))
              /\ ~(i - Len(buffer) <= Len(wire)) /\ (i - Len(buffer)) - Len(wire) = j
            BY <1>2, <1>3, <3>2, <3>3
        <3>5. wire'[i - Len(buffer)] = m[j]
            BY <1>8, <3>4
        <3>6. Piece(buffer, wire', i) = m[j]
            BY <3>4, <3>5 DEF Piece
        <3> QED
            BY <3>1, <3>3, <3>6
    <2> QED
        BY <1>2, <2>1, <2>2
<1>15. Whole(sent', handled', buffer', wire')
    BY <1>1, <1>5, <1>10, <1>14 DEF Whole
<1>16. UnderWay(sent', handled', Taken(sent', buffer', wire'), rectsLeft', pendingRect', tilesLeft')
    <2>1. UnderWay(sent, handled, taken, rectsLeft, pendingRect, tilesLeft)
        BY <1>9, <1>11 DEF StreamOpen
    <2>2. handled \in 0..all /\ End(sent', handled) = End(sent, handled)
        BY <1>2, <1>4, <1>7
    <2>3. handled < all => handled + 1 \in 1..all /\ sent'[handled + 1] = sent[handled + 1] /\ handled < all + 1
        BY <1>2, <1>5
    <2>4. UnderWay(sent', handled, taken, rectsLeft, pendingRect, tilesLeft)
        BY <1>4, <1>5, <2>1, <2>2, <2>3 DEF UnderWay
    <2> QED
        BY <1>1, <1>10, <2>4 DEF parse
<1>17. MessagesAreKnown'
    <2>1. CASE state = "ready"
        <3>1. ASSUME NEW k \in (handled + 1)..(all + 1) PROVE sent'[k].says \in Updates \cup Others
            <4>1. CASE k = all + 1
                BY <1>3, <1>6, <2>1, <4>1
            <4>2. CASE k # all + 1
                <5>1. k \in (handled + 1)..all /\ k \in 1..all
                    BY <1>2, <4>2
                <5> QED
                    BY <1>4, <1>5, <1>11, <2>1, <5>1 DEF StreamOpen, MessagesAreKnown
            <4> QED
                BY <4>1, <4>2
        <3> QED
            BY <1>1, <1>5, <2>1, <3>1 DEF MessagesAreKnown
    <2>2. CASE state # "ready"
        <3>1. handled = all /\ rectsLeft = 0
            BY <1>1, <1>4, <1>11, <2>2 DEF StreamOpen, MessagesAreKnown
        <3>2. Messages' = Messages
            <4>1. state \in Handshake
                BY <2>2 DEF StreamInv, RfbTypeOK
            <4> QED
                BY <1>1, <4>1 DEF Messages, Handshake
        <3>3. sent'[handled + 1].says \in Messages' /\ handled' = handled /\ Len(sent') = handled + 1 /\ rectsLeft' = 0
            BY <1>1, <1>5, <1>6, <3>1, <3>2 DEF parse
        <3> QED
            BY <1>1, <1>2, <2>2, <3>3 DEF MessagesAreKnown
    <2> QED
        BY <2>1, <2>2
<1>18. RestIsMissing'
    <2>1. ASSUME handled < all + 1 PROVE End(sent', handled + 1) > taken + Len(buffer)
        <3>1. CASE handled = all
            BY <1>2, <1>3, <1>7, <1>9, <3>1
        <3>2. CASE handled # all
            <4>1. handled + 1 \in 0..all /\ handled < Len(sent)
                BY <1>2, <1>4, <3>2
            <4> QED
                BY <1>1, <1>7, <1>9, <1>11, <4>1 DEF StreamOpen, RestIsMissing
        <3> QED
            BY <3>1, <3>2
    <2> QED
        BY <1>1, <1>5, <1>10, <2>1 DEF RestIsMissing
<1>19. AnswersAreOwed' /\ requests' \in Nat
    <2>1. IsFiniteSet(Unanswered) /\ Cardinality(Unanswered) \in Nat
        <3>1. IsFiniteSet((handled + 1)..Len(sent))
            BY <1>2, FS_Interval
        <3> QED
            BY <3>1, FS_Subset, FS_CardinalityType DEF Unanswered
    <2>2. Unanswered' = {k \in (handled + 1)..(all + 1) : sent'[k].says \in Updates}
        BY <1>1, <1>5 DEF Unanswered
    <2>3. Unanswered = {k \in (handled + 1)..all : sent[k].says \in Updates}
        BY <1>4 DEF Unanswered
    <2>4. \A k \in (handled + 1)..all : k \in 1..all /\ sent'[k] = sent[k]
        BY <1>2, <1>5
    <2>5. requests \in Nat /\ requests + Cardinality(Unanswered) = IF owner = "waiting" THEN 1 ELSE 0
        BY <1>11 DEF StreamOpen, AnswersAreOwed, StreamInv, RfbTypeOK
    <2>8. (handled + 1)..(all + 1) = ((handled + 1)..all) \cup {all + 1}
        <3>1. handled \in Nat /\ handled <= all
            BY <1>2, <1>4
        <3>2. \A k \in Int : (handled + 1 <= k /\ k <= all + 1) <=> ((handled + 1 <= k /\ k <= all) \/ k = all + 1)
            BY <3>1
        <3>3. \A k : k \in (handled + 1)..(all + 1) => k \in ((handled + 1)..all) \cup {all + 1}
            BY <3>1, <3>2
        <3>4. \A k : k \in ((handled + 1)..all) \cup {all + 1} => k \in (handled + 1)..(all + 1)
            BY <3>1, <3>2
        <3> QED
            BY <3>3, <3>4
    <2>6. CASE m \in Updates
        <3>1. Unanswered' = Unanswered \cup {all + 1} /\ all + 1 \notin Unanswered
            <4>1. (handled + 1)..(all + 1) = ((handled + 1)..all) \cup {all + 1}
                BY <2>8
            <4>2. all + 1 \notin (handled + 1)..all
                OBVIOUS
            <4> QED
                BY <1>6, <2>2, <2>3, <2>4, <2>6, <4>1, <4>2
        <3>2. Cardinality(Unanswered') = Cardinality(Unanswered) + 1
            BY <2>1, <3>1, FS_AddElement
        <3>3. requests' = requests - 1 /\ requests > 0
            BY <1>1, <1>3, <2>6
        <3>4. requests' + Cardinality(Unanswered') = requests + Cardinality(Unanswered)
            BY <2>1, <2>5, <3>2, <3>3
        <3> QED
            BY <1>1, <2>5, <3>3, <3>4 DEF AnswersAreOwed
    <2>7. CASE m \notin Updates
        <3>1. Unanswered' = Unanswered
            <4>1. (handled + 1)..(all + 1) = ((handled + 1)..all) \cup {all + 1}
                BY <2>8
            <4> QED
                BY <1>6, <2>2, <2>3, <2>4, <2>7, <4>1
        <3> QED
            BY <1>1, <2>5, <2>7, <3>1 DEF AnswersAreOwed
    <2> QED
        BY <2>6, <2>7
<1>20. RfbTypeOK' /\ StreamTypes'
    <2>1. handled' \in 0..Len(sent')
        BY <1>1, <1>2, <1>4, <1>5
    <2> QED
        BY <1>1, <1>5, <1>8, <1>19, <2>1 DEF StreamInv, RfbTypeOK, StreamTypes, parse
<1> QED
    BY <1>13, <1>15, <1>16, <1>17, <1>18, <1>19, <1>20 DEF StreamInv, StreamOpen

(* Whatever leaves the stream alone, or closes it.                         *)
LEMMA RestKeeps ==
    ASSUME StreamInv, \/ ConnectClient \/ SocketClosed \/ Ended
                      \/ \E asks \in {"full", "incremental"} : RequestUpdate(asks)
    PROVE  StreamInv'
<1>1. CASE SocketClosed \/ Ended
    <2>1. /\ closed' = TRUE /\ ~draining /\ promise' \in {promise, "rejected"}
          /\ UNCHANGED <<state, minor, buffer, draining, parse, requesting, outside, handled>>
        BY <1>1 DEF SocketClosed, Ended
    <2>2. RfbTypeOK' /\ StreamTypes'
        BY <2>1 DEF StreamInv, RfbTypeOK, StreamTypes, parse, requesting, outside
    <2> QED
        BY <2>1, <2>2 DEF StreamInv
<1>2. CASE ConnectClient
    <2>1. /\ promise' = "pending"
          /\ UNCHANGED <<state, minor, buffer, draining, parse, requesting, closed, outside, handled>>
        BY <1>2 DEF ConnectClient
    <2>2. RfbTypeOK' /\ StreamTypes'
        BY <2>1 DEF StreamInv, RfbTypeOK, StreamTypes, parse, requesting, outside
    <2>3. Unanswered' = Unanswered /\ Messages' = Messages
        BY <2>1 DEF Unanswered, Messages, outside, requesting
    <2>4. StreamOpen => StreamOpen'
        BY <2>1, <2>3 DEF StreamOpen, MessagesAreKnown, RestIsMissing, AnswersAreOwed, parse, requesting, outside
    <2> QED
        BY <2>1, <2>2, <2>4 DEF StreamInv
<1>3. CASE \E asks \in {"full", "incremental"} : RequestUpdate(asks)
    <2>1. /\ promise = "resolved" /\ ~draining /\ ~closed /\ owner = "idle"
          /\ lastKind' \in {"full", "incremental"} /\ owner' = "waiting" /\ requests' = requests + 1
          /\ UNCHANGED <<state, minor, buffer, draining, parse, closed, promise, outside, handled>>
        BY <1>3 DEF RequestUpdate
    <2>2. requests \in Nat /\ StreamOpen /\ handled \in Nat /\ Len(sent) \in Nat
        BY <2>1, StreamNumbers DEF StreamInv, RfbTypeOK
    <2>3. RfbTypeOK' /\ StreamTypes'
        BY <2>1, <2>2 DEF StreamInv, RfbTypeOK, StreamTypes, parse, outside
    <2>4. Unanswered' = Unanswered
        BY <2>1 DEF Unanswered, outside
    <2>5. AnswersAreOwed'
        <3>1. Cardinality(Unanswered) \in Nat
            <4>1. IsFiniteSet((handled + 1)..Len(sent))
                BY <2>2, FS_Interval
            <4> QED
                BY <4>1, FS_Subset, FS_CardinalityType DEF Unanswered
        <3>2. requests + Cardinality(Unanswered) = 0
            BY <2>1, <2>2 DEF StreamOpen, AnswersAreOwed
        <3> QED
            BY <2>1, <2>2, <2>4, <3>1, <3>2 DEF AnswersAreOwed
    <2>6. MessagesAreKnown'
        <3>1. CASE state = "ready"
            BY <2>1, <2>2, <3>1 DEF StreamOpen, MessagesAreKnown, outside
        <3>2. CASE state # "ready"
            <4>1. Messages' = Messages
                <5>1. state \in Handshake
                    BY <3>2 DEF StreamInv, RfbTypeOK
                <5> QED
                    BY <2>1, <5>1 DEF Messages, Handshake
            <4> QED
                BY <2>1, <2>2, <3>2, <4>1 DEF StreamOpen, MessagesAreKnown, outside, parse
        <3> QED
            BY <3>1, <3>2
    <2>7. StreamOpen'
        BY <2>1, <2>2, <2>5, <2>6 DEF StreamOpen, RestIsMissing, parse, outside
    <2> QED
        BY <2>1, <2>3, <2>7 DEF StreamInv
<1> QED
    BY <1>1, <1>2, <1>3

LEMMA StreamStays == StreamInv /\ UNCHANGED rfbVars => StreamInv'
<1> SUFFICES ASSUME StreamInv, UNCHANGED rfbVars PROVE StreamInv'
    OBVIOUS
<1>1. RfbTypeOK' /\ StreamTypes'
    BY DEF rfbVars, StreamInv, RfbTypeOK, StreamTypes
<1>2. Unanswered' = Unanswered /\ Messages' = Messages
    BY DEF rfbVars, Unanswered, Messages
<1>3. StreamOpen => StreamOpen'
    BY <1>2 DEF rfbVars, StreamOpen, MessagesAreKnown, RestIsMissing, AnswersAreOwed
<1> QED
    BY <1>1, <1>3 DEF StreamInv, rfbVars

LEMMA StreamKeeps == StreamInv /\ [RfbNext]_rfbVars => StreamInv'
<1> SUFFICES ASSUME StreamInv, [RfbNext]_rfbVars PROVE StreamInv'
    OBVIOUS
<1>1. CASE Read
    <2>1. CASE \/ ReadVersion \/ ReadSecurity33 \/ ReadSecurity
               \/ ReadAuthChallenge \/ ReadSecurityResult \/ ReadServerInit
        BY <2>1, HandshakeKeeps
    <2>2. CASE ReadRect
        BY <2>2, RectKeeps
    <2>3. CASE ReadMessage
        BY <2>3, MessageKeeps
    <2> QED
        BY <1>1, <2>1, <2>2, <2>3 DEF Read
<1>2. CASE Data
    BY <1>2, DataKeeps
<1>3. CASE ConnectClient \/ SocketClosed \/ Ended \/ \E asks \in {"full", "incremental"} : RequestUpdate(asks)
    BY <1>3, RestKeeps
<1>4. CASE \E m \in Messages : Send(m)
    BY <1>4, SendKeeps
<1>5. CASE UNCHANGED rfbVars
    BY <1>5, StreamStays
<1> QED
    BY <1>1, <1>2, <1>3, <1>4, <1>5 DEF RfbNext

LEMMA StreamShows == StreamInv => StreamHolds
<1> SUFFICES ASSUME StreamInv PROVE StreamHolds
    OBVIOUS
<1>1. /\ handled \in Nat /\ Len(sent) \in Nat /\ handled <= Len(sent) /\ Len(buffer) \in Nat /\ Len(wire) \in Nat
      /\ \A k \in 0..Len(sent) : End(sent, k) \in Nat
    BY StreamNumbers
<1>2. RfbTypeOK
    BY DEF StreamInv
<1>3. NothingIsLeftWaiting
    <2> SUFFICES ASSUME ~draining, ~closed, NEW k \in 1..Len(sent)
                 PROVE  k <= handled <=> EndOf(k) <= Arrived
        BY DEF NothingIsLeftWaiting
    <2>1. StreamOpen /\ InTurn(sent)
        BY DEF StreamInv, StreamOpen
    <2>2. EndOf(k) = End(sent, k) /\ EndOf(Len(sent)) = End(sent, Len(sent))
        BY DEF EndOf, End
    <2>3. PICK taken \in Int : taken = Taken(sent, buffer, wire) /\ Arrived = taken + Len(buffer)
        <3>1. Taken(sent, buffer, wire) = End(sent, Len(sent)) - Len(wire) - Len(buffer)
            BY DEF Taken
        <3>2. Arrived = End(sent, Len(sent)) - Len(wire) /\ End(sent, Len(sent)) \in Nat
            BY <1>1, <2>2 DEF Arrived
        <3>3. Arrived = Taken(sent, buffer, wire) + Len(buffer) /\ Taken(sent, buffer, wire) \in Int
            BY <1>1, <3>1, <3>2
        <3> QED
            BY <3>3
    <2>4. handled \in 0..Len(sent) /\ k \in 0..Len(sent)
        BY <1>1
    <2>5. taken >= End(sent, handled)
        <3>1. UnderWay(sent, handled, taken, rectsLeft, pendingRect, tilesLeft)
            BY <2>1, <2>3 DEF StreamOpen
        <3> QED
            BY <1>1, <2>4, <3>1 DEF UnderWay
    <2>6. CASE k <= handled
        <3>1. End(sent, k) <= End(sent, handled)
            BY <2>1, <2>4, <2>6 DEF InTurn
        <3>2. End(sent, k) \in Nat /\ End(sent, handled) \in Nat
            BY <1>1, <2>4
        <3> QED
            BY <1>1, <2>2, <2>3, <2>5, <2>6, <3>1, <3>2
    <2>7. CASE ~(k <= handled)
        <3>1. handled < Len(sent) /\ handled + 1 \in 0..Len(sent) /\ handled + 1 <= k
            BY <1>1, <2>7
        <3>2. End(sent, handled + 1) > taken + Len(buffer)
            BY <2>1, <2>3, <3>1 DEF StreamOpen, RestIsMissing
        <3>3. End(sent, handled + 1) <= End(sent, k)
            BY <2>1, <2>4, <3>1 DEF InTurn
        <3>4. End(sent, k) \in Nat /\ End(sent, handled + 1) \in Nat
            BY <1>1, <2>4, <3>1
        <3>5. ~(End(sent, k) <= taken + Len(buffer))
            BY <1>1, <3>2, <3>3, <3>4
        <3> QED
            BY <2>2, <2>3, <2>7, <3>5
    <2> QED
        BY <2>6, <2>7
<1>4. OneAnswerPerRequest
    <2>1. ~closed => requests + Cardinality(Unanswered) = IF owner = "waiting" THEN 1 ELSE 0
        BY DEF StreamInv, StreamOpen, AnswersAreOwed
    <2> QED
        BY <2>1 DEF OneAnswerPerRequest
<1> QED
    BY <1>2, <1>3, <1>4 DEF StreamHolds
-----------------------------------------------------------------------------
(* All of them together.                                                   *)
DesktopInv == ActiveInv /\ LaunchInv /\ WindowInv /\ VncInv /\ StreamInv

LEMMA DesktopBegins == Init => DesktopInv
BY ActiveBegins, LaunchBegins, WindowBegins, SessionBegins, StreamBegins DEF Init, DesktopInv

LEMMA DesktopKeeps == DesktopInv /\ [Next]_vars => DesktopInv'
<1> SUFFICES ASSUME DesktopInv, [Next]_vars PROVE DesktopInv'
    OBVIOUS
<1>1. ActiveInv /\ LaunchInv /\ WindowInv /\ VncInv /\ StreamInv
    BY DEF DesktopInv
<1>2. CASE Held(ActiveNext)
    BY <1>1, <1>2, ActiveKeeps, LaunchStays, WindowStays, SessionStays, StreamStays DEF Held, reading, DesktopInv
<1>3. CASE Launching(RdpNext)
    BY <1>1, <1>3, ActiveStays, LaunchKeeps, WindowStays, SessionStays, StreamStays DEF Launching, reading, DesktopInv
<1>4. CASE Typing(VncScreenNext) \/ Painting(VncScreenNext)
    BY <1>1, <1>4, ActiveStays, LaunchStays, WindowKeeps, SessionStays, StreamStays DEF Typing, Painting, reading, DesktopInv
<1>5. CASE Stream(RfbNext)
    BY <1>1, <1>5, ActiveStays, LaunchStays, WindowStays, SessionStays, StreamKeeps DEF Stream, viewing, DesktopInv
<1>6. CASE Session(VncNext)
    BY <1>1, <1>6, ActiveStays, LaunchStays, WindowStays, SessionKeeps, StreamStays DEF Session, viewing, DesktopInv
<1>7. CASE UNCHANGED vars
    BY <1>1, <1>7, ActiveStays, LaunchStays, WindowStays, SessionStays, StreamStays DEF vars, viewing, reading, DesktopInv
<1> QED
    BY <1>2, <1>3, <1>4, <1>5, <1>6, <1>7 DEF Next

(* Every state of every behaviour is one of these.                         *)
LEMMA DesktopInvariant == Spec => []DesktopInv
<1>1. Init => DesktopInv
    BY DesktopBegins
<1>2. DesktopInv /\ [Next]_vars => DesktopInv'
    BY DesktopKeeps
<1> QED
    BY <1>1, <1>2, PTL DEF Spec

(* However connects, disconnects and removals overlap, a session that runs *)
(* is held or was told to stop, but for the cases that are named; its row  *)
(* is closed with it, it is counted once, and the window shows what is so  *)
(* (main.ts:1120, :1226, connections.ts:396, :412).                        *)
THEOREM SessionsAreHeld == Spec => []ActiveHolds
<1>1. DesktopInv => ActiveHolds
    BY DEF DesktopInv, ActiveInv, CountedOnce, ActiveHolds
<1> QED
    BY <1>1, DesktopInvariant, PTL

(* No RDP session runs with a certificate nobody answers for, whatever the *)
(* server shows and whenever it changes it; one of legacy RDP security has *)
(* none, and nothing is asked about it (rdp.ts:215, :479).                 *)
THEOREM LaunchesAreHonest == Spec => []RdpHolds
<1>1. DesktopInv => RdpHolds
    BY PlansAreHonest DEF DesktopInv, LaunchInv, RdpHolds
<1> QED
    BY <1>1, DesktopInvariant, PTL

(* The window shows the picture of the computer it names, goes on asking   *)
(* for frames, and leaves no key down there that is not down here          *)
(* (app.js:463, session.ts:267, keymap.ts:50).                             *)
THEOREM WindowIsTrue == Spec => []WindowHolds
<1>1. DesktopInv => WindowHolds
    BY WindowShows DEF DesktopInv
<1> QED
    BY <1>1, DesktopInvariant, PTL

(* The loop of a VNC session never dies, asks for no more than it should,  *)
(* forgets nothing that changed, and retries one thing at a time and no    *)
(* more often than it is allowed to (session.ts:267, :321).                *)
THEOREM VncSessionIsAlive == Spec => []VncHolds
<1>1. DesktopInv => VncHolds
    BY SessionHolds DEF DesktopInv
<1> QED
    BY <1>1, DesktopInvariant, PTL

(* Wherever TCP cuts the stream of a server that keeps to the protocol, it *)
(* is read to its end: drain() stops only when every message that arrived  *)
(* whole is handled, and whoever asked for an update has exactly one answer *)
(* on its way (rfb.ts:208, :539, :648).                                    *)
THEOREM StreamIsReadToItsEnd == Spec => []StreamHolds
<1>1. DesktopInv => StreamHolds
    BY StreamShows DEF DesktopInv
<1> QED
    BY <1>1, DesktopInvariant, PTL
=============================================================================
