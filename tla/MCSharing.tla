------------------------------ MODULE MCSharing ------------------------------
(* What several have in common, for TLC: a behaviour is the keys viewers    *)
(* hold on a host, its clipboards, the hellos or the tries that are counted *)
(* (which share a clock only), the table of those who guess its code, or    *)
(* the relay server with devices that come and go.  A configuration says    *)
(* which of them it is about.                                               *)
EXTENDS InputDevice, SharedClipboard, Admission, AttemptLimiter, RelayServer, TLC

CONSTANT Checked

VARIABLE part
limiterVars == vars
sharingVars == <<part, deviceVars, clipboardVars, admissionVars, limiterVars, relayVars>>

Pressing(A) ==
    part = "keys" /\ A /\ UNCHANGED <<part, clipboardVars, admissionVars, limiterVars, relayVars>>
Copying(A) ==
    part = "clipboards" /\ A /\ UNCHANGED <<part, deviceVars, admissionVars, limiterVars, relayVars>>
Greeting(A) == part = "hellos" /\ A /\ UNCHANGED brakeVars
    /\ UNCHANGED <<part, deviceVars, clipboardVars, limiterVars, relayVars>>
Trying(A) == part = "tries" /\ A /\ UNCHANGED nonceVars
    /\ UNCHANGED <<part, deviceVars, clipboardVars, limiterVars, relayVars>>
Guessing(A) ==
    part = "guesses" /\ A /\ UNCHANGED <<part, deviceVars, clipboardVars, admissionVars, relayVars>>
Relaying(A) ==
    part = "relay" /\ A /\ UNCHANGED <<part, deviceVars, clipboardVars, admissionVars, limiterVars>>

(* Where a part is idle its choices are fixed.                             *)
SharingInit ==
    /\ DeviceInit /\ ClipboardInit /\ AdmissionInit /\ Init /\ RelayInit
    /\ part \in Checked
    /\ part # "keys" => backend = "x11"

SharingNext ==
    \/ Pressing(DeviceNext) \/ Copying(ClipboardNext)
    \/ Greeting(AdmissionNext) \/ Trying(AdmissionNext)
    \/ Guessing(Next) \/ Relaying(RelayNext)

SharingSpec == SharingInit /\ [][SharingNext]_sharingVars

(* Bound: no step is taken from a state with a race of the clipboards, of  *)
(* which their property says nothing any more.                             *)
NotRaced == ~raced

(* Viewers are alike, and so are keycodes and texts.  One part moves, so   *)
(* configurations let the parts share names: keycodes and texts here, peers*)
(* and devices, handshakes and connections at the gates.                   *)
Interchangeable ==
    Permutations(Typist) \cup Permutations(Slot) \cup Permutations(Reader) \cup Permutations(Text)
(* Nothing orders any of these.                                            *)
AlikeAtTheGates ==
    Permutations(Device) \cup Permutations(Account) \cup Permutations(Connection)

(* What viewers share, they do not spoil for each other: the keyboard and  *)
(* the clipboard.                                                          *)
SharingHolds == InputHolds /\ NoEcho

(* The tables that guard the way in have limits, and what they forget is   *)
(* what they have to (replay.ts, limiter.ts).                              *)
TablesHold == ReplayMeansDisplaced /\ TriesPerWindow /\ TableKept
=============================================================================
