----------------------------- MODULE InputDevice -----------------------------
(* The keys and buttons that viewers hold on the host (host.ts handleInput) *)
(* and the controller that presses them: X11Input with its borrowed         *)
(* keycodes, WaylandInput, MacInput with its modifiers.  Several viewers    *)
(* share one controller; applications read what was typed some time later.  *)
EXTENDS Naturals, Sequences, FiniteSets

CONSTANTS
    Typist,         \* viewers
    LayoutKey,      \* physical keys with a place on the host's layout, the key "a" among them
    ShiftKey,       \* of these, those that are Shift
    ForeignKey,     \* physical keys whose characters it has no place for
    Slot,           \* POOL_SIZE keycodes to be borrowed
    MaxUnread,      \* bound: key events an application is behind
    MaxHeld         \* bound: keysyms one viewer holds

ASSUME DeviceAssumption ==
    /\ ShiftKey \subseteq LayoutKey /\ "a" \in LayoutKey \ ShiftKey
    /\ LayoutKey \cap ForeignKey = {} /\ {MaxUnread, MaxHeld} \subseteq Nat
    /\ (LayoutKey \cup ForeignKey) \cap Slot = {}
    /\ {"none", "button"} \cap (LayoutKey \cup ForeignKey \cup Slot) = {}

VARIABLES
    backend,        \* "x11", "wayland" or "mac"
    seated,         \* viewers with a session
    pressed,        \* keysyms each viewer's session has pressed and not released
    down,           \* what the system takes to be down
    heldKeys, heldButton,   \* the controller's books
    pool,           \* pool: what each keycode is mapped to, whether it is held, its timer
    holders,        \* HeldModifiers: the keys that hold Shift
    unread,         \* presses of borrowed keycodes no application has read yet
    trusted,        \* macOS lets input through
    shut,           \* the controller has been closed
    drifted,        \* history: a key was released as another keysym than it was pressed as
    lost            \* history: a session ended, or a key was released, while input was refused

ledger == <<heldKeys, heldButton, pool, holders>>
deviceVars == <<backend, seated, pressed, down, ledger, unread, trusted, shut, drifted, lost>>

Level == {"plain", "shifted"}
(* What Shift makes of a key matters where the keycode depends on it, and  *)
(* Shift itself where it goes with every event.                            *)
Keysym == (ForeignKey \X (IF backend = "mac" THEN {"plain"} ELSE Level))
          \cup ((IF backend = "mac" THEN LayoutKey ELSE {"a"}) \X {"plain"})
NoKeysym == <<"none", "plain">>
Idle == [keysym |-> NoKeysym, held |-> FALSE, timer |-> FALSE]
Pointer == "button"
OnLayout(sym) == sym[1] \in LayoutKey
-----------------------------------------------------------------------------
DeviceInit ==
    /\ backend \in {"x11", "wayland", "mac"}
    /\ seated = {} /\ pressed = [v \in Typist |-> {}] /\ down = {}
    /\ heldKeys = {} /\ heldButton = FALSE /\ pool = [s \in Slot |-> Idle] /\ holders = {}
    /\ unread = <<>> /\ trusted = TRUE /\ shut = FALSE /\ drifted = FALSE /\ lost = FALSE

Sits(v) ==
    /\ v \notin seated /\ ~shut /\ seated' = seated \cup {v}
    /\ UNCHANGED <<backend, pressed, down, ledger, unread, trusted, shut, drifted, lost>>

(* deps.input(): no controller while macOS refuses input.                  *)
Available == trusted /\ ~shut

Presses(code, on) == IF on THEN down \cup {code} ELSE down \ {code}
KeyIsHeld(key, on) == heldKeys' = IF on THEN heldKeys \cup {key} ELSE heldKeys \ {key}
-----------------------------------------------------------------------------
(* X11: a keycode is mapped for a keysym that the layout lacks.            *)
Borrowed(sym) == {s \in Slot : pool[s].keysym = sym}
(* The free one of fillPool()'s order, else one whose key is up.           *)
FreeSlots ==
    LET free == {s \in Slot : ~pool[s].held /\ pool[s].keysym = NoKeysym}
    IN IF free # {} THEN free ELSE {s \in Slot : ~pool[s].held}

(* An event of a keycode that is mapped to something else is misread.      *)
Excuse(slots) ==
    [i \in DOMAIN unread |-> IF unread[i].slot \in slots THEN [unread[i] EXCEPT !.excused = TRUE] ELSE unread[i]]

(* Mutant: the mapping is taken off with the release.                      *)
ReleasedAtOnce(s, sym) == Idle
(* pressBorrowed(): the mapping stays a moment after the release.          *)
Released(s, sym) == [keysym |-> sym, held |-> FALSE, timer |-> TRUE]

(* Mutant: Xlib, which knows borrowed keycodes too, is asked first.        *)
KnownToLayout(sym) == OnLayout(sym) \/ Borrowed(sym) # {}
(* key(): what is borrowed is looked up before the layout.                 *)
KnownKeycode(sym) == OnLayout(sym) /\ Borrowed(sym) = {}

Keycode(sym) == IF OnLayout(sym) THEN sym[1] ELSE CHOOSE s \in Borrowed(sym) : TRUE

X11Key(sym, on) ==
    /\ IF KnownKeycode(sym)
       THEN /\ down' = Presses(Keycode(sym), on) /\ KeyIsHeld(Keycode(sym), on)
            /\ UNCHANGED <<pool, unread>>
       ELSE IF Borrowed(sym) # {}
       THEN \E s \in Borrowed(sym) :
            /\ (on => Len(unread) < MaxUnread)
            /\ down' = Presses(s, on) /\ KeyIsHeld(s, on)
            /\ pool' = [pool EXCEPT ![s] = IF on THEN [@ EXCEPT !.held = TRUE, !.timer = FALSE] ELSE Released(s, sym)]
            /\ unread' = IF on THEN Append(unread, [slot |-> s, wanted |-> sym, excused |-> FALSE]) ELSE unread
       ELSE IF ~on \/ FreeSlots = {} THEN UNCHANGED <<down, heldKeys, pool, unread>>
       ELSE \E s \in FreeSlots :
            /\ Len(unread) < MaxUnread
            /\ down' = Presses(s, TRUE) /\ KeyIsHeld(s, TRUE)
            /\ pool' = [pool EXCEPT ![s] = [keysym |-> sym, held |-> TRUE, timer |-> FALSE]]
            /\ unread' = Append(Excuse({s}), [slot |-> s, wanted |-> sym, excused |-> FALSE])
    /\ UNCHANGED holders

(* The 250 ms are over: an application that has not read by then misreads. *)
GiveBack(s) ==
    /\ pool[s].timer
    /\ IF shut \/ pool[s].held
       THEN pool' = [pool EXCEPT ![s].timer = FALSE] /\ UNCHANGED unread
       ELSE pool' = [pool EXCEPT ![s] = Idle] /\ unread' = Excuse({s})
    /\ UNCHANGED <<backend, seated, pressed, down, heldKeys, heldButton, holders, trusted, shut, drifted, lost>>
Reads ==
    /\ unread # <<>> /\ unread' = Tail(unread)
    /\ UNCHANGED <<backend, seated, pressed, down, ledger, trusted, shut, drifted, lost>>

(* Wayland: keysyms go to the compositor, which finds the key.             *)
WaylandKey(sym, on) ==
    /\ down' = Presses(sym[1], on) /\ KeyIsHeld(sym, on) /\ UNCHANGED <<pool, holders, unread>>

(* Mutant: a modifier is up when any key of it is.                         *)
ClearsHolders(key, on) == IF on THEN holders \cup {key} ELSE {}
(* HeldModifiers.set().                                                    *)
NowHolding(key, on) == IF on THEN holders \cup {key} ELSE holders \ {key}

(* macOS: characters without a place go by key code 0, which is "a".       *)
MacKey(sym, on) ==
    LET code == IF OnLayout(sym) THEN sym[1] ELSE "a"
    IN /\ down' = Presses(code, on) /\ KeyIsHeld(sym, on)
       /\ holders' = IF code \in ShiftKey THEN NowHolding(code, on) ELSE holders
       /\ UNCHANGED <<pool, unread>>
-----------------------------------------------------------------------------
(* A key message: its keysym is that of the character it makes now, which  *)
(* Shift may have changed since the press; a key held repeats its press.   *)
KeyMessage(v, sym, on) ==
    /\ v \in seated
    /\ IF on THEN Cardinality(pressed[v] \cup {sym}) <= MaxHeld ELSE \E p \in pressed[v] : p[1] = sym[1]
    /\ IF Available
       THEN /\ \/ backend = "x11" /\ X11Key(sym, on)
               \/ backend = "wayland" /\ WaylandKey(sym, on)
               \/ backend = "mac" /\ MacKey(sym, on)
            /\ UNCHANGED heldButton
       ELSE UNCHANGED <<down, ledger, unread>>
    /\ LET same == {p \in pressed[v] : p[1] = sym[1]}
       IN /\ pressed' = [pressed EXCEPT ![v] = IF on THEN @ \cup {sym} ELSE @ \ same]
          /\ drifted' = (drifted \/ (~on /\ same # {sym}))
          /\ lost' = (lost \/ (~Available /\ ~on))
    /\ UNCHANGED <<backend, seated, trusted, shut>>

(* A pointer message says of every button whether it is down.              *)
PointerMessage(v, on) ==
    /\ v \in seated /\ Available
    /\ down' = Presses(Pointer, on) /\ heldButton' = on
    /\ UNCHANGED <<backend, seated, pressed, heldKeys, pool, holders, unread, trusted, shut, drifted, lost>>

(* Mutant: only what has a key of its own is released.                     *)
ReleasedKeys == /\ down' = down \ heldKeys /\ heldKeys' = {}
                /\ UNCHANGED <<pool, holders, unread, heldButton>>
ForgetsAll ==
    /\ heldKeys' = {} /\ heldButton' = FALSE /\ holders' = {}
    /\ pool' = [s \in Slot |-> Idle] /\ unread' = Excuse(Slot)
(* releaseAll() of a controller.                                           *)
ReleaseAll ==
    /\ down' = down \ ((IF backend = "x11" THEN heldKeys
                        ELSE {IF backend = "mac" /\ ~OnLayout(k) THEN "a" ELSE k[1] : k \in heldKeys})
                       \cup (IF heldButton THEN {Pointer} ELSE {}))
    /\ ForgetsAll

(* The view loses focus: `release-all`.                                    *)
ReleaseMessage(v) ==
    /\ v \in seated /\ Available /\ ReleaseAll /\ pressed' = [pressed EXCEPT ![v] = {}]
    /\ UNCHANGED <<backend, seated, trusted, shut, drifted, lost>>

(* Mutant: keys are released with the last session.                        *)
LeavesLast(v) ==
    /\ v \in seated /\ seated' = seated \ {v} /\ pressed' = [pressed EXCEPT ![v] = {}]
    /\ IF Available /\ seated = {v} THEN ReleaseAll /\ UNCHANGED lost
       ELSE UNCHANGED <<down, ledger, unread>> /\ lost' = (lost \/ ~Available)
    /\ UNCHANGED <<backend, trusted, shut, drifted>>
(* A session ends, however it does.                                        *)
Leaves(v) ==
    /\ v \in seated /\ seated' = seated \ {v} /\ pressed' = [pressed EXCEPT ![v] = {}]
    /\ IF Available THEN ReleaseAll /\ UNCHANGED lost
                    ELSE UNCHANGED <<down, ledger, unread>> /\ lost' = TRUE
    /\ UNCHANGED <<backend, trusted, shut, drifted>>

(* shutdown() ends the sessions and closes the controller, which releases  *)
(* all that its books know; macOS may be refusing the events by then.      *)
Shuts ==
    /\ ~shut /\ shut' = TRUE /\ seated' = {} /\ pressed' = [v \in Typist |-> {}]
    /\ IF trusted THEN ReleaseAll /\ UNCHANGED lost
                  ELSE ForgetsAll /\ UNCHANGED down /\ lost' = TRUE
    /\ UNCHANGED <<backend, trusted, drifted>>

Trust == backend = "mac" /\ trusted' = ~trusted
         /\ UNCHANGED <<backend, seated, pressed, down, ledger, unread, shut, drifted, lost>>

DeviceNext ==
    \/ \E v \in Typist :
        \/ Sits(v) \/ Leaves(v) \/ ReleaseMessage(v)
        \/ \E on \in BOOLEAN : PointerMessage(v, on) \/ (\E sym \in Keysym : KeyMessage(v, sym, on))
    \/ \E s \in Slot : GiveBack(s)
    \/ Reads \/ Shuts \/ Trust
-----------------------------------------------------------------------------
(* "A session must never leave keys or buttons stuck on the host" (x11.ts  *)
(* :357): with the last session everything is up, borrowed keycodes are    *)
(* given back and no modifier is left, unless the system refused input.    *)
NothingIsStuck ==
    seated = {} /\ ~lost => down = {} /\ holders = {} /\ \A s \in Slot : pool[s] = Idle

(* A borrowed keycode is held exactly while it is down, and one that is    *)
(* not has a timer to give it back, so that none is borrowed for good      *)
(* (x11.ts:211, :247).                                                     *)
BorrowedIsKnown ==
    \A s \in Slot : /\ pool[s].held <=> s \in down
                    /\ pool[s].keysym # NoKeysym /\ ~pool[s].held => pool[s].timer

(* An application that is a little behind reads the character that was     *)
(* typed: the keycode still stands for it (x11.ts:243), unless every other *)
(* one was in use, all keys were released meanwhile, or it is so far behind*)
(* that the 250 ms after a release are over.                               *)
TypedAsPressed ==
    \A i \in DOMAIN unread : unread[i].excused \/ pool[unread[i].slot].keysym = unread[i].wanted

(* A modifier is reported while one of its keys is down, whoever holds it  *)
(* (keycodes.ts:144).                                                      *)
ShiftIsHeld == backend = "mac" /\ ~lost => holders = down \cap ShiftKey

(* What is down is what somebody presses.  On X11 that is not so when a    *)
(* key is released as another character than it was pressed as.            *)
CodeOf(sym) ==
    IF OnLayout(sym) THEN {sym[1]}
    ELSE CASE backend = "x11" -> {s \in Slot : pool[s].keysym[1] = sym[1]}
           [] backend = "mac" -> {"a"} [] OTHER -> {sym[1]}
Wanted == {Pointer} \cup UNION {CodeOf(sym) : sym \in UNION {pressed[v] : v \in Typist}}
KeysAreReleased == drifted \/ lost \/ down \subseteq Wanted
ReleasedIsUp == lost \/ down \subseteq Wanted

(* The host's keyboard is as its viewers, together, press it.              *)
InputHolds ==
    NothingIsStuck /\ BorrowedIsKnown /\ TypedAsPressed /\ ShiftIsHeld /\ KeysAreReleased
=============================================================================
