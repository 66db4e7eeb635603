---------------------------- MODULE SharingProofs ----------------------------
(* Proofs about what several share on a host, for any number of viewers,    *)
(* keys, texts, hellos, callers and peers: nobody's keys and texts are      *)
(* spoilt for another (InputDevice, SharedClipboard), what the tables at    *)
(* the door forget is what they have to (Admission), and the caps of the    *)
(* access code count the attempts really in flight (AttemptLimiter).        *)
EXTENDS MCSharing, FiniteSetTheorems, SequenceTheorems, TLAPS
-----------------------------------------------------------------------------
(* The keys viewers hold.                                                  *)

Foreign == ForeignKey \X Level
Mapping == [keysym : {NoKeysym} \cup Foreign, held : BOOLEAN, timer : BOOLEAN]
KeyEvent == [slot : Slot, wanted : Foreign, excused : BOOLEAN]
DeviceTypes ==
    /\ backend \in {"x11", "wayland", "mac"}
    /\ pressed \in [Typist -> SUBSET Keysym]
    /\ heldButton \in BOOLEAN /\ drifted \in BOOLEAN /\ lost \in BOOLEAN /\ (trusted \/ backend = "mac")
BorrowedTypes == pool \in [Slot -> Mapping] /\ unread \in Seq(KeyEvent)

(* What is down is in the controller's books, under its keycode.              *)
Books(key) == IF backend = "x11" THEN key ELSE IF backend = "mac" /\ ~OnLayout(key) THEN "a" ELSE key[1]
BooksAreTrue == \A c \in down : (c = Pointer /\ heldButton) \/ \E key \in heldKeys : c = Books(key)

(* A keycode is borrowed for one keysym and a keysym has one keycode; only *)
(* X11 borrows any.                                                        *)
BorrowedOnce ==
    /\ \A s \in Slot : pool[s].held => pool[s].keysym # NoKeysym
    /\ \A s, r \in Slot : pool[s].keysym = pool[r].keysym /\ pool[s].keysym # NoKeysym => s = r
    /\ backend # "x11" => unread = <<>> /\ \A s \in Slot : pool[s] = Idle

ModifiersAreKnown == holders = IF backend = "mac" THEN down \cap ShiftKey ELSE {}

(* What is down somebody presses, as the very keysym it went down as.      *)
Stands(c, sym) ==
    IF OnLayout(sym) THEN c = sym[1]
    ELSE IF backend = "x11" THEN c \in Slot /\ pool[c].keysym = sym
    ELSE IF backend = "mac" THEN c = "a" ELSE c = sym[1]
Held(c) == c = Pointer \/ \E v \in Typist : \E sym \in pressed[v] : Stands(c, sym)
DownIsWanted == drifted \/ lost \/ \A c \in down : Held(c)

AllIsUp == down = {} /\ \A s \in Slot : pool[s] = Idle
AtTheEnd == ~shut /\ (seated = {} /\ ~lost => AllIsUp)

(* Until the controller is closed, and afterwards.                         *)
OpenInv == /\ DeviceTypes /\ BorrowedTypes /\ BooksAreTrue /\ BorrowedIsKnown /\ BorrowedOnce
           /\ TypedAsPressed /\ ModifiersAreKnown /\ DownIsWanted /\ AtTheEnd
ShutInv == /\ DeviceTypes /\ BorrowedTypes /\ BorrowedIsKnown /\ BorrowedOnce /\ TypedAsPressed
           /\ shut /\ seated = {} /\ holders = {} /\ (lost \/ down = {}) /\ \A s \in Slot : pool[s] = Idle
DeviceInv == OpenInv \/ ShutInv

(* A keysym with a place on the layout has no borrowed keycode.            *)
LEMMA KeysymIsEither ==
    ASSUME DeviceTypes, BorrowedTypes, backend = "x11", NEW sym \in Keysym
    PROVE  IF OnLayout(sym) THEN sym[1] = "a" /\ Borrowed(sym) = {} ELSE sym \in Foreign /\ sym # NoKeysym
<1>1. sym \in Foreign \/ (sym \in {"a"} \X {"plain"})
    BY DEF Keysym, Foreign
<1>2. ASSUME NEW s \in Slot, pool[s].keysym = sym, OnLayout(sym) PROVE FALSE
    <2>1. sym \in {NoKeysym} \cup Foreign
        BY <1>2 DEF BorrowedTypes, Mapping
    <2>2. sym[1] = "none" \/ sym[1] \in ForeignKey
        BY <2>1 DEF NoKeysym, Foreign
    <2> QED
        BY <1>2, <2>2, DeviceAssumption DEF OnLayout
<1>3. sym \in Foreign => sym[1] \in ForeignKey /\ sym # NoKeysym /\ ~OnLayout(sym)
    <2> SUFFICES ASSUME sym \in Foreign PROVE sym[1] \in ForeignKey /\ sym # NoKeysym /\ ~OnLayout(sym)
        OBVIOUS
    <2>1. sym[1] \in ForeignKey
        BY DEF Foreign
    <2>2. NoKeysym[1] = "none"
        BY DEF NoKeysym
    <2> QED
        BY <2>1, <2>2, DeviceAssumption DEF OnLayout
<1>4. sym \in {"a"} \X {"plain"} => sym[1] = "a" /\ OnLayout(sym)
    BY DeviceAssumption DEF OnLayout
<1> QED
    BY <1>1, <1>2, <1>3, <1>4 DEF Borrowed

LEMMA DeviceBegins == DeviceInit => DeviceInv
<1> SUFFICES ASSUME DeviceInit PROVE OpenInv
    BY DEF DeviceInv
<1>1. DeviceTypes /\ BorrowedTypes
    BY EmptySeq DEF DeviceInit, DeviceTypes, BorrowedTypes, Mapping, Idle
<1>2. BooksAreTrue /\ BorrowedIsKnown /\ BorrowedOnce /\ ModifiersAreKnown /\ DownIsWanted /\ AtTheEnd
    BY DEF DeviceInit, BooksAreTrue, BorrowedIsKnown, BorrowedOnce, ModifiersAreKnown, DownIsWanted, AtTheEnd,
           AllIsUp, Idle
<1>3. TypedAsPressed
    BY DEF DeviceInit, TypedAsPressed
<1> QED
    BY <1>1, <1>2, <1>3 DEF OpenInv

(* Unread events that are excused, and one more.                           *)
LEMMA ExcusedRemain ==
    ASSUME BorrowedTypes, NEW slots
    PROVE  /\ Excuse(slots) \in Seq(KeyEvent) /\ Len(Excuse(slots)) = Len(unread)
           /\ \A i \in 1..Len(unread) :
                /\ Excuse(slots)[i].slot = unread[i].slot /\ Excuse(slots)[i].wanted = unread[i].wanted
                /\ Excuse(slots)[i].excused = (unread[i].excused \/ unread[i].slot \in slots)
           /\ unread = <<>> => Excuse(slots) = <<>>
<1>1. Len(unread) \in Nat /\ DOMAIN unread = 1..Len(unread) /\ \A i \in 1..Len(unread) : unread[i] \in KeyEvent
    BY LenProperties, ElementOfSeq DEF BorrowedTypes
<1>2. /\ DOMAIN Excuse(slots) = 1..Len(unread)
      /\ Excuse(slots) = [i \in 1..Len(unread) |-> Excuse(slots)[i]]
    BY <1>1 DEF Excuse
<1>3. \A i \in 1..Len(unread) :
        Excuse(slots)[i] = IF unread[i].slot \in slots THEN [unread[i] EXCEPT !.excused = TRUE] ELSE unread[i]
    BY <1>1 DEF Excuse
<1>4. ASSUME NEW i \in 1..Len(unread)
      PROVE  /\ Excuse(slots)[i] \in KeyEvent
             /\ Excuse(slots)[i].slot = unread[i].slot /\ Excuse(slots)[i].wanted = unread[i].wanted
             /\ Excuse(slots)[i].excused = (unread[i].excused \/ unread[i].slot \in slots)
    BY <1>1, <1>3 DEF KeyEvent
<1>5. Excuse(slots) \in Seq(KeyEvent)
    BY <1>1, <1>2, <1>4, IsASeq
<1>6. Len(Excuse(slots)) = Len(unread)
    BY <1>1, <1>2, <1>5, LenProperties
<1>7. unread = <<>> => Excuse(slots) = <<>>
    BY <1>5, <1>6, EmptySeq
<1> QED
    BY <1>4, <1>5, <1>6, <1>7

LEMMA OneMoreEvent ==
    ASSUME NEW s \in Seq(KeyEvent), NEW e \in KeyEvent
    PROVE  /\ Append(s, e) \in Seq(KeyEvent) /\ Len(Append(s, e)) = Len(s) + 1 /\ Len(s) \in Nat
           /\ Append(s, e)[Len(s) + 1] = e /\ \A i \in 1..Len(s) : Append(s, e)[i] = s[i]
BY AppendProperties, LenProperties

(* releaseAll() leaves nothing down, nothing borrowed and no modifier.     *)
LEMMA ReleaseFrees ==
    ASSUME OpenInv, ReleaseAll, backend' = backend
    PROVE  /\ AllIsUp' /\ BorrowedTypes' /\ BooksAreTrue' /\ BorrowedIsKnown' /\ BorrowedOnce'
           /\ TypedAsPressed' /\ ModifiersAreKnown' /\ heldButton' \in BOOLEAN
<1>1. down' = {}
    <2> SUFFICES ASSUME NEW c \in down' PROVE FALSE
        OBVIOUS
    <2>1. c \in down /\ ~(c = Pointer /\ heldButton)
        BY DEF ReleaseAll
    <2>2. PICK key \in heldKeys : c = Books(key)
        BY <2>1 DEF OpenInv, BooksAreTrue
    <2> QED
        BY <2>1, <2>2 DEF ReleaseAll, Books
<1>2. /\ pool' = [s \in Slot |-> Idle] /\ unread' = Excuse(Slot) /\ holders' = {} /\ heldButton' = FALSE
    BY DEF ReleaseAll, ForgetsAll
<1>3. BorrowedTypes /\ (backend # "x11" => unread = <<>>)
    BY DEF OpenInv, BorrowedOnce
<1>4. /\ unread' \in Seq(KeyEvent) /\ Len(unread') = Len(unread) /\ (unread = <<>> => unread' = <<>>)
      /\ \A i \in 1..Len(unread) : unread[i].slot \in Slot => unread'[i].excused
    BY <1>2, <1>3, ExcusedRemain
<1>5. \A i \in 1..Len(unread) : unread[i].slot \in Slot
    <2>1. unread \in Seq(KeyEvent)
        BY <1>3 DEF BorrowedTypes
    <2>2. \A i \in 1..Len(unread) : unread[i] \in KeyEvent
        BY <2>1, ElementOfSeq
    <2> QED
        BY <2>2 DEF KeyEvent
<1>6. BorrowedTypes'
    BY <1>2, <1>4 DEF BorrowedTypes, Mapping, Idle
<1>7. TypedAsPressed'
    <2>1. DOMAIN unread' = 1..Len(unread)
        BY <1>4, LenProperties
    <2> QED
        BY <1>4, <1>5, <2>1 DEF TypedAsPressed
<1>8. AllIsUp' /\ BooksAreTrue' /\ BorrowedIsKnown' /\ ModifiersAreKnown'
    BY <1>1, <1>2 DEF AllIsUp, BooksAreTrue, BorrowedIsKnown, ModifiersAreKnown, Idle
<1>9. BorrowedOnce'
    BY <1>2, <1>3, <1>4 DEF BorrowedOnce, Idle
<1> QED
    BY <1>2, <1>6, <1>7, <1>8, <1>9

LEMMA ReleasingKeeps ==
    ASSUME OpenInv, ReleaseAll, pressed' \in [Typist -> SUBSET Keysym],
           UNCHANGED <<backend, trusted, shut, drifted, lost>>
    PROVE  OpenInv'
<1>1. /\ AllIsUp' /\ BorrowedTypes' /\ BooksAreTrue' /\ BorrowedIsKnown' /\ BorrowedOnce'
      /\ TypedAsPressed' /\ ModifiersAreKnown' /\ heldButton' \in BOOLEAN
    BY ReleaseFrees
<1>2. DownIsWanted' /\ AtTheEnd'
    BY <1>1 DEF OpenInv, DownIsWanted, AtTheEnd, AllIsUp
<1>3. DeviceTypes'
    BY <1>1 DEF OpenInv, DeviceTypes, Keysym
<1> QED
    BY <1>1, <1>2, <1>3 DEF OpenInv

(* The books and what is wanted, when the keycode of a keysym goes up or      *)
(* down.                                                                   *)
LEMMA BooksFollow ==
    ASSUME BooksAreTrue, NEW key, NEW on \in BOOLEAN, KeyIsHeld(key, on), down' = Presses(Books(key), on),
           heldButton' = heldButton, backend' = backend
    PROVE  BooksAreTrue'
<1> SUFFICES ASSUME NEW c \in down'
             PROVE  (c = Pointer /\ heldButton) \/ \E k \in heldKeys' : c = Books(k)
    BY DEF BooksAreTrue, Books
<1>1. CASE on /\ c = Books(key)
    BY <1>1 DEF KeyIsHeld
<1>2. CASE on /\ c # Books(key)
    BY <1>2 DEF KeyIsHeld, Presses, BooksAreTrue
<1>3. CASE ~on
    <2>1. c \in down /\ c # Books(key)
        BY <1>3 DEF Presses
    <2> QED
        BY <1>3, <2>1 DEF KeyIsHeld, BooksAreTrue
<1> QED
    BY <1>1, <1>2, <1>3

Same(v, sym) == {m \in pressed[v] : m[1] = sym[1]}
Fewer(v, sym, on) == [pressed EXCEPT ![v] = IF on THEN @ \cup {sym} ELSE @ \ Same(v, sym)]

LEMMA WantedFollows ==
    ASSUME DownIsWanted, pressed \in [Typist -> SUBSET Keysym], NEW v \in Typist, NEW sym, NEW on \in BOOLEAN, NEW keycode,
           down' \in {Presses(keycode, on), down},
           pressed' = Fewer(v, sym, on), drifted' = (drifted \/ (~on /\ Same(v, sym) # {sym})), lost => lost',
           \A c \in down, k \in Keysym : (c # keycode \/ down' = down) => (Stands(c, k) => Stands(c, k)'),
           on /\ down' # down => Stands(keycode, sym)',
           ~on => \A c \in down' : ~Stands(c, sym)
    PROVE  DownIsWanted'
<1> SUFFICES ASSUME ~drifted', ~lost', NEW c \in down'
             PROVE  Held(c)'
    BY DEF DownIsWanted
<1>1. (\A d \in down : Held(d)) /\ (~on => Same(v, sym) = {sym})
    BY DEF DownIsWanted
<1>2. CASE c = keycode /\ on /\ down' # down
    <2>1. sym \in pressed'[v]
        BY <1>2 DEF Fewer
    <2> QED
        BY <1>2, <2>1 DEF Held
<1>3. CASE ~(c = keycode /\ on /\ down' # down)
    <2>1. c \in down /\ (c # keycode \/ down' = down)
        BY <1>3 DEF Presses
    <2>2. CASE c = Pointer
        BY <2>2 DEF Held
    <2>3. CASE c # Pointer
        <3>1. PICK w \in Typist, k \in Keysym : k \in pressed[w] /\ Stands(c, k)
            BY <1>1, <2>1, <2>3 DEF Held
        <3>2. k \in pressed'[w]
            <4>1. CASE w # v \/ on
                BY <3>1, <4>1 DEF Fewer
            <4>2. CASE w = v /\ ~on
                <5>1. k # sym
                    BY <2>1, <3>1, <4>2
                <5> QED
                    BY <1>1, <3>1, <4>2, <5>1 DEF Fewer
            <4> QED
                BY <4>1, <4>2
        <3>3. Stands(c, k)'
            BY <2>1, <3>1
        <3> QED
            BY <3>2, <3>3 DEF Held
    <2> QED
        BY <2>2, <2>3
<1> QED
    BY <1>2, <1>3

(* A key message on X11: the keycode of the layout, a borrowed one, or one *)
(* that is borrowed now; what it leaves is known, and its event reads as   *)
(* it was typed.                                                           *)
LEMMA X11KeyKeeps ==
    ASSUME OpenInv, backend = "x11", NEW sym \in Keysym, NEW on \in BOOLEAN, X11Key(sym, on),
           heldButton' = heldButton, backend' = backend
    PROVE  /\ BorrowedTypes' /\ BooksAreTrue' /\ BorrowedIsKnown' /\ BorrowedOnce' /\ TypedAsPressed'
           /\ ModifiersAreKnown'
           /\ \E keycode :
                /\ down' \in {Presses(keycode, on), down}
                /\ \A c \in down, k \in Keysym : (c # keycode \/ down' = down) => (Stands(c, k) => Stands(c, k)')
                /\ on /\ down' # down => Stands(keycode, sym)'
                /\ ~on => \A c \in down' : ~Stands(c, sym)
<1> DEFINE Follows(keycode) ==
                /\ down' \in {Presses(keycode, on), down}
                /\ \A c \in down, k \in Keysym : (c # keycode \/ down' = down) => (Stands(c, k) => Stands(c, k)')
                /\ on /\ down' # down => Stands(keycode, sym)'
                /\ ~on => \A c \in down' : ~Stands(c, sym)
<1>1. /\ DeviceTypes /\ BorrowedTypes /\ BooksAreTrue /\ BorrowedIsKnown /\ BorrowedOnce /\ TypedAsPressed
      /\ ModifiersAreKnown
    BY DEF OpenInv
<1>2. IF OnLayout(sym) THEN sym[1] = "a" /\ Borrowed(sym) = {} ELSE sym \in Foreign /\ sym # NoKeysym
    BY <1>1, KeysymIsEither
<1>3. pool \in [Slot -> Mapping] /\ unread \in Seq(KeyEvent) /\ ModifiersAreKnown' /\ holders' = {} /\ holders = {}
    BY <1>1, ZenonT(60) DEF X11Key, ModifiersAreKnown, BorrowedTypes
<1>4. CASE KnownKeycode(sym)
    <2>1. /\ Keycode(sym) = "a" /\ OnLayout(sym) /\ sym[1] = "a" /\ "a" \notin Slot
        BY <1>2, <1>4, DeviceAssumption DEF KnownKeycode, Keycode
    <2>2. /\ down' = Presses("a", on) /\ KeyIsHeld("a", on) /\ pool' = pool /\ unread' = unread
        BY <1>4, <2>1 DEF X11Key
    <2>3. BorrowedTypes' /\ BorrowedOnce' /\ TypedAsPressed'
        BY <1>1, <2>2 DEF BorrowedTypes, BorrowedOnce, TypedAsPressed
    <2>4. BorrowedIsKnown'
        BY <1>1, <2>1, <2>2 DEF BorrowedIsKnown, Presses
    <2>5. BooksAreTrue'
        BY <1>1, <2>2, BooksFollow DEF Books
    <2>6. Follows("a")
        BY <2>1, <2>2 DEF Stands, Presses
    <2> QED
        BY <1>3, <2>3, <2>4, <2>5, <2>6
<1>5. CASE ~KnownKeycode(sym) /\ Borrowed(sym) # {}
    <2>1. ~OnLayout(sym) /\ sym \in Foreign /\ sym # NoKeysym
        BY <1>2, <1>5
    <2>2. PICK s \in Borrowed(sym) :
            /\ down' = Presses(s, on) /\ KeyIsHeld(s, on)
            /\ pool' = [pool EXCEPT ![s] = IF on THEN [@ EXCEPT !.held = TRUE, !.timer = FALSE] ELSE Released(s, sym)]
            /\ unread' = IF on THEN Append(unread, [slot |-> s, wanted |-> sym, excused |-> FALSE]) ELSE unread
        BY <1>5, ZenonT(60) DEF X11Key
    <2>3. s \in Slot /\ pool[s].keysym = sym /\ pool[s] \in Mapping
        BY <1>3, <2>2 DEF Borrowed
    <2>4. /\ pool' \in [Slot -> Mapping] /\ pool'[s].keysym = sym /\ pool'[s].held = on /\ pool'[s].timer = ~on
          /\ \A r \in Slot : pool'[r].keysym = pool[r].keysym /\ (r # s => pool'[r] = pool[r])
        BY <1>3, <2>1, <2>2, <2>3 DEF Mapping, Released
    <2> DEFINE e == [slot |-> s, wanted |-> sym, excused |-> FALSE]
    <2>5. e \in KeyEvent /\ e.slot = s /\ e.wanted = sym
        BY <2>1, <2>3 DEF KeyEvent
    <2>6. unread' = IF on THEN Append(unread, e) ELSE unread
        BY <2>2
    <2> HIDE DEF e
    <2>7. /\ Append(unread, e) \in Seq(KeyEvent) /\ Len(Append(unread, e)) = Len(unread) + 1 /\ Len(unread) \in Nat
          /\ Append(unread, e)[Len(unread) + 1] = e /\ \A i \in 1..Len(unread) : Append(unread, e)[i] = unread[i]
        BY <1>3, <2>5, OneMoreEvent
    <2>8. BorrowedTypes' /\ BorrowedOnce'
        BY <1>1, <1>3, <2>1, <2>4, <2>6, <2>7 DEF BorrowedTypes, BorrowedOnce
    <2>9. BorrowedIsKnown'
        BY <1>1, <2>2, <2>3, <2>4 DEF BorrowedIsKnown, Presses
    <2>10. TypedAsPressed'
        <3>1. \A i \in 1..Len(unread) : unread[i].slot \in Slot
            <4>1. \A i \in 1..Len(unread) : unread[i] \in KeyEvent
                BY <1>3, ElementOfSeq
            <4> QED
                BY <4>1 DEF KeyEvent
        <3>2. \A i \in 1..Len(unread) : unread[i].excused \/ pool'[unread[i].slot].keysym = unread[i].wanted
            BY <1>1, <1>3, <2>4, <3>1, LenProperties DEF TypedAsPressed
        <3>3. CASE on
            <4>1. unread' = Append(unread, e) /\ DOMAIN unread' = 1..(Len(unread) + 1)
                BY <2>6, <2>7, <3>3, LenProperties
            <4> SUFFICES ASSUME NEW i \in 1..(Len(unread) + 1)
                         PROVE  unread'[i].excused \/ pool'[unread'[i].slot].keysym = unread'[i].wanted
                BY <4>1 DEF TypedAsPressed
            <4>2. i \in 1..Len(unread) \/ i = Len(unread) + 1
                BY <2>7
            <4> QED
                BY <2>4, <2>5, <2>7, <3>2, <4>1, <4>2
        <3>4. CASE ~on
            BY <1>3, <2>6, <3>2, <3>4, LenProperties DEF TypedAsPressed
        <3> QED
            BY <3>3, <3>4
    <2>11. BooksAreTrue'
        BY <1>1, <2>2, BooksFollow DEF Books
    <2>12. Follows(s)
        <3>1. \A c \in down, k \in Keysym : Stands(c, k) => Stands(c, k)'
            BY <2>4 DEF Stands
        <3>2. Stands(s, sym)'
            BY <2>1, <2>3, <2>4 DEF Stands
        <3>3. \A c : Stands(c, sym) => c = s
            BY <1>1, <2>1, <2>3 DEF Stands, BorrowedOnce
        <3> QED
            BY <2>2, <3>1, <3>2, <3>3 DEF Presses
    <2> QED
        BY <1>3, <2>8, <2>9, <2>10, <2>11, <2>12
<1>6. CASE ~KnownKeycode(sym) /\ Borrowed(sym) = {} /\ (~on \/ FreeSlots = {})
    <2>1. UNCHANGED <<down, heldKeys, pool, unread>>
        BY <1>6 DEF X11Key
    <2>2. BorrowedTypes' /\ BooksAreTrue' /\ BorrowedIsKnown' /\ BorrowedOnce' /\ TypedAsPressed'
        BY <1>1, <2>1 DEF BorrowedTypes, BooksAreTrue, BorrowedIsKnown, BorrowedOnce, TypedAsPressed, Books
    <2>3. \A c \in down, k \in Keysym : Stands(c, k) => Stands(c, k)'
        BY <2>1 DEF Stands
    <2>4. \A c : ~Stands(c, sym)
        BY <1>6 DEF KnownKeycode, Stands, Borrowed
    <2>5. Follows(Pointer)
        BY <2>1, <2>3, <2>4
    <2> QED
        BY <1>3, <2>2, <2>5
<1>7. CASE ~KnownKeycode(sym) /\ Borrowed(sym) = {} /\ on /\ FreeSlots # {}
    <2>1. ~OnLayout(sym) /\ sym \in Foreign /\ sym # NoKeysym
        BY <1>2, <1>7 DEF KnownKeycode
    <2>2. PICK s \in FreeSlots :
            /\ down' = Presses(s, TRUE) /\ KeyIsHeld(s, TRUE)
            /\ pool' = [pool EXCEPT ![s] = [keysym |-> sym, held |-> TRUE, timer |-> FALSE]]
            /\ unread' = Append(Excuse({s}), [slot |-> s, wanted |-> sym, excused |-> FALSE])
        BY <1>7 DEF X11Key
    <2>3. s \in Slot /\ ~pool[s].held /\ s \notin down
        BY <1>1, <2>2 DEF FreeSlots, BorrowedIsKnown
    <2>4. /\ pool' \in [Slot -> Mapping] /\ pool'[s].keysym = sym /\ pool'[s].held /\ ~pool'[s].timer
          /\ \A r \in Slot : r # s => pool'[r] = pool[r]
        BY <1>3, <2>1, <2>2, <2>3 DEF Mapping
    <2> DEFINE e == [slot |-> s, wanted |-> sym, excused |-> FALSE]
               before == Excuse({s})
    <2>5. e \in KeyEvent /\ e.slot = s /\ e.wanted = sym
        BY <2>1, <2>3 DEF KeyEvent
    <2>6. /\ before \in Seq(KeyEvent) /\ Len(before) = Len(unread)
          /\ \A i \in 1..Len(unread) :
                /\ before[i].slot = unread[i].slot /\ before[i].wanted = unread[i].wanted
                /\ before[i].excused = (unread[i].excused \/ unread[i].slot \in {s})
        BY <1>1, ExcusedRemain
    <2>7. unread' = Append(before, e)
        BY <2>2
    <2> HIDE DEF e, before
    <2>8. /\ Append(before, e) \in Seq(KeyEvent) /\ Len(Append(before, e)) = Len(unread) + 1 /\ Len(unread) \in Nat
          /\ Append(before, e)[Len(unread) + 1] = e /\ \A i \in 1..Len(unread) : Append(before, e)[i] = before[i]
        BY <2>5, <2>6, OneMoreEvent
    <2>9. BorrowedTypes'
        BY <2>4, <2>7, <2>8 DEF BorrowedTypes
    <2>10. BorrowedOnce'
        <3>1. \A r \in Slot : pool[r].keysym # sym
            BY <1>7 DEF Borrowed
        <3> QED
            BY <1>1, <2>1, <2>4, <3>1 DEF BorrowedOnce
    <2>11. BorrowedIsKnown'
        BY <1>1, <2>2, <2>3, <2>4 DEF BorrowedIsKnown, Presses
    <2>12. TypedAsPressed'
        <3>1. \A i \in 1..Len(unread) : unread[i].slot \in Slot
            <4>1. \A i \in 1..Len(unread) : unread[i] \in KeyEvent
                BY <1>3, ElementOfSeq
            <4> QED
                BY <4>1 DEF KeyEvent
        <3>2. \A i \in 1..Len(unread) : unread[i].excused \/ pool[unread[i].slot].keysym = unread[i].wanted
            BY <1>1, <1>3, LenProperties DEF TypedAsPressed
        <3>3. \A i \in 1..Len(unread) : before[i].excused \/ pool'[before[i].slot].keysym = before[i].wanted
            BY <2>4, <2>6, <3>1, <3>2, ZenonT(60)
        <3>4. DOMAIN unread' = 1..(Len(unread) + 1)
            BY <2>7, <2>8, LenProperties
        <3> SUFFICES ASSUME NEW i \in 1..(Len(unread) + 1)
                     PROVE  unread'[i].excused \/ pool'[unread'[i].slot].keysym = unread'[i].wanted
            BY <3>4 DEF TypedAsPressed
        <3>5. i \in 1..Len(unread) \/ i = Len(unread) + 1
            BY <2>8
        <3> QED
            BY <2>4, <2>5, <2>7, <2>8, <3>3, <3>5
    <2>13. BooksAreTrue'
        BY <1>1, <1>7, <2>2, BooksFollow DEF Books
    <2>14. Follows(s)
        <3>1. \A c \in down, k \in Keysym : Stands(c, k) => Stands(c, k)'
            BY <2>3, <2>4 DEF Stands
        <3>2. Stands(s, sym)'
            BY <2>1, <2>3, <2>4 DEF Stands
        <3> QED
            BY <1>7, <2>2, <3>1, <3>2
    <2> QED
        BY <1>3, <2>9, <2>10, <2>11, <2>12, <2>13, <2>14
<1> QED
    BY <1>4, <1>5, <1>6, <1>7

(* A key message on Wayland and macOS: its keycode goes up or down.           *)
LEMMA OtherKeyKeeps ==
    ASSUME OpenInv, backend # "x11", NEW sym \in Keysym, NEW on \in BOOLEAN,
           (backend = "wayland" /\ WaylandKey(sym, on)) \/ (backend = "mac" /\ MacKey(sym, on)),
           heldButton' = heldButton, backend' = backend
    PROVE  /\ BorrowedTypes' /\ BooksAreTrue' /\ BorrowedIsKnown' /\ BorrowedOnce' /\ TypedAsPressed'
           /\ ModifiersAreKnown'
           /\ \E keycode :
                /\ down' \in {Presses(keycode, on), down}
                /\ \A c \in down, k \in Keysym : (c # keycode \/ down' = down) => (Stands(c, k) => Stands(c, k)')
                /\ on /\ down' # down => Stands(keycode, sym)'
                /\ ~on => \A c \in down' : ~Stands(c, sym)
<1> PICK keycode : keycode = Books(sym)
    OBVIOUS
<1>1. /\ DeviceTypes /\ BorrowedTypes /\ BooksAreTrue /\ BorrowedIsKnown /\ BorrowedOnce /\ TypedAsPressed
      /\ ModifiersAreKnown /\ backend \in {"wayland", "mac"}
    BY DEF OpenInv, DeviceTypes
<1>2. sym[1] \in LayoutKey \cup ForeignKey
    BY <1>1, DeviceAssumption DEF Keysym
<1>3. keycode = (IF backend = "mac" /\ ~OnLayout(sym) THEN "a" ELSE sym[1]) /\ keycode \in LayoutKey \cup ForeignKey
      /\ (backend = "mac" => keycode \in LayoutKey) /\ keycode \notin Slot
    BY <1>1, <1>2, DeviceAssumption DEF Books, OnLayout
<1>4. down' = Presses(keycode, on) /\ KeyIsHeld(sym, on) /\ pool' = pool /\ unread' = unread
    BY <1>1, <1>3 DEF WaylandKey, MacKey
<1>5. holders' = IF backend = "mac" /\ keycode \in ShiftKey
                 THEN NowHolding(keycode, on) ELSE holders
    BY <1>1, <1>3 DEF WaylandKey, MacKey
<1>6. \A c : Stands(c, sym) <=> c = keycode
    BY <1>1, <1>3 DEF Stands, OnLayout
<1>7. BorrowedTypes' /\ BorrowedOnce' /\ TypedAsPressed'
    BY <1>1, <1>4 DEF BorrowedTypes, BorrowedOnce, TypedAsPressed
<1>8. BorrowedIsKnown'
    BY <1>1, <1>3, <1>4 DEF BorrowedIsKnown, Presses
<1>9. BooksAreTrue'
    BY <1>1, <1>4, BooksFollow
<1>10. ModifiersAreKnown'
    BY <1>1, <1>4, <1>5 DEF ModifiersAreKnown, Presses, NowHolding
<1>11. \A c \in down, k \in Keysym : Stands(c, k) => Stands(c, k)'
    BY <1>4 DEF Stands
<1>12. Stands(keycode, sym)'
    BY <1>4, <1>6 DEF Stands
<1>13. ~on => \A c \in down' : ~Stands(c, sym)
    BY <1>4, <1>6 DEF Presses
<1> QED
    BY <1>4, <1>7, <1>8, <1>9, <1>10, <1>11, <1>12, <1>13

LEMMA KeyKeeps ==
    ASSUME OpenInv, NEW v \in Typist, NEW sym \in Keysym, NEW on \in BOOLEAN, KeyMessage(v, sym, on)
    PROVE  OpenInv'
<1>1. /\ DeviceTypes /\ DownIsWanted /\ AtTheEnd /\ pressed \in [Typist -> SUBSET Keysym]
    BY DEF OpenInv, DeviceTypes
<1> DEFINE same == {m \in pressed[v] : m[1] = sym[1]}
<1>2. /\ v \in seated /\ UNCHANGED <<backend, seated, trusted, shut>>
      /\ pressed' = [pressed EXCEPT ![v] = IF on THEN @ \cup {sym} ELSE @ \ same]
      /\ drifted' = (drifted \/ (~on /\ same # {sym})) /\ lost' = (lost \/ (~Available /\ ~on))
    BY DEF KeyMessage
<1>3. heldButton' = heldButton
    BY DEF KeyMessage, ledger
<1>4. DeviceTypes' /\ AtTheEnd'
    <2>1. Keysym' = Keysym
        BY <1>2 DEF Keysym
    <2>2. pressed' \in [Typist -> SUBSET Keysym]
        BY <1>1, <1>2
    <2>3. AtTheEnd'
        BY <1>1, <1>2 DEF AtTheEnd
    <2> QED
        BY <1>1, <1>2, <1>3, <2>1, <2>2, <2>3 DEF DeviceTypes
<1>5. CASE ~Available
    <2>1. UNCHANGED <<down, ledger, unread>>
        BY <1>5 DEF KeyMessage
    <2>2. /\ BorrowedTypes' /\ BooksAreTrue' /\ BorrowedIsKnown' /\ BorrowedOnce' /\ TypedAsPressed'
          /\ ModifiersAreKnown'
        BY <1>2, <2>1 DEF OpenInv, ledger, BorrowedTypes, BooksAreTrue, BorrowedIsKnown, BorrowedOnce,
                          TypedAsPressed, ModifiersAreKnown, Books
    <2>3. DownIsWanted'
        <3> SUFFICES ASSUME ~drifted', ~lost', NEW c \in down' PROVE Held(c)'
            BY DEF DownIsWanted
        <3>1. on /\ Held(c) /\ pool' = pool
            BY <1>1, <1>2, <1>5, <2>1 DEF DownIsWanted, ledger
        <3>2. \A w \in Typist : pressed[w] \subseteq pressed'[w]
            BY <1>1, <1>2, <3>1
        <3> QED
            BY <1>2, <3>1, <3>2 DEF Held, Stands
    <2> QED
        BY <1>4, <2>2, <2>3 DEF OpenInv
<1>6. CASE Available
    <2>1. /\ BorrowedTypes' /\ BooksAreTrue' /\ BorrowedIsKnown' /\ BorrowedOnce' /\ TypedAsPressed'
          /\ ModifiersAreKnown'
          /\ \E keycode :
                /\ down' \in {Presses(keycode, on), down}
                /\ \A c \in down, k \in Keysym : (c # keycode \/ down' = down) => (Stands(c, k) => Stands(c, k)')
                /\ on /\ down' # down => Stands(keycode, sym)'
                /\ ~on => \A c \in down' : ~Stands(c, sym)
        <3>1. CASE backend = "x11"
            <4>1. X11Key(sym, on)
                BY <1>6, <3>1 DEF KeyMessage
            <4> QED
                BY <1>2, <1>3, <3>1, <4>1, X11KeyKeeps
        <3>2. CASE backend # "x11"
            <4>1. (backend = "wayland" /\ WaylandKey(sym, on)) \/ (backend = "mac" /\ MacKey(sym, on))
                BY <1>6, <3>2 DEF KeyMessage
            <4> QED
                BY <1>2, <1>3, <3>2, <4>1, OtherKeyKeeps
        <3> QED
            BY <3>1, <3>2
    <2>2. PICK keycode : /\ down' \in {Presses(keycode, on), down}
                         /\ \A c \in down, k \in Keysym : (c # keycode \/ down' = down) => (Stands(c, k) => Stands(c, k)')
                         /\ on /\ down' # down => Stands(keycode, sym)'
                         /\ ~on => \A c \in down' : ~Stands(c, sym)
        BY <2>1
    <2>3. DownIsWanted'
        <3>1. pressed' = Fewer(v, sym, on)
            BY <1>2 DEF Fewer, Same
        <3>2. drifted' = (drifted \/ (~on /\ Same(v, sym) # {sym})) /\ (lost => lost')
            BY <1>2 DEF Same
        <3> QED
            BY <1>1, <2>2, <3>1, <3>2, WantedFollows, SMTT(30)
    <2> QED
        BY <1>4, <2>1, <2>3 DEF OpenInv
<1> QED
    BY <1>5, <1>6

(* A borrowed keycode is given back.                                       *)
LEMMA GivingBackKeeps ==
    ASSUME OpenInv, NEW s \in Slot, GiveBack(s)
    PROVE  OpenInv'
<1>1. /\ DeviceTypes /\ BorrowedTypes /\ BorrowedIsKnown /\ BorrowedOnce /\ TypedAsPressed /\ DownIsWanted /\ AtTheEnd
      /\ BooksAreTrue /\ ModifiersAreKnown
    BY DEF OpenInv
<1>2. pool[s].timer /\ ~shut /\ pool \in [Slot -> Mapping] /\ ~AllIsUp
    BY <1>1 DEF GiveBack, AtTheEnd, AllIsUp, Idle, BorrowedTypes
<1>3. /\ pool'[s] = IF pool[s].held THEN [pool[s] EXCEPT !.timer = FALSE] ELSE Idle
      /\ \A r \in Slot \ {s} : pool'[r] = pool[r]
      /\ unread' = IF pool[s].held THEN unread ELSE Excuse({s})
      /\ UNCHANGED <<backend, seated, pressed, down, heldKeys, heldButton, holders, trusted, shut, drifted, lost>>
    BY <1>2 DEF GiveBack
<1>10. /\ unread' \in Seq(KeyEvent) /\ (unread = <<>> => unread' = <<>>)
       /\ DOMAIN unread' = 1..Len(unread) /\ DOMAIN unread = 1..Len(unread)
       /\ \A i \in 1..Len(unread) :
            /\ unread[i].slot \in Slot /\ unread'[i].slot = unread[i].slot /\ unread'[i].wanted = unread[i].wanted
            /\ unread[i].excused => unread'[i].excused
            /\ ~pool[s].held /\ unread[i].slot = s => unread'[i].excused
    <2>1. \A i \in 1..Len(unread) : unread[i].slot \in Slot
        <3>1. \A i \in 1..Len(unread) : unread[i] \in KeyEvent
            BY <1>1, ElementOfSeq DEF BorrowedTypes
        <3> QED
            BY <3>1 DEF KeyEvent
    <2>2. CASE pool[s].held
        BY <1>1, <1>3, <2>1, <2>2, LenProperties DEF BorrowedTypes
    <2>3. CASE ~pool[s].held
        <3>1. unread' = Excuse({s})
            BY <1>3, <2>3
        <3>2. /\ Len(unread') = Len(unread) /\ unread' \in Seq(KeyEvent) /\ (unread = <<>> => unread' = <<>>)
              /\ \A i \in 1..Len(unread) :
                    /\ unread'[i].slot = unread[i].slot /\ unread'[i].wanted = unread[i].wanted
                    /\ unread'[i].excused = (unread[i].excused \/ unread[i].slot \in {s})
            BY <1>1, <3>1, ExcusedRemain
        <3>3. DOMAIN unread' = 1..Len(unread) /\ DOMAIN unread = 1..Len(unread)
            BY <1>1, <3>2, LenProperties DEF BorrowedTypes
        <3> QED
            BY <2>1, <3>2, <3>3
    <2> QED
        BY <2>2, <2>3
<1>4. pool' \in [Slot -> Mapping] /\ pool'[s].held = pool[s].held
      /\ pool'[s].keysym = (IF pool[s].held THEN pool[s].keysym ELSE NoKeysym)
    <2>1. pool[s] \in Mapping /\ Idle \in Mapping
        BY <1>2 DEF Mapping, Idle
    <2>2. [pool[s] EXCEPT !.timer = FALSE] \in Mapping
        BY <2>1 DEF Mapping
    <2>3. pool' = [pool EXCEPT ![s] = IF pool[s].held THEN [pool[s] EXCEPT !.timer = FALSE] ELSE Idle]
        BY <1>2 DEF GiveBack
    <2> QED
        BY <1>2, <1>3, <2>1, <2>2, <2>3 DEF Mapping, Idle
<1>5. DeviceTypes' /\ BorrowedTypes' /\ BooksAreTrue' /\ ModifiersAreKnown' /\ AtTheEnd'
    BY <1>1, <1>2, <1>3, <1>4, <1>10 DEF DeviceTypes, Keysym, BorrowedTypes, BooksAreTrue, Books, ModifiersAreKnown, AtTheEnd
<1>6. BorrowedIsKnown'
    <2>1. pool[s].held => pool[s].keysym = pool'[s].keysym
        BY <1>4
    <2> QED
        BY <1>1, <1>3, <1>4, <2>1 DEF BorrowedIsKnown
<1>7. BorrowedOnce'
    <2>1. backend = "x11"
        BY <1>1, <1>2 DEF BorrowedOnce, Idle
    <2>2. \A r \in Slot : pool'[r].keysym \in {pool[r].keysym, NoKeysym} /\ pool'[r].held = pool[r].held
        BY <1>3, <1>4
    <2>3. \A r \in Slot : pool'[r].held => pool'[r].keysym # NoKeysym
        BY <1>1, <1>3, <1>4, ZenonT(60) DEF BorrowedOnce
    <2> QED
        BY <1>1, <1>3, <2>1, <2>2, <2>3 DEF BorrowedOnce
<1>8. TypedAsPressed'
    <2> SUFFICES ASSUME NEW i \in 1..Len(unread)
                 PROVE  unread'[i].excused \/ pool'[unread'[i].slot].keysym = unread'[i].wanted
        BY <1>10 DEF TypedAsPressed
    <2>1. unread[i].excused \/ pool[unread[i].slot].keysym = unread[i].wanted
        BY <1>1, <1>10 DEF TypedAsPressed
    <2>2. CASE unread[i].slot # s
        BY <1>3, <1>10, <2>1, <2>2
    <2>3. CASE unread[i].slot = s /\ pool[s].held
        BY <1>4, <1>10, <2>1, <2>3
    <2>4. CASE unread[i].slot = s /\ ~pool[s].held
        BY <1>10, <2>4
    <2> QED
        BY <2>2, <2>3, <2>4
<1>9. DownIsWanted'
    <2> SUFFICES ASSUME ~drifted', ~lost', NEW c \in down' PROVE Held(c)'
        BY DEF DownIsWanted
    <2>1. Held(c) /\ c \in down
        BY <1>1, <1>3 DEF DownIsWanted
    <2>2. \A sym : Stands(c, sym) => Stands(c, sym)'
        BY <1>1, <1>3, <1>4, <2>1 DEF Stands, BorrowedIsKnown
    <2> QED
        BY <1>3, <2>1, <2>2 DEF Held
<1> QED
    BY <1>5, <1>6, <1>7, <1>8, <1>9 DEF OpenInv

LEMMA OpenKeeps == OpenInv /\ [DeviceNext]_deviceVars => DeviceInv'
<1> SUFFICES ASSUME OpenInv, [DeviceNext]_deviceVars PROVE DeviceInv'
    OBVIOUS
<1>1. /\ DeviceTypes /\ BorrowedTypes /\ BooksAreTrue /\ BorrowedIsKnown /\ BorrowedOnce
      /\ TypedAsPressed /\ ModifiersAreKnown /\ DownIsWanted /\ AtTheEnd
    BY DEF OpenInv
<1>2. ASSUME NEW v \in Typist, Sits(v) PROVE OpenInv'
    <2>1. AtTheEnd'
        BY <1>1, <1>2 DEF Sits, AtTheEnd
    <2> QED
        BY <1>1, <1>2, <2>1 DEF Sits, ledger, OpenInv, DeviceTypes, Keysym, BorrowedTypes, BooksAreTrue, Books,
            BorrowedIsKnown, BorrowedOnce, TypedAsPressed, ModifiersAreKnown, DownIsWanted, Held, Stands
<1>3. ASSUME Trust \/ UNCHANGED deviceVars PROVE OpenInv'
    BY <1>1, <1>3 DEF Trust, deviceVars, ledger, OpenInv, DeviceTypes, Keysym, BorrowedTypes, BooksAreTrue, Books,
            BorrowedIsKnown, BorrowedOnce, TypedAsPressed, ModifiersAreKnown, DownIsWanted, Held, Stands,
            AtTheEnd, AllIsUp
<1>4. ASSUME Reads PROVE OpenInv'
    <2>1. unread \in Seq(KeyEvent) /\ unread # <<>> /\ unread' = Tail(unread) /\ backend = "x11"
        BY <1>1, <1>4 DEF Reads, BorrowedTypes, BorrowedOnce
    <2>2. /\ Tail(unread) \in Seq(KeyEvent) /\ Len(Tail(unread)) = Len(unread) - 1 /\ Len(unread) \in Nat
          /\ \A i \in 1..Len(Tail(unread)) : Tail(unread)[i] = unread[i + 1]
        BY <2>1, HeadTailProperties, LenProperties
    <2>3. DOMAIN unread = 1..Len(unread) /\ DOMAIN unread' = 1..(Len(unread) - 1)
        BY <2>1, <2>2, LenProperties
    <2>4. \A i \in DOMAIN unread' : i + 1 \in DOMAIN unread /\ unread'[i] = unread[i + 1]
        BY <2>1, <2>2, <2>3
    <2>5. BorrowedTypes'
        BY <1>1, <1>4, <2>1, <2>2 DEF Reads, ledger, BorrowedTypes
    <2>6. BorrowedOnce'
        BY <1>1, <1>4, <2>1 DEF Reads, ledger, BorrowedOnce
    <2>7. TypedAsPressed'
        BY <1>1, <1>4, <2>4 DEF Reads, ledger, TypedAsPressed
    <2> QED
        BY <1>1, <1>4, <2>5, <2>6, <2>7 DEF Reads, ledger, OpenInv, DeviceTypes, Keysym, BooksAreTrue, Books,
            BorrowedIsKnown, ModifiersAreKnown, DownIsWanted, Held, Stands, AtTheEnd, AllIsUp
<1>5. ASSUME NEW v \in Typist, NEW on \in BOOLEAN, PointerMessage(v, on) PROVE OpenInv'
    <2>1. /\ v \in seated /\ down' = Presses(Pointer, on) /\ heldButton' = on
          /\ UNCHANGED <<backend, seated, pressed, heldKeys, pool, holders, unread, trusted, shut, drifted, lost>>
        BY <1>5 DEF PointerMessage
    <2>2. Pointer \notin Slot /\ Pointer \notin ShiftKey
        BY DeviceAssumption DEF Pointer
    <2>3. \A c : c # Pointer => (c \in down' <=> c \in down)
        BY <2>1 DEF Presses
    <2>4. BooksAreTrue'
        <3> SUFFICES ASSUME NEW c \in down'
                     PROVE  (c = Pointer /\ heldButton') \/ \E key \in heldKeys : c = Books(key)
            BY <2>1 DEF BooksAreTrue, Books
        <3>1. CASE c = Pointer
            BY <2>1, <3>1 DEF Presses
        <3>2. CASE c # Pointer
            BY <1>1, <2>3, <3>2 DEF BooksAreTrue
        <3> QED
            BY <3>1, <3>2
    <2>5. BorrowedIsKnown' /\ ModifiersAreKnown'
        BY <1>1, <2>1, <2>2, <2>3 DEF BorrowedIsKnown, ModifiersAreKnown
    <2>6. DownIsWanted'
        BY <1>1, <2>1, <2>3 DEF DownIsWanted, Held, Stands
    <2>7. DeviceTypes' /\ BorrowedTypes' /\ BorrowedOnce' /\ TypedAsPressed' /\ AtTheEnd'
        BY <1>1, <2>1 DEF DeviceTypes, Keysym, BorrowedTypes, BorrowedOnce, TypedAsPressed, AtTheEnd
    <2> QED
        BY <2>4, <2>5, <2>6, <2>7 DEF OpenInv
<1>6. ASSUME NEW v \in Typist, ReleaseMessage(v) PROVE OpenInv'
    <2>1. pressed' \in [Typist -> SUBSET Keysym]
        BY <1>1, <1>6 DEF ReleaseMessage, DeviceTypes
    <2> QED
        BY <1>6, <2>1, ReleasingKeeps DEF ReleaseMessage
<1>7. ASSUME NEW v \in Typist, Leaves(v) PROVE OpenInv'
    <2>1. pressed' \in [Typist -> SUBSET Keysym] /\ ~shut /\ shut' = shut /\ Keysym' = Keysym
        BY <1>1, <1>7 DEF Leaves, DeviceTypes, AtTheEnd, Keysym
    <2>2. CASE Available
        BY <1>7, <2>1, <2>2, ReleasingKeeps DEF Leaves
    <2>3. CASE ~Available
        <3>1. UNCHANGED <<down, ledger, unread, backend, trusted, shut, drifted>> /\ lost' = TRUE
            BY <1>7, <2>3 DEF Leaves
        <3>2. DownIsWanted' /\ AtTheEnd'
            BY <2>1, <3>1 DEF DownIsWanted, AtTheEnd
        <3>3. DeviceTypes' /\ BorrowedTypes' /\ BorrowedOnce' /\ TypedAsPressed' /\ BooksAreTrue'
              /\ BorrowedIsKnown' /\ ModifiersAreKnown'
            BY <1>1, <2>1, <3>1 DEF ledger, DeviceTypes, BorrowedTypes, BorrowedOnce, TypedAsPressed, BooksAreTrue,
                Books, BorrowedIsKnown, ModifiersAreKnown
        <3> QED
            BY <3>2, <3>3 DEF OpenInv
    <2> QED
        BY <2>2, <2>3
<1>8. ASSUME Shuts PROVE ShutInv'
    <2>1. pressed' \in [Typist -> SUBSET Keysym] /\ shut' /\ seated' = {} /\ Keysym' = Keysym
          /\ UNCHANGED <<backend, trusted, drifted>>
        BY <1>8 DEF Shuts, Keysym
    <2>2. CASE trusted
        <3>1. ReleaseAll /\ lost' = lost
            BY <1>8, <2>2 DEF Shuts
        <3>2. /\ AllIsUp' /\ BorrowedTypes' /\ BooksAreTrue' /\ BorrowedIsKnown' /\ BorrowedOnce'
              /\ TypedAsPressed' /\ ModifiersAreKnown' /\ heldButton' \in BOOLEAN
            BY <2>1, <3>1, ReleaseFrees
        <3>3. holders' = {}
            BY <3>1 DEF ReleaseAll, ForgetsAll
        <3> QED
            BY <1>1, <2>1, <3>1, <3>2, <3>3 DEF ShutInv, AllIsUp, DeviceTypes
    <2>3. CASE ~trusted
        <3>1. ForgetsAll /\ down' = down /\ lost' = TRUE
            BY <1>8, <2>3 DEF Shuts
        <3>2. /\ pool' = [s \in Slot |-> Idle] /\ unread' = Excuse(Slot) /\ holders' = {} /\ heldButton' = FALSE
            BY <3>1 DEF ForgetsAll
        <3>3. unread = <<>> /\ \A s \in Slot : pool[s] = Idle
            BY <1>1, <2>3 DEF DeviceTypes, BorrowedOnce
        <3>4. unread' = <<>>
            BY <1>1, <3>2, <3>3, ExcusedRemain
        <3>5. BorrowedTypes' /\ TypedAsPressed'
            BY <3>2, <3>4, EmptySeq DEF BorrowedTypes, TypedAsPressed, Mapping, Idle
        <3>6. BorrowedIsKnown' /\ BorrowedOnce'
            BY <1>1, <3>1, <3>2, <3>3, <3>4 DEF BorrowedIsKnown, BorrowedOnce, Idle
        <3> QED
            BY <1>1, <2>1, <3>1, <3>2, <3>5, <3>6 DEF ShutInv, DeviceTypes
    <2> QED
        BY <2>2, <2>3
<1> QED
    BY <1>2, <1>3, <1>4, <1>5, <1>6, <1>7, <1>8, KeyKeeps, GivingBackKeeps DEF DeviceNext, DeviceInv

(* Once the controller is closed only what is unread changes, and whether  *)
(* macOS would let input through.                                          *)
LEMMA ShutKeeps == ShutInv /\ [DeviceNext]_deviceVars => ShutInv'
<1> SUFFICES ASSUME ShutInv, [DeviceNext]_deviceVars PROVE ShutInv'
    OBVIOUS
<1>1. /\ DeviceTypes /\ BorrowedTypes /\ BorrowedIsKnown /\ BorrowedOnce /\ TypedAsPressed
      /\ shut /\ seated = {} /\ holders = {} /\ (lost \/ down = {}) /\ \A s \in Slot : pool[s] = Idle
    BY DEF ShutInv
<1>2. Trust \/ Reads \/ UNCHANGED deviceVars
    <2>1. ASSUME NEW v \in Typist PROVE ~Sits(v) /\ ~Leaves(v) /\ ~ReleaseMessage(v)
        BY <1>1 DEF Sits, Leaves, ReleaseMessage
    <2>2. ASSUME NEW v \in Typist, NEW on \in BOOLEAN
          PROVE  ~PointerMessage(v, on) /\ \A sym \in Keysym : ~KeyMessage(v, sym, on)
        BY <1>1 DEF PointerMessage, KeyMessage
    <2>3. ~Shuts /\ \A s \in Slot : ~GiveBack(s)
        <3>1. \A s \in Slot : ~pool[s].timer
            BY <1>1 DEF Idle
        <3> QED
            BY <1>1, <3>1 DEF Shuts, GiveBack
    <2> QED
        BY <2>1, <2>2, <2>3 DEF DeviceNext
<1>3. CASE Trust \/ UNCHANGED deviceVars
    BY <1>1, <1>3 DEF Trust, deviceVars, ledger, ShutInv, DeviceTypes, Keysym, BorrowedTypes, BorrowedIsKnown,
        BorrowedOnce, TypedAsPressed
<1>4. CASE Reads
    <2>1. unread \in Seq(KeyEvent) /\ unread # <<>> /\ unread' = Tail(unread) /\ backend = "x11"
        BY <1>1, <1>4 DEF Reads, BorrowedTypes, BorrowedOnce
    <2>2. /\ Tail(unread) \in Seq(KeyEvent) /\ Len(Tail(unread)) = Len(unread) - 1 /\ Len(unread) \in Nat
          /\ \A i \in 1..Len(Tail(unread)) : Tail(unread)[i] = unread[i + 1]
        BY <2>1, HeadTailProperties, LenProperties
    <2>3. DOMAIN unread = 1..Len(unread) /\ DOMAIN unread' = 1..(Len(unread) - 1)
        BY <2>1, <2>2, LenProperties
    <2>4. \A i \in DOMAIN unread' : i + 1 \in DOMAIN unread /\ unread'[i] = unread[i + 1]
        BY <2>1, <2>2, <2>3
    <2>5. UNCHANGED <<backend, seated, pressed, down, heldButton, pool, holders, trusted, shut, drifted, lost>>
        BY <1>4 DEF Reads, ledger
    <2> QED
        BY <1>1, <2>1, <2>2, <2>4, <2>5 DEF ShutInv, DeviceTypes, Keysym, BorrowedTypes, BorrowedIsKnown,
            BorrowedOnce, TypedAsPressed
<1> QED
    BY <1>2, <1>3, <1>4

LEMMA DeviceKeeps == DeviceInv /\ [DeviceNext]_deviceVars => DeviceInv'
BY OpenKeeps, ShutKeeps DEF DeviceInv

(* What a viewer and an application may rely on follows.                   *)
LEMMA OpenShows == OpenInv => InputHolds
<1> SUFFICES ASSUME OpenInv PROVE InputHolds
    OBVIOUS
<1>1. NothingIsStuck /\ BorrowedIsKnown /\ TypedAsPressed /\ ShiftIsHeld
    BY DEF OpenInv, NothingIsStuck, ShiftIsHeld, ModifiersAreKnown, AtTheEnd, AllIsUp
<1>2. KeysAreReleased
    <2> SUFFICES ASSUME ~drifted, ~lost, NEW c \in down PROVE c \in Wanted
        BY DEF KeysAreReleased
    <2>1. Held(c)
        BY DEF OpenInv, DownIsWanted
    <2>2. CASE c # Pointer
        <3>1. PICK v \in Typist : \E k \in pressed[v] : Stands(c, k)
            BY <2>1, <2>2 DEF Held
        <3> PICK sym \in pressed[v] : Stands(c, sym)
            BY <3>1
        <3>2. sym \in UNION {pressed[w] : w \in Typist}
            OBVIOUS
        <3>3. c \in CodeOf(sym)
            BY DEF Stands, CodeOf, OpenInv, DeviceTypes
        <3> QED
            BY <3>2, <3>3 DEF Wanted
    <2> QED
        BY <2>2 DEF Wanted
<1> QED
    BY <1>1, <1>2 DEF InputHolds

LEMMA DeviceShows == DeviceInv => InputHolds
<1> SUFFICES ASSUME ShutInv PROVE InputHolds
    BY OpenShows DEF DeviceInv
<1>1. NothingIsStuck /\ BorrowedIsKnown /\ TypedAsPressed /\ KeysAreReleased
    BY DEF ShutInv, NothingIsStuck, KeysAreReleased
<1>2. ShiftIsHeld
    BY DEF ShutInv, ShiftIsHeld
<1> QED
    BY <1>1, <1>2 DEF InputHolds

-----------------------------------------------------------------------------
(* The clipboards.                                                         *)

Texts == Text \cup {Nothing}
Read == [text : Texts, asked : BOOLEAN]
HostTexts ==
    /\ clip \in Texts /\ lastClipboard \in Texts /\ reading \in [1..MaxReads -> Texts \cup {NoRead}]
    /\ hostWrites \in Seq(Reader \X Texts)
ViewerTexts ==
    /\ text \in [Reader -> Texts] /\ lastSent \in [Reader -> Texts] /\ fromHost \in [Reader -> BOOLEAN]
    /\ focusReads \in [Reader -> Seq(Read)] /\ viewerWrites \in [Reader -> Seq(Texts)]
LinkTexts == upLink \in [Reader -> Seq(Texts)] /\ downLink \in [Reader -> Seq(Texts)]
Flags == mine \in BOOLEAN /\ echoed \in BOOLEAN /\ raced \in BOOLEAN
ClipTypes == HostTexts /\ ViewerTexts /\ LinkTexts /\ Flags

(* The host remembers the text a viewer gave it, from before it is written *)
(* for as long as it is there, and no read under way finds another.        *)
HostTracks ==
    /\ hostWrites # <<>> => ~Reading /\ Len(hostWrites) = 1 /\ hostWrites[1][2] = lastClipboard
    /\ ~mine /\ hostWrites = <<>> => clip = lastClipboard
    /\ ~mine => \A i \in 1..MaxReads : reading[i] \in {NoRead, clip}

(* And so does a viewer with the text that came from the host.             *)
ViewerTracks(v) ==
    /\ viewerWrites[v] # <<>> =>
          focusReads[v] = <<>> /\ Len(viewerWrites[v]) = 1 /\ viewerWrites[v][1] = lastSent[v]
    /\ fromHost[v] /\ viewerWrites[v] = <<>> => text[v] = lastSent[v]
    /\ fromHost[v] => \A i \in 1..Len(focusReads[v]) : focusReads[v][i].text = text[v]

ClipInv == ClipTypes /\ (raced \/ (~echoed /\ HostTracks /\ \A v \in Reader : ViewerTracks(v)))

(* One that comes after none.                                              *)
LEMMA FirstOfAll ==
    ASSUME NEW S, NEW e \in S, NEW s \in Seq(S)
    PROVE  /\ Append(s, e) \in Seq(S) /\ Append(s, e) # <<>>
           /\ Append(s, e)[Len(s) + 1] = e /\ Len(Append(s, e)) = Len(s) + 1
           /\ \A i \in 1..Len(s) : Append(s, e)[i] = s[i]
           /\ s = <<>> => Len(Append(s, e)) = 1 /\ Append(s, e)[1] = e
<1>1. /\ Append(s, e) \in Seq(S) /\ Len(Append(s, e)) = Len(s) + 1 /\ Append(s, e)[Len(s) + 1] = e
      /\ \A i \in 1..Len(s) : Append(s, e)[i] = s[i]
    BY AppendProperties
<1>2. Len(s) \in Nat /\ (s = <<>> => Len(s) = 0)
    BY LenProperties, EmptySeq
<1>3. Append(s, e) # <<>>
    BY <1>1, <1>2, EmptySeq
<1>4. s = <<>> => Len(Append(s, e)) = 1 /\ Append(s, e)[1] = e
    <2> SUFFICES ASSUME s = <<>> PROVE Len(Append(s, e)) = 1 /\ Append(s, e)[1] = e
        OBVIOUS
    <2>1. Len(s) + 1 = 1
        BY <1>2
    <2> QED
        BY <1>1, <2>1
<1> QED
    BY <1>1, <1>3, <1>4

(* The rest of one.                                                        *)
LEMMA RestOfSome ==
    ASSUME NEW S, NEW s \in Seq(S), s # <<>>
    PROVE  /\ Head(s) \in S /\ Head(s) = s[1] /\ Tail(s) \in Seq(S) /\ Len(Tail(s)) = Len(s) - 1
           /\ \A i \in 1..Len(Tail(s)) : i + 1 \in 1..Len(s) /\ Tail(s)[i] = s[i + 1]
           /\ 1 \in 1..Len(s) /\ (Len(s) = 1 => Tail(s) = <<>>)
<1>1. /\ Head(s) = s[1] /\ Tail(s) \in Seq(S) /\ Len(Tail(s)) = Len(s) - 1
      /\ \A i \in 1..Len(Tail(s)) : Tail(s)[i] = s[i + 1]
    BY HeadTailProperties
<1>2. Len(s) \in Nat /\ Len(s) # 0
    BY LenProperties, EmptySeq
<1>3. s[1] \in S
    BY <1>2, ElementOfSeq
<1>4. Len(s) = 1 => Tail(s) = <<>>
    <2> SUFFICES ASSUME Len(s) = 1 PROVE Tail(s) = <<>>
        OBVIOUS
    <2>1. Len(Tail(s)) = 0
        BY <1>1
    <2> QED
        BY <1>1, <2>1, EmptySeq
<1> QED
    BY <1>1, <1>2, <1>3, <1>4

LEMMA ClipBegins == ClipboardInit => ClipInv
<1> SUFFICES ASSUME ClipboardInit PROVE ClipInv
    OBVIOUS
<1>1. /\ HostTexts /\ ViewerTexts /\ LinkTexts /\ Flags
    BY EmptySeq DEF ClipboardInit, HostTexts, ViewerTexts, LinkTexts, Flags, Texts
<1>2. ~echoed /\ HostTracks /\ \A v \in Reader : ViewerTracks(v)
    BY DEF ClipboardInit, HostTracks, ViewerTracks
<1> QED
    BY <1>1, <1>2 DEF ClipInv, ClipTypes

(* What the texts have to do with it is left as it is.                     *)
LEMMA ClipStays == ClipInv /\ UNCHANGED clipboardVars => ClipInv'
BY DEF ClipInv, clipboardVars, atHost, atViewer, links, told, ClipTypes, HostTexts, ViewerTexts, LinkTexts,
       Flags, HostTracks, Reading, ViewerTracks

(* A step at the host.                                                     *)
LEMMA AtTheHost ==
    ASSUME ClipInv, HostTexts', LinkTexts', Flags', UNCHANGED atViewer, raced => raced',
           ~raced' /\ ~echoed /\ HostTracks => HostTracks' /\ ~echoed'
    PROVE  ClipInv'
<1>1. ViewerTexts' /\ \A v \in Reader : ViewerTracks(v) => ViewerTracks(v)'
    BY DEF ClipInv, ClipTypes, ViewerTexts, ViewerTracks, atViewer
<1>2. raced' \/ (~echoed' /\ HostTracks' /\ (\A v \in Reader : ViewerTracks(v))')
    BY <1>1 DEF ClipInv
<1> QED
    BY <1>1, <1>2 DEF ClipInv, ClipTypes

(* A step at the viewer v.                                                 *)
LEMMA AtTheViewer ==
    ASSUME ClipInv, NEW v \in Reader, ViewerTexts', LinkTexts', Flags', UNCHANGED atHost, raced => raced',
           \A w \in Reader \ {v} : /\ text'[w] = text[w] /\ lastSent'[w] = lastSent[w] /\ fromHost'[w] = fromHost[w]
                                   /\ focusReads'[w] = focusReads[w] /\ viewerWrites'[w] = viewerWrites[w],
           ~raced' /\ ~echoed /\ ViewerTracks(v) => ViewerTracks(v)' /\ ~echoed'
    PROVE  ClipInv'
<1>1. HostTexts' /\ (HostTracks => HostTracks')
    BY DEF ClipInv, ClipTypes, HostTexts, HostTracks, Reading, atHost
<1>2. \A w \in Reader \ {v} : ViewerTracks(w) => ViewerTracks(w)'
    BY DEF ViewerTracks
<1>3. raced' \/ (~echoed' /\ HostTracks' /\ (\A w \in Reader : ViewerTracks(w))')
    BY <1>1, <1>2 DEF ClipInv
<1> QED
    BY <1>1, <1>3 DEF ClipInv, ClipTypes

LEMMA HostKeeps ==
    ASSUME ClipInv,
           \/ \E i \in 1..MaxReads : Polls(i) \/ (\E well \in BOOLEAN : PollAnswers(i, well))
           \/ (\E t \in Text : HostCopies(t)) \/ (\E well \in BOOLEAN : HostWritten(well))
           \/ \E v \in Reader : HandleClipboard(v)
    PROVE  ClipInv'
<1>1. ClipTypes /\ HostTexts /\ LinkTexts /\ Flags
    BY DEF ClipInv, ClipTypes
<1>2. ASSUME NEW i \in 1..MaxReads, Polls(i) PROVE ClipInv'
    <2>1. HostTexts' /\ LinkTexts' /\ Flags' /\ UNCHANGED atViewer /\ (raced => raced')
        BY <1>1, <1>2 DEF Polls, HostTexts, LinkTexts, Flags, atViewer, links
    <2>2. ~raced' /\ ~echoed /\ HostTracks => HostTracks' /\ ~echoed'
        BY <1>1, <1>2 DEF Polls, HostTracks, HostTexts, Flags
    <2> QED
        BY <2>1, <2>2, AtTheHost
<1>3. ASSUME NEW i \in 1..MaxReads, NEW well \in BOOLEAN, PollAnswers(i, well) PROVE ClipInv'
    <2>1. LinkTexts'
        <3>1. reading[i] \in Texts /\ upLink' = upLink
            BY <1>1, <1>3 DEF PollAnswers, HostTexts
        <3>2. \A v \in Reader : Append(downLink[v], reading[i]) \in Seq(Texts)
            BY <1>1, <3>1, FirstOfAll DEF LinkTexts
        <3> QED
            BY <1>1, <1>3, <3>1, <3>2 DEF PollAnswers, LinkTexts
    <2>2. HostTexts' /\ Flags' /\ UNCHANGED atViewer /\ (raced => raced')
        BY <1>1, <1>3 DEF PollAnswers, HostTexts, Flags, atViewer
    <2>3. ~raced' /\ ~echoed /\ HostTracks => HostTracks' /\ ~echoed'
        <3> SUFFICES ASSUME ~raced', ~echoed, HostTracks PROVE HostTracks' /\ ~echoed'
            OBVIOUS
        <3>1. /\ hostWrites = <<>> /\ reading[i] # NoRead /\ UNCHANGED <<hostWrites, mine, clip>>
              /\ \A k \in 1..MaxReads : reading'[k] \in {NoRead, reading[k]}
            BY <1>1, <1>3 DEF PollAnswers, HostTracks, Reading, HostTexts
        <3>2. CASE ~mine
            <4>1. reading[i] = lastClipboard
                BY <3>1, <3>2 DEF HostTracks
            <4> QED
                BY <1>3, <3>1, <3>2, <4>1 DEF PollAnswers, HostTracks
        <3>3. CASE mine
            BY <1>3, <3>1, <3>3 DEF PollAnswers, HostTracks
        <3> QED
            BY <3>2, <3>3
    <2> QED
        BY <2>1, <2>2, <2>3, AtTheHost
<1>4. CASE \E t \in Text : HostCopies(t)
    <2>1. HostTexts' /\ LinkTexts' /\ Flags' /\ UNCHANGED atViewer /\ (raced => raced')
        BY <1>1, <1>4 DEF HostCopies, HostTexts, LinkTexts, Flags, atViewer, links, Texts
    <2>2. ~raced' /\ ~echoed /\ HostTracks => HostTracks' /\ ~echoed'
        BY <1>4 DEF HostCopies, HostTracks, Reading
    <2> QED
        BY <2>1, <2>2, AtTheHost
<1>5. CASE \E well \in BOOLEAN : HostWritten(well)
    <2>1. PICK well \in BOOLEAN : HostWritten(well)
        BY <1>5
    <2>2. /\ Head(hostWrites) \in Reader \X Texts /\ Head(hostWrites) = hostWrites[1]
          /\ Tail(hostWrites) \in Seq(Reader \X Texts) /\ (Len(hostWrites) = 1 => Tail(hostWrites) = <<>>)
        BY <1>1, <2>1, RestOfSome DEF HostWritten, HostTexts
    <2>3. HostTexts' /\ LinkTexts' /\ Flags' /\ UNCHANGED atViewer /\ (raced => raced')
        BY <1>1, <2>1, <2>2 DEF HostWritten, HostTexts, LinkTexts, Flags, atViewer, links
    <2>4. ~raced' /\ ~echoed /\ HostTracks => HostTracks' /\ ~echoed'
        BY <2>1, <2>2 DEF HostWritten, HostTracks, Reading
    <2> QED
        BY <2>3, <2>4, AtTheHost
<1>6. ASSUME NEW v \in Reader, HandleClipboard(v) PROVE ClipInv'
    <2> DEFINE t == Head(upLink[v])
    <2>1. t \in Texts /\ Tail(upLink[v]) \in Seq(Texts)
        BY <1>1, <1>6, RestOfSome DEF HandleClipboard, LinkTexts
    <2>2. <<v, t>> \in Reader \X Texts /\ <<v, t>>[2] = t
        BY <2>1
    <2>3. /\ Append(hostWrites, <<v, t>>) \in Seq(Reader \X Texts)
          /\ hostWrites = <<>> => /\ Len(Append(hostWrites, <<v, t>>)) = 1
                                  /\ Append(hostWrites, <<v, t>>)[1] = <<v, t>>
        <3> HIDE DEF t
        <3> QED
            BY <1>1, <2>2, FirstOfAll DEF HostTexts
    <2>4. /\ upLink' = [upLink EXCEPT ![v] = Tail(@)] /\ UNCHANGED <<downLink, mine, clip, reading, echoed, atViewer>>
          /\ \/ /\ hostWrites' = Append(hostWrites, <<v, t>>) /\ lastClipboard' = t
                /\ raced' = (raced \/ Reading \/ hostWrites # <<>>)
             \/ UNCHANGED <<hostWrites, lastClipboard, raced>>
        BY <1>6 DEF HandleClipboard, RemembersWhatCame
    <2> HIDE DEF t
    <2>5. HostTexts' /\ LinkTexts' /\ Flags' /\ UNCHANGED atViewer /\ (raced => raced')
        BY <1>1, <2>1, <2>3, <2>4 DEF HostTexts, LinkTexts, Flags
    <2>6. ~raced' /\ ~echoed /\ HostTracks => HostTracks' /\ ~echoed'
        <3> SUFFICES ASSUME ~raced', HostTracks PROVE HostTracks'
            BY <2>4
        <3>1. CASE UNCHANGED <<hostWrites, lastClipboard, raced>>
            BY <2>4, <3>1 DEF HostTracks, Reading
        <3>2. CASE /\ hostWrites' = Append(hostWrites, <<v, t>>) /\ lastClipboard' = t
                   /\ raced' = (raced \/ Reading \/ hostWrites # <<>>)
            <4>1. ~Reading' /\ Len(hostWrites') = 1 /\ hostWrites'[1] = <<v, t>>
                BY <2>3, <2>4, <3>2 DEF Reading
            <4>2. hostWrites'[1][2] = lastClipboard' /\ hostWrites' # <<>>
                BY <2>2, <3>2, <4>1, EmptySeq
            <4> QED
                BY <4>1, <4>2 DEF HostTracks, Reading
        <3> QED
            BY <2>4, <3>1, <3>2
    <2> QED
        BY <2>5, <2>6, AtTheHost
<1> QED
    BY <1>2, <1>3, <1>4, <1>5, <1>6

LEMMA ViewerKeeps ==
    ASSUME ClipInv, NEW v \in Reader,
           \/ SendClipboard(v) \/ Receives(v) \/ (\E t \in Text : ViewerCopies(v, t))
           \/ \E flag \in BOOLEAN : ViewerReads(v, flag) \/ ViewerWritten(v, flag)
    PROVE  ClipInv'
<1> DEFINE Others == \A w \in Reader \ {v} :
                        /\ text'[w] = text[w] /\ lastSent'[w] = lastSent[w] /\ fromHost'[w] = fromHost[w]
                        /\ focusReads'[w] = focusReads[w] /\ viewerWrites'[w] = viewerWrites[w]
<1>1. ClipTypes /\ ViewerTexts /\ LinkTexts /\ Flags
    BY DEF ClipInv, ClipTypes
<1>2. CASE \E t \in Text : ViewerCopies(v, t)
    <2>1. PICK t \in Text : ViewerCopies(v, t)
        BY <1>2
    <2>2. /\ text' = [text EXCEPT ![v] = t] /\ fromHost' = [fromHost EXCEPT ![v] = FALSE] /\ t \in Texts
          /\ UNCHANGED <<lastSent, focusReads, viewerWrites, upLink, downLink, mine, echoed, raced, atHost>>
        BY <2>1 DEF ViewerCopies, atHost, links, Texts
    <2>3. ViewerTexts' /\ LinkTexts' /\ Flags' /\ Others
        BY <1>1, <2>2 DEF ViewerTexts, LinkTexts, Flags
    <2>4. ViewerTracks(v) => ViewerTracks(v)'
        BY <1>1, <2>2 DEF ViewerTracks, ViewerTexts
    <2> QED
        BY <2>2, <2>3, <2>4, AtTheViewer
<1>3. ASSUME NEW flag \in BOOLEAN, ViewerReads(v, flag) PROVE ClipInv'
    <2> DEFINE read == [text |-> text[v], asked |-> flag]
    <2>1. read \in Read /\ read.text = text[v] /\ focusReads[v] \in Seq(Read)
        BY <1>1 DEF ViewerTexts, Read
    <2>2. /\ focusReads' = [focusReads EXCEPT ![v] = Append(focusReads[v], read)]
          /\ raced' = (raced \/ viewerWrites[v] # <<>>)
          /\ UNCHANGED <<lastSent, text, fromHost, viewerWrites, upLink, downLink, mine, echoed, atHost>>
        BY <1>3 DEF ViewerReads, atHost, links
    <2> HIDE DEF read
    <2>3. /\ Append(focusReads[v], read) \in Seq(Read)
          /\ Append(focusReads[v], read)[Len(focusReads[v]) + 1] = read
          /\ Len(Append(focusReads[v], read)) = Len(focusReads[v]) + 1 /\ Len(focusReads[v]) \in Nat
          /\ \A i \in 1..Len(focusReads[v]) : Append(focusReads[v], read)[i] = focusReads[v][i]
        BY <2>1, FirstOfAll, LenProperties
    <2>4. ViewerTexts' /\ LinkTexts' /\ Flags' /\ Others /\ (raced => raced')
        BY <1>1, <2>2, <2>3 DEF ViewerTexts, LinkTexts, Flags
    <2>5. ~raced' /\ ViewerTracks(v) => ViewerTracks(v)'
        <3> SUFFICES ASSUME ~raced', ViewerTracks(v) PROVE ViewerTracks(v)'
            OBVIOUS
        <3>1. viewerWrites[v] = <<>> /\ viewerWrites' = viewerWrites /\ text' = text /\ lastSent' = lastSent
              /\ fromHost' = fromHost /\ focusReads'[v] = Append(focusReads[v], read)
            BY <1>1, <2>2 DEF ViewerTexts
        <3>2. ASSUME fromHost[v], NEW i \in 1..Len(focusReads'[v]) PROVE focusReads'[v][i].text = text[v]
            <4>1. i \in 1..Len(focusReads[v]) \/ i = Len(focusReads[v]) + 1
                BY <2>3, <3>1
            <4>2. CASE i = Len(focusReads[v]) + 1
                BY <2>1, <2>3, <3>1, <4>2
            <4>3. CASE i \in 1..Len(focusReads[v])
                BY <2>3, <3>1, <3>2, <4>3 DEF ViewerTracks
            <4> QED
                BY <4>1, <4>2, <4>3
        <3> QED
            BY <3>1, <3>2 DEF ViewerTracks
    <2> QED
        BY <2>2, <2>4, <2>5, AtTheViewer
<1>4. ASSUME NEW flag \in BOOLEAN, ViewerWritten(v, flag) PROVE ClipInv'
    <2>1. /\ viewerWrites[v] # <<>> /\ viewerWrites' = [viewerWrites EXCEPT ![v] = Tail(viewerWrites[v])]
          /\ raced' = (raced \/ ~flag)
          /\ IF flag
             THEN text' = [text EXCEPT ![v] = Head(viewerWrites[v])] /\ fromHost' = [fromHost EXCEPT ![v] = TRUE]
             ELSE UNCHANGED <<text, fromHost>>
          /\ UNCHANGED <<lastSent, focusReads, upLink, downLink, mine, echoed, atHost>>
        BY <1>4 DEF ViewerWritten, atHost, links
    <2>2. /\ Head(viewerWrites[v]) \in Texts /\ Head(viewerWrites[v]) = viewerWrites[v][1]
          /\ Tail(viewerWrites[v]) \in Seq(Texts)
          /\ (Len(viewerWrites[v]) = 1 => Tail(viewerWrites[v]) = <<>>)
        BY <1>1, <2>1, RestOfSome DEF ViewerTexts
    <2>3. ViewerTexts' /\ LinkTexts' /\ Flags' /\ Others /\ (raced => raced')
        BY <1>1, <2>1, <2>2, ZenonT(60) DEF ViewerTexts, LinkTexts, Flags
    <2>4. ~raced' /\ ViewerTracks(v) => ViewerTracks(v)'
        <3> SUFFICES ASSUME ~raced', ViewerTracks(v) PROVE ViewerTracks(v)'
            OBVIOUS
        <3>1. /\ viewerWrites'[v] = <<>> /\ focusReads'[v] = <<>> /\ text'[v] = lastSent'[v]
            BY <1>1, <2>1, <2>2 DEF ViewerTexts, ViewerTracks
        <3>2. Len(focusReads'[v]) = 0
            BY <3>1
        <3> QED
            BY <3>1, <3>2 DEF ViewerTracks
    <2> QED
        BY <2>1, <2>3, <2>4, AtTheViewer
<1>5. CASE Receives(v)
    <2> DEFINE t == Head(downLink[v])
    <2>1. /\ downLink[v] # <<>> /\ downLink' = [downLink EXCEPT ![v] = Tail(downLink[v])]
          /\ lastSent' = [lastSent EXCEPT ![v] = t]
          /\ \/ viewerWrites' = [viewerWrites EXCEPT ![v] = Append(viewerWrites[v], t)] /\ UNCHANGED fromHost
             \/ UNCHANGED viewerWrites /\ fromHost' = [fromHost EXCEPT ![v] = FALSE]
          /\ raced' = (raced \/ focusReads[v] # <<>> \/ viewerWrites[v] # <<>>)
          /\ UNCHANGED <<text, focusReads, upLink, mine, echoed, atHost>>
        BY <1>5 DEF Receives, atHost
    <2>2. t \in Texts /\ Tail(downLink[v]) \in Seq(Texts)
        BY <1>1, <2>1, RestOfSome DEF LinkTexts
    <2> HIDE DEF t
    <2>3. /\ Append(viewerWrites[v], t) \in Seq(Texts) /\ Append(viewerWrites[v], t) # <<>>
          /\ viewerWrites[v] = <<>> => Len(Append(viewerWrites[v], t)) = 1 /\ Append(viewerWrites[v], t)[1] = t
        BY <1>1, <2>2, FirstOfAll DEF ViewerTexts
    <2>4. ViewerTexts' /\ LinkTexts' /\ Flags' /\ Others /\ (raced => raced')
        BY <1>1, <2>1, <2>2, <2>3 DEF ViewerTexts, LinkTexts, Flags
    <2>5. ~raced' /\ ViewerTracks(v) => ViewerTracks(v)'
        <3> SUFFICES ASSUME ~raced', ViewerTracks(v) PROVE ViewerTracks(v)'
            OBVIOUS
        <3>1. /\ focusReads'[v] = <<>> /\ viewerWrites[v] = <<>> /\ lastSent'[v] = t
            BY <1>1, <2>1 DEF ViewerTexts
        <3>2. \/ viewerWrites'[v] # <<>> /\ Len(viewerWrites'[v]) = 1 /\ viewerWrites'[v][1] = t
              \/ viewerWrites'[v] = <<>> /\ ~fromHost'[v]
            BY <1>1, <2>1, <2>3, <3>1 DEF ViewerTexts
        <3>3. Len(focusReads'[v]) = 0
            BY <3>1
        <3> QED
            BY <3>1, <3>2, <3>3 DEF ViewerTracks
    <2> QED
        BY <2>1, <2>4, <2>5, AtTheViewer
<1>6. CASE SendClipboard(v)
    <2> DEFINE read == Head(focusReads[v])
               new == v \in joined /\ read.text # lastSent[v]
               goes == new /\ v \in open
    <2>1. /\ focusReads[v] # <<>> /\ focusReads' = [focusReads EXCEPT ![v] = Tail(focusReads[v])]
          /\ lastSent' = IF new THEN [lastSent EXCEPT ![v] = read.text] ELSE lastSent
          /\ upLink' = IF goes THEN [upLink EXCEPT ![v] = Append(upLink[v], read.text)] ELSE upLink
          /\ echoed' = (echoed \/ (goes /\ fromHost[v] /\ read.text = text[v]))
          /\ UNCHANGED <<text, fromHost, viewerWrites, downLink, mine, raced, atHost>>
        BY <1>6 DEF SendClipboard, atHost
    <2>2. /\ read \in Read /\ read = focusReads[v][1] /\ Tail(focusReads[v]) \in Seq(Read) /\ 1 \in 1..Len(focusReads[v])
          /\ \A i \in 1..Len(Tail(focusReads[v])) :
                i + 1 \in 1..Len(focusReads[v]) /\ Tail(focusReads[v])[i] = focusReads[v][i + 1]
        BY <1>1, <2>1, RestOfSome DEF ViewerTexts
    <2>3. read.text \in Texts /\ new \in BOOLEAN /\ goes \in BOOLEAN /\ (goes => new)
        BY <2>2 DEF Read
    <2>4. new /\ fromHost[v] => ~ViewerTracks(v)
        <3> SUFFICES ASSUME new, fromHost[v], ViewerTracks(v) PROVE FALSE
            OBVIOUS
        <3>1. viewerWrites[v] = <<>> /\ text[v] = lastSent[v]
            BY <2>1 DEF ViewerTracks
        <3>2. focusReads[v][1].text = text[v]
            BY <2>2 DEF ViewerTracks
        <3> QED
            BY <2>2, <3>1, <3>2
    <2> HIDE DEF read, new, goes
    <2>5. Append(upLink[v], read.text) \in Seq(Texts)
        BY <1>1, <2>3, FirstOfAll DEF LinkTexts
    <2>6. ViewerTexts' /\ LinkTexts' /\ Flags' /\ Others /\ (raced => raced')
        BY <1>1, <2>1, <2>2, <2>3, <2>5 DEF ViewerTexts, LinkTexts, Flags
    <2>7. ~echoed /\ ViewerTracks(v) => ViewerTracks(v)' /\ ~echoed'
        <3> SUFFICES ASSUME ~echoed, ViewerTracks(v) PROVE ViewerTracks(v)' /\ ~echoed'
            OBVIOUS
        <3>1. /\ viewerWrites'[v] = <<>> /\ focusReads'[v] = Tail(focusReads[v]) /\ fromHost'[v] = fromHost[v]
              /\ text'[v] = text[v] /\ (fromHost[v] => lastSent'[v] = lastSent[v])
            BY <1>1, <2>1, <2>4 DEF ViewerTexts, ViewerTracks
        <3>2. fromHost[v] => text[v] = lastSent[v]
            BY <1>1, <2>1 DEF ViewerTracks
        <3>3. ASSUME fromHost[v], NEW i \in 1..Len(focusReads'[v]) PROVE focusReads'[v][i].text = text[v]
            <4>1. focusReads'[v] = Tail(focusReads[v])
                BY <3>1
            <4>2. i + 1 \in 1..Len(focusReads[v]) /\ focusReads'[v][i] = focusReads[v][i + 1]
                BY <2>2, <3>3, <4>1
            <4>3. focusReads[v][i + 1].text = text[v]
                BY <3>3, <4>2 DEF ViewerTracks
            <4> QED
                BY <4>2, <4>3
        <3>4. ~echoed'
            BY <2>1, <2>3, <2>4
        <3> QED
            BY <3>1, <3>2, <3>3, <3>4 DEF ViewerTracks
    <2> QED
        BY <2>1, <2>6, <2>7, AtTheViewer
<1> QED
    BY <1>2, <1>3, <1>4, <1>5, <1>6

LEMMA ClipKeeps == ClipInv /\ [ClipboardNext]_clipboardVars => ClipInv'
<1> SUFFICES ASSUME ClipInv, [ClipboardNext]_clipboardVars PROVE ClipInv'
    OBVIOUS
(* Sessions come and go, and settings change.                              *)
<1>1. ASSUME NEW v \in Reader, Joins(v) \/ Parts(v) \/ ChannelOpens(v) PROVE ClipInv'
    <2>1. UNCHANGED <<clip, mine, lastClipboard, reading, hostWrites, atViewer, echoed, raced>>
        BY <1>1 DEF Joins, Parts, ChannelOpens, atHost
    <2>2. LinkTexts'
        <3>1. <<>> \in Seq(Texts) /\ LinkTexts
            BY EmptySeq DEF ClipInv, ClipTypes
        <3>2. \/ UNCHANGED <<upLink, downLink>>
              \/ upLink' = [upLink EXCEPT ![v] = <<>>] /\ downLink' = [downLink EXCEPT ![v] = <<>>]
            BY <1>1 DEF Joins, Parts, ChannelOpens
        <3> QED
            BY <3>1, <3>2 DEF LinkTexts
    <2>3. HostTexts' /\ Flags' /\ (HostTracks => HostTracks')
        BY <2>1 DEF ClipInv, ClipTypes, HostTexts, Flags, HostTracks, Reading
    <2> QED
        BY <2>1, <2>2, <2>3, AtTheHost
<1>2. ASSUME NEW reader \in Reader \cup {"host"}, Toggles(reader) PROVE ClipInv'
    BY <1>2 DEF Toggles, ClipInv, atHost, atViewer, links, told, ClipTypes, HostTexts, ViewerTexts, LinkTexts,
                Flags, HostTracks, Reading, ViewerTracks
<1>3. CASE UNCHANGED clipboardVars
    BY <1>3, ClipStays
<1> QED
    BY <1>1, <1>2, <1>3, HostKeeps, ViewerKeeps DEF ClipboardNext

-----------------------------------------------------------------------------
(* Hellos and tries.                                                       *)

LEMMA LeastNatural ==
    ASSUME NEW T \in SUBSET Nat, T # {}
    PROVE  \E n \in T : \A m \in T : n <= m
<1> DEFINE U == {0..n : n \in T}
<1>1. U \subseteq FiniteSubsetsOf(Nat) /\ U # {}
    <2>1. \A n \in Nat : IsFiniteSet(0..n) /\ 0..n \subseteq Nat
        BY FS_Interval
    <2> QED
        BY <2>1 DEF FiniteSubsetsOf
<1> HIDE DEF U
<1>2. \E X \in U : \A Y \in U : ~ (<<Y, X>> \in StrictSubsetOrdering(Nat))
    BY <1>1, FS_StrictSubsetOrderingWellFounded, WFMin
<1>3. PICK n \in T : \A Y \in U : ~ (<<Y, 0..n>> \in StrictSubsetOrdering(Nat))
    BY <1>2 DEF U
<1>4. ASSUME NEW m \in T, m < n PROVE FALSE
    <2>1. 0..m \in U
        BY DEF U
    <2>2. 0..m \in SUBSET Nat /\ 0..n \in SUBSET Nat /\ 0..m \subseteq 0..n /\ 0..m # 0..n
        BY <1>4
    <2> QED
        BY <1>3, <2>1, <2>2 DEF StrictSubsetOrdering
<1> QED
    BY <1>4

Entry == [nonce : Nonce, at : Nat]
ClockTypes == clock \in Nat /\ setBack \in BOOLEAN
NonceTypes ==
    /\ seen \in Seq(Entry) /\ stamp \in [Nonce -> Nat]
    /\ passed \subseteq Nonce

(* Who was let through is in the table, was displaced, or is too old for   *)
(* the clock check; what is in the table passed that when it came.         *)
Listed(n, entries) == \E i \in 1..Len(entries) : entries[i].nonce = n
Timely(e, time, stamps) == e.at <= time /\ stamps[e.nonce] # Unsent /\ stamps[e.nonce] <= e.at + WindowMs
HellosAreKnown ==
    /\ again \subseteq displaced
    /\ \A i \in 1..Len(seen) : Timely(seen[i], clock, stamp)
    /\ \A n \in passed : /\ stamp[n] # Unsent
                         /\ n \in displaced \/ Listed(n, seen) \/ stamp[n] + WindowMs < clock
NonceInv == ClockTypes /\ NonceTypes /\ (setBack \/ HellosAreKnown)

(* prune() drops nothing but what is outdated.                             *)
LEMMA PruningDrops ==
    ASSUME seen \in Seq(Entry)
    PROVE  /\ Pruned \in Seq(Entry) /\ Len(Pruned) \in Nat
           /\ \A j \in 1..Len(Pruned) : \E i \in 1..Len(seen) : Pruned[j] = seen[i]
           /\ \A i \in 1..Len(seen) : Outdated(seen[i]) \/ \E j \in 1..Len(Pruned) : Pruned[j] = seen[i]
<1> DEFINE kept == {i \in 1..Len(seen) : ~Outdated(seen[i])}
           first == CHOOSE i \in kept : \A j \in kept : i <= j
<1>1. Pruned = IF kept = {} THEN <<>> ELSE SubSeq(seen, first, Len(seen))
    BY DEF Pruned
<1>2. Len(seen) \in Nat /\ kept \subseteq 1..Len(seen) /\ \A i \in 1..Len(seen) : seen[i] \in Entry
    BY LenProperties, ElementOfSeq
<1>3. CASE kept = {}
    <2>1. \A i \in 1..Len(seen) : Outdated(seen[i])
        BY <1>3
    <2>2. Pruned = <<>>
        BY <1>1, <1>3
    <2>3. Pruned \in Seq(Entry) /\ Len(Pruned) = 0
        BY <2>2, EmptySeq
    <2> QED
        BY <2>1, <2>3
<1>4. CASE kept # {}
    <2>1. \E i \in kept : \A j \in kept : i <= j
        <3>1. kept \in SUBSET Nat
            BY <1>2
        <3> HIDE DEF kept
        <3> QED
            BY <1>4, <3>1, LeastNatural
    <2>2. first \in kept /\ \A j \in kept : first <= j
        <3> HIDE DEF kept
        <3> QED
            BY <2>1
    <2>3. /\ first \in 1..Len(seen) /\ \A i \in 1..Len(seen) : Outdated(seen[i]) \/ first <= i
        BY <2>2
    <2> HIDE DEF kept, first
    <2>4. /\ Pruned \in Seq(Entry) /\ Len(Pruned) = Len(seen) - first + 1
          /\ \A j \in 1..(Len(seen) - first + 1) : Pruned[j] = seen[first + j - 1]
        <3>1. Pruned = SubSeq(seen, first, Len(seen)) /\ first \in Int /\ Len(seen) \in Int /\ first <= Len(seen)
            <4>1. Pruned = SubSeq(seen, first, Len(seen))
                BY <1>1, <1>4
            <4> QED
                BY <1>2, <2>3, <4>1
        <3>2. \A i \in first..Len(seen) : seen[i] \in Entry
            BY <1>2, <2>3
        <3>3. /\ SubSeq(seen, first, Len(seen)) \in Seq(Entry)
              /\ Len(SubSeq(seen, first, Len(seen))) = (IF first <= Len(seen) THEN Len(seen) - first + 1 ELSE 0)
              /\ \A j \in 1..(Len(seen) - first + 1) : SubSeq(seen, first, Len(seen))[j] = seen[first + j - 1]
            BY <3>1, <3>2, SubSeqProperties
        <3> QED
            BY <3>1, <3>3
    <2>5. ASSUME NEW j \in 1..Len(Pruned) PROVE \E i \in 1..Len(seen) : Pruned[j] = seen[i]
        <3>1. first + j - 1 \in 1..Len(seen)
            BY <1>2, <2>3, <2>4
        <3> QED
            BY <2>4, <3>1
    <2>6. ASSUME NEW i \in 1..Len(seen), ~Outdated(seen[i]) PROVE \E j \in 1..Len(Pruned) : Pruned[j] = seen[i]
        <3>1. first <= i
            BY <2>3, <2>6
        <3>2. i - first + 1 \in 1..Len(Pruned) /\ first + (i - first + 1) - 1 = i
            BY <1>2, <2>3, <2>4, <3>1
        <3> QED
            BY <2>4, <3>2
    <2>7. Len(Pruned) \in Nat
        BY <1>2, <2>3, <2>4
    <2> QED
        BY <2>4, <2>5, <2>6, <2>7
<1> QED
    BY <1>3, <1>4

(* A hello that passed and is not in the table would not pass now.         *)
LEMMA PrunedIsOld ==
    ASSUME ClockTypes, NonceTypes, HellosAreKnown, NEW n \in passed, n \notin displaced, ~Listed(n, Pruned)
    PROVE  stamp[n] + WindowMs < clock
<1>1. stamp[n] \in Nat /\ WindowMs \in Nat /\ clock \in Nat
    BY AdmissionAssumption DEF NonceTypes, ClockTypes
<1>2. CASE Listed(n, seen)
    <2>1. PICK i \in 1..Len(seen) : seen[i].nonce = n
        BY <1>2 DEF Listed
    <2>2. seen[i] \in Entry /\ seen[i].at \in Nat
        <3>1. seen[i] \in Entry
            BY ElementOfSeq DEF NonceTypes
        <3> QED
            BY <3>1 DEF Entry
    <2>3. Outdated(seen[i])
        <3>1. Outdated(seen[i]) \/ \E j \in 1..Len(Pruned) : Pruned[j] = seen[i]
            BY PruningDrops DEF NonceTypes
        <3> QED
            BY <2>1, <3>1 DEF Listed
    <2>4. stamp[n] <= seen[i].at + WindowMs
        BY <2>1 DEF HellosAreKnown, Timely
    <2> QED
        BY <1>1, <2>2, <2>3, <2>4, SMTT(30) DEF Outdated
<1> QED
    BY <1>2 DEF HellosAreKnown

LEMMA CheckKeeps ==
    ASSUME NonceInv, NEW n \in Nonce, Check(n)
    PROVE  NonceInv'
<1>1. ClockTypes /\ NonceTypes /\ seen \in Seq(Entry) /\ stamp \in [Nonce -> Nat] /\ clock \in Nat
    BY DEF NonceInv, ClockTypes, NonceTypes
<1>2. /\ Pruned \in Seq(Entry) /\ Len(Pruned) \in Nat
      /\ \A j \in 1..Len(Pruned) : \E i \in 1..Len(seen) : Pruned[j] = seen[i]
      /\ \A i \in 1..Len(seen) : Outdated(seen[i]) \/ \E j \in 1..Len(Pruned) : Pruned[j] = seen[i]
    BY <1>1, PruningDrops
<1>3. /\ stamp[n] # Unsent /\ Apart(clock, stamp[n]) <= WindowMs
      /\ UNCHANGED <<clock, setBack, stamp>>
    BY DEF Check
<1>4. stamp[n] <= clock + WindowMs /\ clock <= stamp[n] + WindowMs
    BY <1>1, <1>3, AdmissionAssumption, SMTT(30) DEF Apart
<1>6. HellosAreKnown => \A j \in 1..Len(Pruned) : Timely(Pruned[j], clock, stamp)
    BY <1>2 DEF HellosAreKnown
<1>7. HellosAreKnown => \A m \in passed : m \in displaced \/ Listed(m, Pruned) \/ stamp[m] + WindowMs < clock
    BY <1>1, PrunedIsOld
<1>8. CASE Listed(n, Pruned)
    <2>1. seen' = Pruned /\ UNCHANGED <<passed, again, displaced>>
        BY <1>8 DEF Check, Listed
    <2>2. ClockTypes' /\ NonceTypes'
        BY <1>1, <1>2, <1>3, <2>1 DEF ClockTypes, NonceTypes
    <2>3. HellosAreKnown => HellosAreKnown'
        BY <1>3, <1>6, <1>7, <2>1 DEF HellosAreKnown
    <2> QED
        BY <1>3, <2>2, <2>3 DEF NonceInv
<1>9. CASE ~Listed(n, Pruned)
    <2> DEFINE full == Len(Pruned) >= MaxEntries
               room == IF full THEN Tail(Pruned) ELSE Pruned
               e == [nonce |-> n, at |-> clock]
    <2>1. /\ seen' = Append(room, e) /\ passed' = passed \cup {n} /\ again' = again \cup ({n} \cap passed)
          /\ displaced' = IF full THEN displaced \cup {Pruned[1].nonce} ELSE displaced
        BY <1>9 DEF Check, Listed
    <2>2. e \in Entry /\ e.nonce = n /\ e.at = clock
        BY <1>1 DEF Entry
    <2>3. /\ room \in Seq(Entry) /\ Len(room) \in Nat
          /\ \A j \in 1..Len(room) : \E k \in 1..Len(Pruned) : room[j] = Pruned[k]
          /\ \A k \in 1..Len(Pruned) : (\E j \in 1..Len(room) : room[j] = Pruned[k]) \/ (full /\ k = 1)
        <3>1. CASE ~full
            BY <1>2, <3>1
        <3>2. CASE full
            <4>1. Pruned # <<>>
                BY <1>2, <3>2, AdmissionAssumption, EmptySeq
            <4>2. /\ Tail(Pruned) \in Seq(Entry) /\ Len(Tail(Pruned)) = Len(Pruned) - 1 /\ Len(Tail(Pruned)) \in Nat
                  /\ \A j \in 1..Len(Tail(Pruned)) : Tail(Pruned)[j] = Pruned[j + 1]
                BY <1>2, <4>1, HeadTailProperties, LenProperties
            <4>3. \A j \in 1..Len(Tail(Pruned)) : j + 1 \in 1..Len(Pruned)
                BY <1>2, <4>2
            <4>4. ASSUME NEW k \in 1..Len(Pruned), k # 1
                  PROVE  \E j \in 1..Len(Tail(Pruned)) : Tail(Pruned)[j] = Pruned[k]
                <5>1. k - 1 \in 1..Len(Tail(Pruned)) /\ (k - 1) + 1 = k
                    BY <1>2, <4>2, <4>4
                <5> QED
                    BY <4>2, <5>1
            <4> QED
                BY <3>2, <4>2, <4>3, <4>4
        <3> QED
            BY <3>1, <3>2
    <2> HIDE DEF room, e, full
    <2>4. /\ Append(room, e) \in Seq(Entry) /\ Len(Append(room, e)) = Len(room) + 1
          /\ Append(room, e)[Len(room) + 1] = e /\ \A j \in 1..Len(room) : Append(room, e)[j] = room[j]
        BY <2>2, <2>3, AppendProperties
    <2>5. ClockTypes' /\ NonceTypes'
        BY <1>1, <1>3, <2>1, <2>4 DEF ClockTypes, NonceTypes
    <2>6. ASSUME HellosAreKnown PROVE HellosAreKnown'
        <3>1. again' \subseteq displaced'
            <4>1. displaced \subseteq displaced'
                BY <2>1
            <4>2. n \in passed => n \in displaced
                <5> SUFFICES ASSUME n \in passed, n \notin displaced PROVE FALSE
                    OBVIOUS
                <5>1. stamp[n] + WindowMs < clock
                    BY <1>7, <1>9, <2>6
                <5> QED
                    BY <1>1, <1>4, <5>1, AdmissionAssumption
            <4> QED
                BY <2>1, <2>6, <4>1, <4>2 DEF HellosAreKnown
        <3>2. ASSUME NEW j \in 1..Len(seen') PROVE Timely(seen'[j], clock, stamp)
            <4>1. j \in 1..Len(room) \/ j = Len(room) + 1
                BY <2>1, <2>3, <2>4
            <4>2. CASE j \in 1..Len(room)
                <5>1. PICK k \in 1..Len(Pruned) : seen'[j] = Pruned[k]
                    BY <2>1, <2>3, <2>4, <4>2
                <5> QED
                    BY <1>6, <2>6, <5>1
            <4>3. CASE j = Len(room) + 1
                <5>1. seen'[j] = e
                    BY <2>1, <2>4, <4>3
                <5>2. clock <= clock /\ stamp[e.nonce] = stamp[n]
                    BY <1>1, <2>2
                <5> QED
                    BY <1>3, <1>4, <2>2, <5>1, <5>2 DEF Timely
            <4> QED
                BY <4>1, <4>2, <4>3
        <3>3. ASSUME NEW m \in passed'
              PROVE  stamp'[m] # Unsent /\ (m \in displaced' \/ Listed(m, seen') \/ stamp'[m] + WindowMs < clock')
            <4>1. ASSUME NEW j \in 1..Len(room) PROVE Listed(room[j].nonce, seen')
                <5>1. j \in 1..Len(seen') /\ seen'[j] = room[j]
                    BY <2>1, <2>3, <2>4
                <5> QED
                    BY <5>1 DEF Listed
            <4>2. Listed(n, seen')
                <5>1. Len(room) + 1 \in 1..Len(seen') /\ seen'[Len(room) + 1].nonce = n
                    BY <2>1, <2>2, <2>3, <2>4
                <5> QED
                    BY <5>1 DEF Listed
            <4>3. CASE m = n
                BY <1>3, <4>2, <4>3
            <4>4. CASE m # n /\ Listed(m, Pruned)
                <5>1. m \in passed /\ stamp[m] # Unsent
                    BY <2>1, <2>6, <4>4 DEF HellosAreKnown
                <5>2. PICK k \in 1..Len(Pruned) : Pruned[k].nonce = m
                    BY <4>4 DEF Listed
                <5>3. CASE full /\ k = 1
                    BY <1>3, <2>1, <5>1, <5>2, <5>3
                <5>4. CASE ~(full /\ k = 1)
                    BY <1>3, <2>3, <4>1, <5>1, <5>2, <5>4
                <5> QED
                    BY <5>3, <5>4
            <4>5. CASE m # n /\ ~Listed(m, Pruned)
                <5>1. m \in passed /\ stamp[m] # Unsent /\ (m \in displaced \/ stamp[m] + WindowMs < clock)
                    BY <1>7, <2>1, <2>6, <4>5 DEF HellosAreKnown
                <5> QED
                    BY <1>3, <2>1, <5>1
            <4> QED
                BY <4>3, <4>4, <4>5
        <3> QED
            BY <1>3, <3>1, <3>2, <3>3 DEF HellosAreKnown
    <2> QED
        BY <1>3, <2>5, <2>6 DEF NonceInv
<1> QED
    BY <1>8, <1>9

LEMMA HelloKeeps ==
    ASSUME NonceInv,
           Passes \/ SetBack \/ (\E n \in Nonce : Check(n) \/ (\E time \in 0..LastTick : Stamp(n, time)))
             \/ (\E c \in Caller : Allow(c)) \/ UNCHANGED <<clock, setBack, nonceVars>>
    PROVE  NonceInv'
<1>1. ClockTypes /\ NonceTypes /\ seen \in Seq(Entry) /\ stamp \in [Nonce -> Nat] /\ clock \in Nat
    BY DEF NonceInv, ClockTypes, NonceTypes
<1>2. CASE Passes
    <2>1. clock' = clock + 1 /\ UNCHANGED <<setBack, seen, stamp, passed, again, displaced>>
        BY <1>2 DEF Passes, nonceVars
    <2>2. ClockTypes' /\ NonceTypes'
        BY <1>1, <2>1 DEF ClockTypes, NonceTypes
    <2>3. ASSUME HellosAreKnown PROVE HellosAreKnown'
        <3>1. ASSUME NEW i \in 1..Len(seen) PROVE Timely(seen[i], clock + 1, stamp)
            <4>1. Timely(seen[i], clock, stamp)
                BY <2>3 DEF HellosAreKnown
            <4>2. seen[i] \in Entry
                BY <1>1, ElementOfSeq
            <4>3. seen[i].at \in Nat
                BY <4>2 DEF Entry
            <4> QED
                BY <1>1, <4>1, <4>3 DEF Timely
        <3>2. ASSUME NEW n \in passed
              PROVE  stamp[n] # Unsent /\ (n \in displaced \/ Listed(n, seen) \/ stamp[n] + WindowMs < clock + 1)
            <4>1. stamp[n] \in Nat
                BY <1>1 DEF NonceTypes
            <4> QED
                BY <1>1, <2>3, <4>1, AdmissionAssumption DEF HellosAreKnown
        <3> QED
            BY <2>1, <2>3, <3>1, <3>2 DEF HellosAreKnown
    <2> QED
        BY <2>1, <2>2, <2>3 DEF NonceInv
<1>3. CASE SetBack
    <2>1. setBack' = TRUE /\ clock' = 0 /\ UNCHANGED <<seen, stamp, passed>>
        BY <1>3 DEF SetBack, nonceVars
    <2> QED
        BY <1>1, <2>1 DEF NonceInv, ClockTypes, NonceTypes
<1>4. ASSUME NEW n \in Nonce, NEW time \in 0..LastTick, Stamp(n, time) PROVE NonceInv'
    <2>1. /\ stamp[n] = Unsent /\ stamp' = [stamp EXCEPT ![n] = time]
          /\ UNCHANGED <<clock, setBack, seen, passed, again, displaced>>
        BY <1>4 DEF Stamp
    <2>2. ClockTypes' /\ NonceTypes'
        BY <1>1, <2>1, AdmissionAssumption DEF ClockTypes, NonceTypes
    <2>3. ASSUME HellosAreKnown PROVE HellosAreKnown'
        <3>1. ASSUME NEW i \in 1..Len(seen) PROVE Timely(seen[i], clock, stamp')
            <4>1. Timely(seen[i], clock, stamp)
                BY <2>3 DEF HellosAreKnown
            <4>2. seen[i] \in Entry
                BY <1>1, ElementOfSeq
            <4>3. seen[i].nonce \in Nonce /\ seen[i].nonce # n
                BY <2>1, <4>1, <4>2 DEF Entry, Timely
            <4> QED
                BY <1>1, <2>1, <4>1, <4>3 DEF Timely
        <3>2. ASSUME NEW m \in passed
              PROVE  stamp'[m] # Unsent /\ (m \in displaced \/ Listed(m, seen) \/ stamp'[m] + WindowMs < clock)
            <4>1. stamp[m] # Unsent /\ m \in Nonce
                BY <1>1, <2>3 DEF HellosAreKnown, NonceTypes
            <4>2. stamp'[m] = stamp[m]
                BY <1>1, <2>1, <4>1
            <4> QED
                BY <2>3, <4>1, <4>2 DEF HellosAreKnown
        <3> QED
            BY <2>1, <2>3, <3>1, <3>2 DEF HellosAreKnown
    <2> QED
        BY <2>1, <2>2, <2>3 DEF NonceInv
<1>5. CASE UNCHANGED <<clock, setBack, nonceVars>>
    BY <1>5 DEF NonceInv, ClockTypes, NonceTypes, HellosAreKnown, nonceVars, Unsent
<1>6. ASSUME NEW c \in Caller, Allow(c) PROVE NonceInv'
    <2>1. UNCHANGED <<clock, setBack, nonceVars>>
        BY <1>6 DEF Allow
    <2> QED
        BY <1>5, <2>1
<1>7. ASSUME NEW n \in Nonce, Check(n) PROVE NonceInv'
    BY <1>7, CheckKeeps
<1> QED
    BY <1>2, <1>3, <1>4, <1>5, <1>6, <1>7
-----------------------------------------------------------------------------
(* A caller whose last window began at start has been let through inside   *)
(* times in it; more than PerWindow earlier is BrakeMs before its start.    *)
Window(times, count, until, time, start, inside) ==
    /\ start <= time /\ inside <= PerWindow /\ inside <= Len(times)
    /\ \A i \in 1..Len(times) : times[i] <= time
    /\ \A i \in 1..Len(times) : i + inside <= Len(times) => times[i] <= start
    /\ \A i \in 1..Len(times) : i + inside + PerWindow <= Len(times) => times[i] + BrakeMs <= start
    /\ \A i \in 1..Len(times) :
           i + 2 * PerWindow <= Len(times) => times[i] + BrakeMs <= times[i + 2 * PerWindow]
    /\ until > time => until = start + BrakeMs /\ inside = IF count > PerWindow THEN PerWindow ELSE count
    /\ until <= time => start + BrakeMs <= time \/ Len(times) = 0

LEMMA WindowOpens ==
    ASSUME NEW times \in Seq(Nat), NEW count \in Nat, NEW until \in Nat, NEW time \in Nat,
           NEW start \in Nat, NEW inside \in Nat,
           Window(times, count, until, time, start, inside), until <= time, PerWindow # 0
    PROVE  Window(Append(times, time), 1, time + BrakeMs, time, time, 1)
<1>1. /\ PerWindow \in Nat /\ BrakeMs \in Nat /\ Len(times) \in Nat
      /\ \A i \in 1..Len(times) : times[i] \in Nat
    BY AdmissionAssumption, LenProperties, ElementOfSeq
<1>2. PICK longer : longer = Append(times, time)
    OBVIOUS
<1>3. /\ Len(longer) = Len(times) + 1 /\ longer[Len(times) + 1] = time
      /\ \A i \in 1..Len(times) : longer[i] = times[i]
    BY <1>2, AppendProperties
<1>4. \A i \in 1..Len(longer) : i \in 1..Len(times) \/ i = Len(times) + 1
    BY <1>1, <1>3
<1>5. \A i \in 1..Len(longer) : longer[i] <= time
    <2>1. \A i \in 1..Len(times) : times[i] <= time
        BY DEF Window
    <2> QED
        BY <1>3, <1>4, <2>1
<1>6. \A i \in 1..Len(longer) : i + PerWindow <= Len(times) => longer[i] + BrakeMs <= time
    <2> SUFFICES ASSUME NEW i \in 1..Len(longer), i + PerWindow <= Len(times) PROVE longer[i] + BrakeMs <= time
        OBVIOUS
    <2>1. i \in 1..Len(times) /\ i + inside <= Len(times) /\ Len(times) # 0
        BY <1>1, <1>4 DEF Window
    <2>2. times[i] <= start /\ start + BrakeMs <= time
        BY <2>1 DEF Window
    <2> QED
        BY <1>1, <1>3, <2>1, <2>2, SMTT(30)
<1>7. ASSUME NEW i \in 1..Len(longer), i + 2 * PerWindow <= Len(longer)
      PROVE  longer[i] + BrakeMs <= longer[i + 2 * PerWindow]
    <2>1. i \in 1..Len(times) /\ i + 2 * PerWindow \in 1..Len(longer)
        BY <1>1, <1>3, <1>4, <1>7
    <2>2. CASE i + 2 * PerWindow = Len(times) + 1
        <3>1. i + PerWindow <= Len(times)
            BY <1>1, <2>2
        <3> QED
            BY <1>3, <1>6, <2>2, <3>1
    <2>3. CASE i + 2 * PerWindow \in 1..Len(times)
        <3>1. i + 2 * PerWindow <= Len(times)
            BY <1>1, <2>3
        <3> QED
            BY <1>3, <2>1, <2>3, <3>1 DEF Window
    <2> QED
        BY <1>4, <2>1, <2>2, <2>3
<1>8. Window(longer, 1, time + BrakeMs, time, time, 1)
    <2>1. time <= time /\ 1 <= PerWindow /\ 1 <= Len(longer)
        BY <1>1, <1>3
    <2>2. \A i \in 1..Len(longer) : i + 1 + PerWindow <= Len(longer) => i + PerWindow <= Len(times)
        BY <1>1, <1>3
    <2>3. time + BrakeMs > time \/ time + BrakeMs <= time
        BY <1>1
    <2>4. 1 = IF 1 > PerWindow THEN PerWindow ELSE 1
        BY <2>1, <1>1
    <2> QED
        BY <1>5, <1>6, <1>7, <2>1, <2>2, <2>3, <2>4 DEF Window
<1> QED
    BY <1>2, <1>8

LEMMA WindowFills ==
    ASSUME NEW times \in Seq(Nat), NEW count \in Nat, NEW until \in Nat, NEW time \in Nat,
           NEW start \in Nat, NEW inside \in Nat,
           Window(times, count, until, time, start, inside), until > time, count < PerWindow
    PROVE  Window(Append(times, time), count + 1, until, time, start, inside + 1)
<1>1. /\ PerWindow \in Nat /\ BrakeMs \in Nat /\ Len(times) \in Nat
      /\ \A i \in 1..Len(times) : times[i] \in Nat
    BY AdmissionAssumption, LenProperties, ElementOfSeq
<1>2. PICK longer : longer = Append(times, time)
    OBVIOUS
<1>3. /\ Len(longer) = Len(times) + 1 /\ longer[Len(times) + 1] = time
      /\ \A i \in 1..Len(times) : longer[i] = times[i]
    BY <1>2, AppendProperties
<1>4. \A i \in 1..Len(longer) : i \in 1..Len(times) \/ i = Len(times) + 1
    BY <1>1, <1>3
<1>5. start <= time /\ until = start + BrakeMs /\ inside = count /\ inside < PerWindow /\ inside <= Len(times)
    BY <1>1 DEF Window
<1>6. \A i \in 1..Len(longer) : longer[i] <= time
    <2>1. \A i \in 1..Len(times) : times[i] <= time
        BY DEF Window
    <2> QED
        BY <1>3, <1>4, <2>1
<1>7. ASSUME NEW i \in 1..Len(longer), i + (inside + 1) <= Len(longer) PROVE longer[i] <= start
    <2>1. i \in 1..Len(times) /\ i + inside <= Len(times)
        BY <1>1, <1>3, <1>4, <1>7, SMTT(30)
    <2> QED
        BY <1>3, <2>1 DEF Window
<1>8. ASSUME NEW i \in 1..Len(longer), i + (inside + 1) + PerWindow <= Len(longer) PROVE longer[i] + BrakeMs <= start
    <2>1. i \in 1..Len(times) /\ i + inside + PerWindow <= Len(times)
        BY <1>1, <1>3, <1>4, <1>8, SMTT(30)
    <2> QED
        BY <1>3, <2>1 DEF Window
<1>9. ASSUME NEW i \in 1..Len(longer), i + 2 * PerWindow <= Len(longer)
      PROVE  longer[i] + BrakeMs <= longer[i + 2 * PerWindow]
    <2>1. i \in 1..Len(times) /\ i + 2 * PerWindow \in 1..Len(longer)
        BY <1>1, <1>3, <1>4, <1>5, <1>9
    <2>2. CASE i + 2 * PerWindow = Len(times) + 1
        <3>1. i + inside + PerWindow <= Len(times)
            BY <1>1, <1>5, <2>2
        <3>2. times[i] + BrakeMs <= start
            BY <2>1, <3>1 DEF Window
        <3> QED
            BY <1>1, <1>3, <1>5, <2>1, <2>2, <3>2, SMTT(30)
    <2>3. CASE i + 2 * PerWindow \in 1..Len(times)
        <3>1. i + 2 * PerWindow <= Len(times)
            BY <1>1, <2>3
        <3> QED
            BY <1>3, <2>1, <2>3, <3>1 DEF Window
    <2> QED
        BY <1>4, <2>1, <2>2, <2>3
<1>10. Window(longer, count + 1, until, time, start, inside + 1)
    <2>1. inside + 1 <= PerWindow /\ inside + 1 <= Len(longer)
        BY <1>1, <1>3, <1>5
    <2>2. inside + 1 = IF count + 1 > PerWindow THEN PerWindow ELSE count + 1
        BY <1>1, <1>5
    <2> QED
        BY <1>5, <1>6, <1>7, <1>8, <1>9, <2>1, <2>2 DEF Window
<1> QED
    BY <1>2, <1>10

LEMMA WindowIsUsedUp ==
    ASSUME NEW times \in Seq(Nat), NEW count \in Nat, NEW until \in Nat, NEW time \in Nat,
           NEW start \in Nat, NEW inside \in Nat,
           Window(times, count, until, time, start, inside), until > time, count >= PerWindow
    PROVE  Window(times, count + 1, until, time, start, inside)
<1>1. PerWindow \in Nat
    BY AdmissionAssumption
<1>2. inside = IF count + 1 > PerWindow THEN PerWindow ELSE count + 1
    BY <1>1 DEF Window
<1> QED
    BY <1>2 DEF Window

LEMMA WindowGoes ==
    ASSUME NEW times \in Seq(Nat), NEW count \in Nat, NEW until \in Nat, NEW time \in Nat,
           NEW start \in Nat, NEW inside \in Nat,
           Window(times, count, until, time, start, inside), until <= time
    PROVE  Window(times, 0, 0, time, start, inside)
<1>1. ~(0 > time)
    OBVIOUS
<1> QED
    BY <1>1 DEF Window

LEMMA WindowEnds ==
    ASSUME NEW times \in Seq(Nat), NEW count \in Nat, NEW until \in Nat, NEW time \in Nat,
           NEW start \in Nat, NEW inside \in Nat,
           Window(times, count, until, time, start, inside)
    PROVE  Window(times, count, until, time + 1, start, inside)
<1>1. BrakeMs \in Nat /\ Len(times) \in Nat /\ \A i \in 1..Len(times) : times[i] \in Nat
    BY AdmissionAssumption, LenProperties, ElementOfSeq
<1>2. start <= time + 1 /\ \A i \in 1..Len(times) : times[i] <= time + 1
    BY <1>1 DEF Window
<1>3. /\ until > time + 1 => until > time
      /\ until <= time + 1 => start + BrakeMs <= time + 1 \/ Len(times) = 0
    BY <1>1 DEF Window
<1> QED
    BY <1>2, <1>3 DEF Window

TriesTypes == tries \in [Caller -> [count : Nat, until : Nat]] /\ allowedAt \in [Caller -> Seq(Nat)]
Braked(times, window, time) ==
    \E start, inside \in Nat : Window(times, window.count, window.until, time, start, inside)
TriesInv ==
    /\ ClockTypes /\ TriesTypes
    /\ setBack \/ \A c \in Caller : Braked(allowedAt[c], tries[c], clock)

LEMMA AllowKeeps ==
    ASSUME TriesInv, NEW c \in Caller, Allow(c)
    PROVE  TriesInv'
<1>1. /\ ClockTypes /\ clock \in Nat /\ tries \in [Caller -> [count : Nat, until : Nat]]
      /\ allowedAt \in [Caller -> Seq(Nat)] /\ PerWindow \in Nat /\ BrakeMs \in Nat
    BY AdmissionAssumption DEF TriesInv, ClockTypes, TriesTypes
<1>2. UNCHANGED <<clock, setBack>> /\ PerWindow # 0
    <2>1. Len(allowedAt[c]) \in Nat /\ Len(allowedAt[c]) < 3 * PerWindow
        BY <1>1, LenProperties DEF Allow
    <2> QED
        BY <1>1, <2>1 DEF Allow
<1> DEFINE others == [d \in Caller |-> IF d \in Lasting THEN tries[d] ELSE NoWindow]
           refused == Cardinality(Lasting) >= MaxCallers /\ c \notin Lasting
<1>3. others \in [Caller -> [count : Nat, until : Nat]]
    BY <1>1 DEF NoWindow
<1>4. ASSUME NEW d \in Caller, Braked(allowedAt[d], tries[d], clock)
      PROVE  Braked(allowedAt[d], others[d], clock)
    <2>1. PICK start \in Nat, inside \in Nat :
              Window(allowedAt[d], tries[d].count, tries[d].until, clock, start, inside)
        BY <1>4 DEF Braked
    <2>2. tries[d].count \in Nat /\ tries[d].until \in Nat /\ allowedAt[d] \in Seq(Nat)
        BY <1>1
    <2>3. CASE d \in Lasting
        BY <1>4, <2>3
    <2>4. CASE d \notin Lasting
        <3>1. tries[d].until <= clock
            BY <1>1, <2>2, <2>4 DEF Lasting
        <3>2. Window(allowedAt[d], 0, 0, clock, start, inside)
            BY <1>1, <2>1, <2>2, <3>1, WindowGoes
        <3>3. others[d].count = 0 /\ others[d].until = 0
            BY <2>4 DEF NoWindow
        <3> HIDE DEF others
        <3> QED
            BY <3>2, <3>3 DEF Braked
    <2> QED
        BY <2>3, <2>4
<1>5. CASE refused
    <2>1. tries' = others /\ allowedAt' = allowedAt
        BY <1>5 DEF Allow
    <2> HIDE DEF others
    <2>2. ClockTypes' /\ TriesTypes'
        BY <1>1, <1>2, <1>3, <2>1 DEF ClockTypes, TriesTypes
    <2>3. ASSUME ~setBack, NEW d \in Caller PROVE Braked(allowedAt'[d], tries'[d], clock')
        <3>1. Braked(allowedAt[d], tries[d], clock)
            BY <2>3 DEF TriesInv
        <3>2. Braked(allowedAt[d], others[d], clock)
            BY <1>4, <3>1
        <3> QED
            BY <1>2, <2>1, <3>2
    <2> QED
        BY <1>2, <2>2, <2>3 DEF TriesInv
<1>6. CASE ~refused
    <2> DEFINE window == WindowOf(c)
               longer == IF window.count > PerWindow THEN allowedAt[c] ELSE Append(allowedAt[c], clock)
    <2>1. /\ tries' = [others EXCEPT ![c] = window]
          /\ allowedAt' = [allowedAt EXCEPT ![c] = longer]
        <3>1. /\ tries' = [others EXCEPT ![c] = window]
              /\ allowedAt' = IF window.count > PerWindow THEN allowedAt
                              ELSE [allowedAt EXCEPT ![c] = Append(@, clock)]
            BY <1>6 DEF Allow
        <3> HIDE DEF others, window
        <3>2. CASE window.count > PerWindow
            BY <1>1, <3>1, <3>2
        <3>3. CASE ~(window.count > PerWindow)
            BY <1>1, <3>1, <3>3
        <3> QED
            BY <3>1, <3>2, <3>3
    <2>2. /\ tries[c].count \in Nat /\ tries[c].until \in Nat /\ allowedAt[c] \in Seq(Nat)
          /\ Append(allowedAt[c], clock) \in Seq(Nat)
        BY <1>1, AppendProperties
    <2>3. c \in Lasting => /\ window.count = tries[c].count + 1 /\ window.until = tries[c].until
                           /\ tries[c].until > clock
                           /\ window \in [count : Nat, until : Nat]
        <3>1. SUFFICES ASSUME c \in Lasting
                       PROVE  /\ window.count = tries[c].count + 1 /\ window.until = tries[c].until
                              /\ tries[c].until > clock
                              /\ window \in [count : Nat, until : Nat]
            OBVIOUS
        <3>2. window = [tries[c] EXCEPT !.count = @ + 1] /\ tries[c].until > clock
            BY <3>1 DEF WindowOf, Lasting
        <3>3. tries[c] \in [count : Nat, until : Nat]
            BY <1>1
        <3> HIDE DEF window
        <3> QED
            BY <3>2, <3>3
    <2>4. c \notin Lasting => /\ window.count = 1 /\ window.until = clock + BrakeMs
                              /\ tries[c].until <= clock
                              /\ window \in [count : Nat, until : Nat]
        <3>1. SUFFICES ASSUME c \notin Lasting
                       PROVE  /\ window.count = 1 /\ window.until = clock + BrakeMs
                              /\ tries[c].until <= clock
                              /\ window \in [count : Nat, until : Nat]
            OBVIOUS
        <3>2. window = [count |-> 1, until |-> clock + BrakeMs]
            BY <3>1 DEF WindowOf
        <3>3. tries[c].until <= clock
            BY <1>1, <2>2, <3>1 DEF Lasting
        <3> HIDE DEF window
        <3> QED
            BY <1>1, <3>2, <3>3
    <2> HIDE DEF window
    <2>5. window \in [count : Nat, until : Nat] /\ longer \in Seq(Nat)
        BY <2>2, <2>3, <2>4
    <2>6. ASSUME Braked(allowedAt[c], tries[c], clock) PROVE Braked(longer, window, clock)
        <3>1. PICK start \in Nat, inside \in Nat :
                  Window(allowedAt[c], tries[c].count, tries[c].until, clock, start, inside)
            BY <2>6 DEF Braked
        <3>2. CASE c \notin Lasting
            <4>1. Window(Append(allowedAt[c], clock), 1, clock + BrakeMs, clock, clock, 1)
                BY <1>1, <1>2, <2>2, <2>4, <3>1, <3>2, WindowOpens
            <4>2. longer = Append(allowedAt[c], clock)
                BY <1>1, <1>2, <2>4, <3>2
            <4> HIDE DEF longer
            <4> QED
                BY <1>1, <2>4, <3>2, <4>1, <4>2 DEF Braked
        <3>3. CASE c \in Lasting /\ tries[c].count < PerWindow
            <4>1. Window(Append(allowedAt[c], clock), tries[c].count + 1, tries[c].until, clock, start, inside + 1)
                BY <1>1, <2>2, <2>3, <3>1, <3>3, WindowFills
            <4>2. longer = Append(allowedAt[c], clock) /\ inside + 1 \in Nat
                BY <1>1, <2>2, <2>3, <3>3
            <4> HIDE DEF longer
            <4> QED
                BY <2>3, <3>3, <4>1, <4>2 DEF Braked
        <3>4. CASE c \in Lasting /\ tries[c].count >= PerWindow
            <4>1. Window(allowedAt[c], tries[c].count + 1, tries[c].until, clock, start, inside)
                BY <1>1, <2>2, <2>3, <3>1, <3>4, WindowIsUsedUp
            <4>2. longer = allowedAt[c]
                BY <1>1, <2>2, <2>3, <3>4
            <4> HIDE DEF longer
            <4> QED
                BY <2>3, <3>4, <4>1, <4>2 DEF Braked
        <3> QED
            BY <1>1, <2>2, <3>2, <3>3, <3>4
    <2> HIDE DEF others, longer
    <2>7. ClockTypes' /\ TriesTypes'
        BY <1>1, <1>2, <1>3, <2>1, <2>5 DEF ClockTypes, TriesTypes
    <2>8. ASSUME ~setBack, NEW d \in Caller PROVE Braked(allowedAt'[d], tries'[d], clock')
        <3>1. Braked(allowedAt[d], tries[d], clock)
            BY <2>8 DEF TriesInv
        <3>2. CASE d = c
            <4>1. allowedAt'[c] = longer /\ tries'[c] = window
                BY <1>1, <1>3, <2>1
            <4> QED
                BY <1>2, <2>6, <3>1, <3>2, <4>1
        <3>3. CASE d # c
            <4>1. allowedAt'[d] = allowedAt[d] /\ tries'[d] = others[d]
                BY <1>1, <1>3, <2>1, <3>3
            <4>2. Braked(allowedAt[d], others[d], clock)
                BY <1>4, <3>1
            <4> QED
                BY <1>2, <4>1, <4>2
        <3> QED
            BY <3>2, <3>3
    <2> QED
        BY <1>2, <2>7, <2>8 DEF TriesInv
<1> QED
    BY <1>5, <1>6

LEMMA TryKeeps ==
    ASSUME TriesInv,
           Passes \/ SetBack \/ (\E c \in Caller : Allow(c)) \/ UNCHANGED <<clock, setBack, brakeVars>>
    PROVE  TriesInv'
<1>1. ClockTypes /\ TriesTypes /\ clock \in Nat
    BY DEF TriesInv, ClockTypes
<1>2. CASE Passes
    <2>1. clock' = clock + 1 /\ UNCHANGED <<setBack, tries, allowedAt>>
        BY <1>2 DEF Passes, brakeVars
    <2>2. ClockTypes' /\ TriesTypes'
        BY <1>1, <2>1 DEF ClockTypes, TriesTypes
    <2>3. ASSUME ~setBack, NEW d \in Caller PROVE Braked(allowedAt[d], tries[d], clock + 1)
        <3>1. PICK start \in Nat, inside \in Nat :
                  Window(allowedAt[d], tries[d].count, tries[d].until, clock, start, inside)
            BY <2>3 DEF TriesInv, Braked
        <3>2. tries[d].count \in Nat /\ tries[d].until \in Nat /\ allowedAt[d] \in Seq(Nat)
            BY <1>1 DEF TriesTypes
        <3>3. Window(allowedAt[d], tries[d].count, tries[d].until, clock + 1, start, inside)
            BY <1>1, <3>1, <3>2, WindowEnds
        <3> QED
            BY <3>3 DEF Braked
    <2> QED
        BY <2>1, <2>2, <2>3 DEF TriesInv
<1>3. CASE SetBack
    <2>1. setBack' = TRUE /\ clock' = 0 /\ UNCHANGED <<tries, allowedAt>>
        BY <1>3 DEF SetBack, brakeVars
    <2> QED
        BY <1>1, <2>1 DEF TriesInv, ClockTypes, TriesTypes
<1>4. CASE UNCHANGED <<clock, setBack, brakeVars>>
    BY <1>4 DEF TriesInv, ClockTypes, TriesTypes, brakeVars
<1>5. CASE \E c \in Caller : Allow(c)
    BY <1>5, AllowKeeps
<1> QED
    BY <1>2, <1>3, <1>4, <1>5

AdmissionInv == NonceInv /\ TriesInv

LEMMA AdmissionBegins == AdmissionInit => AdmissionInv
<1> SUFFICES ASSUME AdmissionInit PROVE AdmissionInv
    OBVIOUS
<1>1. ClockTypes
    BY DEF AdmissionInit, ClockTypes
<1>2. NonceInv
    <2>1. /\ seen = <<>> /\ Len(seen) = 0 /\ seen \in Seq(Entry)
          /\ stamp = [n \in Nonce |-> Unsent] /\ Unsent \in Nat /\ passed = {} /\ again = {}
        BY EmptySeq, AdmissionAssumption DEF AdmissionInit, Unsent
    <2>2. NonceTypes
        BY <2>1 DEF NonceTypes
    <2> QED
        BY <1>1, <2>1, <2>2 DEF NonceInv, HellosAreKnown
<1>3. TriesInv
    <2>1. /\ tries = [c \in Caller |-> NoWindow] /\ allowedAt = [c \in Caller |-> <<>>] /\ clock = 0
        BY DEF AdmissionInit
    <2>2. TriesTypes
        BY <2>1 DEF TriesTypes, NoWindow
    <2>3. ASSUME NEW c \in Caller PROVE Braked(allowedAt[c], tries[c], clock)
        <3>1. allowedAt[c] = <<>> /\ tries[c].count = 0 /\ tries[c].until = 0 /\ Len(<<>>) = 0
            BY <2>1 DEF NoWindow
        <3>2. Window(<<>>, 0, 0, 0, 0, 0)
            <4>1. \A i \in 1..Len(<<>>) : FALSE
                BY <3>1
            <4>2. 0 <= PerWindow /\ ~(0 > 0)
                BY AdmissionAssumption
            <4> QED
                BY <3>1, <4>1, <4>2 DEF Window
        <3> QED
            BY <2>1, <3>1, <3>2 DEF Braked
    <2> QED
        BY <1>1, <2>2, <2>3 DEF TriesInv
<1> QED
    BY <1>2, <1>3 DEF AdmissionInv

LEMMA AdmissionKeeps == AdmissionInv /\ [AdmissionNext]_admissionVars => AdmissionInv'
<1> SUFFICES ASSUME AdmissionInv, [AdmissionNext]_admissionVars PROVE AdmissionInv'
    OBVIOUS
<1>1. NonceInv /\ TriesInv
    BY DEF AdmissionInv
<1>2. NonceInv'
    BY <1>1, HelloKeeps DEF AdmissionNext, admissionVars
<1>3. TriesInv'
    <2>1. ASSUME NEW n \in Nonce, Check(n) \/ \E time \in 0..LastTick : Stamp(n, time)
          PROVE  UNCHANGED <<clock, setBack, brakeVars>>
        BY <2>1 DEF Check, Stamp
    <2> QED
        BY <1>1, <2>1, TryKeeps DEF AdmissionNext, admissionVars
<1> QED
    BY <1>2, <1>3 DEF AdmissionInv

LEMMA AdmissionShows == AdmissionInv => ReplayMeansDisplaced /\ TriesPerWindow
<1> SUFFICES ASSUME AdmissionInv PROVE ReplayMeansDisplaced /\ TriesPerWindow
    OBVIOUS
<1>1. ReplayMeansDisplaced
    BY DEF AdmissionInv, NonceInv, HellosAreKnown, ReplayMeansDisplaced
<1>2. ASSUME ~setBack, NEW c \in Caller, NEW i \in 1..Len(allowedAt[c]),
             i + 2 * PerWindow <= Len(allowedAt[c])
      PROVE  allowedAt[c][i + 2 * PerWindow] >= allowedAt[c][i] + BrakeMs
    <2>1. PICK start \in Nat, inside \in Nat :
              Window(allowedAt[c], tries[c].count, tries[c].until, clock, start, inside)
        BY <1>2 DEF AdmissionInv, TriesInv, Braked
    <2>2. allowedAt[c][i] + BrakeMs <= allowedAt[c][i + 2 * PerWindow]
        BY <1>2, <2>1 DEF Window
    <2>3. allowedAt[c] \in Seq(Nat) /\ Len(allowedAt[c]) \in Nat
        BY LenProperties DEF AdmissionInv, TriesInv, TriesTypes
    <2>4. i + 2 * PerWindow \in 1..Len(allowedAt[c])
        BY <1>2, <2>3, AdmissionAssumption, SMTT(30)
    <2>5. allowedAt[c][i] \in Nat /\ allowedAt[c][i + 2 * PerWindow] \in Nat
        BY <2>3, <2>4, ElementOfSeq
    <2> QED
        BY <2>2, <2>5, AdmissionAssumption
<1>3. TriesPerWindow
    BY <1>2 DEF TriesPerWindow
<1> QED
    BY <1>1, <1>3

-----------------------------------------------------------------------------
USE LimiterAssumption

-----------------------------------------------------------------------------
(* The invariant the proofs go by induction on.                            *)

CapRespected == pending <= MaxPending

(* Codes not generated yet are untouched, the code in force has failed no  *)
(* more often than the limiter has counted, and a code that was replaced   *)
(* keeps within the budget.                                                *)
CodesInOrder ==
    \A c \in Code : c > code => failed[c] = 0 /\ InFlightOn(c) = {}
CurrentCounted == sinceRotation < RotateAfter /\ failed[code] <= sinceRotation
ReplacedWithinBudget ==
    \A c \in Code : c < code => GuessesOn(c) <= RotateAfter + MaxPending - 1

Accounting ==
    /\ TypeOK
    /\ CountersMatchAttempts
    /\ AttemptsAreTracked

Inv ==
    /\ Accounting
    /\ CapRespected
    /\ CodesInOrder
    /\ CurrentCounted
    /\ ReplacedWithinBudget

-----------------------------------------------------------------------------
(* Operators: a lockout is a whole number of ticks.                        *)
LEMMA LockoutType ==
    ASSUME NEW n \in Nat, n >= FreeFailures
    PROVE  LockoutAfter(n) \in Nat
BY DEF LockoutAfter, Min2

(* A failed record is a record as long as it had an attempt to settle.     *)
LEMMA FailureType ==
    ASSUME NEW r \in PeerRecord, r.pending > 0, now \in Nat
    PROVE  Failure(r) \in PeerRecord /\ Failure(r).pending = r.pending - 1
BY LockoutType DEF Failure, PeerRecord, Max2

(* Attempts in flight are finitely many.                                   *)
LEMMA InFlightFinite ==
    /\ IsFiniteSet(InFlight) /\ Cardinality(InFlight) \in Nat
    /\ \A p : /\ IsFiniteSet(InFlightFrom(p))
              /\ Cardinality(InFlightFrom(p)) \in Nat
              /\ Cardinality(InFlightFrom(p)) <= Cardinality(InFlight)
    /\ \A c : /\ IsFiniteSet(InFlightOn(c))
              /\ Cardinality(InFlightOn(c)) \in Nat
              /\ Cardinality(InFlightOn(c)) <= Cardinality(InFlight)
<1>1. IsFiniteSet(InFlight) /\ Cardinality(InFlight) \in Nat
  <2>1. InFlight \in SUBSET Handshake
    BY DEF InFlight
  <2>2. QED BY <2>1, FS_Subset, FS_CardinalityType
<1>2. ASSUME NEW p
      PROVE  /\ IsFiniteSet(InFlightFrom(p))
             /\ Cardinality(InFlightFrom(p)) \in Nat
             /\ Cardinality(InFlightFrom(p)) <= Cardinality(InFlight)
  <2>1. InFlightFrom(p) \in SUBSET InFlight
    BY DEF InFlightFrom
  <2>2. QED BY <1>1, <2>1, FS_Subset, FS_CardinalityType
<1>3. ASSUME NEW c
      PROVE  /\ IsFiniteSet(InFlightOn(c))
             /\ Cardinality(InFlightOn(c)) \in Nat
             /\ Cardinality(InFlightOn(c)) <= Cardinality(InFlight)
  <2>1. InFlightOn(c) \in SUBSET InFlight
    BY DEF InFlightOn
  <2>2. QED BY <1>1, <2>1, FS_Subset, FS_CardinalityType
<1>4. QED BY <1>1, <1>2, <1>3

(* Beginning an attempt adds the handshake to exactly one peer's and one   *)
(* code's attempts.                                                        *)
LEMMA BeginAdds ==
    ASSUME TypeOK, NEW h \in Handshake, NEW p \in Peer, attempt[h] = NoAttempt,
           attempt' = [attempt EXCEPT ![h] = [peer |-> p, code |-> code]]
    PROVE  /\ InFlight' = InFlight \cup {h}
           /\ Cardinality(InFlight') = Cardinality(InFlight) + 1
           /\ \A q \in Peer : Cardinality(InFlightFrom(q)') =
                IF q = p THEN Cardinality(InFlightFrom(q)) + 1
                         ELSE Cardinality(InFlightFrom(q))
           /\ \A c \in Code : Cardinality(InFlightOn(c)') =
                IF c = code THEN Cardinality(InFlightOn(c)) + 1
                            ELSE Cardinality(InFlightOn(c))
           /\ \A c \in Code \ {code} : InFlightOn(c)' = InFlightOn(c)
<1>1. [peer |-> p, code |-> code] \in Attempt
  BY DEF TypeOK, Attempt
<1>2. InFlight' = InFlight \cup {h} /\ h \notin InFlight
  BY <1>1 DEF InFlight, TypeOK
<1>3. ASSUME NEW q \in Peer
      PROVE  /\ q = p => InFlightFrom(q)' = InFlightFrom(q) \cup {h}
                          /\ h \notin InFlightFrom(q)
             /\ q # p => InFlightFrom(q)' = InFlightFrom(q)
  BY <1>1, <1>2 DEF InFlightFrom, InFlight, TypeOK
<1>4. ASSUME NEW c \in Code
      PROVE  /\ c = code => InFlightOn(c)' = InFlightOn(c) \cup {h}
                            /\ h \notin InFlightOn(c)
             /\ c # code => InFlightOn(c)' = InFlightOn(c)
  BY <1>1, <1>2 DEF InFlightOn, InFlight, TypeOK
<1>5. Cardinality(InFlight') = Cardinality(InFlight) + 1
  BY <1>2, InFlightFinite, FS_AddElement
<1>6. ASSUME NEW q \in Peer
      PROVE  Cardinality(InFlightFrom(q)') =
               IF q = p THEN Cardinality(InFlightFrom(q)) + 1
                        ELSE Cardinality(InFlightFrom(q))
  BY <1>3, InFlightFinite, FS_AddElement
<1>7. ASSUME NEW c \in Code
      PROVE  Cardinality(InFlightOn(c)') =
               IF c = code THEN Cardinality(InFlightOn(c)) + 1
                           ELSE Cardinality(InFlightOn(c))
  BY <1>4, InFlightFinite, FS_AddElement
<1>8. QED
  BY <1>2, <1>4, <1>5, <1>6, <1>7

(* Settling an attempt removes it from its peer's and its code's attempts. *)
LEMMA SettleRemoves ==
    ASSUME TypeOK, NEW h \in Handshake, attempt[h] # NoAttempt,
           attempt' = [attempt EXCEPT ![h] = NoAttempt]
    PROVE  /\ attempt[h] \in Attempt
           /\ InFlight' = InFlight \ {h}
           /\ Cardinality(InFlight') = Cardinality(InFlight) - 1
           /\ \A q \in Peer : Cardinality(InFlightFrom(q)') =
                IF q = attempt[h].peer THEN Cardinality(InFlightFrom(q)) - 1
                                       ELSE Cardinality(InFlightFrom(q))
           /\ \A c \in Code : /\ InFlightOn(c)' \subseteq InFlightOn(c)
                             /\ Cardinality(InFlightOn(c)') =
                IF c = attempt[h].code THEN Cardinality(InFlightOn(c)) - 1
                                       ELSE Cardinality(InFlightOn(c))
<1>1. attempt[h] \in Attempt
  BY DEF TypeOK
<1>2. InFlight' = InFlight \ {h} /\ h \in InFlight
  BY <1>1 DEF InFlight, TypeOK
<1>3. ASSUME NEW q \in Peer
      PROVE  /\ q = attempt[h].peer => InFlightFrom(q)' = InFlightFrom(q) \ {h}
                                       /\ h \in InFlightFrom(q)
             /\ q # attempt[h].peer => InFlightFrom(q)' = InFlightFrom(q)
  BY <1>1, <1>2 DEF InFlightFrom, InFlight, TypeOK
<1>4. ASSUME NEW c \in Code
      PROVE  /\ c = attempt[h].code => InFlightOn(c)' = InFlightOn(c) \ {h}
                                       /\ h \in InFlightOn(c)
             /\ c # attempt[h].code => InFlightOn(c)' = InFlightOn(c)
  BY <1>1, <1>2 DEF InFlightOn, InFlight, TypeOK
<1>5. Cardinality(InFlight') = Cardinality(InFlight) - 1
  BY <1>2, InFlightFinite, FS_RemoveElement
<1>6. ASSUME NEW q \in Peer
      PROVE  Cardinality(InFlightFrom(q)') =
               IF q = attempt[h].peer THEN Cardinality(InFlightFrom(q)) - 1
                                      ELSE Cardinality(InFlightFrom(q))
  BY <1>3, InFlightFinite, FS_RemoveElement
<1>7. ASSUME NEW c \in Code
      PROVE  /\ InFlightOn(c)' \subseteq InFlightOn(c)
             /\ Cardinality(InFlightOn(c)') =
                  IF c = attempt[h].code THEN Cardinality(InFlightOn(c)) - 1
                                         ELSE Cardinality(InFlightOn(c))
  BY <1>4, InFlightFinite, FS_RemoveElement
<1>8. QED
  BY <1>1, <1>2, <1>5, <1>6, <1>7
-----------------------------------------------------------------------------
(* Looking a peer up keeps every peer with an attempt in flight.           *)
LEMMA LookupKeeps ==
    ASSUME Accounting, NEW p \in Peer, NEW kept \in Remaining(p)
    PROVE  /\ kept \subseteq tracked
           /\ \A q \in tracked \ kept : record[q].pending = 0
           /\ \A h \in InFlight : attempt[h].peer \in kept
<1>1. /\ kept \subseteq tracked
      /\ \A q \in tracked \ kept : record[q].pending = 0
  BY DEF Remaining, Forgotten
<1>2. ASSUME NEW h \in InFlight
      PROVE  attempt[h].peer \in kept
  <2>1. attempt[h].peer \in tracked /\ attempt[h].peer \in Peer
    BY DEF Accounting, AttemptsAreTracked, InFlight, TypeOK, Attempt
  <2>2. h \in InFlightFrom(attempt[h].peer)
    BY DEF InFlightFrom
  <2>3. Cardinality(InFlightFrom(attempt[h].peer)) # 0
    BY <2>2, InFlightFinite, FS_EmptySet
  <2>4. record[attempt[h].peer].pending # 0
    BY <2>1, <2>3 DEF Accounting, CountersMatchAttempts
  <2>5. QED BY <1>1, <2>1, <2>4
<1>3. QED BY <1>1, <1>2

(* ... and leaves a well-formed table whose counters are unchanged.        *)
LEMMA LookupTable ==
    ASSUME Accounting, NEW p \in Peer, NEW kept \in Remaining(p)
    PROVE  /\ Touched(p, kept) \in [Peer -> PeerRecord]
           /\ \A q \in Peer : Touched(p, kept)[q].pending = record[q].pending
<1>1. Unknown \in PeerRecord
  BY DEF Unknown, PeerRecord
<1>2. ASSUME NEW q \in Peer, q \notin kept
      PROVE  record[q].pending = 0
  <2>1. InFlightFrom(q) = {}
    BY <1>2, LookupKeeps DEF InFlightFrom
  <2>2. QED
    BY <2>1, FS_EmptySet DEF Accounting, CountersMatchAttempts
<1>3. ASSUME NEW q \in Peer
      PROVE  /\ Touched(p, kept)[q] \in PeerRecord
             /\ Touched(p, kept)[q].pending = record[q].pending
  BY <1>1, <1>2 DEF Touched, PeerRecord, Unknown, Accounting, TypeOK
<1>4. QED
  BY <1>3 DEF Touched

-----------------------------------------------------------------------------
(* One lemma per action: the accounting survives it.                       *)
LEMMA BeginAccounting ==
    ASSUME Accounting, NEW h \in Handshake, NEW p \in Peer, Begin(h, p)
    PROVE  Accounting'
<1>1. PICK kept \in Remaining(p) :
        /\ tracked' = kept \cup {p}
        /\ record' = [Touched(p, kept) EXCEPT ![p].pending = @ + 1]
  BY DEF Begin
<1> DEFINE table == Touched(p, kept)
<1>2. /\ table \in [Peer -> PeerRecord]
      /\ \A q \in Peer : table[q].pending = record[q].pending
  BY LookupTable
<1>3. /\ record' \in [Peer -> PeerRecord]
      /\ \A q \in Peer : record'[q].pending =
            IF q = p THEN record[q].pending + 1 ELSE record[q].pending
  <2> HIDE DEF table
  <2>1. record' = [table EXCEPT ![p].pending = @ + 1]
    BY <1>1 DEF table
  <2>2. QED BY <1>2, <2>1 DEF PeerRecord
<1>4. TypeOK
  BY DEF Accounting
<1>5. /\ attempt[h] = NoAttempt
      /\ attempt' = [attempt EXCEPT ![h] = [peer |-> p, code |-> code]]
      /\ pending' = pending + 1
      /\ UNCHANGED <<now, sinceRotation, code, failed>>
  BY DEF Begin
<1>6. TypeOK'
  <2>1. tracked' \subseteq Peer
    BY <1>1, <1>4, LookupKeeps DEF TypeOK
  <2>2. QED
    BY <1>3, <1>4, <1>5, <2>1 DEF TypeOK, Attempt
<1>7. CountersMatchAttempts'
  <2>1. pending' = Cardinality(InFlight')
    BY <1>4, <1>5, BeginAdds DEF Accounting, CountersMatchAttempts
  <2>2. ASSUME NEW q \in Peer
        PROVE  record'[q].pending = Cardinality(InFlightFrom(q)')
    BY <1>3, <1>4, <1>5, BeginAdds DEF Accounting, CountersMatchAttempts
  <2>3. QED BY <2>1, <2>2 DEF CountersMatchAttempts
<1>8. AttemptsAreTracked'
  <2>1. InFlight' = InFlight \cup {h}
    BY <1>4, <1>5, BeginAdds
  <2>2. attempt'[h].peer = p
    BY <1>4, <1>5 DEF TypeOK
  <2>3. \A g \in InFlight \ {h} : attempt'[g] = attempt[g]
    BY <1>4, <1>5 DEF TypeOK, InFlight
  <2>4. QED
    BY <1>1, <2>1, <2>2, <2>3, LookupKeeps DEF AttemptsAreTracked
<1>9. QED BY <1>6, <1>7, <1>8 DEF Accounting

LEMMA RefuseAccounting ==
    ASSUME Accounting, NEW p \in Peer, Refuse(p)
    PROVE  Accounting'
<1>1. PICK kept \in Remaining(p) :
        /\ tracked' = kept \cup {p}
        /\ record' = Touched(p, kept)
  BY DEF Refuse
<1>2. /\ record' \in [Peer -> PeerRecord]
      /\ \A q \in Peer : record'[q].pending = record[q].pending
  BY <1>1, LookupTable
<1>3. UNCHANGED <<now, pending, sinceRotation, code, attempt, failed>>
  BY DEF Refuse
<1>4. /\ InFlight' = InFlight
      /\ \A q : InFlightFrom(q)' = InFlightFrom(q)
  BY <1>3 DEF InFlight, InFlightFrom
<1>5. TypeOK'
  BY <1>1, <1>2, <1>3, LookupKeeps DEF Accounting, TypeOK
<1>6. CountersMatchAttempts'
  BY <1>2, <1>3, <1>4 DEF Accounting, CountersMatchAttempts
<1>7. AttemptsAreTracked'
  BY <1>1, <1>3, <1>4, LookupKeeps DEF AttemptsAreTracked
<1>8. QED BY <1>5, <1>6, <1>7 DEF Accounting

(* What succeed() and fail() share: the attempt's record gives its slot    *)
(* back, and nothing else about the table's counters changes.              *)
LEMMA SettleAccounting ==
    ASSUME Accounting, NEW h \in Handshake, attempt[h] # NoAttempt,
           NEW settled \in PeerRecord,
           settled.pending = record[attempt[h].peer].pending - 1,
           record' = [record EXCEPT ![attempt[h].peer] = settled],
           pending' = pending - 1,
           attempt' = [attempt EXCEPT ![h] = NoAttempt],
           tracked' = tracked, now' = now,
           code' \in Code, sinceRotation' \in Nat, failed' \in [Code -> Nat]
    PROVE  Accounting'
<1>1. TypeOK
  BY DEF Accounting
<1>2. attempt[h].peer \in Peer
  BY <1>1 DEF TypeOK, Attempt
<1>3. pending > 0
  <2>1. h \in InFlight
    BY DEF InFlight
  <2>2. Cardinality(InFlight) # 0
    BY <2>1, InFlightFinite, FS_EmptySet
  <2>3. QED BY <1>1, <2>2, InFlightFinite
            DEF Accounting, CountersMatchAttempts, TypeOK
<1>4. TypeOK'
  BY <1>1, <1>2, <1>3 DEF TypeOK
<1>5. CountersMatchAttempts'
  <2>1. pending' = Cardinality(InFlight')
    BY <1>1, SettleRemoves DEF Accounting, CountersMatchAttempts
  <2>2. ASSUME NEW q \in Peer
        PROVE  record'[q].pending = Cardinality(InFlightFrom(q)')
    BY <1>1, <1>2, SettleRemoves, ZenonT(60) DEF Accounting, CountersMatchAttempts, TypeOK
  <2>3. QED BY <2>1, <2>2 DEF CountersMatchAttempts
<1>6. AttemptsAreTracked'
  <2>1. InFlight' = InFlight \ {h}
    BY <1>1, SettleRemoves
  <2>2. \A g \in InFlight \ {h} : attempt'[g] = attempt[g]
    BY <1>1 DEF TypeOK, InFlight
  <2>3. QED BY <2>1, <2>2 DEF Accounting, AttemptsAreTracked
<1>7. QED BY <1>4, <1>5, <1>6 DEF Accounting

(* The peer of an attempt in flight has that attempt on its record.        *)
LEMMA RecordHasAttempt ==
    ASSUME Accounting, NEW h \in Handshake, attempt[h] # NoAttempt
    PROVE  /\ attempt[h] \in Attempt
           /\ record[attempt[h].peer] \in PeerRecord
           /\ record[attempt[h].peer].pending > 0
<1>1. attempt[h] \in Attempt /\ attempt[h].peer \in Peer
  BY DEF Accounting, TypeOK, Attempt
<1>2. h \in InFlightFrom(attempt[h].peer)
  BY DEF InFlightFrom, InFlight
<1>3. Cardinality(InFlightFrom(attempt[h].peer)) # 0
  BY <1>2, InFlightFinite, FS_EmptySet
<1>4. QED
  BY <1>1, <1>3, InFlightFinite
  DEF Accounting, CountersMatchAttempts, TypeOK, PeerRecord

LEMMA SucceedAccounting ==
    ASSUME Accounting, NEW h \in Handshake, Succeed(h)
    PROVE  Accounting'
<1>1. attempt[h] # NoAttempt
  BY DEF Succeed
<1>2. /\ record[attempt[h].peer] \in PeerRecord
      /\ record[attempt[h].peer].pending > 0
  BY <1>1, RecordHasAttempt
<1>3. /\ Success(record[attempt[h].peer]) \in PeerRecord
      /\ Success(record[attempt[h].peer]).pending
           = record[attempt[h].peer].pending - 1
  BY <1>2 DEF Success, PeerRecord, Accounting, TypeOK
<1>4. QED
  BY <1>1, <1>3, SettleAccounting DEF Succeed, Accounting, TypeOK

LEMMA FailAccounting ==
    ASSUME Accounting, NEW h \in Handshake, Fail(h)
    PROVE  Accounting'
<1>1. attempt[h] # NoAttempt
  BY DEF Fail
<1>2. /\ attempt[h] \in Attempt
      /\ record[attempt[h].peer] \in PeerRecord
      /\ record[attempt[h].peer].pending > 0
  BY <1>1, RecordHasAttempt
<1>3. /\ Failure(record[attempt[h].peer]) \in PeerRecord
      /\ Failure(record[attempt[h].peer]).pending
           = record[attempt[h].peer].pending - 1
  BY <1>2, FailureType DEF Accounting, TypeOK
<1>4. code' \in Code /\ sinceRotation' \in Nat /\ failed' \in [Code -> Nat]
  BY <1>2, SMTT(30) DEF Fail, CountFailure, Accounting, TypeOK, Code, Attempt
<1>5. QED
  BY <1>1, <1>3, <1>4, SettleAccounting DEF Fail

LEMMA AccountingStep == Accounting /\ [Next]_vars => Accounting'
<1> SUFFICES ASSUME Accounting, [Next]_vars
             PROVE  Accounting'
  OBVIOUS
<1>1. ASSUME NEW h \in Handshake, NEW p \in Peer, Begin(h, p)
      PROVE  Accounting'
  BY <1>1, BeginAccounting
<1>2. ASSUME NEW p \in Peer, Refuse(p)
      PROVE  Accounting'
  BY <1>2, RefuseAccounting
<1>3. ASSUME NEW h \in Handshake, Succeed(h)
      PROVE  Accounting'
  BY <1>3, SucceedAccounting
<1>4. ASSUME NEW h \in Handshake, Fail(h)
      PROVE  Accounting'
  BY <1>4, FailAccounting
<1>5. CASE Regenerate
  <2>1. /\ code' = code + 1 /\ code < MaxCode /\ sinceRotation' = 0
        /\ UNCHANGED <<now, tracked, record, pending, attempt, failed>>
    BY <1>5 DEF Regenerate
  <2>2. TypeOK'
    <3>1. code' \in Code
      BY <2>1, LimiterAssumption DEF Accounting, TypeOK, Code
    <3> QED BY <2>1, <3>1 DEF Accounting, TypeOK
  <2>3. InFlight' = InFlight /\ \A p \in Peer : InFlightFrom(p)' = InFlightFrom(p)
    BY <2>1 DEF InFlight, InFlightFrom
  <2>4. CountersMatchAttempts' /\ AttemptsAreTracked'
    BY <2>1, <2>3 DEF Accounting, CountersMatchAttempts, AttemptsAreTracked
  <2> QED BY <2>2, <2>4 DEF Accounting
<1>6. CASE Tick
  <2>1. /\ now' = now + 1
        /\ UNCHANGED <<tracked, record, pending, sinceRotation, code, attempt, failed>>
    BY <1>6 DEF Tick
  <2>2. TypeOK'
    BY <2>1 DEF Accounting, TypeOK
  <2>3. InFlight' = InFlight /\ \A p \in Peer : InFlightFrom(p)' = InFlightFrom(p)
    BY <2>1 DEF InFlight, InFlightFrom
  <2>4. CountersMatchAttempts' /\ AttemptsAreTracked'
    BY <2>1, <2>3 DEF Accounting, CountersMatchAttempts, AttemptsAreTracked
  <2> QED BY <2>2, <2>4 DEF Accounting
<1>7. CASE UNCHANGED vars
  BY <1>7 DEF vars, Accounting, TypeOK, CountersMatchAttempts,
              AttemptsAreTracked, InFlight, InFlightFrom
<1>8. QED
  BY <1>1, <1>2, <1>3, <1>4, <1>5, <1>6, <1>7 DEF Next
-----------------------------------------------------------------------------
(* The guess budget.                                                       *)

LEMMA CapStep == Inv /\ [Next]_vars => CapRespected'
<1> SUFFICES ASSUME Inv, [Next]_vars
             PROVE  CapRespected'
  OBVIOUS
<1>1. pending \in Nat /\ pending <= MaxPending
  BY DEF Inv, Accounting, TypeOK, CapRespected
<1>2. ASSUME NEW h \in Handshake, NEW p \in Peer, Begin(h, p)
      PROVE  CapRespected'
  BY <1>1, <1>2 DEF Begin, Admissible, CapRespected
<1>3. ASSUME NEW h \in Handshake, Succeed(h) \/ Fail(h)
      PROVE  CapRespected'
  BY <1>1, <1>3 DEF Succeed, Fail, CapRespected
<1>4. QED
  BY <1>1, <1>2, <1>3
  DEF Next, vars, Refuse, Regenerate, Tick, CapRespected

(* Facts about the codes that the counting below starts from.              *)
LEMMA CodeFacts ==
    ASSUME Inv
    PROVE  /\ TypeOK
           /\ code \in Code /\ code \in Int
           /\ \A c \in Code : /\ c \in Int
                             /\ failed[c] \in Nat
                             /\ Cardinality(InFlightOn(c)) \in Nat
                             /\ Cardinality(InFlightOn(c)) <= MaxPending
<1>1. TypeOK /\ pending = Cardinality(InFlight) /\ pending <= MaxPending
  BY DEF Inv, Accounting, CountersMatchAttempts, CapRespected
<1>2. Code \subseteq Int
  BY DEF Code
<1>3. QED
  BY <1>1, <1>2, InFlightFinite DEF TypeOK

(* A code moves only forward, by one; the new one is untouched, and the    *)
(* one it replaces has met no more than the budget.                        *)
LEMMA ReplaceCode ==
    ASSUME Inv, code < MaxCode
    PROVE  /\ code + 1 \in Code
           /\ failed[code + 1] = 0 /\ InFlightOn(code + 1) = {}
           /\ GuessesOn(code) <= RotateAfter + MaxPending - 1
<1>1. code + 1 \in Code /\ code + 1 > code
  BY CodeFacts DEF Code
<1>2. failed[code + 1] = 0 /\ InFlightOn(code + 1) = {}
  BY <1>1 DEF Inv, CodesInOrder
<1>3. GuessesOn(code) <= RotateAfter + MaxPending - 1
  BY CodeFacts DEF Inv, CurrentCounted, GuessesOn, TypeOK
<1>4. QED BY <1>1, <1>2, <1>3

LEMMA BeginBudget ==
    ASSUME Inv, NEW h \in Handshake, NEW p \in Peer, Begin(h, p)
    PROVE  CodesInOrder' /\ CurrentCounted' /\ ReplacedWithinBudget'
<1>1. /\ attempt[h] = NoAttempt
      /\ attempt' = [attempt EXCEPT ![h] = [peer |-> p, code |-> code]]
      /\ UNCHANGED <<sinceRotation, code, failed>>
  BY DEF Begin
<1>2. \A c \in Code \ {code} : InFlightOn(c)' = InFlightOn(c)
  BY <1>1, CodeFacts, BeginAdds
<1>3. CodesInOrder'
  BY <1>1, <1>2, CodeFacts DEF Inv, CodesInOrder
<1>4. CurrentCounted'
  BY <1>1 DEF Inv, CurrentCounted
<1>5. ReplacedWithinBudget'
  BY <1>1, <1>2, CodeFacts DEF Inv, ReplacedWithinBudget, GuessesOn
<1>6. QED BY <1>3, <1>4, <1>5

LEMMA SucceedBudget ==
    ASSUME Inv, NEW h \in Handshake, Succeed(h)
    PROVE  CodesInOrder' /\ CurrentCounted' /\ ReplacedWithinBudget'
<1>1. /\ attempt[h] # NoAttempt
      /\ attempt' = [attempt EXCEPT ![h] = NoAttempt]
      /\ UNCHANGED <<sinceRotation, code, failed>>
  BY DEF Succeed
<1>2. ASSUME NEW c \in Code
      PROVE  /\ InFlightOn(c)' \subseteq InFlightOn(c)
             /\ Cardinality(InFlightOn(c)') \in Int
             /\ Cardinality(InFlightOn(c)') <= Cardinality(InFlightOn(c))
  <2>1. /\ InFlightOn(c)' \subseteq InFlightOn(c)
        /\ Cardinality(InFlightOn(c)') =
             IF c = attempt[h].code THEN Cardinality(InFlightOn(c)) - 1
                                    ELSE Cardinality(InFlightOn(c))
    BY <1>1, CodeFacts, SettleRemoves
  <2>2. QED BY <2>1, CodeFacts
<1>3. CodesInOrder'
  BY <1>1, <1>2 DEF Inv, CodesInOrder
<1>4. CurrentCounted'
  BY <1>1 DEF Inv, CurrentCounted
<1>5. ReplacedWithinBudget'
  <2> SUFFICES ASSUME NEW c \in Code, c < code'
               PROVE  failed'[c] + Cardinality(InFlightOn(c)')
                        <= RotateAfter + MaxPending - 1
    BY DEF ReplacedWithinBudget, GuessesOn
  <2>1. QED
    BY <1>1, <1>2, CodeFacts DEF Inv, ReplacedWithinBudget, GuessesOn
<1>6. QED BY <1>3, <1>4, <1>5

(* A failure moves one guess from `in flight' to `failed': no code is met  *)
(* by more guesses than before.  If it replaces the code, the one replaced *)
(* still had at most MaxPending - 1 attempts under way beside it.          *)
LEMMA FailBudget ==
    ASSUME Inv, NEW h \in Handshake, Fail(h)
    PROVE  CodesInOrder' /\ CurrentCounted' /\ ReplacedWithinBudget'
<1> DEFINE d == attempt[h].code
<1>1. /\ attempt[h] # NoAttempt
      /\ attempt' = [attempt EXCEPT ![h] = NoAttempt]
      /\ failed' = [failed EXCEPT ![d] = @ + 1]
      /\ CountFailure
  BY DEF Fail
<1>2. d \in Code /\ d <= code
  <2>1. attempt[h] \in Attempt
    BY <1>1, CodeFacts, SettleRemoves
  <2>2. d \in Code
    BY <2>1 DEF Attempt
  <2>3. h \in InFlightOn(d)
    BY <1>1 DEF InFlightOn, InFlight
  <2>4. QED BY <2>2, <2>3, CodeFacts DEF Inv, CodesInOrder
<1>3. ASSUME NEW c \in Code
      PROVE  /\ failed'[c] = IF c = d THEN failed[c] + 1 ELSE failed[c]
             /\ InFlightOn(c)' \subseteq InFlightOn(c)
             /\ Cardinality(InFlightOn(c)')
                  = IF c = d THEN Cardinality(InFlightOn(c)) - 1
                             ELSE Cardinality(InFlightOn(c))
  BY <1>1, <1>2, CodeFacts, SettleRemoves DEF TypeOK
<1>4. ASSUME NEW c \in Code
      PROVE  GuessesOn(c)' = GuessesOn(c)
  BY <1>2, <1>3, <1>4, CodeFacts DEF GuessesOn
<1>5. /\ sinceRotation \in Nat /\ sinceRotation < RotateAfter
      /\ failed[code] <= sinceRotation
  BY CodeFacts DEF TypeOK, Inv, CurrentCounted
<1>6. CASE sinceRotation + 1 >= RotateAfter
  <2>1. sinceRotation' = 0 /\ code < MaxCode /\ code' = code + 1
    BY <1>1, <1>6 DEF CountFailure
  <2>2. /\ code + 1 \in Code
        /\ failed[code + 1] = 0 /\ InFlightOn(code + 1) = {}
        /\ GuessesOn(code) <= RotateAfter + MaxPending - 1
    BY <2>1, ReplaceCode
  <2>3. CodesInOrder'
    BY <1>2, <1>3, <2>1, CodeFacts DEF Inv, CodesInOrder
  <2>4. CurrentCounted'
    BY <1>2, <1>3, <2>1, <2>2, CodeFacts DEF CurrentCounted
  <2>5. ReplacedWithinBudget'
    BY <1>4, <2>1, <2>2, CodeFacts DEF Inv, ReplacedWithinBudget
  <2>6. QED BY <2>3, <2>4, <2>5
<1>7. CASE sinceRotation + 1 < RotateAfter
  <2>1. sinceRotation' = sinceRotation + 1 /\ code' = code
    BY <1>1, <1>5, <1>7 DEF CountFailure
  <2>2. CodesInOrder'
    BY <1>2, <1>3, <2>1, CodeFacts DEF Inv, CodesInOrder
  <2>3. CurrentCounted'
    BY <1>2, <1>3, <1>5, <1>7, <2>1, CodeFacts DEF CurrentCounted
  <2>4. ReplacedWithinBudget'
    BY <1>4, <2>1 DEF Inv, ReplacedWithinBudget
  <2>5. QED BY <2>2, <2>3, <2>4
<1>8. QED BY <1>5, <1>6, <1>7

LEMMA RegenerateBudget ==
    ASSUME Inv, Regenerate
    PROVE  CodesInOrder' /\ CurrentCounted' /\ ReplacedWithinBudget'
<1>1. /\ code < MaxCode /\ code' = code + 1 /\ sinceRotation' = 0
      /\ attempt' = attempt /\ failed' = failed
  BY DEF Regenerate
<1>2. /\ code + 1 \in Code
      /\ failed[code + 1] = 0 /\ InFlightOn(code + 1) = {}
      /\ GuessesOn(code) <= RotateAfter + MaxPending - 1
  BY <1>1, ReplaceCode
<1>3. \A c : InFlightOn(c)' = InFlightOn(c)
  BY <1>1 DEF InFlightOn, InFlight
<1>4. CodesInOrder'
  BY <1>1, <1>3, CodeFacts DEF Inv, CodesInOrder
<1>5. CurrentCounted'
  BY <1>1, <1>2 DEF CurrentCounted
<1>6. ReplacedWithinBudget'
  BY <1>1, <1>2, <1>3, CodeFacts DEF Inv, ReplacedWithinBudget, GuessesOn
<1>7. QED BY <1>4, <1>5, <1>6

LEMMA InvStep == Inv /\ [Next]_vars => Inv'
<1> SUFFICES ASSUME Inv, [Next]_vars
             PROVE  CodesInOrder' /\ CurrentCounted' /\ ReplacedWithinBudget'
  BY AccountingStep, CapStep DEF Inv
<1>1. ASSUME NEW h \in Handshake, NEW p \in Peer, Begin(h, p)
      PROVE  CodesInOrder' /\ CurrentCounted' /\ ReplacedWithinBudget'
  BY <1>1, BeginBudget
<1>2. ASSUME NEW h \in Handshake, Succeed(h)
      PROVE  CodesInOrder' /\ CurrentCounted' /\ ReplacedWithinBudget'
  BY <1>2, SucceedBudget
<1>3. ASSUME NEW h \in Handshake, Fail(h)
      PROVE  CodesInOrder' /\ CurrentCounted' /\ ReplacedWithinBudget'
  BY <1>3, FailBudget
<1>4. CASE Regenerate
  BY <1>4, RegenerateBudget
<1>5. CASE UNCHANGED <<sinceRotation, code, attempt, failed>>
  BY <1>5 DEF Inv, CodesInOrder, CurrentCounted, ReplacedWithinBudget,
              GuessesOn, InFlightOn, InFlight
<1>6. QED
  BY <1>1, <1>2, <1>3, <1>4, <1>5 DEF Next, Refuse, Tick, vars

LEMMA InvInit == Init => Inv
<1> SUFFICES ASSUME Init
             PROVE  Inv
  OBVIOUS
<1>1. InFlight = {} /\ \A x : InFlightFrom(x) = {} /\ InFlightOn(x) = {}
  BY DEF Init, InFlight, InFlightFrom, InFlightOn
<1>2. Accounting
  <2>1. TypeOK
    BY DEF Init, TypeOK, Unknown, PeerRecord, Code
  <2>2. CountersMatchAttempts /\ AttemptsAreTracked
    BY <1>1, FS_EmptySet
    DEF Init, CountersMatchAttempts, AttemptsAreTracked, Unknown
  <2>3. QED BY <2>1, <2>2 DEF Accounting
<1>3. CapRespected /\ CodesInOrder /\ CurrentCounted /\ ReplacedWithinBudget
  BY <1>1 DEF Init, CapRespected, CodesInOrder, CurrentCounted,
     ReplacedWithinBudget, Code
<1>4. QED BY <1>2, <1>3 DEF Inv

LEMMA Invariance == Spec => []Inv
BY InvInit, InvStep, PTL DEF Spec

(* Every reachable state is well typed, whatever the policy.               *)
THEOREM TypeCorrect == Spec => []TypeOK
<1>1. Inv => TypeOK
  BY DEF Inv, Accounting
<1>2. QED BY <1>1, Invariance, PTL

(* The numbers the caps are checked against are the attempts in flight, in *)
(* total and per peer: no sequence of overlapping handshakes, refusals,    *)
(* prunings and displacements leaks a slot (limiter.ts begin and settle).  *)
THEOREM SlotsNeverLeak == Spec => []CountersMatchAttempts
<1>1. Inv => CountersMatchAttempts
  BY DEF Inv, Accounting
<1>2. QED BY <1>1, Invariance, PTL

(* A record a handshake still points at is never dropped from the table.   *)
THEOREM RecordsOutliveAttempts == Spec => []AttemptsAreTracked
<1>1. Inv => AttemptsAreTracked
  BY DEF Inv, Accounting
<1>2. QED BY <1>1, Invariance, PTL

(* No code is exposed to more than RotateAfter + MaxPending - 1 guesses,   *)
(* failed or still in flight, however handshakes overlap with its          *)
(* replacement: the honest form of the limit stated at limiter.ts:23.      *)
THEOREM GuessesAreBounded == Spec => []GuessBudget
<1>1. ASSUME Inv, NEW c \in Code
      PROVE  GuessesOn(c) <= RotateAfter + MaxPending - 1
  <2>1. CASE c < code
    BY <1>1, <2>1 DEF Inv, ReplacedWithinBudget
  <2>2. CASE c = code
    BY <1>1, <2>2, CodeFacts DEF Inv, CurrentCounted, GuessesOn, TypeOK
  <2>3. CASE c > code
    <3>1. failed[c] = 0 /\ InFlightOn(c) = {}
      BY <1>1, <2>3 DEF Inv, CodesInOrder
    <3>2. QED BY <3>1, FS_EmptySet DEF GuessesOn
  <2>4. QED BY <1>1, <2>1, <2>2, <2>3, CodeFacts
<1>2. Inv => GuessBudget
  BY <1>1 DEF GuessBudget
<1>3. QED BY <1>2, Invariance, PTL
-----------------------------------------------------------------------------
(* The table.                                                              *)

FiniteTable == IsFiniteSet(tracked)

(* If every peer kept has an attempt in flight, there are at most as many  *)
(* of them as attempts: the map from attempts to peers is onto.            *)
LEMMA BusyTableIsSmall ==
    ASSUME Accounting, NEW p \in Peer, NEW kept \in Remaining(p),
           \A q \in kept : record[q].pending # 0
    PROVE  Cardinality(kept) <= pending
<1> DEFINE holder == [h \in InFlight |-> attempt[h].peer]
<1>1. \A h \in InFlight : holder[h] \in kept
  BY LookupKeeps
<1>2. ASSUME NEW q \in kept
      PROVE  \E h \in InFlight : holder[h] = q
  <2>1. q \in Peer
    BY LookupKeeps DEF Accounting, TypeOK
  <2>2. Cardinality(InFlightFrom(q)) # 0
    BY <2>1 DEF Accounting, CountersMatchAttempts
  <2>3. InFlightFrom(q) # {}
    BY <2>2, FS_EmptySet
  <2>4. QED BY <2>3 DEF InFlightFrom
<1>3. holder \in Surjection(InFlight, kept)
  BY <1>1, <1>2 DEF Surjection
<1>4. Cardinality(kept) <= Cardinality(InFlight)
  BY <1>3, InFlightFinite, FS_Surjection
<1>5. QED BY <1>4 DEF Accounting, CountersMatchAttempts

(* Looking a peer up leaves room for it.                                   *)
LEMMA LookupFits ==
    ASSUME Inv, FiniteTable, TableBounded,
           NEW p \in Peer, NEW kept \in Remaining(p)
    PROVE  IsFiniteSet(kept \cup {p}) /\ Cardinality(kept \cup {p}) <= MaxPeers
<1>1. Accounting /\ pending \in Nat /\ pending <= MaxPending
  BY DEF Inv, Accounting, TypeOK, CapRespected
<1>2. ASSUME NEW S \in SUBSET tracked
      PROVE  /\ IsFiniteSet(S) /\ Cardinality(S) \in Nat
             /\ Cardinality(S) <= MaxPeers
  BY FS_Subset, FS_CardinalityType DEF FiniteTable, TableBounded
<1>3. IsFiniteSet(kept) /\ Cardinality(kept) \in Nat
  BY <1>1, <1>2, LookupKeeps
<1>4. p \in kept \/ Cardinality(kept) < MaxPeers
  <2> DEFINE all  == tracked \ Forgotten
             idle == {q \in all : record[q].pending = 0}
  <2>1. CASE kept = all
    <3>1. CASE p \in all \/ Cardinality(all) < MaxPeers
      BY <2>1, <3>1
    <3>2. CASE idle = {}
      <4>1. \A q \in kept : record[q].pending # 0
        BY <2>1, <3>2
      <4>2. Cardinality(kept) <= pending
        BY <1>1, <4>1, BusyTableIsSmall
      <4>3. QED BY <1>1, <1>3, <4>2
    <3>3. CASE idle # {} /\ ~(p \in all \/ Cardinality(all) < MaxPeers)
      <4>1. \E q \in idle : kept = all \ {q}
        BY <3>3 DEF Remaining
      <4>2. QED BY <2>1, <4>1
    <3>4. QED BY <3>1, <3>2, <3>3
  <2>2. CASE kept # all
    <3>1. PICK q \in all : kept = all \ {q}
      BY <2>2 DEF Remaining
    <3>2. IsFiniteSet(all) /\ Cardinality(all) \in Nat /\ Cardinality(all) <= MaxPeers
      BY <1>2
    <3>3. Cardinality(kept) = Cardinality(all) - 1
      BY <3>1, <3>2, FS_RemoveElement
    <3>4. QED BY <1>3, <3>2, <3>3
  <2>3. QED BY <2>1, <2>2
<1>5. CASE p \in kept
  <2>1. kept \cup {p} = kept
    BY <1>5
  <2>2. QED BY <1>1, <1>2, <2>1, LookupKeeps
<1>6. CASE p \notin kept
  <2>1. /\ IsFiniteSet(kept \cup {p})
        /\ Cardinality(kept \cup {p}) = Cardinality(kept) + 1
    BY <1>3, <1>6, FS_AddElement
  <2>2. MaxPeers \in Nat /\ Cardinality(kept) < MaxPeers
    BY <1>4, <1>6
  <2>3. QED BY <1>3, <2>1, <2>2
<1>7. QED BY <1>5, <1>6

LEMMA TableStep ==
    Inv /\ FiniteTable /\ TableBounded /\ [Next]_vars
      => FiniteTable' /\ TableBounded'
<1> SUFFICES ASSUME Inv, FiniteTable, TableBounded, [Next]_vars
             PROVE  FiniteTable' /\ TableBounded'
  OBVIOUS
<1>1. ASSUME NEW p \in Peer, NEW kept \in Remaining(p), tracked' = kept \cup {p}
      PROVE  FiniteTable' /\ TableBounded'
  BY <1>1, LookupFits DEF FiniteTable, TableBounded
<1>2. ASSUME NEW h \in Handshake, NEW p \in Peer, Begin(h, p)
      PROVE  FiniteTable' /\ TableBounded'
  BY <1>1, <1>2 DEF Begin
<1>3. ASSUME NEW p \in Peer, Refuse(p)
      PROVE  FiniteTable' /\ TableBounded'
  BY <1>1, <1>3 DEF Refuse
<1>4. CASE UNCHANGED tracked
  BY <1>4 DEF FiniteTable, TableBounded
<1>5. QED
  BY <1>2, <1>3, <1>4 DEF Next, Succeed, Fail, Regenerate, Tick, vars

(* The table of peers never outgrows MaxPeers, although it may be full of  *)
(* peers none of which record() is allowed to drop (limiter.ts record).    *)
THEOREM TableStaysBounded == Spec => []TableBounded
<1>1. Init => FiniteTable /\ TableBounded
  BY FS_EmptySet DEF Init, FiniteTable, TableBounded
<1>2. QED
  BY <1>1, TableStep, Invariance, PTL DEF Spec

(* Looking q up leaves a lockout that p serves alone, or the table is full *)
(* and p makes room.                                                       *)
LEMMA LookupKeepsLockouts ==
    ASSUME TypeOK, FiniteTable, NEW q \in Peer, NEW kept \in Remaining(q), tracked' = kept \cup {q},
           NEW p \in tracked, now < record[p].lockedUntil,
           p \in kept => record'[p].lockedUntil = Touched(q, kept)[p].lockedUntil
    PROVE  \/ p \in tracked' /\ record[p].lockedUntil <= record'[p].lockedUntil
           \/ p \notin tracked' /\ Cardinality(tracked \ Forgotten) >= MaxPeers
<1>1. /\ p \in Peer /\ record[p] \in PeerRecord /\ now \in Nat /\ MaxPeers \in Nat
  BY DEF TypeOK
<1>2. record[p].lockedUntil \in Nat
  BY <1>1 DEF PeerRecord
<1> DEFINE all == tracked \ Forgotten
<1>3. p \in all
  BY <1>1, <1>2 DEF Forgotten
<1>4. Cardinality(all) \in Nat
  <2>1. IsFiniteSet(all)
    BY FS_Subset DEF FiniteTable
  <2>2. QED BY <2>1, FS_CardinalityType
<1>5. CASE p \in kept
  <2>1. Touched(q, kept)[p].lockedUntil = record[p].lockedUntil
    <3>1. CASE p = q
      <4>1. Touched(q, kept)[p] = [record[p] EXCEPT !.seen = now]
        BY <1>1, <1>5, <3>1 DEF Touched
      <4>2. QED BY <1>1, <4>1 DEF PeerRecord
    <3>2. CASE p # q
      BY <1>1, <1>5, <3>2 DEF Touched
    <3>3. QED BY <3>1, <3>2
  <2>2. QED BY <1>2, <1>5, <2>1
<1>6. CASE p \notin kept
  <2>1. q \notin all /\ ~(Cardinality(all) < MaxPeers)
    BY <1>3, <1>6 DEF Remaining
  <2>2. p \notin tracked'
    BY <1>3, <1>6, <2>1
  <2>3. QED BY <1>1, <1>4, <2>1, <2>2
<1>7. QED BY <1>5, <1>6

LEMMA LockoutStep ==
    ASSUME Inv, FiniteTable, [Next]_vars, NEW p \in tracked, now < record[p].lockedUntil
    PROVE  \/ p \in tracked' /\ record[p].lockedUntil <= record'[p].lockedUntil
           \/ p \notin tracked' /\ Cardinality(tracked \ Forgotten) >= MaxPeers
<1>1. /\ TypeOK /\ p \in Peer /\ record \in [Peer -> PeerRecord] /\ now \in Nat
      /\ record[p] \in PeerRecord /\ record[p].lockedUntil \in Nat
  <2>1. TypeOK /\ p \in Peer /\ record \in [Peer -> PeerRecord] /\ now \in Nat
    BY DEF Inv, Accounting, TypeOK
  <2>2. record[p] \in PeerRecord
    BY <2>1
  <2>3. QED BY <2>1, <2>2 DEF PeerRecord
<1>2. ASSUME NEW h \in Handshake, NEW q \in Peer, Begin(h, q)
      PROVE  \/ p \in tracked' /\ record[p].lockedUntil <= record'[p].lockedUntil
             \/ p \notin tracked' /\ Cardinality(tracked \ Forgotten) >= MaxPeers
  <2>1. PICK kept \in Remaining(q) :
          /\ tracked' = kept \cup {q}
          /\ record' = [Touched(q, kept) EXCEPT ![q].pending = @ + 1]
    BY <1>2 DEF Begin
  <2>2. record'[p].lockedUntil = Touched(q, kept)[p].lockedUntil
    BY <1>1, <2>1 DEF Touched, Unknown, PeerRecord
  <2>3. QED BY <1>1, <2>1, <2>2, LookupKeepsLockouts
<1>3. ASSUME NEW q \in Peer, Refuse(q)
      PROVE  \/ p \in tracked' /\ record[p].lockedUntil <= record'[p].lockedUntil
             \/ p \notin tracked' /\ Cardinality(tracked \ Forgotten) >= MaxPeers
  <2>1. PICK kept \in Remaining(q) : tracked' = kept \cup {q} /\ record' = Touched(q, kept)
    BY <1>3 DEF Refuse
  <2>2. QED BY <1>1, <2>1, LookupKeepsLockouts
<1>4. ASSUME NEW h \in Handshake, Succeed(h) \/ Fail(h)
      PROVE  p \in tracked' /\ record[p].lockedUntil <= record'[p].lockedUntil
  <2>1. PICK s \in {Success(record[attempt[h].peer]), Failure(record[attempt[h].peer])} :
          record' = [record EXCEPT ![attempt[h].peer] = s] /\ tracked' = tracked
    BY <1>4 DEF Succeed, Fail
  <2>2. CASE attempt[h].peer = p
    <3>1. record'[p] = s /\ s \in {Success(record[p]), Failure(record[p])}
      BY <1>1, <2>1, <2>2
    <3>2. Success(record[p]).lockedUntil = record[p].lockedUntil
      BY DEF Success
    <3>3. Failure(record[p]).lockedUntil >= record[p].lockedUntil
      <4>1. Failure(record[p]).lockedUntil
              \in {record[p].lockedUntil,
                   Max2(record[p].lockedUntil, now + LockoutAfter(record[p].consecutive + 1))}
        BY DEF Failure
      <4>2. record[p].consecutive + 1 >= FreeFailures
              => now + LockoutAfter(record[p].consecutive + 1) \in Nat
        <5>1. record[p].consecutive + 1 \in Nat
          BY <1>1 DEF PeerRecord
        <5>2. QED BY <1>1, <5>1, LockoutType
      <4>3. CASE record[p].consecutive + 1 >= FreeFailures
        BY <1>1, <4>1, <4>2, <4>3 DEF Max2
      <4>4. CASE ~(record[p].consecutive + 1 >= FreeFailures)
        BY <1>1, <4>4 DEF Failure
      <4>5. QED BY <4>3, <4>4
    <3>4. QED BY <1>1, <2>1, <3>1, <3>2, <3>3
  <2>3. CASE attempt[h].peer # p
    BY <1>1, <2>1, <2>3
  <2>4. QED BY <2>2, <2>3
<1>5. CASE Regenerate \/ Tick \/ UNCHANGED vars
  BY <1>1, <1>5 DEF Regenerate, Tick, vars
<1>6. QED
  BY <1>2, <1>3, <1>4, <1>5 DEF Next

(* Nothing but a full table relieves a peer of a lockout it serves: not    *)
(* the success of an older attempt, a rotation, a new code or prune()      *)
(* (limiter.ts settle, resetForNewCode, prune and record).                 *)
THEOREM LockoutsAreServed == Spec => LockoutsStand
<1>1. Init => FiniteTable /\ TableBounded
  BY FS_EmptySet DEF Init, FiniteTable, TableBounded
<1>2. ASSUME Inv, FiniteTable, [Next]_vars
      PROVE  [\A p \in tracked :
                now < record[p].lockedUntil =>
                  \/ p \in tracked' /\ record[p].lockedUntil <= record'[p].lockedUntil
                  \/ p \notin tracked' /\ Cardinality(tracked \ Forgotten) >= MaxPeers]_vars
  BY <1>2, LockoutStep
<1>3. QED
  BY <1>1, <1>2, TableStep, Invariance, PTL DEF Spec, LockoutsStand

-----------------------------------------------------------------------------
(* All of them together.                                                   *)

LimiterInv == Inv /\ FiniteTable /\ TableBounded
SharedInv == DeviceInv /\ ClipInv /\ AdmissionInv /\ LimiterInv

LEMMA SharingBegins == SharingInit => SharedInv
<1>1. Init => FiniteTable /\ TableBounded
    BY FS_EmptySet DEF Init, FiniteTable, TableBounded
<1> QED
    BY <1>1, DeviceBegins, ClipBegins, AdmissionBegins, InvInit DEF SharingInit, SharedInv, LimiterInv

(* A step is of one of the parts and leaves the others alone.              *)
LEMMA SharingKeeps == SharedInv /\ [SharingNext]_sharingVars => SharedInv'
<1> SUFFICES ASSUME SharedInv, [SharingNext]_sharingVars PROVE SharedInv'
    OBVIOUS
<1>1. /\ [DeviceNext]_deviceVars /\ [ClipboardNext]_clipboardVars
      /\ [AdmissionNext]_admissionVars /\ [Next]_vars
    BY DEF SharingNext, sharingVars, Pressing, Copying, Greeting, Trying, Guessing, Relaying, limiterVars
<1>2. DeviceInv' /\ ClipInv' /\ AdmissionInv'
    BY <1>1, DeviceKeeps, ClipKeeps, AdmissionKeeps DEF SharedInv
<1>3. LimiterInv'
    BY <1>1, InvStep, TableStep DEF SharedInv, LimiterInv
<1> QED
    BY <1>2, <1>3 DEF SharedInv

LEMMA SharedInvariant == SharingSpec => []SharedInv
<1> QED
    BY SharingBegins, SharingKeeps, PTL DEF SharingSpec

(* However viewers press, let go, leave and are cut off, and however their *)
(* texts cross: no key is stuck and no keycode is borrowed by nobody, what *)
(* is typed is what was pressed, and no clipboard is sent back to where it *)
(* came from - unless the system refused input, a key was let go as another*)
(* character, every keycode was in use or an application read too late, or *)
(* reads and writes of a clipboard overlapped (host.ts, x11.ts, cgevent.ts,*)
(* hopdesk.js).                                                            *)
THEOREM NobodySpoilsForOthers == SharingSpec => []SharingHolds
<1>1. SharedInv => SharingHolds
    BY DeviceShows DEF SharedInv, ClipInv, SharingHolds, NoEcho
<1> QED
    BY <1>1, SharedInvariant, PTL

(* What the tables at the door forget is what they have to: a hello is let *)
(* through again only when the table was full, tries in one length of a    *)
(* window stay within two of it, and the limiter's table keeps to its size *)
(* and to the peers it waits for (replay.ts check, limiter.ts allow and    *)
(* record).                                                                *)
THEOREM TablesForgetInOrder == SharingSpec => []TablesHold
<1>1. SharedInv => TablesHold
    BY AdmissionShows DEF SharedInv, LimiterInv, Inv, Accounting, TablesHold, TableKept
<1> QED
    BY <1>1, SharedInvariant, PTL
=============================================================================
