------------------------------ MODULE VncScreen ------------------------------
(* The window that shows a VNC session: main.ts publishes states and frames *)
(* to the renderer (app.js), which paints them in batches, acknowledges     *)
(* each, and sends back the keys its tracker (keymap.ts) let through.  No   *)
(* message from the window says which session it is meant for.              *)
EXTENDS Naturals, Sequences, SequencesExt

CONSTANTS
    Screen,         \* saved computers with a VNC session
    Letter,         \* keys whose symbol depends on Shift
    NoScreen,
    MaxOnTheWay,    \* bound: messages in either direction
    MaxShown        \* bound: sessions, publishes and frames each

ASSUME ScreenAssumption ==
    NoScreen \notin Screen /\ IsFiniteSet(Letter) /\ {MaxOnTheWay, MaxShown} \subseteq Nat

VARIABLES
    serves, connected,  \* main: whose session is active; its client is ready
    awaiting,           \* awaitingRender: a frame has not been acknowledged
    downThere,          \* symbols that are down on the server
    toWindow, toMain,   \* messages on their way
    screenOf,           \* screen.connectionId
    canvas,             \* whose picture is on the canvas
    queue, scheduled,   \* frames to paint, and a paint is due
    fingers,            \* keys that are down here
    held,               \* KeyTracker: the symbol each key was pressed as
    focused, composing, \* the text area has the focus; an input method has the keys
    overtaken,          \* history: symbols whose key repeated as another one
    swallowed,          \* history: tracked keys released into the input method
    spent               \* bounds: sessions and publishes, and frames

main == <<serves, connected, awaiting, downThere>>
paper == <<screenOf, canvas, queue, scheduled>>
keyboard == <<fingers, held, focused, composing, overtaken, swallowed>>
vncScreenVars == <<main, toWindow, toMain, paper, keyboard, spent>>

ScreenKey == Letter \cup {"Shift"}
(* keysymFor(): what a key means now.                                      *)
Symbol(k) == <<k, k # "Shift" /\ "Shift" \in fingers>>
NoSymbol == <<>>
Down == {held[k] : k \in {i \in ScreenKey : held[i] # NoSymbol}}

TypeKey(symbol, down) == [kind |-> "key", symbol |-> symbol, down |-> down]
Rendered == [kind |-> "rendered"]
Tell(kind, of) == Append(toWindow, [kind |-> kind, of |-> of])
Room(s, n) == Len(s) + n <= MaxOnTheWay
Spend(what) == spent[what] < MaxShown /\ spent' = [spent EXCEPT ![what] = @ + 1]
-----------------------------------------------------------------------------
VncScreenInit ==
    /\ serves = NoScreen /\ connected = FALSE /\ awaiting = FALSE /\ downThere = {}
    /\ toWindow = <<>> /\ toMain = <<>>
    /\ screenOf = NoScreen /\ canvas = NoScreen /\ queue = <<>> /\ scheduled = FALSE
    /\ fingers = {} /\ held = [k \in ScreenKey |-> NoSymbol]
    /\ focused = FALSE /\ composing = FALSE /\ overtaken = {} /\ swallowed = {}
    /\ spent = [sessions |-> 0, frames |-> 0]

(* A session starts, and publishes its states: the last one is over first. *)
StartSession(c) ==
    /\ Spend("sessions") /\ Room(toWindow, 2)
    /\ serves' = c /\ connected' = TRUE /\ awaiting' = FALSE /\ downThere' = {}
    /\ toWindow' = (IF serves = NoScreen THEN toWindow ELSE Tell("over", serves))
                   \o <<[kind |-> "shown", of |-> c]>>
    /\ UNCHANGED <<toMain, paper, keyboard>>
(* It is stopped, or fails.                                                *)
EndSession ==
    /\ serves # NoScreen /\ Room(toWindow, 1) /\ toWindow' = Tell("over", serves)
    /\ serves' = NoScreen /\ connected' = FALSE /\ awaiting' = FALSE /\ downThere' = {}
    /\ UNCHANGED <<toMain, paper, keyboard, spent>>
(* The connection drops or is back; or the size, the screens or the        *)
(* figures change: published as a state that is shown.                     *)
Publishes(up) ==
    /\ serves # NoScreen /\ Spend("sessions") /\ Room(toWindow, 1) /\ toWindow' = Tell("shown", serves)
    /\ connected' = up /\ awaiting' = (awaiting /\ up /\ connected)
    /\ downThere' = IF up /\ connected THEN downThere ELSE {}
    /\ UNCHANGED <<serves, toMain, paper, keyboard>>

(* onUpdateEnd(): the next update is asked for when this one is painted,   *)
(* or when a timer stops waiting for that.                                 *)
Frame ==
    /\ connected /\ ~awaiting /\ Spend("frames") /\ Room(toWindow, 1)
    /\ toWindow' = Tell("frame", serves) /\ awaiting' = TRUE
    /\ UNCHANGED <<serves, connected, downThere, toMain, paper, keyboard>>
RenderTimer == awaiting /\ awaiting' = FALSE
    /\ UNCHANGED <<serves, connected, downThere, toWindow, toMain, paper, keyboard, spent>>

(* What the window sent goes to the session there is now.                  *)
DownAfter(down, message) ==
    CASE message.kind = "rendered" -> down
      [] message.kind = "tap" -> down \ {message.symbol}
      [] message.kind = "key" -> IF message.down THEN down \cup {message.symbol} ELSE down \ {message.symbol}
MainHears ==
    /\ toMain # <<>> /\ toMain' = Tail(toMain)
    /\ awaiting' = (awaiting /\ Head(toMain).kind # "rendered")
    /\ downThere' = IF connected THEN DownAfter(downThere, Head(toMain)) ELSE downThere
    /\ UNCHANGED <<serves, connected, toWindow, paper, keyboard, spent>>
-----------------------------------------------------------------------------
Says(messages) == Room(toMain, Len(messages)) /\ toMain' = toMain \o messages

(* releaseAll() of the tracker, and each is sent as released.              *)
ReleaseHeld ==
    /\ Says(SetToSeq({TypeKey(s, FALSE) : s \in Down}))
    /\ held' = [k \in ScreenKey |-> NoSymbol] /\ swallowed' = {} /\ overtaken' = overtaken \ Down

(* Mutants: frames of the last screen stay queued; the queue is emptied    *)
(* whenever a state is shown.                                              *)
ResetKeepsQueue(c) ==
    /\ screenOf' = c /\ canvas' = (IF c = screenOf THEN canvas ELSE NoScreen)
    /\ UNCHANGED <<queue, scheduled>>
ResetAlways(c) ==
    /\ screenOf' = c /\ queue' = <<>> /\ UNCHANGED scheduled
    /\ canvas' = IF c = screenOf THEN canvas ELSE NoScreen
(* resetScreen(): another computer's screen starts black and empty.        *)
ResetScreen(c) ==
    /\ screenOf' = c /\ UNCHANGED scheduled
    /\ IF c = screenOf THEN UNCHANGED <<canvas, queue>> ELSE canvas' = NoScreen /\ queue' = <<>>

(* onSession() and queueFrame().                                           *)
HearsShown ==
    /\ Head(toWindow).kind = "shown" /\ ResetScreen(Head(toWindow).of)
    /\ UNCHANGED <<toMain, keyboard>>
HearsOver ==
    /\ Head(toWindow).kind = "over"
    /\ IF Head(toWindow).of = screenOf
       THEN screenOf' = NoScreen /\ ReleaseHeld
       ELSE UNCHANGED <<screenOf, toMain, held, swallowed, overtaken>>
    /\ UNCHANGED <<canvas, queue, scheduled, fingers, focused, composing>>
HearsFrame ==
    /\ Head(toWindow).kind = "frame"
    /\ IF Head(toWindow).of = screenOf
       THEN queue' = Append(queue, screenOf) /\ scheduled' = TRUE /\ UNCHANGED toMain
       ELSE Says(<<Rendered>>) /\ UNCHANGED <<queue, scheduled>>
    /\ UNCHANGED <<screenOf, canvas, keyboard>>
WindowHears ==
    /\ toWindow # <<>> /\ toWindow' = Tail(toWindow) /\ (HearsShown \/ HearsOver \/ HearsFrame)
    /\ UNCHANGED <<main, spent>>

(* paintQueued(): every frame is painted and acknowledged.                 *)
Paints ==
    /\ scheduled /\ scheduled' = FALSE /\ queue' = <<>>
    /\ Says([i \in 1..Len(queue) |-> Rendered])
    /\ canvas' = IF queue = <<>> THEN canvas ELSE Last(queue)
    /\ UNCHANGED <<main, toWindow, screenOf, keyboard, spent>>
-----------------------------------------------------------------------------
(* Keys: what the window does about each is the tracker's to say.          *)
Keyed == UNCHANGED <<main, toWindow, paper, spent>>

(* down(): a press, or a repeat of one that is held.                       *)
KeyDown(k) ==
    /\ focused /\ fingers' = fingers \cup {k} /\ Keyed
    /\ IF composing THEN UNCHANGED <<toMain, held, overtaken>>
       ELSE LET now == <<k, k # "Shift" /\ "Shift" \in fingers'>> IN
            /\ held' = [held EXCEPT ![k] = now] /\ Says(<<TypeKey(now, TRUE)>>)
            /\ overtaken' = (IF held[k] \in {NoSymbol, now} THEN overtaken ELSE overtaken \cup {held[k]}) \ {now}
    /\ swallowed' = IF composing THEN swallowed ELSE swallowed \ {k}
    /\ UNCHANGED <<focused, composing>>
(* HopDesk's own shortcut is never sent, nor tracked.                      *)
Shortcut(k) == focused /\ k \notin fingers /\ fingers' = fingers \cup {k} /\ Keyed
    /\ UNCHANGED <<toMain, held, focused, composing, overtaken, swallowed>>

(* Mutants: a release is looked up by what the key means now, or sent as   *)
(* that.                                                                   *)
TrackedBySymbol(k) == held[k] = Symbol(k)
SentByMeaning(k) == Symbol(k)
(* up(): the symbol it was pressed as, if its press was sent.              *)
Tracked(k) == held[k] # NoSymbol
Sent(k) == held[k]
KeyUp(k) ==
    /\ focused /\ k \in fingers /\ fingers' = fingers \ {k} /\ Keyed
    /\ IF ~composing /\ Tracked(k)
       THEN /\ held' = [held EXCEPT ![k] = NoSymbol] /\ Says(<<TypeKey(Sent(k), FALSE)>>)
            /\ overtaken' = overtaken \ {Sent(k)}
       ELSE UNCHANGED <<toMain, held, overtaken>>
    /\ swallowed' = IF composing /\ held[k] # NoSymbol THEN swallowed \cup {k} ELSE swallowed \ {k}
    /\ UNCHANGED <<focused, composing>>
(* The input method takes the keys, and may commit a text.                 *)
ComposeBegins == focused /\ ~composing /\ composing' = TRUE /\ Keyed
    /\ UNCHANGED <<toMain, fingers, held, focused, overtaken, swallowed>>
ComposeEnds(text) ==
    /\ composing /\ composing' = FALSE /\ Keyed
    /\ Says(text) /\ overtaken' = overtaken \ {m.symbol : m \in {text[i] : i \in DOMAIN text}}
    /\ UNCHANGED <<fingers, held, focused, swallowed>>

(* The focus comes and goes; a button sends its keys and gives it back.    *)
Focus(combo) ==
    /\ ~focused /\ focused' = TRUE /\ \E f \in SUBSET fingers : fingers' = f
    /\ Says(combo) /\ Keyed
    /\ overtaken' = overtaken \ {m.symbol : m \in {combo[i] : i \in DOMAIN combo}}
    /\ UNCHANGED <<held, composing, swallowed>>
Blur ==
    /\ focused /\ focused' = FALSE /\ composing' = FALSE /\ ReleaseHeld /\ Keyed /\ UNCHANGED fingers

Typed == {<<>>} \cup {<<[kind |-> "tap", symbol |-> <<k, FALSE>>]>> : k \in ScreenKey}
VncScreenNext ==
    \/ EndSession \/ Frame \/ RenderTimer \/ MainHears \/ WindowHears \/ Paints
    \/ ComposeBegins \/ Blur
    \/ \E c \in Screen : StartSession(c)
    \/ \E up \in BOOLEAN : Publishes(up)
    \/ \E k \in ScreenKey : KeyDown(k) \/ KeyUp(k)
    \/ \E k \in Letter : Shortcut(k)
    \/ \E text \in Typed : ComposeEnds(text) \/ Focus(text)
-----------------------------------------------------------------------------
(* Another computer's picture never shows while this one connects          *)
(* (app.js:463): a picture belongs to the screen that is shown.            *)
PictureIsTheirs == screenOf # NoScreen => canvas \in {screenOf, NoScreen}

(* A session that waits for its frame to be painted is never left waiting  *)
(* for the timer alone: the frame is on its way, or due to be painted, or  *)
(* its acknowledgement is (session.ts:267).                                *)
FlowNeverStalls ==
    awaiting => \/ \E i \in DOMAIN toWindow : toWindow[i].kind = "frame"
                \/ queue # <<>> /\ scheduled
                \/ \E i \in DOMAIN toMain : toMain[i].kind = "rendered"

(* What will be down on the server once it has heard everything: what is   *)
(* down or will be pressed, and is not let go of later.                    *)
Presses(message, s) == message.kind = "key" /\ message.down /\ message.symbol = s
LetsGo(message, s) == message.kind # "rendered" /\ message.symbol = s /\ ~Presses(message, s)
StaysDown(s, down, messages) ==
    \E i \in 0..Len(messages) :
        /\ IF i = 0 THEN s \in down ELSE Presses(messages[i], s)
        /\ \A j \in (i + 1)..Len(messages) : ~LetsGo(messages[j], s)
PressedSoon == {s \in ScreenKey \X BOOLEAN : StaysDown(s, downThere, toMain)}

(* Whatever is down on the server the tracker knows and will release, and  *)
(* nothing is down once the focus is elsewhere (keymap.ts:51-56), but for  *)
(* a symbol whose key repeated as another one.                             *)
KeysAreTracked == PressedSoon \subseteq overtaken \cup (IF focused THEN Down ELSE {})

(* A key that is up here is not kept down there, unless its release went   *)
(* to the input method.                                                    *)
UpIsUp == \A k \in ScreenKey : focused /\ held[k] # NoSymbol => k \in fingers \cup swallowed

(* "Remembers what each held key sent, so its release sends the same       *)
(* keysym" (keymap.ts:50).  It does not hold: a key that repeats with      *)
(* another Shift state is remembered as the second one only.               *)
ReleaseIsTheSame == PressedSoon \subseteq Down

(* The window shows the computer it says, goes on asking for frames, and   *)
(* leaves no key down there that is not down here.                         *)
WindowHolds == PictureIsTheirs /\ FlowNeverStalls /\ KeysAreTracked /\ UpIsUp
=============================================================================
