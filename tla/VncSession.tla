----------------------------- MODULE VncSession -----------------------------
(***************************************************************************)
(* A VNC session, packages/core/src/session.ts: the loop that keeps one    *)
(* update request in flight, painting at the window's pace, and the retry  *)
(* of connections that drop.  The client is RfbClient seen through its     *)
(* events, with endUpdate() and requestUpdate() of rfb.ts; the server and  *)
(* the network are the environment.                                        *)
(*                                                                         *)
(* The picture is two areas, the corner a latency probe asks for and the   *)
(* rest of the screen; `fresh' are those the viewer shows as they are.     *)
(***************************************************************************)
EXTENDS Naturals, SequencesExt

CONSTANTS
    MaxAttempts, InitialAttempts,   \* of the reconnect policy
    MaxChanges,                     \* bound: changes and resizes of the screen
    MaxRepaints                     \* bound: repaints asked from outside the loop

ASSUME VncAssumption ==
    {MaxAttempts, InitialAttempts, MaxChanges, MaxRepaints} \subseteq Nat

VARIABLES
    status, attempt, everConnected, enabled, stopping,
    timer,          \* retries scheduled; stop() cancels the last
    client,         \* "none", "handshake" or "ready": this.client
    continuation,   \* of `await client.connect()': "none", "resolved" or "rejected"
    probeDue,       \* LATENCY_INTERVAL_MS since the last probe: "no", "due", or "late"
                    \* if they passed before that probe was done with
    needFullUpdate, flowControl, awaitingRender,
    renderTimer,    \* the timer awaitingRender was last given, 0 for none
    renderTimers,   \* timers that run
    lastRequest,    \* the client's
    asked,          \* requests the server has not answered
    answers,        \* its answers on their way
    damage,         \* areas the server has marked as changed
    resizing,       \* its next answer tells of a new size
    fresh,
    changes, repaints   \* counters for the bounds

asking == <<lastRequest, asked, probeDue>>
paint == <<awaitingRender, renderTimer, renderTimers>>
loop == <<needFullUpdate, paint>>
server == <<answers, damage, resizing, fresh>>
link == <<asking, server>>
control == <<status, attempt, everConnected, stopping, timer, client, continuation>>
bounds == <<changes, repaints>>
vncVars == <<control, enabled, flowControl, loop, link, bounds>>

Areas == {"corner", "rest"}
None == [incremental |-> TRUE, area |-> {}]
Request(inc, area) == [incremental |-> inc, area |-> area]
(* What an update holds: pixels of some areas, `good' as long as the area  *)
(* has not changed since; a new size; a layout.                            *)
Answer(pixels, size, layout) ==
    [pixels |-> pixels, good |-> pixels, size |-> size, layout |-> layout]

(* Microtasks run before anything else does.                               *)
Quiet == continuation = "none"
InFlight == Len(asked) + Len(answers)
-----------------------------------------------------------------------------
VncInit ==
    /\ status = "idle" /\ attempt = 0 /\ everConnected = FALSE
    /\ enabled \in BOOLEAN /\ flowControl \in BOOLEAN
    /\ stopping = FALSE /\ timer = 0 /\ client = "none" /\ continuation = "none"
    /\ needFullUpdate = TRUE /\ awaitingRender = FALSE
    /\ renderTimer = 0 /\ renderTimers = {}
    /\ probeDue = "due" /\ lastRequest = None /\ asked = <<>> /\ answers = <<>>
    /\ damage = {} /\ resizing = FALSE /\ fresh = {}
    /\ changes = 0 /\ repaints = 0

NoLink ==
    /\ lastRequest' = None /\ asked' = <<>> /\ answers' = <<>>
    /\ damage' = {} /\ resizing' = FALSE /\ fresh' = {} /\ UNCHANGED probeDue

AttemptUncounted ==
    /\ attempt' = 1 /\ status' = "reconnecting" /\ client' = "handshake"
    /\ UNCHANGED <<everConnected, enabled, stopping, continuation, flowControl, loop, link,
                   bounds>>

(* attempt(), up to the await.                                             *)
Attempt ==
    /\ attempt' = attempt + 1
    /\ status' = IF attempt = 0 THEN "connecting" ELSE "reconnecting"
    /\ client' = "handshake"
    /\ UNCHANGED <<everConnected, enabled, stopping, continuation, flowControl, loop, link,
                   bounds>>

Start == status = "idle" /\ ~ stopping /\ Attempt /\ UNCHANGED timer
Retry == timer > 0 /\ Quiet /\ timer' = timer - 1 /\ Attempt

StopLoop ==
    /\ renderTimers' = renderTimers \ {renderTimer}
    /\ renderTimer' = 0 /\ awaitingRender' = FALSE
    /\ UNCHANGED needFullUpdate

(* onDropped(); `terminal' errors are those retrying does not cure.        *)
OneTooMany == MaxAttempts + 1
Limit == IF everConnected THEN MaxAttempts ELSE InitialAttempts
Dropped(terminal) ==
    /\ StopLoop /\ NoLink /\ client' = "none"
    /\ IF stopping THEN status' = "disconnected" /\ UNCHANGED timer
       ELSE IF terminal \/ ~ enabled \/ attempt >= Limit
       THEN status' = "failed" /\ UNCHANGED timer
       ELSE status' = "reconnecting" /\ timer' = timer + 1
    /\ UNCHANGED <<attempt, everConnected, enabled, stopping, flowControl, bounds>>

(* The client fails, or its server hangs up or says nothing for too long.  *)
HandshakeFails ==
    /\ client = "handshake" /\ Quiet /\ continuation' = "rejected"
    /\ \E terminal \in BOOLEAN : Dropped(terminal)

Connected ==
    /\ client = "handshake" /\ Quiet
    /\ client' = "ready" /\ continuation' = "resolved" /\ fresh' = {}
    /\ UNCHANGED <<status, attempt, everConnected, stopping, timer, enabled, flowControl, loop,
                   asking, answers, damage, resizing, bounds>>

(* The chunk that completes the handshake goes on with data the client     *)
(* does not accept: the error comes before the continuation runs.          *)
ConnectedThenFails ==
    /\ client = "handshake" /\ Quiet /\ continuation' = "resolved"
    /\ Dropped(FALSE)

(* requestUpdate() of the client: the server sees it at once.              *)
AsksFor(r) == lastRequest' = r /\ asked' = Append(asked, r)

ProbesForEver(full) ==
    IF client # "ready" \/ stopping
    THEN needFullUpdate' = full /\ UNCHANGED asking
    ELSE /\ needFullUpdate' = FALSE /\ UNCHANGED probeDue
         /\ AsksFor(IF full THEN Request(FALSE, Areas)
                 ELSE IF probeDue # "no" THEN Request(FALSE, {"corner"})
                 ELSE Request(TRUE, Areas))

(* requestNext(): all of the screen, the probe when it is due, or whatever *)
(* changed.                                                                *)
RequestNext(full) ==
    IF client # "ready" \/ stopping
    THEN needFullUpdate' = full /\ UNCHANGED asking
    ELSE /\ needFullUpdate' = FALSE /\ probeDue' = (IF full THEN probeDue ELSE "no")
         /\ AsksFor(IF full THEN Request(FALSE, Areas)
                 ELSE IF probeDue # "no" THEN Request(FALSE, {"corner"})
                 ELSE Request(TRUE, Areas))

Resolved ==
    /\ continuation = "resolved" /\ continuation' = "none"
    /\ attempt' = 0 /\ everConnected' = TRUE /\ status' = "connected"
    /\ awaitingRender' = FALSE
    /\ RequestNext(TRUE)
    /\ UNCHANGED <<stopping, timer, client, enabled, flowControl, renderTimer, renderTimers,
                   server, bounds>>

HandledAgain == continuation = "rejected" /\ continuation' = "none" /\ Dropped(FALSE)

(* The events of the client that failed got here first.                    *)
Rejected ==
    /\ continuation = "rejected" /\ continuation' = "none"
    /\ UNCHANGED <<status, attempt, everConnected, stopping, timer, client, enabled,
                   flowControl, loop, link, bounds>>

ClientFails == client = "ready" /\ Quiet /\ Dropped(FALSE) /\ UNCHANGED continuation

(* stop(), by the person or because another session begins.                *)
Stop ==
    /\ Quiet /\ ~ stopping
    /\ stopping' = TRUE /\ timer' = IF timer > 0 THEN timer - 1 ELSE 0
    /\ StopLoop /\ NoLink /\ client' = "none"
    /\ continuation' = IF client = "handshake" THEN "rejected" ELSE "none"
    /\ status' = IF status \in {"idle", "failed"} THEN status ELSE "disconnected"
    /\ UNCHANGED <<attempt, everConnected, enabled, flowControl, bounds>>
-----------------------------------------------------------------------------
(* onUpdateEnd(), for an update with some pixels or with none.             *)
NewTimer == CHOOSE i \in 1..(MaxRepaints + 2) : i \notin renderTimers
WaitsUnwatched(pixels, full) ==
    IF pixels # {} THEN RequestNext(full) /\ UNCHANGED paint
    ELSE needFullUpdate' = full /\ UNCHANGED <<asking, paint>>
AsksBeforePainting(pixels, full) ==
    IF flowControl /\ pixels # {}
    THEN /\ awaitingRender' = TRUE /\ renderTimer' = NewTimer
         /\ renderTimers' = renderTimers \cup {NewTimer} /\ RequestNext(full)
    ELSE RequestNext(full) /\ UNCHANGED paint
ForgetsTheSize(pixels, full) ==
    IF flowControl /\ pixels # {}
    THEN /\ awaitingRender' = TRUE /\ renderTimer' = NewTimer
         /\ renderTimers' = renderTimers \cup {NewTimer} /\ UNCHANGED <<needFullUpdate, asking>>
    ELSE RequestNext(needFullUpdate) /\ UNCHANGED paint
UpdateEnd(pixels, full) ==
    IF flowControl /\ pixels # {}
    THEN /\ awaitingRender' = TRUE /\ renderTimer' = NewTimer
         /\ renderTimers' = renderTimers \cup {NewTimer}
         /\ needFullUpdate' = full /\ UNCHANGED asking
    ELSE RequestNext(full) /\ UNCHANGED paint

(* An answer arrives; after a new size everything is asked for again.      *)
(* endUpdate() repeats a full request answered by the layout alone.        *)
Update ==
    /\ client = "ready" /\ Quiet /\ answers # <<>>
    /\ answers' = Tail(answers)
    /\ LET u == Head(answers)
       IN  /\ fresh' = (IF u.size THEN {} ELSE fresh) \cup u.good
           /\ IF u.layout /\ ~ u.size /\ u.pixels = {} /\ ~ lastRequest.incremental
              THEN /\ AsksFor(Request(TRUE, lastRequest.area))
                   /\ UNCHANGED <<loop, probeDue>>
              ELSE UpdateEnd(u.pixels, needFullUpdate \/ u.size)
    /\ UNCHANGED <<control, enabled, flowControl, damage, resizing, bounds>>

(* renderComplete(), once the window has painted or as it paints nothing.  *)
RenderComplete(rest) ==
    /\ awaitingRender
    /\ awaitingRender' = FALSE /\ renderTimer' = 0 /\ renderTimers' = rest \ {renderTimer}
    /\ RequestNext(needFullUpdate)

Painted ==
    /\ Quiet /\ RenderComplete(renderTimers)
    /\ UNCHANGED <<control, enabled, flowControl, server, bounds>>

RenderTimeout ==
    /\ Quiet
    /\ \E i \in renderTimers :
          \/ RenderComplete(renderTimers \ {i})
          \/ /\ ~ awaitingRender /\ renderTimers' = renderTimers \ {i}
             /\ UNCHANGED <<needFullUpdate, awaitingRender, renderTimer, asking>>
    /\ UNCHANGED <<control, enabled, flowControl, server, bounds>>

SetFlowControl(b) ==
    /\ Quiet /\ flowControl # b /\ flowControl' = b
    /\ IF ~ b /\ awaitingRender
       THEN RenderComplete(renderTimers)
       ELSE UNCHANGED <<loop, asking>>
    /\ UNCHANGED <<control, enabled, server, bounds>>

(* requestUpdate(false), from outside the loop.                            *)
Repaint ==
    /\ Quiet /\ repaints < MaxRepaints /\ repaints' = repaints + 1
    /\ needFullUpdate' = TRUE
    /\ IF client = "ready" /\ ~ awaitingRender
       THEN AsksFor(Request(FALSE, Areas))
       ELSE UNCHANGED <<lastRequest, asked>>
    /\ UNCHANGED <<control, enabled, flowControl, paint, probeDue, server,
                   changes>>
-----------------------------------------------------------------------------
(* The server answers each request once: a full one with the area's pixels *)
(* or, if it tells layouts, with the layout while the area stays marked; an*)
(* incremental one when something in the area has changed.                 *)
ServerAnswers ==
    /\ client = "ready"
    /\ \E i \in 1..Len(asked) :
          /\ asked' = RemoveAt(asked, i)
          /\ LET r == asked[i]
                 pixels == IF r.incremental THEN damage \cap r.area ELSE r.area
             IN  \/ /\ r.incremental => pixels # {} \/ resizing
                    /\ answers' = Append(answers, Answer(pixels, resizing, FALSE))
                    /\ damage' = damage \ pixels
                 \/ /\ ~ r.incremental
                    /\ answers' = Append(answers, Answer({}, resizing, TRUE))
                    /\ damage' = damage \cup r.area
    /\ resizing' = FALSE
    /\ UNCHANGED <<control, enabled, flowControl, loop, lastRequest, probeDue, fresh, bounds>>

ScreenChanges ==
    /\ client = "ready" /\ changes < MaxChanges /\ changes' = changes + 1
    /\ \/ \E a \in {{"corner"}, {"rest"}, Areas} :
             /\ damage' = damage \cup a /\ fresh' = fresh \ a
             /\ answers' = [i \in DOMAIN answers |-> [answers[i] EXCEPT !.good = @ \ a]]
             /\ UNCHANGED resizing
       \/ resizing' = TRUE /\ UNCHANGED <<damage, fresh, answers>>
    /\ UNCHANGED <<control, enabled, flowControl, loop, asking, repaints>>

(* Five seconds pass. If the probe is still the last request, every request*)
(* of a server as slow as that is a probe.                                 *)
ProbeDue ==
    /\ probeDue = "no" /\ probeDue' = IF lastRequest.area = {"corner"} THEN "late" ELSE "due"
    /\ UNCHANGED <<control, enabled, flowControl, loop, lastRequest, asked, server, bounds>>

VncNext ==
    \/ Start \/ Retry \/ HandshakeFails \/ Connected \/ ConnectedThenFails
    \/ Resolved \/ Rejected \/ ClientFails \/ Stop
    \/ Update \/ Painted \/ RenderTimeout \/ Repaint
    \/ \E b \in BOOLEAN : SetFlowControl(b)
    \/ ServerAnswers \/ ScreenChanges \/ ProbeDue

(* Node runs microtasks and timers, and what a live server answers arrives.*)
VncFairness ==
    /\ WF_vncVars(Resolved \/ Rejected) /\ WF_vncVars(Retry)
    /\ WF_vncVars(HandshakeFails \/ Connected \/ ConnectedThenFails)
    /\ WF_vncVars(RenderTimeout) /\ WF_vncVars(Update) /\ WF_vncVars(ServerAnswers)

VncSpec == VncInit /\ [][VncNext]_vncVars /\ VncFairness
-----------------------------------------------------------------------------
VncTypeOK ==
    /\ status \in {"idle", "connecting", "connected", "reconnecting", "disconnected", "failed"}
    /\ client \in {"none", "handshake", "ready"}
    /\ continuation \in {"none", "resolved", "rejected"}
    /\ attempt \in Nat /\ timer \in Nat /\ renderTimer \in 0..(MaxRepaints + 2)
    /\ everConnected \in BOOLEAN /\ enabled \in BOOLEAN /\ flowControl \in BOOLEAN
    /\ stopping \in BOOLEAN /\ probeDue \in {"no", "due", "late"} /\ needFullUpdate \in BOOLEAN
    /\ awaitingRender \in BOOLEAN /\ resizing \in BOOLEAN
    /\ damage \subseteq Areas /\ fresh \subseteq Areas

(* The loop never dies: a connected session has a request or an answer     *)
(* under way, or waits for the window with a timer that will end the wait. *)
LoopIsAlive ==
    client = "ready" /\ Quiet =>
        InFlight > 0 \/ (awaitingRender /\ renderTimer \in renderTimers)

(* One request is in flight at a time, and one more for every repaint that *)
(* was asked for from outside the loop.                                    *)
RequestsAreBounded == InFlight <= 1 + repaints

(* An area the viewer does not show as it is is still owed to it: it is    *)
(* marked at the server, on its way, or about to be asked for in full.     *)
NothingIsForgotten ==
    client = "ready" /\ Quiet =>
        \A a \in Areas \ fresh :
            \/ a \in damage \/ needFullUpdate
            \/ \E i \in 1..Len(asked) : ~ asked[i].incremental /\ a \in asked[i].area
            \/ \E i \in 1..Len(answers) : a \in answers[i].good \/ answers[i].size

(* A session that says it reconnects will: it has a client or a timer, and *)
(* never both.  One that was stopped or failed has neither.  And it gives  *)
(* up after as many attempts as it is allowed (session.ts:321).            *)
RetriesAreSingle ==
    /\ attempt <= 1 \/ attempt <= IF everConnected THEN MaxAttempts ELSE InitialAttempts
    /\ Quiet => /\ timer <= IF client = "none" THEN 1 ELSE 0
                /\ status \in {"connecting", "reconnecting"} => timer = 1 \/ client = "handshake"
                /\ status \in {"idle", "disconnected", "failed"} => timer = 0 /\ client = "none"

(* The screen the viewer shows catches up whenever the remote one rests,   *)
(* unless probes take longer than the time between them again and again:   *)
(* then nothing but the corner is asked for (session.ts:288).              *)
ScreenCatchesUp ==
    (client = "ready" /\ fresh # Areas) ~> (fresh = Areas \/ client # "ready" \/ probeDue = "late")

(* Whoever waits for a session to connect is told how that ended.          *)
ConnectingEnds ==
    (status \in {"connecting", "reconnecting"}) ~> (status \in {"connected", "disconnected", "failed"})

(* session.ts:12 knows connected as a session with somebody to talk to.    *)
(* Refuted: after ConnectedThenFails the promise still says it connected,  *)
(* and Resolved shows so without a client, with a retry or none to come;   *)
(* and its attempts begin at none again.                                   *)
ConnectedHasClient == Quiet /\ status = "connected" => client = "ready"

(* The loop of a session lives, asks for no more than it should, forgets   *)
(* nothing that changed, and leaves one retry at most.                     *)
VncHolds ==
    VncTypeOK /\ LoopIsAlive /\ RequestsAreBounded /\ NothingIsForgotten /\ RetriesAreSingle
=============================================================================
