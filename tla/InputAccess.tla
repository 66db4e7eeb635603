----------------------------- MODULE InputAccess -----------------------------
(* How the host comes by a controller for its mouse and keyboard: hostInput *)
(* and prepareInput of main.ts, which open one for whoever asks first, and  *)
(* on Wayland the questions put to the desktop portal (portal.ts), whose    *)
(* answer may be remembered by a token (portal-token.ts).  Viewers whose    *)
(* input is dropped meanwhile are told why (host.ts sendNotices).           *)
EXTENDS Naturals, FiniteSets

CONSTANTS
    Guest,          \* sessions
    MaxAttempts     \* bound: openings tried

ASSUME AccessAssumption == MaxAttempts \in Nat

VARIABLES
    wayland,        \* the desktop has to be asked
    controller,     \* inputController
    refused,        \* inputUnavailable
    question,       \* what the opening under way awaits; "none"
    calling,        \* of this: the method call itself, before its Response
    buses,          \* connections to the session bus that are open
    leaked,         \* history: openings that failed and left theirs behind
    kept, offered,    \* portalToken: the token kept, and given in this opening
    rejected,       \* history: tokens the desktop has named in an error
    attempts,       \* openings so far
    present, noticed,   \* sessions that are connected, and the notice each was sent last
    missed,         \* sessions whose input has been dropped since they were sent one
    quitting, late  \* shutdown() is done; history: an opening was under way then

asking == <<question, calling, buses, offered, attempts>>
tokens == <<kept, rejected>>
audience == <<present, noticed, missed>>
accessVars == <<wayland, controller, refused, leaked, asking, tokens, audience, quitting, late>>

Steps == <<"connect", "session", "devices", "sources", "start">>
NoToken == 0
-----------------------------------------------------------------------------
AccessInit ==
    /\ wayland \in BOOLEAN /\ controller = "none" /\ refused = FALSE
    /\ question = "none" /\ calling = FALSE /\ buses = 0 /\ leaked = 0 /\ offered = NoToken /\ attempts = 0
    /\ kept \in {NoToken, 1} /\ rejected = {}
    /\ present = {} /\ noticed = [g \in Guest |-> "fine"] /\ missed = {}
    /\ quitting = FALSE /\ late = FALSE

(* inputProblem().                                                         *)
Problem(busy) == IF refused THEN "refused" ELSE IF busy THEN "busy" ELSE "fine"

(* Mutant: every caller opens its own.                                     *)
MayOpenAgain == controller = "none"
(* prepareInput(): one opening at a time, and none once it is open.        *)
MayOpen == controller = "none" /\ question = "none"

StartsOpening(goes) ==
    IF goes
    THEN /\ question' = "connect" /\ calling' = TRUE /\ offered' = kept
         /\ buses' = IF wayland THEN buses + 1 ELSE buses
         /\ attempts' = attempts + 1
    ELSE UNCHANGED asking
Allowed == attempts < MaxAttempts

(* hostInput(): opens one when there is none, and has nothing for now.     *)
HostInput == StartsOpening(MayOpen /\ ~refused /\ Allowed)
-----------------------------------------------------------------------------
(* Remote access is switched on, or allowed again.                         *)
PrepareInput ==
    /\ ~quitting /\ Allowed /\ MayOpen /\ StartsOpening(TRUE)
    /\ UNCHANGED <<wayland, leaked, controller, refused, tokens, audience, quitting, late>>

(* A session is connected and is sent its notices, whatever they are.      *)
ComesIn(g) ==
    /\ g \notin present /\ ~quitting /\ present' = present \cup {g}
    /\ noticed' = [noticed EXCEPT ![g] = Problem(question # "none")] /\ missed' = missed \ {g}
    /\ UNCHANGED <<wayland, leaked, controller, refused, asking, tokens, quitting, late>>

(* Mutant: what is dropped is dropped silently.                            *)
NoticeAfterDropNot(g) == noticed[g]
NoticeAfterDrop(g) == Problem(question # "none" \/ (MayOpen /\ ~refused))

(* A message of a viewer: without a controller it is dropped, and that is  *)
(* said.                                                                   *)
SendsInput(g) ==
    /\ g \in present /\ HostInput
    /\ IF controller = "open" THEN UNCHANGED <<noticed, missed>>
       ELSE /\ noticed' = [noticed EXCEPT ![g] = NoticeAfterDrop(g)]
            /\ missed' = missed \cup {g}
    /\ UNCHANGED <<wayland, leaked, controller, refused, tokens, present, quitting, late>>

(* permissionsChanged() when the window is focused: refreshNotices().      *)
Refresh ==
    /\ noticed' = [g \in Guest |-> IF g \in present THEN Problem(question # "none") ELSE noticed[g]]
    /\ missed' = missed \ present
    /\ UNCHANGED <<wayland, leaked, controller, refused, asking, tokens, present, quitting, late>>

(* A session ends with releaseAll(), which asks for the controller too.    *)
GoesOut(g) ==
    /\ g \in present /\ present' = present \ {g} /\ missed' = missed \ {g} /\ HostInput
    /\ noticed' = [noticed EXCEPT ![g] = "fine"]
    /\ UNCHANGED <<wayland, leaked, controller, refused, tokens, quitting, late>>
-----------------------------------------------------------------------------
(* The opening fails: the bus is given up, and what the token has to do    *)
(* with it is told from the message.  A bus that has been reached but gives *)
(* no name, or takes no match, is left open: the connection is made before *)
(* the try that would close it.                                            *)
Gives(names, reached) ==
    /\ question' = "none" /\ calling' = FALSE /\ offered' = NoToken
    /\ LET left == wayland /\ reached /\ question = "connect"
       IN  /\ leaked' = (IF left THEN leaked + 1 ELSE leaked)
           /\ buses' = (IF wayland /\ ~left THEN buses - 1 ELSE buses)
    /\ refused' = TRUE
    /\ rejected' = IF names THEN rejected \cup {offered} ELSE rejected

(* Mutant: a token is kept whatever is said of it.                         *)
KeepsToken(names) == kept
ForgetsToken(names) == IF names THEN NoToken ELSE kept

(* The call is answered at once; its Response comes by itself.             *)
CallReturns ==
    /\ calling /\ calling' = FALSE /\ wayland
    /\ UNCHANGED <<wayland, leaked, controller, refused, question, buses, offered, attempts, tokens, audience, quitting, late>>
(* An error of the bus, which may name the token or be a denial.           *)
BusFails(names, reached) ==
    /\ calling /\ Gives(names, reached) /\ kept' = ForgetsToken(names)
    /\ UNCHANGED <<wayland, controller, attempts, audience, quitting, late>>
(* The desktop remembers no session that can control it: asked once more.  *)
NotPersisted ==
    /\ calling /\ question = "devices" /\ offered' = NoToken
    /\ UNCHANGED <<wayland, leaked, controller, refused, question, calling, buses, attempts, tokens, audience, quitting, late>>

(* Mutant: the question that has been answered is put again.               *)
SaysYesAgain ==
    /\ wayland /\ ~calling /\ question \in {"connect", "session", "devices", "sources"}
    /\ question' = Steps[CHOOSE i \in 1..4 : Steps[i] = question] /\ calling' = TRUE
    /\ UNCHANGED <<wayland, leaked, controller, refused, buses, offered, attempts, tokens, audience, quitting, late>>
(* A Response that says yes leads to the next question.                    *)
SaysYes ==
    /\ wayland /\ ~calling /\ question \in {"connect", "session", "devices", "sources"}
    /\ question' = Steps[1 + CHOOSE i \in 1..4 : Steps[i] = question] /\ calling' = TRUE
    /\ UNCHANGED <<wayland, leaked, controller, refused, buses, offered, attempts, tokens, audience, quitting, late>>
(* One that says no, none before the timer, or one that shares no screen:  *)
(* no message of these names the token.                                    *)
SaysNo(token) ==
    /\ wayland /\ ~calling /\ question # "none" /\ Gives(FALSE, TRUE)
    /\ kept' = IF question = "start" /\ token # NoToken THEN token ELSE ForgetsToken(FALSE)
    /\ UNCHANGED <<wayland, controller, attempts, audience, quitting, late>>
(* Everything is granted, with a token perhaps; or nobody had to be asked. *)
Opened(token) ==
    /\ IF wayland THEN question = "start" /\ ~calling ELSE question = "connect"
    /\ controller' = "open" /\ refused' = FALSE /\ question' = "none" /\ calling' = FALSE /\ offered' = NoToken
    /\ kept' = IF token # NoToken /\ wayland THEN token ELSE kept
    /\ UNCHANGED <<wayland, leaked, buses, attempts, rejected, audience, quitting, late>>

(* Mutant: quitting forgets the controller.                                *)
ShutdownForgets ==
    /\ ~quitting /\ present = {} /\ quitting' = TRUE /\ late' = (question # "none")
    /\ controller' = "none"
    /\ UNCHANGED <<wayland, leaked, refused, asking, tokens, audience>>
(* shutdown(): once the sessions have ended it closes the controller.      *)
Shutdown ==
    /\ ~quitting /\ present = {} /\ quitting' = TRUE /\ late' = (question # "none")
    /\ controller' = "none"
    /\ buses' = IF controller = "open" /\ wayland THEN buses - 1 ELSE buses
    /\ UNCHANGED <<wayland, leaked, refused, question, calling, offered, attempts, tokens, audience>>

BusAnswers == CallReturns \/ NotPersisted \/ (\E names, reached \in BOOLEAN : BusFails(names, reached))
(* A token the desktop gives is a new one.                                 *)
DesktopAnswers == SaysYes \/ (\E token \in {NoToken, attempts + 1} : SaysNo(token) \/ Opened(token))

AccessNext ==
    \/ PrepareInput \/ Refresh \/ Shutdown \/ BusAnswers \/ DesktopAnswers
    \/ \E g \in Guest : ComesIn(g) \/ SendsInput(g) \/ GoesOut(g)
-----------------------------------------------------------------------------
(* One opening is under way at a time, and a bus connection is open for it *)
(* or for the controller that came of it and for nothing else              *)
(* (portal.ts:393, main.ts:422), but for those an opening never let go of. *)
BusIsHeld ==
    buses = leaked + (IF wayland /\ (question # "none" \/ controller = "open") THEN 1 ELSE 0)

(* Quitting hands back what the desktop allowed (main.ts:987), unless it   *)
(* was still being asked.                                                  *)
HandedBack == quitting /\ ~late => controller = "none" /\ buses = leaked

(* "A refused or failed request must not leave the bus connection open"    *)
(* (portal.ts:393): nothing holds the bus when nobody has the controller   *)
(* nor asks for it.  It does not hold.                                     *)
FailedGivesUpTheBus == question = "none" /\ controller = "none" => buses = 0

(* A viewer whose mouse does nothing has been told why (host.ts:405).      *)
DroppedMeansTold == \A g \in present \cap missed : controller = "none" => noticed[g] # "fine"

(* A token that the desktop has refused by name is not offered again       *)
(* (main.ts:442).                                                          *)
RefusedIsNotOffered == question # "none" /\ offered # NoToken => offered \notin rejected

(* Whoever waits for the controller waits for an answer or a timer; only   *)
(* the calls themselves have none.                                         *)
OpeningEnds == question # "none" ~> question = "none"

(* The portal's bus is held by whoever uses it, a refused token is not     *)
(* offered again, a viewer whose input goes nowhere has been told.         *)
AccessHolds == BusIsHeld /\ HandedBack /\ DroppedMeansTold /\ RefusedIsNotOffered
=============================================================================
