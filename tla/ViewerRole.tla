----------------------------- MODULE ViewerRole -----------------------------
(***************************************************************************)
(* The computer one sits at: ViewerRole (apps/desktop/src/viewer.ts), with *)
(* the part of the negotiation it depends on (negotiateAsViewer), and what *)
(* the window lets a person do (renderer/hopdesk.js).                      *)
(*                                                                         *)
(* A try is one activation of attemptConnect or connectAccount; its steps  *)
(* are the awaits it goes through, and the person, the host, the network   *)
(* and the reconnect timer may act at each.  What the handshake proves is  *)
(* left out: a host lets this computer in or it does not.                  *)
(***************************************************************************)
EXTENDS Naturals, FiniteSets

CONSTANTS
    Try,        \* activations, each used once
    NoTry,      \* no session, no peer connection, no timer
    MaxAttempt  \* reconnects in a row before giving up

ASSUME ViewerAssumption == NoTry \notin Try /\ MaxAttempt \in Nat

VARIABLES
    status,     \* status.state
    shown,      \* the session's view, with its Disconnect button, is up
    request,    \* lastRequest: "none" for an account's, else "code" or "paired"
    grant,      \* "none", "live" or "lapsed"
    session,    \* the try whose session this is
    peer,       \* the try whose peer connection this is
    media,      \* tries with a peer connection that was not disposed of
    timers,     \* tries whose drop set a reconnect timer not yet fired
    latest,     \* reconnectTimer, named after the try that set it
    attempt,
    stopped,
    byPeer,     \* endedByPeer # null
    step,       \* try -> where it has got to
    caller,     \* try -> who made it, the person or the timer
    link,       \* try -> its connection
    said,       \* tries whose host has said `bye'
    retried     \* tries that already retried with a new identity key

viewerVars == <<status, shown, request, grant, session, peer, media, timers, latest,
          attempt, stopped, byPeer, step, caller, link, said, retried>>

Status == {"ended", "looking", "connecting", "waiting", "connected", "reconnecting"}
Setup == {"locating", "dialing", "waiting", "preparing", "offering", "racing"}
Step == {"idle", "running", "over"} \cup Setup

UnderWay(t) == step[t] \in Setup
Goes(t, s) == step' = [step EXCEPT ![t] = s]

(* setStatus, and hideSession or showSession in the window.                *)
Shows(s) ==
    /\ status' = s
    /\ shown' = (s = "connected" \/ (shown /\ s # "ended"))

(* teardown(): whatever session and peer connection there is.              *)
Teardown ==
    /\ media' = media \ {peer}
    /\ peer' = NoTry
    /\ session' = NoTry

CanResume == request = "paired" \/ (request # "none" /\ grant = "live")
-----------------------------------------------------------------------------
ViewerInit ==
    /\ status = "ended" /\ shown = FALSE
    /\ request = "none" /\ grant = "none"
    /\ session = NoTry /\ peer = NoTry /\ media = {}
    /\ timers = {} /\ latest = NoTry /\ attempt = 0
    /\ stopped = FALSE /\ byPeer = FALSE
    /\ step = [t \in Try |-> "idle"]
    /\ caller = [t \in Try |-> "person"]
    /\ link = [t \in Try |-> "none"]
    /\ said = {} /\ retried = {}

(* The window offers to connect when no session is shown and either the    *)
(* last call has answered or its status was `ended'.                       *)
MayConnect ==
    /\ ~ shown
    /\ status = "ended" \/ \A t \in Try : caller[t] = "person" => ~ UnderWay(t)

(* connect and connectPaired, up to the wait for locate().                 *)
Connect(t, how) ==
    /\ step[t] = "idle" /\ MayConnect
    /\ stopped' = FALSE /\ attempt' = 0
    /\ request' = how /\ grant' = "none"
    /\ Goes(t, "locating") /\ Shows("looking")
    /\ UNCHANGED <<session, peer, media, timers, latest, byPeer, caller, link, said, retried>>

(* connectAccount, on a link the server relayed.                           *)
ConnectAccount(t) ==
    /\ step[t] = "idle" /\ MayConnect
    /\ stopped' = FALSE /\ attempt' = 0
    /\ request' = "none" /\ grant' = "none"
    /\ link' = [link EXCEPT ![t] = "open"]
    /\ Goes(t, "waiting") /\ Shows("waiting")
    /\ UNCHANGED <<session, peer, media, timers, latest, byPeer, caller, said, retried>>

Located(t) ==
    /\ step[t] = "locating"
    /\ Goes(t, "dialing") /\ Shows("connecting")
    /\ UNCHANGED <<request, grant, session, peer, media, timers, latest, attempt,
                   stopped, byPeer, caller, link, said, retried>>

(* Nobody answered discovery, or the address: the call throws as it is.    *)
NotReached(t) ==
    /\ step[t] \in {"locating", "dialing"}
    /\ Goes(t, "over")
    /\ UNCHANGED <<status, shown, request, grant, session, peer, media, timers,
                   latest, attempt, stopped, byPeer, caller, link, said, retried>>

Dialed(t) ==
    /\ step[t] = "dialing"
    /\ link' = [link EXCEPT ![t] = "open"]
    /\ Goes(t, "waiting") /\ Shows("waiting")
    /\ UNCHANGED <<request, grant, session, peer, media, timers, latest, attempt,
                   stopped, byPeer, caller, said, retried>>

(* The handshake fails: refused, timed out, the link gone.                 *)
Refused(t) ==
    /\ step[t] = "waiting"
    /\ link' = [link EXCEPT ![t] = "closed"]
    /\ Goes(t, "over") /\ Shows("ended")
    /\ UNCHANGED <<request, grant, session, peer, media, timers, latest, attempt,
                   stopped, byPeer, caller, said, retried>>

(* A new identity key, and the person accepts it: one more try, from the   *)
(* start and on a link of its own.                                         *)
KeyAccepted(t) ==
    /\ step[t] = "waiting" /\ t \notin retried /\ request # "none"
    /\ retried' = retried \cup {t}
    /\ link' = [link EXCEPT ![t] = "none"]
    /\ Goes(t, "locating") /\ Shows("looking")
    /\ UNCHANGED <<request, grant, session, peer, media, timers, latest, attempt,
                   stopped, byPeer, caller, said>>

(* startSession, up to the wait for iceServers() and createPeer().         *)
LetIn(t, trusted, granted) ==
    /\ step[t] = "waiting"
    /\ session' = t
    /\ request' = IF trusted /\ request # "none" THEN "paired" ELSE request
    /\ grant' = IF granted THEN "live" ELSE grant
    /\ Goes(t, "preparing") /\ Shows("connecting")
    /\ UNCHANGED <<peer, media, timers, latest, attempt, stopped, byPeer, caller,
                   link, said, retried>>

PrepareFails(t) ==
    /\ step[t] = "preparing"
    /\ Goes(t, "over")
    /\ UNCHANGED <<status, shown, request, grant, session, peer, media, timers,
                   latest, attempt, stopped, byPeer, caller, link, said, retried>>

Prepared(t) ==
    /\ step[t] = "preparing"
    /\ peer' = t
    /\ media' = media \cup {t}
    /\ Goes(t, "offering")
    /\ UNCHANGED <<status, shown, request, grant, session, timers, latest,
                   attempt, stopped, byPeer, caller, link, said, retried>>

(* createOffer resolves; only now is anybody listening for a failure.      *)
Offered(t) ==
    /\ step[t] = "offering"
    /\ Goes(t, "racing")
    /\ UNCHANGED <<status, shown, request, grant, session, peer, media, timers,
                   latest, attempt, stopped, byPeer, caller, link, said, retried>>

(* Mutant: a negotiation whose link is gone waits for its media.           *)
NegotiationFailsOnlyConnected(t) ==
    /\ step[t] \in {"offering", "racing"}
    /\ link[t] = "open"
    /\ Teardown
    /\ Goes(t, "over") /\ Shows("ended")
    /\ UNCHANGED <<request, grant, timers, latest, attempt, stopped, byPeer,
                   caller, link, said, retried>>

(* The media did not connect, the link is gone, or the host said `bye'.    *)
NegotiationFails(t) ==
    /\ step[t] \in {"offering", "racing"}
    /\ Teardown
    /\ Goes(t, "over") /\ Shows("ended")
    /\ UNCHANGED <<request, grant, timers, latest, attempt, stopped, byPeer,
                   caller, link, said, retried>>

Connected(t) ==
    /\ step[t] = "racing" /\ link[t] = "open" /\ t \notin said
    /\ attempt' = 0
    /\ Goes(t, "running") /\ Shows("connected")
    /\ UNCHANGED <<request, grant, session, peer, media, timers, latest, stopped,
                   byPeer, caller, link, said, retried>>
-----------------------------------------------------------------------------
(* Mutant: a `bye' is not remembered, and the drop that follows resumes.   *)
ByeIgnored(t) ==
    /\ step[t] = "running" /\ link[t] = "open" /\ t \notin said
    /\ said' = said \cup {t}
    /\ UNCHANGED <<status, shown, request, grant, session, peer, media, timers,
                   latest, attempt, stopped, byPeer, step, caller, link, retried>>

(* The person at the host ends the session: `bye' arrives.  A session that *)
(* runs takes note; one being set up finds it when it gets that far, and   *)
(* one waiting for its media fails at once.                                *)
Bye(t) ==
    /\ link[t] = "open" /\ t \notin said
    /\ said' = said \cup {t}
    /\ CASE step[t] = "running" ->
              byPeer' = TRUE /\ UNCHANGED <<status, shown, session, peer, media, step>>
         [] step[t] \in {"preparing", "offering"} ->
              UNCHANGED <<status, shown, session, peer, media, byPeer, step>>
         [] step[t] = "racing" ->
              Teardown /\ Goes(t, "over") /\ Shows("ended") /\ UNCHANGED byPeer
         [] OTHER -> FALSE
    /\ UNCHANGED <<request, grant, timers, latest, attempt, stopped, caller, link, retried>>

(* Mutant: onClosed says `reconnecting' before it has looked whether to.   *)
OnClosedHopeful(t) ==
    IF stopped \/ session = NoTry
    THEN UNCHANGED <<status, shown, grant, session, peer, media, timers, latest, attempt, byPeer>>
    ELSE /\ Teardown
         /\ byPeer' = FALSE
         /\ Shows("reconnecting")
         /\ IF ~ byPeer /\ CanResume /\ attempt < MaxAttempt
            THEN /\ attempt' = attempt + 1
                 /\ timers' = timers \cup {t}
                 /\ latest' = t
                 /\ UNCHANGED grant
            ELSE /\ grant' = IF byPeer THEN "none" ELSE grant
                 /\ UNCHANGED <<timers, latest, attempt>>

(* onClosed(), for the close of t's link and whatever session there is.    *)
OnClosed(t) ==
    IF stopped \/ session = NoTry
    THEN UNCHANGED <<status, shown, grant, session, peer, media, timers, latest, attempt, byPeer>>
    ELSE /\ Teardown
         /\ byPeer' = FALSE
         /\ IF ~ byPeer /\ CanResume /\ attempt < MaxAttempt
            THEN /\ attempt' = attempt + 1
                 /\ timers' = timers \cup {t}
                 /\ latest' = t
                 /\ Shows("reconnecting")
                 /\ UNCHANGED grant
            ELSE /\ grant' = IF byPeer THEN "none" ELSE grant
                 /\ Shows("ended")
                 /\ UNCHANGED <<timers, latest, attempt>>

(* The control link of an established session closes at the other end.     *)
Drop(t) ==
    /\ link[t] = "open"
    /\ step[t] \in {"preparing", "offering", "racing", "running", "over"}
    /\ link' = [link EXCEPT ![t] = "closed"]
    /\ OnClosed(t)
    /\ UNCHANGED <<request, stopped, step, caller, said, retried>>

(* The timer t set goes off: attemptConnect, as u.                         *)
Fire(t, u) ==
    /\ t \in timers /\ step[u] = "idle"
    /\ timers' = timers \ {t}
    /\ caller' = [caller EXCEPT ![u] = "timer"]
    /\ Goes(u, "locating") /\ Shows("looking")
    /\ UNCHANGED <<request, grant, session, peer, media, latest, attempt, stopped,
                   byPeer, link, said, retried>>

(* disconnect(), by the button of the session's view.                      *)
Disconnect ==
    /\ shown
    /\ stopped' = TRUE
    /\ timers' = timers \ {latest}
    /\ Teardown
    /\ link' = [t \in Try |-> IF t = session THEN "closed" ELSE link[t]]
    /\ grant' = "none" /\ byPeer' = FALSE
    /\ Shows("ended")
    /\ UNCHANGED <<request, latest, attempt, step, caller, said, retried>>

GrantLapses ==
    /\ grant = "live"
    /\ grant' = "lapsed"
    /\ UNCHANGED <<status, shown, request, session, peer, media, timers, latest,
                   attempt, stopped, byPeer, step, caller, link, said, retried>>

Proceed(t) ==
    \/ Located(t) \/ NotReached(t) \/ Dialed(t) \/ Refused(t) \/ KeyAccepted(t)
    \/ \E trusted, granted \in BOOLEAN : LetIn(t, trusted, granted)
    \/ PrepareFails(t) \/ Prepared(t) \/ Offered(t) \/ NegotiationFails(t) \/ Connected(t)

ViewerNext ==
    \/ \E t \in Try : \/ \E how \in {"code", "paired"} : Connect(t, how)
                      \/ ConnectAccount(t) \/ Proceed(t) \/ Bye(t) \/ Drop(t)
    \/ \E t, u \in Try : Fire(t, u)
    \/ Disconnect \/ GrantLapses

ViewerSpec == ViewerInit /\ [][ViewerNext]_viewerVars

(* What may be counted on: each await has a timer, or answers.             *)
AwaitEnds(t) ==
    \/ Located(t) \/ NotReached(t) \/ Dialed(t) \/ Refused(t) \/ PrepareFails(t) \/ Prepared(t)
    \/ Offered(t) \/ NegotiationFails(t) \/ Connected(t)
-----------------------------------------------------------------------------
ViewerTypeOK ==
    /\ status \in Status /\ shown \in BOOLEAN
    /\ request \in {"none", "code", "paired"}
    /\ grant \in {"none", "live", "lapsed"}
    /\ session \in Try \cup {NoTry} /\ peer \in Try \cup {NoTry}
    /\ media \subseteq Try /\ timers \subseteq Try
    /\ latest \in Try \cup {NoTry}
    /\ attempt \in 0 .. MaxAttempt
    /\ stopped \in BOOLEAN /\ byPeer \in BOOLEAN
    /\ step \in [Try -> Step]
    /\ caller \in [Try -> {"person", "timer"}]
    /\ link \in [Try -> {"none", "open", "closed"}]
    /\ said \subseteq Try /\ retried \subseteq Try

(* The window never says `Reconnecting...' with nothing scheduled, however *)
(* sessions, drops and disconnects follow on one another (onClosed).       *)
ReconnectingMeansScheduled == status = "reconnecting" => latest \in timers

(* A session that runs and whose host said `bye' is not resumed when its   *)
(* link then closes, whatever else was closed or connected in between.     *)
DeliberateIsFinal ==
    [][\A t \in Try :
         /\ step[t] = "running" /\ t \in said /\ session = t
         /\ link[t] = "open" /\ link'[t] = "closed"
         => timers' \subseteq timers]_viewerVars

(* Every try comes to an end, in a session or without one, although the    *)
(* link may close and the host may leave at any of its awaits.             *)
TriesEnd == \A t \in Try : UnderWay(t) ~> ~ UnderWay(t)

-----------------------------------------------------------------------------
(* What the repository says of the program, and the program does not do.   *)

(* README.md:255: "If the network drops, HopDesk reconnects by itself.     *)
(* *Disconnect* or *Cancel* stops it."                                     *)
DisconnectStopsIt == stopped => session = NoTry

(* README.md:117-118: "If the connection drops, it comes back by itself".  *)
(* Weaker: once the timer has tried, the window says what became of it.    *)
ComesBackOrEnds ==
    \A t \in Try : caller[t] = "timer" /\ UnderWay(t) ~> status \in {"connected", "ended"}
=============================================================================
