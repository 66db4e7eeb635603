---------------------------- MODULE HostSessions ----------------------------
(***************************************************************************)
(* The computer being connected to, from the moment a link arrives to the  *)
(* end of its session: HostRole.acceptLink, endSession, revokeTrust and    *)
(* stop (apps/desktop/src/host.ts), the handshake they drive (acceptViewer,*)
(* session.ts; HostAuthenticator, handshake.ts; GrantStore, grants.ts) and *)
(* the hidden capture window (main.ts).                                    *)
(*                                                                         *)
(* One action is what runs between two awaits, so every await of           *)
(* acceptLink is a phase, and anything may happen while a link is in it.   *)
(* A grant is named after the link whose session it was issued to.  Which  *)
(* account a viewer is on, the version, nonce and throttle checks, and the *)
(* proof of the secret are choices: a viewer passes them or it does not.   *)
(*                                                                         *)
(* `standing' is history: the last thing the person at this computer said  *)
(* of a viewer.                                                            *)
(***************************************************************************)
EXTENDS Naturals, FiniteSets

CONSTANTS
    Link,       \* connections that may arrive, each once
    Lan,        \* those that are sockets of the LAN listener; the rest are relayed
    Viewer,     \* device keys
    NoHello,    \* a link that has not said hello
    NoGrant,    \* a hello that presents no grant
    NoWindow    \* no hidden capture window

ASSUME SessionsAssumption ==
    /\ Lan \subseteq Link
    /\ NoGrant \notin Link
    /\ NoWindow \notin Link

Kind == {"code", "account", "paired", "grant"}
Hello == [viewer : Viewer, kind : Kind, grant : Link \cup {NoGrant}]

ASSUME HelloAssumption == NoHello \notin Hello

VARIABLES
    serving,    \* authenticator # null: the listener is up
    permitted,  \* authorized().ok
    trusted,    \* TrustedDevices: viewers that connect without being asked
    standing,   \* history: "stranger", "approved" or "revoked" by the person
    grant,      \* link -> state of the grant issued to its session
    phase,      \* link -> where acceptLink has got to
    hello,      \* link -> the hello it was challenged for
    held,       \* links whose handshake holds an attempt of the limiter
    closed,     \* links closed at this end
    sessions,   \* the keys of the sessions Map
    peers,      \* links with a peer connection that was not disposed of
    window      \* the hidden capture window, named after the link that opened it

vars == <<serving, permitted, trusted, standing, grant, phase, hello, held,
          closed, sessions, peers, window>>

GrantState == {"none", "live", "lapsed", "revoked"}
Handshaking == {"hello", "hashing", "challenged", "asking"}
Starting == {"creating", "loading"}
Media == {"negotiating", "connected"}
Phase == {"idle", "over"} \cup Handshaking \cup Starting \cup Media

Stored(g) == grant[g] \in {"live", "lapsed"}
ViewersOf(S) == {hello[l].viewer : l \in S}

(* The end of a handshake that did not make it: the link is closed.        *)
Dropped(l) ==
    /\ phase' = [phase EXCEPT ![l] = "over"]
    /\ closed' = closed \cup {l}

(* Mutant: closes the capture window whether or not it is idle.            *)
WindowAfterAnyEnd(S) == IF S # {} THEN {NoWindow} ELSE {window}

(* closeHostWindowIfIdle, run for each of S that had a peer connection once *)
(* it has left the Map.  Which of S goes last is Map order, left open.     *)
WindowAfter(S) ==
    IF sessions = S /\ S # {}
    THEN {IF l \in peers THEN NoWindow ELSE window : l \in S}
    ELSE {window}

(* The sessions S leave the Map with their peer connections.  A session    *)
(* still waiting for its peer connection goes on waiting.                  *)
Ended(S) ==
    /\ sessions' = sessions \ S
    /\ closed' = closed \cup S
    /\ peers' = peers \ S
    /\ phase' = [l \in Link |-> IF l \in S /\ phase[l] \in Media THEN "over" ELSE phase[l]]
    /\ held' = held

(* GrantStore.revokeViewer                                                 *)
RevokeViewers(V) ==
    grant' = [g \in Link |-> IF Stored(g) /\ hello[g].viewer \in V
                             THEN "revoked" ELSE grant[g]]
-----------------------------------------------------------------------------
Init ==
    /\ serving = FALSE
    /\ permitted \in BOOLEAN
    /\ trusted \in SUBSET Viewer
    /\ standing = [v \in Viewer |-> IF v \in trusted THEN "approved" ELSE "stranger"]
    /\ grant = [l \in Link |-> "none"]
    /\ phase = [l \in Link |-> "idle"]
    /\ hello = [l \in Link |-> NoHello]
    /\ held = {}
    /\ closed = {}
    /\ sessions = {}
    /\ peers = {}
    /\ window = NoWindow

(* acceptLink, up to the wait for a hello.                                 *)
Arrive(l) ==
    /\ phase[l] = "idle"
    /\ IF serving /\ permitted
       THEN phase' = [phase EXCEPT ![l] = "hello"] /\ UNCHANGED closed
       ELSE Dropped(l)
    /\ UNCHANGED <<serving, permitted, trusted, standing, grant, hello, held,
                   sessions, peers, window>>

(* onHello refuses, for want of trust, of a grant, of an attempt, or for   *)
(* any check made before those.  Presenting a lapsed grant deletes it.     *)
RefuseHello(l) ==
    /\ phase[l] = "hello"
    /\ Dropped(l)
    /\ \/ UNCHANGED grant
       \/ \E g \in Link : /\ grant[g] = "lapsed"
                          /\ grant' = [grant EXCEPT ![g] = "revoked"]
    /\ UNCHANGED <<serving, permitted, trusted, standing, hello, held,
                   sessions, peers, window>>

(* Mutant: find() that does not compare the viewer's key.                  *)
RecognisedByGrantAlone(v, k, g) ==
    \/ k = "account" /\ g = NoGrant
    \/ k = "paired" /\ g = NoGrant /\ v \in trusted
    \/ k = "grant" /\ g \in Link /\ grant[g] = "live"

(* onHello accepts a viewer that needs no code, and challenges it.         *)
Recognised(v, k, g) ==
    \/ k = "account" /\ g = NoGrant
    \/ k = "paired" /\ g = NoGrant /\ v \in trusted
    \/ k = "grant" /\ g \in Link /\ grant[g] = "live" /\ hello[g].viewer = v

(* Mutant: the challenge is sent and who it was for is not kept.           *)
HelloNotKept(l, v, k, g) ==
    /\ phase[l] = "hello"
    /\ Recognised(v, k, g)
    /\ phase' = [phase EXCEPT ![l] = "challenged"]
    /\ UNCHANGED <<serving, permitted, trusted, standing, grant, hello, held,
                   closed, sessions, peers, window>>

HelloRecognised(l, v, k, g) ==
    /\ phase[l] = "hello"
    /\ Recognised(v, k, g)
    /\ hello' = [hello EXCEPT ![l] = [viewer |-> v, kind |-> k, grant |-> g]]
    /\ phase' = [phase EXCEPT ![l] = "challenged"]
    /\ UNCHANGED <<serving, permitted, trusted, standing, grant, held, closed,
                   sessions, peers, window>>

(* onHello takes an attempt for an access code and awaits passwordScalar.  *)
HelloWithCode(l, v) ==
    /\ phase[l] = "hello"
    /\ hello' = [hello EXCEPT ![l] = [viewer |-> v, kind |-> "code", grant |-> NoGrant]]
    /\ held' = held \cup {l}
    /\ phase' = [phase EXCEPT ![l] = "hashing"]
    /\ UNCHANGED <<serving, permitted, trusted, standing, grant, closed,
                   sessions, peers, window>>

(* Mutant: a link that closed while its code was hashed is left waiting.   *)
HashedUnlessGone(l) ==
    /\ phase[l] = "hashing"
    /\ l \notin closed
    /\ phase' = [phase EXCEPT ![l] = "challenged"]
    /\ UNCHANGED <<serving, permitted, trusted, standing, grant, hello, held,
                   closed, sessions, peers, window>>

(* passwordScalar is done.  On a link closed meanwhile nothing is sent, the *)
(* wait for `confirm' fails at once, and the attempt is abandoned.         *)
Hashed(l) ==
    /\ phase[l] = "hashing"
    /\ IF l \in closed
       THEN Dropped(l) /\ held' = held \ {l}
       ELSE phase' = [phase EXCEPT ![l] = "challenged"] /\ UNCHANGED <<held, closed>>
    /\ UNCHANGED <<serving, permitted, trusted, standing, grant, hello,
                   sessions, peers, window>>

(* passwordScalar or the key exchange rejects what the viewer sent.        *)
HashFails(l) ==
    /\ phase[l] = "hashing"
    /\ Dropped(l)
    /\ held' = held \ {l}
    /\ UNCHANGED <<serving, permitted, trusted, standing, grant, hello,
                   sessions, peers, window>>

(* Mutant: a handshake given up on does not abandon its attempt.           *)
HandshakeFailsSilently(l) ==
    /\ phase[l] \in {"hello", "challenged"}
    /\ Dropped(l)
    /\ UNCHANGED <<serving, permitted, trusted, standing, grant, hello, held,
                   sessions, peers, window>>

(* No hello or no confirm within the time allowed, a confirm that proves   *)
(* nothing, or something else altogether: abandon() or fail().             *)
HandshakeFails(l) ==
    /\ phase[l] \in {"hello", "challenged"}
    /\ Dropped(l)
    /\ held' = held \ {l}
    /\ UNCHANGED <<serving, permitted, trusted, standing, grant, hello,
                   sessions, peers, window>>

(* Mutant: resuming extends the grant whatever became of it.               *)
AdmitAndRenew(l) ==
    /\ sessions' = sessions \cup {l}
    /\ phase' = [phase EXCEPT ![l] = "creating"]
    /\ grant' = IF hello[l].kind = "grant"
                THEN [grant EXCEPT ![hello[l].grant] = "live"]
                ELSE [g \in Link |-> IF g = l THEN "live"
                                     ELSE IF grant[g] = "lapsed" THEN "revoked"
                                     ELSE grant[g]]

(* The rest of acceptViewer and acceptLink up to iceServers(): a session   *)
(* resumed extends its grant, any other is issued a new one.               *)
Admit(l) ==
    /\ sessions' = sessions \cup {l}
    /\ phase' = [phase EXCEPT ![l] = "creating"]
    /\ grant' = IF hello[l].kind = "grant"
                THEN [grant EXCEPT ![hello[l].grant] = IF @ = "lapsed" THEN "live" ELSE @]
                ELSE [g \in Link |-> IF g = l THEN "live"
                                     ELSE IF grant[g] = "lapsed" THEN "revoked"
                                     ELSE grant[g]]

(* confirm() accepts the viewer: a code or an account is put to the person *)
(* here, trust and grants are an answer already given.                     *)
Confirm(l) ==
    /\ phase[l] = "challenged"
    /\ held' = held \ {l}
    /\ IF hello[l].kind \in {"code", "account"}
       THEN phase' = [phase EXCEPT ![l] = "asking"] /\ UNCHANGED <<grant, sessions>>
       ELSE Admit(l)
    /\ UNCHANGED <<serving, permitted, trusted, standing, hello, closed, peers, window>>

(* The person answers Allow, with or without `connect again'.              *)
Allow(l, trust) ==
    /\ phase[l] = "asking"
    /\ Admit(l)
    /\ LET v == hello[l].viewer IN
       /\ standing' = [standing EXCEPT ![v] = "approved"]
       /\ trusted' = IF trust THEN trusted \cup {v} ELSE trusted
    /\ UNCHANGED <<serving, permitted, hello, held, closed, peers, window>>

(* The person answers Reject, nobody answers in time, there is no window   *)
(* to ask in.                                                              *)
Reject(l) ==
    /\ phase[l] = "asking"
    /\ Dropped(l)
    /\ UNCHANGED <<serving, permitted, trusted, standing, grant, hello, held,
                   sessions, peers, window>>
-----------------------------------------------------------------------------
(* Mutant: negotiates on whatever became of the session meanwhile.         *)
AttachRegardless(l) ==
    /\ peers' = peers \cup {l}
    /\ phase' = [phase EXCEPT ![l] = "negotiating"]

(* createPeer gets as far as ensureHostWindow: the first session opens the *)
(* window and waits for it, the others attach to the one there is.  The    *)
(* session may have ended meanwhile; nothing here looks.                   *)
Attach(l) ==
    /\ peers' = peers \cup {l}
    /\ phase' = [phase EXCEPT ![l] = IF l \in sessions THEN "negotiating" ELSE "over"]

OpenWindow(l) ==
    /\ phase[l] = "creating"
    /\ IF window = NoWindow
       THEN /\ window' = l
            /\ phase' = [phase EXCEPT ![l] = "loading"]
            /\ UNCHANGED peers
       ELSE Attach(l) /\ UNCHANGED window
    /\ UNCHANGED <<serving, permitted, trusted, standing, grant, hello, held,
                   closed, sessions>>

WindowReady(l) ==
    /\ phase[l] = "loading"
    /\ window = l
    /\ Attach(l)
    /\ UNCHANGED <<serving, permitted, trusted, standing, grant, hello, held,
                   closed, sessions, window>>

(* The window does not start, or was closed before it had.                 *)
CreateFails(l) ==
    /\ phase[l] = "loading"
    /\ sessions' = sessions \ {l}
    /\ closed' = closed \cup {l}
    /\ phase' = [phase EXCEPT ![l] = "over"]
    /\ IF l \in sessions THEN RevokeViewers({hello[l].viewer}) ELSE UNCHANGED grant
    /\ UNCHANGED <<serving, permitted, trusted, standing, hello, held, peers, window>>

MediaConnected(l) ==
    /\ phase[l] = "negotiating"
    /\ phase' = [phase EXCEPT ![l] = "connected"]
    /\ UNCHANGED <<serving, permitted, trusted, standing, grant, hello, held,
                   closed, sessions, peers, window>>

(* endSession: by the person here (from the window, which also closes the  *)
(* capture window if it is idle, or from the tray), by the viewer's `bye', *)
(* or because the media failed.                                            *)
EndSession(l) ==
    /\ l \in sessions
    /\ Ended({l})
    /\ RevokeViewers({hello[l].viewer})
    /\ \/ window' \in WindowAfter({l})
       \/ sessions = {l} /\ window' = NoWindow
    /\ UNCHANGED <<serving, permitted, trusted, standing, hello>>

(* revokeTrust: the viewer is forgotten and every session it has ends.     *)
RevokeTrust(v) ==
    LET theirs == {l \in sessions : hello[l].viewer = v} IN
    /\ v \in trusted \/ theirs # {}
    /\ trusted' = trusted \ {v}
    /\ standing' = [standing EXCEPT ![v] = "revoked"]
    /\ Ended(theirs)
    /\ RevokeViewers(ViewersOf(theirs))
    /\ window' \in WindowAfter(theirs)
    /\ UNCHANGED <<serving, permitted, hello>>

(* The link closes at the other end.  A handshake waiting for the viewer   *)
(* or for the person fails, one that is hashing notices later, a session   *)
(* leaves the Map; its grant stays, for the viewer to come back with.      *)
Leave(l) ==
    /\ l \notin closed
    /\ phase[l] \notin {"idle", "over"}
    /\ CASE l \in sessions ->
              Ended({l}) /\ window' \in WindowAfter({l})
         [] phase[l] = "hashing" ->
              closed' = closed \cup {l} /\ UNCHANGED <<phase, held, sessions, peers, window>>
         [] OTHER ->
              Dropped(l) /\ held' = held \ {l} /\ UNCHANGED <<sessions, peers, window>>
    /\ UNCHANGED <<serving, permitted, trusted, standing, grant, hello>>

(* stop(): every session ends, every grant goes, the authenticator goes,   *)
(* and the listener destroys the sockets it still has.  A relayed link in  *)
(* the middle of its handshake keeps the authenticator it started with.    *)
Stop ==
    LET cut == {l \in Lan : phase[l] \in Handshaking} IN
    /\ serving' = FALSE
    /\ grant' = [g \in Link |-> IF Stored(g) THEN "revoked" ELSE grant[g]]
    /\ sessions' = {}
    /\ closed' = closed \cup sessions \cup cut
    /\ peers' = peers \ sessions
    /\ held' = {l \in held : l \in cut => phase[l] = "hashing"}
    /\ phase' = [l \in Link |->
                   IF \/ l \in sessions /\ phase[l] \in Media
                      \/ l \in cut /\ phase[l] # "hashing"
                   THEN "over" ELSE phase[l]]
    /\ window' \in WindowAfter(sessions)
    /\ UNCHANGED <<trusted, standing, hello>>

(* Remote access is switched off, or the computer is.                      *)
SwitchOff ==
    /\ serving
    /\ Stop
    /\ UNCHANGED permitted

(* The periodic check finds this installation blocked.                     *)
BlockedCheck ==
    /\ serving
    /\ Stop
    /\ permitted' = FALSE

Start ==
    /\ ~ serving
    /\ permitted
    /\ serving' = TRUE
    /\ UNCHANGED <<permitted, trusted, standing, grant, phase, hello, held,
                   closed, sessions, peers, window>>

(* The answer of the authorization service changes, or goes stale.         *)
PermissionChanges ==
    /\ permitted' = ~ permitted
    /\ UNCHANGED <<serving, trusted, standing, grant, phase, hello, held,
                   closed, sessions, peers, window>>

(* A grant's ten minutes, or a trusted device's ninety days, are up.       *)
GrantLapses(g) ==
    /\ grant[g] = "live"
    /\ grant' = [grant EXCEPT ![g] = "lapsed"]
    /\ UNCHANGED <<serving, permitted, trusted, standing, phase, hello, held,
                   closed, sessions, peers, window>>

TrustLapses(v) ==
    /\ v \in trusted
    /\ trusted' = trusted \ {v}
    /\ UNCHANGED <<serving, permitted, standing, grant, phase, hello, held,
                   closed, sessions, peers, window>>

Handshake(l) ==
    \/ Arrive(l) \/ RefuseHello(l) \/ HandshakeFails(l)
    \/ \E v \in Viewer, k \in Kind, g \in Link \cup {NoGrant} : HelloRecognised(l, v, k, g)
    \/ \E v \in Viewer : HelloWithCode(l, v)
    \/ Hashed(l) \/ HashFails(l) \/ Confirm(l)
    \/ \E trust \in BOOLEAN : Allow(l, trust)
    \/ Reject(l)

Session(l) ==
    \/ OpenWindow(l) \/ WindowReady(l) \/ CreateFails(l)
    \/ MediaConnected(l) \/ EndSession(l) \/ Leave(l)

Next ==
    \/ \E l \in Link : Handshake(l) \/ Session(l) \/ GrantLapses(l)
    \/ \E v \in Viewer : RevokeTrust(v) \/ TrustLapses(v)
    \/ SwitchOff \/ BlockedCheck \/ Start \/ PermissionChanges

Spec == Init /\ [][Next]_vars

(* Hashing takes a finite time, and every wait of the handshake has a      *)
(* timer: 15 s for the viewer's messages, 60 s for the person.             *)
Fairness ==
    \A l \in Link : /\ WF_vars(HandshakeFails(l))
                    /\ WF_vars(Hashed(l))
                    /\ WF_vars(Reject(l))

FairSpec == Spec /\ Fairness
-----------------------------------------------------------------------------
TypeOK ==
    /\ serving \in BOOLEAN /\ permitted \in BOOLEAN
    /\ trusted \subseteq Viewer
    /\ standing \in [Viewer -> {"stranger", "approved", "revoked"}]
    /\ grant \in [Link -> GrantState]
    /\ phase \in [Link -> Phase]
    /\ hello \in [Link -> Hello \cup {NoHello}]
    /\ \A l \in Link :
         /\ phase[l] \in {"idle", "hello"} => hello[l] = NoHello
         /\ hello[l] = NoHello => phase[l] \in {"idle", "hello", "over"} /\ grant[l] = "none"
    /\ held \subseteq Link /\ closed \subseteq Link
    /\ sessions \subseteq Link /\ peers \subseteq Link
    /\ window \in Link \cup {NoWindow}

(* The Map, the links, the phases and the peer connections agree: nothing  *)
(* that ends a session - from either end, in any of its phases - leaves one*)
(* of them behind for a session that is still going, and media runs for    *)
(* sessions in the Map only.                                               *)
SessionsHoldTogether ==
    /\ \A l \in sessions : l \notin closed /\ phase[l] \in Starting \cup Media
    /\ \A l \in Link : phase[l] \in Media <=> l \in sessions /\ l \in peers

(* Closing the capture window when it is idle never takes it away from     *)
(* under a session whose screen it captures.                               *)
WindowOutlivesMedia ==
    \A l \in Link : phase[l] \in Media => window # NoWindow

(* No way out of a handshake - refusal, failure, timeout, the viewer or    *)
(* the whole host leaving - keeps an attempt of the limiter.               *)
AttemptsComeBack == \A l \in held : phase[l] \in {"hashing", "challenged"}

(* Whoever is in a session, whichever of the ways in they took, was let in *)
(* by the person here at some time: account and code are asked about, and  *)
(* trust and grants only come from someone having said yes to that key.    *)
NoStrangers == \A l \in sessions : standing[hello[l].viewer] # "stranger"

(* A grant that was revoked is never live again, although resuming a       *)
(* session extends a grant that was looked up seconds earlier.             *)
RevokedStaysRevoked ==
    [][\A g \in Link : grant[g] = "revoked" => grant'[g] = "revoked"]_vars

(* A handshake always ends: in a session or with its link closed.          *)
HandshakesEnd == \A l \in Link : phase[l] \in Handshaking ~> phase[l] \notin Handshaking

-----------------------------------------------------------------------------
(* What the repository says of the program, and the program does not do.   *)

(* docs/ARCHITECTURE.md:134: revoking trust "also ends any session that    *)
(* device has open".                                                       *)
RevokedDevicesAreOut == \A l \in sessions : standing[hello[l].viewer] # "revoked"

(* main.ts:844-851: a blocked computer stops listening, which "ends the    *)
(* sessions it is carrying".                                               *)
StoppedMeansNobody == ~ serving => sessions = {}

(* What host.ts keeps of a session never falls apart, whoever acts at one  *)
(* of its awaits: the Map, the link and the media agree, attempts of the   *)
(* limiter come back, the capture window stays as long as its media.       *)
SessionsStand ==
    TypeOK /\ SessionsHoldTogether /\ AttemptsComeBack /\ WindowOutlivesMedia
=============================================================================
