----------------------------- MODULE RelayClient -----------------------------
(***************************************************************************)
(* The relay client, packages/transport/src/relay.ts: one connection that  *)
(* is made again when it is lost, the sessions carried in it, and requests *)
(* for sessions, told apart only by the computer they ask for.             *)
(*                                                                         *)
(* A handler of the socket or of a timer is one step.  The server answers  *)
(* each request, with a session or a refusal, and introduces others; what  *)
(* it says arrives in order, unless the connection is lost.                *)
(***************************************************************************)
EXTENDS Naturals, SequencesExt

CONSTANTS
    Target,     \* computers asked for
    Req,        \* calls of requestSession
    Sess,       \* sessions; ids are not used again
    MaxSockets, \* bound: connections tried
    MaxFrames   \* bound: frames sent to us in a session

\* "none" is nobody's name: it stands for an entry that is not in a Map.
ASSUME RelayClientAssumption ==
    /\ MaxSockets \in Nat \ {0} /\ MaxFrames \in Nat
    /\ "none" \notin Target \cup Req \cup Sess

VARIABLES
    socket,     \* "none", "opening" or "ready", or "closing" after close()
    sockets,    \* counter for the bound
    closing,
    retryTimer,
    waiter,     \* connect()'s promise: "none", "waiting" or "settled", or "thrown"
    refused,    \* history: the last close was final
    request,    \* of each call: its target, whether its timer runs, its result
    pending,    \* pendingConnects: for each target the call in the Map, or None
    wire,       \* requests at the server, oldest first
    inbox,      \* what it said, oldest first
    carried,    \* sessions
    link        \* RelayLink: closed, hasHandler, backlog, and what was handled

online == socket = "ready"
dialling == <<socket, sockets, closing, retryTimer, waiter, refused>>
requests == <<request, pending>>
traffic == <<wire, inbox>>
links == <<carried, link>>
relayVars == <<dialling, requests, traffic, links>>

None == "none"
Fresh == [target |-> None, timer |-> FALSE, result |-> None]
NoLink == [told |-> FALSE, made |-> FALSE, closed |-> FALSE, heard |-> FALSE, backlog |-> <<>>, got |-> <<>>, sent |-> 0]
Settle(r, result) == [request[r] EXCEPT !.timer = FALSE, !.result = result]
Open(r) == request[r].target # None /\ request[r].result = None
-----------------------------------------------------------------------------
RelayInit ==
    /\ socket = "none" /\ sockets = 0 /\ closing = FALSE /\ retryTimer = FALSE
    /\ waiter = "none" /\ refused = FALSE
    /\ request = [r \in Req |-> Fresh]
    /\ pending = [t \in Target |-> None]
    /\ wire = <<>> /\ inbox = <<>>
    /\ carried = {} /\ link = [s \in Sess |-> NoLink]
-----------------------------------------------------------------------------
(* connect(), once: the account client makes a client for each.            *)
Connect ==
    /\ waiter = "none" /\ ~closing
    /\ socket' = "opening" /\ sockets' = sockets + 1
    /\ waiter' = "waiting"
    /\ UNCHANGED <<closing, retryTimer, refused, requests, traffic, links>>

(* open(), at connect(): the socket cannot be made, for its address.  The  *)
(* promise is rejected and, as it is there to be rejected, fail() sets no  *)
(* timer.  At a retry it sets one, and nothing has changed.                *)
ConnectThrows ==
    /\ waiter = "none" /\ ~closing
    /\ waiter' = "thrown"
    /\ UNCHANGED <<socket, sockets, closing, retryTimer, refused, requests, traffic, links>>

(* The retry timer.                                                        *)
Retry ==
    /\ retryTimer /\ sockets < MaxSockets
    /\ retryTimer' = FALSE
    /\ socket' = "opening" /\ sockets' = sockets + 1
    /\ UNCHANGED <<closing, waiter, refused, requests, traffic, links>>

(* `ready', in answer to our token.                                        *)
Ready ==
    /\ socket = "opening"
    /\ socket' = "ready"
    /\ waiter' = "settled"
    /\ UNCHANGED <<sockets, closing, retryTimer, refused, requests, traffic, links>>

(* Links of these sessions hear that they ended.                           *)
EndedIn(ended) == [s \in Sess |-> [link[s] EXCEPT !.closed = @ \/ s \in ended]]

(* Mutant: a connection that was refused is not tried again.               *)
RetriesIfOnline(permanent) ==
    IF permanent \/ closing \/ (waiter = "waiting") THEN retryTimer ELSE TRUE
(* scheduleRetry, reached on every path but the final refusals.            *)
Retries(permanent) == IF permanent \/ closing THEN retryTimer ELSE TRUE

(* Those in the Map are rejected; one that was overwritten is not in it.   *)
RejectsPending ==
    /\ request' = [r \in Req |-> IF \E t \in Target : pending[t] = r
                                 THEN Settle(r, "failed") ELSE request[r]]
    /\ pending' = [t \in Target |-> None]

(* onclose: with 4001, 4003 or 4006 for good.                              *)
Closed(permanent) ==
    /\ socket # "none"
    /\ socket' = "none"
    /\ refused' = permanent
    /\ retryTimer' = Retries(permanent)
    /\ waiter' = "settled"
    /\ RejectsPending
    /\ carried' = {} /\ link' = EndedIn(carried)
    /\ wire' = <<>> /\ inbox' = <<>>
    /\ UNCHANGED <<sockets, closing>>

(* Mutant: the sessions are not told.                                      *)
ClosesQuietly ==
    /\ ~closing /\ closing' = TRUE
    /\ retryTimer' = FALSE
    /\ socket' = IF socket = "none" THEN "none" ELSE "closing"
    /\ inbox' = <<>>
    /\ UNCHANGED <<sockets, waiter, refused, requests, wire, links>>
(* close(): nothing that arrives afterwards is heard.  The requests are    *)
(* rejected when the socket's close is reported.                           *)
Close ==
    /\ ~closing /\ closing' = TRUE
    /\ retryTimer' = FALSE
    /\ socket' = IF socket = "none" THEN "none" ELSE "closing"
    /\ inbox' = <<>>
    /\ carried' = {} /\ link' = EndedIn(carried)
    /\ UNCHANGED <<sockets, waiter, refused, requests, wire>>

(* requestSession: the Map's entry for that computer is overwritten.       *)
RequestSession(r, t) ==
    /\ online /\ request[r] = Fresh
    /\ request' = [request EXCEPT ![r] = [target |-> t, timer |-> TRUE, result |-> None]]
    /\ pending' = [pending EXCEPT ![t] = r]
    /\ wire' = Append(wire, t)
    /\ UNCHANGED <<dialling, inbox, links>>

(* Its timer deletes the entry, whosever it is by now.                     *)
RequestTimesOut(r) ==
    /\ request[r].timer
    /\ request' = [request EXCEPT ![r] = Settle(r, "failed")]
    /\ pending' = [pending EXCEPT ![request[r].target] = None]
    /\ UNCHANGED <<dialling, traffic, links>>

(* Mutant: the session is given to whoever asked last, for any computer.   *)
LastPending(t) == IF pending[t] # None THEN pending[t]
                  ELSE IF \E u \in Target : pending[u] # None
                       THEN pending[CHOOSE u \in Target : pending[u] # None] ELSE None
(* The request in the Map for this computer.                               *)
PendingFor(t) == pending[t]

(* Mutant: a session nobody waits for gets no link.                        *)
IntroducedToWaiter(s, t) ==
    /\ carried' = carried \cup {s}
    /\ link' = [link EXCEPT ![s].made = PendingFor(t) # None]
    /\ request' = IF PendingFor(t) = None THEN request
                  ELSE [request EXCEPT ![PendingFor(t)] = Settle(PendingFor(t), t)]
    /\ pending' = [pending EXCEPT ![t] = None]
(* `session': the request is fulfilled, if there is one.  The link is made *)
(* and the session carried in any case.                                    *)
Introduced(s, t) ==
    /\ carried' = carried \cup {s}
    /\ link' = [link EXCEPT ![s].made = TRUE]
    /\ request' = IF PendingFor(t) = None THEN request
                  ELSE [request EXCEPT ![PendingFor(t)] = Settle(PendingFor(t), t)]
    /\ pending' = [pending EXCEPT ![t] = None]
(* `connect-failed'.                                                       *)
Failed(t) ==
    /\ request' = IF PendingFor(t) = None THEN request
                  ELSE [request EXCEPT ![PendingFor(t)] = Settle(PendingFor(t), "failed")]
    /\ pending' = [pending EXCEPT ![t] = None]
    /\ UNCHANGED links
(* Mutant: what comes before there is a handler is dropped.                *)
DeliversOnlyHeard(s, n) ==
    /\ link' = [link EXCEPT ![s] =
                   IF @.closed \/ ~@.heard THEN @ ELSE [@ EXCEPT !.got = Append(link[s].got, n)]]
    /\ UNCHANGED <<carried, requests>>
(* `frame': to the handler, or kept until there is one.                    *)
Delivers(s, n) ==
    /\ link' = [link EXCEPT ![s] =
                   IF @.closed THEN @
                   ELSE IF @.heard THEN [@ EXCEPT !.got = Append(link[s].got, n)]
                   ELSE [@ EXCEPT !.backlog = Append(link[s].backlog, n)]]
    /\ UNCHANGED <<carried, requests>>

(* receive.  What concerns a session that is not carried is ignored.       *)
Receive ==
    /\ online /\ inbox # <<>>
    /\ inbox' = Tail(inbox)
    /\ LET m == Head(inbox) IN
       CASE m.type = "session" -> Introduced(m.session, m.target)
         [] m.type = "incoming" ->
               /\ carried' = carried \cup {m.session}
               /\ link' = [link EXCEPT ![m.session].made = TRUE]
               /\ UNCHANGED requests
         [] m.type = "failed" -> Failed(m.target)
         [] m.type = "frame" /\ m.session \in carried -> Delivers(m.session, m.number)
         [] m.type = "ended" /\ m.session \in carried ->
               /\ carried' = carried \ {m.session}
               /\ link' = EndedIn({m.session})
               /\ UNCHANGED requests
         [] OTHER -> UNCHANGED <<links, requests>>
    /\ UNCHANGED <<dialling, wire>>

(* RelayLink.onMessage: what was kept is handed over first.                *)
OnMessage(s) ==
    /\ link[s].made /\ ~link[s].heard
    /\ link' = [link EXCEPT ![s] =
                  [@ EXCEPT !.heard = TRUE, !.got = link[s].got \o link[s].backlog, !.backlog = <<>>]]
    /\ UNCHANGED <<dialling, requests, traffic, carried>>

(* RelayLink.close, closeSession: the server is told while it can be.      *)
CloseLink(s) ==
    /\ link[s].made /\ ~link[s].closed
    /\ carried' = carried \ {s}
    /\ link' = EndedIn({s})
    /\ UNCHANGED <<dialling, requests, traffic>>
-----------------------------------------------------------------------------
(* The server: answers in the order of the requests, introduces a viewer,  *)
(* passes frames on and ends sessions.                                     *)
Says(m) == inbox' = Append(inbox, m)
Message == [type : {"session", "incoming", "failed", "frame", "ended"}, session : Sess \cup {None},
            target : Target \cup {None}, number : 0..MaxFrames]
About(type, s) == [type |-> type, session |-> s, target |-> None, number |-> 0]
AboutRequest(type, s, t) == [type |-> type, session |-> s, target |-> t, number |-> 0]
Frame(s, n) == [type |-> "frame", session |-> s, target |-> None, number |-> n]
Tells(s) == link' = [link EXCEPT ![s].told = TRUE]
ServerAnswers ==
    /\ online /\ wire # <<>>
    /\ wire' = Tail(wire)
    /\ \/ \E s \in Sess :
              /\ ~link[s].told /\ Tells(s)
              /\ Says(AboutRequest("session", s, Head(wire)))
       \/ UNCHANGED link /\ Says(AboutRequest("failed", None, Head(wire)))
    /\ UNCHANGED <<dialling, requests, carried>>
ServerIntroduces(s) ==
    /\ online /\ ~link[s].told /\ Tells(s)
    /\ Says(About("incoming", s))
    /\ UNCHANGED <<dialling, requests, wire, carried>>
Runs(s) ==
    LET about == {m \in Range(inbox) : m.session = s} IN
    /\ s \in carried \/ \E m \in about : m.type \in {"session", "incoming"}
    /\ \A m \in about : m.type # "ended"
ServerSends(s) ==
    /\ online /\ Runs(s) /\ link[s].sent < MaxFrames
    /\ link' = [link EXCEPT ![s].sent = @ + 1]
    /\ Says(Frame(s, link[s].sent + 1))
    /\ UNCHANGED <<dialling, requests, wire, carried>>
ServerEnds(s) ==
    /\ online /\ Runs(s)
    /\ Says(About("ended", s))
    /\ UNCHANGED <<dialling, requests, wire, links>>

RelayNext ==
    \/ Connect \/ ConnectThrows \/ Retry \/ Ready \/ Close \/ Receive \/ ServerAnswers
    \/ \E permanent \in BOOLEAN : Closed(permanent)
    \/ \E r \in Req : RequestTimesOut(r) \/ \E t \in Target : RequestSession(r, t)
    \/ \E s \in Sess :
          \/ OnMessage(s) \/ CloseLink(s)
          \/ ServerIntroduces(s) \/ ServerSends(s) \/ ServerEnds(s)
-----------------------------------------------------------------------------
RelayTypeOK ==
    /\ socket \in {"none", "opening", "ready", "closing"}
    /\ sockets \in 0..MaxSockets
    /\ waiter \in {"none", "waiting", "settled", "thrown"}
    /\ \A t \in Target : pending[t] \in Req \cup {None}
    /\ \A m \in Range(inbox) : m \in Message
    /\ carried \subseteq {s \in Sess : link[s].made}

(* Until it is closed, or refused for good, there is a connection or a     *)
(* timer to make one - and never both, so that there are never two         *)
(* connections for one computer (onclose, fail, scheduleRetry).  Whoever   *)
(* was told at once that no socket can be made has neither.                *)
KeepsTrying ==
    /\ waiter \in {"waiting", "settled"} /\ ~closing /\ ~refused => (socket # "none") # retryTimer
    /\ closing \/ refused \/ waiter = "thrown" => ~retryTimer /\ (waiter = "thrown" => socket = "none")

(* A request that is not settled has its timer; one that is in the Map is  *)
(* not settled, and is there under the computer it asked for; and a        *)
(* session is given to a request for that computer (pendingConnects).      *)
RequestsEnd ==
    /\ \A r \in Req : Open(r) <=> request[r].timer
    /\ \A t \in Target : pending[t] # None => Open(pending[t]) /\ request[pending[t]].target = t
    /\ \A r \in Req : request[r].result \in {None, "failed", request[r].target}

(* Nobody waits longer than the connection: whoever is in the Map is told  *)
(* when it is lost, and sessions end with it (onclose, close).             *)
NothingOutlivesTheConnection ==
    /\ socket = "none" => \A t \in Target : pending[t] = None
    /\ carried # {} => online
    /\ \A s \in Sess : link[s].made /\ ~link[s].closed <=> s \in carried

(* A link hands over every frame that reached it, once and in the order    *)
(* sent, whenever its handler is attached (deliver, onMessage).            *)
FramesInOrder ==
    \A s \in Sess :
        /\ \A i \in DOMAIN link[s].got : link[s].got[i] = i
        /\ link[s].heard => link[s].backlog = <<>>
        /\ link[s].backlog # <<>> => link[s].got = <<>> /\ link[s].backlog[1] = 1

(* What relay.ts owes its callers however its socket ends: a client that   *)
(* was not closed is connected or about to try, a request waits for an     *)
(* answer or a timer, nothing outlives its connection, frames keep order.  *)
RelayClientHolds ==
    RelayTypeOK /\ KeepsTrying /\ RequestsEnd /\ NothingOutlivesTheConnection /\ FramesInOrder
=============================================================================
