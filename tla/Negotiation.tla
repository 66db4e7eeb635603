----------------------------- MODULE Negotiation -----------------------------
(* Both sides set up the media connection over the sealed control channel   *)
(* (negotiation.ts): run() of the viewer, which offers, and of the host,    *)
(* which answers, with the peer connection of each in a renderer            *)
(* (rtc-bridge.ts, peer.js).  Messages are handled one after the other, the *)
(* calls to the renderer are awaited, and candidates come at any moment.    *)
EXTENDS Naturals, Sequences

CONSTANT MaxCandidates  \* candidates each side gathers; one more says "done"

ASSUME NegotiationAssumption == MaxCandidates \in Nat

VARIABLES
    mail,           \* control messages on their way to each side
    body,           \* run(): "offering", "waiting", "ok" or "failed"
    broke,          \* its failure has been reported
    handling,       \* what its handler awaits: "nothing", "answer", "apply", "flush", "add"
    adding,         \* the candidate of "add"
    described, held,    \* the candidates that wait for the description
    applied,        \* the candidates the peer connection has been given
    hasLocal, hasRemote,    \* the descriptions the peer connection has
    gathered,       \* candidates it has reported
    linkUp, cut,    \* the control channel; history: it dropped with what was under way
    bad             \* sides that are other programs, whose descriptions are insecure

peers == <<hasLocal, hasRemote, gathered, applied>>
channelState == <<linkUp, cut, bad>>
handler == <<handling, adding, described, held>>
negotiationVars == <<mail, body, broke, handler, peers, channelState>>

Role == {"viewer", "host"}
OtherSide(r) == IF r = "viewer" THEN "host" ELSE "viewer"
Message(kind, n) == [kind |-> kind, n |-> n]
Sends(r, m) == mail' = IF linkUp THEN [mail EXCEPT ![OtherSide(r)] = Append(@, m)] ELSE mail
Running(r) == body[r] \in {"offering", "waiting"}
-----------------------------------------------------------------------------
NegotiationInit ==
    /\ mail = [r \in Role |-> <<>>]
    /\ body = [r \in Role |-> IF r = "viewer" THEN "offering" ELSE "waiting"]
    /\ broke = [r \in Role |-> FALSE] /\ handling = [r \in Role |-> "nothing"]
    /\ adding = [r \in Role |-> 0] /\ described = [r \in Role |-> FALSE]
    /\ held = [r \in Role |-> <<>>] /\ applied = [r \in Role |-> <<>>]
    /\ hasLocal = [r \in Role |-> FALSE] /\ hasRemote = [r \in Role |-> FALSE]
    /\ gathered = [r \in Role |-> 0] /\ linkUp = TRUE /\ cut = FALSE
    /\ bad \in SUBSET Role

(* Mutant: a side that gives up says nothing.                              *)
GivesUpQuietly(r) ==
    /\ body' = [body EXCEPT ![r] = "failed"] /\ broke' = [broke EXCEPT ![r] = TRUE]
    /\ UNCHANGED <<mail, linkUp>>
(* Whoever called a negotiation that failed tears its peer connection      *)
(* down; the host also closes the channel, the viewer leaves it open.      *)
Closes(r) == linkUp' = (linkUp /\ r = "viewer")
(* negotiateAs...() throws, after a `bye`.                                 *)
GivesUp(r) ==
    /\ body' = [body EXCEPT ![r] = "failed"] /\ broke' = [broke EXCEPT ![r] = TRUE]
    /\ Sends(r, Message("bye", 0)) /\ Closes(r)

(* failed(): the viewer notices once its offer is made.                    *)
Breaks(r, rest) ==
    /\ handling' = [handling EXCEPT ![r] = "nothing"]
    /\ IF body[r] = "waiting"
       THEN /\ body' = [body EXCEPT ![r] = "failed"] /\ broke' = [broke EXCEPT ![r] = TRUE]
            /\ Closes(r)
            /\ mail' = IF linkUp THEN [rest EXCEPT ![OtherSide(r)] = Append(@, Message("bye", 0))] ELSE rest
       ELSE broke' = [broke EXCEPT ![r] = TRUE] /\ mail' = rest /\ UNCHANGED <<body, linkUp>>

(* Mutant: only the viewer looks at a description before it is used.       *)
AcceptableToViewer(r, m) ==
    CASE m.kind = "offer" -> r = "host" /\ ~described[r]
      [] m.kind = "answer" -> r = "viewer" /\ ~described[r] /\ OtherSide(r) \notin bad
      [] OTHER -> m.kind # "bye"
(* The checks of the handler, assertSecureSdp() among them.                *)
Acceptable(r, m) ==
    CASE m.kind = "offer" -> r = "host" /\ ~described[r] /\ OtherSide(r) \notin bad
      [] m.kind = "answer" -> r = "viewer" /\ ~described[r] /\ OtherSide(r) \notin bad
      [] OTHER -> m.kind # "bye"

(* Mutant: candidates do not wait for what is being handled.               *)
FreeForCandidates(r, m) == handling[r] = "nothing" \/ (m.kind = "ice" /\ handling[r] = "flush")
(* sequential(): one message at a time.                                    *)
Free(r, m) == handling[r] = "nothing"

(* Mutant: a candidate is added when it comes.                             *)
HoldsBackNever(r) == FALSE
(* addCandidate(): until the description is there, it waits.               *)
HoldsBack(r) == ~described[r]

Handle(r) ==
    /\ mail[r] # <<>> /\ Running(r)
    /\ LET m == Head(mail[r])
           rest == [mail EXCEPT ![r] = Tail(@)]
       IN /\ Free(r, m)
          /\ IF ~Acceptable(r, m) THEN Breaks(r, rest) /\ UNCHANGED <<adding, held>> ELSE
             /\ mail' = rest
             /\ IF m.kind = "ice" /\ HoldsBack(r)
                THEN held' = [held EXCEPT ![r] = Append(@, m.n)] /\ UNCHANGED <<handling, adding>>
                ELSE /\ handling' = [handling EXCEPT ![r] = CASE m.kind = "offer" -> "answer"
                                        [] m.kind = "answer" -> "apply" [] OTHER -> "add"]
                     /\ adding' = [adding EXCEPT ![r] = m.n] /\ UNCHANGED held
             /\ UNCHANGED <<body, broke, linkUp>>
    /\ UNCHANGED <<described, peers, cut, bad>>
-----------------------------------------------------------------------------
(* The renderer: descriptions are set, candidates are reported as soon as  *)
(* there is a local one, and not only after the call has been answered.    *)
SetRemote(r) ==
    /\ handling[r] \in {"answer", "apply"} /\ ~hasRemote[r]
    /\ hasRemote' = [hasRemote EXCEPT ![r] = TRUE]
    /\ UNCHANGED <<mail, body, broke, handler, hasLocal, gathered, applied, channelState>>
SetLocal(r) ==
    /\ ~hasLocal[r] /\ (body[r] = "offering" \/ (handling[r] = "answer" /\ hasRemote[r]))
    /\ hasLocal' = [hasLocal EXCEPT ![r] = TRUE]
    /\ UNCHANGED <<mail, body, broke, handler, hasRemote, gathered, applied, channelState>>
Gather(r) ==
    /\ hasLocal[r] /\ gathered[r] <= MaxCandidates /\ body[r] # "failed"
    /\ gathered' = [gathered EXCEPT ![r] = @ + 1] /\ Sends(r, Message("ice", gathered'[r]))
    /\ UNCHANGED <<body, broke, handler, hasLocal, hasRemote, applied, channelState>>

(* createOffer() is answered.                                              *)
OfferMade ==
    /\ body["viewer"] = "offering" /\ hasLocal["viewer"]
    /\ IF broke["viewer"] THEN GivesUp("viewer")
       ELSE body' = [body EXCEPT !["viewer"] = "waiting"]
            /\ Sends("viewer", Message("offer", 0)) /\ UNCHANGED <<broke, linkUp>>
    /\ UNCHANGED <<handler, peers, cut, bad>>
OfferFails ==
    /\ body["viewer"] = "offering" /\ GivesUp("viewer")
    /\ UNCHANGED <<handler, peers, cut, bad>>

(* answer() and applyAnswer() are: the candidates held back come first.    *)
Described(r) ==
    /\ \/ handling[r] = "answer" /\ hasLocal[r] /\ Sends(r, Message("answer", 0))
       \/ handling[r] = "apply" /\ hasRemote[r] /\ UNCHANGED mail
    /\ described' = [described EXCEPT ![r] = TRUE] /\ handling' = [handling EXCEPT ![r] = "flush"]
    /\ UNCHANGED <<body, broke, adding, held, peers, channelState>>
Flush(r) ==
    /\ handling[r] = "flush"
    /\ IF held[r] = <<>> THEN handling' = [handling EXCEPT ![r] = "nothing"] /\ UNCHANGED <<held, applied>>
       ELSE /\ applied' = [applied EXCEPT ![r] = Append(@, Head(held[r]))]
            /\ held' = [held EXCEPT ![r] = Tail(@)] /\ UNCHANGED handling
    /\ UNCHANGED <<mail, body, broke, adding, described, hasLocal, hasRemote, gathered, channelState>>
AddCandidate(r) ==
    /\ handling[r] = "add" /\ handling' = [handling EXCEPT ![r] = "nothing"]
    /\ applied' = [applied EXCEPT ![r] = Append(@, adding[r])]
    /\ UNCHANGED <<mail, body, broke, adding, described, held, hasLocal, hasRemote, gathered, channelState>>

(* A call that the renderer refuses, or does not answer in time.           *)
CallFails(r) ==
    /\ handling[r] # "nothing" /\ Breaks(r, mail)
    /\ UNCHANGED <<adding, described, held, peers, cut, bad>>
-----------------------------------------------------------------------------
(* connected(): the event, its opposite or the timer.                      *)
Connects(r) ==
    /\ body[r] = "waiting" /\ \A s \in Role : hasLocal[s] /\ hasRemote[s]
    /\ body' = [body EXCEPT ![r] = "ok"]
    /\ UNCHANGED <<mail, broke, handler, peers, channelState>>
Fails(r) ==
    /\ body[r] = "waiting" /\ GivesUp(r)
    /\ UNCHANGED <<handler, peers, cut, bad>>

(* The channel has closed, after what came before.                         *)
NoticesClose(r) ==
    /\ ~linkUp /\ mail[r] = <<>> /\ Running(r) /\ ~broke[r] /\ Breaks(r, mail)
    /\ UNCHANGED <<adding, described, held, peers, cut, bad>>
ChannelDrops ==
    /\ linkUp /\ linkUp' = FALSE /\ cut' = TRUE /\ mail' = [r \in Role |-> <<>>]
    /\ UNCHANGED <<body, broke, handler, peers, bad>>

(* What both sides do however the media connection gets on: messages are   *)
(* handled, calls are answered or time out, a closed channel is noticed.   *)
Proceeds(r) ==
    \/ Handle(r) \/ Described(r) \/ Flush(r) \/ AddCandidate(r) \/ CallFails(r) \/ NoticesClose(r)
    \/ r = "viewer" /\ (OfferMade \/ OfferFails)

NegotiationNext ==
    \/ ChannelDrops
    \/ \E r \in Role : Proceeds(r) \/ SetRemote(r) \/ SetLocal(r) \/ Gather(r) \/ Connects(r) \/ Fails(r)
-----------------------------------------------------------------------------
(* A candidate is never applied before its description, however early it   *)
(* comes (negotiation.ts:43).                                              *)
HeldUntilDescribed == \A r \in Role : applied[r] # <<>> => hasRemote[r]

(* None is lost or overtaken on the way: those applied, added, held back   *)
(* and on their way are those gathered, in that order (negotiation.ts:65). *)
Had(r) == applied[r] \o (IF handling[r] = "add" THEN <<adding[r]>> ELSE <<>>) \o held[r]
Coming(r) == {i \in 1..Len(mail[r]) : mail[r][i].kind = "ice"}
EveryCandidateOnce ==
    \A r \in Role : Running(r) /\ ~broke[r] /\ ~cut /\ linkUp =>
        /\ Had(r) = [i \in 1..Len(Had(r)) |-> i] /\ Len(Had(r)) <= gathered[OtherSide(r)]
        /\ {mail[r][i].n : i \in Coming(r)} = (Len(Had(r)) + 1)..gathered[OtherSide(r)]
        /\ \A i, j \in Coming(r) : i < j => mail[r][i].n < mail[r][j].n

(* A description that is not secure reaches no peer connection, and so no  *)
(* connection comes of it (negotiation.ts:72, :79).                        *)
InsecureIsRefused == \A r \in Role : hasRemote[r] => OtherSide(r) \notin bad

(* A side that gives up leaves no other side waiting for a timer           *)
(* (negotiation.ts:112).                                                   *)
FailureSpreads == \A r \in Role : body[r] = "failed" ~> ~Running(OtherSide(r))
=============================================================================
