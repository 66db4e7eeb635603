----------------------------- MODULE SecureLink -----------------------------
(* The viewer's end of a link while it connects (connectToHost): frames out *)
(* of a byte stream (framing.ts), the inbox that hands them to the          *)
(* handshake, the sealed channel that takes the link over, and the message  *)
(* it waits for first (session.ts).  A frame is a header and a body, a      *)
(* chunk any run of them; what one chunk completes is handled before        *)
(* anything else runs, promises are continued after it.                     *)
EXTENDS Naturals, Sequences

CONSTANTS
    MaxSaid,        \* bound: sealed messages of the host
    MaxMeddles,     \* bound: what is done to the frames on their way
    MaxChunk        \* bound: headers and bodies in one chunk

ASSUME SecureLinkAssumption == {MaxSaid, MaxMeddles, MaxChunk} \subseteq Nat

VARIABLES
    wire,           \* headers and bodies on their way to the viewer
    spoken, allowed,  \* the host: sealed messages so far, its answer
    asked,          \* the viewer's confirm has been sent
    meddles,
    buffered, framed,   \* framing: what has come, and whether its header is read
    closed,
    busy,           \* "reading", "draining", "handing" or "no"
    inbox, inboxFails,  \* queued messages; the failure that next() reports
    batch,          \* drained or pending messages being handed on
    stage,          \* where connectToHost is
    control,        \* the control channel's handler
    highest, pending,
    delivered,      \* what the session's handler got
    left,           \* history: the wait for the answer ran out
    touched         \* history: "forged", "lost", "again": what was done to frames

hostEnd == <<wire, spoken, allowed, asked, meddles, touched>>
reader == <<buffered, framed, busy, batch>>
viewerEnd == <<closed, inbox, inboxFails, stage, control, highest, pending, delivered, left>>
secureVars == <<hostEnd, reader, viewerEnd>>

(* A message: the challenge, a plain error, or something sealed.           *)
Plain(kind) == [kind |-> kind, n |-> 0, forged |-> FALSE]
Sealed(n) == [kind |-> "sealed", n |-> n, forged |-> FALSE]
Framed(m) == <<[part |-> "header", of |-> m], [part |-> "body", of |-> m]>>
Forged(m) == [kind |-> m.kind, n |-> m.n, forged |-> TRUE]
-----------------------------------------------------------------------------
SecureInit ==
    /\ allowed \in BOOLEAN /\ spoken = 0 /\ asked = FALSE
    /\ \/ wire = Framed(Plain("challenge"))
       \/ wire = Framed(Plain("error")) /\ ~allowed
    /\ meddles = 0 /\ touched = {}
    /\ buffered = <<>> /\ framed = FALSE /\ busy = "no" /\ batch = <<>>
    /\ closed = FALSE /\ inbox = <<>> /\ inboxFails = FALSE /\ stage = "hello"
    /\ control = "none" /\ highest = 0 /\ pending = <<>> /\ delivered = <<>> /\ left = FALSE

(* The host answers the confirm, with its first sealed message or a plain  *)
(* error; when it has allowed the session it goes on.                      *)
HostSeals ==
    /\ asked /\ spoken < MaxSaid /\ (spoken > 0 => allowed) /\ spoken' = spoken + 1
    /\ wire' = wire \o Framed(Sealed(spoken'))
    /\ UNCHANGED <<allowed, asked, meddles, touched, reader, viewerEnd>>
HostErrs ==
    /\ asked /\ spoken = 0 /\ ~allowed /\ wire = <<>>
    /\ wire' = Framed(Plain("error"))
    /\ UNCHANGED <<spoken, allowed, asked, meddles, touched, reader, viewerEnd>>

(* Somebody on the way: a sealed frame is made up, altered, held back,     *)
(* repeated or put after the next one.                                     *)
Whole(i) == i \in 1..(Len(wire) - 1) /\ wire[i].part = "header" /\ wire[i].of.kind = "sealed"
Altered(p) == [part |-> p.part, of |-> Forged(p.of)]
Cut(i) == SubSeq(wire, 1, i - 1) \o SubSeq(wire, i + 2, Len(wire))
Meddle ==
    /\ meddles < MaxMeddles /\ meddles' = meddles + 1
    /\ \/ /\ touched' = touched \cup {"forged"}
          /\ \/ wire' = wire \o Framed(Forged(Sealed(1)))
             \/ \E i \in 1..Len(wire) : Whole(i) /\
                    wire' = [wire EXCEPT ![i] = Altered(@), ![i + 1] = Altered(@)]
       \/ \E i \in 1..Len(wire) : /\ Whole(i) /\ touched' = touched \cup {"lost"}
                                 /\ wire' = Cut(i)
       \/ \E i \in 1..Len(wire) : /\ Whole(i) /\ touched' = touched \cup {"again"}
                                 /\ wire' \in {Cut(i) \o Framed(wire[i].of), wire \o Framed(wire[i].of)}
    /\ UNCHANGED <<spoken, allowed, asked, reader, viewerEnd>>
-----------------------------------------------------------------------------
(* FramedLink.receive() of one chunk.                                      *)
Chunk(k) ==
    /\ busy = "no" /\ ~closed /\ k \in 1..Len(wire)
    /\ buffered' = buffered \o SubSeq(wire, 1, k) /\ wire' = SubSeq(wire, k + 1, Len(wire))
    /\ busy' = "reading"
    /\ UNCHANGED <<spoken, allowed, asked, meddles, touched, framed, batch, viewerEnd>>

ReadHeader ==
    /\ busy = "reading" /\ ~framed
    /\ IF buffered = <<>> THEN busy' = "no" /\ UNCHANGED <<buffered, framed>>
       ELSE framed' = TRUE /\ buffered' = Tail(buffered) /\ UNCHANGED busy
    /\ UNCHANGED <<hostEnd, batch, viewerEnd>>

(* close(): the buffer goes, and everyone who waits on the link is told.   *)
Outcome == IF stage \in {"hello", "answer"} THEN "failed" ELSE stage
CloseLink ==
    /\ closed' = TRUE /\ inboxFails' = TRUE /\ stage' = Outcome
    /\ UNCHANGED <<inbox, control, highest, pending, delivered, left>>

(* The Inbox gives a message to whoever waits, or keeps it.                *)
ToInbox(m) ==
    /\ IF stage = "hello" THEN stage' = "challenged" /\ inbox' = <<m>> \o inbox
                          ELSE inbox' = Append(inbox, m) /\ UNCHANGED stage
    /\ UNCHANGED <<closed, inboxFails, control, highest, pending, delivered, left>>

(* A frame that opened.  Without a handler it is kept; expect() takes one  *)
(* message and lets go, and the wrong one closes the link.                 *)
Offer(m) ==
    /\ highest' = m.n /\ control' = IF control = "expect" THEN "none" ELSE control
    /\ CASE control = "none" -> pending' = Append(pending, m) /\ UNCHANGED <<stage, closed, inboxFails, delivered>>
         [] control = "expect" ->
              IF stage = "answer" /\ m.n = 1
              THEN stage' = "answered" /\ UNCHANGED <<pending, closed, inboxFails, delivered>>
              ELSE closed' = TRUE /\ inboxFails' = TRUE /\ stage' = Outcome /\ UNCHANGED <<pending, delivered>>
         [] control = "session" -> delivered' = Append(delivered, m.n) /\ UNCHANGED <<pending, stage, closed, inboxFails>>
    /\ UNCHANGED <<inbox, left>>

(* Mutant: a frame opens whatever came before it.                          *)
OpensAnyOf(m) == m.kind = "sealed" /\ ~m.forged
(* SealedChannel.open().                                                   *)
OpensNext(m) == m.kind = "sealed" /\ ~m.forged /\ m.n > highest

(* Mutant: a frame that does not open is passed over.                      *)
SkipBad(m) ==
    IF OpensNext(m) THEN Offer(m) ELSE
    UNCHANGED <<closed, inbox, inboxFails, stage, control, highest, pending, delivered, left>>
(* SecureControl.receive().                                                *)
ToControl(m) == IF OpensNext(m) THEN Offer(m) ELSE CloseLink

ReadBody ==
    /\ busy = "reading" /\ framed
    /\ IF buffered = <<>> THEN busy' = "no" /\ UNCHANGED <<buffered, framed, viewerEnd>>
       ELSE LET m == buffered[1].of IN
            /\ framed' = FALSE
            /\ IF stage \in {"hello", "challenged"} THEN ToInbox(m) ELSE ToControl(m)
            /\ buffered' = (IF closed' THEN <<>> ELSE Tail(buffered))
            /\ busy' = (IF closed' THEN "no" ELSE busy)
    /\ UNCHANGED <<hostEnd, batch>>
-----------------------------------------------------------------------------
(* Mutant: what is not the challenge is not answered, and that is all.     *)
AnswerOrNot ==
    /\ busy = "no" /\ stage = "challenged"
    /\ IF inbox[1].kind = "challenge"
       THEN /\ asked' = ~closed /\ stage' = "draining" /\ busy' = "draining"
            /\ batch' = Tail(inbox) /\ inbox' = <<>>
       ELSE stage' = "failed" /\ UNCHANGED <<asked, busy, batch, inbox>>
    /\ UNCHANGED <<wire, spoken, allowed, meddles, touched, buffered, framed,
                   closed, inboxFails, control, highest, pending, delivered, left>>
(* next() resolved: the challenge is answered and the sealed channel takes *)
(* the link, with whatever the inbox still holds.  Anything else ends it.  *)
Answer ==
    /\ busy = "no" /\ stage = "challenged"
    /\ IF inbox[1].kind = "challenge"
       THEN /\ asked' = ~closed /\ stage' = "draining" /\ busy' = "draining"
            /\ batch' = Tail(inbox) /\ inbox' = <<>>
            /\ UNCHANGED <<closed, inboxFails>>
       ELSE /\ closed' = TRUE /\ inboxFails' = TRUE /\ stage' = "failed"
            /\ UNCHANGED <<asked, busy, batch, inbox>>
    /\ UNCHANGED <<wire, spoken, allowed, meddles, touched, buffered, framed,
                   control, highest, pending, delivered, left>>

Drain ==
    /\ busy = "draining" /\ batch # <<>> /\ batch' = Tail(batch) /\ ToControl(batch[1])
    /\ UNCHANGED <<hostEnd, buffered, framed, busy>>

(* expect(): a link that has closed rejects it; what is pending comes      *)
(* first.                                                                  *)
Expect ==
    /\ busy = "draining" /\ batch = <<>>
    /\ stage' = (IF closed THEN "failed" ELSE "answer")
    /\ control' = "expect" /\ batch' = pending /\ pending' = <<>> /\ busy' = "handing"
    /\ UNCHANGED <<hostEnd, buffered, framed, closed, inbox, inboxFails, highest, delivered, left>>

(* onMessage() hands over what is pending: to expect() even after it has   *)
(* its answer.                                                             *)
Hand ==
    /\ busy = "handing" /\ batch # <<>> /\ batch' = Tail(batch)
    /\ IF control = "session"
       THEN delivered' = Append(delivered, batch[1].n) /\ UNCHANGED <<stage, closed, inboxFails, control>>
       ELSE /\ control' = "none" /\ UNCHANGED delivered
            /\ IF batch[1].n = 1 THEN stage' = (IF stage = "answer" THEN "answered" ELSE stage) /\ UNCHANGED <<closed, inboxFails>>
               ELSE closed' = TRUE /\ inboxFails' = TRUE /\ stage' = Outcome
    /\ UNCHANGED <<hostEnd, buffered, framed, busy, inbox, highest, pending, left>>
Handed ==
    /\ busy = "handing" /\ batch = <<>> /\ busy' = "no"
    /\ UNCHANGED <<hostEnd, buffered, framed, batch, viewerEnd>>

(* Mutant: a new handler gets what comes from now on.                      *)
ReturnAfresh ==
    /\ busy = "no" /\ stage = "answered"
    /\ IF allowed THEN stage' = "session" /\ control' = "session" /\ UNCHANGED <<closed, inboxFails>>
       ELSE stage' = "failed" /\ closed' = TRUE /\ inboxFails' = TRUE /\ UNCHANGED control
    /\ UNCHANGED <<hostEnd, reader, inbox, highest, pending, delivered, left>>
(* connectToHost() returns, or throws what the host refused; its caller    *)
(* starts the negotiation, which listens.                                  *)
Return ==
    /\ busy = "no" /\ stage = "answered"
    /\ IF allowed
       THEN /\ stage' = "session" /\ control' = "session" /\ busy' = "handing"
            /\ batch' = pending /\ pending' = <<>> /\ UNCHANGED <<closed, inboxFails>>
       ELSE /\ stage' = "failed" /\ closed' = TRUE /\ inboxFails' = TRUE
            /\ UNCHANGED <<control, busy, batch, pending>>
    /\ UNCHANGED <<hostEnd, buffered, framed, inbox, highest, delivered, left>>
-----------------------------------------------------------------------------
(* Mutant: there is no limit to the wait for the answer.                   *)
TimeoutAtFirst ==
    /\ busy = "no" /\ stage = "hello" /\ stage' = "failed" /\ closed' = TRUE /\ inboxFails' = TRUE
    /\ UNCHANGED <<hostEnd, reader, inbox, highest, pending, delivered, control, left>>
(* The other side did not answer in time: the handshake closes the link,   *)
(* the wait for the answer does not.                                       *)
Timeout ==
    /\ busy = "no" /\ stage \in {"hello", "answer"} /\ stage' = "failed"
    /\ IF stage = "hello" THEN closed' = TRUE /\ inboxFails' = TRUE /\ UNCHANGED <<control, left>>
       ELSE control' = "none" /\ left' = TRUE /\ UNCHANGED <<closed, inboxFails>>
    /\ UNCHANGED <<hostEnd, reader, inbox, highest, pending, delivered>>

LinkDrops == busy = "no" /\ ~closed /\ CloseLink /\ UNCHANGED <<hostEnd, reader>>

(* What runs to its end once it has begun.                                 *)
Runs == ReadHeader \/ ReadBody \/ Drain \/ Expect \/ Hand \/ Handed

SecureNext ==
    \/ HostSeals \/ HostErrs \/ Meddle \/ (\E k \in 1..MaxChunk : Chunk(k))
    \/ Runs \/ Answer \/ Return \/ Timeout \/ LinkDrops
-----------------------------------------------------------------------------
(* Whatever is done to the frames on their way, the session is given what  *)
(* the host sealed, in its order, once (channel.ts:75, session.ts:79).     *)
Promised == INSTANCE OrderedLink WITH said <- spoken
LinkIsOrdered == Promised!LinkSpec

(* Nothing is lost between the chunk, the inbox, the channel and the       *)
(* handlers that follow one another: what an honest link brought to a      *)
(* session that is listening has been delivered (session.ts:96, :117).     *)
NothingIsSwallowed ==
    stage = "session" /\ busy = "no" /\ touched = {} /\ ~closed =>
        delivered = [i \in 1..(highest - 1) |-> i + 1]
        /\ (wire = <<>> => highest = spoken)

(* A forged frame never passes unnoticed: once none is on its way any      *)
(* more, the link has ended (session.ts:79, :100).                         *)
TamperingIsFatal ==
    /\ "forged" \in touched /\ "lost" \notin touched /\ busy = "no"
    /\ \A q \in {wire, buffered} : \A i \in 1..Len(q) : ~q[i].of.forged
    /\ \A i \in 1..Len(inbox) : ~inbox[i].forged
    => closed

(* Of a connection that failed nothing stays open, except when the host    *)
(* never answered: expect() times out and leaves the link (session.ts:119).*)
FailedIsClosed == stage = "failed" /\ busy = "no" => closed \/ left

(* Connecting ends, one way or the other (session.ts:61, :119).            *)
ConnectingEnds == stage \in {"challenged", "draining", "answer", "answered"} ~> stage \in {"session", "failed"}

(* A link hands on all that an honest network brought, ends for good when  *)
(* it failed, and fails when somebody altered what it carries.             *)
LinkHolds == NothingIsSwallowed /\ FailedIsClosed /\ TamperingIsFatal
=============================================================================
