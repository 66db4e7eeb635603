----------------------------- MODULE RfbClient -----------------------------
(***************************************************************************)
(* The VNC client, packages/core/src/protocols/rfb.ts: what it makes of a  *)
(* byte stream that TCP cuts wherever it likes.                            *)
(*                                                                         *)
(* A message is a sequence of pieces: a fixed part, a counted list, a      *)
(* rectangle's header, a tile.  A piece has arrived when its last byte     *)
(* has.  The first piece names the message, and a rectangle's header its   *)
(* encoding.  Pixels, names, reasons and texts are left out, and so is     *)
(* what the password is encrypted to.                                      *)
(***************************************************************************)
EXTENDS Naturals, FiniteSets, Sequences

CONSTANTS
    Updates,       \* framebuffer updates the server may send
    Others,        \* and its other messages
    MaxMessages    \* messages of a server that is ready

ASSUME RfbAssumption == MaxMessages \in Nat

VARIABLES
    password,    \* opts.password is set
    state,       \* where the client is in the protocol
    minor,       \* negotiated version, 3, 7 or 8
    buffer,      \* pieces received and not consumed
    draining,    \* drain() is running
    rectsLeft, pendingRect, tilesLeft,
    had, layout, \* updateHadContent, updateAnnouncedLayout
    lastKind,    \* of lastRequest: "none", "incremental" or "full"
    closed,
    promise,     \* of connect(): "none", "pending", "resolved" or "rejected"
    owner,       \* whoever asks for updates: "idle" or "waiting" for the end
    sent,        \* every message of the server, with its end in the stream
    wire,        \* pieces sent and not received
    requests,    \* update requests the server has not answered
    handled      \* messages of the server that were handled to the end

rfbVars == <<password, state, minor, buffer, draining, rectsLeft, pendingRect, tilesLeft, had,
             layout, lastKind, closed, promise, owner, sent, wire,
             requests, handled>>

parse == <<rectsLeft, pendingRect, tilesLeft, had, layout>>
outside == <<password, sent, wire>>
requesting == <<lastKind, owner, requests>>

Handshake == {"version", "security", "security33", "auth", "result", "init"}
Refusal == <<"zero", "length", "reason">>

(* What a server may send next, by where the client has got to: it waits   *)
(* for the client's answer in every phase but the last.                    *)
Messages ==
    CASE state = "version"    -> {<<"3">>, <<"7">>, <<"8">>, <<"not VNC">>}
      [] state = "security33" -> {Refusal, <<"None">>, <<"VncAuth">>, <<"other">>}
      [] state = "security"   -> {Refusal} \cup
                                 {<<"count", t>> : t \in {"None", "VncAuth", "both", "other"}}
      [] state = "auth"       -> {<<"challenge">>}
      [] state = "result"     -> {<<"ok">>, IF minor = 8 THEN <<"bad", "length", "reason">>
                                                         ELSE <<"bad">>}
      [] state = "init"       -> {<<"init", "name">>}
      [] OTHER                -> Others \cup (IF requests > 0 THEN Updates ELSE {})

(* Pieces that follow a rectangle's header; a tile of Hextile has two.     *)
Body(r) ==
    CASE r \in {"raw", "copy"}                     -> 1
      [] r \in {"rre", "layout", "moved", "rejected"} -> 2
      [] OTHER                                     -> 0

Tiles == 2
RectCount(m) == CASE m = "update0" -> 0 [] m = "update1" -> 1 [] OTHER -> 2
Min2(a, b) == IF a < b THEN a ELSE b

(* A server keeps to the protocol as far as the client can follow it.  In  *)
(* message m, n rectangles follow piece i, up to one the client cannot     *)
(* read.                                                                   *)
Size(r) == IF r = "hextile" THEN 2 * Tiles ELSE Body(r)
Behind(m, i) == i + 1 + Size(m[i + 1])
RectsFollow(m, i, n) ==
    /\ n = 0 => i = Len(m)
    /\ n > 0 => i < Len(m)
    /\ n = 1 => m[i + 1] = "unknown" \/ Behind(m, i) = Len(m)
    /\ n = 2 => \/ m[i + 1] = "unknown"
                \/ /\ Behind(m, i) < Len(m)
                   /\ m[Behind(m, i) + 1] = "unknown" \/ Behind(m, Behind(m, i)) = Len(m)

ASSUME ServerAssumption ==
    /\ Updates \cup Others \subseteq Seq(STRING) \ {<<>>}
    /\ \A m \in Updates : m[1] \in {"update0", "update1", "update2"} /\ RectsFollow(m, 1, RectCount(m[1]))
    /\ \A m \in Others :
          \/ m[1] \in {"bell", "EndOfContinuousUpdates", "junk"} /\ Len(m) = 1
          \/ m[1] = "cut" /\ Len(m) = 2 /\ m[2] = "too long"
          \/ m[1] = "cut" /\ Len(m) = 3 /\ m[2] = "length"
-----------------------------------------------------------------------------
RfbInit ==
    /\ password \in BOOLEAN
    /\ state = "version" /\ minor = 8 /\ buffer = <<>> /\ draining = FALSE
    /\ rectsLeft = 0 /\ pendingRect = "none" /\ tilesLeft = 0
    /\ had = FALSE /\ layout = FALSE
    /\ lastKind = "none" /\ closed = FALSE /\ promise = "none" /\ owner = "idle"
    /\ sent = <<>> /\ wire = <<>> /\ requests = 0 /\ handled = 0

ConsumeOnce(n) ==
    /\ buffer' = SubSeq(buffer, n + 1, Len(buffer))
    /\ draining' = FALSE

(* connect() starts the timer and opens the socket.                        *)
ConnectClient ==
    /\ promise = "none" /\ promise' = "pending"
    /\ UNCHANGED <<state, minor, buffer, draining, parse, requesting, closed, outside, handled>>

(* A read that consumes n pieces, and drain() that goes on only if the     *)
(* read consumed some.                                                     *)
Consume(n) ==
    /\ buffer' = SubSeq(buffer, n + 1, Len(buffer))
    /\ draining' = (n > 0)

Has(n) == Len(buffer) >= n

(* A read throws: fail() from the data handler.                            *)
Throw(n) ==
    /\ buffer' = SubSeq(buffer, n + 1, Len(buffer)) /\ draining' = FALSE
    /\ closed' = TRUE
    /\ promise' = IF promise = "pending" THEN "rejected" ELSE promise
    /\ handled' = handled + 1
    /\ UNCHANGED <<state, minor, parse, requesting, outside>>

(* A read that finds too little leaves everything as it was.               *)
Short == Consume(0) /\ UNCHANGED <<state, minor, parse, requesting, closed,
                                   promise, outside, handled>>

(* A handshake message of n pieces moves the client on.                    *)
Passes(n, s) ==
    /\ Consume(n) /\ state' = s /\ handled' = handled + 1
    /\ UNCHANGED <<parse, requesting, closed, outside>>

ReadVersion ==
    /\ draining /\ state = "version"
    /\ \/ ~ Has(1) /\ Short
       \/ Has(1) /\ Head(buffer) = "not VNC" /\ Throw(1)
       \/ /\ Has(1) /\ Head(buffer) # "not VNC"
          /\ minor' = CASE Head(buffer) = "3" -> 3 [] Head(buffer) = "7" -> 7 [] OTHER -> 8
          /\ Passes(1, IF minor' = 3 THEN "security33" ELSE "security")
          /\ UNCHANGED promise

ReadSecurity33 ==
    /\ draining /\ state = "security33"
    /\ \/ ~ Has(1) /\ Short
       \/ /\ Has(1) /\ Head(buffer) = "zero"
          /\ IF Has(3) THEN Throw(3) ELSE Short
       \/ /\ Has(1) /\ \/ Head(buffer) = "other"
                       \/ Head(buffer) = "VncAuth" /\ ~ password
          /\ Throw(1)
       \/ /\ Has(1) /\ \/ Head(buffer) = "None"
                       \/ Head(buffer) = "VncAuth" /\ password
          /\ Passes(1, IF Head(buffer) = "None" THEN "init" ELSE "auth")
          /\ UNCHANGED <<minor, promise>>

Offers(t) == buffer[2] \in {t, "both"}

ReadSecurity ==
    /\ draining /\ state = "security"
    /\ \/ ~ Has(1) /\ Short
       \/ /\ Has(1) /\ Head(buffer) = "zero"
          /\ IF Has(3) THEN Throw(3) ELSE Short
       \/ Has(1) /\ Head(buffer) = "count" /\ ~ Has(2) /\ Short
       \/ /\ Has(2) /\ Head(buffer) = "count"
          /\ \/ /\ Offers("VncAuth") /\ password
                /\ Passes(2, "auth") /\ UNCHANGED <<minor, promise>>
             \/ /\ Offers("None") /\ ~ (Offers("VncAuth") /\ password)
                /\ Passes(2, IF minor >= 8 THEN "result" ELSE "init")
                /\ UNCHANGED <<minor, promise>>
             \/ /\ ~ Offers("None") /\ ~ (Offers("VncAuth") /\ password)
                /\ Throw(2)

ReadAuthChallenge ==
    /\ draining /\ state = "auth"
    /\ IF Has(1) THEN Passes(1, "result") /\ UNCHANGED <<minor, promise>> ELSE Short

ReadSecurityResult ==
    /\ draining /\ state = "result"
    /\ \/ ~ Has(1) /\ Short
       \/ Has(1) /\ Head(buffer) = "ok" /\ Passes(1, "init") /\ UNCHANGED <<minor, promise>>
       \/ Has(1) /\ Head(buffer) = "bad" /\ minor < 8 /\ Throw(1)
       \/ /\ Has(1) /\ Head(buffer) = "bad" /\ minor >= 8
          /\ IF Has(3) THEN Throw(3) ELSE Short

ReadServerInit ==
    /\ draining /\ state = "init"
    /\ IF Has(2) THEN /\ Passes(2, "ready") /\ promise' = "resolved"
                      /\ UNCHANGED minor
                 ELSE Short
-----------------------------------------------------------------------------
ReportsAndRepeats(hadContent, announced) ==
    /\ handled' = handled + 1 /\ owner' = "idle"
    /\ IF ~ hadContent /\ announced /\ lastKind = "full"
       THEN lastKind' = "incremental" /\ requests' = requests + 1
       ELSE UNCHANGED <<lastKind, requests>>

(* endUpdate(), with what the update contained: a full request answered by *)
(* nothing but the layout is repeated as an incremental one.               *)
EndUpdate(hadContent, announced) ==
    /\ handled' = handled + 1
    /\ IF ~ hadContent /\ announced /\ lastKind = "full"
       THEN /\ lastKind' = "incremental" /\ requests' = requests + 1
            /\ UNCHANGED owner
       ELSE owner' = "idle" /\ UNCHANGED <<lastKind, requests>>

EndsTheUpdate(r) ==
    /\ rectsLeft' = rectsLeft - 1 /\ pendingRect' = "none" /\ tilesLeft' = 0
    /\ had' = TRUE /\ layout' = FALSE
    /\ EndUpdate(had', layout')

RectDone(r) ==
    /\ rectsLeft' = rectsLeft - 1 /\ pendingRect' = "none" /\ tilesLeft' = 0
    /\ had' = (had \/ r \in {"raw", "copy", "rre", "hextile", "size", "moved"})
    /\ layout' = (layout \/ r = "layout")
    /\ IF rectsLeft = 1 THEN EndUpdate(had', layout')
                        ELSE UNCHANGED <<handled, requesting>>

(* The header is kept while the rest of the rectangle is on its way; of a  *)
(* Hextile rectangle every whole tile is consumed.                         *)
ReadRect ==
    LET skip == IF pendingRect = "none" THEN 1 ELSE 0
        r == IF skip = 1 THEN Head(buffer) ELSE pendingRect
        here == Len(buffer) - skip
        left == IF skip = 1 THEN Tiles ELSE tilesLeft
        whole == Min2(here \div 2, left)
    IN  /\ draining /\ state = "ready" /\ rectsLeft > 0
        /\ \/ skip = 1 /\ ~ Has(1) /\ Short
           \/ /\ Has(skip) /\ r = "unknown" /\ Throw(skip)
           \/ /\ Has(skip) /\ r = "hextile"
              /\ Consume(skip + 2 * whole)
              /\ IF whole = left
                 THEN RectDone(r)
                 ELSE /\ pendingRect' = r /\ tilesLeft' = left - whole
                      /\ UNCHANGED <<rectsLeft, had, layout, requesting, handled>>
              /\ UNCHANGED <<state, minor, closed, promise, outside>>
           \/ /\ Has(skip) /\ r \notin {"unknown", "hextile"}
              /\ IF here >= Body(r)
                 THEN Consume(skip + Body(r)) /\ RectDone(r)
                 ELSE /\ Consume(skip) /\ pendingRect' = r
                      /\ UNCHANGED <<rectsLeft, tilesLeft, had, layout, requesting, handled>>
              /\ UNCHANGED <<state, minor, closed, promise, outside>>

ReadUpdate ==
    /\ Head(buffer) \in {"update0", "update1", "update2"}
    /\ Consume(1)
    /\ rectsLeft' = RectCount(Head(buffer)) /\ had' = FALSE /\ layout' = FALSE
    /\ IF rectsLeft' = 0 THEN EndUpdate(FALSE, FALSE) ELSE UNCHANGED <<handled, requesting>>
    /\ UNCHANGED <<state, minor, pendingRect, tilesLeft, closed, promise, outside>>

Simple(n) ==
    /\ Consume(n) /\ handled' = handled + 1
    /\ UNCHANGED <<state, minor, parse, requesting, closed, promise, outside>>

(* ServerCutText: its size is checked before it is all there.              *)
ReadCutText ==
    /\ Head(buffer) = "cut"
    /\ \/ ~ Has(2) /\ Short
       \/ Has(2) /\ buffer[2] = "too long" /\ Throw(2)
       \/ Has(2) /\ buffer[2] = "length" /\ ~ Has(3) /\ Short
       \/ /\ Has(3) /\ buffer[2] = "length"
          /\ Simple(3)

ReadMessage ==
    /\ draining /\ state = "ready" /\ rectsLeft = 0
    /\ \/ ~ Has(1) /\ Short
       \/ /\ Has(1)
          /\ \/ ReadUpdate
             \/ ReadCutText
             \/ Head(buffer) \in {"bell", "EndOfContinuousUpdates"} /\ Simple(1)
             \/ Head(buffer) = "junk" /\ Throw(1)

(* The handlers share one thread: nothing else runs while drain() does.    *)
Read == \/ ReadVersion \/ ReadSecurity33 \/ ReadSecurity \/ ReadAuthChallenge
        \/ ReadSecurityResult \/ ReadServerInit \/ ReadRect \/ ReadMessage

(* A chunk: whatever pieces it happens to hold.                            *)
Data ==
    /\ ~ closed /\ ~ draining
    /\ \E n \in 1..Len(wire) :
          /\ buffer' = buffer \o SubSeq(wire, 1, n)
          /\ wire' = SubSeq(wire, n + 1, Len(wire))
    /\ draining' = TRUE
    /\ UNCHANGED <<state, minor, parse, requesting, closed, promise, password, sent,
                   handled>>

(* A close that leaves the promise to the timer; fail() then finds the     *)
(* client closed and returns.                                              *)
SocketClosedLeftToTheTimer ==
    /\ promise # "none" /\ ~ closed /\ ~ draining /\ wire = <<>>
    /\ closed' = TRUE
    /\ UNCHANGED <<state, minor, buffer, draining, parse, requesting, outside, handled, promise>>

(* The socket closes: the server hung up, and what it sent was received.   *)
SocketClosed ==
    /\ promise # "none" /\ ~ closed /\ ~ draining /\ wire = <<>>
    /\ closed' = TRUE
    /\ promise' = IF promise = "pending" THEN "rejected" ELSE promise
    /\ UNCHANGED <<state, minor, buffer, draining, parse, requesting, outside, handled>>

(* disconnect(), a socket error, or the timer of connect().                *)
Ended ==
    /\ promise # "none" /\ ~ closed /\ ~ draining
    /\ closed' = TRUE
    /\ promise' = IF promise = "pending" THEN "rejected" ELSE promise
    /\ UNCHANGED <<state, minor, buffer, draining, parse, requesting, outside, handled>>

Timeout == promise = "pending" /\ Ended

(* Whoever owns the client asks again once the last update has ended.      *)
RequestUpdate(kind) ==
    /\ promise = "resolved" /\ ~ draining /\ ~ closed /\ owner = "idle"
    /\ lastKind' = kind /\ owner' = "waiting" /\ requests' = requests + 1
    /\ UNCHANGED <<state, minor, buffer, draining, parse, closed, promise, outside, handled>>

(* Where the k-th message ends.                                            *)
EndOf(k) == IF k = 0 THEN 0 ELSE sent[k].upTo

(* The server: every message of a ready one may follow the one before it.  *)
Send(m) ==
    /\ promise # "none" /\ ~ closed /\ ~ draining
    /\ IF state = "ready" THEN Len(sent) < MaxMessages ELSE handled = Len(sent)
    /\ sent' = Append(sent, [says |-> m, upTo |-> EndOf(Len(sent)) + Len(m)]) /\ wire' = wire \o m
    /\ requests' = IF m \in Updates THEN requests - 1 ELSE requests
    /\ UNCHANGED <<state, minor, buffer, draining, parse, lastKind, owner, closed,
                   promise, password, handled>>

RfbNext ==
    \/ ConnectClient \/ Read \/ Data \/ SocketClosed \/ Ended
    \/ \E kind \in {"full", "incremental"} : RequestUpdate(kind)
    \/ \E m \in Messages : Send(m)

(* Node runs the handlers of what has arrived, and its timers.             *)
RfbSpec == RfbInit /\ [][RfbNext]_rfbVars /\ WF_rfbVars(Read) /\ WF_rfbVars(Timeout)
-----------------------------------------------------------------------------
RfbTypeOK ==
    /\ state \in Handshake \cup {"ready"} /\ minor \in {3, 7, 8}
    /\ rectsLeft \in 0..2 /\ tilesLeft \in 0..Tiles /\ requests \in Nat
    /\ password \in BOOLEAN /\ draining \in BOOLEAN /\ closed \in BOOLEAN
    /\ had \in BOOLEAN /\ layout \in BOOLEAN
    /\ lastKind \in {"none", "full", "incremental"}
    /\ promise \in {"none", "pending", "resolved", "rejected"} /\ owner \in {"idle", "waiting"}
    /\ handled \in 0..Len(sent)

(* Wherever TCP cuts the stream, drain() stops only when every message     *)
(* that has arrived whole is handled, and the reads agree with the server  *)
(* on where each one ends: none is left waiting for the next chunk.        *)
Arrived == EndOf(Len(sent)) - Len(wire)
NothingIsLeftWaiting ==
    ~ draining /\ ~ closed => \A k \in 1..Len(sent) : k <= handled <=> EndOf(k) <= Arrived

(* Updates under way.                                                      *)
Unanswered == {k \in (handled + 1)..Len(sent) : sent[k].says \in Updates}

(* Whoever asked for an update and was not told that it ended has one on   *)
(* its way: an answer with nothing but the layout is followed by another   *)
(* request, and every other answer is reported once.                       *)
OneAnswerPerRequest ==
    ~ closed => (owner = "waiting" <=>
        requests + Cardinality(Unanswered) = 1)

(* connect() ends whatever happens to the connection: a server that hangs  *)
(* up, one that says nothing, bad data or a disconnect.                    *)
ConnectSettles == promise = "pending" ~> promise # "pending"

(* Wherever TCP cuts it, the stream is read to its end, and an update that *)
(* has ended has used up exactly one request.                              *)
StreamHolds == RfbTypeOK /\ NothingIsLeftWaiting /\ OneAnswerPerRequest
=============================================================================
