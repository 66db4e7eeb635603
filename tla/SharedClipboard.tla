--------------------------- MODULE SharedClipboard ---------------------------
(* The clipboards of a host and of its viewers.  The host polls its own and *)
(* sends it when it has changed (host.ts startClipboardWatch); a viewer     *)
(* sends its own when its screen takes the focus or when asked to, and puts *)
(* what comes on it (hopdesk.js, main.ts).  Reading and writing a clipboard *)
(* are both asynchronous, and each side remembers one text to tell what is  *)
(* new.                                                                     *)
EXTENDS Naturals, Sequences

CONSTANTS
    Reader,         \* viewers
    Text,
    MaxCopies,      \* bound: texts somebody copies
    MaxTexts,       \* bound: messages on their way, and writes, of each kind
    MaxReads        \* bound: reads of the host's watch under way at once

ASSUME ClipboardAssumption == {MaxCopies, MaxTexts, MaxReads} \subseteq Nat

VARIABLES
    clip, mine,     \* of the host: its text; it was copied there, not written by a viewer
    author,         \* whose text it is otherwise
    lastClipboard, watching, reading, hostWrites, \* host.ts; the texts being read
    joined, open,   \* sessions, and those whose channel is open
    shares,         \* who shares their clipboard, "host" too
    text, fromHost, \* of each viewer: its text; it is the last that came from the host
    lastSent, focusReads, viewerWrites, \* ui.lastClipboardSent; texts being read and written
    upLink, downLink,       \* texts on their way
    inSession,      \* history: texts sent to the host in this session
    claimed,        \* history: texts the viewer was told are sent, in this session
    echoed, raced,  \* history: a text went back to where it came from; a read or a
                    \* write overlapped another one, or a write failed
    copies          \* bound

atHost == <<clip, mine, author, lastClipboard, watching, reading, hostWrites>>
atViewer == <<text, fromHost, lastSent, focusReads, viewerWrites>>
links == <<joined, open, upLink, downLink>>
told == <<inSession, claimed>>
clipboardVars == <<atHost, shares, atViewer, links, told, echoed, raced, copies>>

Nothing == "nothing"
NoRead == "none"
Nobody == "nobody"
May(queue) == Len(queue) < MaxTexts
Reading == \E i \in 1..MaxReads : reading[i] # NoRead
-----------------------------------------------------------------------------
ClipboardInit ==
    /\ clip = Nothing /\ mine = TRUE /\ author = Nobody /\ lastClipboard = Nothing
    /\ watching = FALSE /\ reading = [i \in 1..MaxReads |-> NoRead] /\ hostWrites = <<>>
    /\ joined = {} /\ open = {} /\ shares = Reader \cup {"host"}
    /\ text = [v \in Reader |-> Nothing] /\ fromHost = [v \in Reader |-> FALSE]
    /\ lastSent = [v \in Reader |-> Nothing]
    /\ focusReads = [v \in Reader |-> <<>>] /\ viewerWrites = [v \in Reader |-> <<>>]
    /\ upLink = [v \in Reader |-> <<>>] /\ downLink = [v \in Reader |-> <<>>]
    /\ inSession = [v \in Reader |-> {}] /\ claimed = [v \in Reader |-> {}]
    /\ echoed = FALSE /\ raced = FALSE /\ copies = 0

(* Somebody copies something; a setting is changed; a channel opens.       *)
HostCopies(t) ==
    /\ copies < MaxCopies /\ copies' = copies + 1 /\ clip' = t /\ mine' = TRUE
    /\ UNCHANGED <<author, lastClipboard, watching, reading, hostWrites, shares, atViewer, links, told, echoed, raced>>
ViewerCopies(v, t) ==
    /\ copies < MaxCopies /\ copies' = copies + 1
    /\ text' = [text EXCEPT ![v] = t] /\ fromHost' = [fromHost EXCEPT ![v] = FALSE]
    /\ UNCHANGED <<atHost, shares, lastSent, focusReads, viewerWrites, links, told, echoed, raced>>
Toggles(who) ==
    /\ copies < MaxCopies /\ copies' = copies + 1
    /\ shares' = IF who \in shares THEN shares \ {who} ELSE shares \cup {who}
    /\ UNCHANGED <<atHost, atViewer, links, told, echoed, raced>>
ChannelOpens(v) ==
    /\ v \in joined \ open /\ open' = open \cup {v}
    /\ UNCHANGED <<atHost, shares, atViewer, joined, upLink, downLink, told, echoed, raced, copies>>

(* A session begins: the watch starts if the host shares its clipboard.    *)
Joins(v) ==
    /\ v \notin joined /\ joined' = joined \cup {v}
    /\ watching' = (watching \/ "host" \in shares)
    /\ inSession' = [inSession EXCEPT ![v] = {}] /\ claimed' = [claimed EXCEPT ![v] = {}]
    /\ UNCHANGED <<clip, mine, author, lastClipboard, reading, hostWrites, shares, atViewer, open, upLink, downLink, echoed, raced, copies>>
(* endSession(), or the control channel closes; the last one stops it.     *)
Parts(v) ==
    /\ v \in joined /\ joined' = joined \ {v} /\ open' = open \ {v}
    /\ watching' = (watching /\ joined' # {})
    /\ upLink' = [upLink EXCEPT ![v] = <<>>] /\ downLink' = [downLink EXCEPT ![v] = <<>>]
    /\ UNCHANGED <<clip, mine, author, lastClipboard, reading, hostWrites, shares, atViewer, told, echoed, raced, copies>>
-----------------------------------------------------------------------------
(* The watch, every second: it reads, whether or not an earlier read has   *)
(* answered.                                                               *)
Polls(i) ==
    /\ watching /\ reading[i] = NoRead /\ \A j \in 1..(i - 1) : reading[j] # NoRead
    /\ reading' = [reading EXCEPT ![i] = clip] /\ raced' = (raced \/ hostWrites # <<>>)
    /\ UNCHANGED <<clip, mine, author, lastClipboard, watching, hostWrites, shares, atViewer, links, told, echoed, copies>>
(* A read answers, in any order, or fails; what is new is sent to all.     *)
PollAnswers(i, well) ==
    /\ reading[i] # NoRead /\ reading' = [reading EXCEPT ![i] = NoRead]
    /\ IF ~well \/ reading[i] = lastClipboard \/ joined = {}
       THEN UNCHANGED <<lastClipboard, downLink, echoed>>
       ELSE /\ \A v \in open : May(downLink[v])
            /\ lastClipboard' = reading[i]
            /\ downLink' = [v \in Reader |-> IF v \in open THEN Append(downLink[v], reading[i]) ELSE downLink[v]]
            /\ echoed' = (echoed \/ (~mine /\ reading[i] = clip /\ author \in open))
    /\ UNCHANGED <<clip, mine, author, watching, hostWrites, shares, atViewer, joined, open, upLink, told, raced, copies>>

(* Mutant: what a viewer sent is not remembered as known.                  *)
ForgetsWhatCame(t) == lastClipboard
RemembersWhatCame(t) == t
(* handleClipboard(): remembered at once, written when the system gets to  *)
(* it.                                                                     *)
HandleClipboard(v) ==
    /\ upLink[v] # <<>> /\ upLink' = [upLink EXCEPT ![v] = Tail(@)]
    /\ IF v \in joined /\ "host" \in shares
       THEN /\ May(hostWrites) /\ hostWrites' = Append(hostWrites, <<v, Head(upLink[v])>>)
            /\ lastClipboard' = RemembersWhatCame(Head(upLink[v]))
            /\ raced' = (raced \/ Reading \/ hostWrites # <<>>)
       ELSE UNCHANGED <<hostWrites, lastClipboard, raced>>
    /\ UNCHANGED <<clip, mine, author, watching, reading, shares, atViewer, joined, open, downLink, told, echoed, copies>>
HostWritten(well) ==
    /\ hostWrites # <<>> /\ hostWrites' = Tail(hostWrites) /\ raced' = (raced \/ ~well)
    /\ IF well
       THEN author' = Head(hostWrites)[1] /\ clip' = Head(hostWrites)[2] /\ mine' = FALSE
       ELSE UNCHANGED <<author, clip, mine>>
    /\ UNCHANGED <<lastClipboard, watching, reading, shares, atViewer, links, told, echoed, copies>>
-----------------------------------------------------------------------------
(* viewerClipboardRead(): on focus, or because a button was pressed.       *)
ViewerReads(v, asked) ==
    /\ v \in joined /\ v \in shares /\ text[v] # Nothing /\ May(focusReads[v])
    /\ focusReads' = [focusReads EXCEPT ![v] = Append(@, [text |-> text[v], asked |-> asked])]
    /\ raced' = (raced \/ viewerWrites[v] # <<>>)
    /\ UNCHANGED <<atHost, shares, text, fromHost, lastSent, viewerWrites, links, told, echoed, copies>>
(* sendClipboard(): the last text sent or received is not sent again, and  *)
(* one whose channel is not open is dropped.                               *)
SendClipboard(v) ==
    /\ focusReads[v] # <<>> /\ focusReads' = [focusReads EXCEPT ![v] = Tail(@)]
    /\ LET read == Head(focusReads[v])
           new == v \in joined /\ read.text # lastSent[v]
           goes == new /\ v \in open
       IN  /\ lastSent' = IF new THEN [lastSent EXCEPT ![v] = read.text] ELSE lastSent
           /\ goes => May(upLink[v])
           /\ upLink' = IF goes THEN [upLink EXCEPT ![v] = Append(@, read.text)] ELSE upLink
           /\ inSession' = IF goes THEN [inSession EXCEPT ![v] = @ \cup {read.text}] ELSE inSession
           /\ claimed' = IF read.asked /\ v \in joined THEN [claimed EXCEPT ![v] = @ \cup {read.text}] ELSE claimed
           /\ echoed' = (echoed \/ (goes /\ fromHost[v] /\ read.text = text[v]))
    /\ UNCHANGED <<atHost, shares, text, fromHost, viewerWrites, joined, open, downLink, raced, copies>>

(* A text is remembered, and not written by one who shares nothing.        *)
Receives(v) ==
    /\ downLink[v] # <<>> /\ downLink' = [downLink EXCEPT ![v] = Tail(@)]
    /\ lastSent' = [lastSent EXCEPT ![v] = Head(downLink[v])]
    /\ IF v \in shares
       THEN /\ May(viewerWrites[v]) /\ UNCHANGED fromHost
            /\ viewerWrites' = [viewerWrites EXCEPT ![v] = Append(@, Head(downLink[v]))]
       ELSE UNCHANGED viewerWrites /\ fromHost' = [fromHost EXCEPT ![v] = FALSE]
    /\ raced' = (raced \/ focusReads[v] # <<>> \/ viewerWrites[v] # <<>>)
    /\ UNCHANGED <<atHost, shares, text, focusReads, joined, open, upLink, told, echoed, copies>>
ViewerWritten(v, well) ==
    /\ viewerWrites[v] # <<>> /\ viewerWrites' = [viewerWrites EXCEPT ![v] = Tail(@)]
    /\ raced' = (raced \/ ~well)
    /\ IF well
       THEN text' = [text EXCEPT ![v] = Head(viewerWrites[v])] /\ fromHost' = [fromHost EXCEPT ![v] = TRUE]
       ELSE UNCHANGED <<text, fromHost>>
    /\ UNCHANGED <<atHost, shares, lastSent, focusReads, links, told, echoed, copies>>

ClipboardNext ==
    \/ \E i \in 1..MaxReads : Polls(i) \/ (\E well \in BOOLEAN : PollAnswers(i, well))
    \/ \E t \in Text : HostCopies(t)
    \/ \E who \in Reader \cup {"host"} : Toggles(who)
    \/ \E well \in BOOLEAN : HostWritten(well)
    \/ \E v \in Reader :
        \/ Joins(v) \/ Parts(v) \/ ChannelOpens(v) \/ HandleClipboard(v) \/ SendClipboard(v) \/ Receives(v)
        \/ \E t \in Text : ViewerCopies(v, t)
        \/ \E flag \in BOOLEAN : ViewerReads(v, flag) \/ ViewerWritten(v, flag)
-----------------------------------------------------------------------------
(* Two clipboards that are kept the same do not throw a text back and      *)
(* forth: what came last from the other side is not sent to it (hopdesk.js *)
(* :1081, host.ts:493), unless reads and writes overlapped or one failed.  *)
(* An older one may be: a text that comes while the viewer shares nothing  *)
(* is remembered as sent (hopdesk.js:1081) and not written (main.ts:1790). *)
NoEcho == echoed => raced

(* "Send clipboard copies this computer's clipboard to the other one"      *)
(* (README.md:99), and the window says it has been sent (hopdesk.js:1052). *)
(* It does not hold: a text is sent once, whichever session it went to,    *)
(* and even if it was dropped.                                             *)
SentMeansSent == \A v \in joined : claimed[v] \subseteq inSession[v]
=============================================================================
