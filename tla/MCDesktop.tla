------------------------------ MODULE MCDesktop ------------------------------
(* Sessions to saved computers, for TLC: a behaviour is the calls and the   *)
(* active session, the launch of an RDP session, the keys or the picture of *)
(* the window of a VNC session (which do not touch), the byte stream of a   *)
(* VNC server, or the session that reads it.  A configuration says which of *)
(* them it is about.                                                        *)
EXTENDS ActiveSession, RdpLaunch, VncScreen, RfbClient, VncSession, TLC

CONSTANTS Checked, c1, c2, c3, p, q, s1, s2
MCCall == {c1, c2, c3}
MCComputer == {p, q}
MCTarget == c1 :> p @@ c2 :> p @@ c3 :> q
MCScreen == {s1, s2}
(* The first two calls are alike, and so are the two screens.              *)
Interchangeable == Permutations({c1, c2}) \cup Permutations(MCScreen)

SomeUpdates ==
    {<<"update0">>, <<"update1", "raw", "pixels">>, <<"update1", "size">>,
     <<"update1", "layout", "count", "screens">>, <<"update1", "unknown">>,
     <<"update1", "rejected", "count", "screens">>,
     <<"update2", "size", "layout", "count", "screens">>,
     <<"update2", "hextile", "sub", "rest", "sub", "rest", "copy", "source">>}
OtherMessages ==
    {<<"bell">>, <<"EndOfContinuousUpdates">>, <<"cut", "length", "text">>,
     <<"cut", "too long">>, <<"junk">>}

VARIABLE part
viewing == <<activeVars, rdpVars, vncScreenVars>>
reading == <<rfbVars, vncVars>>
vars == <<part, viewing, reading>>

Held(A) == part = "held" /\ A /\ UNCHANGED <<part, rdpVars, vncScreenVars, reading>>
Launching(A) == part = "launching" /\ A /\ UNCHANGED <<part, activeVars, vncScreenVars, reading>>
Typing(A) == part = "typing" /\ A /\ spent'.frames = 0
    /\ UNCHANGED <<part, activeVars, rdpVars, reading>>
Painting(A) == part = "painting" /\ A /\ ~focused'
    /\ UNCHANGED <<part, activeVars, rdpVars, reading>>
Stream(A) == part = "stream" /\ A /\ UNCHANGED <<part, viewing, vncVars>>
Session(A) == part = "session" /\ A /\ UNCHANGED <<part, viewing, rfbVars>>

(* Where a part is idle its choices are fixed.                             *)
Init ==
    /\ ActiveInit /\ RdpInit /\ VncScreenInit /\ RfbInit /\ VncInit
    /\ part \in Checked
    /\ part # "launching" => canPin /\ presented \in Vouched
    /\ part # "stream" => password
    /\ part # "session" => enabled /\ flowControl

Next == \/ Held(ActiveNext) \/ Launching(RdpNext)
        \/ Typing(VncScreenNext) \/ Painting(VncScreenNext)
        \/ Stream(RfbNext) \/ Session(VncNext)

Spec ==
    /\ Init /\ [][Next]_vars
    /\ WF_vars(Stream(Read)) /\ WF_vars(Stream(Timeout))
    /\ WF_vars(Session(Resolved \/ Rejected)) /\ WF_vars(Session(Retry))
    /\ WF_vars(Session(HandshakeFails \/ Connected \/ ConnectedThenFails))
    /\ WF_vars(Session(RenderTimeout)) /\ WF_vars(Session(Update))
    /\ WF_vars(Session(ServerAnswers))

(* It gets somewhere: connect() is answered, connecting ends, and the      *)
(* picture catches up with the screen.                                     *)
VncSettles == ConnectSettles /\ ConnectingEnds /\ ScreenCatchesUp
=============================================================================
