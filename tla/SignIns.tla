------------------------------- MODULE SignIns -------------------------------
(***************************************************************************)
(* What refresh tokens are to promise, whatever is rotated, lost, replayed *)
(* or pruned: a sign-in is one session.  It begins once, and when it has   *)
(* ended it never comes back.                                              *)
(***************************************************************************)
CONSTANT SignIn
VARIABLE session
-----------------------------------------------------------------------------
Init == session = [s \in SignIn |-> "none"]

Begin(s) ==
    /\ session[s] = "none"
    /\ session' = [session EXCEPT ![s] = "live"]

(* A session ends by itself or with others: a restart of the server, or a  *)
(* clock, takes several.                                                   *)
End(ended) ==
    /\ ended # {} /\ \A s \in ended : session[s] = "live"
    /\ session' = [s \in SignIn |-> IF s \in ended THEN "ended" ELSE session[s]]

Next == (\E s \in SignIn : Begin(s)) \/ (\E ended \in SUBSET SignIn : End(ended))

Spec == Init /\ [][Next]_session
=============================================================================
