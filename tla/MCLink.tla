------------------------------- MODULE MCLink -------------------------------
(* What waits for somebody else, for TLC: a behaviour is one of the modules *)
(* and the others stay as they began.                                       *)
EXTENDS SecureLink, ExternalEngine, Negotiation, SharedScreen, Discovery

VARIABLE part
vars == <<part, secureVars, engineVars, negotiationVars, screenVars, discoveryVars>>

Linked(A) ==
    part = "linked" /\ A /\ UNCHANGED <<part, engineVars, negotiationVars, screenVars, discoveryVars>>
Spawned(A) ==
    part = "spawned" /\ A /\ UNCHANGED <<part, secureVars, negotiationVars, screenVars, discoveryVars>>
Negotiated(A) ==
    part = "negotiated" /\ A /\ UNCHANGED <<part, secureVars, engineVars, screenVars, discoveryVars>>
Captures(A) ==
    part = "captures" /\ A /\ UNCHANGED <<part, secureVars, engineVars, negotiationVars, discoveryVars>>
Searches(A) ==
    part = "searches" /\ A /\ UNCHANGED <<part, secureVars, engineVars, negotiationVars, screenVars>>

(* Where a part is idle its choices are fixed.                             *)
Init ==
    /\ SecureInit /\ EngineInit /\ NegotiationInit /\ ScreenInit /\ DiscoveryInit
    /\ part \in {"linked", "spawned", "negotiated", "captures", "searches"}
    /\ part # "negotiated" => bad = {}
    /\ part # "linked" => allowed \* and so the challenge
    /\ part # "searches" => mine = {} /\ \A h \in Machine : up[h] = "no" /\ nets[h] = {}

Next ==
    \/ Linked(SecureNext) \/ Spawned(EngineNext) \/ Negotiated(NegotiationNext) \/ Captures(ScreenNext)
    \/ Searches(DiscoveryNext)

(* What has begun runs on and timers go off; a viewer obeys a signal it is *)
(* not deaf to.                                                            *)
Spec ==
    /\ Init /\ [][Next]_vars
    /\ WF_vars(Linked(Runs)) /\ WF_vars(Linked(Answer \/ Return \/ Timeout))
    /\ WF_vars(Negotiated(Proceeds("viewer"))) /\ WF_vars(Negotiated(Proceeds("host")))
    /\ WF_vars(Spawned(EngineTimers)) /\ WF_vars(Spawned(Obeys))
    /\ WF_vars(Searches(SearchGoesOn))

(* Media is set up in order, with nothing lost or taken twice and nothing  *)
(* insecure, and no capture of the screen is left behind.                  *)
MediaHolds == HeldUntilDescribed /\ EveryCandidateOnce /\ InsecureIsRefused /\ OneScreen

(* Whatever is waited for, the wait ends: connecting, a negotiation that   *)
(* failed on the other side, a viewer process, a search.                   *)
EveryWaitEnds == ConnectingEnds /\ FailureSpreads /\ StopEnds /\ DeadSessionDies /\ SearchEnds
=============================================================================
