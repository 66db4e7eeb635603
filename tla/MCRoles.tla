------------------------------- MODULE MCRoles -------------------------------
(* The long-running roles, for TLC: a behaviour is the host that is         *)
(* switched on and off, the viewer that connects, or the relay server with  *)
(* its timers, and the others stay as they began.                           *)
EXTENDS HostLifecycle, ViewerRole, RelayServer

VARIABLE role
vars == <<role, lifecycleVars, viewerVars, relayVars>>

Hosting(A) == role = "host" /\ A /\ UNCHANGED <<role, viewerVars, relayVars>>
Viewing(A) == role = "viewer" /\ A /\ UNCHANGED <<role, lifecycleVars, relayVars>>
Relaying(A) == role = "relay" /\ A /\ UNCHANGED <<role, lifecycleVars, viewerVars>>

(* Where a role is idle its choices are fixed.                             *)
Init ==
    /\ LifecycleInit /\ ViewerInit /\ RelayInit /\ role \in {"host", "viewer", "relay"}
    /\ role # "host" => ~enabled /\ permitted /\ ~portTaken

Next == Hosting(LifecycleNext) \/ Viewing(ViewerNext) \/ Relaying(RelayNext)

(* What is awaited answers or has a timer; check() runs on launch and then *)
(* on a timer; so do the reconnect and the sweep.  One role runs, so that  *)
(* what each may count on is said of all of them at once, for the first    *)
(* and the second of their calls, tries and connections.                   *)
CONSTANTS t1, t2, a1, a2, c1, c2, c3
FairSpec ==
    /\ Init /\ [][Next]_vars
    /\ WF_vars(Hosting(TaskProceeds(t1)) \/ Viewing(AwaitEnds(a1)) \/ Relaying(CloseEnds(c1)))
    /\ WF_vars(Hosting(TaskProceeds(t2)) \/ Viewing(AwaitEnds(a2)) \/ Relaying(CloseEnds(c2)))
    /\ SF_vars(Hosting(Check(t1))) /\ SF_vars(Hosting(Check(t2)))
    /\ WF_vars(Viewing(\E u \in Try : Fire(a1, u)))
    /\ WF_vars(Viewing(\E u \in Try : Fire(a2, u)) \/ Relaying(Sweep))

(* Each role gets somewhere: a host that may listen does so in the end and *)
(* one that may not stops, a viewer's try ends, a block cuts off.          *)
RolesSettle == ListensAgain /\ BlockedGoesQuiet /\ TriesEnd /\ BlockedAreCutOff
=============================================================================
