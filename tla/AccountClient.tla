---------------------------- MODULE AccountClient ----------------------------
(***************************************************************************)
(* The account client of the desktop, account.ts: signing in and out, the  *)
(* list of computers that decides who may connect without a code, and the  *)
(* relay connection.  Lists come over HTTP and changes over the relay, so  *)
(* they overtake each other; a call stands at an await, and every other    *)
(* may run there.                                                          *)
(*                                                                         *)
(* The relay client is seen through onState and onPresence; tokens are in  *)
(* RefreshTokens.                                                          *)
(***************************************************************************)
EXTENDS Naturals, Sequences

CONSTANTS
    Peer,       \* the other computers of the account
    Call,       \* calls under way at once
    MaxChanges, \* bound: changes to the fleet
    MaxSignIns, \* bound: sign-ins, sign-outs and restarts
    MaxPushes   \* bound: announcements on their way

ASSUME AccountAssumption == {MaxChanges, MaxSignIns, MaxPushes} \subseteq Nat

VARIABLES
    fleet,      \* the server's list: "absent", "pending", "away" or "here"
    enrolled,   \* the server has this computer
    signed,     \* deviceToken # null
    secret,     \* DEVICE_SECRET is stored
    known,      \* computers: what the last list or announcement said
    relay,      \* "none", "joining", "online", "offline" or "refused"
    relays,     \* relay clients not closed
    polling,    \* pollTimer
    pushes,     \* announcements on their way
    call,
    changes, signIns    \* counters for the bounds

remote == <<fleet, enrolled>>
identity == <<signed, secret>>
connection == <<relay, relays, pushes>>
bounds == <<changes, signIns>>
accountVars == <<remote, identity, known, connection, polling, call, bounds>>

Nobody == [p \in Peer |-> "absent"]
Idle == [at |-> "idle", join |-> FALSE, list |-> Nobody]
(* GET /api/devices is on its way; `join': connectRelay() comes after it.  *)
Asking(join) == [Idle EXCEPT !.at = "asked", !.join = join]
At(step) == [Idle EXCEPT !.at = step]
Goes(c, to) == call' = [call EXCEPT ![c] = to]
-----------------------------------------------------------------------------
AccountInit ==
    /\ fleet \in [Peer -> {"absent", "away"}]
    /\ enrolled \in BOOLEAN /\ secret = enrolled /\ signed = enrolled
    /\ known = Nobody
    /\ relay = "none" /\ relays = 0 /\ pushes = <<>> /\ polling = FALSE
    \* restore() asks for the list first
    /\ call \in [Call -> {Idle, Asking(TRUE)}]
    /\ \A c, d \in Call : call[c] # Idle /\ call[d] # Idle => c = d
    /\ signed = (\E c \in Call : call[c] # Idle)
    /\ changes = 0 /\ signIns = 0
-----------------------------------------------------------------------------
(* Another computer enrols, is approved, removed, comes or goes.  Arrivals *)
(* and departures are announced to an open connection; the rest is not.    *)
FleetChanges(p, to) ==
    /\ changes < MaxChanges /\ changes' = changes + 1
    /\ to # fleet[p] /\ (to = "here" => fleet[p] = "away")
    /\ fleet' = [fleet EXCEPT ![p] = to]
    /\ pushes' = IF relay = "online" /\ {fleet[p], to} = {"here", "away"}
                 THEN Append(pushes, [peer |-> p, online |-> to = "here"])
                 ELSE pushes
    /\ Len(pushes') <= MaxPushes
    /\ UNCHANGED <<enrolled, identity, known, relay, relays, polling, call, signIns>>

(* A relay client that is replaced or given up is closed.                  *)
SignIn(c) ==
    /\ call[c] = Idle /\ signIns < MaxSignIns /\ signIns' = signIns + 1
    /\ Goes(c, At("enrolling"))
    /\ UNCHANGED <<remote, identity, known, connection, polling, changes>>

(* POST /api/devices.                                                      *)
ServerEnrols(c) ==
    /\ call[c].at = "enrolling"
    /\ enrolled' = TRUE
    /\ Goes(c, At("enrolled"))
    /\ UNCHANGED <<fleet, identity, known, connection, polling, bounds>>

(* enrol() takes the token and stores it, and signIn asks for the list.    *)
Enrolled(c) ==
    /\ call[c].at = "enrolled"
    /\ signed' = TRUE /\ secret' = TRUE
    /\ Goes(c, Asking(TRUE))
    /\ UNCHANGED <<remote, known, connection, polling, bounds>>

(* A poll, an arrival on the relay, a computer nobody has heard of, an     *)
(* approval or removal made here, the button: refreshComputers().          *)
Ask(c) ==
    /\ call[c] = Idle
    /\ Goes(c, Asking(FALSE))
    /\ UNCHANGED <<remote, identity, known, connection, polling, bounds>>
Poll(c) == polling /\ signed /\ Ask(c)
Refresh(c) == signed /\ Ask(c)

(* The request arrives: the answer holds the list as it is now.            *)
Listed(c) ==
    /\ call[c].at = "asked" /\ enrolled
    /\ Goes(c, [call[c] EXCEPT !.at = "listed", !.list = fleet])
    /\ UNCHANGED <<remote, identity, known, connection, polling, bounds>>

(* Unreachable, lost or refused: the caller is told, or shrugs.            *)
CallFails(c) ==
    /\ call[c].at \in {"enrolling", "enrolled", "asked", "listed"}
    /\ Goes(c, Idle)
    /\ UNCHANGED <<remote, identity, known, connection, polling, bounds>>

(* Mutant: no look at the token, which a sign-out may have dropped.        *)
JoinsAnyway(c) ==
    /\ call[c].at = "listed"
    /\ known' = call[c].list
    /\ IF call[c].join
       THEN /\ relays' = 1 /\ relay' = "joining" /\ polling' = TRUE /\ pushes' = <<>>
       ELSE UNCHANGED <<connection, polling>>
    /\ Goes(c, Idle)
    /\ UNCHANGED <<remote, identity, bounds>>
(* Mutant: only the first list is asked for.                               *)
JoinsUnpolled(c) ==
    /\ call[c].at = "listed"
    /\ known' = call[c].list
    /\ IF call[c].join /\ signed
       THEN /\ relays' = 1 /\ relay' = "joining" /\ pushes' = <<>>
       ELSE UNCHANGED connection
    /\ Goes(c, Idle)
    /\ UNCHANGED <<remote, identity, polling, bounds>>
(* refreshComputers() takes the list, and connectRelay() closes the relay  *)
(* client there was, makes another and starts polling.                     *)
TakeList(c) ==
    /\ call[c].at = "listed"
    /\ known' = call[c].list
    /\ IF call[c].join /\ signed
       THEN /\ relays' = 1 /\ relay' = "joining" /\ polling' = TRUE /\ pushes' = <<>>
       ELSE UNCHANGED <<connection, polling>>
    /\ Goes(c, Idle)
    /\ UNCHANGED <<remote, identity, bounds>>

(* onState: the list is asked for on arrival.                              *)
RelayOnline ==
    /\ relay \in {"joining", "offline"} /\ enrolled
    /\ relay' = "online"
    /\ \/ \E c \in Call : call[c] = Idle /\ Goes(c, Asking(FALSE))
       \/ (\A c \in Call : call[c] # Idle) /\ UNCHANGED call
    /\ UNCHANGED <<remote, identity, known, relays, pushes, polling, bounds>>

(* What was on its way is lost; a computer that was removed is refused.    *)
RelayLost ==
    /\ relay \in {"joining", "online", "offline"}
    /\ relay' = IF enrolled THEN "offline" ELSE "refused"
    /\ pushes' = <<>>
    /\ UNCHANGED <<remote, identity, known, relays, polling, call, bounds>>

(* applyPresence: an announcement approves nobody.                         *)
Presence ==
    /\ pushes # <<>>
    /\ pushes' = Tail(pushes)
    /\ LET p == Head(pushes).peer IN
       IF known[p] = "absent"
       THEN /\ UNCHANGED known
            /\ \/ \E c \in Call : call[c] = Idle /\ Goes(c, Asking(FALSE))
               \/ (\A c \in Call : call[c] # Idle) /\ UNCHANGED call
       ELSE /\ known' = [known EXCEPT ![p] = IF @ = "pending" THEN @
                                             ELSE IF Head(pushes).online THEN "here" ELSE "away"]
            /\ UNCHANGED call
    /\ UNCHANGED <<remote, identity, relay, relays, polling, bounds>>

(* signOut asks the server to remove the computer, which may fail.         *)
SignOut(c) ==
    /\ call[c] = Idle /\ signIns < MaxSignIns /\ signIns' = signIns + 1
    /\ Goes(c, At("leaving"))
    /\ UNCHANGED <<remote, identity, known, connection, polling, changes>>

(* DELETE /api/devices.                                                    *)
ServerRemoves(c) ==
    /\ call[c].at = "leaving"
    /\ enrolled' = FALSE
    /\ Goes(c, At("left"))
    /\ UNCHANGED <<fleet, identity, known, connection, polling, bounds>>

(* Then it forgets, all at once.  The timer is left running.               *)
Forget(c) ==
    /\ call[c].at \in {"leaving", "left"}
    /\ signed' = FALSE /\ known' = Nobody
    /\ relay' = "none" /\ relays' = 0 /\ pushes' = <<>>
    /\ Goes(c, At("erasing"))
    /\ UNCHANGED <<remote, secret, polling, bounds>>

Erased(c) ==
    /\ call[c].at = "erasing"
    /\ secret' = FALSE
    /\ Goes(c, Idle)
    /\ UNCHANGED <<remote, signed, known, connection, polling, bounds>>

(* close(), and restore() of the next start.                               *)
Restart ==
    /\ signIns < MaxSignIns /\ signIns' = signIns + 1
    /\ signed' = secret
    /\ known' = Nobody
    /\ relay' = "none" /\ relays' = 0 /\ pushes' = <<>> /\ polling' = FALSE
    /\ LET first == CHOOSE c \in Call : TRUE IN
       call' = [c \in Call |-> IF secret /\ c = first THEN Asking(TRUE) ELSE Idle]
    /\ UNCHANGED <<remote, secret, changes>>

AccountNext ==
    \/ \E p \in Peer, to \in {"absent", "pending", "away", "here"} : FleetChanges(p, to)
    \/ \E c \in Call :
          \/ SignIn(c) \/ ServerEnrols(c) \/ Enrolled(c) \/ Poll(c) \/ Refresh(c)
          \/ Listed(c) \/ CallFails(c) \/ TakeList(c)
          \/ SignOut(c) \/ ServerRemoves(c) \/ Forget(c) \/ Erased(c)
    \/ RelayOnline \/ RelayLost \/ Presence \/ Restart
-----------------------------------------------------------------------------
(* A relay connection is there only for a computer that is signed in, and  *)
(* never beside another one, whichever sign-ins and sign-outs overlap: no  *)
(* connection is left that nothing could close (connectRelay, signOut).    *)
RelaysAreHeld ==
    /\ relay # "none" => signed
    /\ relays = IF relay = "none" THEN 0 ELSE 1

(* Once there is a relay client, lists and announcements that overtook     *)
(* each other or were lost are made good: in the end the computers shown,  *)
(* and let in, are those of the account (startPolling, applyPresence).     *)
ListCatchesUp ==
    relay # "none" ~> known = fleet \/ relay = "none" \/ ~enrolled

(* docs/ARCHITECTURE.md:304 and main.ts:969: a computer that was signed in *)
(* reconnects on its own after a start.                                    *)
ReconnectsOnItsOwn == signed /\ enrolled ~> relay # "none" \/ ~signed \/ ~enrolled
=============================================================================
