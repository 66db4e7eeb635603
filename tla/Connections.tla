----------------------------- MODULE Connections -----------------------------
(* The computers that are remembered.                                      *)
(*                                                                         *)
(* The saved connections of connections.ts, as the window edits them, and  *)
(* their passwords, which are kept apart and follow only when the change   *)
(* has been written; two calls may be between those steps at once.  The    *)
(* backend is the keyring, or the vault, which may be locked.              *)
EXTENDS Naturals

CONSTANTS
    Conn,           \* connections: each is added once
    ConnOp,         \* calls under way at once
    Address,
    MaxEdits        \* bound: calls

ASSUME ConnectionsAssumption ==
    Address \subseteq Nat \ {0} /\ Address # {} /\ MaxEdits \in Nat

VARIABLES
    conn,           \* data.connections
    secrets,        \* the passwords the backend has
    locked,
    cop,
    edits,          \* counter for the bound
    stored,         \* history: connections that were on disk once
    residue,        \* history: removed while locked, in vain, or beside another call
    crossed         \* history: moved while a certificate was being looked at

connVars == <<conn, secrets, locked, cop, edits, stored, residue, crossed>>

Absent == [there |-> FALSE, addr |-> 0, cert |-> 0]
Unborn == [there |-> FALSE, addr |-> 1, cert |-> 0]
NoEdit == [at |-> "idle", conn |-> {}, to |-> {}, then |-> "nothing", addr |-> 0]
(* A call on c changes its record and writes the file; `then' comes after. *)
Saves(o, c, to, then) ==
    /\ cop[o] = NoEdit /\ edits < MaxEdits /\ edits' = edits + 1
    /\ cop' = [cop EXCEPT ![o] = [at |-> "saving", conn |-> {c}, to |-> to, then |-> then, addr |-> 0]]
EndsEdit(o) == cop' = [cop EXCEPT ![o] = NoEdit]
-----------------------------------------------------------------------------
ConnInit ==
    /\ conn = [c \in Conn |-> Unborn] /\ secrets = {} /\ locked \in BOOLEAN
    /\ cop = [o \in ConnOp |-> NoEdit] /\ edits = 0
    /\ stored = {} /\ residue = {} /\ crossed = FALSE

(* Mutant: the password goes first.                                        *)
AddPasswordFirst(o, c, then) ==
    /\ conn[c] = Unborn
    /\ Saves(o, c, {}, then)
    /\ conn' = [conn EXCEPT ![c] = [there |-> TRUE, addr |-> CHOOSE a \in Address : TRUE, cert |-> 0]]
    /\ secrets' = IF then = "set" /\ ~locked THEN secrets \cup {c} ELSE secrets
    /\ UNCHANGED <<locked, stored, residue, crossed>>
Add(o, c, then) ==
    /\ conn[c] = Unborn
    /\ Saves(o, c, {}, then)
    /\ conn' = [conn EXCEPT ![c] = [there |-> TRUE, addr |-> CHOOSE a \in Address : TRUE, cert |-> 0]]
    /\ UNCHANGED <<secrets, locked, stored, residue, crossed>>

(* update() of anything but the address: a password is set or forgotten.   *)
Update(o, c, then) ==
    /\ conn[c].there
    /\ Saves(o, c, {}, then)
    /\ UNCHANGED <<conn, secrets, locked, stored, residue, crossed>>

(* Mutant: the certificate stays with the connection.                      *)
MoveWithTrust(o, c, a) ==
    /\ conn[c].there
    /\ Saves(o, c, {}, "nothing")
    /\ conn' = [conn EXCEPT ![c].addr = a]
    /\ UNCHANGED <<secrets, locked, stored, residue, crossed>>
(* A different address is a different machine.                             *)
Move(o, c, a) ==
    /\ conn[c].there
    /\ Saves(o, c, {}, "nothing")
    /\ conn' = [conn EXCEPT ![c].addr = a, ![c].cert = IF a = conn[c].addr THEN @ ELSE 0]
    /\ UNCHANGED <<secrets, locked, stored, residue, crossed>>

(* startRdp finds a certificate at the address, and asks;                  *)
Prompt(o, c) ==
    /\ conn[c].there /\ cop[o] = NoEdit
    /\ cop' = [cop EXCEPT ![o] = [at |-> "asked", conn |-> {c}, to |-> {}, then |-> "nothing",
                              addr |-> conn[c].addr]]
    /\ UNCHANGED <<conn, secrets, locked, edits, stored, residue, crossed>>
(* trustCertificate: the answer is to remember it, or no.                  *)
Trust(o) ==
    /\ cop[o].at = "asked"
    /\ \E c \in cop[o].conn :
          /\ conn[c].there
          /\ conn' = [conn EXCEPT ![c].cert = cop[o].addr]
          /\ crossed' = (crossed \/ conn[c].addr # cop[o].addr)
    /\ cop' = [cop EXCEPT ![o].at = "saving"]
    /\ UNCHANGED <<secrets, locked, edits, stored, residue>>
Dismiss(o) ==
    /\ cop[o].at = "asked"
    /\ EndsEdit(o)
    /\ UNCHANGED <<conn, secrets, locked, edits, stored, residue, crossed>>

(* The copy has the certificate, and the password if it can be read.       *)
Duplicate(o, c, d) ==
    /\ conn[c].there /\ conn[d] = Unborn
    /\ Saves(o, c, {d}, "copy")
    /\ conn' = [conn EXCEPT ![d] = conn[c]]
    /\ UNCHANGED <<secrets, locked, stored, residue, crossed>>

(* Another call will set a password of c.                                  *)
Pending(c) == \E p \in ConnOp : /\ cop[p].then \in {"set", "copy"}
                                /\ c \in IF cop[p].to = {} THEN cop[p].conn ELSE cop[p].to
(* Mutant: the password stays.                                             *)
RemoveOnly(o, c) ==
    /\ conn[c].there
    /\ Saves(o, c, {}, "nothing")
    /\ conn' = [conn EXCEPT ![c] = Absent]
    /\ residue' = IF Pending(c) THEN residue \cup {c} ELSE residue
    /\ UNCHANGED <<secrets, locked, stored, crossed>>
Remove(o, c) ==
    /\ conn[c].there
    /\ Saves(o, c, {}, "delete")
    /\ conn' = [conn EXCEPT ![c] = Absent]
    /\ residue' = IF Pending(c) THEN residue \cup {c} ELSE residue
    /\ UNCHANGED <<secrets, locked, stored, crossed>>

(* The file is written with all there is (StoredFiles), or it is not and   *)
(* the call ends there.                                                    *)
Saved(o) ==
    /\ cop[o].at = "saving"
    /\ stored' = stored \cup {c \in Conn : conn[c].there}
    /\ IF cop[o].then = "nothing" THEN EndsEdit(o)
       ELSE cop' = [cop EXCEPT ![o].at = IF @ = "saving" THEN "secret" ELSE @]
    /\ UNCHANGED <<conn, secrets, locked, edits, residue, crossed>>
NotSavedNow(o) ==
    /\ cop[o].at = "saving"
    /\ residue' = IF cop[o].then = "delete" THEN residue \cup cop[o].conn ELSE residue
    /\ EndsEdit(o)
    /\ UNCHANGED <<conn, secrets, locked, edits, stored, crossed>>

(* credentials.set refuses when the vault is locked, delete does nothing.  *)
SetPassword(o) ==
    /\ cop[o].at = "secret" /\ cop[o].then \in {"set", "forget"}
    /\ secrets' = IF locked THEN secrets
                  ELSE IF cop[o].then = "set" THEN secrets \cup cop[o].conn ELSE secrets \ cop[o].conn
    /\ EndsEdit(o)
    /\ UNCHANGED <<conn, locked, edits, stored, residue, crossed>>
ErasePassword(o) ==
    /\ cop[o].at = "secret" /\ cop[o].then = "delete"
    /\ secrets' = IF locked THEN secrets ELSE secrets \ cop[o].conn
    /\ residue' = IF locked THEN residue \cup cop[o].conn ELSE residue
    /\ EndsEdit(o)
    /\ UNCHANGED <<conn, locked, edits, stored, crossed>>
(* credentials.get, and then set for the copy.                             *)
ReadPassword(o) ==
    /\ cop[o].at = "secret" /\ cop[o].then = "copy"
    /\ IF locked \/ cop[o].conn \cap secrets = {} THEN EndsEdit(o)
       ELSE cop' = [cop EXCEPT ![o].at = "copying"]
    /\ UNCHANGED <<conn, secrets, locked, edits, stored, residue, crossed>>
CopyPassword(o) ==
    /\ cop[o].at = "copying"
    /\ secrets' = IF locked THEN secrets ELSE secrets \cup cop[o].to
    /\ EndsEdit(o)
    /\ UNCHANGED <<conn, locked, edits, stored, residue, crossed>>

LockOrUnlock ==
    /\ locked' = ~locked
    /\ UNCHANGED <<conn, secrets, cop, edits, stored, residue, crossed>>

ConnNext ==
    \/ \E o \in ConnOp, c \in Conn :
          \/ \E then \in {"set", "nothing"} : Add(o, c, then)
          \/ \E then \in {"set", "forget", "nothing"} : Update(o, c, then)
          \/ \E a \in Address : Move(o, c, a)
          \/ \E d \in Conn : Duplicate(o, c, d)
          \/ Prompt(o, c) \/ Remove(o, c)
    \/ \E o \in ConnOp :
          \/ Trust(o) \/ Dismiss(o) \/ Saved(o) \/ NotSavedNow(o) \/ SetPassword(o)
          \/ ErasePassword(o) \/ ReadPassword(o) \/ CopyPassword(o)
    \/ LockOrUnlock
-----------------------------------------------------------------------------
(* The passwords are those of connections that are there, or about to be   *)
(* erased: none is left by a removal, unless the vault was locked, the     *)
(* file could not be written, or another call was about to set one         *)
(* (connections.ts:308).                                                   *)
NoOrphans ==
    \A c \in secrets :
        \/ conn[c].there \/ c \in residue
        \/ \E o \in ConnOp : cop[o].then = "delete" /\ c \in cop[o].conn

(* A password is saved only for a connection that reached the disk before  *)
(* it (connections.ts:251), or was removed while the call was under way.   *)
SecretsFollow == secrets \subseteq stored \cup residue

(* Trust given to the certificate at one address does not carry over to    *)
(* another (connections.ts:276), unless the connection was moved while the *)
(* question was open.                                                      *)
TrustFollowsAddress == crossed \/ \A c \in Conn : conn[c].cert \in {0, conn[c].addr}

-----------------------------------------------------------------------------
(* One click instead of a code: what a host remembers of a computer         *)
(* (trusted.ts) and what that computer remembers of the host (devices.ts),  *)
(* across connections, revocations, lapse and restarts of either.  Sessions *)
(* themselves are in HostSessions and ViewerRole.                           *)
CONSTANTS
    Lapse,          \* TRUST_TTL_MS
    MaxDay,         \* bound: the clock
    MaxConnects     \* bound: connections with a code

ASSUME PairingAssumption == {Lapse, MaxDay, MaxConnects} \subseteq Nat

VARIABLES
    day,
    trust, trustFile,   \* the day trust lapses, 0 for none; trusted.json
    pairing, pairFile,  \* "unknown", "known" or "paired"; devices.json
    attempt,            \* a connection under way
    connects,           \* counter for the bound
    revoked,            \* history: since the last grant, trust was withdrawn
    unwritten           \* history: the host ended before it wrote that down

hostSide == <<trust, trustFile, revoked, unwritten>>
viewerSide == <<pairing, pairFile>>
pairVars == <<day, hostSide, viewerSide, attempt, connects>>

NoAttempt == [at |-> "none", grant |-> FALSE, late |-> FALSE]
Accepted(grant, late) == [at |-> "accepted", grant |-> grant, late |-> late]
-----------------------------------------------------------------------------
PairInit ==
    /\ day = 0 /\ trust = 0 /\ trustFile = 0 /\ pairing = "unknown" /\ pairFile = "unknown"
    /\ attempt = NoAttempt /\ connects = 0 /\ revoked = FALSE /\ unwritten = FALSE

(* With a code, or over an account; the person at the host may say that it *)
(* need not ask again: add().                                              *)
ConnectAsked(remember) ==
    /\ attempt = NoAttempt /\ connects < MaxConnects /\ connects' = connects + 1
    /\ IF remember THEN trust' = day + Lapse /\ revoked' = FALSE /\ unwritten' = FALSE
                   ELSE UNCHANGED <<trust, revoked, unwritten>>
    /\ attempt' = Accepted(remember, FALSE)
    /\ UNCHANGED <<day, trustFile, viewerSide>>

ConnectPaired ==
    /\ attempt = NoAttempt /\ pairing = "paired"
    /\ attempt' = [NoAttempt EXCEPT !.at = "asked"]
    /\ UNCHANGED <<day, hostSide, viewerSide, connects>>

(* trusts(), which forgets what has lapsed, and renew().                   *)
HostDecides ==
    /\ attempt.at = "asked"
    /\ IF trust > day
       THEN trust' = day + Lapse /\ attempt' = Accepted(TRUE, revoked)
       ELSE trust' = 0 /\ attempt' = [attempt EXCEPT !.at = "refused"]
    /\ UNCHANGED <<day, trustFile, revoked, unwritten, viewerSide, connects>>

(* remember(): not being granted it is not being told otherwise.           *)
Remember == pairing' = IF attempt.grant \/ pairing = "paired" THEN "paired" ELSE "known"
Connected ==
    /\ attempt.at = "accepted"
    /\ Remember
    /\ attempt' = NoAttempt
    /\ UNCHANGED <<day, hostSide, pairFile, connects>>

(* Mutant: the refusal is shown, and that is all.                          *)
ShowRefusal == pairing' = pairing
(* setPaired(id, false).                                                   *)
ForgetPairing == pairing' = IF pairing = "paired" THEN "known" ELSE pairing
TurnedAway ==
    /\ attempt.at = "refused"
    /\ ForgetPairing
    /\ attempt' = NoAttempt
    /\ UNCHANGED <<day, hostSide, pairFile, connects>>

AttemptLost ==
    /\ attempt # NoAttempt /\ attempt' = NoAttempt
    /\ UNCHANGED <<day, hostSide, viewerSide, connects>>

(* Mutant: trust that is withdrawn is left to lapse.                       *)
RevokeLater ==
    /\ trust > 0 /\ trust' = day + 1 /\ revoked' = TRUE
    /\ UNCHANGED <<day, trustFile, unwritten, viewerSide, attempt, connects>>
(* remove() on the host, and forget() on the viewer.                       *)
Revoke ==
    /\ trust > 0 /\ trust' = 0 /\ revoked' = TRUE
    /\ UNCHANGED <<day, trustFile, unwritten, viewerSide, attempt, connects>>
ForgetHost ==
    /\ pairing # "unknown" /\ pairing' = "unknown"
    /\ UNCHANGED <<day, hostSide, pairFile, attempt, connects>>

(* The files follow (StoredFiles).                                         *)
HostWrites ==
    /\ trustFile # trust /\ trustFile' = trust
    /\ UNCHANGED <<day, trust, revoked, unwritten, viewerSide, attempt, connects>>
ViewerWrites ==
    /\ pairFile # pairing /\ pairFile' = pairing
    /\ UNCHANGED <<day, hostSide, pairing, attempt, connects>>

(* load(): what has lapsed is not loaded.  shutdown() waits for the        *)
(* viewer's file, but not for the host's.                                  *)
HostStarts ==
    /\ trust' = IF trustFile > day THEN trustFile ELSE 0
    /\ unwritten' = (unwritten \/ (revoked /\ trust = 0 /\ trust' # 0))
    /\ attempt' = NoAttempt
    /\ UNCHANGED <<day, trustFile, revoked, viewerSide, connects>>
ViewerStarts ==
    /\ pairing' = pairFile /\ attempt' = NoAttempt
    /\ UNCHANGED <<day, hostSide, pairFile, connects>>

DayPasses ==
    /\ day < MaxDay /\ day' = day + 1
    /\ UNCHANGED <<hostSide, viewerSide, attempt, connects>>

PairNext ==
    \/ \E remember \in BOOLEAN : ConnectAsked(remember)
    \/ ConnectPaired \/ HostDecides \/ Connected \/ TurnedAway \/ AttemptLost
    \/ Revoke \/ ForgetHost \/ HostWrites \/ ViewerWrites \/ HostStarts \/ ViewerStarts \/ DayPasses
-----------------------------------------------------------------------------
(* Withdrawn trust lets nobody in with one click until it is given again,  *)
(* through restarts too, if the host wrote it down before it ended.        *)
RevokedStaysOut == attempt.late => unwritten

(* One click that the host no longer honours is not offered for ever       *)
(* (devices.ts:127).                                                       *)
OneClickHeals == pairing = "paired" /\ trust = 0 ~> pairing # "paired" \/ trust # 0
=============================================================================
