------------------------------ MODULE RelayServer ------------------------------
(***************************************************************************)
(* The rendezvous: which computers are enrolled on which account, approved *)
(* and blocked (api.ts, store.ts), which of them are connected, and the    *)
(* sessions relayed between them (signaling.ts, presence.ts).              *)
(*                                                                         *)
(* The server's database answers at once, so a handler runs to its end     *)
(* undisturbed and is one step.  A connection is not: close() only begins  *)
(* the end of it, and until `close' is reported it is still counted, still *)
(* heard, and no longer told anything.  Meanwhile its device may be        *)
(* removed, enrolled elsewhere and back on another connection.             *)
(*                                                                         *)
(* What the clients send is their choice: any request on any connection.   *)
(***************************************************************************)
EXTENDS Naturals, FiniteSets

CONSTANTS
    Device,
    Account,
    Connection, \* names are used again
    Session,    \* ids are used again
    None,       \* no account, no connection, no device
    MaxSessions \* MAX_SESSIONS_PER_DEVICE

ASSUME RelayServerAssumption ==
    /\ None \notin Account \cup Connection \cup Device
    /\ MaxSessions \in Nat \ {0}

VARIABLES
    owner,               \* devices.account_id, None without a record
    approved,            \* devices.approved
    installed,           \* devices with a record in installations
    blockedDevice,       \* devices.blocked_at
    blockedInstallation, \* installations.blocked_at
    blockedAccount,      \* accounts.blocked_at
    socket,              \* "free", "open", or "closing" after close()
    who,                 \* Connection.deviceId
    under,               \* Connection.accountId, as it was on arrival
    online,              \* Presence.online
    joins              \* Presence.sessions: the two ends, {} without one

blocks == <<blockedDevice, blockedInstallation, blockedAccount>>
register == <<owner, approved, installed, blocks>>
connections == <<socket, who, under, online>>
relayVars == <<register, connections, joins>>

SessionsOf(c) == {s \in Session : c \in joins[s]}

(* Api.isBlocked: by any of the three routes.                              *)
IsBlocked(d) ==
    \/ d \in blockedInstallation
    \/ owner[d] # None /\ (d \in blockedDevice \/ owner[d] \in blockedAccount)

(* Api.authenticateToken, for a computer's own token, which its record     *)
(* holds.  Installations are not asked here.                               *)
Authenticates(d) ==
    owner[d] # None /\ d \notin blockedDevice /\ owner[d] \notin blockedAccount

(* close() on each of these.                                               *)
ClosesThem(cs) == [c \in Connection |-> IF c \in cs /\ socket[c] = "open" THEN "closing" ELSE socket[c]]

(* Presence.disconnect, of each of these devices.                          *)
DisconnectAll(ds) ==
    /\ socket' = ClosesThem({online[d] : d \in ds})
    /\ UNCHANGED <<who, under, online, joins>>
-----------------------------------------------------------------------------
RelayInit ==
    /\ owner = [d \in Device |-> None]
    /\ approved = {} /\ installed = {}
    /\ blockedDevice = {} /\ blockedInstallation = {} /\ blockedAccount = {}
    /\ socket = [c \in Connection |-> "free"]
    /\ who = [c \in Connection |-> None]
    /\ under = [c \in Connection |-> None]
    /\ online = [d \in Device |-> None]
    /\ joins = [s \in Session |-> {}]
-----------------------------------------------------------------------------
(* enrolDevice, by a person signed in to a.  The sign-in was checked       *)
(* before the request's body was read: a block may have come between.  The *)
(* first computer of an account vouches for itself; one that enrols again  *)
(* keeps the answer, and the block, it had.                                *)
Enrol(d, a) ==
    /\ owner[d] \in {None, a}
    /\ owner' = [owner EXCEPT ![d] = a]
    /\ approved' = IF owner[d] = None /\ \A e \in approved : owner[e] # a
                   THEN approved \cup {d}
                   ELSE approved
    /\ UNCHANGED <<installed, blocks, connections, joins>>

(* approveDevice, asked for with the token of an approved computer.        *)
Approve(by, d) ==
    /\ Authenticates(by) /\ by \in approved
    /\ d # by /\ owner[d] = owner[by]
    /\ approved' = approved \cup {d}
    /\ UNCHANGED <<owner, installed, blocks, connections, joins>>

(* Mutant: the record goes, and the connection stays.                      *)
RemoveQuietly(d) ==
    /\ owner[d] # None /\ owner[d] \notin blockedAccount
    /\ owner' = [owner EXCEPT ![d] = None]
    /\ approved' = approved \ {d}
    /\ blockedDevice' = blockedDevice \ {d}
    /\ UNCHANGED <<installed, blockedInstallation, blockedAccount, connections, joins>>

(* removeDevice: the record goes, its block with it, and its connection.   *)
Remove(d) ==
    /\ owner[d] # None /\ owner[d] \notin blockedAccount
    /\ owner' = [owner EXCEPT ![d] = None]
    /\ approved' = approved \ {d}
    /\ blockedDevice' = blockedDevice \ {d}
    /\ DisconnectAll({d})
    /\ UNCHANGED <<installed, blockedInstallation, blockedAccount>>

(* registerInstallation: a block survives it.                              *)
RegisterInstallation(d) ==
    /\ installed' = installed \cup {d}
    /\ UNCHANGED <<owner, approved, blocks, connections, joins>>

(* Both registers at once, each if it has a record.  An administrator's    *)
(* console closes the connection; the command line is another process and  *)
(* cannot.                                                                 *)
Block(d, route) ==
    /\ owner[d] # None \/ d \in installed
    /\ blockedDevice' = IF owner[d] # None THEN blockedDevice \cup {d} ELSE blockedDevice
    /\ blockedInstallation' = blockedInstallation \cup ({d} \cap installed)
    /\ DisconnectAll(IF route = "console" THEN {d} ELSE {})
    /\ UNCHANGED <<owner, approved, installed, blockedAccount>>

Unblock(d) ==
    /\ blockedDevice' = blockedDevice \ {d}
    /\ blockedInstallation' = blockedInstallation \ {d}
    /\ UNCHANGED <<owner, approved, installed, blockedAccount, connections, joins>>

BlockAccount(a, route) ==
    /\ blockedAccount' = blockedAccount \cup {a}
    /\ DisconnectAll(IF route = "console" THEN {d \in Device : owner[d] = a} ELSE {})
    /\ UNCHANGED <<owner, approved, installed, blockedDevice, blockedInstallation>>

UnblockAccount(a) ==
    /\ blockedAccount' = blockedAccount \ {a}
    /\ UNCHANGED <<owner, approved, installed, blockedDevice, blockedInstallation,
                   connections, joins>>
-----------------------------------------------------------------------------
(* A new connection whose `auth' is accepted, and Presence.add, which      *)
(* closes the one it replaces.  A refused one changes nothing here.        *)
Arrive(c, d) ==
    /\ socket[c] = "free" /\ Authenticates(d) /\ d \in approved
    /\ socket' = [ClosesThem({online[d]}) EXCEPT ![c] = "open"]
    /\ who' = [who EXCEPT ![c] = d]
    /\ under' = [under EXCEPT ![c] = owner[d]]
    /\ online' = [online EXCEPT ![d] = c]
    /\ UNCHANGED <<register, joins>>

(* The server's own reasons to close: silence, binary or unreadable        *)
(* messages, too many of them, a second `auth'.                            *)
ClientDrops(c) ==
    /\ socket[c] = "open"
    /\ socket' = ClosesThem({c})
    /\ UNCHANGED <<register, who, under, online, joins>>

(* Mutant: Presence.remove without asking which connection is the one.     *)
GoneWhicheverIsOnline(c) ==
    /\ socket[c] # "free"
    /\ socket' = [socket EXCEPT ![c] = "free"]
    /\ online' = [d \in Device |-> IF who[c] = d THEN None ELSE online[d]]
    /\ joins' = [s \in Session |-> IF c \in joins[s] THEN {} ELSE joins[s]]
    /\ who' = [who EXCEPT ![c] = None]
    /\ under' = [under EXCEPT ![c] = None]
    /\ UNCHANGED register

(* `close' is reported, of a connection either side or the network ended,  *)
(* and Presence.remove.                                                    *)
Gone(c) ==
    /\ socket[c] # "free"
    /\ socket' = [socket EXCEPT ![c] = "free"]
    /\ online' = [d \in Device |-> IF online[d] = c THEN None ELSE online[d]]
    /\ joins' = [s \in Session |-> IF c \in joins[s] THEN {} ELSE joins[s]]
    /\ who' = [who EXCEPT ![c] = None]
    /\ under' = [under EXCEPT ![c] = None]
    /\ UNCHANGED register

(* Mutant: only the device's own record is looked at.                      *)
SweepRecords ==
    /\ \E d \in blockedDevice : online[d] # None /\ socket[online[d]] = "open"
    /\ DisconnectAll(blockedDevice)
    /\ UNCHANGED register

(* dropBlocked, every 30 seconds.                                          *)
Sweep ==
    /\ \E d \in Device : IsBlocked(d) /\ online[d] # None /\ socket[online[d]] = "open"
    /\ DisconnectAll({d \in Device : IsBlocked(d)})
    /\ UNCHANGED register
-----------------------------------------------------------------------------
(* `connect' from a device blocked since it connected: no introduction,    *)
(* and the connection is closed.                                           *)
RefuseBlocked(c) ==
    /\ socket[c] = "open" /\ IsBlocked(who[c])
    /\ socket' = ClosesThem({c})
    /\ UNCHANGED <<register, who, under, online, joins>>

(* Mutant: the account of the one that is asked for is not compared.       *)
MayReachAnyAccount(c, d) ==
    /\ ~ IsBlocked(who[c])
    /\ d # who[c]
    /\ online[d] # None /\ ~ IsBlocked(d)
    /\ Cardinality(SessionsOf(c)) < MaxSessions
    /\ Cardinality(SessionsOf(online[d])) < MaxSessions

(* `connect': when it is answered with an introduction and not with        *)
(* not-found, same-device, offline or busy.                                *)
MayReach(c, d) ==
    /\ ~ IsBlocked(who[c])
    /\ owner[d] = under[c] /\ d # who[c]
    /\ online[d] # None /\ ~ IsBlocked(d)
    /\ Cardinality(SessionsOf(c)) < MaxSessions
    /\ Cardinality(SessionsOf(online[d])) < MaxSessions

Introduce(c, d, s) ==
    /\ socket[c] # "free" /\ MayReach(c, d)
    /\ joins[s] = {}
    /\ joins' = [joins EXCEPT ![s] = {c, online[d]}]
    /\ UNCHANGED <<register, connections>>

(* `close', from an end of the session.                                    *)
EndSession(c, s) ==
    /\ socket[c] # "free" /\ c \in joins[s]
    /\ joins' = [joins EXCEPT ![s] = {}]
    /\ UNCHANGED <<register, connections>>
-----------------------------------------------------------------------------
Decide(d) ==
    \/ \E a \in Account : Enrol(d, a)
    \/ \E by \in Device : Approve(by, d)
    \/ Remove(d) \/ RegisterInstallation(d) \/ Unblock(d)
    \/ \E route \in {"console", "command"} : Block(d, route)

DecideAccount(a) ==
    \/ UnblockAccount(a)
    \/ \E route \in {"console", "command"} : BlockAccount(a, route)

Serve(c) ==
    \/ \E d \in Device : Arrive(c, d)
    \/ ClientDrops(c) \/ Gone(c) \/ RefuseBlocked(c)
    \/ \E s \in Session : EndSession(c, s) \/ \E d \in Device : Introduce(c, d, s)

RelayNext ==
    \/ \E d \in Device : Decide(d)
    \/ \E a \in Account : DecideAccount(a)
    \/ \E c \in Connection : Serve(c)
    \/ Sweep

RelaySpec == RelayInit /\ [][RelayNext]_relayVars

(* What may be counted on: the sweep has its timer, and a close that the   *)
(* other side does not answer is ended by a timer of the WebSocket library.*)
CloseEnds(c) == socket[c] = "closing" /\ Gone(c)
-----------------------------------------------------------------------------
(* The kinds of the variables; and answers and blocks are those of records *)
(* there are (store.ts:304, 407 and 352), whatever was removed meanwhile.  *)
RelayTypeOK ==
    /\ owner \in [Device -> Account \cup {None}]
    /\ approved \subseteq Device /\ installed \subseteq Device
    /\ approved \cup blockedDevice \subseteq {d \in Device : owner[d] # None}
    /\ blockedInstallation \subseteq installed
    /\ blockedAccount \subseteq Account
    /\ socket \in [Connection -> {"free", "open", "closing"}]
    /\ who \in [Connection -> Device \cup {None}]
    /\ under \in [Connection -> Account \cup {None}]
    /\ online \in [Device -> Connection \cup {None}]
    /\ joins \in [Session -> SUBSET Connection]

(* However a device's connections replace one another, and in whatever     *)
(* order their ends are reported, the open one is the one it is reached by *)
(* (presence.ts:45 forgets a device only with its own connection).  It is  *)
(* also the one that removing or blocking the device closes.               *)
OpenIsOnline == \A c \in Connection : socket[c] = "open" => online[who[c]] = c

(* An open connection is that of a device enrolled and approved on the     *)
(* account it arrived under: api.ts and signaling.ts check the credential  *)
(* on arrival only, and this is why they need not do so again.             *)
OpenIsEnrolled ==
    \A c \in Connection :
        socket[c] = "open" => who[c] \in approved /\ owner[who[c]] = under[c]

(* signaling.ts:205-211: a session joins two devices of one account.  The  *)
(* record of the one that is asked for is compared with the account the    *)
(* other arrived under, and its connection is not looked at: while both    *)
(* are open it is nevertheless the same account.  Neither end is a         *)
(* connection that has gone, nor another of the same device.               *)
SessionsJoinDevices ==
    \A s \in Session : \A c, k \in joins[s] :
        /\ socket[c] # "free"
        /\ socket[c] = "open" /\ socket[k] = "open" => under[c] = under[k]
        /\ who[c] = who[k] => c = k

(* signaling.ts:30-39: a block takes effect however it was applied.  One   *)
(* that stays leaves the device no session.                                *)
BlockedAreCutOff ==
    \A d \in Device :
        <>[] IsBlocked(d) => <>[] (\A s \in Session : \A c \in joins[s] : who[c] # d)

(* An open connection is the one its device is reached by, and belongs to  *)
(* a device enrolled and approved on the account it arrived under, although *)
(* signaling.ts looks at a credential on arrival only.                     *)
OpenIsRightful == OpenIsOnline /\ OpenIsEnrolled
=============================================================================
