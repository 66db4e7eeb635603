------------------------------ MODULE Discovery ------------------------------
(* Finding computers on the networks this one is on.  A host answers queries *)
(* while it announces itself (HopdeskAnnouncer, mdns.ts); a viewer that has a *)
(* Device ID asks for that computer (findHosts), or lists whoever answers     *)
(* within some seconds (browseLan, discovery.ts).  Datagrams are lost, late   *)
(* and doubled; hosts start, stop and change networks meanwhile.              *)
EXTENDS Naturals, FiniteSets, FiniteSetsExt

CONSTANTS
    Machine,        \* computers that may answer
    Net,            \* networks, in the order a system lists them
    Default,        \* whichever interface the routing table prefers
    MaxChanges,     \* bound: hosts that start, stop or move
    MaxSearches     \* bound: searches, one after the other

ASSUME DiscoveryAssumption == Net \subseteq Nat /\ {MaxChanges, MaxSearches} \subseteq Nat

VARIABLES
    up, nets,       \* of each host: "no", "yes", or "leaving" in stop(); its networks
    mine, route,    \* networks of this computer; the one its routing table prefers
    search, wanted, \* "none", "binding", "open" or "ended"; the computer asked for, or Anyone
    toLeave,        \* interfaces of the queries that have not left yet
    reached,          \* networks they reached
    replies, found, \* to this search: on their way, and taken
    again, thrown,  \* browseLan: searches whose second query is due; one found its
                    \* socket closed
    silent,         \* history: hosts that have not announced since the search began
    searches, changes

hosts == <<up, nets>>
place == <<mine, route>>
asking == <<search, wanted, toLeave, reached, searches>>
discoveryVars == <<hosts, place, asking, replies, found, again, thrown, silent, changes>>

Anyone == "anyone"
Searching == search \in {"binding", "open"}
-----------------------------------------------------------------------------
DiscoveryInit ==
    /\ up \in [Machine -> {"no", "yes"}] /\ nets \in [Machine -> SUBSET Net]
    /\ mine \in SUBSET Net /\ route \in (IF mine = {} THEN {Default} ELSE mine)
    /\ search = "none" /\ wanted = Anyone /\ toLeave = {} /\ reached = {}
    /\ replies = {} /\ found = {} /\ again = {} /\ thrown = FALSE /\ silent = {}
    /\ searches = 0 /\ changes = 0

(* start(): announced once the socket is bound.                            *)
Starts(h) ==
    /\ up[h] # "yes" /\ up' = [up EXCEPT ![h] = "yes"] /\ silent' = silent \ {h}
    /\ changes < MaxChanges /\ changes' = changes + 1
    /\ UNCHANGED <<nets, place, asking, replies, found, again, thrown>>
(* stop(): a goodbye, 20 ms for it to leave, and the socket is closed.     *)
SaysGoodbye(h) ==
    /\ up[h] = "yes" /\ up' = [up EXCEPT ![h] = "leaving"]
    /\ changes < MaxChanges /\ changes' = changes + 1
    /\ UNCHANGED <<nets, place, asking, replies, found, again, thrown, silent>>
Gone(h) ==
    /\ up[h] = "leaving" /\ up' = [up EXCEPT ![h] = "no"]
    /\ UNCHANGED <<nets, place, asking, replies, found, again, thrown, silent, changes>>
Moves(h, to) ==
    /\ nets' = [nets EXCEPT ![h] = to] /\ changes < MaxChanges /\ changes' = changes + 1
    /\ UNCHANGED <<up, place, asking, replies, found, again, thrown, silent>>

(* Mutant: a host answers until its socket is closed.                      *)
MayAnswerLeaving(h) == up[h] # "no"
(* answer(): there is a socket.                                            *)
MayAnswer(h) == up[h] = "yes"
(* Mutant: the first address there is.                                     *)
AddressListed(h, n) == Min(nets[h])
(* localAddresses(): the one on the network of who asks comes first.       *)
AddressFor(h, n) == n
Responds(h, n) ==
    /\ search = "open" /\ n \in reached \cap nets[h] /\ MayAnswer(h)
    /\ replies' = replies \cup {[of |-> h, address |-> AddressFor(h, n)]}
    /\ UNCHANGED <<hosts, place, asking, found, again, thrown, silent, changes>>
-----------------------------------------------------------------------------
(* findHosts() or browseLan(): a new socket, so late answers to an earlier *)
(* search are not heard.                                                   *)
Find(who) ==
    /\ ~Searching /\ searches < MaxSearches /\ searches' = searches + 1
    /\ search' = "binding" /\ wanted' = who /\ toLeave' = {} /\ reached' = {}
    /\ replies' = {} /\ found' = {} /\ silent' = {h \in Machine : up[h] # "yes"}
    /\ UNCHANGED <<hosts, place, again, thrown, changes>>
(* The socket is bound: a query for each network this computer is on, and  *)
(* one however the routing table would send it; browseLan() sends only     *)
(* that one, and another after 600 ms.                                     *)
Bound ==
    /\ search = "binding" /\ search' = "open"
    /\ toLeave' = {Default} \cup (IF wanted = Anyone THEN {} ELSE mine)
    /\ again' = IF wanted = Anyone THEN again \cup {searches} ELSE again
    /\ UNCHANGED <<hosts, place, wanted, reached, searches, replies, found, thrown, silent, changes>>
BindFails ==
    /\ search = "binding" /\ search' = "ended"
    /\ UNCHANGED <<hosts, place, wanted, toLeave, reached, searches, replies, found, again, thrown, silent, changes>>

(* A query leaves in a later turn of the event loop, by the interface it   *)
(* was meant for or, as the socket has been told of all of them by then,   *)
(* by the last.  With no network it fails; when all have, the search ends. *)
Leaves(i) ==
    /\ search = "open" /\ i \in toLeave /\ toLeave' = toLeave \ {i}
    /\ IF mine = {}
       THEN reached' = reached /\ search' = IF toLeave' = {} THEN "ended" ELSE search
       ELSE /\ \E by \in {i, Default} : reached' = reached \cup {IF by = Default THEN route ELSE by}
            /\ UNCHANGED search
    /\ UNCHANGED <<hosts, place, wanted, searches, replies, found, again, thrown, silent, changes>>
SecondQuery(s) ==
    /\ s \in again /\ again' = again \ {s}
    /\ IF s = searches /\ search = "open"
       THEN toLeave' = toLeave \cup {Default} /\ UNCHANGED thrown
       ELSE thrown' = TRUE /\ UNCHANGED toLeave
    /\ UNCHANGED <<hosts, place, search, wanted, reached, searches, replies, found, silent, changes>>

(* collect(): of each computer the last address it gave; the first, in     *)
(* assemble().                                                             *)
Collected(a) == {b \in found : b.of # a.of} \cup {a}
Assembled(a) == IF \E b \in found : b.of = a.of THEN found ELSE found \cup {a}
(* An answer comes in: the computer asked for ends the search.             *)
Hears(a) ==
    /\ search = "open" /\ a \in replies
    /\ found' = IF wanted = Anyone THEN Assembled(a) ELSE Collected(a)
    /\ search' = IF a.of = wanted THEN "ended" ELSE search
    /\ UNCHANGED <<hosts, place, wanted, toLeave, reached, searches, replies, again, thrown, silent, changes>>
(* Mutant: a search goes on until somebody has answered.                   *)
EndsOnAnswer == found # {}
Ends == TRUE
(* The timer: queries are sent and have left long before it goes off.      *)
Timer ==
    /\ search = "open" /\ toLeave = {} /\ searches \notin again /\ Ends /\ search' = "ended"
    /\ UNCHANGED <<hosts, place, wanted, toLeave, reached, searches, replies, found, again, thrown, silent, changes>>

SearchGoesOn == Bound \/ BindFails \/ Timer \/ (\E i \in Net \cup {Default} : Leaves(i)) \/ \E s \in 1..MaxSearches : SecondQuery(s)
DiscoveryNext ==
    \/ SearchGoesOn
    \/ \E who \in Machine \cup {Anyone} : Find(who)
    \/ \E h \in Machine :
        \/ Starts(h) \/ SaysGoodbye(h) \/ Gone(h)
        \/ \E to \in SUBSET Net : Moves(h, to)
        \/ \E n \in Net : Responds(h, n) \/ Hears([of |-> h, address |-> n])
-----------------------------------------------------------------------------
(* Whatever is found can be connected to: it is on a network this computer *)
(* is on too, though the other one may list addresses of others first      *)
(* (mdns.ts:164).                                                          *)
FoundIsReachable == \A a \in found : a.address \in mine

(* A host that said goodbye before a search began is not found by it       *)
(* (mdns.ts:282), however late answers are.                                *)
FoundIsFresh == \A a \in found : a.of \notin silent

(* Every search ends, answered or not, and whatever could be sent          *)
(* (mdns.ts:331, discovery.ts:78).                                         *)
SearchEnds == Searching ~> ~Searching

(* "Once per interface, so a query reaches the network the other computer  *)
(* is actually on" (mdns.ts:355).  It does not hold if queries leave by    *)
(* the interface the socket was told of last.                              *)
AskedEverywhere == search = "ended" /\ wanted # Anyone /\ found = {} /\ reached # {} => mine \subseteq reached

(* No timer finds its socket closed.  It does not hold: a search that ends *)
(* early, because its query could not be sent, leaves its second query due *)
(* (discovery.ts:75-77).                                                   *)
NothingThrown == ~thrown

(* What a search finds can be connected to: by an address of a network     *)
(* both are on, at a host that was there when the search began.            *)
FoundIsTrue == FoundIsReachable /\ FoundIsFresh
=============================================================================
