--------------------------- MODULE AttemptLimiter ---------------------------
(***************************************************************************)
(* Guessing protection for the access code: packages/protocol/src/         *)
(* limiter.ts (class AttemptLimiter), together with the one thing it acts  *)
(* on from outside, the code itself (onRotate and regenerateCode, host.ts).*)
(*                                                                         *)
(* A code handshake calls begin(), holds the attempt while it runs, and    *)
(* settles it exactly once: with succeed() when the viewer proved it knows *)
(* the code, with fail() when it did not, left, or timed out.  `attempt'   *)
(* is that set of closures, one per handshake, and remembers which code    *)
(* the handshake was started against (HostAuthenticator.onHello reads the  *)
(* code and calls begin() in the same turn).                               *)
(*                                                                         *)
(* `failed' is history: failures per code.  Codes are numbered in the      *)
(* order they are generated, and MaxCode and MaxTime bound a run.          *)
(***************************************************************************)
EXTENDS Integers, FiniteSets

CONSTANTS
    Peer,               \* who is trying: an address and a claimed Device ID
    Handshake,          \* handshakes that can be under way at once
    NoAttempt,          \* a handshake holding no attempt
    MaxPending,         \* policy.maxPending
    MaxPendingPerPeer,  \* policy.maxPendingPerPeer
    FreeFailures,       \* policy.freeFailures
    BaseLockout,        \* policy.baseLockoutMs, in ticks
    MaxLockout,         \* policy.maxLockoutMs, in ticks
    RotateAfter,        \* policy.rotateAfter
    PeerTtl,            \* policy.peerTtlMs, in ticks
    MaxPeers,           \* policy.maxPeers
    MaxCode,            \* bound: codes generated in a run
    MaxTime             \* bound: ticks in a run

Code == 0 .. MaxCode
Attempt == [peer : Peer, code : Code]

ASSUME LimiterAssumption ==
    /\ IsFiniteSet(Handshake)
    /\ NoAttempt \notin Attempt
    /\ MaxPending \in Nat \ {0}
    /\ MaxPendingPerPeer \in Nat \ {0}
    /\ FreeFailures \in Nat \ {0}
    /\ BaseLockout \in Nat
    /\ MaxLockout \in Nat
    /\ RotateAfter \in Nat \ {0}
    /\ PeerTtl \in Nat
    /\ MaxPeers \in Nat
    /\ MaxPending < MaxPeers
    /\ MaxCode \in Nat
    /\ MaxTime \in Nat

VARIABLES
    now,            \* the clock
    tracked,        \* the keys of the peers Map
    record,         \* its values; Unknown for a peer that is not in the Map
    pending,        \* attempts in flight, across every peer
    sinceRotation,  \* failures counted against the code since it was new
    code,           \* the host's current access code
    attempt,        \* handshake -> the attempt it holds
    failed          \* history: code -> failures of attempts begun against it

vars == <<now, tracked, record, pending, sinceRotation, code, attempt, failed>>

-----------------------------------------------------------------------------
PeerRecord == [pending : Nat, consecutive : Nat, lockedUntil : Nat, seen : Nat]

Unknown == [pending |-> 0, consecutive |-> 0, lockedUntil |-> 0, seen |-> 0]

InFlight == {h \in Handshake : attempt[h] # NoAttempt}
InFlightFrom(p) == {h \in InFlight : attempt[h].peer = p}
InFlightOn(c) == {h \in InFlight : attempt[h].code = c}

Min2(a, b) == IF a < b THEN a ELSE b
Max2(a, b) == IF a > b THEN a ELSE b

(* The lockout that follows the n-th failure in a row, n >= FreeFailures:  *)
(* doubled each time, and never more than MaxLockout.                      *)
LockoutAfter(n) ==
    LET delay == BaseLockout * 2 ^ Min2(n - FreeFailures, 20)
    IN  IF delay \in 0 .. MaxLockout THEN delay ELSE MaxLockout

(* Mutant: prune() that forgets a peer in the middle of a handshake.       *)
ForgottenWhileBusy ==
    {p \in tracked : /\ now >= record[p].lockedUntil
                     /\ now - record[p].seen > PeerTtl}

(* prune(): quiet, out of lockout and not in the middle of a handshake.    *)
Forgotten ==
    {p \in tracked : /\ record[p].pending = 0
                     /\ now >= record[p].lockedUntil
                     /\ now - record[p].seen > PeerTtl}

(* Mutant: a full table displaces its oldest peer, busy or not.            *)
RemainingWhoeverIsOldest(p) ==
    LET kept   == tracked \ Forgotten
        oldest == {q \in kept : \A r \in kept : record[q].seen <= record[r].seen}
    IN  IF p \in kept \/ Cardinality(kept) < MaxPeers
        THEN {kept}
        ELSE {kept \ {q} : q \in oldest}

(* Mutant: displaces one peer too late.                                    *)
RemainingOneTooMany(p) ==
    LET kept   == tracked \ Forgotten
        idle   == {q \in kept : record[q].pending = 0}
        oldest == {q \in idle : \A r \in idle : record[q].seen <= record[r].seen}
    IN  IF p \in kept \/ Cardinality(kept) <= MaxPeers \/ idle = {}
        THEN {kept}
        ELSE {kept \ {q} : q \in oldest}

(* record(): the peers that remain when p is looked up.  A newcomer to a   *)
(* full table displaces the peer heard from longest ago, unless it has an  *)
(* attempt in flight; which of several equally old is Map order, left open.*)
Remaining(p) ==
    LET kept   == tracked \ Forgotten
        idle   == {q \in kept : record[q].pending = 0}
        oldest == {q \in idle : \A r \in idle : record[q].seen <= record[r].seen}
    IN  IF p \in kept \/ Cardinality(kept) < MaxPeers \/ idle = {}
        THEN {kept}
        ELSE {kept \ {q} : q \in oldest}

(* The table once p has been looked up in it and marked as seen.           *)
Touched(p, kept) ==
    [q \in Peer |-> IF q = p THEN [(IF p \in kept THEN record[p] ELSE Unknown)
                                     EXCEPT !.seen = now]
                    ELSE IF q \in kept THEN record[q] ELSE Unknown]

(* Mutant: the cap over every peer is off by one.                          *)
AdmissibleOneOver(r) ==
    /\ now >= r.lockedUntil
    /\ pending <= MaxPending
    /\ r.pending < MaxPendingPerPeer

(* begin() lets an attempt through: no lockout, and both caps allow it.    *)
Admissible(r) ==
    /\ now >= r.lockedUntil
    /\ pending < MaxPending
    /\ r.pending < MaxPendingPerPeer
-----------------------------------------------------------------------------
Init ==
    /\ now = 0
    /\ tracked = {}
    /\ record = [p \in Peer |-> Unknown]
    /\ pending = 0
    /\ sinceRotation = 0
    /\ code = 0
    /\ attempt = [h \in Handshake |-> NoAttempt]
    /\ failed = [c \in Code |-> 0]

(* begin(peer) answers ok: the handshake h holds an attempt from now on.   *)
Begin(h, p) ==
    /\ attempt[h] = NoAttempt
    /\ \E kept \in Remaining(p) :
         LET table == Touched(p, kept) IN
         /\ Admissible(table[p])
         /\ tracked' = kept \cup {p}
         /\ record' = [table EXCEPT ![p].pending = @ + 1]
    /\ pending' = pending + 1
    /\ attempt' = [attempt EXCEPT ![h] = [peer |-> p, code |-> code]]
    /\ UNCHANGED <<now, sinceRotation, code, failed>>

(* begin(peer) answers `locked' or `busy': only the table is touched.      *)
Refuse(p) ==
    /\ \E kept \in Remaining(p) :
         LET table == Touched(p, kept) IN
         /\ ~ Admissible(table[p])
         /\ tracked' = kept \cup {p}
         /\ record' = table
    /\ UNCHANGED <<now, pending, sinceRotation, code, attempt, failed>>

(* Mutant: one success lifts the lockout another attempt earned meanwhile. *)
SuccessUnlocks(r) ==
    [pending |-> r.pending - 1, consecutive |-> 0, lockedUntil |-> 0, seen |-> now]

(* The record of a peer after it proved it knows the code.                 *)
Success(r) ==
    [pending     |-> r.pending - 1,
     consecutive |-> 0,
     lockedUntil |-> r.lockedUntil,
     seen        |-> now]

(* settle(true)                                                            *)
Succeed(h) ==
    /\ attempt[h] # NoAttempt
    /\ LET p == attempt[h].peer IN
       record' = [record EXCEPT ![p] = Success(record[p])]
    /\ pending' = pending - 1
    /\ attempt' = [attempt EXCEPT ![h] = NoAttempt]
    /\ UNCHANGED <<now, tracked, sinceRotation, code, failed>>

(* The record of a peer after one more failure.                            *)
Failure(r) ==
    [pending     |-> r.pending - 1,
     consecutive |-> r.consecutive + 1,
     lockedUntil |-> IF r.consecutive + 1 >= FreeFailures
                     THEN Max2(r.lockedUntil, now + LockoutAfter(r.consecutive + 1))
                     ELSE r.lockedUntil,
     seen        |-> now]

(* A failure counts against the code in force now, whichever code it was   *)
(* made against; enough of them and onRotate() replaces that code.         *)
CountFailure ==
    IF sinceRotation + 1 >= RotateAfter
    THEN /\ sinceRotation' = 0
         /\ code < MaxCode
         /\ code' = code + 1
    ELSE /\ sinceRotation' = sinceRotation + 1
         /\ UNCHANGED code

(* settle(false)                                                           *)
Fail(h) ==
    /\ attempt[h] # NoAttempt
    /\ LET p == attempt[h].peer IN
       record' = [record EXCEPT ![p] = Failure(record[p])]
    /\ pending' = pending - 1
    /\ attempt' = [attempt EXCEPT ![h] = NoAttempt]
    /\ failed' = [failed EXCEPT ![attempt[h].code] = @ + 1]
    /\ CountFailure
    /\ UNCHANGED <<now, tracked>>

(* HostRole.regenerateCode(): a new code and resetForNewCode().            *)
Regenerate ==
    /\ code < MaxCode
    /\ code' = code + 1
    /\ sinceRotation' = 0
    /\ UNCHANGED <<now, tracked, record, pending, attempt, failed>>

Tick ==
    /\ now < MaxTime
    /\ now' = now + 1
    /\ UNCHANGED <<tracked, record, pending, sinceRotation, code, attempt, failed>>

Next ==
    \/ \E h \in Handshake, p \in Peer : Begin(h, p)
    \/ \E p \in Peer : Refuse(p)
    \/ \E h \in Handshake : Succeed(h) \/ Fail(h)
    \/ Regenerate
    \/ Tick

Spec == Init /\ [][Next]_vars

-----------------------------------------------------------------------------
TypeOK ==
    /\ now \in Nat
    /\ tracked \subseteq Peer
    /\ record \in [Peer -> PeerRecord]
    /\ pending \in Nat
    /\ sinceRotation \in Nat
    /\ code \in Code
    /\ attempt \in [Handshake -> Attempt \cup {NoAttempt}]
    /\ failed \in [Code -> Nat]

(* The counters the caps are checked against are the attempts actually in  *)
(* flight, in total and for each peer.  A slot that leaked here would shut *)
(* the access code for everyone (limiter.ts begin, settle, record, prune). *)
CountersMatchAttempts ==
    /\ pending = Cardinality(InFlight)
    /\ \A p \in Peer : record[p].pending = Cardinality(InFlightFrom(p))

(* Looking a peer up never drops a record that a handshake still points    *)
(* at: its later settle() would then count on an object outside the Map.   *)
AttemptsAreTracked == \A h \in InFlight : attempt[h].peer \in tracked

(* The table never outgrows MaxPeers, although record() may find nobody it *)
(* is allowed to drop: the cap on attempts in flight is what prevents it.  *)
TableBounded == Cardinality(tracked) <= MaxPeers

(* However handshakes overlap with rotation and with `New code', the       *)
(* guesses one code is exposed to - failed, or still in flight - number at *)
(* most RotateAfter and the attempts that were in flight beside the last   *)
(* one.  RotateAfter alone, as limiter.ts:23-25 has it, is no bound: an    *)
(* attempt under way when its code is replaced still fails against it.     *)
GuessesOn(c) == failed[c] + Cardinality(InFlightOn(c))
GuessBudget == \A c \in Code : GuessesOn(c) <= RotateAfter + MaxPending - 1

(* Nothing but a full table relieves a peer of a lockout it is serving:    *)
(* not success of an older attempt, a rotation, a new code or pruning.     *)
LockoutsStand ==
    [][\A p \in tracked :
         now < record[p].lockedUntil =>
            \/ p \in tracked' /\ record[p].lockedUntil <= record'[p].lockedUntil
            \/ p \notin tracked' /\ Cardinality(tracked \ Forgotten) >= MaxPeers]_vars

(* The table drops nobody it waits for, and still keeps its limit.         *)
TableKept == AttemptsAreTracked /\ TableBounded
=============================================================================
