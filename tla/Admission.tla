------------------------------ MODULE Admission ------------------------------
(* What a host checks of a hello before any key is used: that it is fresh   *)
(* (NonceCache, replay.ts) and that its peer does not hurry (PeerThrottle,  *)
(* limiter.ts), each with a table that is pruned, has a limit, and goes by  *)
(* a clock that may be set.                                                 *)
EXTENDS Naturals, Sequences, FiniteSets

CONSTANTS
    Nonce, Caller,
    WindowMs,       \* NonceCache.windowMs, in ticks
    MaxEntries,
    PerWindow, BrakeMs, MaxCallers,     \* ThrottlePolicy
    LastTick        \* bound: the clock

ASSUME AdmissionAssumption ==
    /\ {WindowMs, PerWindow, BrakeMs, MaxCallers, LastTick} \subseteq Nat
    /\ MaxEntries \in Nat \ {0}

VARIABLES
    clock, setBack, \* the host's clock; history: it has been set back
    seen,           \* nonces with the time they came, oldest first
    stamp,          \* the time in the hello of each nonce; Unsent before it is made
    passed, again,  \* history: nonces let through, and those let through twice
    displaced,      \* history: nonces evicted from a full cache
    tries,          \* windows: the count and end for each caller
    allowedAt       \* history: when each caller was let through

nonceVars == <<seen, stamp, passed, again, displaced>>
brakeVars == <<tries, allowedAt>>
admissionVars == <<clock, setBack, nonceVars, brakeVars>>

Unsent == LastTick + 1
NoWindow == [count |-> 0, until |-> 0]
Apart(a, b) == IF a > b THEN a - b ELSE b - a

AdmissionInit ==
    /\ clock = 0 /\ setBack = FALSE
    /\ seen = <<>> /\ stamp = [n \in Nonce |-> Unsent] /\ passed = {} /\ again = {} /\ displaced = {}
    /\ tries = [c \in Caller |-> NoWindow] /\ allowedAt = [c \in Caller |-> <<>>]
-----------------------------------------------------------------------------
(* A hello is made; whoever has seen it may send it again.                 *)
Stamp(n, time) ==
    /\ stamp[n] = Unsent /\ stamp' = [stamp EXCEPT ![n] = time]
    /\ UNCHANGED <<clock, setBack, seen, passed, again, displaced, brakeVars>>

(* Mutant: a nonce is kept for one window.                                 *)
OutdatedSoon(e) == clock > e.at /\ clock - e.at > WindowMs
(* prune(): older than twice the window.                                   *)
Outdated(e) == clock > e.at /\ clock - e.at > 2 * WindowMs

(* From the oldest up to the first that is kept.                           *)
Pruned ==
    LET kept == {i \in 1..Len(seen) : ~Outdated(seen[i])}
    IN IF kept = {} THEN <<>>
       ELSE SubSeq(seen, CHOOSE i \in kept : \A j \in kept : i <= j, Len(seen))

(* NonceCache.check() of a hello.                                          *)
Check(n) ==
    /\ stamp[n] # Unsent /\ Apart(clock, stamp[n]) <= WindowMs
    /\ IF \E i \in 1..Len(Pruned) : Pruned[i].nonce = n
       THEN seen' = Pruned /\ UNCHANGED <<passed, again, displaced>>
       ELSE /\ LET room == IF Len(Pruned) >= MaxEntries THEN Tail(Pruned) ELSE Pruned
               IN seen' = Append(room, [nonce |-> n, at |-> clock])
            /\ displaced' = IF Len(Pruned) >= MaxEntries THEN displaced \cup {Pruned[1].nonce} ELSE displaced
            /\ passed' = passed \cup {n} /\ again' = again \cup ({n} \cap passed)
    /\ UNCHANGED <<clock, setBack, stamp, brakeVars>>
-----------------------------------------------------------------------------
(* PeerThrottle.allow(): windows that are over go first.  Bounds: how long *)
(* the history gets, and one try over the limit tells as much as more do.  *)
Lasting == {c \in Caller : tries[c].until > clock}
(* Mutant: a window that is used up makes place for another.               *)
WindowAfresh(c) ==
    IF c \in Lasting /\ tries[c].count < PerWindow THEN [tries[c] EXCEPT !.count = @ + 1]
                     ELSE [count |-> 1, until |-> clock + BrakeMs]
(* The window of a caller with this try in it.                             *)
WindowOf(c) ==
    IF c \in Lasting THEN [tries[c] EXCEPT !.count = @ + 1]
                     ELSE [count |-> 1, until |-> clock + BrakeMs]

Allow(c) ==
    /\ Len(allowedAt[c]) < 3 * PerWindow
    /\ LET others == [d \in Caller |-> IF d \in Lasting THEN tries[d] ELSE NoWindow]
       IN IF Cardinality(Lasting) >= MaxCallers /\ c \notin Lasting
          THEN tries' = others /\ UNCHANGED allowedAt
          ELSE /\ tries' = [others EXCEPT ![c] = WindowOf(c)]
               /\ allowedAt' = IF WindowOf(c).count > PerWindow THEN allowedAt
                               ELSE [allowedAt EXCEPT ![c] = Append(@, clock)]
    /\ (c \in Lasting => tries[c].count <= PerWindow)
    /\ UNCHANGED <<clock, setBack, nonceVars>>

Passes == clock < LastTick /\ clock' = clock + 1 /\ UNCHANGED <<setBack, nonceVars, brakeVars>>
SetBack == clock > 0 /\ ~setBack /\ setBack' = TRUE /\ clock' = 0 /\ UNCHANGED <<nonceVars, brakeVars>>

AdmissionNext ==
    \/ Passes \/ SetBack
    \/ \E n \in Nonce : Check(n) \/ (\E time \in 0..LastTick : Stamp(n, time))
    \/ \E c \in Caller : Allow(c)
-----------------------------------------------------------------------------
(* A hello that was recorded is let through again only when newer ones     *)
(* have filled the whole table since, or the clock was set back: pruning   *)
(* never forgets one that would still pass the clock check (replay.ts:37). *)
ReplayMeansDisplaced == setBack \/ again \subseteq displaced

(* However tries and windows fall, a caller gets no further than twice the *)
(* number of one window within its length (limiter.ts:195).                *)
TriesPerWindow ==
    setBack \/ \A c \in Caller : \A i \in 1..Len(allowedAt[c]) :
        i + 2 * PerWindow <= Len(allowedAt[c]) =>
            allowedAt[c][i + 2 * PerWindow] >= allowedAt[c][i] + BrakeMs
=============================================================================
