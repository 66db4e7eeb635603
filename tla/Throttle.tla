------------------------------ MODULE Throttle ------------------------------
(***************************************************************************)
(* Store.throttle and the handlers of api.ts that count against it: one    *)
(* key, an address or an email, and all the requests that share it.        *)
(***************************************************************************)
EXTENDS Naturals, FiniteSets

CONSTANTS
    Limit,      \* attempts per window
    Window,
    MaxGuess,   \* bound: requests let through
    MaxNow      \* bound: the clock

ASSUME ThrottleAssumption ==
    /\ Limit \in Nat \ {0} /\ Window \in Nat \ {0}
    /\ {MaxGuess, MaxNow} \subseteq Nat

VARIABLES
    now,
    forgives,   \* the handler clears the count when the guess was right
    counted,    \* the row: how many, 0 without a row, and until when
    until,
    guess,      \* of each request: "none", "checking", "right", "wrong"
    at,         \* history: when it was let through
    fresh       \* history: no clearThrottle since

Guess == 1..MaxGuess
throttleVars == <<now, forgives, counted, until, guess, at, fresh>>
-----------------------------------------------------------------------------
ThrottleInit ==
    /\ now = 0
    /\ forgives \in BOOLEAN
    /\ counted = 0 /\ until = 0
    /\ guess = [g \in Guess |-> "none"]
    /\ at = [g \in Guess |-> 0]
    /\ fresh = {}

(* Requests are numbered in the order in which they are let through.       *)
Asks(g) == guess[g] = "none" /\ \A h \in 1..(g - 1) : guess[h] # "none"
Running == counted > 0 /\ until > now
Locked == Running /\ counted >= Limit

(* Mutant: the window begins with the first attempt and is not moved.      *)
FixedWindow(g) ==
    /\ Asks(g) /\ ~Locked
    /\ counted' = IF Running THEN counted + 1 ELSE 1
    /\ until' = IF Running THEN until ELSE now + Window
    /\ guess' = [guess EXCEPT ![g] = "checking"]
    /\ at' = [at EXCEPT ![g] = now]
    /\ fresh' = fresh \cup {g}
    /\ UNCHANGED <<now, forgives>>
(* throttle() lets it through, and what it asks for is looked up, hashed,  *)
(* compared.                                                               *)
LetThrough(g) ==
    /\ Asks(g) /\ ~Locked
    /\ counted' = IF Running THEN counted + 1 ELSE 1
    /\ until' = now + Window
    /\ guess' = [guess EXCEPT ![g] = "checking"]
    /\ at' = [at EXCEPT ![g] = now]
    /\ fresh' = fresh \cup {g}
    /\ UNCHANGED <<now, forgives>>

(* `too-many-attempts': nothing is written.                                *)
Refused(g) ==
    /\ Asks(g) /\ Locked
    /\ UNCHANGED throttleVars

Wrong(g) ==
    /\ guess[g] = "checking"
    /\ guess' = [guess EXCEPT ![g] = "wrong"]
    /\ UNCHANGED <<now, forgives, counted, until, at, fresh>>

(* login and requireAdmin clear the count, register does not.              *)
Right(g) ==
    /\ guess[g] = "checking"
    /\ guess' = [guess EXCEPT ![g] = "right"]
    /\ IF forgives
       THEN counted' = 0 /\ until' = 0 /\ fresh' = {}
       ELSE UNCHANGED <<counted, until, fresh>>
    /\ UNCHANGED <<now, forgives, at>>

Tick ==
    /\ now < MaxNow
    /\ now' = now + 1
    /\ UNCHANGED <<forgives, counted, until, guess, at, fresh>>

ThrottleNext ==
    \/ \E g \in Guess : LetThrough(g) \/ Refused(g) \/ Wrong(g) \/ Right(g)
    \/ Tick
-----------------------------------------------------------------------------
(* In no stretch of Window are more than Limit guesses let through, unless *)
(* a right one came between: not by waiting for the window to end, and not *)
(* by having many under way at once (throttle).                            *)
GuessesPerWindow ==
    \A start \in 0..now :
        Cardinality({g \in fresh : at[g] \in start..(start + Window - 1)}) <= Limit

=============================================================================
