----------------------------- MODULE MCAccounts -----------------------------
(* RefreshTokens, Throttle and RelayClient for TLC: a behaviour is one of  *)
(* the three, and the others stay as they began.                           *)
EXTENDS RefreshTokens, Throttle, RelayClient

VARIABLE part
vars == <<part, tokenVars, throttleVars, relayVars>>

Tokens(A) == part = "tokens" /\ A /\ UNCHANGED <<part, throttleVars, relayVars>>
Throttled(A) == part = "throttle" /\ A /\ UNCHANGED <<part, tokenVars, relayVars>>
Relayed(A) == part = "relay" /\ A /\ UNCHANGED <<part, tokenVars, throttleVars>>

(* Where a part is idle its choices are fixed.                             *)
Init ==
    /\ TokensInit /\ ThrottleInit /\ RelayInit
    /\ part \in {"tokens", "throttle", "relay"}
    /\ part # "throttle" => forgives

Next == Tokens(TokensNext) \/ Throttled(ThrottleNext) \/ Relayed(RelayNext)

Spec == Init /\ [][Next]_vars

(* Nothing orders the client's calls, or the computers and calls of a      *)
(* relay client.                                                           *)
Interchangeable == Permutations(Errand) \cup Permutations(Target) \cup Permutations(Req)

(* The server's books: of a sign-in one token lives, one used twice ends   *)
(* them all but for a client that could not help it, and a throttle lets   *)
(* only so many guesses through in any window.                             *)
AccountsHold ==
    TokensTypeOK /\ OneTokenPerSignIn /\ RevokedTogether /\ HonestClientStaysIn /\ GuessesPerWindow
=============================================================================
