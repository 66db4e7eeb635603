---------------------------- MODULE RefreshTokens ----------------------------
(***************************************************************************)
(* Refresh tokens, from both ends: the rows of tokens.ts and store.ts with *)
(* the handlers of api.ts that issue, rotate and revoke them, and the one  *)
(* client that keeps the last token it was given (account.ts).             *)
(*                                                                         *)
(* A handler is one step at the server, save that it awaits the hashing of *)
(* a password.  The client's calls overlap: it renews whenever a request   *)
(* finds its access token stale and the computer has no token of its own.  *)
(* An answer may be lost, and the program may be restarted at any moment.  *)
(***************************************************************************)
EXTENDS Naturals

CONSTANTS
    Errand,  \* calls of the client under way at once
    MaxToken    \* bound: tokens ever issued

ASSUME TokensAssumption == MaxToken \in Nat

VARIABLES
    account,    \* "none", "open" or "blocked"
    row,        \* refresh_tokens, by id; ids are handed out in order
    issued,     \* the last id
    begun,      \* families there ever were, named by their first token
    stored,     \* the client's REFRESH_SECRET, 0 for none
    errand,       \* what each call waits for
    excuse      \* history: something befell the client that may sign it out

tokenVars == <<account, row, issued, begun, stored, errand, excuse>>
tokenRows == <<row, issued, begun>>

Ids == 1..MaxToken
NoErrand == [at |-> "idle", token |-> 0, blocked |-> FALSE]
Waiting(at, token) == [NoErrand EXCEPT !.at = at, !.token = token]
Turns(c, to) == errand' = [errand EXCEPT ![c] = to]
Alone(c) == \A d \in Errand \ {c} : errand[d] = NoErrand

Family(f) == {t \in DOMAIN row : row[t].family = f}
Usable(t) ==
    t \in DOMAIN row /\ ~row[t].used /\ ~row[t].revoked /\ ~row[t].expired
Live(f) == \E t \in Family(f) : Usable(t)

(* Mutant: a successor begins a family of its own.                         *)
IssuedAlone(rows, f) ==
    [t \in DOMAIN rows \cup {issued + 1} |->
        IF t \in DOMAIN rows THEN rows[t]
        ELSE [family |-> t, used |-> FALSE, revoked |-> FALSE, expired |-> FALSE]]
(* issueRefresh: a new id in this family, or 0 to begin one.               *)
Issued(rows, f) ==
    [t \in DOMAIN rows \cup {issued + 1} |->
        IF t \in DOMAIN rows THEN rows[t]
        ELSE [family |-> IF f = 0 THEN t ELSE f,
              used |-> FALSE, revoked |-> FALSE, expired |-> FALSE]]

(* Mutant: the token alone is revoked.                                     *)
RevokedOnly(t) == [u \in DOMAIN row |-> [row[u] EXCEPT !.revoked = @ \/ u = t]]
(* revokeFamily, of the family of this token.                              *)
RevokedWith(t) ==
    [u \in DOMAIN row |-> [row[u] EXCEPT !.revoked = @ \/ row[u].family = row[t].family]]
-----------------------------------------------------------------------------
TokensInit ==
    /\ account = "none"
    /\ row = [t \in {} |-> NoErrand]
    /\ issued = 0 /\ begun = {}
    /\ stored = 0
    /\ errand = [c \in Errand |-> NoErrand]
    /\ excuse = FALSE
-----------------------------------------------------------------------------
(* register: the address is free; the password is hashed.                  *)
Register(c) ==
    /\ errand[c] = NoErrand /\ account = "none"
    /\ Turns(c, Waiting("registering", 0))
    /\ excuse' = (excuse \/ ~Alone(c))
    /\ UNCHANGED <<account, tokenRows, stored>>

(* It is created, unless another request did so meanwhile: the database    *)
(* refuses the second.  The client signs in next.                          *)
Created(c) ==
    /\ errand[c].at = "registering"
    /\ account' = IF account = "none" THEN "open" ELSE account
    /\ Turns(c, IF account = "none" THEN Waiting("registered", 0) ELSE NoErrand)
    /\ UNCHANGED <<tokenRows, stored, excuse>>

(* login reads the account, and then hashes the password.                  *)
Login(c) ==
    /\ errand[c] = NoErrand \/ errand[c].at = "registered"
    /\ account # "none"
    /\ Turns(c, [Waiting("password", 0) EXCEPT !.blocked = account = "blocked"])
    /\ excuse' = (excuse \/ ~Alone(c))
    /\ UNCHANGED <<account, tokenRows, stored>>

(* The password matches or not; a block is the one that was read before.   *)
LoggedIn(c) ==
    /\ errand[c].at = "password"
    /\ \/ /\ ~errand[c].blocked /\ issued < MaxToken
          /\ row' = Issued(row, 0)
          /\ issued' = issued + 1
          /\ begun' = begun \cup {issued'}
          /\ Turns(c, Waiting("answered", issued'))
       \/ UNCHANGED tokenRows /\ Turns(c, NoErrand)
    /\ UNCHANGED <<account, stored, excuse>>

(* authorization(): the access token has lapsed, as it may between any two *)
(* steps, and the stored token is exchanged.                               *)
Renew(c) ==
    /\ errand[c] = NoErrand /\ stored # 0
    /\ Turns(c, Waiting("sent", stored))
    /\ excuse' = (excuse \/ ~Alone(c))
    /\ UNCHANGED <<account, tokenRows, stored>>

(* Mutant: a revoked token that was not used is exchanged like any other.  *)
AcceptsRevoked(t) == t \in DOMAIN row /\ ~row[t].used /\ ~row[t].expired
(* rotateRefresh, in the order of its tests.                               *)
Exchanges(t) == Usable(t)
Replayed(t) == t \in DOMAIN row /\ ~row[t].revoked /\ row[t].used
(* Mutant: the token stays as it was.                                      *)
Unspent(t) == row
Spent(t) == [row EXCEPT ![t].used = TRUE]

(* refresh.  Whether the account is blocked is asked only after the token  *)
(* was exchanged: the answer then says so, and holds no successor.  An     *)
(* orphan is a request whose sender has given up.                          *)
Rotate(c) ==
    /\ errand[c].at \in {"sent", "orphan"}
    /\ LET t == errand[c].token
           heard == errand[c].at = "sent" /\ account = "open" IN
       \/ /\ Exchanges(t) /\ issued < MaxToken
          /\ row' = Issued(Spent(t), row[t].family)
          /\ issued' = issued + 1
          /\ Turns(c, IF heard THEN Waiting("answered", issued') ELSE NoErrand)
          /\ excuse' = (excuse \/ ~heard)
       \/ /\ ~Exchanges(t)
          /\ row' = IF Replayed(t) THEN RevokedWith(t) ELSE row
          /\ Turns(c, NoErrand)
          /\ UNCHANGED <<issued, excuse>>
    /\ UNCHANGED <<account, begun, stored>>

(* The network fails on the way there, or on the way back.                 *)
Loses(c) ==
    /\ errand[c].at \in {"sent", "answered"}
    /\ Turns(c, IF errand[c].at = "sent" THEN Waiting("orphan", errand[c].token) ELSE NoErrand)
    /\ excuse' = TRUE
    /\ UNCHANGED <<account, tokenRows, stored>>

(* Mutant: the token in store stays the one that was exchanged.            *)
NotSaved(c) ==
    /\ errand[c].at = "answered"
    /\ Turns(c, NoErrand)
    /\ stored' = IF stored = 0 THEN errand[c].token ELSE stored
    /\ UNCHANGED <<account, tokenRows, excuse>>
(* The answer is taken up and the token stored.                            *)
Saved(c) ==
    /\ errand[c].at = "answered"
    /\ stored' = errand[c].token
    /\ Turns(c, NoErrand)
    /\ UNCHANGED <<account, tokenRows, excuse>>

(* signOut reads the token in store; without one it has nothing to say.    *)
Leave(c) ==
    /\ errand[c] = NoErrand
    /\ Turns(c, Waiting(IF stored = 0 THEN "erasing" ELSE "leaving", stored))
    /\ excuse' = (excuse \/ ~Alone(c))
    /\ UNCHANGED <<account, tokenRows, stored>>

(* logout, if it arrives.                                                  *)
Logout(c) ==
    /\ errand[c].at = "leaving"
    /\ \/ row' = IF errand[c].token \in DOMAIN row THEN RevokedWith(errand[c].token) ELSE row
       \/ UNCHANGED row
    /\ Turns(c, Waiting("erasing", 0))
    /\ UNCHANGED <<account, issued, begun, stored, excuse>>

Erase(c) ==
    /\ errand[c].at = "erasing"
    /\ stored' = 0
    /\ Turns(c, NoErrand)
    /\ UNCHANGED <<account, tokenRows, excuse>>

(* The program is closed or crashes, and is started again.                 *)
ProgramRestarts ==
    /\ errand' = [c \in Errand |->
                   IF errand[c].at \in {"sent", "orphan"} THEN Waiting("orphan", errand[c].token) ELSE NoErrand]
    /\ excuse' = (excuse \/ \E c \in Errand : errand[c] # NoErrand)
    /\ UNCHANGED <<account, tokenRows, stored>>

(* An administrator blocks the account, or lets it in again.               *)
BlockOrUnblock ==
    /\ account # "none"
    /\ account' = IF account = "open" THEN "blocked" ELSE "open"
    /\ UNCHANGED <<tokenRows, stored, errand, excuse>>

Expire(t) ==
    /\ t \in DOMAIN row /\ ~row[t].expired
    /\ row' = [row EXCEPT ![t].expired = TRUE]
    /\ UNCHANGED <<account, issued, begun, stored, errand, excuse>>

(* startServer, after a restart of the server: pruneRefresh.               *)
Prune ==
    /\ row' = [t \in {u \in DOMAIN row : ~row[u].expired} |-> row[t]]
    /\ UNCHANGED <<account, issued, begun, stored, errand, excuse>>

TokensNext ==
    \/ \E c \in Errand :
          \/ Register(c) \/ Created(c) \/ Login(c) \/ LoggedIn(c)
          \/ Renew(c) \/ Rotate(c) \/ Loses(c) \/ Saved(c)
          \/ Leave(c) \/ Logout(c) \/ Erase(c)
    \/ ProgramRestarts \/ BlockOrUnblock
    \/ \E t \in Ids : Expire(t)
    \/ Prune

TokensSpec == TokensInit /\ [][TokensNext]_tokenVars
-----------------------------------------------------------------------------
TokenRow == [family : Ids, used : BOOLEAN, revoked : BOOLEAN, expired : BOOLEAN]

(* Every token is of a family that was begun, with its first token.        *)
TokensTypeOK ==
    /\ account \in {"none", "open", "blocked"}
    /\ issued \in 0..MaxToken
    /\ DOMAIN row \subseteq 1..issued
    /\ \A t \in DOMAIN row : row[t] \in TokenRow /\ row[t].family \in begun
    /\ begun \subseteq 1..issued
    /\ stored \in 0..issued
    /\ excuse \in BOOLEAN
    /\ \A c \in Errand :
          /\ errand[c].at \in {"idle", "registering", "registered", "password", "sent", "orphan",
                             "answered", "leaving", "erasing"}
          /\ errand[c].token \in 0..issued

(* However requests overlap, are lost and are repeated, a sign-in never    *)
(* has two refresh tokens that work (rotateRefresh).                       *)
OneTokenPerSignIn ==
    \A t, u \in DOMAIN row : Usable(t) /\ Usable(u) /\ row[t].family = row[u].family => t = u

(* When a token was replayed, or its owner signed out, no token of that    *)
(* sign-in is left that works: neither older nor newer (revokeFamily).     *)
RevokedTogether ==
    \A t, u \in DOMAIN row : row[t].family = row[u].family => row[t].revoked = row[u].revoked

(* The families of tokens implement sessions that end for good.            *)
SessionOf(f) == IF f \notin begun THEN "none" ELSE IF Live(f) THEN "live" ELSE "ended"
Abstract == INSTANCE SignIns WITH SignIn <- Ids, session <- [f \in Ids |-> SessionOf(f)]
SignInsAreSessions == Abstract!Spec

(* A client whose calls never overlapped, were never cut short and never   *)
(* met a block keeps a token that works until it expires: rotation does    *)
(* not sign out whoever plays by the rules (authorization, rotateRefresh). *)
HonestClientStaysIn ==
    ~excuse /\ stored # 0 /\ (\A c \in Errand : errand[c] = NoErrand)
        => Usable(stored) \/ stored \notin DOMAIN row \/ row[stored].expired
=============================================================================
