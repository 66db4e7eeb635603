--------------------------- MODULE AccountProofs ---------------------------
(***************************************************************************)
(* Accounts, for any number of guesses, calls, tokens and families, devices *)
(* and frames.  Each part of MCAccounts has an inductive invariant of its   *)
(* own; AccountsInv joins them.                                             *)
(*                                                                         *)
(* Guesses.  The row counts the last guesses that were let through, of all *)
(* that still matter; the others are a window older (Chained), so that     *)
(* any window sees those of one row or of the other, never of both.        *)
(*                                                                         *)
(* Tokens.  RowSteps says what a step may do to the rows of the server at  *)
(* all, and the lemmas after it what then becomes of each row: of a        *)
(* sign-in at most one token works, its tokens are revoked together, and   *)
(* the families implement SignIns.  For the client, Honest: what a call    *)
(* and the disk hold is good for as long as nothing was lost or revoked,   *)
(* and no two calls hold one token.                                        *)
(*                                                                         *)
(* The relay, seen from one client: every request has one answer or its    *)
(* timer, every session has one introduction under way at most (LinkOK),   *)
(* and its frames are numbered as they were sent, from those handed over   *)
(* through those in the backlog to those under way.                        *)
(***************************************************************************)
EXTENDS MCAccounts, FiniteSetTheorems, TLAPS

-----------------------------------------------------------------------------
(* Guesses.                                                                *)

(* The guesses counted in the row, and those of windows that ended before  *)
(* any of these was made.                                                  *)
Chained(S) ==
    /\ S \subseteq fresh /\ Cardinality(S) = counted
    /\ \A g \in fresh \ S, h \in S : at[g] + Window <= at[h]
    /\ \A h \in S : at[h] + Window <= until
    /\ S = {} => fresh = {}

ThrottleTypes ==
    /\ now \in Nat /\ until \in Nat /\ counted \in 0..Limit
    /\ fresh \subseteq Guess
    /\ guess \in [Guess -> {"none", "checking", "right", "wrong"}]
    /\ at \in [Guess -> 0..now]
    /\ \A g \in fresh : guess[g] # "none"

Within(start) == {g \in fresh : at[g] \in start..(start + Window - 1)}
WindowsHold == \A start \in Nat : Cardinality(Within(start)) <= Limit

ThrottleInv == ThrottleTypes /\ (\E S \in SUBSET fresh : Chained(S)) /\ WindowsHold

LEMMA GuessesAreFinite ==
    ASSUME NEW S, S \subseteq Guess
    PROVE  IsFiniteSet(S) /\ Cardinality(S) \in Nat
<1>1. IsFiniteSet(Guess)
    BY ThrottleAssumption, FS_Interval DEF Guess
<1> QED
    BY <1>1, FS_Subset, FS_CardinalityType

LEMMA ThrottleInitInv == ThrottleInit => ThrottleInv
<1> SUFFICES ASSUME ThrottleInit PROVE ThrottleInv
    OBVIOUS
<1>1. Cardinality({}) = 0
    BY FS_EmptySet
<1>2. ThrottleTypes
    BY ThrottleAssumption DEF ThrottleInit, ThrottleTypes
<1>3. Chained({}) /\ {} \in SUBSET fresh
    BY <1>1 DEF ThrottleInit, Chained
<1>4. \A start \in Nat : Within(start) = {}
    BY DEF ThrottleInit, Within
<1> QED
    BY <1>1, <1>2, <1>3, <1>4, ThrottleAssumption DEF ThrottleInv, WindowsHold

LEMMA LetThroughKeeps ==
    ASSUME ThrottleInv, NEW g \in Guess, LetThrough(g)
    PROVE  ThrottleInv'
<1> USE ThrottleAssumption DEF ThrottleInv
<1>1. PICK S \in SUBSET fresh : Chained(S)
    OBVIOUS
<1>2. g \notin fresh /\ guess[g] = "none"
    BY DEF LetThrough, Asks, ThrottleTypes
<1>3. /\ fresh' = fresh \cup {g} /\ at' = [at EXCEPT ![g] = now] /\ until' = now + Window
      /\ now' = now /\ guess' = [guess EXCEPT ![g] = "checking"]
    BY DEF LetThrough
<1>4. /\ at'[g] = now /\ \A h \in fresh : at'[h] = at[h] /\ at[h] \in 0..now /\ at[h] \in Nat
      /\ now \in Nat /\ until \in Nat /\ counted \in Nat
    BY <1>2, <1>3 DEF ThrottleTypes
<1>5. Cardinality(S) \in Nat /\ IsFiniteSet(S) /\ Cardinality(S) = counted
    BY GuessesAreFinite, <1>1 DEF Chained, ThrottleTypes
\* What is counted afterwards: these and this one, or this one alone.
<1>0. PICK T : T = IF Running THEN S \cup {g} ELSE {g}
    OBVIOUS
<1>6. Cardinality(T) = counted' /\ counted' \in 1..Limit
    <2>1. CASE Running
        <3>1. Cardinality(S \cup {g}) = counted + 1
            BY <1>1, <1>2, <1>5, FS_AddElement
        <3>2. counted' = counted + 1 /\ counted < Limit
            BY <2>1, <1>4 DEF LetThrough, Locked
        <3> QED
            BY <1>0, <2>1, <3>1, <3>2, <1>4
    <2>2. CASE ~Running
        <3>1. Cardinality({g}) = 1
            BY FS_Singleton
        <3>2. counted' = 1 /\ T = {g}
            BY <1>0, <2>2 DEF LetThrough
        <3> QED
            BY <3>1, <3>2
    <2> QED
        BY <2>1, <2>2
<1>7. \A h \in fresh \ T : at[h] + Window <= now
    <2>1. CASE Running
        <3>1. S # {}
            BY <2>1, <1>5, FS_EmptySet DEF Running
        <3>2. PICK h \in S : TRUE
            BY <3>1
        <3> QED
            BY <1>0, <2>1, <3>2, <1>1, <1>4 DEF Chained
    <2>2. CASE ~Running
        <3>1. CASE counted = 0
            <4>1. S = {}
                BY <3>1, <1>5, FS_EmptySet
            <4> QED
                BY <4>1, <1>1 DEF Chained
        <3>2. CASE until <= now
            <4>1. ASSUME NEW h \in fresh PROVE at[h] + Window <= now
                <5>1. CASE h \in S
                    BY <5>1, <3>2, <1>1, <1>4 DEF Chained
                <5>2. CASE h \notin S
                    <6>1. PICK s \in S : TRUE
                        BY <1>1 DEF Chained
                    <6>2. at[h] + Window <= at[s] /\ at[s] + Window <= until /\ at[s] \in Nat /\ at[h] \in Nat
                        BY <6>1, <5>2, <1>1, <1>4 DEF Chained
                    <6> QED
                        BY <6>2, <3>2, <1>4
                <5> QED
                    BY <5>1, <5>2
            <4> QED
                BY <4>1
        <3> QED
            BY <2>2, <3>1, <3>2, <1>4 DEF Running
    <2> QED
        BY <2>1, <2>2
<1>8. ThrottleTypes'
    <2>1. now' \in Nat /\ until' \in Nat /\ counted' \in 0..Limit
        BY <1>3, <1>4, <1>6
    <2>2. at' \in [Guess -> 0..now']
        BY <1>3, <1>4 DEF ThrottleTypes
    <2>3. guess' \in [Guess -> {"none", "checking", "right", "wrong"}] /\ \A h \in fresh' : guess'[h] # "none"
        BY <1>3 DEF ThrottleTypes
    <2> QED
        BY <1>3, <2>1, <2>2, <2>3 DEF ThrottleTypes
<1>9. T \in SUBSET fresh' /\ T # {} /\ g \in T /\ T \subseteq S \cup {g}
    BY <1>0, <1>1, <1>3
<1>10. Chained(T)'
    <2>1. \A h \in T \ {g} : Running /\ h \in S
        BY <1>0
    <2>2. \A x \in fresh' \ T, h \in T : at'[x] + Window <= at'[h]
        <3> SUFFICES ASSUME NEW x \in fresh' \ T, NEW h \in T PROVE at'[x] + Window <= at'[h]
            OBVIOUS
        <3>1. x \in fresh /\ x # g
            BY <1>3, <1>9
        <3>2. CASE h = g
            BY <3>1, <3>2, <1>4, <1>7
        <3>3. CASE h # g
            <4>1. x \in fresh \ S /\ h \in S /\ h \in fresh
                BY <3>1, <3>3, <2>1, <1>0, <1>1
            <4> QED
                BY <3>1, <4>1, <1>1, <1>4 DEF Chained
        <3> QED
            BY <3>2, <3>3
    <2>3. \A h \in T : at'[h] + Window <= until'
        BY <1>0, <1>1, <1>3, <1>4 DEF Chained
    <2> QED
        BY <1>6, <1>9, <2>2, <2>3 DEF Chained
<1>11. WindowsHold'
    <2> SUFFICES ASSUME NEW start \in Nat PROVE Cardinality(Within(start)') <= Limit
        BY DEF WindowsHold
    <2>0. Within(start) \subseteq Guess /\ Within(start)' \subseteq Guess
        BY <1>8 DEF Within, ThrottleTypes
    <2>1. CASE g \notin Within(start)'
        <3>1. Within(start)' = Within(start)
            BY <2>1, <1>2, <1>3, <1>4 DEF Within
        <3> QED
            BY <3>1 DEF WindowsHold
    <2>2. CASE g \in Within(start)'
        <3>1. now \in start..(start + Window - 1)
            BY <2>2, <1>4 DEF Within
        <3>2. ASSUME NEW h \in Within(start)', h \notin T PROVE FALSE
            <4>1. h \in fresh /\ at[h] \in start..(start + Window - 1)
                BY <3>2, <1>3, <1>4, <1>9 DEF Within
            <4> QED
                BY <4>1, <3>1, <3>2, <1>4, <1>7
        <3>3. T \subseteq Guess
            BY <1>8, <1>9 DEF ThrottleTypes
        <3>4. Cardinality(Within(start)') <= Cardinality(T)
            BY <3>2, <3>3, GuessesAreFinite, FS_Subset
        <3> QED
            BY <3>4, <1>6, <2>0, GuessesAreFinite
    <2> QED
        BY <2>1, <2>2
<1>12. \E U \in SUBSET fresh' : Chained(U)'
    BY <1>9, <1>10
<1> QED
    BY <1>8, <1>11, <1>12

LEMMA RightKeeps ==
    ASSUME ThrottleInv, NEW g \in Guess, Right(g)
    PROVE  ThrottleInv'
<1> USE ThrottleAssumption DEF ThrottleInv
<1>1. now' = now /\ at' = at /\ guess' = [guess EXCEPT ![g] = "right"]
    BY DEF Right
<1>2. CASE forgives
    <2>1. counted' = 0 /\ until' = 0 /\ fresh' = {}
        BY <1>2 DEF Right
    <2>2. Cardinality({}) = 0
        BY FS_EmptySet
    <2>3. ThrottleTypes'
        BY <1>1, <2>1 DEF ThrottleTypes
    <2>4. Chained({})' /\ {} \in SUBSET fresh'
        BY <2>1, <2>2 DEF Chained
    <2>5. \A start \in Nat : Within(start)' = {}
        BY <2>1 DEF Within
    <2> QED
        BY <2>2, <2>3, <2>4, <2>5 DEF WindowsHold
<1>3. CASE ~forgives
    <2>1. counted' = counted /\ until' = until /\ fresh' = fresh
        BY <1>3 DEF Right
    <2>2. ThrottleTypes'
        BY <1>1, <2>1 DEF ThrottleTypes
    <2>3. \A S : Chained(S) => Chained(S)'
        BY <1>1, <2>1 DEF Chained
    <2>4. WindowsHold'
        BY <1>1, <2>1 DEF WindowsHold, Within
    <2> QED
        BY <2>1, <2>2, <2>3, <2>4
<1> QED
    BY <1>2, <1>3

LEMMA ThrottleKeeps ==
    ASSUME ThrottleInv, [ThrottleNext]_throttleVars
    PROVE  ThrottleInv'
<1>1. ASSUME NEW g \in Guess, Wrong(g) PROVE ThrottleInv'
    <2>1. counted' = counted /\ until' = until /\ fresh' = fresh /\ at' = at /\ now' = now
          /\ guess' = [guess EXCEPT ![g] = "wrong"]
        BY <1>1 DEF Wrong
    <2>2. ThrottleTypes'
        BY <2>1 DEF ThrottleInv, ThrottleTypes
    <2>3. (\A S : Chained(S) => Chained(S)') /\ WindowsHold'
        BY <2>1 DEF ThrottleInv, Chained, WindowsHold, Within
    <2> QED
        BY <2>1, <2>2, <2>3 DEF ThrottleInv
<1>2. CASE Tick
    <2>1. counted' = counted /\ until' = until /\ fresh' = fresh /\ at' = at /\ now' = now + 1
          /\ guess' = guess
        BY <1>2 DEF Tick
    <2>2. ThrottleTypes'
        BY <2>1 DEF ThrottleInv, ThrottleTypes
    <2>3. (\A S : Chained(S) => Chained(S)') /\ WindowsHold'
        BY <2>1 DEF ThrottleInv, Chained, WindowsHold, Within
    <2> QED
        BY <2>1, <2>2, <2>3 DEF ThrottleInv
<1>3. CASE UNCHANGED throttleVars
    <2>1. counted' = counted /\ until' = until /\ fresh' = fresh /\ at' = at /\ now' = now
          /\ guess' = guess
        BY <1>3 DEF throttleVars
    <2> QED
        BY <2>1 DEF ThrottleInv, ThrottleTypes, Chained, WindowsHold, Within
<1>4. ASSUME NEW g \in Guess, Refused(g) PROVE UNCHANGED throttleVars
    BY <1>4 DEF Refused
<1> QED
    BY <1>1, <1>2, <1>3, <1>4, LetThroughKeeps, RightKeeps DEF ThrottleNext

LEMMA WindowsAreWindows == ThrottleInv => GuessesPerWindow
<1> SUFFICES ASSUME ThrottleInv, NEW start \in 0..now
             PROVE  Cardinality({g \in fresh : at[g] \in start..(start + Window - 1)}) <= Limit
    BY DEF GuessesPerWindow
<1> QED
    BY DEF ThrottleInv, ThrottleTypes, WindowsHold, Within
-----------------------------------------------------------------------------
(* The families of refresh tokens.                                         *)

RowsOK ==
    /\ issued \in 0..MaxToken
    /\ row = [t \in DOMAIN row |-> row[t]]
    /\ DOMAIN row \subseteq 1..issued
    /\ begun \subseteq 1..issued
    /\ \A t \in DOMAIN row : row[t] \in TokenRow /\ row[t].family \in begun

TokensInv == RowsOK /\ OneTokenPerSignIn /\ RevokedTogether

(* What a step may do to the rows.                                         *)
NewRow(f) == [family |-> f, used |-> FALSE, revoked |-> FALSE, expired |-> FALSE]
Begins ==
    /\ issued' = issued + 1 /\ issued' <= MaxToken /\ begun' = begun \cup {issued'}
    /\ row' = [t \in DOMAIN row \cup {issued'} |-> IF t \in DOMAIN row THEN row[t] ELSE NewRow(t)]
Exchange(u) ==
    /\ Usable(u)
    /\ issued' = issued + 1 /\ issued' <= MaxToken /\ begun' = begun
    /\ row' = [t \in DOMAIN row \cup {issued'} |->
                 IF t = u THEN [row[t] EXCEPT !.used = TRUE]
                 ELSE IF t \in DOMAIN row THEN row[t] ELSE NewRow(row[u].family)]
Revokes(u) == u \in DOMAIN row /\ row' = RevokedWith(u) /\ issued' = issued /\ begun' = begun
Lapses(u) ==
    /\ u \in DOMAIN row /\ issued' = issued /\ begun' = begun
    /\ row' = [row EXCEPT ![u].expired = TRUE]

LEMMA LoggedInRows ==
    ASSUME TokensInv, NEW c \in Errand, LoggedIn(c)
    PROVE  UNCHANGED tokenRows \/ Begins
<1> USE TokensAssumption DEF TokensInv, RowsOK, tokenRows
<1>1. CASE UNCHANGED tokenRows
    BY <1>1
<1>2. CASE ~UNCHANGED tokenRows
    <2>1. row' = Issued(row, 0) /\ issued' = issued + 1 /\ issued < MaxToken
          /\ begun' = begun \cup {issued'}
        BY <1>2 DEF LoggedIn
    <2> QED
        BY <2>1 DEF Begins, Issued, NewRow
<1> QED
    BY <1>1, <1>2

LEMMA RotateRows ==
    ASSUME TokensInv, NEW c \in Errand, Rotate(c), NEW t, t = errand[c].token
    PROVE  \/ Exchanges(t) /\ t \in DOMAIN row /\ Exchange(t)
           \/ ~Exchanges(t) /\ (UNCHANGED tokenRows \/ (t \in DOMAIN row /\ Revokes(t)))
<1>1. CASE Exchanges(t)
    <2>1. t \in DOMAIN row /\ Usable(t) /\ issued + 1 \notin DOMAIN row /\ row[t].family # 0
        BY <1>1, TokensAssumption DEF TokensInv, RowsOK, Exchanges, Usable, TokenRow, Ids
    <2>2. row' = Issued(Spent(t), row[t].family) /\ issued' = issued + 1 /\ issued < MaxToken
          /\ begun' = begun
        BY <1>1 DEF Rotate
    <2>3. DOMAIN Spent(t) = DOMAIN row /\ \A u \in DOMAIN row :
            Spent(t)[u] = IF u = t THEN [row[u] EXCEPT !.used = TRUE] ELSE row[u]
        BY <2>1 DEF Spent
    <2>4. row' = [u \in DOMAIN row \cup {issued'} |->
                    IF u = t THEN [row[u] EXCEPT !.used = TRUE]
                    ELSE IF u \in DOMAIN row THEN row[u] ELSE NewRow(row[t].family)]
        BY <2>1, <2>2, <2>3 DEF Issued, NewRow
    <2> QED
        BY <1>1, <2>1, <2>2, <2>4, TokensAssumption DEF TokensInv, RowsOK, Exchange
<1>2. CASE ~Exchanges(t)
    <2>1. /\ issued' = issued /\ begun' = begun
          /\ row' = IF Replayed(t) THEN RevokedWith(t) ELSE row
        BY <1>2 DEF Rotate
    <2>2. Replayed(t) => t \in DOMAIN row
        BY DEF Replayed
    <2>3. CASE Replayed(t)
        BY <1>2, <2>1, <2>2, <2>3 DEF Revokes
    <2>4. CASE ~Replayed(t)
        <3>1. UNCHANGED tokenRows
            BY <2>1, <2>4 DEF tokenRows
        <3> QED
            BY <1>2, <3>1
    <2> QED
        BY <2>3, <2>4
<1> QED
    BY <1>1, <1>2

LEMMA LogoutRows ==
    ASSUME NEW c \in Errand, Logout(c)
    PROVE  UNCHANGED tokenRows \/ \E u \in DOMAIN row : Revokes(u)
BY DEF Logout, Revokes, tokenRows

LEMMA RowSteps ==
    ASSUME TokensInv, [TokensNext]_tokenVars
    PROVE  \/ UNCHANGED tokenRows
           \/ Begins \/ (\E u \in DOMAIN row : Exchange(u) \/ Revokes(u) \/ Lapses(u)) \/ Prune
<1>1. ASSUME NEW t \in Ids, Expire(t) PROVE \E u \in DOMAIN row : Lapses(u)
    BY <1>1 DEF Expire, Lapses
<1>2. CASE UNCHANGED tokenVars \/ ProgramRestarts \/ BlockOrUnblock
    BY <1>2 DEF tokenVars, tokenRows, ProgramRestarts, BlockOrUnblock
<1>3. ASSUME NEW c \in Errand,
             \/ Register(c) \/ Created(c) \/ Login(c) \/ Renew(c) \/ Loses(c)
             \/ Saved(c) \/ Leave(c) \/ Erase(c)
      PROVE  UNCHANGED tokenRows
    BY <1>3 DEF tokenRows, Register, Created, Login, Renew, Loses, Saved, Leave, Erase
<1> QED
    BY <1>1, <1>2, <1>3, LoggedInRows, RotateRows, LogoutRows DEF TokensNext

(* What becomes of each row.                                               *)
LEMMA BeginsRows ==
    ASSUME TokensInv, Begins
    PROVE  /\ issued' \notin DOMAIN row /\ DOMAIN row' = DOMAIN row \cup {issued'}
           /\ row'[issued'] = NewRow(issued')
           /\ \A t \in DOMAIN row : row'[t] = row[t]
BY TokensAssumption DEF TokensInv, RowsOK, Begins

LEMMA NewFields == \A f : NewRow(f).family = f /\ NewRow(f).revoked = FALSE
BY DEF NewRow

LEMMA UsedFields ==
    ASSUME NEW r \in TokenRow, NEW s, s = [r EXCEPT !.used = TRUE]
    PROVE  s \in TokenRow /\ s.used /\ s.family = r.family /\ s.revoked = r.revoked
BY DEF TokenRow

LEMMA RevokedFields ==
    ASSUME NEW r \in TokenRow, NEW b \in BOOLEAN, NEW s, s = [r EXCEPT !.revoked = b]
    PROVE  s \in TokenRow /\ s.used = r.used /\ s.family = r.family /\ s.revoked = b
           /\ s.expired = r.expired
BY DEF TokenRow

LEMMA ExpiredFields ==
    ASSUME NEW r \in TokenRow, NEW s, s = [r EXCEPT !.expired = TRUE]
    PROVE  s \in TokenRow /\ s.expired /\ s.family = r.family /\ s.revoked = r.revoked
BY DEF TokenRow

LEMMA ExchangeRows ==
    ASSUME TokensInv, NEW u \in DOMAIN row, Exchange(u)
    PROVE  /\ issued' \notin DOMAIN row /\ DOMAIN row' = DOMAIN row \cup {issued'}
           /\ row'[issued'] = NewRow(row[u].family)
           /\ row'[u] \in TokenRow /\ row'[u].used
           /\ row'[u].family = row[u].family /\ row'[u].revoked = row[u].revoked
           /\ \A t \in DOMAIN row \ {u} : row'[t] = row[t]
<1>1. /\ issued' \notin DOMAIN row /\ DOMAIN row' = DOMAIN row \cup {issued'}
      /\ row'[issued'] = NewRow(row[u].family)
      /\ row'[u] = [row[u] EXCEPT !.used = TRUE]
      /\ \A t \in DOMAIN row \ {u} : row'[t] = row[t]
    BY TokensAssumption DEF TokensInv, RowsOK, Exchange
<1>2. row[u] \in TokenRow
    BY DEF TokensInv, RowsOK
<1> QED
    BY <1>1, <1>2, UsedFields

LEMMA RevokesRows ==
    ASSUME TokensInv, NEW u \in DOMAIN row, Revokes(u)
    PROVE  /\ DOMAIN row' = DOMAIN row
           /\ \A t \in DOMAIN row :
                /\ row'[t] \in TokenRow /\ row'[t].family = row[t].family
                /\ row'[t].used = row[t].used /\ row'[t].expired = row[t].expired
                /\ row'[t].revoked = (row[t].revoked \/ row[t].family = row[u].family)
<1>1. DOMAIN row' = DOMAIN row
    BY DEF Revokes, RevokedWith
<1>2. ASSUME NEW t \in DOMAIN row
      PROVE  /\ row'[t] \in TokenRow /\ row'[t].family = row[t].family
             /\ row'[t].used = row[t].used /\ row'[t].expired = row[t].expired
             /\ row'[t].revoked = (row[t].revoked \/ row[t].family = row[u].family)
    <2> DEFINE b == row[t].revoked \/ row[t].family = row[u].family
    <2>1. row'[t] = [row[t] EXCEPT !.revoked = b]
        BY DEF Revokes, RevokedWith
    <2>2. row[t] \in TokenRow /\ b \in BOOLEAN
        BY DEF TokensInv, RowsOK
    <2> HIDE DEF b
    <2>3. /\ row'[t] \in TokenRow /\ row'[t].family = row[t].family
          /\ row'[t].used = row[t].used /\ row'[t].expired = row[t].expired
          /\ row'[t].revoked = b
        BY <2>1, <2>2, RevokedFields
    <2> QED
        BY <2>3 DEF b
<1> QED
    BY <1>1, <1>2

LEMMA LapsesRows ==
    ASSUME TokensInv, NEW u \in DOMAIN row, Lapses(u)
    PROVE  /\ DOMAIN row' = DOMAIN row
           /\ row'[u] \in TokenRow /\ row'[u].expired
           /\ row'[u].family = row[u].family /\ row'[u].revoked = row[u].revoked
           /\ \A t \in DOMAIN row \ {u} : row'[t] = row[t]
<1>1. /\ DOMAIN row' = DOMAIN row /\ row'[u] = [row[u] EXCEPT !.expired = TRUE]
      /\ \A t \in DOMAIN row \ {u} : row'[t] = row[t]
    BY DEF Lapses
<1>2. row[u] \in TokenRow
    BY DEF TokensInv, RowsOK
<1> QED
    BY <1>1, <1>2, ExpiredFields

LEMMA PruneRows ==
    ASSUME TokensInv, Prune
    PROVE  /\ DOMAIN row' \subseteq DOMAIN row
           /\ \A t \in DOMAIN row \ DOMAIN row' : row[t].expired
           /\ \A t \in DOMAIN row' : row'[t] = row[t]
BY DEF Prune

LEMMA TokensInitInv == TokensInit => TokensInv
BY TokensAssumption DEF TokensInit, TokensInv, RowsOK, OneTokenPerSignIn, RevokedTogether

LEMMA RowsStayOK ==
    ASSUME TokensInv, [TokensNext]_tokenVars
    PROVE  RowsOK'
<1> USE TokensAssumption DEF TokensInv, RowsOK
<1>1. CASE UNCHANGED tokenRows
    BY <1>1 DEF tokenRows
<1>2. CASE Begins
    <2>1. NewRow(issued') \in TokenRow /\ NewRow(issued').family \in begun'
        BY <1>2 DEF Begins, NewRow, TokenRow, Ids
    <2> QED
        BY <1>2, <2>1, BeginsRows DEF Begins
<1>3. ASSUME NEW u \in DOMAIN row, Exchange(u) PROVE RowsOK'
    <2>1. NewRow(row[u].family) \in TokenRow /\ NewRow(row[u].family).family \in begun
        BY DEF NewRow, TokenRow
    <2>2. \A t \in DOMAIN row' : row'[t] \in TokenRow /\ row'[t].family \in begun
        BY <1>3, <2>1, ExchangeRows
    <2>3. row' = [t \in DOMAIN row' |-> row'[t]] /\ DOMAIN row' \subseteq 1..issued'
          /\ issued' \in 0..MaxToken /\ begun' \subseteq 1..issued' /\ begun' = begun
        BY <1>3, ExchangeRows DEF Exchange
    <2> QED
        BY <2>2, <2>3
<1>4. ASSUME NEW u \in DOMAIN row, Revokes(u) PROVE RowsOK'
    <2>1. row' = [t \in DOMAIN row' |-> row'[t]] /\ issued' = issued /\ begun' = begun
        BY <1>4 DEF Revokes, RevokedWith
    <2> QED
        BY <1>4, <2>1, RevokesRows
<1>5. ASSUME NEW u \in DOMAIN row, Lapses(u) PROVE RowsOK'
    <2>1. row' = [t \in DOMAIN row' |-> row'[t]] /\ issued' = issued /\ begun' = begun
        BY <1>5 DEF Lapses
    <2>2. \A t \in DOMAIN row : row'[t] \in TokenRow /\ row'[t].family = row[t].family
        BY <1>5, LapsesRows
    <2> QED
        BY <1>5, <2>1, <2>2, LapsesRows
<1>6. CASE Prune
    BY <1>6, PruneRows DEF Prune
<1> QED
    BY <1>1, <1>2, <1>3, <1>4, <1>5, <1>6, RowSteps

LEMMA OneTokenStays ==
    ASSUME TokensInv, [TokensNext]_tokenVars
    PROVE  OneTokenPerSignIn'
<1> SUFFICES ASSUME NEW t \in DOMAIN row', NEW v \in DOMAIN row',
                    Usable(t)', Usable(v)', (row[t].family = row[v].family)'
             PROVE  t = v
    BY DEF OneTokenPerSignIn
<1> USE DEF TokensInv, OneTokenPerSignIn, Usable
<1>1. CASE UNCHANGED tokenRows
    BY <1>1 DEF tokenRows
<1>2. CASE Begins
    <2>1. \A w \in DOMAIN row : row[w].family # issued'
        BY <1>2, TokensAssumption DEF Begins, RowsOK
    <2> QED
        BY <1>2, <2>1, BeginsRows DEF NewRow
<1>3. ASSUME NEW u \in DOMAIN row, Exchange(u) PROVE t = v
    <2>1. ~Usable(u)'
        BY <1>3, ExchangeRows
    <2>2. \A w \in DOMAIN row \ {u} : Usable(w) => row[w].family # row[u].family
        BY <1>3 DEF Exchange
    <2>3. \A w \in DOMAIN row \ {u} : Usable(w)' => Usable(w) /\ row'[w].family = row[w].family
        BY <1>3, ExchangeRows
    <2>4. row'[issued'].family = row[u].family
        BY <1>3, ExchangeRows, NewFields
    <2>5. DOMAIN row' = (DOMAIN row \ {u}) \cup {u, issued'}
        BY <1>3, ExchangeRows
    <2> QED
        BY <2>1, <2>2, <2>3, <2>4, <2>5
<1>4. ASSUME NEW u \in DOMAIN row, Revokes(u) PROVE t = v
    <2>1. \A w \in DOMAIN row : Usable(w)' => Usable(w) /\ row'[w].family = row[w].family
        BY <1>4, RevokesRows
    <2> QED
        BY <1>4, <2>1, RevokesRows
<1>5. ASSUME NEW u \in DOMAIN row, Lapses(u) PROVE t = v
    BY <1>5, LapsesRows
<1>6. CASE Prune
    BY <1>6, PruneRows
<1> QED
    BY <1>1, <1>2, <1>3, <1>4, <1>5, <1>6, RowSteps

LEMMA RevokedStayTogether ==
    ASSUME TokensInv, [TokensNext]_tokenVars
    PROVE  RevokedTogether'
<1> SUFFICES ASSUME NEW t \in DOMAIN row', NEW v \in DOMAIN row', (row[t].family = row[v].family)'
             PROVE  (row[t].revoked = row[v].revoked)'
    BY DEF RevokedTogether
<1> USE DEF TokensInv, RevokedTogether
<1>1. CASE UNCHANGED tokenRows
    BY <1>1 DEF tokenRows
<1>2. CASE Begins
    <2>1. \A w \in DOMAIN row : row[w].family # issued'
        BY <1>2, TokensAssumption DEF Begins, RowsOK
    <2> QED
        BY <1>2, <2>1, BeginsRows DEF NewRow
<1>3. ASSUME NEW u \in DOMAIN row, Exchange(u) PROVE (row[t].revoked = row[v].revoked)'
    <2>1. row[u].revoked = FALSE
        BY <1>3 DEF Exchange, Usable, RowsOK, TokenRow
    <2>2. row'[issued'].family = row[u].family /\ row'[issued'].revoked = FALSE
        BY <1>3, ExchangeRows, NewFields
    <2>3. row'[issued'].revoked = row[u].revoked
        BY <2>1, <2>2, Zenon
    <2>4. \A w \in DOMAIN row : row'[w].family = row[w].family /\ row'[w].revoked = row[w].revoked
        BY <1>3, ExchangeRows
    <2>5. DOMAIN row' = DOMAIN row \cup {issued'}
        BY <1>3, ExchangeRows
    <2>6. row'[issued'].family = row[u].family
        BY <2>2
    <2> QED
        BY <2>3, <2>4, <2>5, <2>6
<1>4. ASSUME NEW u \in DOMAIN row, Revokes(u) PROVE (row[t].revoked = row[v].revoked)'
    BY <1>4, RevokesRows
<1>5. ASSUME NEW u \in DOMAIN row, Lapses(u) PROVE (row[t].revoked = row[v].revoked)'
    BY <1>5, LapsesRows
<1>6. CASE Prune
    BY <1>6, PruneRows
<1> QED
    BY <1>1, <1>2, <1>3, <1>4, <1>5, <1>6, RowSteps

LEMMA TokensInvariance == TokensSpec => []TokensInv
<1>1. TokensInv /\ [TokensNext]_tokenVars => TokensInv'
    BY RowsStayOK, OneTokenStays, RevokedStayTogether DEF TokensInv
<1> QED
    BY <1>1, TokensInitInv, PTL DEF TokensSpec

(* A stolen token and its owner's are never both good, however their       *)
(* requests interleave (rotateRefresh, tokens.ts).                         *)
THEOREM OneTokenWorks == TokensSpec => []OneTokenPerSignIn
BY TokensInvariance, PTL DEF TokensInv

(* Revoking reaches every token of the sign-in, also one issued meanwhile  *)
(* (revokeFamily).                                                         *)
THEOREM RevokedAreAll == TokensSpec => []RevokedTogether
BY TokensInvariance, PTL DEF TokensInv

(* A sign-in of which a token works after a step is a new one, or one of   *)
(* which a token worked before.                                            *)
LEMMA NoneRevives ==
    ASSUME TokensInv, [TokensNext]_tokenVars
    PROVE  \/ Begins
           \/ begun' = begun /\ \A f \in Ids : Live(f)' => Live(f)
<1> USE DEF Live, Family, Usable
<1>1. CASE UNCHANGED tokenRows
    BY <1>1 DEF tokenRows
<1>2. ASSUME NEW u \in DOMAIN row, Exchange(u)
      PROVE  begun' = begun /\ \A f \in Ids : Live(f)' => Live(f)
    <2>1. ~Usable(u)'
        BY <1>2, ExchangeRows
    <2>2. \A w \in DOMAIN row \ {u} : Usable(w)' => Usable(w) /\ row'[w].family = row[w].family
        BY <1>2, ExchangeRows
    <2>3. row'[issued'].family = row[u].family /\ Usable(u) /\ begun' = begun
        BY <1>2, ExchangeRows, NewFields DEF Exchange
    <2>4. DOMAIN row' = (DOMAIN row \ {u}) \cup {u, issued'}
        BY <1>2, ExchangeRows
    <2> QED
        BY <2>1, <2>2, <2>3, <2>4
<1>3. ASSUME NEW u \in DOMAIN row, Revokes(u)
      PROVE  begun' = begun /\ \A f \in Ids : Live(f)' => Live(f)
    <2>1. DOMAIN row' = DOMAIN row
          /\ \A w \in DOMAIN row : Usable(w)' => Usable(w) /\ row'[w].family = row[w].family
        BY <1>3, RevokesRows
    <2> QED
        BY <1>3, <2>1 DEF Revokes
<1>4. ASSUME NEW u \in DOMAIN row, Lapses(u)
      PROVE  begun' = begun /\ \A f \in Ids : Live(f)' => Live(f)
    <2>1. DOMAIN row' = DOMAIN row
          /\ \A w \in DOMAIN row : Usable(w)' => Usable(w) /\ row'[w].family = row[w].family
        BY <1>4, LapsesRows
    <2> QED
        BY <1>4, <2>1 DEF Lapses
<1>5. CASE Prune
    <2>1. \A w \in DOMAIN row' : w \in DOMAIN row /\ row'[w] = row[w]
        BY <1>5, PruneRows
    <2> QED
        BY <1>5, <2>1 DEF Prune
<1> QED
    BY <1>1, <1>2, <1>3, <1>4, <1>5, RowSteps

LEMMA BeginsBegin ==
    ASSUME TokensInv, Begins, NEW n, n = issued'
    PROVE  Abstract!Begin(n) /\ n \in Ids
<1>1. n \in Ids /\ n \notin begun /\ n \in begun'
    BY TokensAssumption DEF TokensInv, RowsOK, Begins, Ids
<1>2. /\ n \notin DOMAIN row /\ DOMAIN row' = DOMAIN row \cup {n} /\ row'[n] = NewRow(n)
      /\ \A t \in DOMAIN row : row'[t] = row[t]
    BY BeginsRows
<1>3. SessionOf(n) = "none"
    BY <1>1 DEF SessionOf
<1>4. SessionOf(n)' = "live"
    <2>1. ~NewRow(n).used /\ ~NewRow(n).revoked /\ ~NewRow(n).expired /\ NewRow(n).family = n
        BY DEF NewRow
    <2>2. Live(n)'
        BY <1>2, <2>1 DEF Live, Family, Usable
    <2> QED
        BY <1>1, <2>2 DEF SessionOf
<1>5. ASSUME NEW f \in Ids, f # n PROVE SessionOf(f)' = SessionOf(f)
    <2>1. f \in begun' <=> f \in begun
        BY <1>5 DEF Begins
    <2>2. row'[n].family = n
        BY <1>2, NewFields
    <2>3. Live(f)' <=> Live(f)
        BY <1>2, <1>5, <2>2 DEF Live, Family, Usable
    <2> QED
        BY <2>1, <2>3 DEF SessionOf
<1> HIDE DEF SessionOf
<1>6. [f \in Ids |-> SessionOf(f)]' = [[f \in Ids |-> SessionOf(f)] EXCEPT ![n] = "live"]
    BY <1>1, <1>4, <1>5
<1> QED
    BY <1>1, <1>3, <1>6 DEF Abstract!Begin

(* Sign-ins end for good: rotation, replay, expiry, pruning and signing    *)
(* out are steps of SignIns, or none (rotateRefresh, revokeFamily,         *)
(* pruneRefresh).                                                          *)
THEOREM EndedSignInsStayEnded == TokensSpec => SignInsAreSessions
<1> DEFINE session == [f \in Ids |-> SessionOf(f)]
<1>1. TokensInit => Abstract!Init
    BY DEF TokensInit, Abstract!Init, SessionOf
<1>2. TokensInv /\ [TokensNext]_tokenVars => [Abstract!Next]_session
    <2> SUFFICES ASSUME TokensInv, [TokensNext]_tokenVars PROVE [Abstract!Next]_session
        OBVIOUS
    <2>1. CASE Begins
        BY <2>1, BeginsBegin DEF Abstract!Next
    <2>2. CASE begun' = begun /\ \A f \in Ids : Live(f)' => Live(f)
        <3> DEFINE ended == {f \in Ids : f \in begun /\ Live(f) /\ ~Live(f)'}
        <3>1. \A f \in Ids : SessionOf(f)' = IF f \in ended THEN "ended" ELSE SessionOf(f)
            BY <2>2 DEF SessionOf
        <3>2. \A f \in ended : SessionOf(f) = "live"
            BY DEF SessionOf
        <3>3. ended \in SUBSET Ids
            OBVIOUS
        <3> HIDE DEF ended
        <3>4. CASE ended = {}
            BY <3>1, <3>4
        <3>5. CASE ended # {}
            <4>1. Abstract!End(ended)
                BY <3>1, <3>2, <3>3, <3>5 DEF Abstract!End
            <4> QED
                BY <4>1, <3>3 DEF Abstract!Next
        <3> QED
            BY <3>4, <3>5
    <2> QED
        BY <2>1, <2>2, NoneRevives
<1> QED
    BY <1>1, <1>2, TokensInvariance, PTL DEF TokensSpec, SignInsAreSessions, Abstract!Spec
-----------------------------------------------------------------------------
(* The client.                                                             *)

Step == {"idle", "registering", "registered", "password", "sent", "orphan",
         "answered", "leaving", "erasing"}
ErrandRec == [at : Step, token : Nat, blocked : BOOLEAN]

ClientTypes ==
    /\ account \in {"none", "open", "blocked"}
    /\ stored \in 0..issued
    /\ excuse \in BOOLEAN
    /\ errand \in [Errand -> ErrandRec]
    /\ \A c \in Errand : errand[c].token \in 0..issued

(* A token that works, or that time has ended.                             *)
StillGood(t) == Usable(t) \/ t \notin DOMAIN row \/ row[t].expired

(* Without an excuse one call is under way, it was made with the token in  *)
(* store, and that one - or the one in the answer - is still good.         *)
AtMostOne == \A c, d \in Errand : errand[c] # NoErrand /\ errand[d] # NoErrand => c = d
Honest ==
    /\ AtMostOne
    /\ \A c \in Errand : errand[c].at # "orphan"
    /\ \A c \in Errand : errand[c].at = "sent" => errand[c].token = stored
    /\ \A c \in Errand : errand[c].at = "answered" => StillGood(errand[c].token)
    /\ \/ \E c \in Errand : errand[c].at \in {"answered", "leaving", "erasing"}
       \/ stored # 0 => StillGood(stored)

ClientInv == ClientTypes /\ (~excuse => Honest)

LEMMA Calls ==
    /\ NoErrand \in ErrandRec /\ NoErrand.at = "idle" /\ NoErrand.token = 0
    /\ \A e : e.at # "idle" => e # NoErrand
BY DEF NoErrand, ErrandRec, Step

LEMMA Waits ==
    ASSUME NEW step \in Step, NEW t \in Nat
    PROVE  /\ Waiting(step, t) \in ErrandRec
           /\ Waiting(step, t).at = step /\ Waiting(step, t).token = t
BY DEF NoErrand, ErrandRec, Waiting

LEMMA BlockedCall ==
    ASSUME NEW b \in BOOLEAN
    PROVE  LET e == [Waiting("password", 0) EXCEPT !.blocked = b] IN
           e \in ErrandRec /\ e.at = "password" /\ e.token = 0 /\ e # NoErrand
BY DEF NoErrand, ErrandRec, Waiting, Step

LEMMA Turned ==
    ASSUME ClientTypes, NEW c \in Errand, NEW to \in ErrandRec, Turns(c, to)
    PROVE  /\ errand' \in [Errand -> ErrandRec]
           /\ errand'[c] = to
           /\ \A d \in Errand \ {c} : errand'[d] = errand[d]
BY DEF ClientTypes, Turns

(* Tokens that are not used stay good, whatever else happens but the end   *)
(* of their sign-in.                                                       *)
LEMMA GoodStays ==
    ASSUME TokensInv, NEW t \in 0..issued, StillGood(t),
           UNCHANGED tokenRows \/ Begins \/ (\E u \in DOMAIN row : Lapses(u)) \/ Prune
    PROVE  StillGood(t)'
<1> USE DEF StillGood, Usable
<1>1. CASE UNCHANGED tokenRows
    BY <1>1 DEF tokenRows
<1>2. CASE Begins
    <2>1. issued' # t
        BY <1>2, TokensAssumption DEF Begins, TokensInv, RowsOK
    <2> QED
        BY <1>2, <2>1, BeginsRows
<1>3. ASSUME NEW u \in DOMAIN row, Lapses(u) PROVE StillGood(t)'
    BY <1>3, LapsesRows
<1>4. CASE Prune
    BY <1>4, PruneRows
<1> QED
    BY <1>1, <1>2, <1>3, <1>4

(* A call that begins, alone, with no word of a token.                     *)
LEMMA CallBegins ==
    ASSUME TokensInv, ClientInv, NEW c \in Errand, NEW to \in ErrandRec, Turns(c, to),
           UNCHANGED tokenRows, UNCHANGED stored, account' \in {"none", "open", "blocked"},
           excuse' = (excuse \/ ~Alone(c)),
           to.token \in 0..issued,
           to.at \notin {"orphan", "answered"},
           to.at = "sent" => to.token = stored,
           errand[c].at \notin {"answered", "leaving", "erasing"}
    PROVE  ClientInv'
<1> USE DEF ClientInv, tokenRows
<1>1. /\ errand' \in [Errand -> ErrandRec] /\ errand'[c] = to
      /\ \A d \in Errand \ {c} : errand'[d] = errand[d]
    BY Turned
<1>2. excuse' \in BOOLEAN
    BY Zenon DEF ClientTypes
<1>3. ClientTypes'
    BY <1>1, <1>2 DEF ClientTypes
<1>4. ASSUME ~excuse' PROVE Honest'
    <2>1. ~excuse /\ Alone(c)
        BY <1>4, Zenon
    <2>2. \A d \in Errand \ {c} : errand'[d] = NoErrand
        BY <1>1, <2>1 DEF Alone
    <2>3. AtMostOne'
        BY <2>2 DEF AtMostOne
    <2>4. \A d \in Errand : errand'[d].at \notin {"orphan", "answered"}
        BY <1>1, <2>2, Calls
    <2>5. \A d \in Errand : errand'[d].at = "sent" => errand'[d].token = stored'
        BY <1>1, <2>2, Calls
    <2>6. \A d \in Errand : errand[d].at \notin {"answered", "leaving", "erasing"}
        BY <2>1, Calls DEF Alone
    <2>7. stored # 0 => StillGood(stored)
        BY <2>1, <2>6 DEF Honest
    <2>8. stored' # 0 => StillGood(stored)'
        BY <2>7 DEF StillGood, Usable
    <2> QED
        BY <2>3, <2>4, <2>5, <2>8 DEF Honest
<1> QED
    BY <1>3, <1>4

(* A call that ends, or goes on to its next step.                          *)
LEMMA CallGoesOn ==
    ASSUME TokensInv, ClientInv, NEW c \in Errand, errand[c].at # "idle",
           NEW to \in ErrandRec, Turns(c, to),
           RowsOK', account' \in {"none", "open", "blocked"},
           stored' \in 0..issued', issued' >= issued, to.token \in 0..issued',
           excuse' \in BOOLEAN,
           ~excuse' =>
              /\ ~excuse
              /\ to.at \notin {"orphan", "sent"}
              /\ to.at = "answered" => StillGood(to.token)'
              /\ to.at \in {"answered", "leaving", "erasing"} \/ (stored' # 0 => StillGood(stored)')
    PROVE  ClientInv'
<1> USE DEF ClientInv
<1>1. /\ errand' \in [Errand -> ErrandRec] /\ errand'[c] = to
      /\ \A d \in Errand \ {c} : errand'[d] = errand[d]
    BY Turned
<1>2. ClientTypes'
    <2>1. \A d \in Errand : errand'[d].token \in 0..issued'
        BY <1>1 DEF ClientTypes, TokensInv, RowsOK
    <2> QED
        BY <1>1, <2>1 DEF ClientTypes
<1>3. ASSUME ~excuse' PROVE Honest'
    <2>1. Honest
        BY <1>3
    <2>2. errand[c] # NoErrand
        BY Calls
    <2>3. \A d \in Errand \ {c} : errand'[d] = NoErrand
        BY <1>1, <2>1, <2>2 DEF Honest, AtMostOne
    <2>4. AtMostOne'
        BY <2>3 DEF AtMostOne
    <2>5. \A d \in Errand : errand'[d].at \notin {"orphan", "sent"}
        BY <1>1, <1>3, <2>3, Calls
    <2>6. \A d \in Errand : errand'[d].at = "answered" => StillGood(errand[d].token)'
        <3> SUFFICES ASSUME NEW d \in Errand, errand'[d].at = "answered"
                     PROVE  StillGood(errand[d].token)'
            OBVIOUS
        <3>1. d = c
            BY <2>3, Calls
        <3> QED
            BY <1>1, <1>3, <3>1 DEF StillGood, Usable
    <2>7. to.at \in {"answered", "leaving", "erasing"} \/ (stored' # 0 => StillGood(stored)')
        BY <1>3
    <2>8. \/ \E d \in Errand : errand'[d].at \in {"answered", "leaving", "erasing"}
          \/ stored' # 0 => StillGood(stored)'
        BY <1>1, <2>7
    <2> QED
        BY <2>4, <2>5, <2>6, <2>8 DEF Honest
<1> QED
    BY <1>2, <1>3

LEMMA ClientInitInv == TokensInit => ClientInv
<1> SUFFICES ASSUME TokensInit PROVE ClientInv
    OBVIOUS
<1>1. \A c \in Errand : errand[c] = NoErrand
    BY Zenon DEF TokensInit
<1>0. /\ account = "none" /\ issued = 0 /\ stored = 0 /\ excuse = FALSE
      /\ errand = [c \in Errand |-> NoErrand]
    BY Zenon DEF TokensInit
<1>2. ClientTypes
    <2>1. errand \in [Errand -> ErrandRec] /\ \A c \in Errand : errand[c].token \in 0..issued
        BY <1>0, Calls
    <2>2. excuse \in BOOLEAN
        BY <1>0, Zenon
    <2>3. account \in {"none", "open", "blocked"} /\ stored \in 0..issued
        BY <1>0
    <2> QED
        BY <2>1, <2>2, <2>3, Zenon DEF ClientTypes
<1>3. Honest
    BY <1>1, <1>0, Calls DEF Honest, AtMostOne
<1> QED
    BY <1>2, <1>3 DEF ClientInv

(* The steps of a call.                                                    *)
LEMMA FirstSteps ==
    ASSUME TokensInv, ClientInv, NEW c \in Errand, Register(c) \/ Login(c) \/ Renew(c) \/ Leave(c)
    PROVE  ClientInv'
<1>0. stored \in 0..issued /\ stored \in Nat /\ 0 \in 0..issued /\ account \in {"none", "open", "blocked"}
    BY DEF ClientInv, ClientTypes, TokensInv, RowsOK
<1>1. CASE Register(c)
    <2> DEFINE to == Waiting("registering", 0)
    <2>1. to \in ErrandRec /\ to.at = "registering" /\ to.token = 0
        BY Waits DEF Step
    <2>2. Turns(c, to) /\ errand[c].at = "idle" /\ excuse' = (excuse \/ ~Alone(c))
          /\ UNCHANGED <<account, tokenRows, stored>>
        BY <1>1, Calls DEF Register
    <2> HIDE DEF to
    <2> QED
        BY <1>0, <2>1, <2>2, CallBegins
<1>2. CASE Login(c)
    <2> DEFINE to == [Waiting("password", 0) EXCEPT !.blocked = account = "blocked"]
    <2>1. to \in ErrandRec /\ to.at = "password" /\ to.token = 0
        BY BlockedCall
    <2>2. Turns(c, to) /\ errand[c].at \in {"idle", "registered"} /\ excuse' = (excuse \/ ~Alone(c))
          /\ UNCHANGED <<account, tokenRows, stored>>
        BY <1>2, Calls DEF Login
    <2> HIDE DEF to
    <2> QED
        BY <1>0, <2>1, <2>2, CallBegins
<1>3. CASE Renew(c)
    <2> DEFINE to == Waiting("sent", stored)
    <2>1. to \in ErrandRec /\ to.at = "sent" /\ to.token = stored
        BY <1>0, Waits DEF Step
    <2>2. Turns(c, to) /\ errand[c].at = "idle" /\ excuse' = (excuse \/ ~Alone(c))
          /\ UNCHANGED <<account, tokenRows, stored>>
        BY <1>3, Calls DEF Renew
    <2> HIDE DEF to
    <2> QED
        BY <1>0, <2>1, <2>2, CallBegins
<1>4. CASE Leave(c)
    <2> DEFINE to == Waiting(IF stored = 0 THEN "erasing" ELSE "leaving", stored)
    <2>1. to \in ErrandRec /\ to.at \in {"erasing", "leaving"} /\ to.token = stored
        BY <1>0, Waits DEF Step
    <2>2. Turns(c, to) /\ errand[c].at = "idle" /\ excuse' = (excuse \/ ~Alone(c))
          /\ UNCHANGED <<account, tokenRows, stored>>
        BY <1>4, Calls DEF Leave
    <2> HIDE DEF to
    <2> QED
        BY <1>0, <2>1, <2>2, CallBegins
<1> QED
    BY <1>1, <1>2, <1>3, <1>4

(* While a call waits for a password or its sign-in, what is in store is   *)
(* good; and so it is when the server sees it again.                       *)
LEMMA StoredIsGood ==
    ASSUME ClientInv, ~excuse, NEW c \in Errand,
           errand[c].at \in {"registering", "registered", "password", "sent"}
    PROVE  stored # 0 => StillGood(stored)
BY Calls DEF ClientInv, Honest, AtMostOne

LEMMA ExchangedIsGood ==
    ASSUME TokensInv, NEW u \in DOMAIN row, Exchange(u)
    PROVE  StillGood(issued)' /\ issued' \in Nat /\ issued' = issued + 1
<1>1. row'[issued'] = NewRow(row[u].family) /\ issued' \in DOMAIN row'
    BY ExchangeRows
<1> QED
    BY <1>1 DEF Exchange, StillGood, Usable, NewRow, TokensInv, RowsOK

LEMMA BegunIsGood ==
    ASSUME TokensInv, Begins
    PROVE  StillGood(issued)' /\ issued' \in Nat /\ issued' = issued + 1
<1>1. row'[issued'] = NewRow(issued') /\ issued' \in DOMAIN row'
    BY BeginsRows
<1> QED
    BY <1>1 DEF Begins, StillGood, Usable, NewRow, TokensInv, RowsOK

LEMMA LoggedInKeeps ==
    ASSUME TokensInv, RowsOK', ClientInv, NEW c \in Errand, LoggedIn(c)
    PROVE  ClientInv'
<1>1. /\ stored \in 0..issued /\ issued \in Nat /\ account \in {"none", "open", "blocked"}
      /\ excuse \in BOOLEAN /\ errand[c].at # "idle"
    BY DEF LoggedIn, ClientInv, ClientTypes, TokensInv, RowsOK
<1>2. /\ stored' = stored /\ account' = account /\ excuse' = excuse
    BY DEF LoggedIn
<1>3. UNCHANGED tokenRows \/ Begins
    BY LoggedInRows
<1>4. ~excuse => (stored' # 0 => StillGood(stored)')
    <2> SUFFICES ASSUME ~excuse, stored # 0 PROVE StillGood(stored)'
        BY <1>2
    <2>1. StillGood(stored)
        BY StoredIsGood DEF LoggedIn
    <2> QED
        BY <1>1, <1>2, <1>3, <2>1, GoodStays DEF StillGood, Usable
<1>5. CASE UNCHANGED tokenRows /\ Turns(c, NoErrand)
    BY <1>1, <1>2, <1>4, <1>5, Calls, CallGoesOn DEF tokenRows
<1>6. CASE Begins /\ Turns(c, Waiting("answered", issued'))
    <2>1. StillGood(issued)' /\ issued' \in Nat /\ issued' = issued + 1
        BY <1>6, BegunIsGood
    <2>2. PICK n, to : n = issued' /\ to = Waiting("answered", n)
        OBVIOUS
    <2>3. to \in ErrandRec /\ to.at = "answered" /\ to.token = n
        BY <2>1, <2>2, Waits DEF Step
    <2>4. StillGood(to.token)'
        BY <2>1, <2>2, <2>3 DEF StillGood, Usable
    <2> QED
        BY <1>1, <1>2, <1>4, <1>6, <2>1, <2>2, <2>3, <2>4, CallGoesOn
<1>7. \/ UNCHANGED tokenRows /\ Turns(c, NoErrand)
      \/ issued' = issued + 1 /\ Turns(c, Waiting("answered", issued'))
    BY DEF LoggedIn
<1>8. UNCHANGED tokenRows => issued' = issued
    BY DEF tokenRows
<1> QED
    BY <1>1, <1>3, <1>5, <1>6, <1>7, <1>8

LEMMA RotateKeeps ==
    ASSUME TokensInv, RowsOK', ClientInv, NEW c \in Errand, Rotate(c)
    PROVE  ClientInv'
<1>1. PICK t : t = errand[c].token
    OBVIOUS
<1>2. /\ stored \in 0..issued /\ issued \in Nat /\ t \in 0..issued
      /\ account' \in {"none", "open", "blocked"} /\ errand[c].at \in {"sent", "orphan"}
      /\ stored' = stored
    BY <1>1 DEF Rotate, ClientInv, ClientTypes, TokensInv, RowsOK
<1>3. CASE Exchanges(t)
    <2>1. Exchange(t) /\ t \in DOMAIN row
        BY <1>1, <1>3, RotateRows
    <2>2. StillGood(issued)' /\ issued' \in Nat /\ issued' = issued + 1
        BY <2>1, ExchangedIsGood
    <2>3. CASE errand[c].at = "sent" /\ account = "open"
        <3>0. PICK n : n = issued'
            OBVIOUS
        <3>1. PICK to : to = Waiting("answered", n)
            OBVIOUS
        <3>2. to \in ErrandRec /\ to.at = "answered" /\ to.token = n
            BY <2>2, <3>0, <3>1, Waits DEF Step
        <3>3. Turns(c, to)
            BY <1>1, <1>3, <2>3, <3>0, <3>1, Zenon DEF Rotate
        <3>4. excuse' \in BOOLEAN /\ (~excuse' => ~excuse)
            BY <1>1, <1>3, <2>3, Zenon DEF Rotate
        <3>5. StillGood(to.token)'
            BY <2>2, <3>0, <3>2 DEF StillGood, Usable
        <3> QED
            BY <1>2, <2>2, <3>0, <3>2, <3>3, <3>4, <3>5, CallGoesOn
    <2>4. CASE ~(errand[c].at = "sent" /\ account = "open")
        <3>1. Turns(c, NoErrand) /\ excuse'
            BY <1>1, <1>3, <2>4, Zenon DEF Rotate
        <3>2. excuse' \in BOOLEAN
            BY <1>1, <1>3, Zenon DEF Rotate
        <3> QED
            BY <1>2, <2>2, <3>1, <3>2, Calls, CallGoesOn
    <2> QED
        BY <2>3, <2>4
\* A token that was good and is not exchanged has expired or is gone, and
\* revoking it changes nothing of that.
<1>4. CASE ~Exchanges(t)
    <2>1. Turns(c, NoErrand) /\ issued' = issued /\ excuse' = excuse
        BY <1>1, <1>4 DEF Rotate
    <2>2. excuse' \in BOOLEAN
        BY <2>1, Zenon DEF ClientInv, ClientTypes
    <2>3. ASSUME ~excuse, stored # 0 PROVE StillGood(stored)'
        <3>1. errand[c].at = "sent" /\ t = stored /\ StillGood(t)
            BY <1>1, <1>2, <2>3, StoredIsGood DEF ClientInv, Honest
        <3>2. t \notin DOMAIN row \/ row[t].expired
            BY <1>4, <3>1 DEF StillGood, Exchanges
        <3>3. CASE UNCHANGED tokenRows
            BY <1>2, <3>1, <3>3 DEF StillGood, Usable, tokenRows
        <3>4. CASE t \in DOMAIN row /\ Revokes(t)
            BY <1>2, <3>1, <3>2, <3>4, RevokesRows DEF StillGood
        <3> QED
            BY <1>1, <1>4, <3>3, <3>4, RotateRows
    <2> QED
        BY <1>2, <2>1, <2>2, <2>3, Calls, CallGoesOn
<1> QED
    BY <1>3, <1>4

LEMMA LaterSteps ==
    ASSUME TokensInv, RowsOK', ClientInv, NEW c \in Errand,
           Created(c) \/ Loses(c) \/ Saved(c) \/ Logout(c) \/ Erase(c)
    PROVE  ClientInv'
<1>0. /\ stored \in 0..issued /\ issued \in Nat /\ 0 \in 0..issued /\ account \in {"none", "open", "blocked"}
      /\ excuse \in BOOLEAN /\ errand[c].token \in 0..issued /\ errand[c].token \in Nat
    BY DEF ClientInv, ClientTypes, TokensInv, RowsOK
<1>1. CASE Created(c)
    <2> DEFINE to == IF account = "none" THEN Waiting("registered", 0) ELSE NoErrand
    <2>1. to \in ErrandRec /\ to.at \in {"registered", "idle"} /\ to.token = 0
        BY Waits, Calls DEF Step
    <2>2. Turns(c, to) /\ errand[c].at = "registering" /\ account' \in {"none", "open", "blocked"}
          /\ UNCHANGED <<tokenRows, stored, excuse>>
        BY <1>0, <1>1 DEF Created
    <2>3. ~excuse => (stored' # 0 => StillGood(stored)')
        BY <2>2, StoredIsGood DEF StillGood, Usable, tokenRows
    <2> HIDE DEF to
    <2> QED
        BY <1>0, <2>1, <2>2, <2>3, CallGoesOn DEF tokenRows
<1>2. CASE Loses(c)
    <2> DEFINE to == IF errand[c].at = "sent" THEN Waiting("orphan", errand[c].token) ELSE NoErrand
    <2>1. to \in ErrandRec /\ to.token \in 0..issued
        BY <1>0, Waits, Calls DEF Step
    <2>2. Turns(c, to) /\ errand[c].at # "idle" /\ excuse' = TRUE
          /\ UNCHANGED <<account, tokenRows, stored>>
        BY <1>2 DEF Loses
    <2>3. excuse' \in BOOLEAN
        BY <2>2, Zenon
    <2> HIDE DEF to
    <2> QED
        BY <1>0, <2>1, <2>2, <2>3, CallGoesOn DEF tokenRows
<1>3. CASE Saved(c)
    <2>1. Turns(c, NoErrand) /\ errand[c].at = "answered" /\ stored' = errand[c].token
          /\ UNCHANGED <<account, tokenRows, excuse>>
        BY <1>3 DEF Saved
    <2>2. ~excuse => StillGood(errand[c].token)
        BY <2>1 DEF ClientInv, Honest
    <2>3. ~excuse => StillGood(stored)'
        BY <2>1, <2>2 DEF StillGood, Usable, tokenRows
    <2> QED
        BY <1>0, <2>1, <2>3, Calls, CallGoesOn DEF tokenRows
<1>4. CASE Logout(c)
    <2> DEFINE to == Waiting("erasing", 0)
    <2>1. to \in ErrandRec /\ to.at = "erasing" /\ to.token = 0
        BY Waits DEF Step
    <2>2. Turns(c, to) /\ errand[c].at # "idle" /\ UNCHANGED <<account, issued, begun, stored, excuse>>
        BY <1>4 DEF Logout
    <2> HIDE DEF to
    <2> QED
        BY <1>0, <2>1, <2>2, CallGoesOn
<1>5. CASE Erase(c)
    <2>1. Turns(c, NoErrand) /\ errand[c].at # "idle" /\ stored' = 0
          /\ UNCHANGED <<account, tokenRows, excuse>>
        BY <1>5 DEF Erase
    <2> QED
        BY <1>0, <2>1, Calls, CallGoesOn DEF tokenRows
<1> QED
    BY <1>1, <1>2, <1>3, <1>4, <1>5

LEMMA RestartKeeps ==
    ASSUME TokensInv, ClientInv, ProgramRestarts
    PROVE  ClientInv'
<1>1. /\ account' = account /\ stored' = stored /\ UNCHANGED tokenRows
      /\ errand' = [c \in Errand |->
            IF errand[c].at \in {"sent", "orphan"} THEN Waiting("orphan", errand[c].token) ELSE NoErrand]
    BY DEF ProgramRestarts
<1>2. excuse' \in BOOLEAN /\ (~excuse' => ~excuse /\ \A c \in Errand : errand[c] = NoErrand)
    BY Zenon DEF ProgramRestarts
<1>3. ASSUME NEW c \in Errand PROVE errand'[c] \in ErrandRec /\ errand'[c].token \in 0..issued
    BY <1>1, Waits, Calls DEF ClientInv, ClientTypes, TokensInv, RowsOK, Step
<1>4. ClientTypes'
    BY <1>1, <1>2, <1>3 DEF ClientInv, ClientTypes, tokenRows
<1>5. ASSUME ~excuse' PROVE Honest'
    <2>1. ~excuse /\ \A c \in Errand : errand[c] = NoErrand /\ errand'[c] = NoErrand
        BY <1>1, <1>2, <1>5, Calls
    <2>2. stored # 0 => StillGood(stored)
        BY <2>1, Calls DEF ClientInv, Honest
    <2>3. stored' # 0 => StillGood(stored)'
        BY <1>1, <2>2 DEF StillGood, Usable, tokenRows
    <2> QED
        BY <2>1, <2>3, Calls DEF Honest, AtMostOne
<1> QED
    BY <1>4, <1>5 DEF ClientInv

(* The clock and the server's start end only what may end.                 *)
LEMMA OthersKeep ==
    ASSUME TokensInv, RowsOK', ClientInv, UNCHANGED <<stored, errand, excuse>>,
           account' \in {"none", "open", "blocked"}, issued' = issued,
           UNCHANGED tokenRows \/ (\E u \in DOMAIN row : Lapses(u)) \/ Prune
    PROVE  ClientInv'
<1>1. ClientTypes'
    BY DEF ClientInv, ClientTypes
<1>2. \A t \in 0..issued : StillGood(t) => StillGood(t)'
    BY GoodStays
<1>3. ASSUME ~excuse' PROVE Honest'
    <2>1. Honest
        BY <1>3 DEF ClientInv
    <2>2. \A c \in Errand : errand'[c].at = "answered" => StillGood(errand[c].token)'
        BY <1>2, <2>1 DEF Honest, ClientInv, ClientTypes, StillGood, Usable
    <2>3. StillGood(stored) => StillGood(stored)'
        BY <1>2 DEF ClientInv, ClientTypes, StillGood, Usable
    <2> QED
        BY <2>1, <2>2, <2>3 DEF Honest, AtMostOne
<1> QED
    BY <1>1, <1>3 DEF ClientInv

LEMMA ClientKeeps ==
    ASSUME TokensInv, ClientInv, [TokensNext]_tokenVars
    PROVE  ClientInv'
<1>0. RowsOK'
    BY RowsStayOK
<1>1. CASE UNCHANGED tokenVars
    BY <1>0, <1>1, OthersKeep DEF tokenVars, tokenRows, ClientInv, ClientTypes
<1>2. CASE BlockOrUnblock
    BY <1>0, <1>2, OthersKeep DEF BlockOrUnblock, tokenRows
<1>3. ASSUME NEW t \in Ids, Expire(t) PROVE ClientInv'
    <2>1. Lapses(t) /\ t \in DOMAIN row
        BY <1>3 DEF Expire, Lapses
    <2> QED
        BY <1>0, <1>3, <2>1, OthersKeep DEF Expire, ClientInv, ClientTypes
<1>4. CASE Prune
    BY <1>0, <1>4, OthersKeep DEF Prune, ClientInv, ClientTypes
<1> QED
    BY <1>0, <1>1, <1>2, <1>3, <1>4, FirstSteps, LaterSteps, LoggedInKeeps, RotateKeeps, RestartKeeps
       DEF TokensNext

LEMMA ClientIsRight ==
    ASSUME TokensInv, ClientInv
    PROVE  TokensTypeOK /\ HonestClientStaysIn
<1>1. TokensTypeOK
    <2>1. ASSUME NEW c \in Errand PROVE errand[c].at \in Step
        <3>1. errand[c] \in ErrandRec
            BY DEF ClientInv, ClientTypes
        <3> QED
            BY <3>1 DEF ErrandRec
    <2> QED
        BY <2>1 DEF ClientInv, ClientTypes, TokensTypeOK, TokensInv, RowsOK, Step
<1>2. HonestClientStaysIn
    BY Calls DEF HonestClientStaysIn, ClientInv, Honest, StillGood
<1> QED
    BY <1>1, <1>2
-----------------------------------------------------------------------------
(* The relay client.                                                       *)

(* The connection, and when it is tried again.                             *)
DialInv ==
    /\ socket \in {"none", "opening", "ready", "closing"}
    /\ waiter \in {"none", "waiting", "settled", "thrown"}
    /\ sockets \in 0..MaxSockets
    /\ closing \in BOOLEAN /\ retryTimer \in BOOLEAN /\ refused \in BOOLEAN
    /\ waiter = "none" => socket = "none" /\ ~retryTimer /\ sockets = 0
    /\ waiter \in {"none", "thrown"} => ~refused
    /\ KeepsTrying
    /\ closing => socket \in {"none", "closing"}

LEMMA DialInitInv == RelayInit => DialInv
<1> SUFFICES ASSUME RelayInit PROVE DialInv
    OBVIOUS
<1>1. /\ socket = "none" /\ sockets = 0 /\ closing = FALSE /\ retryTimer = FALSE
      /\ waiter = "none" /\ refused = FALSE
    BY DEF RelayInit
<1>2. closing \in BOOLEAN /\ retryTimer \in BOOLEAN /\ refused \in BOOLEAN
    BY <1>1, Zenon
<1>3. sockets \in 0..MaxSockets
    BY <1>1, RelayClientAssumption
<1> QED
    BY <1>1, <1>2, <1>3 DEF DialInv, KeepsTrying

LEMMA ClosedDials ==
    ASSUME DialInv, NEW permanent \in BOOLEAN, Closed(permanent)
    PROVE  DialInv'
<1>1. /\ socket' = "none" /\ waiter' = "settled" /\ sockets' = sockets /\ closing' = closing
      /\ socket # "none"
    BY DEF Closed
<1>2. ~retryTimer
    BY <1>1, Zenon DEF DialInv, KeepsTrying
<1>3. refused' = permanent /\ (retryTimer' <=> ~permanent /\ ~closing)
    BY <1>2, Zenon DEF Closed, Retries
<1>4. closing' \in BOOLEAN /\ retryTimer' \in BOOLEAN /\ refused' \in BOOLEAN
    BY Zenon DEF DialInv, Closed, Retries
<1>5. KeepsTrying'
    BY <1>1, <1>3, <1>4, Zenon DEF KeepsTrying
<1>6. sockets' \in 0..MaxSockets
    BY <1>1 DEF DialInv
<1> QED
    BY <1>1, <1>4, <1>5, <1>6, Zenon DEF DialInv

LEMMA DialKeeps ==
    ASSUME DialInv, [RelayNext]_relayVars
    PROVE  DialInv'
<1>1. CASE UNCHANGED dialling
    BY <1>1 DEF dialling, DialInv, KeepsTrying
<1>2. CASE Connect
    <2>1. sockets' \in 0..MaxSockets
        BY <1>2, RelayClientAssumption DEF Connect, DialInv
    <2> QED
        BY <1>2, <2>1, Zenon DEF Connect, DialInv, KeepsTrying
<1>10. CASE ConnectThrows
    BY <1>10, Zenon DEF ConnectThrows, DialInv, KeepsTrying
<1>3. CASE Retry
    <2>1. sockets' \in 0..MaxSockets
        BY <1>3, RelayClientAssumption DEF Retry, DialInv
    <2>2. ~closing /\ ~refused /\ waiter # "none" /\ retryTimer' = FALSE
        BY <1>3, Zenon DEF Retry, DialInv, KeepsTrying
    <2> QED
        BY <1>3, <2>1, <2>2, Zenon DEF Retry, DialInv, KeepsTrying
<1>4. CASE Ready
    <2>1. waiter # "none"
        BY <1>4 DEF Ready, DialInv
    <2> QED
        BY <1>4, <2>1, Zenon DEF Ready, DialInv, KeepsTrying
<1>5. CASE Close
    BY <1>5, Zenon DEF Close, DialInv, KeepsTrying
<1>6. ASSUME Receive \/ ServerAnswers PROVE UNCHANGED dialling
    <2>1. ASSUME Receive PROVE UNCHANGED dialling
        BY <2>1 DEF Receive
    <2>2. ASSUME ServerAnswers PROVE UNCHANGED dialling
        BY <2>2 DEF ServerAnswers
    <2> QED
        BY <1>6, <2>1, <2>2
<1>7. ASSUME NEW r \in Req, RequestTimesOut(r) \/ \E t \in Target : RequestSession(r, t)
      PROVE  UNCHANGED dialling
    BY <1>7 DEF RequestTimesOut, RequestSession
<1>8. ASSUME NEW s \in Sess,
             OnMessage(s) \/ CloseLink(s) \/ ServerIntroduces(s) \/ ServerSends(s) \/ ServerEnds(s)
      PROVE  UNCHANGED dialling
    BY <1>8 DEF OnMessage, CloseLink, ServerIntroduces, ServerSends, ServerEnds
<1>9. CASE UNCHANGED relayVars
    BY <1>1, <1>9 DEF relayVars
<1> QED
    BY <1>1, <1>2, <1>3, <1>4, <1>5, <1>6, <1>7, <1>8, <1>9, <1>10, ClosedDials DEF RelayNext

(* What the server may have said.                                          *)
Answer == {"session", "failed"}
MessagesOK ==
    /\ wire \in Seq(Target)
    /\ inbox \in Seq(Message)
    /\ \A i \in 1..Len(inbox) :
          /\ inbox[i].type \in Answer => inbox[i].target \in Target
          /\ inbox[i].type # "failed" => inbox[i].session \in Sess

LEMMA HeadAndTail ==
    ASSUME NEW T, NEW q \in Seq(T), q # <<>>, NEW p, p = Tail(q)
    PROVE  /\ Head(q) = q[1] /\ 1 \in 1..Len(q) /\ Head(q) \in T
           /\ p \in Seq(T) /\ Len(p) = Len(q) - 1
           /\ \A i \in 1..Len(p) : p[i] = q[i + 1] /\ i + 1 \in 1..Len(q)
OBVIOUS

LEMMA Appended ==
    ASSUME NEW T, NEW q \in Seq(T), NEW m \in T, NEW p, p = Append(q, m)
    PROVE  /\ p \in Seq(T) /\ Len(p) = Len(q) + 1 /\ p[Len(p)] = m
           /\ \A i \in 1..Len(q) : p[i] = q[i] /\ i \in 1..Len(p)
           /\ \A i \in 1..Len(p) : i # Len(p) => i \in 1..Len(q)
OBVIOUS

(* The messages of the server.                                             *)
LEMMA Messages ==
    /\ \A s \in Sess, t \in Target : AboutRequest("session", s, t) \in Message
    /\ \A t \in Target : AboutRequest("failed", None, t) \in Message
    /\ \A type \in {"incoming", "ended"}, s \in Sess : About(type, s) \in Message
    /\ \A s \in Sess, n \in 0..MaxFrames : Frame(s, n) \in Message
BY RelayClientAssumption DEF AboutRequest, About, Frame, Message

LEMMA SaysKeeps ==
    ASSUME MessagesOK, NEW m \in Message, Says(m),
           m.type \in Answer => m.target \in Target, m.type # "failed" => m.session \in Sess,
           wire' \in Seq(Target)
    PROVE  MessagesOK'
<1>1. /\ inbox' \in Seq(Message) /\ Len(inbox') = Len(inbox) + 1 /\ inbox'[Len(inbox')] = m
      /\ \A i \in 1..Len(inbox') : i # Len(inbox') => i \in 1..Len(inbox) /\ inbox'[i] = inbox[i]
    BY Appended DEF MessagesOK, Says
<1> QED
    BY <1>1 DEF MessagesOK

LEMMA MessagesKeep ==
    ASSUME MessagesOK, \A s \in Sess : link[s].sent \in Nat, [RelayNext]_relayVars
    PROVE  MessagesOK'
<1>1. CASE UNCHANGED traffic
    BY <1>1 DEF traffic, MessagesOK
<1>2. CASE Receive
    <2>1. inbox # <<>> /\ inbox' = Tail(inbox) /\ wire' = wire
        BY <1>2 DEF Receive
    <2>2. /\ inbox' \in Seq(Message) /\ Len(inbox') = Len(inbox) - 1
          /\ \A i \in 1..Len(inbox') : inbox'[i] = inbox[i + 1] /\ i + 1 \in 1..Len(inbox)
        BY <2>1, HeadAndTail DEF MessagesOK
    <2> QED
        BY <2>1, <2>2 DEF MessagesOK
<1>3. CASE ServerAnswers
    <2>1. wire # <<>> /\ wire' = Tail(wire) /\ wire \in Seq(Target)
        BY <1>3 DEF ServerAnswers, MessagesOK
    <2>2. Head(wire) \in Target /\ wire' \in Seq(Target)
        BY <2>1, HeadAndTail
    <2>3. ASSUME NEW s \in Sess, Says(AboutRequest("session", s, Head(wire)))
          PROVE  MessagesOK'
        BY <2>2, <2>3, Messages, SaysKeeps DEF Answer, AboutRequest
    <2>4. ASSUME Says(AboutRequest("failed", None, Head(wire))) PROVE MessagesOK'
        BY <2>2, <2>4, Messages, SaysKeeps DEF Answer, AboutRequest
    <2> QED
        BY <1>3, <2>3, <2>4 DEF ServerAnswers
<1>4. ASSUME NEW s \in Sess, ServerIntroduces(s) PROVE MessagesOK'
    BY <1>4, Messages, SaysKeeps DEF ServerIntroduces, Answer, About, MessagesOK
<1>5. ASSUME NEW s \in Sess, ServerEnds(s) PROVE MessagesOK'
    BY <1>5, Messages, SaysKeeps DEF ServerEnds, Answer, About, MessagesOK
<1>6. ASSUME NEW s \in Sess, ServerSends(s) PROVE MessagesOK'
    <2>1. link[s].sent + 1 \in 0..MaxFrames
        BY <1>6, RelayClientAssumption DEF ServerSends
    <2> QED
        BY <1>6, <2>1, Messages, SaysKeeps DEF ServerSends, Answer, Frame, MessagesOK
<1>7. ASSUME NEW r \in Req, NEW t \in Target, RequestSession(r, t) PROVE MessagesOK'
    <2>1. wire' \in Seq(Target) /\ inbox' = inbox
        BY <1>7, Appended DEF RequestSession, MessagesOK
    <2> QED
        BY <2>1 DEF MessagesOK
<1>8. CASE Close
    BY <1>8 DEF Close, MessagesOK
<1>13. ASSUME NEW permanent \in BOOLEAN, Closed(permanent) PROVE MessagesOK'
    BY <1>13 DEF Closed, MessagesOK
<1>9. ASSUME NEW r \in Req, RequestTimesOut(r) PROVE UNCHANGED traffic
    BY <1>9 DEF RequestTimesOut
<1>10. ASSUME Connect \/ ConnectThrows \/ Retry \/ Ready PROVE UNCHANGED traffic
    BY <1>10 DEF Connect, ConnectThrows, Retry, Ready
<1>11. ASSUME NEW s \in Sess, OnMessage(s) \/ CloseLink(s) PROVE UNCHANGED traffic
    BY <1>11 DEF OnMessage, CloseLink
<1>12. ASSUME UNCHANGED relayVars PROVE UNCHANGED traffic
    BY <1>12 DEF relayVars
<1> QED
    BY <1>1, <1>2, <1>3, <1>4, <1>5, <1>6, <1>7, <1>8, <1>9, <1>10, <1>11, <1>12, <1>13 DEF RelayNext

(* The requests.                                                           *)
RequestTypes ==
    /\ request \in [Req -> [target : Target \cup {None}, timer : BOOLEAN,
                            result : Target \cup {None, "failed"}]]
    /\ pending \in [Target -> Req \cup {None}]

NobodyWaits == socket = "none" => \A t \in Target : pending[t] = None

RequestsInv == RequestTypes /\ RequestsEnd /\ NobodyWaits

(* What settling a request does to it.                                     *)
LEMMA Settled ==
    ASSUME RequestTypes, NEW r \in Req, NEW result \in Target \cup {"failed"}
    PROVE  /\ Settle(r, result) \in [target : Target \cup {None}, timer : BOOLEAN,
                                     result : Target \cup {None, "failed"}]
           /\ Settle(r, result).target = request[r].target
           /\ ~Settle(r, result).timer
           /\ Settle(r, result).result = result
BY DEF RequestTypes, Settle

(* A set of them is settled, each as it may be, and none of those is left  *)
(* in the Map.                                                             *)
LEMMA SettlingKeeps ==
    ASSUME RequestsInv, NEW S, S \subseteq Req, NEW result \in Target \cup {"failed"},
           result = "failed" \/ \A r \in S : request[r].target = result,
           result # None, request' = [r \in Req |-> IF r \in S THEN Settle(r, result) ELSE request[r]],
           pending' \in [Target -> Req \cup {None}],
           \A t \in Target : pending'[t] = None \/ (pending'[t] = pending[t] /\ pending[t] \notin S),
           socket' = "none" => \A t \in Target : pending'[t] = None
    PROVE  RequestsInv'
<1> USE DEF RequestsInv
<1>1. \A r \in Req \ S : request'[r] = request[r]
    OBVIOUS
<1>2. ASSUME NEW r \in S
      PROVE  /\ request'[r].target = request[r].target /\ ~request'[r].timer
             /\ request'[r].result = result
    BY Settled
<1>3. RequestTypes'
    BY Settled DEF RequestTypes
<1>4. \A r \in Req : Open(r)' <=> request'[r].timer
    BY <1>1, <1>2 DEF RequestsEnd, Open
<1>5. \A t \in Target : pending'[t] # None => Open(pending[t])' /\ request'[pending'[t]].target = t
    <2> SUFFICES ASSUME NEW t \in Target, pending'[t] # None
                 PROVE  Open(pending[t])' /\ request'[pending'[t]].target = t
        OBVIOUS
    <2>1. pending'[t] = pending[t] /\ pending[t] \in Req \ S
        BY DEF RequestTypes
    <2> QED
        BY <1>1, <2>1 DEF RequestsEnd, Open
<1>6. \A r \in Req : request'[r].result \in {None, "failed", request'[r].target}
    BY <1>1, <1>2 DEF RequestsEnd
<1>7. NobodyWaits'
    BY DEF NobodyWaits
<1> QED
    BY <1>3, <1>4, <1>5, <1>6, <1>7 DEF RequestsEnd

LEMMA AnsweredKeeps ==
    ASSUME RequestsInv, NEW t \in Target, NEW result \in {t, "failed"}, socket # "none", socket' = socket,
           request' = IF PendingFor(t) = None THEN request
                      ELSE [request EXCEPT ![PendingFor(t)] = Settle(PendingFor(t), result)],
           pending' = [pending EXCEPT ![t] = None]
    PROVE  RequestsInv'
<1> DEFINE S == {r \in Req : r = pending[t]}
<1>1. None \notin Req /\ None \notin Target
    BY RelayClientAssumption DEF None
<1>2. request' = [r \in Req |-> IF r \in S THEN Settle(r, result) ELSE request[r]]
    <2>1. request = [r \in Req |-> request[r]]
        BY DEF RequestsInv, RequestTypes
    <2>2. CASE pending[t] = None
        BY <1>1, <2>1, <2>2 DEF PendingFor
    <2>3. CASE pending[t] # None
        BY <1>1, <2>1, <2>3 DEF PendingFor, RequestsInv, RequestTypes
    <2> QED
        BY <2>2, <2>3
<1>3. \A r \in S : request[r].target = t
    BY <1>1 DEF RequestsInv, RequestsEnd
<1>4. pending' \in [Target -> Req \cup {None}] /\ pending'[t] = None
      /\ \A u \in Target \ {t} : pending'[u] = pending[u]
    BY DEF RequestsInv, RequestTypes
<1>5. \A u \in Target : pending'[u] = None \/ (pending'[u] = pending[u] /\ pending[u] \notin S)
    <2> SUFFICES ASSUME NEW u \in Target, u # t, pending[u] # None PROVE pending[u] \notin S
        BY <1>4
    <2>1. request[pending[u]].target = u
        BY DEF RequestsInv, RequestsEnd
    <2> QED
        BY <1>3, <2>1
<1>6. result # None /\ result \in Target \cup {"failed"} /\ S \subseteq Req
    BY <1>1 DEF None
<1>7. result = "failed" \/ \A r \in S : request[r].target = result
    BY <1>3
<1> HIDE DEF S
<1> QED
    BY <1>2, <1>4, <1>5, <1>6, <1>7, SettlingKeeps

LEMMA RequestsInitInv == RelayInit => RequestsInv
<1> SUFFICES ASSUME RelayInit PROVE RequestsInv
    OBVIOUS
<1>1. \A r \in Req : request[r] = Fresh
    BY DEF RelayInit
<1>2. \A t \in Target : pending[t] = None
    BY DEF RelayInit
<1>3. Fresh \in [target : Target \cup {None}, timer : BOOLEAN, result : Target \cup {None, "failed"}]
      /\ Fresh.target = None /\ ~Fresh.timer /\ Fresh.result = None
    BY DEF Fresh
<1>4. request = [r \in Req |-> Fresh] /\ pending = [t \in Target |-> None]
    BY DEF RelayInit
<1>5. RequestTypes
    BY <1>3, <1>4 DEF RequestTypes
<1>6. RequestsEnd
    BY <1>1, <1>2, <1>3 DEF RequestsEnd, Open
<1> QED
    BY <1>2, <1>5, <1>6 DEF RequestsInv, NobodyWaits

LEMMA RequestSessionKeeps ==
    ASSUME DialInv, RequestsInv, NEW r \in Req, NEW t \in Target, RequestSession(r, t)
    PROVE  RequestsInv'
<1> DEFINE asked == [target |-> t, timer |-> TRUE, result |-> None]
<1>1. /\ request' = [request EXCEPT ![r] = asked] /\ pending' = [pending EXCEPT ![t] = r]
      /\ socket = "ready" /\ socket' = socket /\ request[r] = Fresh
    BY DEF RequestSession, online, dialling
<1>2. None \notin Req /\ None \notin Target
    BY RelayClientAssumption DEF None
<1>3. asked \in [target : Target \cup {None}, timer : BOOLEAN, result : Target \cup {None, "failed"}]
      /\ asked.target = t /\ asked.timer /\ asked.result = None
    OBVIOUS
<1>4. ~Open(r)
    BY <1>1 DEF Open, Fresh
<1> HIDE DEF asked
<1>5. /\ request'[r] = asked /\ \A q \in Req \ {r} : request'[q] = request[q]
      /\ pending'[t] = r /\ \A u \in Target \ {t} : pending'[u] = pending[u]
    BY <1>1 DEF RequestsInv, RequestTypes
<1>6. RequestTypes'
    BY <1>1, <1>3 DEF RequestsInv, RequestTypes
<1>7. Open(r)'
    BY <1>2, <1>3, <1>5 DEF Open
<1>8. \A q \in Req \ {r} : Open(q)' <=> Open(q)
    BY <1>5 DEF Open
<1>9. \A q \in Req : Open(q)' <=> request'[q].timer
    BY <1>3, <1>5, <1>7, <1>8 DEF RequestsInv, RequestsEnd
<1>10. \A u \in Target : pending'[u] # None => Open(pending[u])' /\ request'[pending'[u]].target = u
    <2> SUFFICES ASSUME NEW u \in Target, pending'[u] # None
                 PROVE  Open(pending[u])' /\ request'[pending'[u]].target = u
        OBVIOUS
    <2>1. CASE u = t
        BY <1>1, <1>3, <1>5, <1>7, <2>1 DEF Open
    <2>2. CASE u # t
        <3>1. pending'[u] = pending[u] /\ pending[u] \in Req /\ Open(pending[u])
              /\ request[pending[u]].target = u
            BY <1>5, <2>2 DEF RequestsInv, RequestsEnd, RequestTypes
        <3>2. pending[u] # r
            BY <1>4, <3>1
        <3> QED
            BY <1>5, <3>1, <3>2 DEF Open
    <2> QED
        BY <2>1, <2>2
<1>11. \A q \in Req : request'[q].result \in {None, "failed", request'[q].target}
    BY <1>3, <1>5 DEF RequestsInv, RequestsEnd
<1>12. NobodyWaits'
    BY <1>1 DEF NobodyWaits
<1> QED
    BY <1>6, <1>9, <1>10, <1>11, <1>12 DEF RequestsInv, RequestsEnd

LEMMA TimeoutKeeps ==
    ASSUME RequestsInv, NEW r \in Req, RequestTimesOut(r)
    PROVE  RequestsInv'
<1> DEFINE t == request[r].target
<1>1. None \notin Req /\ None \notin Target
    BY RelayClientAssumption DEF None
<1>2. Open(r) /\ t \in Target
    BY DEF RequestTimesOut, RequestsInv, RequestsEnd, RequestTypes, Open
<1>3. /\ request' = [request EXCEPT ![r] = Settle(r, "failed")] /\ pending' = [pending EXCEPT ![t] = None]
      /\ socket' = socket
    BY DEF RequestTimesOut, dialling
<1>4. request' = [q \in Req |-> IF q \in {r} THEN Settle(q, "failed") ELSE request[q]]
    BY <1>3 DEF RequestsInv, RequestTypes
<1>5. pending' \in [Target -> Req \cup {None}] /\ pending'[t] = None
      /\ \A u \in Target \ {t} : pending'[u] = pending[u]
    BY <1>2, <1>3 DEF RequestsInv, RequestTypes
<1>6. \A u \in Target : pending'[u] = None \/ (pending'[u] = pending[u] /\ pending[u] \notin {r})
    <2> SUFFICES ASSUME NEW u \in Target, u # t, pending[u] # None PROVE pending[u] # r
        BY <1>5
    <2> QED
        BY DEF RequestsInv, RequestsEnd
<1>7. socket' = "none" => \A u \in Target : pending'[u] = None
    BY <1>3, <1>5 DEF RequestsInv, NobodyWaits
<1>8. "failed" # None
    BY DEF None
<1> HIDE DEF t
<1> QED
    BY <1>4, <1>5, <1>6, <1>7, <1>8, SettlingKeeps

LEMMA RejectionKeeps ==
    ASSUME RequestsInv, RejectsPending
    PROVE  RequestsInv'
<1> DEFINE S == {r \in Req : \E t \in Target : pending[t] = r}
<1>1. request' = [r \in Req |-> IF r \in S THEN Settle(r, "failed") ELSE request[r]]
    BY DEF RejectsPending
<1>2. pending' \in [Target -> Req \cup {None}] /\ \A t \in Target : pending'[t] = None
    BY DEF RejectsPending
<1>3. "failed" # None /\ S \subseteq Req
    BY DEF None
<1> HIDE DEF S
<1> QED
    BY <1>1, <1>2, <1>3, SettlingKeeps

(* What is heard, and what is done about it.                               *)
LEMMA Heard ==
    ASSUME MessagesOK, Receive, NEW m, m = inbox[1]
    PROVE  /\ inbox # <<>> /\ inbox' = Tail(inbox) /\ 1 \in 1..Len(inbox)
           /\ \/ m.type = "session" /\ m.session \in Sess /\ m.target \in Target
                 /\ Introduced(m.session, m.target)
              \/ m.type = "incoming" /\ m.session \in Sess
                 /\ carried' = carried \cup {m.session} /\ link' = [link EXCEPT ![m.session].made = TRUE]
                 /\ UNCHANGED requests
              \/ m.type = "failed" /\ m.target \in Target /\ Failed(m.target)
              \/ m.type = "frame" /\ m.session \in Sess /\ m.session \in carried
                 /\ m.number \in 0..MaxFrames /\ Delivers(m.session, m.number)
              \/ m.type = "ended" /\ m.session \in Sess /\ m.session \in carried
                 /\ carried' = carried \ {m.session} /\ link' = EndedIn({m.session})
                 /\ UNCHANGED requests
              \/ m.type \in {"frame", "ended"} /\ m.session \in Sess /\ m.session \notin carried
                 /\ UNCHANGED <<links, requests>>
<1>1. inbox # <<>> /\ inbox' = Tail(inbox) /\ inbox \in Seq(Message)
    BY DEF Receive, MessagesOK
<1>2. m = Head(inbox) /\ m \in Message /\ 1 \in 1..Len(inbox)
    BY <1>1, HeadAndTail
<1>3. m.type \in {"session", "incoming", "failed", "frame", "ended"} /\ m.number \in 0..MaxFrames
    BY <1>2 DEF Message
<1>4. /\ m.type \in Answer => m.target \in Target
      /\ m.type # "failed" => m.session \in Sess
    BY <1>2 DEF MessagesOK
<1>5. CASE m.type = "session"
    <2>1. Introduced(m.session, m.target)
        BY <1>2, <1>5, Zenon DEF Receive
    <2> QED
        BY <1>1, <1>2, <1>4, <1>5, <2>1 DEF Answer
<1>6. CASE m.type = "incoming"
    <2>1. carried' = carried \cup {m.session} /\ link' = [link EXCEPT ![m.session].made = TRUE]
          /\ UNCHANGED requests
        BY <1>2, <1>6 DEF Receive
    <2> QED
        BY <1>1, <1>2, <1>4, <1>6, <2>1
<1>7. CASE m.type = "failed"
    <2>1. Failed(m.target)
        BY <1>2, <1>7 DEF Receive
    <2> QED
        BY <1>1, <1>2, <1>4, <1>7, <2>1 DEF Answer
<1>8. CASE m.type = "frame" /\ m.session \in carried
    <2>1. Delivers(m.session, m.number)
        BY <1>2, <1>8 DEF Receive
    <2> QED
        BY <1>1, <1>2, <1>3, <1>4, <1>8, <2>1
<1>9. CASE m.type = "ended" /\ m.session \in carried
    <2>1. carried' = carried \ {m.session} /\ link' = EndedIn({m.session}) /\ UNCHANGED requests
        BY <1>2, <1>9 DEF Receive
    <2> QED
        BY <1>1, <1>2, <1>4, <1>9, <2>1
<1>10. CASE m.type \in {"frame", "ended"} /\ m.session \notin carried
    <2>1. UNCHANGED <<links, requests>>
        BY <1>2, <1>10 DEF Receive
    <2> QED
        BY <1>1, <1>2, <1>4, <1>10, <2>1
<1> QED
    BY <1>3, <1>5, <1>6, <1>7, <1>8, <1>9, <1>10

LEMMA RequestsKeep ==
    ASSUME DialInv, MessagesOK, RequestsInv, [RelayNext]_relayVars
    PROVE  RequestsInv'
<1>1. ASSUME UNCHANGED requests, socket' = "none" => socket = "none" PROVE RequestsInv'
    BY <1>1 DEF requests, RequestsInv, RequestTypes, RequestsEnd, NobodyWaits, Open
<1>2. ASSUME Connect \/ ConnectThrows \/ Retry \/ Ready \/ Close PROVE UNCHANGED requests /\ (socket' = "none" => socket = "none")
    BY <1>2 DEF Connect, ConnectThrows, Retry, Ready, Close
<1>3. CASE Receive
    <2>1. socket = "ready" /\ socket' = socket
        BY <1>3 DEF Receive, online, dialling
    <2>2. PICK m : m = inbox[1]
        OBVIOUS
    <2>3. ASSUME m.target \in Target, Introduced(m.session, m.target) PROVE RequestsInv'
        BY <2>1, <2>3, AnsweredKeeps DEF Introduced
    <2>4. ASSUME m.target \in Target, Failed(m.target) PROVE RequestsInv'
        BY <2>1, <2>4, AnsweredKeeps DEF Failed
    <2>5. ASSUME Delivers(m.session, m.number) PROVE UNCHANGED requests
        BY <2>5 DEF Delivers
    <2>6. UNCHANGED <<links, requests>> => UNCHANGED requests
        OBVIOUS
    <2> QED
        BY <1>1, <1>3, <2>1, <2>2, <2>3, <2>4, <2>5, <2>6, Heard
<1>4. ASSUME NEW permanent \in BOOLEAN, Closed(permanent) PROVE RequestsInv'
    BY <1>4, RejectionKeeps DEF Closed
<1>5. ASSUME ServerAnswers PROVE UNCHANGED requests /\ socket' = socket
    <2>1. UNCHANGED <<dialling, requests, carried>>
        BY <1>5, Zenon DEF ServerAnswers
    <2> QED
        BY <2>1 DEF dialling
<1>6. ASSUME NEW s \in Sess, OnMessage(s) \/ CloseLink(s) PROVE UNCHANGED requests /\ socket' = socket
    BY <1>6 DEF OnMessage, CloseLink, dialling
<1>7. ASSUME NEW s \in Sess, ServerIntroduces(s) \/ ServerSends(s) \/ ServerEnds(s)
      PROVE  UNCHANGED requests /\ socket' = socket
    BY <1>7 DEF ServerIntroduces, ServerSends, ServerEnds, dialling
<1>8. ASSUME UNCHANGED relayVars PROVE UNCHANGED requests /\ socket' = socket
    BY <1>8 DEF relayVars, dialling
<1> QED
    BY <1>1, <1>2, <1>3, <1>4, <1>5, <1>6, <1>7, <1>8, RequestSessionKeeps, TimeoutKeeps DEF RelayNext

(* A link: what it has heard of was handed over or waits, in order.        *)
LinkRec == [told : BOOLEAN, made : BOOLEAN, closed : BOOLEAN, heard : BOOLEAN,
            backlog : Seq(Nat), got : Seq(Nat), sent : 0..MaxFrames]
Reached(l) == Len(l.got) + Len(l.backlog)
InOrder(q) == \A i \in 1..Len(q) : q[i] = i
LinkOK(l) ==
    /\ l \in LinkRec
    /\ l.closed => l.made
    /\ l.made => l.told
    /\ ~l.told => l.sent = 0
    /\ ~l.made => l.got = <<>> /\ l.backlog = <<>>
    /\ ~l.heard => l.got = <<>>
    /\ l.heard => l.backlog = <<>>
    /\ InOrder(l.got) /\ InOrder(l.backlog)
    /\ Reached(l) <= l.sent

(* Of each session: its beginning is said once, before anything else of    *)
(* it, and the frames that are on their way are those that were sent and   *)
(* have not arrived, in their order.                                       *)
Intro(i, s) == inbox[i].type \in {"session", "incoming"} /\ inbox[i].session = s
FrameAt(i, s) == inbox[i].type = "frame" /\ inbox[i].session = s
Said == 1..Len(inbox)
Coming(s) == \E i \in Said : Intro(i, s)
Lives(s) == s \in carried \/ Coming(s)

Introductions(s) ==
    /\ \A i \in Said : Intro(i, s) => link[s].told /\ ~link[s].made
    /\ \A i, j \in Said : Intro(i, s) /\ Intro(j, s) => i = j
FramesAfter(s) ==
    \A i \in Said : FrameAt(i, s) =>
        /\ link[s].told /\ inbox[i].number <= link[s].sent
        /\ s \in carried \/ link[s].closed \/ \E j \in 1..(i - 1) : Intro(j, s)
FramesUnderWay(s) ==
    Lives(s) =>
        /\ \A i \in Said : FrameAt(i, s) => inbox[i].number > Reached(link[s])
        /\ \A n \in (Reached(link[s]) + 1)..link[s].sent : \E i \in Said : FrameAt(i, s) /\ inbox[i].number = n
FramesGrow(s) ==
    \A i, j \in Said : FrameAt(i, s) /\ FrameAt(j, s) /\ i < j => inbox[i].number < inbox[j].number
CarriedIsOpen(s) == s \in carried <=> link[s].made /\ ~link[s].closed

SessionOK(s) ==
    /\ LinkOK(link[s]) /\ CarriedIsOpen(s)
    /\ Introductions(s) /\ FramesAfter(s) /\ FramesUnderWay(s) /\ FramesGrow(s)

LinksInv ==
    /\ link = [s \in Sess |-> link[s]]
    /\ carried \subseteq Sess
    /\ carried # {} => online
    /\ \A s \in Sess : SessionOK(s)

LEMMA NoLinkOK == LinkOK(NoLink) /\ ~NoLink.made
BY RelayClientAssumption DEF LinkOK, LinkRec, NoLink, Reached, InOrder

LEMMA LinksInitInv == RelayInit => LinksInv
<1> SUFFICES ASSUME RelayInit PROVE LinksInv
    OBVIOUS
<1>1. link = [s \in Sess |-> NoLink] /\ carried = {} /\ inbox = <<>>
    BY DEF RelayInit
<1>2. ASSUME NEW s \in Sess PROVE SessionOK(s)
    <2>1. link[s] = NoLink /\ Said = {}
        BY <1>1 DEF Said
    <2> QED
        BY <1>1, <2>1, NoLinkOK
           DEF SessionOK, CarriedIsOpen, Introductions, FramesAfter, FramesUnderWay, FramesGrow, Lives, Coming
<1> QED
    BY <1>1, <1>2 DEF LinksInv

(* A session that a step does not touch.                                   *)
LEMMA Untouched ==
    ASSUME NEW s \in Sess, SessionOK(s), inbox' = inbox, link'[s] = link[s], s \in carried' <=> s \in carried
    PROVE  SessionOK(s)'
BY DEF SessionOK, CarriedIsOpen, Introductions, FramesAfter, FramesUnderWay, FramesGrow,
       Lives, Coming, Said, Intro, FrameAt

(* A session of which nothing is said any more, and that is not carried.   *)
LEMMA Silenced ==
    ASSUME NEW s \in Sess, LinkOK(link[s])', inbox' = <<>>, CarriedIsOpen(s)', s \notin carried'
    PROVE  SessionOK(s)'
<1>1. Said' = {}
    BY DEF Said
<1> QED
    BY <1>1 DEF SessionOK, Introductions, FramesAfter, FramesUnderWay, FramesGrow, Lives, Coming

(* The links of these sessions are told that they ended.                   *)
LEMMA EndedLink ==
    ASSUME NEW x \in Sess, NEW S, LinkOK(link[x]), x \in S => link[x].made, link' = EndedIn(S)
    PROVE  /\ LinkOK(link'[x])
           /\ link'[x].closed <=> link[x].closed \/ x \in S
           /\ x \notin S => link'[x] = link[x]
           /\ link'[x].made = link[x].made /\ link'[x].told = link[x].told
           /\ link'[x].sent = link[x].sent
<1>1. link'[x] = [link[x] EXCEPT !.closed = link[x].closed \/ x \in S]
    BY DEF EndedIn
<1>2. PICK l, k : l = link[x] /\ k = link'[x]
    OBVIOUS
<1>3. LinkOK(l) /\ (x \in S => l.made) /\ k = [l EXCEPT !.closed = l.closed \/ x \in S]
    BY <1>1, <1>2
<1>4. l \in LinkRec /\ l.closed \in BOOLEAN
    BY <1>3 DEF LinkOK, LinkRec
<1>5. CASE x \in S
    <2>1. (l.closed \/ x \in S) = TRUE
        BY <1>5, Zenon
    <2>2. k = [l EXCEPT !.closed = TRUE]
        BY <1>3, <2>1
    <2>3. /\ k \in LinkRec /\ k.closed
          /\ k.told = l.told /\ k.made = l.made /\ k.heard = l.heard /\ k.got = l.got
          /\ k.backlog = l.backlog /\ k.sent = l.sent
        BY <1>4, <2>2 DEF LinkRec
    <2>4. LinkOK(k)
        BY <1>3, <1>5, <2>3 DEF LinkOK, Reached
    <2> QED
        BY <1>2, <1>5, <2>3, <2>4
<1>6. CASE x \notin S
    <2>1. (l.closed \/ x \in S) = l.closed
        BY <1>4, <1>6, Zenon
    <2>2. k = [l EXCEPT !.closed = l.closed]
        BY <1>3, <2>1
    <2>3. k = l
        BY <1>4, <2>2 DEF LinkRec
    <2> QED
        BY <1>2, <1>3, <1>6, <2>3
<1> QED
    BY <1>5, <1>6

LEMMA SilenceKeeps ==
    ASSUME LinksInv, inbox' = <<>>, carried' = {}, link' = EndedIn(carried)
    PROVE  LinksInv'
<1>1. ASSUME NEW s \in Sess PROVE SessionOK(s)'
    <2>1. LinkOK(link[s]) /\ (s \in carried => link[s].made)
        BY DEF LinksInv, SessionOK, CarriedIsOpen
    <2>2. /\ LinkOK(link'[s]) /\ link'[s].made = link[s].made
          /\ link'[s].closed <=> link[s].closed \/ s \in carried
        BY <2>1, EndedLink
    <2>3. CarriedIsOpen(s)'
        BY <2>2 DEF LinksInv, SessionOK, CarriedIsOpen
    <2> QED
        BY <2>2, <2>3, Silenced
<1>2. link' = [s \in Sess |-> link'[s]]
    BY DEF EndedIn
<1> QED
    BY <1>1, <1>2 DEF LinksInv

(* The link of one session is closed, as it ends here or there.            *)
LEMMA EndKeeps ==
    ASSUME LinksInv, NEW s \in Sess, link[s].made, carried' = carried \ {s}, link' = EndedIn({s}),
           inbox' = inbox, socket' = socket
    PROVE  LinksInv'
<1>1. ASSUME NEW x \in Sess
      PROVE  /\ LinkOK(link'[x]) /\ link'[x].made = link[x].made /\ link'[x].told = link[x].told
             /\ link'[x].sent = link[x].sent
             /\ link'[x].closed <=> link[x].closed \/ x = s
             /\ x # s => link'[x] = link[x]
    <2>1. LinkOK(link[x]) /\ (x \in {s} => link[x].made)
        BY DEF LinksInv, SessionOK
    <2> QED
        BY <2>1, EndedLink
<1>2. ASSUME NEW x \in Sess, x # s PROVE SessionOK(x)'
    BY <1>1, <1>2, Untouched DEF LinksInv
<1>3. SessionOK(s)'
    <2>1. SessionOK(s) /\ ~Coming(s)
        BY DEF LinksInv, SessionOK, Introductions, Coming
    <2>2. ~Lives(s)' /\ Said' = Said
        BY <2>1 DEF Lives, Coming, Intro, Said
    <2>3. CarriedIsOpen(s)'
        BY <1>1 DEF CarriedIsOpen
    <2>4. Introductions(s)' /\ FramesGrow(s)'
        BY <1>1, <2>1, <2>2 DEF SessionOK, Introductions, FramesGrow, Intro, FrameAt
    <2>5. FramesAfter(s)'
        BY <1>1, <2>1, <2>2 DEF SessionOK, FramesAfter, FrameAt
    <2> QED
        BY <1>1, <2>2, <2>3, <2>4, <2>5 DEF SessionOK, FramesUnderWay
<1>4. link' = [x \in Sess |-> link'[x]]
    BY DEF EndedIn
<1> QED
    BY <1>2, <1>3, <1>4 DEF LinksInv, online

(* What was kept is handed over.                                           *)
LEMMA OnMessageKeeps ==
    ASSUME LinksInv, NEW s \in Sess, OnMessage(s)
    PROVE  LinksInv'
<1>1. /\ link' = [link EXCEPT ![s] = [link[s] EXCEPT !.heard = TRUE, !.got = link[s].got \o link[s].backlog,
                                                     !.backlog = <<>>]]
      /\ ~link[s].heard /\ link[s].made
    BY Zenon DEF OnMessage
<1>0. inbox' = inbox /\ carried' = carried /\ socket' = socket
    BY DEF OnMessage, traffic, dialling
<1>2. LinkOK(link[s])
    BY DEF LinksInv, SessionOK
<1>3. PICK l : l = link[s]
    OBVIOUS
<1>4. l.got = <<>> /\ l.backlog \in Seq(Nat) /\ l.got \o l.backlog = l.backlog
    <2>1. l.got = <<>> /\ l.backlog \in Seq(Nat)
        BY <1>1, <1>2, <1>3 DEF LinkOK, LinkRec
    <2>2. \A q \in Seq(Nat) : <<>> \o q = q
        OBVIOUS
    <2> QED
        BY <2>1, <2>2
<1>5. link'[s] = [l EXCEPT !.heard = TRUE, !.got = l.backlog, !.backlog = <<>>]
    BY <1>1, <1>3, <1>4 DEF LinksInv
<1>6. /\ link'[s] \in LinkRec /\ link'[s].heard /\ link'[s].got = l.backlog /\ link'[s].backlog = <<>>
      /\ link'[s].told = l.told /\ link'[s].made = l.made /\ link'[s].closed = l.closed /\ link'[s].sent = l.sent
    BY <1>2, <1>3, <1>4, <1>5 DEF LinkOK, LinkRec
<1>7. Len(l.got) = 0 /\ Len(l.backlog) \in Nat /\ Len(link'[s].backlog) = 0
    BY <1>4, <1>6
<1>8. Reached(link'[s]) = Reached(l)
    BY <1>6, <1>7 DEF Reached
<1>9. LinkOK(link'[s])
    <2>1. InOrder(link'[s].got) /\ InOrder(link'[s].backlog)
        BY <1>2, <1>3, <1>6, <1>7 DEF LinkOK, InOrder
    <2>2. l.made /\ LinkOK(l)
        BY <1>1, <1>2, <1>3
    <2> QED
        BY <1>6, <1>8, <2>1, <2>2 DEF LinkOK
<1>10. SessionOK(s)'
    <2>1. SessionOK(s)
        BY DEF LinksInv
    <2>2. CarriedIsOpen(s)' /\ Introductions(s)' /\ FramesAfter(s)' /\ FramesGrow(s)'
        BY <1>0, <1>1, <1>3, <1>6, <2>1
           DEF SessionOK, CarriedIsOpen, Introductions, FramesAfter, FramesGrow, Said, Intro, FrameAt
    <2>3. FramesUnderWay(s)'
        BY <1>0, <1>1, <1>3, <1>6, <1>8, <2>1 DEF SessionOK, FramesUnderWay, Said, Intro, FrameAt, Lives, Coming
    <2> QED
        BY <1>9, <2>2, <2>3 DEF SessionOK
<1>11. ASSUME NEW x \in Sess, x # s PROVE SessionOK(x)'
    BY <1>0, <1>1, <1>11, Untouched DEF LinksInv
<1>12. link' = [x \in Sess |-> link'[x]]
    BY <1>1 DEF LinksInv
<1> QED
    BY <1>0, <1>1, <1>10, <1>11, <1>12 DEF LinksInv, online

(* The server says something that is not about this session, or its end.   *)
LEMMA SaidOfOthers ==
    ASSUME MessagesOK, NEW s \in Sess, SessionOK(s), NEW m \in Message, Says(m),
           link'[s] = link[s], carried' = carried,
           m.session = s => m.type = "ended"
    PROVE  SessionOK(s)'
<1>1. /\ Len(inbox) \in Nat /\ Len(inbox') = Len(inbox) + 1 /\ inbox'[Len(inbox) + 1] = m
      /\ \A i \in 1..Len(inbox) : inbox'[i] = inbox[i]
    BY Appended DEF MessagesOK, Says
<1>2. Said' = Said \cup {Len(inbox) + 1} /\ Said = 1..Len(inbox)
    BY <1>1 DEF Said
<1>3. \A i \in Said' : /\ Intro(i, s)' <=> i \in Said /\ Intro(i, s)
                       /\ FrameAt(i, s)' <=> i \in Said /\ FrameAt(i, s)
    BY <1>1, <1>2 DEF Intro, FrameAt
<1>4. Lives(s)' <=> Lives(s)
    BY <1>2, <1>3 DEF Lives, Coming
<1>5. CarriedIsOpen(s)' /\ Introductions(s)'
    BY <1>2, <1>3 DEF SessionOK, CarriedIsOpen, Introductions
<1>6. FramesAfter(s)'
    <2> SUFFICES ASSUME NEW i \in Said', FrameAt(i, s)'
                 PROVE  /\ link[s].told' /\ inbox'[i].number <= link[s].sent'
                        /\ s \in carried' \/ link[s].closed' \/ \E j \in 1..(i - 1) : Intro(j, s)'
        BY DEF FramesAfter
    <2>1. i \in Said /\ FrameAt(i, s) /\ inbox'[i] = inbox[i]
        BY <1>1, <1>2, <1>3
    <2>2. \A j \in 1..(i - 1) : j \in Said /\ j \in Said'
        BY <1>1, <1>2, <2>1
    <2> QED
        BY <1>3, <2>1, <2>2 DEF SessionOK, FramesAfter
<1>7. FramesUnderWay(s)' /\ FramesGrow(s)'
    BY <1>1, <1>2, <1>3, <1>4 DEF SessionOK, FramesUnderWay, FramesGrow
<1> QED
    BY <1>5, <1>6, <1>7 DEF SessionOK

LEMMA ReachedIsNat ==
    ASSUME NEW l, LinkOK(l)
    PROVE  /\ l.got \in Seq(Nat) /\ l.backlog \in Seq(Nat)
           /\ Len(l.got) \in Nat /\ Len(l.backlog) \in Nat /\ Reached(l) \in Nat
           /\ l.sent \in 0..MaxFrames /\ l.sent \in Nat /\ l \in LinkRec
<1>1. l.got \in Seq(Nat) /\ l.backlog \in Seq(Nat) /\ l.sent \in 0..MaxFrames /\ l \in LinkRec
    BY DEF LinkOK, LinkRec
<1>2. Len(l.got) \in Nat /\ Len(l.backlog) \in Nat
    BY <1>1
<1>3. l.sent \in Nat
    BY <1>1, RelayClientAssumption
<1>4. \A a, b \in Nat : a + b \in Nat
    OBVIOUS
<1>5. Reached(l) \in Nat
    BY <1>2, <1>4, Zenon DEF Reached
<1> QED
    BY <1>1, <1>2, <1>3, <1>5

LEMMA SentFields ==
    ASSUME NEW l \in LinkRec, NEW n \in 0..MaxFrames, NEW k, k = [l EXCEPT !.sent = n]
    PROVE  /\ k \in LinkRec /\ k.sent = n
           /\ k.told = l.told /\ k.made = l.made /\ k.closed = l.closed /\ k.heard = l.heard
           /\ k.got = l.got /\ k.backlog = l.backlog
BY DEF LinkRec

LEMMA NumbersAreNat ==
    ASSUME MessagesOK, NEW i \in Said
    PROVE  inbox[i].number \in Nat
<1>1. inbox[i] \in Message
    BY DEF MessagesOK, Said
<1> QED
    BY <1>1 DEF Message

LEMMA MoreSaid ==
    ASSUME MessagesOK, NEW m \in Message, Says(m), NEW n, n = Len(inbox) + 1
    PROVE  /\ n \in Nat \ {0} /\ Said = 1..(n - 1) /\ Said' = Said \cup {n} /\ Said' = 1..n
           /\ inbox'[n] = m /\ \A i \in Said : inbox'[i] = inbox[i]
<1>1. /\ Len(inbox) \in Nat /\ Len(inbox') = Len(inbox) + 1 /\ inbox'[Len(inbox) + 1] = m
      /\ \A i \in 1..Len(inbox) : inbox'[i] = inbox[i]
    BY Appended DEF MessagesOK, Says
<1> QED
    BY <1>1 DEF Said

(* Its beginning: nothing was said of it before.                           *)
LEMMA SaidToBegin ==
    ASSUME MessagesOK, NEW s \in Sess, SessionOK(s), ~link[s].told, NEW m \in Message, Says(m),
           link'[s] = [link[s] EXCEPT !.told = TRUE], carried' = carried,
           m.session = s, m.type \in {"session", "incoming"}
    PROVE  SessionOK(s)'
<1>1. PICK n : n = Len(inbox) + 1
    OBVIOUS
<1>2. /\ n \in Nat \ {0} /\ Said = 1..(n - 1) /\ Said' = Said \cup {n} /\ Said' = 1..n
      /\ inbox'[n] = m /\ \A i \in Said : inbox'[i] = inbox[i]
    BY <1>1, MoreSaid
<1>3. LinkOK(link[s]) /\ ~link[s].made /\ ~link[s].closed /\ link[s].sent = 0 /\ s \notin carried
    BY DEF SessionOK, LinkOK, CarriedIsOpen
<1>4. PICK l, k : l = link[s] /\ k = link'[s]
    OBVIOUS
<1>5. /\ k \in LinkRec /\ k.told /\ k.made = l.made /\ k.closed = l.closed /\ k.heard = l.heard
      /\ k.got = l.got /\ k.backlog = l.backlog /\ k.sent = l.sent
    BY <1>3, <1>4 DEF LinkOK, LinkRec
<1>6. LinkOK(k) /\ Reached(k) = Reached(l)
    BY <1>3, <1>4, <1>5 DEF LinkOK, Reached
<1>7. \A i \in Said : ~Intro(i, s) /\ ~FrameAt(i, s)
    BY DEF SessionOK, Introductions, FramesAfter
<1>8. \A i \in Said' : ~FrameAt(i, s)' /\ (Intro(i, s)' => i = n)
    BY <1>2, <1>7 DEF Intro, FrameAt
<1>9. CarriedIsOpen(s)' /\ Introductions(s)' /\ FramesAfter(s)' /\ FramesGrow(s)'
    BY <1>3, <1>4, <1>5, <1>8 DEF CarriedIsOpen, Introductions, FramesAfter, FramesGrow
<1>10. FramesUnderWay(s)'
    <2>1. Reached(link[s]) \in Nat
        BY <1>3, ReachedIsNat
    <2>2. (Reached(link'[s]) + 1)..link'[s].sent = {}
        BY <1>3, <1>4, <1>5, <1>6, <2>1
    <2> QED
        BY <1>8, <2>2 DEF FramesUnderWay
<1> QED
    BY <1>4, <1>6, <1>9, <1>10 DEF SessionOK

(* A frame, of a session that runs.                                        *)
LEMMA SaidAsFrame ==
    ASSUME MessagesOK, NEW s \in Sess, SessionOK(s), Lives(s), NEW m \in Message, Says(m),
           link'[s] = [link[s] EXCEPT !.sent = link[s].sent + 1], link[s].sent < MaxFrames,
           carried' = carried, m = Frame(s, link[s].sent + 1)
    PROVE  SessionOK(s)'
<1>1. PICK n : n = Len(inbox) + 1
    OBVIOUS
<1>2. /\ n \in Nat \ {0} /\ Said = 1..(n - 1) /\ Said' = Said \cup {n} /\ Said' = 1..n
      /\ inbox'[n] = m /\ \A i \in Said : inbox'[i] = inbox[i]
    BY <1>1, MoreSaid
<1>3. LinkOK(link[s]) /\ m.type = "frame" /\ m.session = s /\ m.number = link[s].sent + 1
    BY DEF SessionOK, Frame
<1>4. PICK l, k : l = link[s] /\ k = link'[s]
    OBVIOUS
<1>5. /\ l.sent \in Nat /\ l.told
      /\ k \in LinkRec /\ k.sent = l.sent + 1
      /\ k.told = l.told /\ k.made = l.made /\ k.closed = l.closed /\ k.heard = l.heard
      /\ k.got = l.got /\ k.backlog = l.backlog
    <2>1. l.told
        BY <1>3, <1>4 DEF Lives, Coming, SessionOK, CarriedIsOpen, Introductions, LinkOK
    <2>2. l \in LinkRec /\ l.sent \in 0..MaxFrames /\ l.sent \in Nat
        BY <1>3, <1>4, ReachedIsNat
    <2>3. l.sent + 1 \in 0..MaxFrames /\ k = [l EXCEPT !.sent = l.sent + 1]
        BY <1>4, <2>2, RelayClientAssumption
    <2>4. PICK next : next = l.sent + 1
        OBVIOUS
    <2>5. /\ k \in LinkRec /\ k.sent = next
          /\ k.told = l.told /\ k.made = l.made /\ k.closed = l.closed /\ k.heard = l.heard
          /\ k.got = l.got /\ k.backlog = l.backlog
        BY <2>2, <2>3, <2>4, SentFields
    <2> QED
        BY <2>1, <2>2, <2>4, <2>5
<1>6. Reached(k) = Reached(l) /\ Reached(l) \in Nat /\ Reached(l) <= l.sent
    <2>1. Reached(k) = Reached(l)
        BY <1>5 DEF Reached
    <2> QED
        BY <1>3, <1>4, <2>1, ReachedIsNat DEF LinkOK
<1>7. LinkOK(k)
    BY <1>3, <1>4, <1>5, <1>6 DEF LinkOK
<1>8. \A i \in Said' : /\ Intro(i, s)' <=> i \in Said /\ Intro(i, s)
                       /\ FrameAt(i, s)' <=> i = n \/ (i \in Said /\ FrameAt(i, s))
    BY <1>2, <1>3 DEF Intro, FrameAt
<1>9. Lives(s)' /\ CarriedIsOpen(s)' /\ Introductions(s)'
    BY <1>2, <1>4, <1>5, <1>8 DEF SessionOK, CarriedIsOpen, Introductions, Lives, Coming
<1>10. FramesAfter(s)'
    <2> SUFFICES ASSUME NEW i \in Said', FrameAt(i, s)'
                 PROVE  /\ link[s].told' /\ inbox'[i].number <= link[s].sent'
                        /\ s \in carried' \/ link[s].closed' \/ \E j \in 1..(i - 1) : Intro(j, s)'
        BY DEF FramesAfter
    <2>0. \A j \in 1..(i - 1) : j \in Said /\ j \in Said'
        BY <1>2
    <2>1. CASE i = n
        <3>1. inbox'[i].number = k.sent
            BY <1>2, <1>3, <1>4, <1>5, <2>1
        <3>2. s \in carried \/ \E j \in 1..(i - 1) : Intro(j, s)
            BY <1>2, <2>1 DEF Lives, Coming
        <3> QED
            BY <1>4, <1>5, <1>8, <2>0, <3>1, <3>2
    <2>2. CASE i # n
        <3>1. i \in Said /\ FrameAt(i, s) /\ inbox'[i] = inbox[i]
            BY <1>2, <1>8, <2>2
        <3>2. inbox[i].number <= l.sent /\ inbox[i].number \in Nat
            BY <1>4, <3>1, NumbersAreNat DEF SessionOK, FramesAfter
        <3>3. s \in carried \/ l.closed \/ \E j \in 1..(i - 1) : Intro(j, s)
            BY <1>4, <3>1 DEF SessionOK, FramesAfter
        <3> QED
            BY <1>4, <1>5, <1>8, <2>0, <3>1, <3>2, <3>3
    <2> QED
        BY <2>1, <2>2
<1>11. FramesUnderWay(s)'
    <2>1. \A i \in Said' : FrameAt(i, s)' => inbox'[i].number > Reached(k)
        BY <1>2, <1>3, <1>4, <1>5, <1>6, <1>8 DEF SessionOK, FramesUnderWay
    <2>2. ASSUME NEW x \in (Reached(k) + 1)..k.sent
          PROVE  \E i \in Said' : FrameAt(i, s)' /\ inbox'[i].number = x
        <3>1. CASE x = k.sent
            BY <1>2, <1>3, <1>4, <1>5, <1>8, <3>1
        <3>2. CASE x # k.sent
            <4>1. x \in (Reached(l) + 1)..l.sent
                BY <1>5, <1>6, <2>2, <3>2
            <4>2. PICK i \in Said : FrameAt(i, s) /\ inbox[i].number = x
                BY <1>4, <4>1 DEF SessionOK, FramesUnderWay
            <4> QED
                BY <1>2, <1>8, <4>2
        <3> QED
            BY <3>1, <3>2
    <2> QED
        BY <1>4, <2>1, <2>2 DEF FramesUnderWay
<1>12. FramesGrow(s)'
    <2> SUFFICES ASSUME NEW i \in Said', NEW j \in Said', FrameAt(i, s)', FrameAt(j, s)', i < j
                 PROVE  inbox'[i].number < inbox'[j].number
        BY DEF FramesGrow
    <2>1. i \in Said /\ FrameAt(i, s) /\ inbox'[i] = inbox[i]
        BY <1>2, <1>8
    <2>2. CASE j = n
        <3>1. inbox[i].number <= l.sent /\ inbox[i].number \in Nat
            BY <1>4, <2>1, NumbersAreNat DEF SessionOK, FramesAfter
        <3> QED
            BY <1>2, <1>3, <1>4, <1>5, <2>1, <2>2, <3>1
    <2>3. CASE j # n
        BY <1>2, <1>8, <2>1, <2>3 DEF SessionOK, FramesGrow
    <2> QED
        BY <2>2, <2>3
<1> QED
    BY <1>4, <1>7, <1>9, <1>10, <1>11, <1>12 DEF SessionOK

(* What was said first has been heard.                                     *)
LEMMA LessSaid ==
    ASSUME MessagesOK, inbox # <<>>, inbox' = Tail(inbox)
    PROVE  /\ \A i \in Said' : i \in Nat /\ i >= 1 /\ i + 1 \in Said /\ inbox'[i] = inbox[i + 1]
           /\ \A i \in Said : i = 1 \/ (i - 1 \in Said' /\ inbox'[i - 1] = inbox[i])
           /\ \A i \in Said : i \in Nat /\ i >= 1
           /\ 1 \in Said
<1>1. inbox \in Seq(Message)
    BY DEF MessagesOK
<1>2. Len(inbox) \in Nat /\ Len(inbox) >= 1 /\ Len(inbox') = Len(inbox) - 1
      /\ \A i \in 1..Len(inbox') : inbox'[i] = inbox[i + 1]
    BY <1>1, HeadAndTail
<1> QED
    BY <1>2 DEF Said

LEMMA Shifted ==
    ASSUME MessagesOK, inbox # <<>>, inbox' = Tail(inbox), NEW s \in Sess
    PROVE  /\ \A i \in Said' : Intro(i, s)' <=> Intro(i + 1, s)
           /\ \A i \in Said' : FrameAt(i, s)' <=> FrameAt(i + 1, s)
BY LessSaid DEF Intro, FrameAt

(* To a session that it is not about.                                      *)
LEMMA HeardOfOthers ==
    ASSUME MessagesOK, NEW s \in Sess, SessionOK(s), inbox # <<>>, inbox' = Tail(inbox),
           link'[s] = link[s], s \in carried' <=> s \in carried,
           ~Intro(1, s), FrameAt(1, s) => ~Lives(s)
    PROVE  SessionOK(s)'
<1>1. /\ \A i \in Said' : i \in Nat /\ i >= 1 /\ i + 1 \in Said /\ inbox'[i] = inbox[i + 1]
      /\ \A i \in Said : i = 1 \/ (i - 1 \in Said' /\ inbox'[i - 1] = inbox[i])
      /\ \A i \in Said : i \in Nat /\ i >= 1
      /\ 1 \in Said
    BY LessSaid
<1>2. /\ \A i \in Said' : Intro(i, s)' <=> Intro(i + 1, s)
      /\ \A i \in Said' : FrameAt(i, s)' <=> FrameAt(i + 1, s)
    BY Shifted
<1>3. Lives(s)' <=> Lives(s)
    <2>1. Coming(s)' => Coming(s)
        BY <1>1, <1>2 DEF Coming
    <2>2. ASSUME NEW i \in Said, Intro(i, s) PROVE Coming(s)'
        <3>1. i - 1 \in Said' /\ (i - 1) + 1 = i
            BY <1>1, <2>2
        <3> QED
            BY <1>2, <2>2, <3>1 DEF Coming
    <2> QED
        BY <2>1, <2>2 DEF Lives, Coming
<1>4. LinkOK(link[s])' /\ CarriedIsOpen(s)'
    BY DEF SessionOK, CarriedIsOpen
<1>5. Introductions(s)'
    <2>1. \A i \in Said' : Intro(i, s)' => link'[s].told /\ ~link'[s].made
        BY <1>1, <1>2 DEF SessionOK, Introductions
    <2>2. ASSUME NEW i \in Said', NEW j \in Said', Intro(i, s)', Intro(j, s)' PROVE i = j
        <3>1. i + 1 = j + 1
            BY <1>1, <1>2, <2>2 DEF SessionOK, Introductions
        <3>2. i \in Nat /\ j \in Nat
            BY <1>1
        <3> QED
            BY <3>1, <3>2
    <2> QED
        BY <2>1, <2>2 DEF Introductions
<1>6. FramesAfter(s)'
    <2> SUFFICES ASSUME NEW i \in Said', FrameAt(i, s)'
                 PROVE  /\ link[s].told' /\ inbox'[i].number <= link[s].sent'
                        /\ s \in carried' \/ link[s].closed' \/ \E j \in 1..(i - 1) : Intro(j, s)'
        BY DEF FramesAfter
    <2>1. /\ i + 1 \in Said /\ FrameAt(i + 1, s) /\ inbox'[i] = inbox[i + 1] /\ i \in Nat
        BY <1>1, <1>2
    <2>2. link[s].told /\ inbox[i + 1].number <= link[s].sent
        BY <2>1 DEF SessionOK, FramesAfter
    <2>3. s \in carried \/ link[s].closed \/ \E j \in 1..((i + 1) - 1) : Intro(j, s)
        BY <2>1 DEF SessionOK, FramesAfter
    <2>4. ASSUME NEW j \in 1..((i + 1) - 1), Intro(j, s) PROVE \E x \in 1..(i - 1) : Intro(x, s)'
        <3>1. j # 1 /\ j \in Nat /\ j - 1 \in 1..(i - 1) /\ (j - 1) + 1 = j
            BY <2>1, <2>4
        <3>2. j \in Said
            BY <2>1, <2>4 DEF Said
        <3>3. j - 1 \in Said'
            BY <1>1, <3>1, <3>2
        <3> QED
            BY <1>2, <2>4, <3>1, <3>3
    <2> QED
        BY <2>1, <2>2, <2>3, <2>4
<1>7. FramesUnderWay(s)'
    <2> SUFFICES ASSUME Lives(s) PROVE FramesUnderWay(s)'
        BY <1>3 DEF FramesUnderWay
    <2>1. \A i \in Said' : FrameAt(i, s)' => inbox'[i].number > Reached(link'[s])
        BY <1>1, <1>2 DEF SessionOK, FramesUnderWay
    <2>2. ASSUME NEW n \in (Reached(link'[s]) + 1)..link'[s].sent
          PROVE  \E i \in Said' : FrameAt(i, s)' /\ inbox'[i].number = n
        <3>1. PICK i \in Said : FrameAt(i, s) /\ inbox[i].number = n
            BY <2>2 DEF SessionOK, FramesUnderWay
        <3>2. i # 1
            BY <3>1
        <3>3. i - 1 \in Said' /\ inbox'[i - 1] = inbox[i]
            BY <1>1, <3>2
        <3>4. (i - 1) + 1 = i
            BY <1>1
        <3> QED
            BY <1>2, <3>1, <3>3, <3>4
    <2> QED
        BY <2>1, <2>2 DEF FramesUnderWay
<1>8. FramesGrow(s)'
    <2> SUFFICES ASSUME NEW i \in Said', NEW j \in Said', FrameAt(i, s)', FrameAt(j, s)', i < j
                 PROVE  inbox'[i].number < inbox'[j].number
        BY DEF FramesGrow
    <2>1. i + 1 < j + 1 /\ FrameAt(i + 1, s) /\ FrameAt(j + 1, s) /\ i + 1 \in Said /\ j + 1 \in Said
        BY <1>1, <1>2
    <2> QED
        BY <1>1, <2>1 DEF SessionOK, FramesGrow
<1> QED
    BY <1>4, <1>5, <1>6, <1>7, <1>8 DEF SessionOK

(* The session begins here.                                                *)
LEMMA HeardToBegin ==
    ASSUME MessagesOK, NEW s \in Sess, SessionOK(s), inbox # <<>>, inbox' = Tail(inbox), Intro(1, s),
           link'[s] = [link[s] EXCEPT !.made = TRUE], s \in carried'
    PROVE  SessionOK(s)'
<1>1. /\ \A i \in Said' : i \in Nat /\ i >= 1 /\ i + 1 \in Said /\ inbox'[i] = inbox[i + 1]
      /\ \A i \in Said : i = 1 \/ (i - 1 \in Said' /\ inbox'[i - 1] = inbox[i])
      /\ \A i \in Said : i \in Nat /\ i >= 1
      /\ 1 \in Said
    BY LessSaid
<1>2. /\ \A i \in Said' : Intro(i, s)' <=> Intro(i + 1, s)
      /\ \A i \in Said' : FrameAt(i, s)' <=> FrameAt(i + 1, s)
    BY Shifted
<1>3. PICK l, k : l = link[s] /\ k = link'[s]
    OBVIOUS
<1>4. LinkOK(l) /\ l.told /\ ~l.made /\ ~l.closed /\ Lives(s) /\ l \in LinkRec
    BY <1>1, <1>3, ReachedIsNat DEF SessionOK, Introductions, LinkOK, Lives, Coming
<1>5. /\ k \in LinkRec /\ k.made /\ k.sent = l.sent
      /\ k.told = l.told /\ k.closed = l.closed /\ k.heard = l.heard
      /\ k.got = l.got /\ k.backlog = l.backlog
    BY <1>3, <1>4 DEF LinkRec
<1>6. LinkOK(k) /\ Reached(k) = Reached(l)
    BY <1>4, <1>5 DEF LinkOK, Reached
<1>7. CarriedIsOpen(s)'
    BY <1>3, <1>4, <1>5 DEF CarriedIsOpen
<1>8. \A i \in Said' : ~Intro(i, s)'
    <2> SUFFICES ASSUME NEW i \in Said', Intro(i, s)' PROVE FALSE
        OBVIOUS
    <2>1. i + 1 \in Said /\ Intro(i + 1, s) /\ i + 1 # 1
        BY <1>1, <1>2
    <2> QED
        BY <1>1, <2>1 DEF SessionOK, Introductions
<1>9. FramesAfter(s)'
    <2> SUFFICES ASSUME NEW i \in Said', FrameAt(i, s)'
                 PROVE  link'[s].told /\ inbox'[i].number <= link'[s].sent
        BY DEF FramesAfter
    <2>1. /\ i + 1 \in Said /\ FrameAt(i + 1, s) /\ inbox'[i] = inbox[i + 1]
        BY <1>1, <1>2
    <2> QED
        BY <1>3, <1>5, <2>1 DEF SessionOK, FramesAfter
<1>10. FramesUnderWay(s)'
    <2>1. \A i \in Said' : FrameAt(i, s)' => inbox'[i].number > Reached(k)
        BY <1>1, <1>2, <1>3, <1>4, <1>6 DEF SessionOK, FramesUnderWay
    <2>2. ASSUME NEW n \in (Reached(k) + 1)..k.sent
          PROVE  \E i \in Said' : FrameAt(i, s)' /\ inbox'[i].number = n
        <3>1. PICK i \in Said : FrameAt(i, s) /\ inbox[i].number = n
            BY <1>3, <1>4, <1>5, <1>6, <2>2 DEF SessionOK, FramesUnderWay
        <3>2. i # 1
            BY <3>1 DEF FrameAt, Intro
        <3>3. i - 1 \in Said' /\ inbox'[i - 1] = inbox[i]
            BY <1>1, <3>2
        <3>4. (i - 1) + 1 = i
            BY <1>1
        <3> QED
            BY <1>2, <3>1, <3>3, <3>4
    <2> QED
        BY <1>3, <2>1, <2>2 DEF FramesUnderWay
<1>11. FramesGrow(s)'
    <2> SUFFICES ASSUME NEW i \in Said', NEW j \in Said', FrameAt(i, s)', FrameAt(j, s)', i < j
                 PROVE  inbox'[i].number < inbox'[j].number
        BY DEF FramesGrow
    <2>1. i + 1 < j + 1 /\ FrameAt(i + 1, s) /\ FrameAt(j + 1, s) /\ i + 1 \in Said /\ j + 1 \in Said
        BY <1>1, <1>2
    <2> QED
        BY <1>1, <2>1 DEF SessionOK, FramesGrow
<1> QED
    BY <1>3, <1>6, <1>7, <1>8, <1>9, <1>10, <1>11 DEF SessionOK, Introductions

(* The frame that comes next is the next one that was sent.                *)
LEMMA NextFrame ==
    ASSUME MessagesOK, NEW s \in Sess, SessionOK(s), 1 \in Said, FrameAt(1, s), Lives(s)
    PROVE  inbox[1].number = Reached(link[s]) + 1 /\ inbox[1].number <= link[s].sent
<1>1. LinkOK(link[s]) /\ Reached(link[s]) \in Nat /\ link[s].sent \in Nat /\ inbox[1].number \in Nat
    BY ReachedIsNat, NumbersAreNat DEF SessionOK
<1>2. inbox[1].number <= link[s].sent /\ inbox[1].number > Reached(link[s])
    BY DEF SessionOK, FramesAfter, FramesUnderWay
<1>3. PICK i \in Said : FrameAt(i, s) /\ inbox[i].number = Reached(link[s]) + 1
    BY <1>1, <1>2 DEF SessionOK, FramesUnderWay
<1>4. i \in Nat /\ i >= 1
    BY DEF Said
<1>5. i > 1 => inbox[1].number < inbox[i].number
    BY <1>3 DEF SessionOK, FramesGrow
<1> QED
    BY <1>1, <1>2, <1>3, <1>4, <1>5

LEMMA OneMore ==
    ASSUME NEW q \in Seq(Nat), InOrder(q), NEW n, n = Len(q) + 1, NEW p, p = Append(q, n)
    PROVE  p \in Seq(Nat) /\ InOrder(p) /\ Len(p) = n /\ n \in Nat
<1>1. n \in Nat /\ Len(q) \in Nat
    OBVIOUS
<1>2. /\ p \in Seq(Nat) /\ Len(p) = Len(q) + 1 /\ p[Len(p)] = n
      /\ \A i \in 1..Len(q) : p[i] = q[i]
      /\ \A i \in 1..Len(p) : i # Len(p) => i \in 1..Len(q)
    BY <1>1, Appended
<1> QED
    BY <1>1, <1>2 DEF InOrder

LEMMA HeardFrame ==
    ASSUME MessagesOK, NEW s \in Sess, SessionOK(s), s \in carried, inbox # <<>>, inbox' = Tail(inbox),
           FrameAt(1, s), NEW n, n = inbox[1].number,
           link'[s] = IF link[s].closed THEN link[s]
                      ELSE IF link[s].heard THEN [link[s] EXCEPT !.got = Append(link[s].got, n)]
                      ELSE [link[s] EXCEPT !.backlog = Append(link[s].backlog, n)],
           carried' = carried
    PROVE  SessionOK(s)'
<1>1. /\ \A i \in Said' : i \in Nat /\ i >= 1 /\ i + 1 \in Said /\ inbox'[i] = inbox[i + 1]
      /\ \A i \in Said : i = 1 \/ (i - 1 \in Said' /\ inbox'[i - 1] = inbox[i])
      /\ \A i \in Said : i \in Nat /\ i >= 1
      /\ 1 \in Said
    BY LessSaid
<1>2. /\ \A i \in Said' : Intro(i, s)' <=> Intro(i + 1, s)
      /\ \A i \in Said' : FrameAt(i, s)' <=> FrameAt(i + 1, s)
    BY Shifted
<1>3. PICK l, k : l = link[s] /\ k = link'[s]
    OBVIOUS
<1>4. LinkOK(l) /\ l.made /\ l.told /\ ~l.closed /\ Lives(s) /\ l \in LinkRec
      /\ Reached(l) \in Nat /\ l.sent \in Nat
      /\ l.got \in Seq(Nat) /\ l.backlog \in Seq(Nat) /\ Len(l.got) \in Nat /\ Len(l.backlog) \in Nat
    BY <1>3, ReachedIsNat DEF SessionOK, CarriedIsOpen, LinkOK, Lives
<1>5. n = Reached(l) + 1 /\ n <= l.sent /\ n \in Nat
    BY <1>1, <1>3, <1>4, NextFrame, NumbersAreNat
<1>6. /\ LinkOK(k) /\ Reached(k) = n
      /\ k.told = l.told /\ k.made = l.made /\ k.closed = l.closed /\ k.sent = l.sent
    <2>1. CASE l.heard
        <3>1. l.backlog = <<>> /\ Len(l.backlog) = 0
            BY <1>4, <2>1 DEF LinkOK
        <3>2. n = Len(l.got) + 1
            BY <1>4, <1>5, <3>1 DEF Reached
        <3>3. PICK p : p = Append(l.got, n)
            OBVIOUS
        <3>4. p \in Seq(Nat) /\ InOrder(p) /\ Len(p) = n
            BY <1>4, <3>2, <3>3, OneMore DEF LinkOK
        <3>5. k = [l EXCEPT !.got = p]
            BY <1>3, <1>4, <2>1, <3>3
        <3>6. /\ k \in LinkRec /\ k.got = p /\ k.backlog = l.backlog /\ k.heard = l.heard
              /\ k.told = l.told /\ k.made = l.made /\ k.closed = l.closed /\ k.sent = l.sent
            BY <1>4, <3>4, <3>5 DEF LinkRec
        <3>7. Reached(k) = n
            BY <1>5, <3>1, <3>4, <3>6 DEF Reached
        <3> QED
            BY <1>4, <1>5, <2>1, <3>1, <3>4, <3>6, <3>7 DEF LinkOK
    <2>2. CASE ~l.heard
        <3>1. l.got = <<>> /\ Len(l.got) = 0
            BY <1>4, <2>2 DEF LinkOK
        <3>2. n = Len(l.backlog) + 1
            BY <1>4, <1>5, <3>1 DEF Reached
        <3>3. PICK p : p = Append(l.backlog, n)
            OBVIOUS
        <3>4. p \in Seq(Nat) /\ InOrder(p) /\ Len(p) = n
            BY <1>4, <3>2, <3>3, OneMore DEF LinkOK
        <3>5. k = [l EXCEPT !.backlog = p]
            BY <1>3, <1>4, <2>2, <3>3
        <3>6. /\ k \in LinkRec /\ k.got = l.got /\ k.backlog = p /\ k.heard = l.heard
              /\ k.told = l.told /\ k.made = l.made /\ k.closed = l.closed /\ k.sent = l.sent
            BY <1>4, <3>4, <3>5 DEF LinkRec
        <3>7. Reached(k) = n
            BY <1>5, <3>1, <3>4, <3>6 DEF Reached
        <3> QED
            BY <1>4, <1>5, <2>2, <3>1, <3>4, <3>6, <3>7 DEF LinkOK
    <2> QED
        BY <2>1, <2>2
<1>7. CarriedIsOpen(s)'
    BY <1>3, <1>6 DEF SessionOK, CarriedIsOpen
<1>8. \A i \in Said' : ~Intro(i, s)'
    BY <1>1, <1>2, <1>3, <1>4 DEF SessionOK, Introductions
<1>9. FramesAfter(s)'
    <2> SUFFICES ASSUME NEW i \in Said', FrameAt(i, s)'
                 PROVE  link'[s].told /\ inbox'[i].number <= link'[s].sent
        BY DEF FramesAfter
    <2>1. /\ i + 1 \in Said /\ FrameAt(i + 1, s) /\ inbox'[i] = inbox[i + 1]
        BY <1>1, <1>2
    <2> QED
        BY <1>3, <1>6, <2>1 DEF SessionOK, FramesAfter
<1>10. FramesUnderWay(s)'
    <2>1. ASSUME NEW i \in Said', FrameAt(i, s)' PROVE inbox'[i].number > n
        <3>0. i + 1 \in Said /\ inbox'[i] = inbox[i + 1] /\ i \in Nat /\ i >= 1
            BY <1>1
        <3>2. i + 1 > 1
            BY <3>0
        <3>1. FrameAt(i + 1, s)
            BY <1>2, <2>1
        <3>3. inbox[1].number < inbox[i + 1].number /\ inbox[i + 1].number \in Nat
            BY <1>1, <3>0, <3>1, <3>2, NumbersAreNat DEF SessionOK, FramesGrow
        <3> QED
            BY <1>5, <3>0, <3>3
    <2>2. ASSUME NEW x \in (n + 1)..k.sent
          PROVE  \E i \in Said' : FrameAt(i, s)' /\ inbox'[i].number = x
        <3>1. x \in (Reached(l) + 1)..l.sent /\ x # n
            BY <1>4, <1>5, <1>6, <2>2
        <3>2. PICK i \in Said : FrameAt(i, s) /\ inbox[i].number = x
            BY <1>3, <1>4, <3>1 DEF SessionOK, FramesUnderWay
        <3>3. i # 1
            BY <3>1, <3>2
        <3>4. i - 1 \in Said' /\ inbox'[i - 1] = inbox[i]
            BY <1>1, <3>3
        <3>5. (i - 1) + 1 = i
            BY <1>1
        <3> QED
            BY <1>2, <3>2, <3>4, <3>5
    <2> QED
        BY <1>3, <1>6, <2>1, <2>2 DEF FramesUnderWay
<1>11. FramesGrow(s)'
    <2> SUFFICES ASSUME NEW i \in Said', NEW j \in Said', FrameAt(i, s)', FrameAt(j, s)', i < j
                 PROVE  inbox'[i].number < inbox'[j].number
        BY DEF FramesGrow
    <2>1. i + 1 < j + 1 /\ FrameAt(i + 1, s) /\ FrameAt(j + 1, s) /\ i + 1 \in Said /\ j + 1 \in Said
        BY <1>1, <1>2
    <2> QED
        BY <1>1, <2>1 DEF SessionOK, FramesGrow
<1> QED
    BY <1>3, <1>6, <1>7, <1>8, <1>9, <1>10, <1>11 DEF SessionOK, Introductions

LEMMA ReceiveKeeps ==
    ASSUME LinksInv, MessagesOK, Receive
    PROVE  LinksInv'
<1>1. socket = "ready" /\ socket' = "ready"
    BY DEF Receive, online, dialling
<1>2. PICK m : m = inbox[1]
    OBVIOUS
<1>3. inbox # <<>> /\ inbox' = Tail(inbox) /\ 1 \in Said
    BY <1>2, Heard DEF Said
<1>4. \A s \in Sess : SessionOK(s) /\ LinkOK(link[s]) /\ CarriedIsOpen(s)
    BY DEF LinksInv, SessionOK
<1>5. ASSUME link' = [s \in Sess |-> link'[s]], carried' \subseteq Sess,
             \A s \in Sess : SessionOK(s)'
      PROVE  LinksInv'
    BY <1>1, <1>5 DEF LinksInv, online
\* Of any session, unless the message begins it or is a frame of it.
<1>6. ASSUME NEW s \in Sess, link'[s] = link[s], s \in carried' <=> s \in carried,
             m.session # s \/ m.type \in {"ended", "failed"} \/ (m.type = "frame" /\ ~Lives(s))
      PROVE  SessionOK(s)'
    <2>1. ~Intro(1, s) /\ (FrameAt(1, s) => ~Lives(s))
        BY <1>2, <1>6 DEF Intro, FrameAt
    <2> QED
        BY <1>3, <1>4, <1>6, <2>1, HeardOfOthers
<1>7. ASSUME m.type \in {"session", "incoming"}, m.session \in Sess,
             carried' = carried \cup {m.session}, link' = [link EXCEPT ![m.session].made = TRUE]
      PROVE  LinksInv'
    <2>1. link' = [s \in Sess |-> link'[s]] /\ carried' \subseteq Sess
          /\ link'[m.session] = [link[m.session] EXCEPT !.made = TRUE]
          /\ \A s \in Sess \ {m.session} : link'[s] = link[s] /\ (s \in carried' <=> s \in carried)
        BY <1>7 DEF LinksInv
    <2>2. SessionOK(m.session)'
        <3>1. Intro(1, m.session) /\ m.session \in carried'
            BY <1>2, <1>7 DEF Intro
        <3> QED
            BY <1>3, <1>4, <1>7, <2>1, <3>1, HeardToBegin
    <2> QED
        BY <1>5, <1>6, <2>1, <2>2
<1>8. ASSUME m.type = "failed", Failed(m.target) PROVE LinksInv'
    <2>1. link' = link /\ carried' = carried
        BY <1>8 DEF Failed, links
    <2> QED
        BY <1>5, <1>6, <1>8, <2>1 DEF LinksInv
<1>9. ASSUME m.type = "frame", m.session \in Sess, m.session \in carried, Delivers(m.session, m.number)
      PROVE  LinksInv'
    <2>1. PICK s \in Sess, n \in {m.number} : s = m.session
        BY <1>9
    <2>0. Delivers(s, n)
        BY <1>9, <2>1
    <2>2. /\ link' = [link EXCEPT ![s] =
                        IF link[s].closed THEN link[s]
                        ELSE IF link[s].heard THEN [link[s] EXCEPT !.got = Append(link[s].got, n)]
                        ELSE [link[s] EXCEPT !.backlog = Append(link[s].backlog, n)]]
          /\ carried' = carried
        BY <2>0 DEF Delivers
    <2>3. /\ link' = [x \in Sess |-> link'[x]]
          /\ link'[s] = IF link[s].closed THEN link[s]
                        ELSE IF link[s].heard THEN [link[s] EXCEPT !.got = Append(link[s].got, n)]
                        ELSE [link[s] EXCEPT !.backlog = Append(link[s].backlog, n)]
          /\ \A x \in Sess \ {s} : link'[x] = link[x]
        BY <2>2, ZenonT(60) DEF LinksInv
    <2>4. SessionOK(s)'
        <3>1. FrameAt(1, s) /\ s \in carried
            BY <1>2, <1>9, <2>1, SMTT(30) DEF FrameAt
        <3> QED
            BY <1>2, <1>3, <1>4, <2>1, <2>2, <2>3, <3>1, HeardFrame, ZenonT(60)
    <2>5. \A x \in Sess \ {s} : SessionOK(x)'
        BY <1>6, <2>1, <2>2, <2>3
    <2>6. carried' \subseteq Sess
        BY <2>2 DEF LinksInv
    <2> QED
        BY <1>5, <2>3, <2>4, <2>5, <2>6
<1>10. ASSUME m.type = "ended", m.session \in Sess, m.session \in carried,
              carried' = carried \ {m.session}, link' = EndedIn({m.session})
       PROVE  LinksInv'
    <2>1. PICK s \in Sess : s = m.session
        BY <1>10
    <2>2. ASSUME NEW x \in Sess
          PROVE  /\ LinkOK(link'[x]) /\ link'[x].made = link[x].made /\ link'[x].told = link[x].told
                 /\ link'[x].sent = link[x].sent
                 /\ link'[x].closed <=> link[x].closed \/ x = s
                 /\ x # s => link'[x] = link[x]
        <3>1. LinkOK(link[x]) /\ (x \in {s} => link[x].made)
            BY <1>4, <1>10, <2>1 DEF CarriedIsOpen
        <3> QED
            BY <1>10, <2>1, <3>1, EndedLink
    <2>3. link' = [x \in Sess |-> link'[x]] /\ carried' \subseteq Sess
        BY <1>10 DEF EndedIn, LinksInv
    <2>4. \A x \in Sess \ {s} : SessionOK(x)'
        BY <1>6, <1>10, <2>1, <2>2
    <2>5. SessionOK(s)'
        <3>1. ~Coming(s)
            BY <1>4, <1>10, <2>1 DEF SessionOK, CarriedIsOpen, Introductions, Coming
        <3>2. \A i \in Said' : /\ i \in Nat /\ i + 1 \in Said /\ inbox'[i] = inbox[i + 1]
                               /\ Intro(i, s)' <=> Intro(i + 1, s)
                               /\ FrameAt(i, s)' <=> FrameAt(i + 1, s)
            BY <1>3, LessSaid, Shifted
        <3>3. ~Lives(s)' /\ \A i \in Said' : ~Intro(i, s)'
            BY <1>10, <2>1, <3>1, <3>2 DEF Lives, Coming
        <3>4. CarriedIsOpen(s)' /\ link'[s].closed
            BY <1>10, <2>1, <2>2 DEF CarriedIsOpen
        <3>5. link'[s].sent = link[s].sent /\ link'[s].told = link[s].told
            BY <2>2
        <3>6. FramesAfter(s)'
            BY <1>4, <3>2, <3>4, <3>5 DEF SessionOK, FramesAfter
        <3>7. FramesGrow(s)'
            <4> SUFFICES ASSUME NEW i \in Said', NEW j \in Said', FrameAt(i, s)', FrameAt(j, s)', i < j
                         PROVE  inbox'[i].number < inbox'[j].number
                BY DEF FramesGrow
            <4>1. i + 1 < j + 1 /\ FrameAt(i + 1, s) /\ FrameAt(j + 1, s) /\ i + 1 \in Said /\ j + 1 \in Said
                BY <3>2
            <4> QED
                BY <1>4, <3>2, <4>1 DEF SessionOK, FramesGrow
        <3> QED
            BY <2>2, <3>3, <3>4, <3>6, <3>7 DEF SessionOK, Introductions, FramesUnderWay
    <2> QED
        BY <1>5, <2>3, <2>4, <2>5
<1>11. ASSUME m.type \in {"frame", "ended"}, m.session \in Sess, m.session \notin carried,
              UNCHANGED <<links, requests>>
       PROVE  LinksInv'
    <2>1. link' = link /\ carried' = carried
        BY <1>11 DEF links
    <2>2. ASSUME NEW s \in Sess PROVE SessionOK(s)'
        <3>1. CASE m.type = "ended" \/ m.session # s
            BY <1>6, <2>1, <3>1
        <3>2. CASE m.type = "frame" /\ m.session = s
            <4>1. CASE ~Lives(s)
                BY <1>6, <2>1, <3>2, <4>1
            <4>2. CASE Coming(s)
                \* Frames come after the beginning they belong to.
                <5>1. link[s].told /\ ~link[s].made /\ ~link[s].closed
                    BY <1>4, <4>2 DEF Coming, SessionOK, Introductions, LinkOK
                <5>2. FrameAt(1, s)
                    BY <1>2, <3>2 DEF FrameAt
                <5>3. \E j \in 1..(1 - 1) : Intro(j, s)
                    BY <1>3, <1>4, <1>11, <3>2, <5>1, <5>2 DEF SessionOK, FramesAfter
                <5> QED
                    BY <5>3
            <4> QED
                BY <1>11, <3>2, <4>1, <4>2 DEF Lives
        <3> QED
            BY <1>11, <3>1, <3>2
    <2> QED
        BY <1>5, <2>1, <2>2 DEF LinksInv
<1>12. ASSUME Introduced(m.session, m.target)
       PROVE  carried' = carried \cup {m.session} /\ link' = [link EXCEPT ![m.session].made = TRUE]
    BY <1>12 DEF Introduced
<1> QED
    BY <1>2, <1>7, <1>8, <1>9, <1>10, <1>11, <1>12, Heard

(* The server begins a session: of this one nothing was said before.       *)
LEMMA BeginningSaid ==
    ASSUME LinksInv, MessagesOK, NEW s \in Sess, ~link[s].told, Tells(s), carried' = carried, online, socket' = socket,
           NEW m \in Message, Says(m), m.session = s, m.type \in {"session", "incoming"}
    PROVE  LinksInv'
<1>1. /\ link' = [x \in Sess |-> link'[x]] /\ link'[s] = [link[s] EXCEPT !.told = TRUE]
      /\ \A x \in Sess \ {s} : link'[x] = link[x]
    BY DEF Tells, LinksInv
<1>2. SessionOK(s)'
    BY <1>1, SaidToBegin DEF LinksInv
<1>3. ASSUME NEW x \in Sess \ {s} PROVE SessionOK(x)'
    BY <1>1, <1>3, SaidOfOthers DEF LinksInv
<1> QED
    BY <1>1, <1>2, <1>3 DEF LinksInv, online

(* It refuses a request, or ends a session: no link hears of it yet.       *)
LEMMA OtherwiseSaid ==
    ASSUME LinksInv, MessagesOK, UNCHANGED links, online, socket' = socket,
           NEW m \in Message, Says(m), m.session \in Sess => m.type = "ended"
    PROVE  LinksInv'
<1>1. link' = link /\ carried' = carried
    BY DEF links
<1>2. ASSUME NEW x \in Sess PROVE SessionOK(x)'
    BY <1>1, <1>2, SaidOfOthers DEF LinksInv
<1> QED
    BY <1>1, <1>2 DEF LinksInv, online

LEMMA FrameSaid ==
    ASSUME LinksInv, MessagesOK, NEW s \in Sess, ServerSends(s)
    PROVE  LinksInv'
<1>1. PICK n : n = link[s].sent + 1
    OBVIOUS
<1>2. /\ online /\ Runs(s) /\ link[s].sent < MaxFrames /\ link' = [link EXCEPT ![s].sent = n]
      /\ carried' = carried /\ socket' = socket /\ Says(Frame(s, n))
    BY <1>1 DEF ServerSends, dialling
<1>3. n \in 0..MaxFrames
    BY <1>1, <1>2, ReachedIsNat, RelayClientAssumption DEF LinksInv, SessionOK
<1>4. Frame(s, n) \in Message /\ Frame(s, n).session = s
    BY <1>3, Messages DEF Frame
<1>5. /\ link' = [x \in Sess |-> link'[x]] /\ link'[s] = [link[s] EXCEPT !.sent = n]
      /\ \A x \in Sess \ {s} : link'[x] = link[x]
    BY <1>2 DEF LinksInv
<1>6. Lives(s)
    <2>1. CASE s \in carried
        BY <2>1 DEF Lives
    <2>2. CASE s \notin carried
        <3>1. PICK x \in Range(inbox) : x.session = s /\ x.type \in {"session", "incoming"}
            BY <1>2, <2>2 DEF Runs
        <3>2. PICK i \in Said : inbox[i] = x
            BY <3>1 DEF Range, Said, MessagesOK
        <3> QED
            BY <3>1, <3>2 DEF Lives, Coming, Intro
    <2> QED
        BY <2>1, <2>2
<1>7. SessionOK(s)'
    <2>1. PICK m \in Message : m = Frame(s, n)
        BY <1>4
    <2> QED
        BY <1>1, <1>2, <1>5, <1>6, <2>1, SaidAsFrame DEF LinksInv
<1>8. ASSUME NEW x \in Sess \ {s} PROVE SessionOK(x)'
    BY <1>2, <1>4, <1>5, <1>8, SaidOfOthers DEF LinksInv
<1> QED
    BY <1>2, <1>5, <1>7, <1>8 DEF LinksInv, online

LEMMA LinksKeep ==
    ASSUME DialInv, MessagesOK, LinksInv, [RelayNext]_relayVars
    PROVE  LinksInv'
<1>1. ASSUME UNCHANGED links, inbox' = inbox, socket = "ready" => socket' = "ready" PROVE LinksInv'
    <2>1. link' = link /\ carried' = carried
        BY <1>1 DEF links
    <2>2. \A s \in Sess : SessionOK(s)'
        BY <1>1, <2>1, Untouched DEF LinksInv
    <2> QED
        BY <1>1, <2>1, <2>2 DEF LinksInv, online
<1>2. CASE Connect \/ ConnectThrows \/ Retry \/ Ready
    <2>1. socket # "ready"
        BY <1>2, Zenon DEF Connect, ConnectThrows, Retry, Ready, DialInv, KeepsTrying
    <2>2. UNCHANGED links /\ inbox' = inbox
        BY <1>2 DEF Connect, ConnectThrows, Retry, Ready, traffic
    <2> QED
        BY <1>1, <2>1, <2>2
<1>3. CASE Close
    BY <1>3, SilenceKeeps DEF Close
<1>4. ASSUME NEW permanent \in BOOLEAN, Closed(permanent) PROVE LinksInv'
    BY <1>4, SilenceKeeps DEF Closed
<1>5. CASE ServerAnswers
    <2>1. wire # <<>> /\ online /\ socket' = socket /\ carried' = carried
        BY <1>5, Zenon DEF ServerAnswers, dialling
    <2>2. Head(wire) \in Target
        BY <2>1, HeadAndTail DEF MessagesOK
    <2>3. ASSUME NEW s \in Sess, ~link[s].told, Tells(s), Says(AboutRequest("session", s, Head(wire)))
          PROVE  LinksInv'
        <3>1. PICK m \in Message : m = AboutRequest("session", s, Head(wire))
            BY <2>2, Messages
        <3>2. m.session = s /\ m.type = "session"
            BY <3>1 DEF AboutRequest
        <3> QED
            BY <2>1, <2>3, <3>1, <3>2, BeginningSaid
    <2>4. ASSUME link' = link, Says(AboutRequest("failed", None, Head(wire))) PROVE LinksInv'
        <3>1. PICK m \in Message : m = AboutRequest("failed", None, Head(wire))
            BY <2>2, Messages
        <3>2. m.session \notin Sess
            BY <3>1, RelayClientAssumption DEF AboutRequest, None
        <3> QED
            BY <2>1, <2>4, <3>1, <3>2, OtherwiseSaid DEF links
    <2> QED
        BY <1>5, <2>3, <2>4, Zenon DEF ServerAnswers
<1>6. ASSUME NEW s \in Sess, ServerIntroduces(s) PROVE LinksInv'
    <2>1. PICK m \in Message : m = About("incoming", s)
        BY Messages
    <2>2. m.session = s /\ m.type = "incoming"
        BY <2>1 DEF About
    <2> QED
        BY <1>6, <2>1, <2>2, BeginningSaid DEF ServerIntroduces, dialling
<1>7. ASSUME NEW s \in Sess, ServerEnds(s) PROVE LinksInv'
    <2>1. PICK m \in Message : m = About("ended", s)
        BY Messages
    <2>2. m.type = "ended"
        BY <2>1 DEF About
    <2> QED
        BY <1>7, <2>1, <2>2, OtherwiseSaid DEF ServerEnds, dialling
<1>8. ASSUME NEW s \in Sess, CloseLink(s) PROVE LinksInv'
    BY <1>8, EndKeeps DEF CloseLink, traffic, dialling
<1>9. ASSUME NEW r \in Req, RequestTimesOut(r) \/ \E t \in Target : RequestSession(r, t) PROVE LinksInv'
    BY <1>1, <1>9 DEF RequestTimesOut, RequestSession, dialling, traffic
<1>10. CASE UNCHANGED relayVars
    BY <1>1, <1>10 DEF relayVars, traffic, dialling
<1> QED
    BY <1>2, <1>3, <1>4, <1>5, <1>6, <1>7, <1>8, <1>9, <1>10, ReceiveKeeps, OnMessageKeeps, FrameSaid DEF RelayNext

RelayInv == DialInv /\ MessagesOK /\ RequestsInv /\ LinksInv

LEMMA RelayInitInv == RelayInit => RelayInv
<1>1. RelayInit => MessagesOK
    BY DEF RelayInit, MessagesOK
<1> QED
    BY <1>1, DialInitInv, RequestsInitInv, LinksInitInv DEF RelayInv

LEMMA RelayKeeps ==
    ASSUME RelayInv, [RelayNext]_relayVars
    PROVE  RelayInv'
<1>1. \A s \in Sess : link[s].sent \in Nat
    BY ReachedIsNat DEF RelayInv, LinksInv, SessionOK
<1> QED
    BY <1>1, DialKeeps, MessagesKeep, RequestsKeep, LinksKeep DEF RelayInv

LEMMA RelayIsRight == RelayInv => RelayClientHolds
<1> SUFFICES ASSUME RelayInv PROVE RelayClientHolds
    OBVIOUS
<1>1. \A s \in Sess : LinkOK(link[s]) /\ CarriedIsOpen(s)
    BY DEF RelayInv, LinksInv, SessionOK
<1>2. RelayTypeOK
    <2>1. \A m \in Range(inbox) : m \in Message
        BY DEF RelayInv, MessagesOK, Range
    <2>2. carried \subseteq {s \in Sess : link[s].made}
        BY <1>1 DEF CarriedIsOpen, RelayInv, LinksInv
    <2> QED
        BY <2>1, <2>2 DEF RelayTypeOK, RelayInv, DialInv, RequestsInv, RequestTypes
<1>3. NothingOutlivesTheConnection
    BY <1>1 DEF NothingOutlivesTheConnection, RelayInv, RequestsInv, NobodyWaits, LinksInv, CarriedIsOpen
<1>4. FramesInOrder
    <2> SUFFICES ASSUME NEW s \in Sess
                 PROVE  /\ \A i \in DOMAIN link[s].got : link[s].got[i] = i
                        /\ link[s].heard => link[s].backlog = <<>>
                        /\ link[s].backlog # <<>> => link[s].got = <<>> /\ link[s].backlog[1] = 1
        BY DEF FramesInOrder
    <2>1. LinkOK(link[s]) /\ link[s].got \in Seq(Nat) /\ link[s].backlog \in Seq(Nat)
        BY <1>1, ReachedIsNat
    <2>2. \A i \in DOMAIN link[s].got : link[s].got[i] = i
        BY <2>1 DEF LinkOK, InOrder
    <2>3. ASSUME link[s].backlog # <<>> PROVE link[s].got = <<>> /\ link[s].backlog[1] = 1
        BY <2>1, <2>3 DEF LinkOK, InOrder
    <2> QED
        BY <2>1, <2>2, <2>3 DEF LinkOK
<1> QED
    BY <1>2, <1>3, <1>4 DEF RelayClientHolds, RelayInv, DialInv, RequestsInv
-----------------------------------------------------------------------------
(* The three together.                                                     *)
AccountsInv == TokensInv /\ ClientInv /\ ThrottleInv /\ RelayInv

LEMMA AccountsInvariance == Spec => []AccountsInv
<1>1. Init => AccountsInv
    BY TokensInitInv, ClientInitInv, ThrottleInitInv, RelayInitInv DEF Init, AccountsInv
<1>2. AccountsInv /\ [Next]_vars => AccountsInv'
    <2> SUFFICES ASSUME AccountsInv, [Next]_vars PROVE AccountsInv'
        OBVIOUS
    <2>1. [TokensNext]_tokenVars /\ [ThrottleNext]_throttleVars /\ [RelayNext]_relayVars
        BY DEF Next, Tokens, Throttled, Relayed, vars
    <2>2. TokensInv' /\ ClientInv'
        BY <2>1, RowsStayOK, OneTokenStays, RevokedStayTogether, ClientKeeps DEF AccountsInv, TokensInv
    <2> QED
        BY <2>1, <2>2, ThrottleKeeps, RelayKeeps DEF AccountsInv
<1> QED
    BY <1>1, <1>2, PTL DEF Spec

(* The server's books and the client that plays by them: however requests  *)
(* overlap, are lost, repeated or cut short, a sign-in has one token that  *)
(* works and ends as a whole; it does not end for a client whose calls     *)
(* never overlapped, were never cut short and never met a block; and no    *)
(* window lets more guesses through than its limit, unless a right one     *)
(* came between (rotateRefresh, revokeFamily, authorization, throttle).    *)
THEOREM BooksAreKept == Spec => []AccountsHold
<1>1. AccountsInv => AccountsHold
    BY ClientIsRight, WindowsAreWindows DEF AccountsInv, TokensInv, AccountsHold
<1> QED
    BY <1>1, AccountsInvariance, PTL

(* The relay client, whenever its socket closes and whatever comes in what *)
(* order: it goes on trying, no request waits without a timer, nothing     *)
(* outlives the connection, and a link hands over each frame once and in   *)
(* order, also those that came before its handler (relay.ts).              *)
THEOREM RelayKeepsPromises == Spec => []RelayClientHolds
<1>1. AccountsInv => RelayClientHolds
    BY RelayIsRight DEF AccountsInv
<1> QED
    BY <1>1, AccountsInvariance, PTL
=============================================================================
