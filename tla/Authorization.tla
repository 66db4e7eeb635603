---------------------------- MODULE Authorization ----------------------------
(***************************************************************************)
(* Whether this installation may be connected to: authorization.ts, with   *)
(* the checks main.ts makes of it, and the service as far as it decides    *)
(* (its own steps are in AuthWorker).  Answers are signed, so a client has *)
(* the ones the service gave; they may come late, never, or in another     *)
(* order than they were decided in, and its clock may be wrong.            *)
(***************************************************************************)
EXTENDS Integers, FiniteSetsExt

CONSTANTS
    Check,          \* calls of check() under way at once
    MaxGrace,       \* MAX_GRACE_MS
    Slack,          \* CLOCK_SLACK_MS
    Skews, Graces,  \* how far the service's clock is ahead, the grace it gives
    MaxTokens,      \* names of tokens, used again
    MaxClock, MaxBlocks \* bounds

ASSUME AuthorizationAssumption ==
    /\ MaxGrace \in Nat /\ Slack \in Nat /\ Skews \subseteq Int /\ Graces \subseteq Nat
    /\ {MaxClock, MaxBlocks, MaxTokens} \subseteq Nat

VARIABLES
    clock, skew, grace,
    disabled,       \* installations.blocked_at
    blocks,         \* counter for the bound
    valid,          \* the token whose hash the service has, 0 for none
    token,          \* this.token
    kept,           \* TOKEN_SECRET
    cached,         \* this.cached
    file,           \* authorization.json
    check,
    heard,          \* history: a block was accepted, and none lifted since
    mishap          \* history: checks overlapped, or an answer was not written

authVars == <<clock, skew, grace, disabled, blocks, valid, token, kept, cached, file,
              check, heard, mishap>>
service == <<clock, skew, grace, disabled, blocks, valid>>
told == <<cached, file, heard>>

NoVerdict == [status |-> "none", at |-> 0, until |-> 0, decided |-> 0]
(* verdictFor, by the service's clock.  Nobody asks when a block was told. *)
Verdict ==
    IF disabled THEN [NoVerdict EXCEPT !.status = "blocked"]
    ELSE [status |-> "active", at |-> clock + skew, until |-> clock + skew + grace, decided |-> clock]
Resting == [at |-> "idle", token |-> 0, verdict |-> NoVerdict]
Stands(c, at) == check' = [check EXCEPT ![c] = [@ EXCEPT !.at = at]]
Rests(c) == check' = [check EXCEPT ![c] = Resting]
-----------------------------------------------------------------------------
(* Mutant: the service's own limit is taken as it is.                      *)
ItsOwnLimit(v) == v.until
(* The ceiling on the grace a service may give.                            *)
Ceiling(v) == Min({v.until, v.at + MaxGrace})

(* status().                                                               *)
State ==
    IF cached.status = "none" THEN "unverified"
    ELSE IF cached.status = "blocked" THEN "blocked"
    ELSE IF Ceiling(cached) <= clock \/ cached.at > clock + Slack THEN "unverified"
    ELSE "active"
(* mayHost, and refuseIfDisabled of main.ts.                               *)
MayHost == State = "active"
-----------------------------------------------------------------------------
AuthInit ==
    /\ clock = 0 /\ skew \in Skews /\ grace \in Graces
    /\ disabled = FALSE /\ blocks = 0
    /\ valid = 0 /\ token = 0 /\ kept = 0
    /\ cached = NoVerdict /\ file = NoVerdict
    /\ check = [c \in Check |-> Resting]
    /\ heard = FALSE /\ mishap = FALSE

(* check(), at the start and every six hours, with requests that end after *)
(* ten seconds: that two overlap is a mishap, and one will do.  An         *)
(* installation without a token registers, after a challenge.              *)
StartCheck(c) ==
    /\ check[c] = Resting
    /\ mishap => \A d \in Check : check[d] = Resting
    /\ token' = IF token = 0 THEN kept ELSE token
    /\ check' = [check EXCEPT ![c] = [at |-> IF token' = 0 THEN "registering" ELSE "verifying",
                                      token |-> token', verdict |-> NoVerdict]]
    /\ mishap' = (mishap \/ \E d \in Check : check[d] # Resting)
    /\ UNCHANGED <<service, kept, told>>

(* A new token takes the place of the old one; a block stays.              *)
ServiceRegisters(c) ==
    /\ check[c].at = "registering"
    /\ valid' = Min(1..MaxTokens \ ({valid, token, kept} \cup {check[d].token : d \in Check}))
    /\ check' = [check EXCEPT ![c] = [at |-> "registered", token |-> valid', verdict |-> Verdict]]
    /\ UNCHANGED <<clock, skew, grace, disabled, blocks, token, kept, told, mishap>>

ServiceVerifies(c) ==
    /\ check[c].at = "verifying" /\ check[c].token = valid
    /\ check' = [check EXCEPT ![c] = [at |-> "answered", token |-> valid, verdict |-> Verdict]]
    /\ UNCHANGED <<service, token, kept, told, mishap>>

(* Unreachable for ten seconds, refused, or the token could not be stored. *)
CheckFails(c) ==
    /\ check[c].at \in {"registering", "registered", "verifying", "answered", "storing"}
    /\ Rests(c)
    /\ UNCHANGED <<service, token, kept, told, mishap>>

TakeToken(c) ==
    /\ check[c].at = "registered"
    /\ token' = check[c].token
    /\ Stands(c, "storing")
    /\ UNCHANGED <<service, kept, told, mishap>>

(* Mutant: only permission is written down.                                *)
AcceptUnwritten(v) ==
    /\ cached' = v /\ heard' = (v.status = "blocked" /\ disabled)
    /\ file' = IF v.status = "active" THEN v ELSE file
    /\ UNCHANGED mishap
(* Mutant: a block is final.                                               *)
AcceptForGood(v) ==
    /\ cached' = IF cached.status = "blocked" THEN cached ELSE v
    /\ heard' = (v.status = "blocked" /\ disabled)
    /\ file' = cached' /\ UNCHANGED mishap
(* accept(): whichever answer comes last is the one that stands.  It is    *)
(* written at once, if it can be.                                          *)
Accept(v) ==
    /\ cached' = v /\ heard' = (v.status = "blocked" /\ disabled)
    /\ \/ file' = v /\ UNCHANGED mishap
       \/ UNCHANGED file /\ mishap' = TRUE

Stored(c) ==
    /\ check[c].at = "storing"
    /\ kept' = check[c].token
    /\ Accept(check[c].verdict)
    /\ Rests(c)
    /\ UNCHANGED <<service, token>>

TakeVerdict(c) ==
    /\ check[c].at = "answered"
    /\ Accept(check[c].verdict)
    /\ Rests(c)
    /\ UNCHANGED <<service, token, kept>>

(* The program starts again: readCache().                                  *)
StartAgain ==
    /\ token' = 0 /\ cached' = file
    /\ check' = [c \in Check |-> Resting]
    /\ UNCHANGED <<service, kept, file, heard, mishap>>

(* An administrator, at the service.                                       *)
Disable ==
    /\ ~disabled /\ blocks < MaxBlocks
    /\ disabled' = TRUE /\ blocks' = blocks + 1
    /\ UNCHANGED <<clock, skew, grace, valid, token, kept, told, check, mishap>>
Enable ==
    /\ disabled /\ disabled' = FALSE /\ heard' = FALSE
    /\ UNCHANGED <<clock, skew, grace, blocks, valid, token, kept, cached, file, check, mishap>>

TimePasses ==
    /\ clock < MaxClock /\ clock' = clock + 1
    /\ UNCHANGED <<skew, grace, disabled, blocks, valid, token, kept, told, check, mishap>>

AuthNext ==
    \/ \E c \in Check :
          \/ StartCheck(c) \/ ServiceRegisters(c) \/ ServiceVerifies(c) \/ CheckFails(c)
          \/ TakeToken(c) \/ Stored(c) \/ TakeVerdict(c)
    \/ StartAgain \/ Disable \/ Enable \/ TimePasses
-----------------------------------------------------------------------------
(* Whatever grace the service is set to give, and unless its clock is out  *)
(* by more than is put up with, nobody is let in on an answer older than   *)
(* the ceiling: a block nobody can deliver takes effect by then (status).  *)
GraceIsBounded ==
    MayHost => \/ skew > Slack
               \/ clock - cached.decided < MaxGrace + Slack

(* A block that was heard holds until it is lifted, through restarts and   *)
(* however old it grows - if checks do not overlap, so that an older       *)
(* answer comes after it, and if it could be written (accept, readCache).  *)
HeardBlocksHold == heard /\ ~mishap => ~MayHost

(* main.ts:857: a block being lifted should not need a restart.  Where     *)
(* nothing goes wrong but the network, an installation that is not blocked *)
(* may run in the end.                                                     *)
LiftedBlocksEnd ==
    ~disabled /\ skew <= Slack /\ skew + grace > 0 ~> MayHost \/ disabled \/ mishap

(* What an installation takes for its right to be connected to is never    *)
(* more, nor longer, than the service gave it (authorization.ts).          *)
AuthorizationHolds == GraceIsBounded /\ HeardBlocksHold
=============================================================================
