----------------------------- MODULE AuthWorker -----------------------------
(***************************************************************************)
(* The authorization service, services/auth-worker/src/worker.ts: a Worker *)
(* keeps nothing between requests, so each statement to its database is    *)
(* awaited and any number of requests stand between two of theirs.         *)
(* One installation, one caller.                                           *)
(***************************************************************************)
EXTENDS Naturals, FiniteSets

CONSTANTS
    Request,        \* requests, each once
    Nonce,
    Allowed,        \* attempts per window
    Span,           \* the window
    MaxHour         \* bound: the clock

ASSUME WorkerAssumption ==
    Allowed \in Nat \ {0} /\ Span \in Nat /\ MaxHour \in Nat /\ "none" \notin Nonce

VARIABLES
    hour,
    attempts, since,    \* the throttle's row; attempts = 0 without one
    nonces,             \* challenges
    row,                \* the installation: "none", "active" or "blocked"
    request,
    decided,            \* history: what an administrator last decided
    spent,              \* history: nonces some request has deleted
    crowd               \* history: how many were in the throttle at once in this window

throttle == <<attempts, since, crowd>>
workerVars == <<hour, throttle, nonces, row, request, decided, spent>>

(* came: `now', taken before anything is awaited; seen: what a select      *)
(* returned; late: the nonce was spent before we looked for it; could: the *)
(* verdicts that were true at some moment since we came.                   *)
Unsent == [at |-> "none", goal |-> "none", came |-> 0, nonce |-> "none", signed |-> FALSE,
           seen |-> <<0, 0>>, found |-> FALSE, late |-> FALSE, could |-> {}, answer |-> "none"]
Truth(r) == IF r = "blocked" THEN "blocked" ELSE "active"
Moves(r, at) == request' = [request EXCEPT ![r].at = at]
Counting == {r \in Request : request[r].at \in {"arrived", "counted"}}
-----------------------------------------------------------------------------
WorkerInit ==
    /\ hour = 0 /\ attempts = 0 /\ since = 0
    /\ nonces = {} /\ row = "none"
    /\ request = [r \in Request |-> Unsent]
    /\ decided = "active" /\ spent = {} /\ crowd = 0

Arrives(r, goal, n, signed) ==
    /\ request[r] = Unsent
    /\ request' = [request EXCEPT ![r] = [Unsent EXCEPT
                      !.at = "arrived", !.goal = goal, !.came = hour,
                      !.nonce = n, !.signed = signed, !.could = {Truth(row)}]]
    /\ crowd' = IF Cardinality(Counting) < crowd THEN crowd ELSE Cardinality(Counting) + 1
    /\ UNCHANGED <<hour, attempts, since, nonces, row, decided, spent>>
(* /challenge.                                                             *)
ArriveToBeChallenged(r) == Arrives(r, "challenge", "none", FALSE)
(* /register, with a nonce and a signature that is right or not.           *)
ArriveToRegister(r, n, signed) == Arrives(r, "register", n, signed)
(* /verify, with a token of the installation.                              *)
ArriveToVerify(r) == row # "none" /\ Arrives(r, "verify", "none", FALSE)

(* throttled(): the row is read.                                           *)
ReadCount(r) ==
    /\ request[r].at = "arrived"
    /\ request' = [request EXCEPT ![r].at = "counted", ![r].seen = <<attempts, since>>]
    /\ UNCHANGED <<hour, throttle, nonces, row, decided, spent>>

Onward(r) == CASE request[r].goal = "challenge" -> "issuing"
              [] request[r].goal = "register" -> "selecting"
              [] OTHER -> "deciding"
(* There was no row, or its window was over when the request came.         *)
Anew(r) == request[r].seen[1] = 0 \/ request[r].came > request[r].seen[2] + Span
(* Mutant: the last attempt is one too many.                               *)
OverLimit(n) == n > Allowed
AtLimit(n) == n >= Allowed
(* It is written according to what was read: a new window, a refusal, or   *)
(* one attempt more.                                                       *)
Count(r) ==
    /\ request[r].at = "counted"
    /\ LET n == request[r].seen[1] IN
       \/ /\ Anew(r)
          /\ attempts' = 1 /\ since' = request[r].came /\ crowd' = Cardinality(Counting)
          /\ Moves(r, Onward(r))
       \/ /\ ~Anew(r) /\ AtLimit(n)
          /\ Moves(r, "refused")
          /\ UNCHANGED throttle
       \/ /\ ~Anew(r) /\ ~AtLimit(n)
          /\ attempts' = attempts + 1
          /\ Moves(r, Onward(r))
          /\ UNCHANGED <<since, crowd>>
    /\ UNCHANGED <<hour, nonces, row, decided, spent>>

(* The nonce is new, and in store when it is answered.                     *)
IssueChallenge(r, n) ==
    /\ request[r].at = "issuing" /\ n \notin nonces \cup spent
    /\ nonces' = nonces \cup {n}
    /\ Moves(r, "issued")
    /\ UNCHANGED <<hour, throttle, row, decided, spent>>

SelectChallenge(r) ==
    /\ request[r].at = "selecting"
    /\ request' = [request EXCEPT ![r].at = "deleting", ![r].found = request[r].nonce \in nonces,
                                  ![r].late = request[r].nonce \in spent]
    /\ UNCHANGED <<hour, throttle, nonces, row, decided, spent>>

(* Mutant: a nonce is deleted only when it was put to use.                 *)
DeleteIfSigned(r) ==
    /\ request[r].at = "deleting"
    /\ nonces' = IF request[r].signed THEN nonces \ {request[r].nonce} ELSE nonces
    /\ spent' = spent \cup {request[r].nonce}
    /\ Moves(r, IF request[r].found /\ request[r].signed THEN "saving" ELSE "refused")
    /\ UNCHANGED <<hour, throttle, row, decided>>
(* Whether or not the rest succeeds.                                       *)
DeleteChallenge(r) ==
    /\ request[r].at = "deleting"
    /\ nonces' = nonces \ {request[r].nonce}
    /\ spent' = spent \cup {request[r].nonce}
    /\ Moves(r, IF request[r].found /\ request[r].signed THEN "saving" ELSE "refused")
    /\ UNCHANGED <<hour, throttle, row, decided>>

(* Everyone under way sees what is true now.                               *)
Seen(now) == [r \in Request |-> [request[r] EXCEPT
                 !.could = IF @ = {} THEN @ ELSE @ \cup {Truth(now)}]]

(* Mutant: the row is written anew.                                        *)
ReplaceInstallation(r) ==
    /\ request[r].at = "saving"
    /\ row' = "active"
    /\ request' = [request EXCEPT ![r].at = "deciding"]
    /\ UNCHANGED <<hour, throttle, nonces, decided, spent>>
(* Inserted, or given a new token: a block survives it.                    *)
SaveInstallation(r) ==
    /\ request[r].at = "saving"
    /\ row' = IF row = "none" THEN "active" ELSE row
    /\ request' = [request EXCEPT ![r].at = "deciding"]
    /\ UNCHANGED <<hour, throttle, nonces, decided, spent>>

(* Mutant: the answer given to this request's predecessor.                 *)
DecideFromCache(r) ==
    /\ request[r].at = "deciding"
    /\ \E known \in {Truth(row)} \cup {request[q].answer : q \in Request} :
          /\ known # "none"
          /\ request' = [request EXCEPT ![r].at = "answered", ![r].answer = known]
    /\ UNCHANGED <<hour, throttle, nonces, row, decided, spent>>
(* verdictFor: the block is read last.                                     *)
Decide(r) ==
    /\ request[r].at = "deciding"
    /\ request' = [request EXCEPT ![r].at = "answered", ![r].answer = Truth(row)]
    /\ UNCHANGED <<hour, throttle, nonces, row, decided, spent>>

(* An administrator: the installation has to be there.                     *)
AdminDecides(to) ==
    /\ row # "none"
    /\ row' = to /\ decided' = to
    /\ request' = Seen(to)
    /\ UNCHANGED <<hour, throttle, nonces, spent>>

(* Challenges lapse, and are pruned when one is asked for.                 *)
HourPasses ==
    /\ hour < MaxHour /\ hour' = hour + 1
    /\ nonces' \in {nonces, {}}
    /\ UNCHANGED <<throttle, row, request, decided, spent>>

WorkerNext ==
    \/ \E r \in Request :
          \/ \E n \in Nonce : IssueChallenge(r, n) \/ \E signed \in BOOLEAN : ArriveToRegister(r, n, signed)
          \/ ArriveToBeChallenged(r) \/ ArriveToVerify(r) \/ ReadCount(r) \/ Count(r) \/ SelectChallenge(r)
          \/ DeleteChallenge(r) \/ SaveInstallation(r) \/ Decide(r)
    \/ \E to \in {"active", "blocked"} : AdminDecides(to)
    \/ HourPasses

WorkerSpec == WorkerInit /\ [][WorkerNext]_workerVars
-----------------------------------------------------------------------------
(* An answer was true at a moment between the request and the answer:      *)
(* nobody is told `active' who was blocked when he asked and still is, and *)
(* a block lifted before he asked is not repeated to him (verdictFor).     *)
AnswersAreCurrent ==
    \A r \in Request : request[r].at = "answered" => request[r].answer \in request[r].could

(* Whatever registers meanwhile, the record says what an administrator     *)
(* decided last: registering again is no way out of a block.               *)
BlocksSurvive == row # "none" => row = decided

(* A nonce presented once, in vain or not, is of no use to a request that  *)
(* looks for it later, although it came before it was spent.               *)
SpentIsSpent ==
    \A r \in Request : request[r].late => request[r].at \notin {"saving", "deciding", "answered"}

(* A window lets through what it allows, and no more than one more for     *)
(* each other request that was in the throttle at once: every statement    *)
(* between a count read and a count written is worth one attempt           *)
(* (worker.ts:66, :75).  Those that begin it anew together count as one.   *)
AllowedPerWindow == attempts <= (Allowed - 1) + crowd

(* worker.ts:184: a nonce cannot be tried twice with different claims.     *)
NonceIsSingleUse ==
    \A q, r \in Request :
        /\ q # r /\ request[q].nonce = request[r].nonce
        /\ request[q].nonce # "none"
        => ~({request[q].at, request[r].at} \subseteq {"saving", "deciding", "answered"})

(* What the Worker's statements add up to, with others between them: an    *)
(* answer was true while it was asked for, a block stays, a nonce is spent, *)
(* and a window lets only so many through.                                 *)
WorkerHolds == AnswersAreCurrent /\ BlocksSurvive /\ SpentIsSpent /\ AllowedPerWindow
=============================================================================
