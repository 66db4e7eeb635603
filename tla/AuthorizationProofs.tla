------------------------- MODULE AuthorizationProofs -------------------------
(***************************************************************************)
(* Who may be connected to, for any number of checks, requests, calls and  *)
(* changes.  Each part of MCAuthorization has an inductive invariant of    *)
(* its own; AuthorizationInv joins those of the installation and of the    *)
(* account client, and what is proved of the worker does not ask in which  *)
(* order its requests come.                                                *)
(*                                                                         *)
(* The worker.  What is true now counts for every request under way        *)
(* (NowCounts), a spent nonce is not in store (SpentIsGone), and the       *)
(* attempts that will yet be added are no more than there are requests in  *)
(* the throttle (CountsAreBounded).                                        *)
(*                                                                         *)
(* The installation.  A verdict carries the moment of its decision by the  *)
(* service's clock (Said), which bounds its age; and where no two checks   *)
(* overlap, a block that was heard is in memory, on disk and in every      *)
(* answer still to be taken (BlockIsKnown), so that none contradicts it.   *)
(***************************************************************************)
EXTENDS MCAuthorization, FiniteSetTheorems, TLAPS

-----------------------------------------------------------------------------
(* The worker.                                                             *)

WorkStep == {"none", "arrived", "counted", "issuing", "issued", "selecting", "deleting", "saving",
             "deciding", "refused", "answered"}
Goals == {"none", "challenge", "register", "verify"}
WorkRec ==
    [at : WorkStep, goal : Goals, came : Nat, nonce : Nonce \cup {"none"}, signed : BOOLEAN, seen : Nat \X Nat,
     found : BOOLEAN, late : BOOLEAN, could : SUBSET {"active", "blocked"},
     answer : {"none", "active", "blocked"}]

WorkerTypes ==
    /\ hour \in Nat /\ attempts \in Nat /\ since \in Nat
    /\ row \in {"none", "active", "blocked"}
    /\ decided \in {"active", "blocked"}
    /\ request \in [Request -> WorkRec]

(* The record says what was decided, which to begin with is not to block.  *)
RecordStands == IF row = "none" THEN decided = "active" ELSE row = decided

(* What is true now was true since any request came that is under way.     *)
NowCounts == \A r \in Request : request[r].at # "none" => Truth(row) \in request[r].could

(* A nonce that is spent is not in store and cannot be found.              *)
SpentIsGone ==
    /\ nonces \cap spent = {}
    /\ \A r \in Request : request[r].late =>
          /\ request[r].at \in {"deleting", "refused"}
          /\ request[r].at = "deleting" => ~request[r].found

(* Of those in the throttle, the ones that will add an attempt.            *)
Adding == {r \in Counting : request[r].at = "counted" /\ ~Anew(r) /\ ~AtLimit(request[r].seen[1])}
CountsAreBounded ==
    /\ IsFiniteSet(Counting) /\ crowd \in Nat /\ Cardinality(Counting) <= crowd
    /\ attempts + Cardinality(Adding) <= (Allowed - 1) + crowd

WorkerInv == WorkerTypes /\ RecordStands /\ NowCounts /\ AnswersAreCurrent /\ SpentIsGone
             /\ CountsAreBounded

LEMMA UnsentIsWork ==
    /\ Unsent \in WorkRec /\ Unsent.at = "none" /\ ~Unsent.late
BY DEF Unsent, WorkRec, WorkStep, Goals

LEMMA WorkerInitInv == WorkerInit => WorkerInv
<1> SUFFICES ASSUME WorkerInit PROVE WorkerInv
    OBVIOUS
<1>1. request = [r \in Request |-> Unsent] /\ \A r \in Request : request[r] = Unsent
    BY DEF WorkerInit
<1>2. WorkerTypes
    BY <1>1, UnsentIsWork DEF WorkerInit, WorkerTypes
<1>3. RecordStands /\ NowCounts /\ AnswersAreCurrent
    BY <1>1, UnsentIsWork DEF WorkerInit, RecordStands, NowCounts, AnswersAreCurrent
<1>4. SpentIsGone
    BY <1>1, UnsentIsWork DEF WorkerInit, SpentIsGone
<1>5. Counting = {} /\ Adding = {}
    BY <1>1, UnsentIsWork DEF Counting, Adding
<1>6. CountsAreBounded
    BY <1>5, FS_EmptySet, WorkerAssumption DEF WorkerInit, CountsAreBounded
<1> QED
    BY <1>2, <1>3, <1>4, <1>6 DEF WorkerInv

(* Where nobody in the throttle is moved, nothing is added.                *)
LEMMA NobodyCounts ==
    ASSUME CountsAreBounded, UNCHANGED throttle, Counting' = Counting,
           \A q \in Counting : /\ request'[q].at = request[q].at /\ request'[q].seen = request[q].seen
                                /\ request'[q].came = request[q].came
    PROVE  CountsAreBounded'
<1>1. Adding' = Adding
    BY DEF Adding, Anew, AtLimit
<1> QED
    BY <1>1 DEF CountsAreBounded, throttle

(* A request that moves keeps what it holds, but for a field or two.       *)
LEMMA Moved ==
    ASSUME WorkerTypes, NEW r \in Request, NEW to \in WorkRec,
           request' = [request EXCEPT ![r] = to]
    PROVE  /\ request' \in [Request -> WorkRec]
           /\ request'[r] = to
           /\ \A q \in Request \ {r} : request'[q] = request[q]
BY DEF WorkerTypes

LEMMA MovedAt ==
    ASSUME WorkerTypes, NEW r \in Request, NEW at \in WorkStep, Moves(r, at)
    PROVE  /\ request' \in [Request -> WorkRec]
           /\ request'[r].at = at
           /\ request'[r].nonce = request[r].nonce /\ request'[r].signed = request[r].signed
           /\ request'[r].seen = request[r].seen /\ request'[r].found = request[r].found
           /\ request'[r].late = request[r].late /\ request'[r].could = request[r].could
           /\ request'[r].answer = request[r].answer
           /\ \A q \in Request \ {r} : request'[q] = request[q]
BY DEF WorkerTypes, Moves, WorkRec

LEMMA RequestArrives ==
    ASSUME WorkerInv, NEW r \in Request, NEW goal \in Goals, NEW n \in Nonce \cup {"none"},
           NEW byKey \in BOOLEAN, Arrives(r, goal, n, byKey)
    PROVE  WorkerInv'
<1> USE WorkerAssumption DEF WorkerInv
<1>1. /\ UNCHANGED <<hour, attempts, since, nonces, row, decided, spent>>
      /\ request[r] = Unsent
    BY DEF Arrives
<1> DEFINE to == [Unsent EXCEPT !.at = "arrived", !.goal = goal, !.came = hour,
                                !.nonce = n, !.signed = byKey, !.could = {Truth(row)}]
<1>2. /\ to \in WorkRec /\ to.at = "arrived" /\ to.could = {Truth(row)} /\ ~to.late
    BY DEF Unsent, WorkRec, WorkStep, Truth, WorkerTypes
<1>3. request' = [request EXCEPT ![r] = to]
    BY DEF Arrives
<1> HIDE DEF to
<1>4. /\ request' \in [Request -> WorkRec] /\ request'[r] = to
      /\ \A q \in Request \ {r} : request'[q] = request[q]
    BY <1>2, <1>3, Moved
<1>5. WorkerTypes' /\ RecordStands'
    BY <1>1, <1>4 DEF WorkerTypes, RecordStands
<1>6. NowCounts' /\ AnswersAreCurrent'
    BY <1>1, <1>2, <1>4 DEF NowCounts, AnswersAreCurrent
<1>7. SpentIsGone'
    BY <1>1, <1>2, <1>4 DEF SpentIsGone
<1>8. CountsAreBounded'
    <2>1. Counting' = Counting \cup {r} /\ r \notin Counting
        BY <1>1, <1>2, <1>4, UnsentIsWork DEF Counting
    <2>2. Adding' = Adding
        BY <1>2, <1>4, <2>1 DEF Adding, Counting, Anew, AtLimit
    <2>3. /\ IsFiniteSet(Counting') /\ Cardinality(Counting') = Cardinality(Counting) + 1
          /\ Cardinality(Counting) \in Nat
        BY <2>1, FS_AddElement, FS_CardinalityType DEF CountsAreBounded
    <2>4. Adding \subseteq Counting
        BY DEF Adding
    <2>5. Cardinality(Adding) \in Nat
        BY <2>4, FS_Subset, FS_CardinalityType DEF CountsAreBounded
    <2>6. crowd' \in Nat /\ Cardinality(Counting') <= crowd' /\ crowd <= crowd'
        BY <2>3 DEF Arrives, CountsAreBounded
    <2> QED
        BY <1>1, <2>2, <2>3, <2>5, <2>6 DEF CountsAreBounded, WorkerTypes
<1> QED
    BY <1>5, <1>6, <1>7, <1>8

(* The row is read.                                                        *)
LEMMA ReadKeeps ==
    ASSUME WorkerInv, NEW r \in Request, ReadCount(r)
    PROVE  WorkerInv'
<1> USE WorkerAssumption DEF WorkerInv
<1>1. UNCHANGED <<hour, throttle, nonces, row, decided, spent>> /\ request[r].at = "arrived"
    BY DEF ReadCount
<1>0. request[r] \in WorkRec /\ <<attempts, since>> \in Nat \X Nat
    BY DEF WorkerTypes
<1>2. PICK w \in WorkRec :
        /\ request' = [request EXCEPT ![r] = w]
        /\ w.at = "counted" /\ w.seen = <<attempts, since>>
        /\ w.could = request[r].could /\ w.late = request[r].late
    <2> DEFINE w == [request[r] EXCEPT !.at = "counted", !.seen = <<attempts, since>>]
    <2>1. w \in WorkRec
        BY <1>0 DEF WorkRec, WorkStep
    <2>2. request' = [request EXCEPT ![r] = w]
        BY DEF ReadCount, WorkerTypes
    <2>3. /\ w.at = "counted" /\ w.seen = <<attempts, since>>
          /\ w.could = request[r].could /\ w.late = request[r].late
        BY DEF WorkRec, WorkerTypes
    <2> QED
        BY <2>1, <2>2, <2>3
<1>3. /\ request' \in [Request -> WorkRec] /\ request'[r] = w
      /\ \A q \in Request \ {r} : request'[q] = request[q]
    BY <1>2, Moved
<1>4. WorkerTypes' /\ RecordStands'
    BY <1>1, <1>3 DEF WorkerTypes, RecordStands, throttle
<1>5. NowCounts' /\ AnswersAreCurrent'
    BY <1>1, <1>2, <1>3 DEF NowCounts, AnswersAreCurrent
<1>6. SpentIsGone'
    BY <1>1, <1>2, <1>3 DEF SpentIsGone
<1>7. CountsAreBounded'
    <2>1. Counting' = Counting
        BY <1>1, <1>2, <1>3 DEF Counting
    <2>2. Adding \subseteq Counting /\ Adding' \subseteq Counting /\ r \notin Adding
        BY <1>1, <2>1 DEF Adding
    <2>3. \A q \in Request \ {r} : q \in Adding' <=> q \in Adding
        BY <1>3, <2>1 DEF Adding, Anew, AtLimit
    <2>4. /\ IsFiniteSet(Adding) /\ IsFiniteSet(Adding') /\ Cardinality(Adding) \in Nat
          /\ Cardinality(Adding') \in Nat /\ Cardinality(Adding') <= Cardinality(Counting)
          /\ Cardinality(Counting) \in Nat
        BY <2>2, FS_Subset, FS_CardinalityType DEF CountsAreBounded
    <2>5. Counting \subseteq Request
        BY DEF Counting
    <2>6. CASE r \in Adding'
        <3>1. attempts < Allowed /\ attempts \in Nat
            BY <1>2, <1>3, <2>6 DEF Adding, Anew, AtLimit, WorkerTypes
        <3> QED
            BY <1>1, <2>1, <2>4, <3>1 DEF CountsAreBounded, throttle
    <2>7. CASE r \notin Adding'
        <3>1. Adding' = Adding
            BY <2>2, <2>3, <2>5, <2>7
        <3> QED
            BY <1>1, <2>1, <3>1 DEF CountsAreBounded, throttle
    <2> QED
        BY <2>6, <2>7
<1> QED
    BY <1>4, <1>5, <1>6, <1>7

(* A step of a request that leaves the record and the throttle alone.      *)
LEMMA RequestSteps ==
    ASSUME WorkerInv, NEW r \in Request, NEW w \in WorkRec,
           request' = [request EXCEPT ![r] = w],
           request[r].at \notin {"none", "arrived", "counted"}, w.at \notin {"none", "arrived", "counted"},
           w.could = request[r].could, w.at = "answered" => w.answer = Truth(row),
           UNCHANGED <<hour, throttle, row, decided>>, SpentIsGone'
    PROVE  WorkerInv'
<1> USE DEF WorkerInv
<1>1. /\ request' \in [Request -> WorkRec] /\ request'[r] = w
      /\ \A q \in Request \ {r} : request'[q] = request[q]
    BY Moved
<1>2. WorkerTypes' /\ RecordStands'
    BY <1>1 DEF WorkerTypes, RecordStands, throttle
<1>3. NowCounts' /\ AnswersAreCurrent'
    BY <1>1 DEF NowCounts, AnswersAreCurrent
<1>4. Counting' = Counting /\ \A q \in Counting : request'[q] = request[q]
    BY <1>1 DEF Counting
<1>5. CountsAreBounded'
    BY <1>4, NobodyCounts
<1> QED
    BY <1>2, <1>3, <1>5

LEMMA SelectKeeps ==
    ASSUME WorkerInv, NEW r \in Request, SelectChallenge(r)
    PROVE  WorkerInv'
<1> USE DEF WorkerInv
<1> DEFINE n == request[r].nonce
<1>1. request[r] \in WorkRec /\ request[r].at = "selecting"
    BY DEF SelectChallenge, WorkerTypes
<1>2. PICK found \in BOOLEAN, late \in BOOLEAN : found = (n \in nonces) /\ late = (n \in spent)
    <2>1. ASSUME NEW S PROVE \E b \in BOOLEAN : b = (n \in S)
        <3>1. CASE n \in S
            <4>1. TRUE = (n \in S)
                BY <3>1, Zenon
            <4> QED
                BY <4>1, Zenon
        <3>2. CASE ~(n \in S)
            <4>1. FALSE = (n \in S)
                BY <3>2, SMT
            <4> QED
                BY <4>1, Zenon
        <3> QED
            BY <3>1, <3>2, Zenon
    <2> QED
        BY <2>1, Zenon
<1> DEFINE w == [request[r] EXCEPT !.at = "deleting", !.found = found, !.late = late]
<1>3. /\ w \in WorkRec /\ w.at = "deleting" /\ w.could = request[r].could
      /\ w.found = found /\ w.late = late
    BY <1>1 DEF WorkRec, WorkStep
<1>4. request' = [request EXCEPT ![r] = w]
    <2>1. request' = [request EXCEPT ![r].at = "deleting", ![r].found = found, ![r].late = late]
        BY <1>2, Zenon DEF SelectChallenge
    <2> QED
        BY <2>1 DEF WorkerTypes
<1>5. UNCHANGED <<hour, throttle, nonces, row, decided, spent>>
    BY DEF SelectChallenge
<1> HIDE DEF w
<1>6. late => ~found
    <2>1. n \in spent => n \notin nonces
        BY DEF SpentIsGone
    <2> QED
        BY <1>2, <2>1, Zenon
<1>7. request'[r] = w /\ \A q \in Request \ {r} : request'[q] = request[q]
    BY <1>3, <1>4, Moved
<1>8. SpentIsGone'
    BY <1>3, <1>5, <1>6, <1>7 DEF SpentIsGone
<1> QED
    BY <1>1, <1>3, <1>4, <1>5, <1>8, RequestSteps

LEMMA StepsKeep ==
    ASSUME WorkerInv, NEW r \in Request,
           DeleteChallenge(r) \/ Decide(r) \/ \E n \in Nonce : IssueChallenge(r, n)
    PROVE  WorkerInv'
<1> USE DEF WorkerInv
<1>1. request[r] \in WorkRec
    BY DEF WorkerTypes
<1>2. CASE DeleteChallenge(r)
    <2>1. PICK next \in {"saving", "refused"} :
            Moves(r, next) /\ (next = "saving" => request[r].found)
        BY <1>2 DEF DeleteChallenge
    <2>2. /\ request[r].at = "deleting" /\ nonces' = nonces \ {request[r].nonce}
          /\ spent' = spent \cup {request[r].nonce} /\ UNCHANGED <<hour, throttle, row, decided>>
        BY <1>2 DEF DeleteChallenge
    <2> DEFINE w == [request[r] EXCEPT !.at = next]
    <2>3. /\ w \in WorkRec /\ w.at = next /\ w.could = request[r].could /\ w.late = request[r].late
        BY <1>1 DEF WorkRec, WorkStep
    <2>4. request' = [request EXCEPT ![r] = w]
        BY <2>1 DEF Moves, WorkerTypes
    <2> HIDE DEF w
    <2>5. request'[r] = w /\ \A q \in Request \ {r} : request'[q] = request[q]
        BY <2>3, <2>4, Moved
    <2>6. SpentIsGone'
        BY <2>1, <2>2, <2>3, <2>5 DEF SpentIsGone
    <2> QED
        BY <2>2, <2>3, <2>4, <2>6, RequestSteps
<1>3. CASE Decide(r)
    <2> DEFINE w == [request[r] EXCEPT !.at = "answered", !.answer = Truth(row)]
    <2>1. /\ w \in WorkRec /\ w.at = "answered" /\ w.answer = Truth(row)
          /\ w.could = request[r].could /\ w.late = request[r].late
        BY <1>1 DEF WorkRec, WorkStep, Truth
    <2>2. /\ request' = [request EXCEPT ![r] = w] /\ request[r].at = "deciding"
          /\ UNCHANGED <<hour, throttle, nonces, row, decided, spent>>
        BY <1>3 DEF Decide, WorkerTypes
    <2> HIDE DEF w
    <2>3. request'[r] = w /\ \A q \in Request \ {r} : request'[q] = request[q]
        BY <2>1, <2>2, Moved
    <2>4. SpentIsGone'
        BY <2>1, <2>2, <2>3 DEF SpentIsGone
    <2> QED
        BY <2>1, <2>2, <2>4, RequestSteps
<1>4. ASSUME NEW n \in Nonce, IssueChallenge(r, n) PROVE WorkerInv'
    <2> DEFINE w == [request[r] EXCEPT !.at = "issued"]
    <2>1. /\ w \in WorkRec /\ w.at = "issued" /\ w.could = request[r].could /\ w.late = request[r].late
        BY <1>1 DEF WorkRec, WorkStep
    <2>2. /\ request' = [request EXCEPT ![r] = w] /\ request[r].at = "issuing"
          /\ UNCHANGED <<hour, throttle, row, decided, spent>>
          /\ nonces' = nonces \cup {n} /\ n \notin spent
        BY <1>4 DEF IssueChallenge, Moves, WorkerTypes
    <2> HIDE DEF w
    <2>3. request'[r] = w /\ \A q \in Request \ {r} : request'[q] = request[q]
        BY <2>1, <2>2, Moved
    <2>4. SpentIsGone'
        BY <2>1, <2>2, <2>3 DEF SpentIsGone
    <2> QED
        BY <2>1, <2>2, <2>4, RequestSteps
<1> QED
    BY <1>2, <1>3, <1>4

LEMMA CountKeeps ==
    ASSUME WorkerInv, NEW r \in Request, Count(r)
    PROVE  WorkerInv'
<1> USE WorkerAssumption DEF WorkerInv
<1>1. request[r].at = "counted" /\ UNCHANGED <<hour, nonces, row, decided, spent>>
    BY DEF Count
<1>2. request[r] \in WorkRec /\ request[r].seen[1] \in Nat /\ request[r].came \in Nat
    BY DEF WorkerTypes, WorkRec
<1>3. PICK next \in WorkStep : Moves(r, next) /\ next \notin {"none", "arrived", "counted", "answered"}
    <2>1. Onward(r) \in {"issuing", "selecting", "deciding"}
        BY DEF Onward
    <2> QED
        BY <2>1 DEF Count, WorkStep
<1>4. /\ request' \in [Request -> WorkRec]
      /\ request'[r].at = next /\ request'[r].late = request[r].late
      /\ request'[r].could = request[r].could
      /\ \A q \in Request \ {r} : request'[q] = request[q]
    BY <1>3, MovedAt
<1>5. /\ attempts' \in Nat /\ since' \in Nat
    BY <1>2 DEF Count, WorkerTypes, throttle
<1>6. WorkerTypes' /\ RecordStands'
    BY <1>1, <1>4, <1>5 DEF WorkerTypes, RecordStands
<1>7. NowCounts' /\ AnswersAreCurrent'
    BY <1>1, <1>3, <1>4 DEF NowCounts, AnswersAreCurrent
<1>8. SpentIsGone'
    BY <1>1, <1>3, <1>4 DEF SpentIsGone
<1>9. CountsAreBounded'
    <2>1. Counting' = Counting \ {r} /\ r \in Counting
        BY <1>1, <1>3, <1>4 DEF Counting
    <2>2. Adding' = Adding \ {r} /\ Adding' \subseteq Counting' /\ Adding \subseteq Counting
        BY <1>4, <2>1 DEF Adding, Counting, Anew, AtLimit
    <2>3. /\ IsFiniteSet(Counting') /\ Cardinality(Counting') = Cardinality(Counting) - 1
          /\ Cardinality(Counting) \in Nat /\ Cardinality(Counting') \in Nat
        BY <2>1, FS_RemoveElement, FS_CardinalityType DEF CountsAreBounded
    <2>4. /\ IsFiniteSet(Adding) /\ Cardinality(Adding) \in Nat /\ Cardinality(Adding') \in Nat
          /\ Cardinality(Adding') <= Cardinality(Counting')
          /\ Cardinality(Adding') = IF r \in Adding THEN Cardinality(Adding) - 1 ELSE Cardinality(Adding)
        BY <2>2, <2>3, FS_Subset, FS_RemoveElement, FS_CardinalityType DEF CountsAreBounded
    <2>5. CASE Anew(r)
        <3>1. attempts' = 1 /\ crowd' = Cardinality(Counting)
            BY <2>5 DEF Count
        <3> QED
            BY <2>3, <2>4, <3>1 DEF CountsAreBounded
    <2>6. CASE ~Anew(r) /\ AtLimit(request[r].seen[1])
        <3>1. attempts' = attempts /\ crowd' = crowd /\ r \notin Adding
            BY <2>6 DEF Count, throttle, Adding
        <3> QED
            BY <2>3, <2>4, <3>1 DEF CountsAreBounded, WorkerTypes
    <2>7. CASE ~Anew(r) /\ ~AtLimit(request[r].seen[1])
        <3>1. attempts' = attempts + 1 /\ crowd' = crowd /\ r \in Adding
            BY <1>1, <2>1, <2>7 DEF Count, Adding
        <3> QED
            BY <2>3, <2>4, <3>1 DEF CountsAreBounded, WorkerTypes
    <2> QED
        BY <2>5, <2>6, <2>7
<1> QED
    BY <1>6, <1>7, <1>8, <1>9

LEMMA SaveKeeps ==
    ASSUME WorkerInv, NEW r \in Request, SaveInstallation(r)
    PROVE  WorkerInv'
<1> USE WorkerAssumption DEF WorkerInv
<1>1. /\ request[r].at = "saving" /\ Moves(r, "deciding")
      /\ UNCHANGED <<hour, throttle, nonces, decided, spent>>
      /\ row' = IF row = "none" THEN "active" ELSE row
    BY DEF SaveInstallation, Moves
<1>2. /\ request' \in [Request -> WorkRec]
      /\ request'[r].at = "deciding" /\ request'[r].late = request[r].late
      /\ request'[r].nonce = request[r].nonce /\ request'[r].could = request[r].could
      /\ \A q \in Request \ {r} : request'[q] = request[q]
    BY <1>1, MovedAt DEF WorkStep
<1>3. Truth(row') = Truth(row)
    BY <1>1 DEF Truth
<1>4. WorkerTypes' /\ RecordStands'
    BY <1>1, <1>2 DEF WorkerTypes, RecordStands, throttle
<1>5. NowCounts' /\ AnswersAreCurrent'
    BY <1>1, <1>2, <1>3 DEF NowCounts, AnswersAreCurrent
<1>6. SpentIsGone'
    BY <1>1, <1>2 DEF SpentIsGone
<1>7. Counting' = Counting /\ \A q \in Counting : request'[q] = request[q]
    BY <1>1, <1>2 DEF Counting
<1>8. CountsAreBounded'
    BY <1>1, <1>7, NobodyCounts
<1> QED
    BY <1>4, <1>5, <1>6, <1>8

LEMMA AdminKeeps ==
    ASSUME WorkerInv, NEW to \in {"active", "blocked"}, AdminDecides(to)
    PROVE  WorkerInv'
<1> USE DEF WorkerInv
<1>1. /\ row' = to /\ decided' = to /\ UNCHANGED <<hour, throttle, nonces, spent>>
      /\ request' = Seen(to)
    BY DEF AdminDecides
<1>2. ASSUME NEW q \in Request
      PROVE  /\ request'[q] \in WorkRec
             /\ request'[q].at = request[q].at /\ request'[q].nonce = request[q].nonce
             /\ request'[q].late = request[q].late /\ request'[q].found = request[q].found
             /\ request'[q].seen = request[q].seen /\ request'[q].answer = request[q].answer
             /\ request'[q].came = request[q].came
             /\ request[q].could \subseteq request'[q].could
             /\ request[q].could # {} => Truth(to) \in request'[q].could
    <2>1. request[q] \in WorkRec /\ Truth(to) \in {"active", "blocked"}
        BY DEF WorkerTypes, Truth
    <2>2. request'[q] = [request[q] EXCEPT !.could = IF @ = {} THEN @ ELSE @ \cup {Truth(to)}]
        BY <1>1 DEF Seen
    <2> QED
        BY <2>1, <2>2 DEF WorkRec
<1>3. request' \in [Request -> WorkRec]
    BY <1>1, <1>2 DEF Seen
<1>4. WorkerTypes' /\ RecordStands'
    BY <1>1, <1>3 DEF WorkerTypes, RecordStands, throttle
<1>5. NowCounts' /\ AnswersAreCurrent'
    BY <1>1, <1>2 DEF NowCounts, AnswersAreCurrent
<1>6. SpentIsGone'
    BY <1>1, <1>2 DEF SpentIsGone
<1>7. Counting' = Counting
    BY <1>2 DEF Counting
<1>8. CountsAreBounded'
    BY <1>1, <1>2, <1>7, NobodyCounts DEF Counting
<1> QED
    BY <1>4, <1>5, <1>6, <1>8

LEMMA WorkerKeeps ==
    ASSUME WorkerInv, [WorkerNext]_workerVars
    PROVE  WorkerInv'
<1>1. CASE UNCHANGED workerVars
    <2>1. UNCHANGED <<hour, throttle, nonces, row, request, decided, spent>>
        BY <1>1 DEF workerVars
    <2>2. Counting' = Counting
        BY <2>1 DEF Counting
    <2>3. CountsAreBounded'
        BY <2>1, <2>2, NobodyCounts DEF WorkerInv
    <2> QED
        BY <2>1, <2>3 DEF WorkerInv, WorkerTypes, throttle, RecordStands, NowCounts, AnswersAreCurrent,
                          SpentIsGone
<1>2. CASE HourPasses
    <2>1. /\ UNCHANGED <<throttle, row, request, decided, spent>>
          /\ hour' \in Nat /\ nonces' \cap spent = {}
        BY <1>2 DEF HourPasses, WorkerInv, WorkerTypes, SpentIsGone
    <2>2. Counting' = Counting
        BY <2>1 DEF Counting
    <2>3. CountsAreBounded'
        BY <2>1, <2>2, NobodyCounts DEF WorkerInv
    <2> QED
        BY <2>1, <2>3 DEF WorkerInv, WorkerTypes, throttle, RecordStands, NowCounts, AnswersAreCurrent,
                          SpentIsGone
<1>3. ASSUME NEW r \in Request, NEW n \in Nonce, NEW byKey \in BOOLEAN,
             ArriveToRegister(r, n, byKey) \/ ArriveToVerify(r) \/ ArriveToBeChallenged(r)
      PROVE  WorkerInv'
    BY <1>3, RequestArrives DEF ArriveToRegister, ArriveToVerify, ArriveToBeChallenged, Goals
<1>4. ASSUME NEW r \in Request, ArriveToVerify(r) \/ ArriveToBeChallenged(r) PROVE WorkerInv'
    BY <1>4, RequestArrives DEF ArriveToVerify, ArriveToBeChallenged, Goals
<1> QED
    BY <1>1, <1>2, <1>3, <1>4, ReadKeeps, SelectKeeps, StepsKeep, CountKeeps, SaveKeeps, AdminKeeps
       DEF WorkerNext

LEMMA WorkerIsRight == WorkerInv => WorkerHolds
<1> SUFFICES ASSUME WorkerInv PROVE WorkerHolds
    OBVIOUS
<1>1. AnswersAreCurrent /\ BlocksSurvive /\ SpentIsSpent
    BY DEF WorkerInv, RecordStands, BlocksSurvive, SpentIsGone, SpentIsSpent
<1>2. Cardinality(Adding) \in Nat
    BY FS_Subset, FS_CardinalityType DEF WorkerInv, CountsAreBounded, Adding
<1>3. AllowedPerWindow
    BY <1>2, WorkerAssumption DEF WorkerInv, WorkerTypes, CountsAreBounded, AllowedPerWindow
<1> QED
    BY <1>1, <1>3 DEF WorkerHolds

-----------------------------------------------------------------------------
(* The installation.                                                       *)

(* What the service says, and what it said earlier, is true by its clock.  *)
Said(v) ==
    /\ v.status \in {"none", "active", "blocked"}
    /\ v.at \in Int /\ v.until \in Int /\ v.decided \in Int
    /\ v.status = "active" => v.at = v.decided + skew

Heeded == {"registered", "storing", "answered"}
CheckStep == {"idle", "registering", "verifying"} \cup Heeded

AuthTypes ==
    /\ clock \in Nat /\ skew \in Int /\ grace \in Nat
    /\ disabled \in BOOLEAN /\ heard \in BOOLEAN /\ mishap \in BOOLEAN
    /\ check = [c \in Check |-> check[c]]
    /\ \A c \in Check :
          /\ check[c] = [at |-> check[c].at, token |-> check[c].token, verdict |-> check[c].verdict]
          /\ check[c].at \in CheckStep

AllSaid == Said(cached) /\ Said(file) /\ \A c \in Check : Said(check[c].verdict)

OneAtATime == ~mishap => \A c, d \in Check : check[c] # Resting /\ check[d] # Resting => c = d

(* A block that was heard is in memory, on disk and in every answer that   *)
(* is still to be taken.                                                   *)
BlockIsKnown ==
    heard /\ ~mishap =>
        /\ disabled
        /\ cached.status = "blocked" /\ file.status = "blocked"
        /\ \A c \in Check : check[c].at \in Heeded => check[c].verdict.status = "blocked"

AuthInv == AuthTypes /\ AllSaid /\ OneAtATime /\ BlockIsKnown

LEMMA Rest ==
    /\ Resting = [at |-> Resting.at, token |-> Resting.token, verdict |-> Resting.verdict]
    /\ Resting.at = "idle" /\ Said(Resting.verdict) /\ Said(NoVerdict)
BY DEF Resting, NoVerdict, Said

LEMMA Given ==
    ASSUME AuthTypes
    PROVE  Said(Verdict) /\ (disabled => Verdict.status = "blocked")
<1>1. CASE disabled
    BY <1>1 DEF Verdict, NoVerdict, Said
<1>2. CASE ~disabled
    <2>1. Verdict = [status |-> "active", at |-> clock + skew, until |-> clock + skew + grace,
                     decided |-> clock]
        BY <1>2 DEF Verdict
    <2>2. /\ Verdict.status = "active" /\ Verdict.at = clock + skew
          /\ Verdict.until = clock + skew + grace /\ Verdict.decided = clock
        BY <2>1
    <2> QED
        BY <1>2, <2>2 DEF AuthTypes, Said
<1> QED
    BY <1>1, <1>2

LEMMA AuthInitInv == AuthInit => AuthInv
<1> SUFFICES ASSUME AuthInit PROVE AuthInv
    OBVIOUS
<1>1. \A c \in Check : check[c] = Resting
    BY DEF AuthInit
<1>2. skew \in Int /\ grace \in Nat /\ clock \in Nat
    BY AuthorizationAssumption DEF AuthInit
<1>3. disabled \in BOOLEAN /\ heard \in BOOLEAN /\ mishap \in BOOLEAN
    BY Zenon DEF AuthInit
<1>4. check = [c \in Check |-> check[c]]
    BY DEF AuthInit
<1>5. AuthTypes
    BY <1>1, <1>2, <1>3, <1>4, Rest DEF AuthTypes, CheckStep
<1>6. AllSaid
    BY <1>1, Rest DEF AuthInit, AllSaid
<1>7. OneAtATime /\ BlockIsKnown
    BY <1>1 DEF AuthInit, OneAtATime, BlockIsKnown
<1> QED
    BY <1>5, <1>6, <1>7 DEF AuthInv

LEMMA CheckMoved ==
    ASSUME AuthTypes, NEW c \in Check, NEW k, check' = [check EXCEPT ![c] = k],
           k = [at |-> k.at, token |-> k.token, verdict |-> k.verdict], k.at \in CheckStep
    PROVE  /\ check' = [d \in Check |-> check'[d]]
           /\ check'[c] = k
           /\ \A d \in Check \ {c} : check'[d] = check[d]
           /\ \A d \in Check :
                 /\ check'[d] = [at |-> check'[d].at, token |-> check'[d].token,
                                 verdict |-> check'[d].verdict]
                 /\ check'[d].at \in CheckStep
<1>1. check' = [d \in Check |-> IF d = c THEN k ELSE check[d]]
    BY DEF AuthTypes
<1>2. /\ check'[c] = k
      /\ \A d \in Check \ {c} : check'[d] = check[d]
    BY <1>1
<1> QED
    BY <1>1, <1>2 DEF AuthTypes

(* A check that goes on or ends, with nothing taken from it.               *)
LEMMA CheckKeeps ==
    ASSUME AuthInv, NEW c \in Check, NEW k, check' = [check EXCEPT ![c] = k],
           k = [at |-> k.at, token |-> k.token, verdict |-> k.verdict], k.at \in CheckStep,
           Said(k.verdict),
           k = Resting \/ check[c] # Resting,
           heard /\ ~mishap /\ k.at \in Heeded => k.verdict.status = "blocked",
           UNCHANGED <<clock, skew, grace, disabled, told, mishap>>
    PROVE  AuthInv'
<1> USE DEF AuthInv
<1>1. /\ check' = [d \in Check |-> check'[d]] /\ check'[c] = k
      /\ \A d \in Check \ {c} : check'[d] = check[d]
      /\ \A d \in Check :
            /\ check'[d] = [at |-> check'[d].at, token |-> check'[d].token,
                            verdict |-> check'[d].verdict]
            /\ check'[d].at \in CheckStep
    BY CheckMoved
<1>2. UNCHANGED <<clock, skew, grace, disabled, cached, file, heard, mishap>>
    BY DEF told
<1>3. AuthTypes'
    <2>1. (disabled \in BOOLEAN /\ heard \in BOOLEAN /\ mishap \in BOOLEAN)'
        BY <1>2, Zenon DEF AuthTypes
    <2> QED
        BY <1>1, <1>2, <2>1 DEF AuthTypes
<1>4. AllSaid'
    BY <1>1, <1>2 DEF AllSaid, Said
<1>5. OneAtATime'
    BY <1>1, <1>2 DEF OneAtATime
<1>6. BlockIsKnown'
    BY <1>1, <1>2 DEF BlockIsKnown
<1> QED
    BY <1>3, <1>4, <1>5, <1>6

LEMMA AcceptKeeps ==
    ASSUME AuthInv, NEW c \in Check, check[c].at \in Heeded,
           Accept(check[c].verdict), Rests(c),
           UNCHANGED <<clock, skew, grace, disabled>>
    PROVE  AuthInv'
<1> USE DEF AuthInv
<1> DEFINE v == check[c].verdict
<1>1. /\ check' = [d \in Check |-> check'[d]] /\ check'[c] = Resting
      /\ \A d \in Check \ {c} : check'[d] = check[d]
      /\ \A d \in Check :
            /\ check'[d] = [at |-> check'[d].at, token |-> check'[d].token,
                            verdict |-> check'[d].verdict]
            /\ check'[d].at \in CheckStep
    BY CheckMoved, Rest DEF Rests, CheckStep
<1>2. /\ cached' = v /\ (heard' <=> v.status = "blocked" /\ disabled)
      /\ heard' \in BOOLEAN
      /\ (file' = v /\ mishap' = mishap) \/ (file' = file /\ mishap' = TRUE)
    BY Zenon DEF Accept
<1>3. AuthTypes'
    <2>1. (disabled \in BOOLEAN /\ heard \in BOOLEAN /\ mishap \in BOOLEAN)'
        BY <1>2, Zenon DEF AuthTypes
    <2> QED
        BY <1>1, <2>1 DEF AuthTypes
<1>4. AllSaid'
    BY <1>1, <1>2, Rest DEF AllSaid, Said
<1>5. OneAtATime'
    BY <1>1, <1>2 DEF OneAtATime
<1>6. BlockIsKnown'
    <2> SUFFICES ASSUME heard', ~mishap' PROVE BlockIsKnown'
        BY DEF BlockIsKnown
    <2>1. ~mishap /\ file' = v /\ v.status = "blocked" /\ disabled
        BY <1>2
    <2>2. check[c] # Resting
        BY Rest DEF Heeded
    <2>3. \A d \in Check : check'[d] = Resting
        BY <1>1, <2>1, <2>2 DEF OneAtATime
    <2> QED
        BY <1>2, <2>1, <2>3, Rest DEF BlockIsKnown, Heeded
<1> QED
    BY <1>3, <1>4, <1>5, <1>6

LEMMA StartCheckKeeps ==
    ASSUME AuthInv, NEW c \in Check, StartCheck(c)
    PROVE  AuthInv'
<1> USE DEF AuthInv
<1>1. PICK k : /\ check' = [check EXCEPT ![c] = k]
               /\ k = [at |-> k.at, token |-> k.token, verdict |-> k.verdict]
               /\ k.at \in {"registering", "verifying"} /\ k.verdict = NoVerdict
    <2>1. PICK at \in {"registering", "verifying"} :
            check' = [check EXCEPT ![c] = [at |-> at, token |-> token', verdict |-> NoVerdict]]
        BY DEF StartCheck
    <2> DEFINE k == [at |-> at, token |-> token', verdict |-> NoVerdict]
    <2>2. k = [at |-> k.at, token |-> k.token, verdict |-> k.verdict]
          /\ k.at \in {"registering", "verifying"} /\ k.verdict = NoVerdict
        OBVIOUS
    <2> HIDE DEF k
    <2>3. check' = [check EXCEPT ![c] = k]
        BY <2>1 DEF k
    <2> QED
        BY <2>2, <2>3
<1>2. /\ check' = [d \in Check |-> check'[d]] /\ check'[c] = k
      /\ \A d \in Check \ {c} : check'[d] = check[d]
      /\ \A d \in Check :
            /\ check'[d] = [at |-> check'[d].at, token |-> check'[d].token,
                            verdict |-> check'[d].verdict]
            /\ check'[d].at \in CheckStep
    BY <1>1, CheckMoved DEF CheckStep
<1>3. /\ check[c] = Resting
      /\ UNCHANGED <<clock, skew, grace, disabled, cached, file, heard>>
      /\ mishap' = (mishap \/ \E d \in Check : check[d] # Resting)
    BY DEF StartCheck, service, told
<1>4. AuthTypes'
    <2>1. (disabled \in BOOLEAN /\ heard \in BOOLEAN /\ mishap \in BOOLEAN)'
        BY <1>3, Zenon DEF AuthTypes
    <2> QED
        BY <1>2, <1>3, <2>1 DEF AuthTypes
<1>5. AllSaid'
    BY <1>1, <1>2, <1>3, Rest DEF AllSaid, Said
<1>6. OneAtATime'
    BY <1>2, <1>3 DEF OneAtATime
<1>7. BlockIsKnown'
    BY <1>1, <1>2, <1>3 DEF BlockIsKnown, Heeded
<1> QED
    BY <1>4, <1>5, <1>6, <1>7

LEMMA CheckGoesOn ==
    ASSUME AuthInv, NEW c \in Check,
           ServiceRegisters(c) \/ ServiceVerifies(c) \/ CheckFails(c) \/ TakeToken(c)
    PROVE  AuthInv'
<1>1. PICK k :
        /\ check' = [check EXCEPT ![c] = k]
        /\ k = [at |-> k.at, token |-> k.token, verdict |-> k.verdict] /\ k.at \in CheckStep
        /\ \/ k = Resting
           \/ k.verdict = Verdict
           \/ check[c].at = "registered" /\ k.verdict = check[c].verdict
    <2>1. CASE ServiceRegisters(c)
        <3> DEFINE k == [at |-> "registered", token |-> valid', verdict |-> Verdict]
        <3>1. check' = [check EXCEPT ![c] = k]
            BY <2>1 DEF ServiceRegisters
        <3>2. k = [at |-> k.at, token |-> k.token, verdict |-> k.verdict] /\ k.at \in CheckStep
              /\ k.verdict = Verdict
            BY DEF CheckStep, Heeded
        <3> HIDE DEF k
        <3> QED
            BY <3>1, <3>2
    <2>2. CASE ServiceVerifies(c)
        <3> DEFINE k == [at |-> "answered", token |-> valid, verdict |-> Verdict]
        <3>3. check' = [check EXCEPT ![c] = k]
            BY <2>2 DEF ServiceVerifies
        <3>4. k = [at |-> k.at, token |-> k.token, verdict |-> k.verdict] /\ k.at \in CheckStep
              /\ k.verdict = Verdict
            BY DEF CheckStep, Heeded
        <3> HIDE DEF k
        <3> QED
            BY <3>3, <3>4
    <2>3. CASE CheckFails(c)
        BY <2>3, Rest DEF CheckFails, Rests, CheckStep
    <2>4. CASE TakeToken(c)
        <3> DEFINE k == [check[c] EXCEPT !.at = "storing"]
        <3>1. check[c] = [at |-> check[c].at, token |-> check[c].token, verdict |-> check[c].verdict]
            BY DEF AuthInv, AuthTypes
        <3>2. k = [at |-> "storing", token |-> check[c].token, verdict |-> check[c].verdict]
            BY <3>1
        <3> QED
            BY <2>4, <3>2 DEF TakeToken, Stands, CheckStep, Heeded
    <2> QED
        BY <2>1, <2>2, <2>3, <2>4
<1>2. Said(k.verdict)
    BY <1>1, Rest, Given DEF AuthInv, AllSaid
<1>3. k = Resting \/ check[c] # Resting
    BY Rest DEF ServiceRegisters, ServiceVerifies, CheckFails, TakeToken
<1>4. heard /\ ~mishap /\ k.at \in Heeded => k.verdict.status = "blocked"
    BY <1>1, Rest, Given DEF AuthInv, BlockIsKnown, Heeded
<1>5. UNCHANGED <<clock, skew, grace, disabled, told, mishap>>
    BY DEF ServiceRegisters, ServiceVerifies, CheckFails, TakeToken, service
<1> QED
    BY <1>1, <1>2, <1>3, <1>4, <1>5, CheckKeeps

LEMMA AuthKeeps ==
    ASSUME AuthInv, [AuthNext]_authVars
    PROVE  AuthInv'
<1> USE DEF AuthInv
<1>1. CASE UNCHANGED authVars
    BY <1>1 DEF authVars, AuthTypes, AllSaid, Said, OneAtATime, BlockIsKnown
<1>2. ASSUME NEW c \in Check, Stored(c) \/ TakeVerdict(c) PROVE AuthInv'
    <2>1. /\ check[c].at \in Heeded /\ Accept(check[c].verdict) /\ Rests(c)
          /\ UNCHANGED <<clock, skew, grace, disabled>>
        BY <1>2 DEF Stored, TakeVerdict, Heeded, service
    <2> QED
        BY <2>1, AcceptKeeps
<1>3. CASE StartAgain
    <2>1. /\ check' = [c \in Check |-> Resting] /\ cached' = file
          /\ UNCHANGED <<clock, skew, grace, disabled, file, heard, mishap>>
        BY <1>3 DEF StartAgain, service
    <2>2. AuthTypes'
        <3>1. (disabled \in BOOLEAN /\ heard \in BOOLEAN /\ mishap \in BOOLEAN)'
            BY <2>1, Zenon DEF AuthTypes
        <3> QED
            BY <2>1, <3>1, Rest DEF AuthTypes, CheckStep
    <2>3. AllSaid'
        BY <2>1, Rest DEF AllSaid, Said
    <2>4. OneAtATime' /\ BlockIsKnown'
        BY <2>1, Rest DEF OneAtATime, BlockIsKnown, Heeded
    <2> QED
        BY <2>2, <2>3, <2>4
<1>4. CASE Disable \/ Enable
    <2>1. UNCHANGED <<clock, skew, grace, cached, file, check, mishap>>
        BY <1>4 DEF Disable, Enable, told
    <2>2. \/ disabled' = TRUE /\ heard' = heard
          \/ disabled' = FALSE /\ heard' = FALSE
        BY <1>4, Zenon DEF Disable, Enable, told
    <2>3. (disabled \in BOOLEAN /\ heard \in BOOLEAN /\ mishap \in BOOLEAN)'
        BY <2>1, <2>2, Zenon DEF AuthTypes
    <2>4. AuthTypes'
        BY <2>1, <2>3 DEF AuthTypes
    <2>5. AllSaid' /\ OneAtATime'
        BY <2>1 DEF AllSaid, Said, OneAtATime
    <2>6. BlockIsKnown'
        BY <2>1, <2>2 DEF BlockIsKnown
    <2> QED
        BY <2>4, <2>5, <2>6
<1>5. CASE TimePasses
    <2>1. /\ UNCHANGED <<skew, grace, disabled, cached, file, heard, check, mishap>>
          /\ clock' \in Nat
        BY <1>5 DEF TimePasses, told, AuthTypes
    <2> QED
        BY <2>1 DEF AuthTypes, AllSaid, Said, OneAtATime, BlockIsKnown
<1> QED
    BY <1>1, <1>2, <1>3, <1>4, <1>5, StartCheckKeeps, CheckGoesOn DEF AuthNext

LEMMA TheLessOfTwo ==
    ASSUME NEW a \in Int, NEW b \in Int
    PROVE  Min({a, b}) \in {a, b} /\ Min({a, b}) <= a /\ Min({a, b}) <= b
<1>1. \E x \in {a, b} : \A y \in {a, b} : x <= y
    <2>1. CASE a <= b
        BY <2>1
    <2>2. CASE b <= a
        BY <2>2
    <2> QED
        BY <2>1, <2>2
<1> QED
    BY <1>1 DEF Min

LEMMA AuthIsRight ==
    ASSUME AuthInv
    PROVE  AuthorizationHolds
<1> USE AuthorizationAssumption DEF AuthInv
<1>1. GraceIsBounded
    <2> SUFFICES ASSUME MayHost, skew <= Slack
                 PROVE  clock - cached.decided < MaxGrace + Slack
        BY DEF GraceIsBounded, AuthTypes
    <2>1. cached.status \notin {"none", "blocked"} /\ ~(Ceiling(cached) <= clock)
        BY DEF MayHost, State
    <2>2. /\ cached.at \in Int /\ cached.until \in Int /\ cached.decided \in Int
          /\ cached.at = cached.decided + skew
        BY <2>1 DEF AllSaid, Said
    <2>3. cached.at + MaxGrace \in Int
        BY <2>2
    <2>4. Ceiling(cached) \in {cached.until, cached.at + MaxGrace}
          /\ Ceiling(cached) <= cached.at + MaxGrace
        BY <2>2, <2>3, TheLessOfTwo, Zenon DEF Ceiling
    <2> QED
        BY <2>1, <2>2, <2>4 DEF AuthTypes
<1>2. HeardBlocksHold
    BY DEF HeardBlocksHold, BlockIsKnown, MayHost, State
<1> QED
    BY <1>1, <1>2 DEF AuthorizationHolds

-----------------------------------------------------------------------------
(* The account client.                                                     *)

LEMMA AccountInitHeld == AccountInit => RelaysAreHeld
BY DEF AccountInit, RelaysAreHeld

(* Whoever gives up the token closes the relay client in the same step,    *)
(* and whoever makes one looks at the token, after the await.              *)
LEMMA AccountKeeps ==
    ASSUME RelaysAreHeld, [AccountNext]_accountVars
    PROVE  RelaysAreHeld'
<1> USE DEF RelaysAreHeld
<1>1. CASE UNCHANGED accountVars
    BY <1>1 DEF accountVars, identity, connection
<1>2. ASSUME NEW p \in Peer, NEW to \in {"absent", "pending", "away", "here"}, FleetChanges(p, to)
      PROVE  RelaysAreHeld'
    BY <1>2 DEF FleetChanges, identity
<1>3. ASSUME NEW c \in Call,
             \/ SignIn(c) \/ ServerEnrols(c) \/ Poll(c) \/ Refresh(c) \/ Listed(c)
             \/ CallFails(c) \/ SignOut(c) \/ ServerRemoves(c)
      PROVE  RelaysAreHeld'
    BY <1>3 DEF SignIn, ServerEnrols, Poll, Refresh, Ask, Listed, CallFails, SignOut, ServerRemoves,
                identity, connection
<1>4. ASSUME NEW c \in Call, Enrolled(c) \/ Erased(c) PROVE RelaysAreHeld'
    BY <1>4 DEF Enrolled, Erased, connection
<1>5. ASSUME NEW c \in Call, TakeList(c) PROVE RelaysAreHeld'
    BY <1>5 DEF TakeList, identity, connection
<1>6. ASSUME NEW c \in Call, Forget(c) PROVE RelaysAreHeld'
    BY <1>6 DEF Forget
<1>7. CASE RelayOnline \/ RelayLost \/ Presence
    BY <1>7 DEF RelayOnline, RelayLost, Presence, identity
<1>8. CASE Restart
    BY <1>8 DEF Restart
<1> QED
    BY <1>1, <1>2, <1>3, <1>4, <1>5, <1>6, <1>7, <1>8 DEF AccountNext

-----------------------------------------------------------------------------
(* The installation and the account client.                                *)
AuthorizationInv == AuthInv /\ RelaysAreHeld

LEMMA AuthorizationInvariance == Spec => []AuthorizationInv
<1>1. Init => AuthorizationInv
    BY AuthInitInv, AccountInitHeld DEF Init, AuthorizationInv
<1>2. AuthorizationInv /\ [Next]_vars => AuthorizationInv'
    <2> SUFFICES ASSUME AuthorizationInv, [Next]_vars PROVE AuthorizationInv'
        OBVIOUS
    <2>1. [AuthNext]_authVars /\ [AccountNext]_accountVars
        BY DEF Next, Asked, Served, Signed, vars
    <2> QED
        BY <2>1, AuthKeeps, AccountKeeps DEF AuthorizationInv
<1> QED
    BY <1>1, <1>2, PTL DEF Spec

(* Whatever grace the service gives and in whichever order answers come: a *)
(* permission to host ends with the ceiling, unless the clock of the       *)
(* service is out by more than is put up with; and a block that was heard  *)
(* holds until it is lifted, through restarts, unless it could not be      *)
(* written or checks overlapped so that an older answer came after it      *)
(* (authorization.ts, status and accept).                                  *)
THEOREM PermissionIsGiven == Spec => []AuthorizationHolds
<1>1. AuthorizationInv => AuthorizationHolds
    BY AuthIsRight DEF AuthorizationInv
<1> QED
    BY <1>1, AuthorizationInvariance, PTL

(* The worker, with any number of requests between two statements of one:  *)
(* an answer was true while it was asked for, a block survives whatever    *)
(* registers, a nonce presented once is not found by who looks for it      *)
(* later, and a window lets through what it allows and one more for each   *)
(* other request that was in the throttle at once (worker.ts).             *)
THEOREM AnswersStand == WorkerSpec => []WorkerHolds
<1>1. WorkerInit => WorkerInv
    BY WorkerInitInv
<1>2. WorkerInv /\ [WorkerNext]_workerVars => WorkerInv'
    BY WorkerKeeps
<1>3. WorkerInv => WorkerHolds
    BY WorkerIsRight
<1> QED
    BY <1>1, <1>2, <1>3, PTL DEF WorkerSpec

(* Sign-ins, sign-outs, lists and restarts may overlap as they like: there *)
(* is one relay client at most, and none without a token (account.ts).     *)
THEOREM RelaysAreClosed == Spec => []RelaysAreHeld
<1>1. AuthorizationInv => RelaysAreHeld
    BY DEF AuthorizationInv
<1> QED
    BY <1>1, AuthorizationInvariance, PTL
=============================================================================
