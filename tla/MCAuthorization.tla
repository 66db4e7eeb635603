--------------------------- MODULE MCAuthorization ---------------------------
(* Authorization, AuthWorker and AccountClient for TLC: a behaviour is one *)
(* of the three, and the others stay as they began.                        *)
EXTENDS Authorization, AuthWorker, AccountClient

VARIABLE part
vars == <<part, authVars, workerVars, accountVars>>

SomeSkews == {1, 2}
SomeGraces == {1, 9}

Asked(A) == part = "asked" /\ A /\ UNCHANGED <<part, workerVars, accountVars>>
Served(A) == part = "served" /\ A /\ UNCHANGED <<part, authVars, accountVars>>
Signed(A) == part = "signed" /\ A /\ UNCHANGED <<part, authVars, workerVars>>

(* Requests are alike, and so they come in one order.                      *)
InOrder == \A q, r \in Request : q < r /\ request'[r] # Unsent => request'[q] # Unsent

(* Where a part is idle its choices are fixed.                             *)
Init ==
    /\ AuthInit /\ WorkerInit /\ AccountInit
    /\ part \in {"asked", "served", "signed"}
    /\ part # "asked" => skew = 2 /\ grace = 1
    /\ part # "signed" => ~enrolled /\ fleet = Nobody

Next == Asked(AuthNext) \/ Served(WorkerNext /\ InOrder) \/ Signed(AccountNext)

(* The checks and the poll come round for ever, and now and then a request *)
(* gets through; what the client does by itself, it does.  (One part runs, *)
(* so that strong fairness of one action of each is fairness of both.)     *)
Spec ==
    /\ Init /\ [][Next]_vars
    /\ WF_vars(Asked(\E c \in Check : StartCheck(c)))
    /\ WF_vars(Asked(\E c \in Check : CheckFails(c)))
    /\ SF_vars(\/ Asked(\E c \in Check : ServiceRegisters(c))
               \/ Signed(\E c \in Call : Listed(c)))
    /\ SF_vars(\/ Asked(\E c \in Check : ServiceVerifies(c) \/ TakeToken(c))
               \/ Signed(\E c \in Call : TakeList(c)))
    /\ SF_vars(\/ Asked(\E c \in Check : Stored(c) \/ TakeVerdict(c))
               \/ Signed(\E c \in Call : Poll(c)))
    /\ WF_vars(Signed(\E c \in Call : CallFails(c) \/ Forget(c) \/ Erased(c)))

(* News arrive: that a block was lifted, and what became of the computers. *)
NewsArrives == LiftedBlocksEnd /\ ListCatchesUp
=============================================================================
