------------------------- MODULE HostSessionsProofs -------------------------
(***************************************************************************)
(* Proofs about HostSessions for any number of links and viewers: the      *)
(* state of a session stays together, the capture window outlives media,   *)
(* no handshake keeps an attempt, no stranger is let in, and a revoked     *)
(* grant stays revoked.                                                    *)
(***************************************************************************)
EXTENDS HostSessions, TLAPS

USE SessionsAssumption, HelloAssumption

-----------------------------------------------------------------------------
(* What holds of each link: of the link, the Map, the peer connection and  *)
(* the attempt together.  Beyond SessionsHoldTogether and AttemptsComeBack *)
(* it says which links may be closed or have a peer connection at all.     *)
LinkInv ==
    \A l \in Link :
       /\ l \in sessions => l \notin closed /\ phase[l] \in Starting \cup Media
       /\ phase[l] \in Media <=> l \in sessions /\ l \in peers
       /\ l \in peers => phase[l] \in Media \cup {"over"}
       /\ phase[l] \in {"idle", "hello", "challenged", "asking"} => l \notin closed
       /\ l \in held => phase[l] \in {"hashing", "challenged"}
       /\ phase[l] = "hashing" => hello[l].kind = "code"
       /\ phase[l] \in Handshaking => grant[l] = "none"

(* Approval is never forgotten, and everything a viewer can come in with   *)
(* without being asked about - trust, a grant, a challenge answered on the *)
(* strength of either - has it behind it.                                  *)
Approved(v) == standing[v] # "stranger"

ApprovalInv ==
    /\ \A v \in trusted : Approved(v)
    /\ \A l \in Link :
         \/ grant[l] # "none"
         \/ l \in sessions
         \/ phase[l] = "challenged" /\ hello[l].kind \in {"paired", "grant"}
         => Approved(hello[l].viewer)

IInv ==
    /\ TypeOK
    /\ LinkInv
    /\ WindowOutlivesMedia
    /\ ApprovalInv
-----------------------------------------------------------------------------
(* One step per operation, grouped by what it may disturb.                 *)

(* acceptLink up to the hello.                                             *)
LEMMA ArriveStep ==
    ASSUME IInv, NEW l \in Link, Arrive(l)
    PROVE  IInv'
<1>1. TypeOK'
  BY DEF IInv, TypeOK, Arrive, Dropped, Hello, Kind, GrantState, Phase, Handshaking,
     Starting, Media
<1>2. LinkInv'
  BY DEF IInv, TypeOK, LinkInv, Arrive, Dropped, Phase, Handshaking, Starting, Media
<1>3. WindowOutlivesMedia'
  BY <1>2 DEF IInv, TypeOK, LinkInv, WindowOutlivesMedia, Arrive, Dropped,
     Phase, Handshaking, Starting, Media
<1>4. ApprovalInv'
  BY DEF IInv, TypeOK, LinkInv, ApprovalInv, Approved, Arrive, Dropped,
     Handshaking, Starting, Media
<1>5. QED BY <1>1, <1>2, <1>3, <1>4 DEF IInv

(* A hello refused.                                                        *)
LEMMA RefuseHelloStep ==
    ASSUME IInv, NEW l \in Link, RefuseHello(l)
    PROVE  IInv'
<1>1. TypeOK'
  BY DEF IInv, TypeOK, RefuseHello, Dropped, Hello, Kind, GrantState, Phase, Handshaking,
     Starting, Media
<1>2. LinkInv'
  BY DEF IInv, TypeOK, LinkInv, RefuseHello, Dropped, Phase, Handshaking, Starting, Media
<1>3. WindowOutlivesMedia'
  BY <1>2 DEF IInv, TypeOK, LinkInv, WindowOutlivesMedia, RefuseHello, Dropped,
     Phase, Handshaking, Starting, Media
<1>4. ApprovalInv'
  BY DEF IInv, TypeOK, LinkInv, ApprovalInv, Approved, RefuseHello, Dropped,
     Handshaking, Starting, Media
<1>5. QED BY <1>1, <1>2, <1>3, <1>4 DEF IInv

(* A handshake that times out or proves nothing.                           *)
LEMMA HandshakeFailsStep ==
    ASSUME IInv, NEW l \in Link, HandshakeFails(l)
    PROVE  IInv'
<1>1. TypeOK'
  BY DEF IInv, TypeOK, HandshakeFails, Dropped, Hello, Kind, GrantState, Phase, Handshaking,
     Starting, Media
<1>2. LinkInv'
  BY DEF IInv, TypeOK, LinkInv, HandshakeFails, Dropped, Phase, Handshaking, Starting, Media
<1>3. WindowOutlivesMedia'
  BY <1>2 DEF IInv, TypeOK, LinkInv, WindowOutlivesMedia, HandshakeFails, Dropped,
     Phase, Handshaking, Starting, Media
<1>4. ApprovalInv'
  BY DEF IInv, TypeOK, LinkInv, ApprovalInv, Approved, HandshakeFails, Dropped,
     Handshaking, Starting, Media
<1>5. QED BY <1>1, <1>2, <1>3, <1>4 DEF IInv

(* A hello accepted on trust, on a grant or on the account.                *)
LEMMA HelloRecognisedStep ==
    ASSUME IInv, NEW l \in Link, NEW v \in Viewer, NEW k \in Kind, NEW g \in Link \cup {NoGrant}, HelloRecognised(l, v, k, g)
    PROVE  IInv'
<1>1. TypeOK'
  BY DEF IInv, TypeOK, HelloRecognised, Recognised, Hello, Kind, GrantState, Phase, Handshaking,
     Starting, Media
<1>2. LinkInv'
  BY DEF IInv, TypeOK, LinkInv, HelloRecognised, Recognised, Phase, Handshaking, Starting, Media
<1>3. WindowOutlivesMedia'
  BY <1>2 DEF IInv, TypeOK, LinkInv, WindowOutlivesMedia, HelloRecognised, Recognised,
     Phase, Handshaking, Starting, Media
<1>4. ApprovalInv'
  <2>1. /\ phase[l] = "hello" /\ grant[l] = "none" /\ l \notin sessions
        /\ UNCHANGED <<grant, sessions, standing, trusted>>
        /\ \A m \in Link \ {l} : hello'[m] = hello[m] /\ phase'[m] = phase[m]
        /\ hello'[l].viewer = v /\ hello'[l].kind = k
    BY DEF IInv, TypeOK, LinkInv, HelloRecognised, Starting, Media
  <2>2. k \in {"paired", "grant"} => Approved(v)
    BY DEF HelloRecognised, Recognised, IInv, ApprovalInv
  <2>3. QED BY <2>1, <2>2 DEF IInv, ApprovalInv, Approved
<1>5. QED BY <1>1, <1>2, <1>3, <1>4 DEF IInv

(* A hello that takes an attempt.                                          *)
LEMMA HelloWithCodeStep ==
    ASSUME IInv, NEW l \in Link, NEW v \in Viewer, HelloWithCode(l, v)
    PROVE  IInv'
<1>1. TypeOK'
  BY DEF IInv, TypeOK, HelloWithCode, Hello, Kind, GrantState, Phase, Handshaking,
     Starting, Media
<1>2. LinkInv'
  BY DEF IInv, TypeOK, LinkInv, HelloWithCode, Phase, Handshaking, Starting, Media
<1>3. WindowOutlivesMedia'
  BY <1>2 DEF IInv, TypeOK, LinkInv, WindowOutlivesMedia, HelloWithCode,
     Phase, Handshaking, Starting, Media
<1>4. ApprovalInv'
  <2>1. /\ phase[l] = "hello" /\ grant[l] = "none" /\ l \notin sessions
        /\ UNCHANGED <<grant, sessions, standing, trusted>>
        /\ \A m \in Link \ {l} : hello'[m] = hello[m] /\ phase'[m] = phase[m]
        /\ phase'[l] = "hashing"
    BY DEF IInv, TypeOK, LinkInv, HelloWithCode, Starting, Media
  <2>2. QED BY <2>1 DEF IInv, ApprovalInv, Approved
<1>5. QED BY <1>1, <1>2, <1>3, <1>4 DEF IInv

(* The code is hashed.                                                     *)
LEMMA HashedStep ==
    ASSUME IInv, NEW l \in Link, Hashed(l)
    PROVE  IInv'
<1>1. TypeOK'
  BY DEF IInv, TypeOK, Hashed, Dropped, Hello, Kind, GrantState, Phase, Handshaking,
     Starting, Media
<1>2. LinkInv'
  BY DEF IInv, TypeOK, LinkInv, Hashed, Dropped, Phase, Handshaking, Starting, Media
<1>3. WindowOutlivesMedia'
  BY <1>2 DEF IInv, TypeOK, LinkInv, WindowOutlivesMedia, Hashed, Dropped,
     Phase, Handshaking, Starting, Media
<1>4. ApprovalInv'
  <2>1. /\ UNCHANGED <<grant, sessions, standing, trusted, hello>>
        /\ \A m \in Link : phase'[m] = "challenged" => phase[m] = "challenged" \/ m = l
    BY DEF IInv, TypeOK, Hashed, Dropped
  <2>2. hello[l].kind \notin {"paired", "grant"}
    BY DEF Hashed, IInv, LinkInv
  <2>3. QED BY <2>1, <2>2 DEF IInv, ApprovalInv, Approved
<1>5. QED BY <1>1, <1>2, <1>3, <1>4 DEF IInv

(* ... or cannot be.                                                       *)
LEMMA HashFailsStep ==
    ASSUME IInv, NEW l \in Link, HashFails(l)
    PROVE  IInv'
<1>1. TypeOK'
  BY DEF IInv, TypeOK, HashFails, Dropped, Hello, Kind, GrantState, Phase, Handshaking,
     Starting, Media
<1>2. LinkInv'
  BY DEF IInv, TypeOK, LinkInv, HashFails, Dropped, Phase, Handshaking, Starting, Media
<1>3. WindowOutlivesMedia'
  BY <1>2 DEF IInv, TypeOK, LinkInv, WindowOutlivesMedia, HashFails, Dropped,
     Phase, Handshaking, Starting, Media
<1>4. ApprovalInv'
  BY DEF IInv, TypeOK, LinkInv, ApprovalInv, Approved, HashFails, Dropped,
     Handshaking, Starting, Media
<1>5. QED BY <1>1, <1>2, <1>3, <1>4 DEF IInv

(* The viewer proved itself.                                               *)
LEMMA ConfirmStep ==
    ASSUME IInv, NEW l \in Link, Confirm(l)
    PROVE  IInv'
<1>1. TypeOK'
  BY DEF IInv, TypeOK, Confirm, Admit, Hello, Kind, GrantState, Phase, Handshaking,
     Starting, Media
<1>2. LinkInv'
  BY DEF IInv, TypeOK, LinkInv, Confirm, Admit, Phase, Handshaking, Starting, Media
<1>3. WindowOutlivesMedia'
  BY <1>2 DEF IInv, TypeOK, LinkInv, WindowOutlivesMedia, Confirm, Admit,
     Phase, Handshaking, Starting, Media
<1>4. ApprovalInv'
  <2>1. /\ phase[l] = "challenged" /\ hello[l].kind \in Kind
        /\ UNCHANGED <<standing, trusted, hello>>
        /\ \A m \in Link : phase'[m] = "challenged" => phase[m] = "challenged" /\ m # l
    BY DEF IInv, TypeOK, Hello, Confirm, Admit
  <2>2. CASE hello[l].kind \in {"code", "account"}
    <3>1. UNCHANGED <<grant, sessions>>
      BY <2>2 DEF Confirm
    <3>2. QED BY <2>1, <3>1 DEF IInv, ApprovalInv, Approved
  <2>3. CASE hello[l].kind \in {"paired", "grant"}
    <3>1. Admit(l)
      BY <2>3 DEF Confirm
    <3>2. Approved(hello[l].viewer)
      BY <2>1, <2>3 DEF IInv, ApprovalInv
    <3>3. /\ sessions' = sessions \cup {l}
          /\ \A m \in Link : grant'[m] # "none" => grant[m] # "none" \/ m = l
      BY <3>1 DEF Admit, IInv, TypeOK
    <3>4. QED BY <2>1, <3>2, <3>3 DEF IInv, ApprovalInv, Approved
  <2>4. QED BY <2>1, <2>2, <2>3 DEF Kind
<1>5. QED BY <1>1, <1>2, <1>3, <1>4 DEF IInv

(* The person says yes.                                                    *)
LEMMA AllowStep ==
    ASSUME IInv, NEW l \in Link, NEW trust \in BOOLEAN, Allow(l, trust)
    PROVE  IInv'
<1>1. TypeOK'
  BY DEF IInv, TypeOK, Allow, Admit, Hello, Kind, GrantState, Phase, Handshaking,
     Starting, Media
<1>2. LinkInv'
  BY DEF IInv, TypeOK, LinkInv, Allow, Admit, Phase, Handshaking, Starting, Media
<1>3. WindowOutlivesMedia'
  BY <1>2 DEF IInv, TypeOK, LinkInv, WindowOutlivesMedia, Allow, Admit,
     Phase, Handshaking, Starting, Media
<1>4. ApprovalInv'
  <2>1. /\ hello' = hello /\ hello[l].viewer \in Viewer
        /\ \A m \in Link : phase'[m] = "challenged" => phase[m] = "challenged"
        /\ \A m \in Link : grant'[m] # "none" => grant[m] # "none" \/ m = l
        /\ sessions' = sessions \cup {l}
    BY DEF IInv, TypeOK, Hello, Allow, Admit
  <2>2. /\ trusted' \subseteq trusted \cup {hello[l].viewer}
        /\ standing' = [standing EXCEPT ![hello[l].viewer] = "approved"]
    BY DEF Allow
  <2>3. Approved(hello[l].viewer)' /\ \A v : Approved(v) => Approved(v)'
    BY <2>1, <2>2 DEF Approved, IInv, TypeOK
  <2>4. QED BY <2>1, <2>2, <2>3 DEF IInv, ApprovalInv, Approved
<1>5. QED BY <1>1, <1>2, <1>3, <1>4 DEF IInv

(* The person says no, or nothing.                                         *)
LEMMA RejectStep ==
    ASSUME IInv, NEW l \in Link, Reject(l)
    PROVE  IInv'
<1>1. TypeOK'
  BY DEF IInv, TypeOK, Reject, Dropped, Hello, Kind, GrantState, Phase, Handshaking,
     Starting, Media
<1>2. LinkInv'
  BY DEF IInv, TypeOK, LinkInv, Reject, Dropped, Phase, Handshaking, Starting, Media
<1>3. WindowOutlivesMedia'
  BY <1>2 DEF IInv, TypeOK, LinkInv, WindowOutlivesMedia, Reject, Dropped,
     Phase, Handshaking, Starting, Media
<1>4. ApprovalInv'
  BY DEF IInv, TypeOK, LinkInv, ApprovalInv, Approved, Reject, Dropped,
     Handshaking, Starting, Media
<1>5. QED BY <1>1, <1>2, <1>3, <1>4 DEF IInv

(* The peer connection is created: the window ...                          *)
LEMMA OpenWindowStep ==
    ASSUME IInv, NEW l \in Link, OpenWindow(l)
    PROVE  IInv'
<1>1. TypeOK'
  BY DEF IInv, TypeOK, OpenWindow, Attach, Hello, Kind, GrantState, Phase, Handshaking,
     Starting, Media
<1>2. LinkInv'
  BY DEF IInv, TypeOK, LinkInv, OpenWindow, Attach, Phase, Handshaking, Starting, Media
<1>3. WindowOutlivesMedia'
  BY <1>2 DEF IInv, TypeOK, LinkInv, WindowOutlivesMedia, OpenWindow, Attach,
     Phase, Handshaking, Starting, Media
<1>4. ApprovalInv'
  BY DEF IInv, TypeOK, LinkInv, ApprovalInv, Approved, OpenWindow, Attach,
     Handshaking, Starting, Media
<1>5. QED BY <1>1, <1>2, <1>3, <1>4 DEF IInv

(* ... that is ready ...                                                   *)
LEMMA WindowReadyStep ==
    ASSUME IInv, NEW l \in Link, WindowReady(l)
    PROVE  IInv'
<1>1. TypeOK'
  BY DEF IInv, TypeOK, WindowReady, Attach, Hello, Kind, GrantState, Phase, Handshaking,
     Starting, Media
<1>2. LinkInv'
  BY DEF IInv, TypeOK, LinkInv, WindowReady, Attach, Phase, Handshaking, Starting, Media
<1>3. WindowOutlivesMedia'
  BY <1>2 DEF IInv, TypeOK, LinkInv, WindowOutlivesMedia, WindowReady, Attach,
     Phase, Handshaking, Starting, Media
<1>4. ApprovalInv'
  BY DEF IInv, TypeOK, LinkInv, ApprovalInv, Approved, WindowReady, Attach,
     Handshaking, Starting, Media
<1>5. QED BY <1>1, <1>2, <1>3, <1>4 DEF IInv

(* ... or never is.                                                        *)
LEMMA CreateFailsStep ==
    ASSUME IInv, NEW l \in Link, CreateFails(l)
    PROVE  IInv'
<1>1. TypeOK'
  BY DEF IInv, TypeOK, CreateFails, RevokeViewers, Stored, Hello, Kind, GrantState, Phase, Handshaking,
     Starting, Media
<1>2. LinkInv'
  BY DEF IInv, TypeOK, LinkInv, CreateFails, RevokeViewers, Stored, Phase, Handshaking, Starting, Media
<1>3. WindowOutlivesMedia'
  BY <1>2 DEF IInv, TypeOK, LinkInv, WindowOutlivesMedia, CreateFails, RevokeViewers, Stored,
     Phase, Handshaking, Starting, Media
<1>4. ApprovalInv'
  BY DEF IInv, TypeOK, LinkInv, ApprovalInv, Approved, CreateFails, RevokeViewers, Stored,
     Handshaking, Starting, Media
<1>5. QED BY <1>1, <1>2, <1>3, <1>4 DEF IInv

(* Media flows.                                                            *)
LEMMA MediaConnectedStep ==
    ASSUME IInv, NEW l \in Link, MediaConnected(l)
    PROVE  IInv'
<1>1. TypeOK'
  BY DEF IInv, TypeOK, MediaConnected, Hello, Kind, GrantState, Phase, Handshaking,
     Starting, Media
<1>2. LinkInv'
  BY DEF IInv, TypeOK, LinkInv, MediaConnected, Phase, Handshaking, Starting, Media
<1>3. WindowOutlivesMedia'
  BY <1>2 DEF IInv, TypeOK, LinkInv, WindowOutlivesMedia, MediaConnected,
     Phase, Handshaking, Starting, Media
<1>4. ApprovalInv'
  BY DEF IInv, TypeOK, LinkInv, ApprovalInv, Approved, MediaConnected,
     Handshaking, Starting, Media
<1>5. QED BY <1>1, <1>2, <1>3, <1>4 DEF IInv

(* A session ends at this end.                                             *)
LEMMA EndSessionStep ==
    ASSUME IInv, NEW l \in Link, EndSession(l)
    PROVE  IInv'
<1>1. TypeOK'
  BY DEF IInv, TypeOK, EndSession, Ended, WindowAfter, RevokeViewers, Stored, Hello, Kind, GrantState, Phase, Handshaking,
     Starting, Media
<1>2. LinkInv'
  BY DEF IInv, TypeOK, LinkInv, EndSession, Ended, WindowAfter, RevokeViewers, Stored, Phase, Handshaking, Starting, Media
<1>3. WindowOutlivesMedia'
  BY <1>2 DEF IInv, TypeOK, LinkInv, WindowOutlivesMedia, EndSession, Ended, WindowAfter, RevokeViewers, Stored,
     Phase, Handshaking, Starting, Media
<1>4. ApprovalInv'
  BY DEF IInv, TypeOK, LinkInv, ApprovalInv, Approved, EndSession, Ended, WindowAfter, RevokeViewers, Stored,
     Handshaking, Starting, Media
<1>5. QED BY <1>1, <1>2, <1>3, <1>4 DEF IInv

(* A link closes at the other end.                                         *)
LEMMA LeaveStep ==
    ASSUME IInv, NEW l \in Link, Leave(l)
    PROVE  IInv'
<1>1. TypeOK'
  BY DEF IInv, TypeOK, Leave, Dropped, Ended, WindowAfter, Hello, Kind, GrantState, Phase, Handshaking,
     Starting, Media
<1>2. LinkInv'
  BY DEF IInv, TypeOK, LinkInv, Leave, Dropped, Ended, WindowAfter, Phase, Handshaking, Starting, Media
<1>3. WindowOutlivesMedia'
  BY <1>2 DEF IInv, TypeOK, LinkInv, WindowOutlivesMedia, Leave, Dropped, Ended, WindowAfter,
     Phase, Handshaking, Starting, Media
<1>4. ApprovalInv'
  BY DEF IInv, TypeOK, LinkInv, ApprovalInv, Approved, Leave, Dropped, Ended, WindowAfter,
     Handshaking, Starting, Media
<1>5. QED BY <1>1, <1>2, <1>3, <1>4 DEF IInv

(* A device is no longer trusted.                                          *)
LEMMA RevokeTrustStep ==
    ASSUME IInv, NEW v \in Viewer, RevokeTrust(v)
    PROVE  IInv'
<1>1. TypeOK'
  BY DEF IInv, TypeOK, RevokeTrust, Ended, WindowAfter, RevokeViewers, ViewersOf, Stored, Hello, Kind, GrantState, Phase, Handshaking,
     Starting, Media
<1>2. LinkInv'
  BY DEF IInv, TypeOK, LinkInv, RevokeTrust, Ended, WindowAfter, RevokeViewers, ViewersOf, Stored, Phase, Handshaking, Starting, Media
<1>3. WindowOutlivesMedia'
  BY <1>2 DEF IInv, TypeOK, LinkInv, WindowOutlivesMedia, RevokeTrust, Ended, WindowAfter, RevokeViewers, ViewersOf, Stored,
     Phase, Handshaking, Starting, Media
<1>4. ApprovalInv'
  BY DEF IInv, TypeOK, LinkInv, ApprovalInv, Approved, RevokeTrust, Ended, WindowAfter, RevokeViewers, ViewersOf, Stored,
     Handshaking, Starting, Media
<1>5. QED BY <1>1, <1>2, <1>3, <1>4 DEF IInv

(* The host stops, switched off or found blocked.                          *)
LEMMA StopStep ==
    ASSUME IInv, NEW allowed \in BOOLEAN, Stop, permitted' = allowed
    PROVE  IInv'
<1>1. TypeOK'
  BY DEF IInv, TypeOK, Stop, WindowAfter, Stored, Hello, Kind, GrantState, Phase, Handshaking,
     Starting, Media
<1>2. LinkInv'
  BY DEF IInv, TypeOK, LinkInv, Stop, WindowAfter, Stored, Phase, Handshaking, Starting, Media
<1>3. WindowOutlivesMedia'
  BY <1>2 DEF IInv, TypeOK, LinkInv, WindowOutlivesMedia, Stop, WindowAfter, Stored,
     Phase, Handshaking, Starting, Media
<1>4. ApprovalInv'
  BY DEF IInv, TypeOK, LinkInv, ApprovalInv, Approved, Stop, WindowAfter, Stored,
     Handshaking, Starting, Media
<1>5. QED BY <1>1, <1>2, <1>3, <1>4 DEF IInv

(* The host starts; permission, grants and trust come and go.              *)
LEMMA StartStep ==
    ASSUME IInv, Start \/ PermissionChanges
    PROVE  IInv'
<1>1. TypeOK'
  BY DEF IInv, TypeOK, Start, PermissionChanges, Hello, Kind, GrantState, Phase, Handshaking,
     Starting, Media
<1>2. LinkInv'
  BY DEF IInv, TypeOK, LinkInv, Start, PermissionChanges, Phase, Handshaking, Starting, Media
<1>3. WindowOutlivesMedia'
  BY <1>2 DEF IInv, TypeOK, LinkInv, WindowOutlivesMedia, Start, PermissionChanges,
     Phase, Handshaking, Starting, Media
<1>4. ApprovalInv'
  BY DEF IInv, TypeOK, LinkInv, ApprovalInv, Approved, Start, PermissionChanges,
     Handshaking, Starting, Media
<1>5. QED BY <1>1, <1>2, <1>3, <1>4 DEF IInv

(* Grants and trust lapse.                                                 *)
LEMMA LapseStep ==
    ASSUME IInv, \/ \E g \in Link : GrantLapses(g)
           \/ \E v \in Viewer : TrustLapses(v)
    PROVE  IInv'
<1>1. TypeOK'
  BY DEF IInv, TypeOK, GrantLapses, TrustLapses, Hello, Kind, GrantState, Phase, Handshaking,
     Starting, Media
<1>2. LinkInv'
  BY DEF IInv, TypeOK, LinkInv, GrantLapses, TrustLapses, Phase, Handshaking, Starting, Media
<1>3. WindowOutlivesMedia'
  BY <1>2 DEF IInv, TypeOK, LinkInv, WindowOutlivesMedia, GrantLapses, TrustLapses,
     Phase, Handshaking, Starting, Media
<1>4. ApprovalInv'
  BY DEF IInv, TypeOK, LinkInv, ApprovalInv, Approved, GrantLapses, TrustLapses,
     Handshaking, Starting, Media
<1>5. QED BY <1>1, <1>2, <1>3, <1>4 DEF IInv
-----------------------------------------------------------------------------
(* The invariant holds initially and no step leaves it.                    *)
LEMMA InitInv == Init => IInv
<1> SUFFICES ASSUME Init
             PROVE  IInv
  OBVIOUS
<1>1. TypeOK
  BY DEF Init, TypeOK, Hello, GrantState, Phase, Handshaking, Starting, Media
<1>2. LinkInv /\ WindowOutlivesMedia
  BY DEF Init, LinkInv, WindowOutlivesMedia, Handshaking, Starting, Media
<1>3. ApprovalInv
  BY DEF Init, ApprovalInv, Approved
<1>4. QED BY <1>1, <1>2, <1>3 DEF IInv

LEMMA NextInv == IInv /\ [Next]_vars => IInv'
<1> SUFFICES ASSUME IInv, [Next]_vars
             PROVE  IInv'
  OBVIOUS
<1>1. ASSUME NEW l \in Link, Handshake(l)
      PROVE  IInv'
  BY <1>1, ArriveStep, RefuseHelloStep, HandshakeFailsStep, HelloRecognisedStep,
     HelloWithCodeStep, HashedStep, HashFailsStep, ConfirmStep, AllowStep, RejectStep
  DEF Handshake
<1>2. ASSUME NEW l \in Link, Session(l)
      PROVE  IInv'
  BY <1>2, OpenWindowStep, WindowReadyStep, CreateFailsStep, MediaConnectedStep,
     EndSessionStep, LeaveStep
  DEF Session
<1>3. CASE SwitchOff
  <2>1. permitted' \in BOOLEAN
    BY <1>3 DEF SwitchOff, IInv, TypeOK
  <2>2. QED BY <1>3, <2>1, StopStep DEF SwitchOff
<1>4. CASE BlockedCheck
  BY <1>4, StopStep DEF BlockedCheck
<1>5. CASE UNCHANGED vars
  BY <1>5 DEF vars, IInv, TypeOK, LinkInv, WindowOutlivesMedia, ApprovalInv, Approved
<1>6. QED
  BY <1>1, <1>2, <1>3, <1>4, <1>5, RevokeTrustStep, StartStep, LapseStep DEF Next

LEMMA Invariance == Spec => []IInv
  BY InitInv, NextInv, PTL DEF Spec

(* Every reachable state is well typed, for any set of links and viewers.  *)
THEOREM TypeCorrect == Spec => []TypeOK
<1>1. IInv => TypeOK
  BY DEF IInv
<1>2. QED BY <1>1, Invariance, PTL

(* The sessions Map, the links, acceptLink and the peer connections agree  *)
(* on which sessions there are, whatever ends one and whenever it does.    *)
THEOREM SessionsStayTogether == Spec => []SessionsHoldTogether
<1>1. IInv => SessionsHoldTogether
  BY DEF IInv, LinkInv, SessionsHoldTogether, TypeOK
<1>2. QED BY <1>1, Invariance, PTL

(* closeHostWindowIfIdle never closes the capture window under a session   *)
(* whose media runs in it.                                                 *)
THEOREM WindowStaysForMedia == Spec => []WindowOutlivesMedia
<1>1. IInv => WindowOutlivesMedia
  BY DEF IInv
<1>2. QED BY <1>1, Invariance, PTL

(* Every handshake that ended has settled its attempt, however it ended.   *)
THEOREM AttemptsReturned == Spec => []AttemptsComeBack
<1>1. IInv => AttemptsComeBack
  BY DEF IInv, LinkInv, AttemptsComeBack, TypeOK
<1>2. QED BY <1>1, Invariance, PTL

(* No way in admits a viewer the person here never said yes to.            *)
THEOREM StrangersStayOut == Spec => []NoStrangers
<1>1. IInv => NoStrangers
  BY DEF IInv, ApprovalInv, Approved, NoStrangers, TypeOK
<1>2. QED BY <1>1, Invariance, PTL

(* Extending a grant never brings a revoked one back.                      *)
LEMMA RevokedStep ==
    ASSUME IInv, [Next]_vars, NEW g \in Link, grant[g] = "revoked"
    PROVE  grant'[g] = "revoked"
<1>1. ASSUME NEW l \in Link, Handshake(l)
      PROVE  grant'[g] = "revoked"
  <2>1. CASE \E w \in Viewer, k \in Kind, p \in Link \cup {NoGrant} : HelloRecognised(l, w, k, p)
    BY <2>1 DEF HelloRecognised
  <2>2. CASE Confirm(l)
    BY <2>2 DEF Confirm, Admit, IInv, TypeOK, LinkInv, Handshaking
  <2>3. CASE \E trust \in BOOLEAN : Allow(l, trust)
    BY <2>3 DEF Allow, Admit, IInv, TypeOK, LinkInv, Handshaking
  <2>4. CASE RefuseHello(l)
    BY <2>4 DEF RefuseHello, IInv, TypeOK
  <2>5. CASE UNCHANGED grant
    BY <2>5
  <2>6. QED
    BY <1>1, <2>1, <2>2, <2>3, <2>4, <2>5
    DEF Handshake, Arrive, HandshakeFails, HelloWithCode, Hashed, HashFails, Reject
<1>2. ASSUME NEW l \in Link, Session(l)
      PROVE  grant'[g] = "revoked"
  BY <1>2 DEF Session, OpenWindow, WindowReady, CreateFails, MediaConnected,
     EndSession, Leave, RevokeViewers, Stored, IInv, TypeOK
<1>3. CASE SwitchOff \/ BlockedCheck
  BY <1>3 DEF SwitchOff, BlockedCheck, Stop, Stored
<1>4. ASSUME NEW v \in Viewer, RevokeTrust(v) \/ TrustLapses(v)
      PROVE  grant'[g] = "revoked"
  BY <1>4 DEF RevokeTrust, TrustLapses, RevokeViewers, Stored
<1>5. ASSUME NEW l \in Link, GrantLapses(l)
      PROVE  grant'[g] = "revoked"
  BY <1>5 DEF GrantLapses, IInv, TypeOK
<1>6. QED
  BY <1>1, <1>2, <1>3, <1>4, <1>5 DEF Next, Start, PermissionChanges, vars

(* A revoked grant is revoked for good, although a resume extends what was *)
(* looked up seconds before (grants.ts extend, session.ts 283).            *)
THEOREM RevokedForGood == Spec => RevokedStaysRevoked
<1>1. IInv /\ [Next]_vars =>
        [\A g \in Link : grant[g] = "revoked" => grant'[g] = "revoked"]_vars
  BY RevokedStep
<1>2. QED BY <1>1, Invariance, PTL DEF Spec, RevokedStaysRevoked

(* The Map, the links, the attempts and the window never part company      *)
(* (host.ts:276-375), whoever acts at an await.                            *)
THEOREM SessionsStayUp == Spec => []SessionsStand
<1>1. IInv => SessionsStand
  <2> SUFFICES ASSUME IInv PROVE SessionsStand
    OBVIOUS
  <2>1. SessionsHoldTogether
    BY DEF IInv, LinkInv, SessionsHoldTogether, TypeOK
  <2>2. AttemptsComeBack
    BY DEF IInv, LinkInv, AttemptsComeBack, TypeOK
  <2>3. QED BY <2>1, <2>2 DEF IInv, SessionsStand
<1>2. QED BY <1>1, Invariance, PTL
=============================================================================
