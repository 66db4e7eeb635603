----------------------------- MODULE OrderedLink -----------------------------
(* What the sealed control channel promises to the session: what the other  *)
(* side said, in its order, nothing twice and nothing that it did not say.  *)
(* Something may be missing, and the link may end, but a message that was   *)
(* delivered is never followed by an earlier one.                           *)
EXTENDS Naturals, Sequences

CONSTANT MaxSaid

VARIABLES
    said,           \* how many messages the other side has sealed
    delivered       \* those the session was given, in its order

LinkInit == said = 0 /\ delivered = <<>>
Say == said < MaxSaid /\ said' = said + 1 /\ UNCHANGED delivered
Newest == IF delivered = <<>> THEN 0 ELSE delivered[Len(delivered)]
Deliver ==
    /\ \E n \in (Newest + 1)..said : delivered' = Append(delivered, n)
    /\ UNCHANGED said
LinkSpec == LinkInit /\ [][Say \/ Deliver]_<<said, delivered>>
=============================================================================
