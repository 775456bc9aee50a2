--------------------------- MODULE PublishConsent ---------------------------
(***************************************************************************)
(* What the publishing path promises an operator, post by post: nothing    *)
(* goes out without a standing consent, consent can be revoked or the post *)
(* closed until the moment of sending, and a post that was sent, or closed *)
(* without being sent, is never sent again.                                *)
(***************************************************************************)
CONSTANT Posts

VARIABLE phase      \* of each post: draft, consented, sent, closed

Phases == {"draft", "consented", "sent", "closed"}

Init == phase = [p \in Posts |-> "draft"]

Become(p, from, to) ==
    /\ phase[p] \in from
    /\ phase' = [phase EXCEPT ![p] = to]

Consent(p) == Become(p, {"draft"}, "consented")

Revoke(p) == Become(p, {"consented"}, "draft")

Send(p) == Become(p, {"consented"}, "sent")

Close(p) == Become(p, {"draft", "consented"}, "closed")

Next == \E p \in Posts : Consent(p) \/ Revoke(p) \/ Send(p) \/ Close(p)

Spec == Init /\ [][Next]_phase
=============================================================================
