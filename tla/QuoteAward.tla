----------------------------- MODULE QuoteAward -----------------------------
(***************************************************************************)
(* What the marketplace promises about awarding business: a provider's     *)
(* offer on an RFQ is live from its submission until it is withdrawn or     *)
(* wins; an RFQ is awarded at most once, to an offer made on that RFQ and   *)
(* live at that moment; nothing is offered on an awarded RFQ; an award is   *)
(* never undone.  RfqLifecycle implements this specification.               *)
(***************************************************************************)
CONSTANTS Rfqs, Quotes, None

VARIABLES
    offer,      \* offer[t].state, and the RFQ it was made on
    winner      \* the awarded quote of each RFQ, or None

vars == <<offer, winner>>

Init ==
    /\ offer = [t \in Quotes |-> [rfq |-> None, state |-> "none"]]
    /\ winner = [r \in Rfqs |-> None]

Submit(r, t) ==
    /\ offer[t].state = "none"
    /\ winner[r] = None
    /\ offer' = [offer EXCEPT ![t] = [rfq |-> r, state |-> "live"]]
    /\ UNCHANGED winner

Withdraw(t) ==
    /\ offer[t].state = "live"
    /\ offer' = [offer EXCEPT ![t] = [rfq |-> offer[t].rfq, state |-> "withdrawn"]]
    /\ UNCHANGED winner

Award(r, t) ==
    /\ winner[r] = None
    /\ offer[t] = [rfq |-> r, state |-> "live"]
    /\ offer' = [offer EXCEPT ![t] = [rfq |-> r, state |-> "won"]]
    /\ winner' = [winner EXCEPT ![r] = t]

Next ==
    \/ \E r \in Rfqs, t \in Quotes : Submit(r, t) \/ Award(r, t)
    \/ \E t \in Quotes : Withdraw(t)

Spec == Init /\ [][Next]_vars
=============================================================================
