--------------------------- MODULE MCVolumeSlices ---------------------------
(* VolumeSlices with bodies that overlap, collide in opposite orders, repeat a *)
(* cell, or share none, and a caller who may not update the opportunity.      *)
EXTENDS VolumeSlices

CONSTANTS r1, r2, r3, r4, strangerOrg

Slice(cell, amount) == [cell |-> cell, currency |-> "EUR", amount |-> amount]

MCSubmission ==
    r1 :> <<Slice("a", 1), Slice("b", 1)>> @@ r2 :> <<Slice("b", 1), Slice("a", 1)>>
    @@ r3 :> <<Slice("c", 1), Slice("c", 1)>> @@ r4 :> <<Slice("a", 2)>>

MCSubmitter ==
    [r \in {r1, r2, r3, r4} |-> Actor("MERCHANT_PSP_USER", IF r = r4 THEN strangerOrg ELSE ownerOrgId)]

MCSummary == [currency |-> "EUR", offered |-> 2, movableNow |-> 0, movable30d |-> 1, movable90d |-> 2]
=============================================================================
