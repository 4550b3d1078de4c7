------------------------------ MODULE MCClaims ------------------------------
(***************************************************************************)
(* A statement of the documentation put to the code: one borrower who has  *)
(* collateral but no deposit in the asset borrowed.                        *)
(***************************************************************************)
EXTENDS MCPool

ClaimConfigs == [a \in Assets |-> [MCReserve EXCEPT !.supply_cap = 250]]

ClaimRequests ==
    [u \in Users |-> IF u = bob THEN Asks("Borrow", usdc, {5}) ELSE {}]
=============================================================================
