------------------------- MODULE BackstopEmissions --------------------------
(***************************************************************************)
(* How BLND emitted to a pool's backstop is shared among its depositors:   *)
(* backstop/src/emissions/distributor.rs, and set_backstop_emission_eps in *)
(* manager.rs.                                                             *)
(*                                                                         *)
(* A pool emits eps tokens a second until its expiration.  `index' is what *)
(* one share not queued for withdrawal has earned since the beginning; a   *)
(* user is owed its growth since the user's own index.                     *)
(***************************************************************************)
EXTENDS FixedPoint

CONSTANTS
    NoData,           \* a storage entry that was never written
    Scalar7,          \* 10^7
    Scalar14,         \* 10^14: decimals of eps and of the index
    EmissionPeriod    \* seven days

ASSUME EmissionAssumption ==
    /\ Scalar7 \in Nat \ {0} /\ Scalar14 = Scalar7 * Scalar7
    /\ EmissionPeriod \in Nat \ {0}

EmissionData == [eps : Nat, expiration : Nat, index : Nat, last_time : Nat]
UserEmissionData == [index : Nat, accrued : Nat]

ASSUME NoDataAssumption == NoData \notin Nat \cup EmissionData \cup UserEmissionData

\* Shares that are queued for withdrawal earn nothing.
IndexGrowth(d, b, t) ==
    LET until == IF t > d.expiration THEN d.expiration ELSE t
        unqueued == b.shares - b.q4w
    IN IF unqueued = 0 THEN 0
       ELSE DivFloor((until - d.last_time) * d.eps, unqueued, Scalar7)

\* update_emission_data: the emissions d of a pool with balance b, at time t.
Accrue(d, b, t) ==
    IF d = NoData THEN d
    ELSE IF d.last_time >= d.expiration \/ t = d.last_time \/ d.eps = 0 \/ b.shares = 0
    THEN d
    ELSE [d EXCEPT !.index = @ + IndexGrowth(d, b, t), !.last_time = t]

\* What a user with that many shares has earned and not claimed.  A user
\* without an entry held the shares since before the emissions began.
Owed(d, ue, shares) ==
    IF ue = NoData THEN MulFloor(shares, d.index, Scalar14)
    ELSE ue.accrued + MulFloor(shares, d.index - ue.index, Scalar14)

\* update_user_emissions, without and with a claim.
UpdateUser(d, ue, shares) == [index |-> d.index, accrued |-> Owed(d, ue, shares)]
ClaimUser(d) == [index |-> d.index, accrued |-> 0]

\* What the previous emissions have not emitted yet.
LeftToEmit(d, t) ==
    IF d # NoData /\ d.expiration > t
    THEN MulFloor(d.eps, d.expiration - t, Scalar7) ELSE 0

\* set_backstop_emission_eps
SetEps(d, b, tokens, t) ==
    LET accrued == Accrue(d, b, t)
    IN [eps |-> ((tokens + LeftToEmit(accrued, t)) * Scalar7) \div EmissionPeriod,
        expiration |-> t + EmissionPeriod,
        index |-> IF d = NoData THEN 0 ELSE accrued.index,
        last_time |-> t]
=============================================================================
