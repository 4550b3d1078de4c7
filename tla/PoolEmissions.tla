---------------------------- MODULE PoolEmissions ----------------------------
(***************************************************************************)
(* The lending pool with its reserve emissions: pool/src/emissions.        *)
(*                                                                         *)
(* BLND the backstop hands to the pool is streamed, per reserve token (the *)
(* d and the b token of each reserve), to the accounts that hold it.  An   *)
(* index per reserve token grows with time; every change of a position     *)
(* first settles what its account earned with the balance and the supply   *)
(* it had BEFORE the change (User::update_b/d_emissions).                  *)
(*                                                                         *)
(* A step of the pool is a step of Next together with that settlement, so  *)
(* everything that holds of the pool holds of the pool with emissions.     *)
(* One step settles without changing a balance: a liquidation is quoted on *)
(* a copy of the user's positions, and what that settles is stored.        *)
(***************************************************************************)
EXTENDS PoolProperties

CONSTANTS
    EmissionPeriod,     \* 7 days: how long gulped emissions are streamed
    NoData,             \* no entry in storage
    \* Bounds on the inputs explored.
    ClaimLists,         \* reserve tokens claimed together
    ShareSettings,      \* shares per reserve token the admin sets
    EmissionAmounts,    \* what the backstop hands over
    MaxEmitted          \* most it hands over altogether

\* reserve_token_id: 2 * index for the d token, 2 * index + 1 for the b token.
ReserveTokens == Assets \X {"d", "b"}
Holders == ReserveTokens \X Accounts

ReserveEmissionData == [expiration : Nat, eps : Nat, index : Nat, last_time : Nat]
UserEmissionData == [index : Nat, accrued : Nat]

ASSUME EmissionAssumption ==
    /\ NoData \notin ReserveEmissionData /\ NoData \notin UserEmissionData
    /\ EmissionPeriod \in Nat \ {0}
    /\ ShareSettings \subseteq [ReserveTokens -> Nat]
    /\ ClaimLists \subseteq SUBSET ReserveTokens
    /\ EmissionAmounts \subseteq Nat /\ MaxEmitted \in Nat

VARIABLES
    emissions,   \* committed emission storage, and the BLND the pool may take
    pending,     \* its working copy during a submit, or NoCall
    emitted      \* BLND handed over so far; only bounds what is explored

emissionVars == <<poolVars, emissions, pending, emitted>>

Emissions ==
    [shares : [ReserveTokens -> Nat],      \* PoolEmissions: 0 when absent
     data : [ReserveTokens -> ReserveEmissionData \cup {NoData}],
     users : [Holders -> UserEmissionData \cup {NoData}],
     allowance : Nat]                      \* of the pool on the backstop's BLND

\* The type of the emission storage: what anyone is owed never turns negative.
EmissionTypeOK ==
    /\ emissions \in Emissions
    /\ pending \in Emissions \cup {NoCall}
    /\ emitted \in 0..MaxEmitted

NoEmissions ==
    [shares |-> [t \in ReserveTokens |-> 0], data |-> [t \in ReserveTokens |-> NoData],
     users |-> [h \in Holders |-> NoData], allowance |-> 0]

StartWithoutEmissions ==
    /\ emissions = NoEmissions
    /\ pending = NoCall
    /\ emitted = 0

EmissionInit == Init /\ StartWithoutEmissions

-----------------------------------------------------------------------------
(* Accrual.                                                                *)

SupplyOf(w, t) == IF t[2] = "d" THEN w.reserves[t[1]].d_supply ELSE w.reserves[t[1]].b_supply

\* Mutant of BalanceOf: deposits that are not collateral earn nothing.
CollateralOf(w, t, u) ==
    LET p == w.positions[u]
    IN IF t[2] = "d" THEN p.liabilities[t[1]] ELSE p.collateral[t[1]]

\* get_liabilities, or get_total_supply
BalanceOf(w, t, u) ==
    LET p == w.positions[u]
    IN IF t[2] = "d" THEN p.liabilities[t[1]] ELSE p.collateral[t[1]] + p.supply[t[1]]

Earlier(x, y) == IF x < y THEN x ELSE y
ScalarOf(t) == config.reserves[t[1]].scalar

\* update_emission_data; nothing is streamed to a reserve token nobody holds,
\* and its clock stands still meanwhile.
IsAccruing(d, supply) ==
    /\ d.last_time < d.expiration /\ d.last_time # now
    /\ d.eps # 0 /\ supply # 0

Accrued(d, t, supply) ==
    IF d = NoData \/ ~IsAccruing(d, supply) THEN d
    ELSE LET until == Earlier(now, d.expiration)
         IN [d EXCEPT !.index = @ + DivFloor((until - d.last_time) * d.eps, supply, ScalarOf(t)),
                      !.last_time = until]

\* update_user_emissions: an account without an entry is owed everything its
\* balance would have earned since emissions began.
Owed(d, t, entry, balance) ==
    IF d = NoData THEN 0
    ELSE IF entry = NoData THEN MulFloor(balance, d.index, ScalarOf(t) * Scalar7)
    ELSE entry.accrued + MulFloor(balance, d.index - entry.index, ScalarOf(t) * Scalar7)

\* Mutant of Entry: the index the account is settled up to is not moved.
EntryStale(d, t, entry, balance) ==
    IF d = NoData THEN NoData
    ELSE [index |-> IF entry = NoData THEN d.index ELSE entry.index,
          accrued |-> Owed(d, t, entry, balance)]

Entry(d, t, entry, balance) ==
    IF d = NoData THEN NoData
    ELSE [index |-> d.index, accrued |-> Owed(d, t, entry, balance)]

-----------------------------------------------------------------------------
(* The pool's own steps: positions that change from w to v settle first.   *)

Moved(w, v, h) == BalanceOf(w, h[1], h[2]) # BalanceOf(v, h[1], h[2])

\* Mutant of Settled: the position is settled after it has changed.
SettledLate(e, w, v) ==
    LET touched == {h \in Holders : Moved(w, v, h)}
        data == [t \in ReserveTokens |->
                   IF \E h \in touched : h[1] = t THEN Accrued(e.data[t], t, SupplyOf(w, t))
                   ELSE e.data[t]]
    IN [e EXCEPT !.data = data,
                 !.users = [h \in Holders |->
                    IF h \in touched
                    THEN Entry(data[h[1]], h[1], e.users[h], BalanceOf(v, h[1], h[2]))
                    ELSE e.users[h]]]

\* What the accounts of `touched' have earned by now, noted down.
SettledFor(e, w, touched) ==
    LET data == [t \in ReserveTokens |->
                   IF \E h \in touched : h[1] = t THEN Accrued(e.data[t], t, SupplyOf(w, t))
                   ELSE e.data[t]]
    IN [e EXCEPT !.data = data,
                 !.users = [h \in Holders |->
                    IF h \in touched
                    THEN Entry(data[h[1]], h[1], e.users[h], BalanceOf(w, h[1], h[2]))
                    ELSE e.users[h]]]

Settled(e, w, v) == SettledFor(e, w, {h \in Holders : Moved(w, v, h)})

DuringCall ==
    /\ Begin \/ RequestStep
    /\ pending' = Settled(IF call = NoCall THEN emissions ELSE pending, View, View')
    /\ UNCHANGED <<emissions, emitted>>

CommitCall ==
    /\ Commit
    /\ emissions' = pending /\ pending' = NoCall
    /\ UNCHANGED emitted

AbortCall ==
    /\ Abort
    /\ pending' = NoCall
    /\ UNCHANGED <<emissions, emitted>>

OutsideCall ==
    /\ OtherAuctionStep \/ MaintenanceStep \/ EnvironmentStep
    /\ emissions' = Settled(emissions, ledger, ledger')
    /\ UNCHANGED <<pending, emitted>>

\* To quote a liquidation the user's positions are loaded and the quoted part
\* is taken off that copy (rm_positions).  The copy is dropped, but what taking
\* it off has settled stays: the user's entries of all that is quoted.
Quoted(u, bid, lot, percent) ==
    LET q == LiquidationQuote(ledger, u, bid, lot, percent)
    IN {<<<<a, "b">>, u>> : a \in Held(q.collateral)}
         \cup {<<<<a, "d">>, u>> : a \in Held(q.liabilities)}

\* Mutant of CreateLiquidation: settled after the quoted part was taken off.
CreateSettlingLate(u, bid, lot, percent) ==
    LET q == LiquidationQuote(ledger, u, bid, lot, percent)
        left == [ledger EXCEPT !.positions[u].collateral = Sub(@, q.collateral),
                               !.positions[u].liabilities = Sub(@, q.liabilities)]
    IN /\ NewUserLiquidation(u, bid, lot, percent)
       /\ emissions' = SettledLate(emissions, ledger, left)
       /\ UNCHANGED <<pending, emitted>>

CreateLiquidation(u, bid, lot, percent) ==
    /\ NewUserLiquidation(u, bid, lot, percent)
    /\ emissions' = SettledFor(emissions, ledger, Quoted(u, bid, lot, percent))
    /\ UNCHANGED <<pending, emitted>>

CreationStep ==
    \E bid, lot \in SUBSET Assets, u \in Users, percent \in LiquidationPercents :
        CreateLiquidation(u, bid, lot, percent)

-----------------------------------------------------------------------------
(* The entry points of emissions.                                          *)

\* set_pool_emissions: applied by the next gulp.
SetEmissionsConfig(shares) ==
    /\ call = NoCall /\ shares # emissions.shares
    /\ emissions' = [emissions EXCEPT !.shares = shares]
    /\ UNCHANGED <<poolVars, pending, emitted>>

\* Reserve tokens of enabled reserves that are given a share.
Enabled(t) == emissions.shares[t] > 0 /\ config.reserves[t[1]].enabled

TotalShare == SumFunction([t \in {s \in ReserveTokens : Enabled(s)} |-> emissions.shares[t]])

NewReserveEmissions(t, amount) ==
    MulFloor(DivFloor(emissions.shares[t], TotalShare, Scalar7), amount, Scalar7)

\* What the stream before would have emitted until it expires.
Unemitted(d) ==
    IF d # NoData /\ d.expiration > now
    THEN MulFloor(d.eps, d.expiration - now, Scalar7) ELSE 0

\* Mutant of Stream: what is left is streamed again without settling the past.
StreamUnaccrued(t, amount) ==
    LET d == emissions.data[t]
    IN [expiration |-> now + EmissionPeriod,
        eps |-> ((NewReserveEmissions(t, amount)
                   + (IF d # NoData /\ d.expiration > now
                      THEN MulFloor(d.eps, d.expiration - d.last_time, Scalar7) ELSE 0))
                 * Scalar7) \div EmissionPeriod,
        index |-> IF d = NoData THEN 0 ELSE d.index,
        last_time |-> IF d = NoData THEN now ELSE d.last_time]

\* Mutant of Stream: a new stream starts from a new index.
StreamReset(t, amount) ==
    LET d == Accrued(emissions.data[t], t, SupplyOf(ledger, t))
    IN [expiration |-> now + EmissionPeriod,
        eps |-> ((NewReserveEmissions(t, amount) + Unemitted(d)) * Scalar7) \div EmissionPeriod,
        index |-> 0,
        last_time |-> now]

\* update_reserve_emission_eps: a new stream over what is left and what is new.
Stream(t, amount) ==
    LET d == Accrued(emissions.data[t], t, SupplyOf(ledger, t))
    IN [expiration |-> now + EmissionPeriod,
        eps |-> ((NewReserveEmissions(t, amount) + Unemitted(d)) * Scalar7) \div EmissionPeriod,
        index |-> IF d = NoData THEN 0 ELSE d.index,
        last_time |-> now]

\* gulp_emissions: the backstop raises the pool's allowance by the amount; when
\* no reserve token is enabled nobody will ever be owed it.
GulpEmissions(amount) ==
    /\ call = NoCall
    /\ emitted + amount <= MaxEmitted
    /\ amount >= Scalar7
    /\ emissions' = [emissions EXCEPT
           !.allowance = @ + amount,
           !.data = [t \in ReserveTokens |-> IF Enabled(t) THEN Stream(t, amount) ELSE @[t]]]
    /\ emitted' = emitted + amount
    /\ UNCHANGED <<poolVars, pending>>

AccruedNow(t) == Accrued(emissions.data[t], t, SupplyOf(ledger, t))
OwedNow(t, u) ==
    Owed(AccruedNow(t), t, emissions.users[<<t, u>>], BalanceOf(ledger, t, u))
Claimable(ids, u) == SumFunction([t \in ids |-> OwedNow(t, u)])

\* execute_claim of a list of reserve tokens; transfer_from only when something
\* is owed.
Claim(u, ids) ==
    /\ call = NoCall
    /\ Claimable(ids, u) <= emissions.allowance
    /\ emissions' = [emissions EXCEPT
           !.allowance = @ - Claimable(ids, u),
           !.data = [t \in ReserveTokens |-> IF t \in ids THEN AccruedNow(t) ELSE @[t]],
           !.users = [h \in Holders |->
              IF h[1] \in ids /\ h[2] = u /\ AccruedNow(h[1]) # NoData
              THEN [index |-> AccruedNow(h[1]).index, accrued |-> 0] ELSE @[h]]]
    /\ UNCHANGED <<poolVars, pending, emitted>>

EmissionNext ==
    \/ DuringCall \/ CommitCall \/ AbortCall \/ OutsideCall \/ CreationStep
    \/ \E shares \in ShareSettings : SetEmissionsConfig(shares)
    \/ \E amount \in EmissionAmounts : GulpEmissions(amount)
    \/ \E u \in Users, ids \in ClaimLists : Claim(u, ids)

EmissionSpec == EmissionInit /\ [][EmissionNext]_emissionVars

-----------------------------------------------------------------------------
(* What must never go wrong.                                               *)

\* Scaled by Scalar7: what is owed by now, and what is still to be streamed.
Outstanding(t) ==
    LET d == AccruedNow(t)
        open == IF d.expiration > d.last_time THEN d.eps * (d.expiration - d.last_time) ELSE 0
    IN IF d = NoData THEN 0
       ELSE Scalar7 * SumFunction([u \in Accounts |-> OwedNow(t, u)]) + open

\* Everything the pool owes in emissions, and will owe of the streams under way,
\* is within what the backstop lets it take, so no claim can fail or be paid with
\* BLND that is somebody else's - whatever positions did between the gulps.
ReserveEmissionsCovered ==
    call = NoCall =>
        SumFunction([t \in ReserveTokens |-> Outstanding(t)]) <= Scalar7 * emissions.allowance

\* What an account is owed changes with time alone: a change of anyone's
\* positions (its own, or a fill or hand-over it did not ask for), the creation of
\* a liquidation, a failed submit, a new stream or new shares neither add to it
\* nor take from it, and a claim takes exactly what it pays, from the claimant.  The exception is a
\* deposit into a reserve token that nobody held: its holder gets what was not
\* streamed in the meantime.
OwedOnlyByTime ==
    [][now' = now =>
         LET held == {t \in ReserveTokens : SupplyOf(ledger, t) # 0}
             Lost(u) == SumFunction([t \in ReserveTokens |-> OwedNow(t, u) - OwedNow(t, u)'])
             Steady(u) == \A t \in held : OwedNow(t, u)' = OwedNow(t, u)
         IN \/ /\ emissions'.allowance >= emissions.allowance
               /\ \A u \in Accounts : Steady(u)
            \/ \E u \in Users :
                 /\ emissions.allowance - emissions'.allowance = Lost(u)
                 /\ \A t \in ReserveTokens : OwedNow(t, u)' \in {0, OwedNow(t, u)}
                 /\ \A v \in Accounts \ {u} : Steady(v)
      ]_emissionVars
=============================================================================
