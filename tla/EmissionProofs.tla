--------------------------- MODULE EmissionProofs ---------------------------
(***************************************************************************)
(* The pool with emissions is a pool: it implements Pool, so what was      *)
(* proved of positions, reserves and auctions holds with emissions too.    *)
(* And emissions are typed: nobody is ever owed a negative amount, and no  *)
(* claim takes more than the backstop lets the pool take.                  *)
(*                                                                         *)
(* The type is not inductive: what an account is owed grows with the index *)
(* of its reserve token minus the index it was settled at, so no index may *)
(* fall behind, and no stream's clock may be ahead of the ledger's.        *)
(*                                                                         *)
(* What an account is owed changes with time and by its own claim alone:   *)
(* the copy a submit works on owes what the storage owes (CallCarried).    *)
(* And all of it is covered by the allowance: of each reserve token,       *)
(* what its holders are entitled to before any rounding and what its       *)
(* stream will give are together within what was gulped (FundedInv).       *)
(***************************************************************************)
EXTENDS PoolProofs, PoolEmissions

-----------------------------------------------------------------------------
(* Refinement.                                                             *)

LEMMA EmissionStepIsPoolStep == [EmissionNext]_emissionVars => [Next]_poolVars
<1>1. CASE DuringCall \/ CommitCall \/ AbortCall \/ OutsideCall
  BY <1>1 DEF DuringCall, CommitCall, AbortCall, OutsideCall, Next, AuctionStep
<1>6. CASE CreationStep
  BY <1>6 DEF CreationStep, CreateLiquidation, LiquidationStep, AuctionStep, Next
<1>2. CASE \E shares \in ShareSettings : SetEmissionsConfig(shares)
  BY <1>2 DEF SetEmissionsConfig
<1>3. CASE \E amount \in EmissionAmounts : GulpEmissions(amount)
  BY <1>3 DEF GulpEmissions
<1>4. CASE \E u \in Users, ids \in ClaimLists : Claim(u, ids)
  BY <1>4 DEF Claim
<1>5. CASE UNCHANGED emissionVars
  BY <1>5 DEF emissionVars
<1> QED
  BY <1>1, <1>2, <1>3, <1>4, <1>5, <1>6 DEF EmissionNext

\* Whatever the pool with emissions does to positions, reserves, auctions and
\* its settings, the pool without them may do: emissions only observe it.
THEOREM EmissionsImplementPool == EmissionSpec => Spec
<1>1. EmissionInit => Init
  BY DEF EmissionInit
<1> QED
  BY <1>1, EmissionStepIsPoolStep, PTL DEF EmissionSpec, Spec

-----------------------------------------------------------------------------
(* Accrual and what it owes.                                               *)

\* Nobody was settled beyond the index of a reserve token.
Behind(e) ==
    \A h \in Holders : e.users[h] # NoData =>
        e.data[h[1]] # NoData /\ e.users[h].index <= e.data[h[1]].index

OnTime(e) == \A t \in ReserveTokens : e.data[t] # NoData => e.data[t].last_time <= now

Consistent(e) == e \in Emissions /\ Behind(e) /\ OnTime(e)

LEMMA TokensFinite == IsFiniteSet(ReserveTokens) /\ IsFiniteSet(Assets)
<1>1. IsFiniteSet({"d"}) /\ IsFiniteSet({"b"})
  BY FS_Singleton
<1>2. IsFiniteSet({"d"} \cup {"b"})
  BY <1>1, FS_Union
<1>3. {"d"} \cup {"b"} = {"d", "b"}
  OBVIOUS
<1> QED
  BY <1>2, <1>3, StateAssumption, FS_Product DEF ReserveTokens

LEMMA HolderParts ==
    /\ \A h \in Holders : h[1] \in ReserveTokens /\ h[2] \in Accounts
    /\ \A t \in ReserveTokens : t[1] \in Assets
    /\ \A t \in ReserveTokens, u \in Accounts :
         <<t, u>> \in Holders /\ <<t, u>>[1] = t /\ <<t, u>>[2] = u
  BY DEF Holders, ReserveTokens

LEMMA ScalarPositive ==
    ASSUME GoodSettings, NEW t \in ReserveTokens
    PROVE  ScalarOf(t) \in Nat /\ ScalarOf(t) > 0 /\ ScalarOf(t) * Scalar7 \in Nat
           /\ ScalarOf(t) * Scalar7 > 0
<1>1. ValidReserveConfig(config.reserves[t[1]])
  BY HolderParts DEF GoodSettings
<1>2. ScalarOf(t) \in Nat /\ ScalarOf(t) > 0
  BY <1>1 DEF ValidReserveConfig, ReserveConfig, ScalarOf
<1>3. Scalar7 \in Nat /\ Scalar7 > 0
  BY ScalarAssumption
<1> QED
  BY <1>2, <1>3, SMT

LEMMA SharesNat ==
    ASSUME NEW w \in Ledger, NEW t \in ReserveTokens, NEW u \in Accounts
    PROVE  SupplyOf(w, t) \in Nat /\ BalanceOf(w, t, u) \in Nat
<1>1. t[1] \in Assets /\ w.reserves[t[1]] \in ReserveData /\ w.positions[u] \in Positions
  BY LedgerFields, HolderParts
<1>2. SupplyOf(w, t) \in Nat
  BY <1>1 DEF SupplyOf, ReserveData
<1>3. BalanceOf(w, t, u) \in Nat
  BY <1>1, PositionNat DEF BalanceOf, BShares
<1> QED
  BY <1>2, <1>3

LEMMA AccrualForward ==
    ASSUME GoodSettings, NEW t \in ReserveTokens, NEW supply \in Nat,
           NEW d \in ReserveEmissionData, d.last_time <= now
    PROVE  /\ Accrued(d, t, supply) \in ReserveEmissionData
           /\ Accrued(d, t, supply) # NoData
           /\ d.index <= Accrued(d, t, supply).index
           /\ Accrued(d, t, supply).last_time <= now
<1>1. d # NoData
  BY EmissionAssumption
<1>2. CASE ~IsAccruing(d, supply)
  BY <1>1, <1>2 DEF Accrued, ReserveEmissionData
<1>3. CASE IsAccruing(d, supply)
  <2> DEFINE until == Earlier(now, d.expiration)
             growth == DivFloor((until - d.last_time) * d.eps, supply, ScalarOf(t))
  <2>1. /\ now \in Nat /\ d.last_time \in Nat /\ d.expiration \in Nat
        /\ d.eps \in Nat /\ d.index \in Nat
    BY DEF GoodSettings, ReserveEmissionData
  <2>2. until \in Nat /\ until - d.last_time \in Nat /\ until <= now
    BY <1>3, <2>1 DEF IsAccruing, Earlier
  <2>3. supply \in Int /\ supply > 0
    BY <1>3 DEF IsAccruing
  <2>4. (until - d.last_time) * d.eps \in Nat
    BY <2>1, <2>2, ProductNat
  <2> HIDE DEF until
  <2>5. growth \in Nat
    BY <2>3, <2>4, ScalarPositive, DivNat
  <2> HIDE DEF growth
  <2>6. Accrued(d, t, supply) = [d EXCEPT !.index = @ + growth, !.last_time = until]
    BY <1>1, <1>3 DEF Accrued, growth, until
  <2>7. Accrued(d, t, supply) =
          [expiration |-> d.expiration, eps |-> d.eps,
           index |-> d.index + growth, last_time |-> until]
    BY <2>6 DEF ReserveEmissionData
  <2>8. Accrued(d, t, supply) \in ReserveEmissionData
    <3>1. d.index + growth \in Nat
      BY <2>1, <2>5
    <3> QED
      BY <2>1, <2>2, <2>7, <3>1 DEF ReserveEmissionData
  <2>9. Accrued(d, t, supply).index = d.index + growth /\ Accrued(d, t, supply).last_time = until
    BY <2>7
  <2>10. Accrued(d, t, supply) # NoData
    BY <2>8, EmissionAssumption
  <2>11. d.index <= Accrued(d, t, supply).index
    BY <2>1, <2>5, <2>9
  <2>12. Accrued(d, t, supply).last_time <= now
    BY <2>2, <2>9
  <2> QED
    BY <2>8, <2>10, <2>11, <2>12
<1> QED
  BY <1>2, <1>3

LEMMA OwedIsNat ==
    ASSUME GoodSettings, NEW t \in ReserveTokens, NEW balance \in Nat,
           NEW d \in ReserveEmissionData \cup {NoData},
           NEW entry \in UserEmissionData \cup {NoData},
           entry # NoData => d # NoData /\ entry.index <= d.index
    PROVE  Owed(d, t, entry, balance) \in Nat
<1> DEFINE divisor == ScalarOf(t) * Scalar7
<1>0. divisor \in Int /\ divisor > 0
  BY ScalarPositive
<1> HIDE DEF divisor
<1>1. CASE d = NoData
  BY <1>1 DEF Owed
<1>2. CASE d # NoData /\ entry = NoData
  <2>1. d.index \in Nat
    BY <1>2 DEF ReserveEmissionData
  <2>2. MulFloor(balance, d.index, divisor) \in Nat
    BY <1>0, <2>1, MulNat
  <2> QED
    BY <1>2, <2>2 DEF Owed, divisor
<1>3. CASE d # NoData /\ entry # NoData
  <2>1. d.index - entry.index \in Nat /\ entry.accrued \in Nat
    BY <1>3 DEF ReserveEmissionData, UserEmissionData
  <2>2. MulFloor(balance, d.index - entry.index, divisor) \in Nat
    BY <1>0, <2>1, MulNat
  <2>3. entry.accrued + MulFloor(balance, d.index - entry.index, divisor) \in Nat
    BY <2>1, <2>2
  <2> QED
    BY <1>3, <2>3 DEF Owed, divisor
<1> QED
  BY <1>1, <1>2, <1>3

LEMMA EntrySettled ==
    ASSUME GoodSettings, NEW t \in ReserveTokens, NEW balance \in Nat,
           NEW d \in ReserveEmissionData \cup {NoData},
           NEW entry \in UserEmissionData \cup {NoData},
           entry # NoData => d # NoData /\ entry.index <= d.index
    PROVE  /\ Entry(d, t, entry, balance) \in UserEmissionData \cup {NoData}
           /\ Entry(d, t, entry, balance) # NoData =>
                d # NoData /\ Entry(d, t, entry, balance).index <= d.index
<1>1. CASE d = NoData
  BY <1>1 DEF Entry
<1>2. CASE d # NoData
  <2>1. d.index \in Nat
    BY <1>2 DEF ReserveEmissionData
  <2>2. Entry(d, t, entry, balance) = [index |-> d.index, accrued |-> Owed(d, t, entry, balance)]
    BY <1>2 DEF Entry
  <2> QED
    BY <1>2, <2>1, <2>2, OwedIsNat DEF UserEmissionData
<1> QED
  BY <1>1, <1>2

-----------------------------------------------------------------------------
(* The storage as a whole.                                                 *)

LEMMA EmissionFields ==
    ASSUME NEW e \in Emissions
    PROVE  /\ e.shares \in [ReserveTokens -> Nat]
           /\ e.data \in [ReserveTokens -> ReserveEmissionData \cup {NoData}]
           /\ e.users \in [Holders -> UserEmissionData \cup {NoData}]
           /\ e.allowance \in Nat
  BY DEF Emissions

LEMMA KeptRecord ==
    ASSUME NEW shares \in [ReserveTokens -> Nat], NEW n \in Nat,
           NEW data \in [ReserveTokens -> ReserveEmissionData \cup {NoData}],
           NEW users \in [Holders -> UserEmissionData \cup {NoData}],
           \A h \in Holders : users[h] # NoData =>
               data[h[1]] # NoData /\ users[h].index <= data[h[1]].index,
           \A t \in ReserveTokens : data[t] # NoData => data[t].last_time <= now
    PROVE  Consistent([shares |-> shares, data |-> data, users |-> users, allowance |-> n])
  BY DEF Consistent, Emissions, Behind, OnTime

\* A reserve token's data after an accrual of those in S.
LEMMA AccrualKept ==
    ASSUME GoodSettings, NEW e, Consistent(e), NEW w \in Ledger, NEW t \in ReserveTokens
    PROVE  LET d == Accrued(e.data[t], t, SupplyOf(w, t))
           IN /\ d \in ReserveEmissionData \cup {NoData}
              /\ d # NoData => d.last_time <= now
              /\ e.data[t] # NoData => d # NoData /\ e.data[t].index <= d.index
<1> DEFINE d == Accrued(e.data[t], t, SupplyOf(w, t))
<1>1. e.data[t] \in ReserveEmissionData \cup {NoData} /\ SupplyOf(w, t) \in Nat
  BY EmissionFields, SharesNat, AccountsFinite DEF Consistent
<1>2. CASE e.data[t] = NoData
  BY <1>2 DEF Accrued
<1>3. CASE e.data[t] # NoData
  <2>1. e.data[t] \in ReserveEmissionData /\ e.data[t].last_time <= now
    BY <1>1, <1>3 DEF Consistent, OnTime
  <2> QED
    BY <1>1, <2>1, AccrualForward
<1> QED
  BY <1>2, <1>3

LEMMA SettledKept ==
    ASSUME GoodSettings, NEW e, Consistent(e), NEW w \in Ledger, NEW touched \in SUBSET Holders
    PROVE  Consistent(SettledFor(e, w, touched))
<1> DEFINE data == [t \in ReserveTokens |->
                      IF \E h \in touched : h[1] = t THEN Accrued(e.data[t], t, SupplyOf(w, t))
                      ELSE e.data[t]]
           users == [h \in Holders |->
                       IF h \in touched
                       THEN Entry(data[h[1]], h[1], e.users[h], BalanceOf(w, h[1], h[2]))
                       ELSE e.users[h]]
<1>1. /\ e.shares \in [ReserveTokens -> Nat] /\ e.allowance \in Nat
      /\ e.data \in [ReserveTokens -> ReserveEmissionData \cup {NoData}]
      /\ e.users \in [Holders -> UserEmissionData \cup {NoData}]
  BY EmissionFields DEF Consistent
<1>2. ASSUME NEW t \in ReserveTokens
      PROVE  /\ data[t] \in ReserveEmissionData \cup {NoData}
             /\ data[t] # NoData => data[t].last_time <= now
             /\ e.data[t] # NoData => data[t] # NoData /\ e.data[t].index <= data[t].index
  <2>1. CASE data[t] = Accrued(e.data[t], t, SupplyOf(w, t))
    BY <2>1, AccrualKept
  <2>2. CASE data[t] = e.data[t]
    <3>1. e.data[t] # NoData => e.data[t].index \in Nat
      BY <1>1 DEF ReserveEmissionData
    <3> QED
      BY <1>1, <2>2, <3>1 DEF Consistent, OnTime
  <2> QED
    BY <2>1, <2>2
<1>3. data \in [ReserveTokens -> ReserveEmissionData \cup {NoData}]
  BY <1>2
<1>4. SettledFor(e, w, touched) = [shares |-> e.shares, data |-> data, users |-> users,
                                   allowance |-> e.allowance]
  <2>1. e \in Emissions
    BY DEF Consistent
  <2>2. SettledFor(e, w, touched) = [e EXCEPT !.data = data, !.users = users]
    BY DEF SettledFor
  <2> HIDE DEF data, users
  <2> QED
    BY <2>1, <2>2 DEF Emissions
<1> HIDE DEF data
<1>5. ASSUME NEW h \in Holders
      PROVE  /\ users[h] \in UserEmissionData \cup {NoData}
             /\ users[h] # NoData =>
                  data[h[1]] # NoData /\ users[h].index <= data[h[1]].index
  <2>1. /\ h[1] \in ReserveTokens /\ h[2] \in Accounts
        /\ e.users[h] \in UserEmissionData \cup {NoData}
        /\ BalanceOf(w, h[1], h[2]) \in Nat
    BY <1>1, HolderParts, SharesNat
  <2>2. e.users[h] # NoData => e.data[h[1]] # NoData /\ e.users[h].index <= e.data[h[1]].index
    BY DEF Consistent, Behind
  <2>3. /\ e.users[h] # NoData => e.users[h].index \in Nat
        /\ e.data[h[1]] # NoData => e.data[h[1]].index \in Nat
        /\ data[h[1]] # NoData => data[h[1]].index \in Nat
    BY <1>1, <1>3, <2>1 DEF UserEmissionData, ReserveEmissionData
  <2>4. e.users[h] # NoData => data[h[1]] # NoData /\ e.users[h].index <= data[h[1]].index
    BY <1>2, <2>1, <2>2, <2>3
  <2>5. data[h[1]] \in ReserveEmissionData \cup {NoData}
    BY <1>2, <2>1
  <2> DEFINE entry == Entry(data[h[1]], h[1], e.users[h], BalanceOf(w, h[1], h[2]))
  <2>6. /\ entry \in UserEmissionData \cup {NoData}
        /\ entry # NoData => data[h[1]] # NoData /\ entry.index <= data[h[1]].index
    BY <2>1, <2>4, <2>5, EntrySettled
  <2>7. users[h] = entry \/ users[h] = e.users[h]
    OBVIOUS
  <2> HIDE DEF entry, users
  <2> QED
    BY <2>1, <2>4, <2>6, <2>7
<1>6. users \in [Holders -> UserEmissionData \cup {NoData}]
  BY <1>5
<1> HIDE DEF users
<1> QED
  BY <1>1, <1>2, <1>3, <1>4, <1>5, <1>6, KeptRecord

\* Everybody whose balance differs between w and v is settled.
Covers(touched, w, v) == \A h \in Holders : Moved(w, v, h) => h \in touched

LEMMA SettledMoved ==
    ASSUME NEW e, NEW w, NEW v
    PROVE  \E touched \in SUBSET Holders :
             Settled(e, w, v) = SettledFor(e, w, touched) /\ Covers(touched, w, v)
<1> DEFINE touched == {h \in Holders : Moved(w, v, h)}
<1>1. touched \in SUBSET Holders /\ Covers(touched, w, v)
  BY DEF Covers
<1>2. Settled(e, w, v) = SettledFor(e, w, touched)
  BY DEF Settled
<1> HIDE DEF touched
<1> QED
  BY <1>1, <1>2

\* Who is settled when a liquidation is created.
LEMMA QuotedAreHolders ==
    ASSUME NEW u \in Users, NEW bid, NEW lot, NEW percent
    PROVE  Quoted(u, bid, lot, percent) \in SUBSET Holders
<1>1. u \in Accounts
  BY AccountsFinite
<1>2. PICK q : q = LiquidationQuote(ledger, u, bid, lot, percent)
  OBVIOUS
<1>3. Quoted(u, bid, lot, percent) = {<<<<a, "b">>, u>> : a \in Held(q.collateral)}
                                       \cup {<<<<a, "d">>, u>> : a \in Held(q.liabilities)}
  BY <1>2 DEF Quoted
<1> QED
  BY <1>1, <1>3 DEF Holders, ReserveTokens, Held

-----------------------------------------------------------------------------
(* A new stream, and what a claim takes.                                   *)

LEMMA ShareOfAmount ==
    ASSUME emissions \in Emissions, NEW t \in ReserveTokens, Enabled(t), NEW amount \in Nat
    PROVE  NewReserveEmissions(t, amount) \in Nat
<1> DEFINE S == {s \in ReserveTokens : Enabled(s)}
           f == [s \in S |-> emissions.shares[s]]
<1>1. IsFiniteSet(S) /\ t \in S
  BY TokensFinite, FS_Subset
<1>2. f \in [S -> Nat] /\ f[t] = emissions.shares[t]
  BY <1>1, EmissionFields
<1>3. emissions.shares[t] > 0
  BY DEF Enabled
<1> HIDE DEF S, f
<1>4. SumFunction(f) \in Nat /\ f[t] <= SumFunction(f)
  BY <1>1, <1>2, SumFunctionNat, SumFunctionBound
<1>5. TotalShare = SumFunction(f)
  BY DEF TotalShare, f, S
<1>6. TotalShare \in Int /\ TotalShare > 0 /\ emissions.shares[t] \in Nat
  BY <1>2, <1>3, <1>4, <1>5, EmissionFields
<1>7. Scalar7 \in Nat /\ Scalar7 > 0
  BY ScalarAssumption
<1> DEFINE part == DivFloor(emissions.shares[t], TotalShare, Scalar7)
<1>8. part \in Nat
  BY <1>6, <1>7, DivNat
<1> HIDE DEF part
<1>9. MulFloor(part, amount, Scalar7) \in Nat
  BY <1>7, <1>8, MulNat
<1> QED
  BY <1>9 DEF NewReserveEmissions, part

LEMMA UnemittedNat ==
    ASSUME now \in Nat, NEW d \in ReserveEmissionData \cup {NoData}
    PROVE  Unemitted(d) \in Nat
<1>1. CASE d # NoData /\ d.expiration > now
  <2>1. d.eps \in Nat /\ d.expiration - now \in Nat
    BY <1>1 DEF ReserveEmissionData
  <2>2. Scalar7 \in Int /\ Scalar7 > 0
    BY ScalarAssumption
  <2> QED
    BY <1>1, <2>1, <2>2, MulNat DEF Unemitted
<1>2. CASE ~(d # NoData /\ d.expiration > now)
  BY <1>2 DEF Unemitted
<1> QED
  BY <1>1, <1>2

\* A stream starts now, and from no lower an index.
LEMMA StreamForward ==
    ASSUME PoolInv, Consistent(emissions), NEW t \in ReserveTokens, Enabled(t), NEW amount \in Nat
    PROVE  /\ Stream(t, amount) \in ReserveEmissionData
           /\ Stream(t, amount) # NoData
           /\ Stream(t, amount).last_time = now
           /\ emissions.data[t] # NoData => emissions.data[t].index <= Stream(t, amount).index
<1> DEFINE d == Accrued(emissions.data[t], t, SupplyOf(ledger, t))
           rest == NewReserveEmissions(t, amount) + Unemitted(d)
           index == IF d = NoData THEN 0 ELSE d.index
           eps == (rest * Scalar7) \div EmissionPeriod
<1>1. GoodSettings /\ ledger \in Ledger /\ now \in Nat /\ emissions \in Emissions
  BY DEF PoolInv, WellFormed, GoodSettings, Consistent
<1>2. /\ d \in ReserveEmissionData \cup {NoData}
      /\ emissions.data[t] # NoData => d # NoData /\ emissions.data[t].index <= d.index
  BY <1>1, AccrualKept
<1> HIDE DEF d
<1>3. rest \in Nat
  BY <1>1, <1>2, ShareOfAmount, UnemittedNat
<1>4. EmissionPeriod \in Nat /\ EmissionPeriod > 0
  BY EmissionAssumption
<1>5. eps \in Nat
  <2>1. rest * Scalar7 \in Nat
    BY <1>3, ScalarAssumption, ProductNat
  <2>2. FloorDiv(rest * Scalar7, EmissionPeriod) \in Nat
    BY <1>4, <2>1, FloorDivNat
  <2> QED
    BY <1>4, <2>2 DEF FloorDiv
<1>6. index \in Nat
  BY <1>2 DEF ReserveEmissionData
<1>7. Stream(t, amount) = [expiration |-> now + EmissionPeriod, eps |-> eps,
                           index |-> index, last_time |-> now]
  BY DEF Stream, d
<1> HIDE DEF eps, index
<1>8. now + EmissionPeriod \in Nat
  BY <1>1, <1>4
<1>9. Stream(t, amount) \in ReserveEmissionData
  BY <1>1, <1>5, <1>6, <1>7, <1>8 DEF ReserveEmissionData
<1>10. emissions.data[t] # NoData => emissions.data[t].index <= index
  BY <1>2 DEF index
<1> QED
  BY <1>7, <1>9, <1>10, EmissionAssumption

LEMMA OwedNowNat ==
    ASSUME GoodSettings, ledger \in Ledger, Consistent(emissions),
           NEW t \in ReserveTokens, NEW u \in Accounts
    PROVE  /\ OwedNow(t, u) \in Nat
           /\ emissions.users[<<t, u>>] # NoData =>
                AccruedNow(t) # NoData
                /\ emissions.users[<<t, u>>].index <= AccruedNow(t).index
<1> DEFINE entry == emissions.users[<<t, u>>]
           before == emissions.data[t]
<1>1. /\ AccruedNow(t) \in ReserveEmissionData \cup {NoData}
      /\ before # NoData => AccruedNow(t) # NoData /\ before.index <= AccruedNow(t).index
  BY AccrualKept DEF AccruedNow
<1>2. /\ entry \in UserEmissionData \cup {NoData}
      /\ before \in ReserveEmissionData \cup {NoData}
  BY EmissionFields, HolderParts DEF Consistent
<1>3. entry # NoData => before # NoData /\ entry.index <= before.index
  BY HolderParts DEF Consistent, Behind
<1>4. /\ entry # NoData => entry.index \in Nat
      /\ before # NoData => before.index \in Nat
      /\ AccruedNow(t) # NoData => AccruedNow(t).index \in Nat
  BY <1>1, <1>2 DEF UserEmissionData, ReserveEmissionData
<1>5. entry # NoData => AccruedNow(t) # NoData /\ entry.index <= AccruedNow(t).index
  BY <1>1, <1>3, <1>4
<1>6. BalanceOf(ledger, t, u) \in Nat
  BY SharesNat
<1> HIDE DEF entry, before
<1>7. Owed(AccruedNow(t), t, entry, BalanceOf(ledger, t, u)) \in Nat
  BY <1>1, <1>2, <1>5, <1>6, OwedIsNat
<1> QED
  BY <1>5, <1>7 DEF OwedNow, entry

-----------------------------------------------------------------------------
(* The inductive invariant and every step.                                 *)

EmissionInv ==
    /\ EmissionTypeOK
    /\ Consistent(emissions)
    /\ call # NoCall => Consistent(pending)

LEMMA OutsideKeepsCall ==
    ASSUME AuctionStep \/ MaintenanceStep \/ EnvironmentStep
    PROVE  call = NoCall /\ call' = NoCall
<1>1. CASE AuctionStep
  BY <1>1 DEF AuctionStep, LiquidationStep, OtherAuctionStep, NewUserLiquidation, NewBadDebtAuction, NewInterestAuction,
     DeleteStaleLiquidation, DeleteStaleBadDebt, DeleteStaleInterest, Writes
<1>2. CASE MaintenanceStep
  BY <1>2 DEF MaintenanceStep, BadDebt, Gulp, UpdatePool, QueueSetReserve, CancelSetReserve,
     SetReserve, UpdateStatus, SetStatus, SetsStatus, SetsConfig, Writes
<1>3. CASE EnvironmentStep
  BY <1>3 DEF EnvironmentStep, OutsideStep, BackstopStep, Tick, NewPrice, Gift,
     BackstopDeposit, BackstopWithdraw, BackstopMoves, QueueChange, Writes
<1> QED
  BY <1>1, <1>2, <1>3

\* A request works on the call's own copy of the ledger.
LEMMA RequestLeaves ==
    ASSUME RequestStep
    PROVE  now' = now /\ config' = config /\ ledger' = ledger
<1> DEFINE Left == now' = now /\ config' = config /\ ledger' = ledger
<1>1. ASSUME NEW w, NEW a, NEW in, NEW out, Proceed(w, a, in, out) PROVE Left
  BY <1>1 DEF Proceed
<1>2. ASSUME NEW w, NEW a, NEW out, NEW m, ProceedChecked(w, a, out, m) PROVE Left
  BY <1>2 DEF ProceedChecked
<1>3. ASSUME NEW w, NEW c, ProceedWith(w, c) PROVE Left
  BY <1>3 DEF ProceedWith
<1> HIDE DEF Left
<1>4. Left
  BY <1>1, <1>2, <1>3 DEF RequestStep, Supply, Withdraw, SupplyCollateral, WithdrawCollateral,
     Borrow, Repay, FillUserLiquidationAuction, FillBadDebtAuction, FillInterestAuction,
     DeleteLiquidationAuction
<1> QED
  BY <1>4 DEF Left

LEMMA SameClock ==
    ASSUME Begin \/ RequestStep \/ Commit \/ Abort \/ AuctionStep \/ MaintenanceStep
    PROVE  now' = now
<1>1. CASE Begin \/ Commit \/ Abort
  BY <1>1 DEF Begin, BeginSubmit, BeginFlashLoan, Commit, Abort
<1>2. CASE RequestStep
  BY <1>2, RequestLeaves
<1>3. CASE AuctionStep
  BY <1>3 DEF AuctionStep, LiquidationStep, OtherAuctionStep, NewUserLiquidation, NewBadDebtAuction, NewInterestAuction,
     DeleteStaleLiquidation, DeleteStaleBadDebt, DeleteStaleInterest, Writes
<1>4. CASE MaintenanceStep
  BY <1>4 DEF MaintenanceStep, BadDebt, Gulp, UpdatePool, QueueSetReserve, CancelSetReserve,
     SetReserve, UpdateStatus, SetStatus, SetsStatus, SetsConfig, Writes
<1> QED
  BY <1>1, <1>2, <1>3, <1>4

LEMMA ClockForward ==
    ASSUME now \in Nat, EnvironmentStep
    PROVE  now' \in Nat /\ now <= now'
<1>1. CASE \E delta \in Ticks : Tick(delta)
  BY <1>1, PoolAssumption DEF Tick
<1>2. CASE ~\E delta \in Ticks : Tick(delta)
  BY <1>2 DEF EnvironmentStep, OutsideStep, BackstopStep, NewPrice, Gift,
     BackstopDeposit, BackstopWithdraw, BackstopMoves, QueueChange, Writes
<1> QED
  BY <1>1, <1>2

LEMMA ViewInLedger ==
    ASSUME PoolInv
    PROVE  GoodSettings /\ now \in Nat /\ ledger \in Ledger /\ View \in Ledger
  BY DEF PoolInv, WellFormed, GoodSettings, View

LEMMA DuringCallKeepsInv ==
    ASSUME PoolInv, EmissionInv, DuringCall
    PROVE  EmissionInv'
<1> DEFINE e == IF call = NoCall THEN emissions ELSE pending
<1>1. Consistent(e)
  BY DEF EmissionInv
<1>2. now' = now /\ now \in Nat
  BY ViewInLedger, SameClock DEF DuringCall
<1>3. Consistent(Settled(e, View, View'))
  <2>1. PICK touched \in SUBSET Holders : Settled(e, View, View') = SettledFor(e, View, touched)
    BY SettledMoved
  <2> HIDE DEF e
  <2> QED
    BY <1>1, <2>1, ViewInLedger, SettledKept
<1>4. PICK x : x = Settled(e, View, View')
  OBVIOUS
<1>5. pending' = x /\ emissions' = emissions /\ emitted' = emitted
  BY <1>4 DEF DuringCall
<1> HIDE DEF e
<1>6. Consistent(pending)'
  BY <1>2, <1>3, <1>4, <1>5 DEF Consistent, Behind, OnTime
<1>7. Consistent(emissions)'
  BY <1>2, <1>5 DEF EmissionInv, Consistent, Behind, OnTime
<1>8. EmissionTypeOK'
  BY <1>5, <1>6, <1>7 DEF EmissionInv, EmissionTypeOK, Consistent
<1> QED
  BY <1>6, <1>7, <1>8 DEF EmissionInv

LEMMA CommitCallKeepsInv ==
    ASSUME PoolInv, EmissionInv, CommitCall
    PROVE  EmissionInv'
<1>1. /\ call # NoCall /\ call' = NoCall /\ now' = now
      /\ emissions' = pending /\ pending' = NoCall /\ emitted' = emitted
  BY SameClock DEF CommitCall, Commit
<1>2. Consistent(pending)
  BY <1>1 DEF EmissionInv
<1>3. Consistent(emissions)'
  BY <1>1, <1>2 DEF Consistent, Behind, OnTime
<1> QED
  BY <1>1, <1>3 DEF EmissionInv, EmissionTypeOK, Consistent

LEMMA AbortCallKeepsInv ==
    ASSUME PoolInv, EmissionInv, AbortCall
    PROVE  EmissionInv'
<1>1. /\ call' = NoCall /\ now' = now
      /\ emissions' = emissions /\ pending' = NoCall /\ emitted' = emitted
  BY SameClock DEF AbortCall, Abort
<1>2. Consistent(emissions)'
  BY <1>1 DEF EmissionInv, Consistent, Behind, OnTime
<1> QED
  BY <1>1, <1>2 DEF EmissionInv, EmissionTypeOK, Consistent

\* A step of the pool outside submits, whether it settles what it changes or
\* what the quote of a liquidation counts.
LEMMA BetweenCalls ==
    ASSUME OutsideCall \/ CreationStep
    PROVE  /\ AuctionStep \/ MaintenanceStep \/ EnvironmentStep
           /\ call' = NoCall /\ pending' = pending /\ emitted' = emitted
           /\ \E touched \in SUBSET Holders :
                 /\ emissions' = SettledFor(emissions, ledger, touched)
                 /\ Covers(touched, ledger, ledger')
<1>1. CASE OutsideCall
  <2>1. AuctionStep \/ MaintenanceStep \/ EnvironmentStep
    BY <1>1 DEF OutsideCall, AuctionStep
  <2>2. \E touched \in SUBSET Holders :
           /\ Settled(emissions, ledger, ledger') = SettledFor(emissions, ledger, touched)
           /\ Covers(touched, ledger, ledger')
    BY SettledMoved
  <2> QED
    BY <1>1, <2>1, <2>2, OutsideKeepsCall DEF OutsideCall
<1>2. CASE CreationStep
  <2>1. PICK bid \in SUBSET Assets, lot \in SUBSET Assets, u \in Users,
             percent \in LiquidationPercents : CreateLiquidation(u, bid, lot, percent)
    BY <1>2 DEF CreationStep
  <2>2. NewUserLiquidation(u, bid, lot, percent)
    BY <2>1 DEF CreateLiquidation
  <2>3. AuctionStep
    BY <2>2 DEF AuctionStep, LiquidationStep
  <2>4. ledger'.positions = ledger.positions
    BY <2>2 DEF NewUserLiquidation, Writes, CreateUserLiquidation
  <2>5. PICK v : v = ledger'
    OBVIOUS
  <2>6. \A h : ~Moved(ledger, v, h)
    BY <2>4, <2>5 DEF Moved, BalanceOf
  <2>7. PICK touched \in SUBSET Holders : touched = Quoted(u, bid, lot, percent)
    BY QuotedAreHolders
  <2>8. Covers(touched, ledger, ledger')
    BY <2>5, <2>6 DEF Covers
  <2> QED
    BY <2>1, <2>3, <2>7, <2>8, OutsideKeepsCall DEF CreateLiquidation
<1> QED
  BY <1>1, <1>2

LEMMA OutsideCallKeepsInv ==
    ASSUME PoolInv, EmissionInv, OutsideCall \/ CreationStep
    PROVE  EmissionInv'
<1>1. call' = NoCall /\ pending' = pending /\ emitted' = emitted
  BY BetweenCalls
<1>2. now \in Nat /\ now' \in Nat /\ now <= now'
  BY BetweenCalls, ViewInLedger, SameClock, ClockForward
<1>3. PICK touched \in SUBSET Holders : emissions' = SettledFor(emissions, ledger, touched)
  BY BetweenCalls
<1>4. PICK x : x = SettledFor(emissions, ledger, touched)
  OBVIOUS
<1>5. emissions' = x /\ Consistent(x)
  BY <1>3, <1>4, ViewInLedger, SettledKept DEF EmissionInv
<1>6. \A t \in ReserveTokens : x.data[t] # NoData => x.data[t].last_time \in Nat
  BY <1>5, EmissionFields DEF Consistent, ReserveEmissionData
<1>7. Consistent(emissions)'
  BY <1>2, <1>5, <1>6 DEF Consistent, Behind, OnTime
<1>8. EmissionTypeOK'
  BY <1>1, <1>7 DEF EmissionInv, EmissionTypeOK, Consistent
<1> QED
  BY <1>1, <1>7, <1>8 DEF EmissionInv

\* A step between calls that only changes the emission storage.
LEMMA StoredKeepsInv ==
    ASSUME EmissionInv, UNCHANGED <<poolVars, pending>>, NEW e, Consistent(e), emissions' = e,
           emitted' \in 0..MaxEmitted
    PROVE  EmissionInv'
<1>1. now' = now /\ call' = call /\ pending' = pending
  BY DEF poolVars, vars
<1>2. Consistent(emissions)' /\ (call # NoCall => Consistent(pending))'
  BY <1>1 DEF EmissionInv, Consistent, Behind, OnTime
<1> QED
  BY <1>1, <1>2 DEF EmissionInv, EmissionTypeOK, Consistent

LEMMA ReplacedTwo ==
    ASSUME NEW e \in Emissions, NEW a, NEW d
    PROVE  [e EXCEPT !.allowance = a, !.data = d]
             = [shares |-> e.shares, data |-> d, users |-> e.users, allowance |-> a]
<1>1. PICK x : x = [e EXCEPT !.allowance = a]
  OBVIOUS
<1>2. /\ x = [shares |-> x.shares, data |-> x.data, users |-> x.users, allowance |-> a]
      /\ x.shares = e.shares /\ x.users = e.users
  BY <1>1 DEF Emissions
<1>3. [x EXCEPT !.data = d] = [shares |-> x.shares, data |-> d, users |-> x.users, allowance |-> a]
  BY <1>2
<1>4. [e EXCEPT !.allowance = a, !.data = d] = [x EXCEPT !.data = d]
  BY <1>1 DEF Emissions
<1> QED
  BY <1>2, <1>3, <1>4

LEMMA SetEmissionsConfigKeepsInv ==
    ASSUME EmissionInv, NEW shares \in ShareSettings, SetEmissionsConfig(shares)
    PROVE  EmissionInv'
<1>1. shares \in [ReserveTokens -> Nat]
  BY EmissionAssumption
<1>2. Consistent([emissions EXCEPT !.shares = shares])
  BY <1>1 DEF EmissionInv, Consistent, Emissions, Behind, OnTime
<1> QED
  BY <1>2, StoredKeepsInv DEF SetEmissionsConfig, EmissionInv, EmissionTypeOK

LEMMA GulpEmissionsKeepsInv ==
    ASSUME PoolInv, EmissionInv, NEW amount \in EmissionAmounts, GulpEmissions(amount)
    PROVE  EmissionInv'
<1> DEFINE data == [t \in ReserveTokens |->
                      IF Enabled(t) THEN Stream(t, amount) ELSE emissions.data[t]]
<1>1. amount \in Nat /\ MaxEmitted \in Nat
  BY EmissionAssumption
<1>2. Consistent(emissions) /\ emissions \in Emissions /\ emitted \in 0..MaxEmitted
  BY DEF EmissionInv, EmissionTypeOK
<1>3. /\ emissions.shares \in [ReserveTokens -> Nat]
      /\ emissions.data \in [ReserveTokens -> ReserveEmissionData \cup {NoData}]
      /\ emissions.users \in [Holders -> UserEmissionData \cup {NoData}]
      /\ emissions.allowance \in Nat
  BY <1>2, EmissionFields
<1>4. ASSUME NEW t \in ReserveTokens
      PROVE  /\ data[t] \in ReserveEmissionData \cup {NoData}
             /\ data[t] # NoData => data[t].last_time <= now
             /\ emissions.data[t] # NoData =>
                  data[t] # NoData /\ emissions.data[t].index <= data[t].index
  <2>1. CASE Enabled(t)
    BY <1>1, <1>2, <2>1, StreamForward, ViewInLedger
  <2>2. CASE ~Enabled(t)
    <3>1. emissions.data[t] # NoData => emissions.data[t].index \in Nat
      BY <1>3 DEF ReserveEmissionData
    <3> QED
      BY <1>2, <1>3, <2>2, <3>1 DEF Consistent, OnTime
  <2> QED
    BY <2>1, <2>2
<1>5. data \in [ReserveTokens -> ReserveEmissionData \cup {NoData}]
  BY <1>4
<1> DEFINE e == [emissions EXCEPT !.allowance = emissions.allowance + amount, !.data = data]
<1>6. emissions' = e
  BY DEF GulpEmissions
<1> HIDE DEF data
<1>7. e = [shares |-> emissions.shares, data |-> data, users |-> emissions.users,
           allowance |-> emissions.allowance + amount]
  BY <1>2, ReplacedTwo, Zenon
<1>8. ASSUME NEW h \in Holders, emissions.users[h] # NoData
      PROVE  data[h[1]] # NoData /\ emissions.users[h].index <= data[h[1]].index
  <2>1. h[1] \in ReserveTokens
    BY HolderParts
  <2>2. emissions.data[h[1]] # NoData /\ emissions.users[h].index <= emissions.data[h[1]].index
    BY <1>2, <1>8 DEF Consistent, Behind
  <2>3. data[h[1]] # NoData /\ emissions.data[h[1]].index <= data[h[1]].index
    BY <1>4, <2>1, <2>2
  <2>4. /\ emissions.users[h].index \in Nat /\ emissions.data[h[1]].index \in Nat
        /\ data[h[1]].index \in Nat
    BY <1>3, <1>5, <1>8, <2>1, <2>2, <2>3 DEF UserEmissionData, ReserveEmissionData
  <2> QED
    BY <2>2, <2>3, <2>4
<1> HIDE DEF e
<1>9. Consistent(e)
  <2>1. emissions.allowance + amount \in Nat
    BY <1>1, <1>3
  <2> QED
    BY <2>1, <1>3, <1>4, <1>5, <1>7, <1>8, KeptRecord
<1>10. emitted' \in 0..MaxEmitted
  BY <1>1, <1>2 DEF GulpEmissions
<1> QED
  BY <1>6, <1>9, <1>10, StoredKeepsInv DEF GulpEmissions

LEMMA ClaimKeepsInv ==
    ASSUME PoolInv, EmissionInv, NEW u \in Users, NEW ids \in ClaimLists, Claim(u, ids)
    PROVE  EmissionInv'
<1> DEFINE data == [t \in ReserveTokens |->
                      IF t \in ids THEN AccruedNow(t) ELSE emissions.data[t]]
           paid(h) == h[1] \in ids /\ h[2] = u /\ AccruedNow(h[1]) # NoData
           users == [h \in Holders |->
                       IF paid(h) THEN [index |-> AccruedNow(h[1]).index, accrued |-> 0]
                       ELSE emissions.users[h]]
           rest == emissions.allowance - Claimable(ids, u)
<1>1. ids \subseteq ReserveTokens /\ u \in Accounts
  BY EmissionAssumption, AccountsFinite
<1>2. Consistent(emissions) /\ emissions \in Emissions /\ emitted \in 0..MaxEmitted
  BY DEF EmissionInv, EmissionTypeOK
<1>3. GoodSettings /\ ledger \in Ledger
  BY ViewInLedger
<1>4. /\ emissions.shares \in [ReserveTokens -> Nat]
      /\ emissions.data \in [ReserveTokens -> ReserveEmissionData \cup {NoData}]
      /\ emissions.users \in [Holders -> UserEmissionData \cup {NoData}]
      /\ emissions.allowance \in Nat
  BY <1>2, EmissionFields
<1>5. rest \in Nat
  <2> DEFINE f == [t \in ids |-> OwedNow(t, u)]
  <2>1. IsFiniteSet(ids) /\ f \in [ids -> Nat]
    BY <1>1, <1>2, <1>3, TokensFinite, FS_Subset, OwedNowNat
  <2> HIDE DEF f
  <2>2. SumFunction(f) \in Nat
    BY <2>1, SumFunctionNat
  <2>3. Claimable(ids, u) \in Nat
    BY <2>2 DEF Claimable, f
  <2> QED
    BY <1>4, <2>3 DEF Claim
<1>6. ASSUME NEW t \in ReserveTokens
      PROVE  /\ data[t] \in ReserveEmissionData \cup {NoData}
             /\ data[t] # NoData => data[t].last_time <= now
             /\ emissions.data[t] # NoData =>
                  data[t] # NoData /\ emissions.data[t].index <= data[t].index
  <2>1. CASE t \in ids
    BY <1>2, <1>3, <2>1, AccrualKept DEF AccruedNow
  <2>2. CASE t \notin ids
    <3>1. emissions.data[t] # NoData => emissions.data[t].index \in Nat
      BY <1>4 DEF ReserveEmissionData
    <3> QED
      BY <1>2, <1>4, <2>2, <3>1 DEF Consistent, OnTime
  <2> QED
    BY <2>1, <2>2
<1>7. data \in [ReserveTokens -> ReserveEmissionData \cup {NoData}]
  BY <1>6
<1>8. \A t \in ids : data[t] = AccruedNow(t)
  BY <1>1
<1> DEFINE e == [emissions EXCEPT !.allowance = rest, !.data = data, !.users = users]
<1>9. emissions' = e
  BY DEF Claim
<1> HIDE DEF data, rest
<1>10. ASSUME NEW h \in Holders
       PROVE  /\ users[h] \in UserEmissionData \cup {NoData}
              /\ users[h] # NoData =>
                   data[h[1]] # NoData /\ users[h].index <= data[h[1]].index
  <2>1. h[1] \in ReserveTokens
    BY HolderParts
  <2>2. CASE paid(h)
    <3>1. data[h[1]] = AccruedNow(h[1]) /\ data[h[1]] # NoData
      BY <1>8, <2>2
    <3>2. data[h[1]].index \in Nat
      BY <1>7, <2>1, <3>1 DEF ReserveEmissionData
    <3>3. users[h] = [index |-> data[h[1]].index, accrued |-> 0]
      BY <2>2, <3>1
    <3> HIDE DEF users
    <3> QED
      BY <3>1, <3>2, <3>3 DEF UserEmissionData
  <2>3. CASE ~paid(h)
    <3>1. users[h] = emissions.users[h]
      BY <2>3
    <3> HIDE DEF users, paid
    <3>2. emissions.users[h] \in UserEmissionData \cup {NoData}
      BY <1>4
    <3>3. CASE emissions.users[h] # NoData
      <4>1. /\ emissions.data[h[1]] # NoData
            /\ emissions.users[h].index <= emissions.data[h[1]].index
        BY <1>2, <3>3 DEF Consistent, Behind
      <4>2. data[h[1]] # NoData /\ emissions.data[h[1]].index <= data[h[1]].index
        BY <1>6, <2>1, <4>1
      <4>3. /\ emissions.users[h].index \in Nat /\ emissions.data[h[1]].index \in Nat
            /\ data[h[1]].index \in Nat
        BY <1>4, <1>7, <2>1, <3>2, <3>3, <4>1, <4>2 DEF UserEmissionData, ReserveEmissionData
      <4> QED
        BY <3>1, <3>2, <4>1, <4>2, <4>3
    <3> QED
      BY <3>1, <3>2, <3>3
  <2> QED
    BY <2>2, <2>3
<1>11. users \in [Holders -> UserEmissionData \cup {NoData}]
  BY <1>10
<1> HIDE DEF users
<1>12. e = [shares |-> emissions.shares, data |-> data, users |-> users, allowance |-> rest]
  <2>1. PICK x : x = [emissions EXCEPT !.allowance = rest, !.data = data]
    OBVIOUS
  <2>2. x = [shares |-> emissions.shares, data |-> data, users |-> emissions.users,
             allowance |-> rest]
    BY <1>2, <2>1, ReplacedTwo, Zenon
  <2>3. [x EXCEPT !.users = users]
          = [shares |-> emissions.shares, data |-> data, users |-> users, allowance |-> rest]
    BY <2>2
  <2>4. e = [x EXCEPT !.users = users]
    BY <1>2, <2>1 DEF Emissions
  <2> QED
    BY <2>3, <2>4
<1> HIDE DEF e
<1>13. Consistent(e)
  BY <1>4, <1>5, <1>6, <1>7, <1>10, <1>11, <1>12, KeptRecord
<1> QED
  BY <1>2, <1>9, <1>13, StoredKeepsInv DEF Claim

LEMMA InitEstablishesEmissionInv == EmissionInit => EmissionInv
<1> SUFFICES ASSUME EmissionInit
             PROVE  EmissionInv
  OBVIOUS
<1>1. call = NoCall /\ emissions = NoEmissions /\ pending = NoCall /\ emitted = 0
  BY DEF EmissionInit, StartWithoutEmissions, Init
<1>2. Consistent(NoEmissions)
  BY KeptRecord DEF NoEmissions
<1>3. MaxEmitted \in Nat
  BY EmissionAssumption
<1> QED
  BY <1>1, <1>2, <1>3 DEF EmissionInv, EmissionTypeOK, Consistent

LEMMA EmissionNextKeepsInv ==
    PoolInv /\ EmissionInv /\ [EmissionNext]_emissionVars => EmissionInv'
<1> SUFFICES ASSUME PoolInv, EmissionInv, [EmissionNext]_emissionVars
             PROVE  EmissionInv'
  OBVIOUS
<1>1. CASE DuringCall
  BY <1>1, DuringCallKeepsInv
<1>2. CASE CommitCall
  BY <1>2, CommitCallKeepsInv
<1>3. CASE AbortCall
  BY <1>3, AbortCallKeepsInv
<1>4. CASE OutsideCall \/ CreationStep
  BY <1>4, OutsideCallKeepsInv
<1>5. CASE \E shares \in ShareSettings : SetEmissionsConfig(shares)
  BY <1>5, SetEmissionsConfigKeepsInv
<1>6. CASE \E amount \in EmissionAmounts : GulpEmissions(amount)
  BY <1>6, GulpEmissionsKeepsInv
<1>7. CASE \E u \in Users, ids \in ClaimLists : Claim(u, ids)
  BY <1>7, ClaimKeepsInv
<1>8. CASE UNCHANGED emissionVars
  <2>1. now' = now /\ call' = call /\ UNCHANGED <<emissions, pending, emitted>>
    BY <1>8 DEF emissionVars, poolVars, vars
  <2> QED
    BY <2>1 DEF EmissionInv, EmissionTypeOK, Consistent, Behind, OnTime
<1> QED
  BY <1>1, <1>2, <1>3, <1>4, <1>5, <1>6, <1>7, <1>8 DEF EmissionNext

\* Nobody is ever owed a negative amount, and claims never overdraw what the
\* backstop lets the pool take: for any reserves, holders, streams and claims.
THEOREM EmissionsTypeCorrect == EmissionSpec => []EmissionTypeOK
<1>1. EmissionSpec => []PoolInv
  BY EmissionsImplementPool, PoolInvariant, PTL
<1>2. EmissionSpec => []EmissionInv
  BY <1>1, InitEstablishesEmissionInv, EmissionNextKeepsInv, PTL DEF EmissionSpec
<1>3. EmissionInv => EmissionTypeOK
  BY DEF EmissionInv
<1> QED
  BY <1>2, <1>3, PTL

-----------------------------------------------------------------------------
(* What an account is owed changes with time alone.                        *)
(*                                                                         *)
(* A reserve token that is settled now has nothing more to accrue, so its  *)
(* supply may move on, even to nothing.  A submit works on a copy: as long *)
(* as it runs, what the copy owes is what the storage owes.                *)

Still(d) ==
    \/ d = NoData
    \/ d.last_time >= d.expiration \/ d.last_time = now \/ d.eps = 0

OwedBy(e, w, t, u) ==
    Owed(Accrued(e.data[t], t, SupplyOf(w, t)), t, e.users[<<t, u>>], BalanceOf(w, t, u))

OwedAlike(e, w, f, v, t) == \A u \in Accounts : OwedBy(f, v, t, u) = OwedBy(e, w, t, u)

Carried(e, w, f, v) ==
    /\ f.allowance = e.allowance
    /\ \A t \in ReserveTokens : SupplyOf(w, t) # 0 =>
         /\ SupplyOf(v, t) # 0 \/ Still(f.data[t])
         /\ OwedAlike(e, w, f, v, t)

LEMMA NothingToAccrue ==
    ASSUME NEW d, Still(d), d \in ReserveEmissionData \cup {NoData}, now \in Nat,
           NEW t, NEW supply
    PROVE  Accrued(d, t, supply) = d
<1>1. CASE d = NoData
  BY <1>1 DEF Accrued
<1>2. CASE d # NoData
  <2>1. d.last_time \in Nat /\ d.expiration \in Nat
    BY <1>2 DEF ReserveEmissionData
  <2>2. ~IsAccruing(d, supply)
    BY <1>2, <2>1 DEF Still, IsAccruing
  <2> QED
    BY <2>2 DEF Accrued
<1> QED
  BY <1>1, <1>2

LEMMA AccruedIsStill ==
    ASSUME now \in Nat, NEW d \in ReserveEmissionData \cup {NoData}, NEW t, NEW supply,
           supply # 0 \/ Still(d)
    PROVE  Still(Accrued(d, t, supply))
<1> DEFINE a == Accrued(d, t, supply)
<1>1. CASE Still(d)
  BY <1>1, NothingToAccrue
<1>2. CASE ~Still(d)
  <2>1. d # NoData /\ IsAccruing(d, supply)
    <3>1. d \in ReserveEmissionData
      BY <1>2 DEF Still
    <3>2. d.last_time \in Nat /\ d.expiration \in Nat
      BY <3>1 DEF ReserveEmissionData
    <3> QED
      BY <1>2, <3>2 DEF Still, IsAccruing
  <2> DEFINE until == Earlier(now, d.expiration)
             growth == DivFloor((until - d.last_time) * d.eps, supply, ScalarOf(t))
  <2>2. a = [d EXCEPT !.index = @ + growth, !.last_time = until]
    BY <2>1 DEF Accrued
  <2>3. d \in ReserveEmissionData
    BY <2>1
  <2>4. until = now \/ until = d.expiration
    BY DEF Earlier
  <2> HIDE DEF until, growth, a
  <2>5. a.last_time = until /\ a.expiration = d.expiration
    BY <2>2, <2>3 DEF ReserveEmissionData
  <2>6. d.expiration \in Nat
    BY <2>3 DEF ReserveEmissionData
  <2>7. Still(a)
    BY <2>4, <2>5, <2>6 DEF Still
  <2> QED
    BY <2>7 DEF a
<1> QED
  BY <1>1, <1>2

LEMMA AccruedTwice ==
    ASSUME now \in Nat, NEW d \in ReserveEmissionData \cup {NoData}, NEW t, NEW supply,
           Accrued(d, t, supply) \in ReserveEmissionData \cup {NoData}
    PROVE  Accrued(Accrued(d, t, supply), t, supply) = Accrued(d, t, supply)
<1>1. CASE supply # 0 \/ Still(d)
  BY <1>1, AccruedIsStill, NothingToAccrue
<1>2. CASE supply = 0
  BY <1>2 DEF Accrued, IsAccruing
<1> QED
  BY <1>1, <1>2

LEMMA NoGrowth ==
    ASSUME NEW y \in Int, NEW k \in Int, k > 0
    PROVE  MulFloor(y, 0, k) = 0
<1>1. y * 0 = 0
  OBVIOUS
<1>2. FloorDiv(0, k) = 0
  BY DivBounds, SMT DEF FloorDiv
<1> QED
  BY <1>1, <1>2 DEF MulFloor

\* An account settled at the index of now is owed what was noted down.
LEMMA NotedDown ==
    ASSUME GoodSettings, NEW t \in ReserveTokens, NEW d \in ReserveEmissionData,
           NEW n \in Nat, NEW y \in Nat
    PROVE  Owed(d, t, [index |-> d.index, accrued |-> n], y) = n
<1> DEFINE f == [index |-> d.index, accrued |-> n]
           k == ScalarOf(t) * Scalar7
<1>1. d.index \in Nat /\ d # NoData
  BY EmissionAssumption DEF ReserveEmissionData
<1>2. f \in UserEmissionData
  BY <1>1 DEF UserEmissionData
<1>3. f # NoData
  BY <1>2, EmissionAssumption
<1>4. f.index = d.index /\ f.accrued = n
  OBVIOUS
<1>5. k \in Int /\ k > 0
  BY ScalarPositive
<1> HIDE DEF f, k
<1>6. MulFloor(y, 0, k) = 0 /\ d.index - f.index = 0
  BY <1>1, <1>4, <1>5, NoGrowth
<1>7. Owed(d, t, f, y) = f.accrued + MulFloor(y, d.index - f.index, k)
  BY <1>1, <1>3 DEF Owed, k
<1>8. Owed(d, t, f, y) = n
  BY <1>4, <1>6, <1>7
<1> QED
  BY <1>8 DEF f

LEMMA OwedOnceSettled ==
    ASSUME GoodSettings, NEW t \in ReserveTokens, NEW d \in ReserveEmissionData \cup {NoData},
           NEW entry \in UserEmissionData \cup {NoData},
           entry # NoData => d # NoData /\ entry.index <= d.index,
           NEW x \in Nat, NEW y \in Nat
    PROVE  Owed(d, t, Entry(d, t, entry, x), y) = Owed(d, t, entry, x)
<1>1. CASE d = NoData
  BY <1>1 DEF Owed
<1>2. CASE d # NoData
  <2>1. Owed(d, t, entry, x) \in Nat
    BY OwedIsNat
  <2>2. Entry(d, t, entry, x) = [index |-> d.index, accrued |-> Owed(d, t, entry, x)]
    BY <1>2 DEF Entry
  <2> DEFINE n == Owed(d, t, entry, x)
  <2> HIDE DEF n
  <2>3. n \in Nat /\ Entry(d, t, entry, x) = [index |-> d.index, accrued |-> n]
    BY <2>1, <2>2 DEF n
  <2>4. Owed(d, t, Entry(d, t, entry, x), y) = n
    BY <1>2, <2>3, NotedDown
  <2> QED
    BY <2>4 DEF n
<1> QED
  BY <1>1, <1>2

-----------------------------------------------------------------------------
(* Positions that change settle first.                                     *)

\* Somebody holds what is supplied: the supply moves only when a balance does.
LEMMA SupplyIsHeld ==
    ASSUME NEW w, SharesMatch(w), NEW t \in ReserveTokens
    PROVE  SupplyOf(w, t) = SumFunction([u \in Accounts |-> BalanceOf(w, t, u)])
<1>1. t[1] \in Assets
  BY HolderParts
<1>2. CASE t[2] = "d"
  BY <1>1, <1>2 DEF SharesMatch, SupplyOf, BalanceOf
<1>3. CASE t[2] # "d"
  BY <1>1, <1>3 DEF SharesMatch, SupplyOf, BalanceOf
<1> QED
  BY <1>2, <1>3

LEMMA UntouchedSupply ==
    ASSUME NEW w, NEW v, SharesMatch(w), SharesMatch(v), NEW t \in ReserveTokens,
           \A u \in Accounts : BalanceOf(v, t, u) = BalanceOf(w, t, u)
    PROVE  SupplyOf(v, t) = SupplyOf(w, t)
<1>1. [u \in Accounts |-> BalanceOf(v, t, u)] = [u \in Accounts |-> BalanceOf(w, t, u)]
  OBVIOUS
<1> QED
  BY <1>1, SupplyIsHeld

\* What a step settles: the reserve tokens somebody is settled in, and the
\* entries of who is.
LEMMA SettledData ==
    ASSUME NEW e \in Emissions, NEW w, NEW touched \in SUBSET Holders, NEW t \in ReserveTokens
    PROVE  LET f == SettledFor(e, w, touched)
           IN /\ f.allowance = e.allowance
              /\ f.data[t] = IF \E u \in Accounts : <<t, u>> \in touched
                             THEN Accrued(e.data[t], t, SupplyOf(w, t)) ELSE e.data[t]
<1> DEFINE f == SettledFor(e, w, touched)
           data == [s \in ReserveTokens |->
                      IF \E h \in touched : h[1] = s THEN Accrued(e.data[s], s, SupplyOf(w, s))
                      ELSE e.data[s]]
<1>1. f.allowance = e.allowance /\ f.data = data
  BY DEF SettledFor, Emissions
<1>2. (\E h \in touched : h[1] = t) <=> \E u \in Accounts : <<t, u>> \in touched
  <2>1. ASSUME NEW h \in touched, h[1] = t
        PROVE  \E u \in Accounts : <<t, u>> \in touched
    <3>1. h = <<h[1], h[2]>> /\ h[2] \in Accounts
      BY DEF Holders
    <3> QED
      BY <2>1, <3>1
  <2>2. \A u \in Accounts : <<t, u>>[1] = t
    OBVIOUS
  <2> QED
    BY <2>1, <2>2
<1> QED
  BY <1>1, <1>2

LEMMA SettledEntry ==
    ASSUME NEW e \in Emissions, NEW w, NEW touched \in SUBSET Holders,
           NEW t \in ReserveTokens, NEW u \in Accounts
    PROVE  /\ <<t, u>> \in touched =>
                SettledFor(e, w, touched).users[<<t, u>>]
                  = Entry(Accrued(e.data[t], t, SupplyOf(w, t)), t, e.users[<<t, u>>],
                          BalanceOf(w, t, u))
           /\ <<t, u>> \notin touched =>
                SettledFor(e, w, touched).users[<<t, u>>] = e.users[<<t, u>>]
<1> DEFINE d == Accrued(e.data[t], t, SupplyOf(w, t))
           data == [s \in ReserveTokens |->
                      IF \E h \in touched : h[1] = s THEN Accrued(e.data[s], s, SupplyOf(w, s))
                      ELSE e.data[s]]
           users == [h \in Holders |->
                      IF h \in touched
                      THEN Entry(data[h[1]], h[1], e.users[h], BalanceOf(w, h[1], h[2]))
                      ELSE e.users[h]]
           g == <<t, u>>
<1>1. SettledFor(e, w, touched).users = users
  BY DEF SettledFor, Emissions
<1>2. g \in Holders /\ g[1] = t /\ g[2] = u
  BY HolderParts
<1>3. g \in touched => data[t] = d
  BY <1>2
<1> HIDE DEF data, d, g
<1>4. users[g] = IF g \in touched THEN Entry(data[t], t, e.users[g], BalanceOf(w, t, u))
                 ELSE e.users[g]
  BY <1>2
<1> HIDE DEF users
<1> QED
  BY <1>1, <1>2, <1>3, <1>4 DEF d, g

LEMMA SettlingOwesAlike ==
    ASSUME GoodSettings, NEW e, Consistent(e), NEW w \in Ledger, NEW v \in Ledger,
           SharesMatch(w), SharesMatch(v),
           NEW touched \in SUBSET Holders, Covers(touched, w, v), NEW t \in ReserveTokens,
           SupplyOf(w, t) # 0 \/ Still(e.data[t])
    PROVE  /\ SupplyOf(v, t) # 0 \/ Still(SettledFor(e, w, touched).data[t])
           /\ OwedAlike(e, w, SettledFor(e, w, touched), v, t)
<1> DEFINE f == SettledFor(e, w, touched)
           d == Accrued(e.data[t], t, SupplyOf(w, t))
           moved(u) == <<t, u>> \in touched
<1>0. \A u \in Accounts : ~moved(u) => BalanceOf(v, t, u) = BalanceOf(w, t, u)
  BY HolderParts DEF Covers, Moved
<1>1. /\ d \in ReserveEmissionData \cup {NoData}
      /\ e.data[t] \in ReserveEmissionData \cup {NoData}
      /\ now \in Nat /\ f \in Emissions /\ e \in Emissions
      /\ \A u \in Accounts : e.users[<<t, u>>] \in UserEmissionData \cup {NoData}
  BY AccrualKept, SettledKept, EmissionFields, HolderParts DEF Consistent, GoodSettings
<1>2. /\ (\E u \in Accounts : moved(u)) => f.data[t] = d
      /\ ~(\E u \in Accounts : moved(u)) => f.data[t] = e.data[t]
  BY <1>1, SettledData
<1>3. ASSUME NEW u \in Accounts
      PROVE  /\ moved(u) =>
                  f.users[<<t, u>>] = Entry(d, t, e.users[<<t, u>>], BalanceOf(w, t, u))
             /\ ~moved(u) => f.users[<<t, u>>] = e.users[<<t, u>>]
  BY <1>1, SettledEntry
<1> HIDE DEF f
<1>5. CASE \E u \in Accounts : moved(u)
  <2>1. f.data[t] = d
    BY <1>2, <1>5
  <2>2. Still(d)
    BY <1>1, AccruedIsStill
  <2>3. Accrued(d, t, SupplyOf(v, t)) = d
    BY <1>1, <2>2, NothingToAccrue
  <2>4. ASSUME NEW u \in Accounts
        PROVE  OwedBy(f, v, t, u) = OwedBy(e, w, t, u)
    <3> DEFINE entry == e.users[<<t, u>>]
               x == BalanceOf(w, t, u)
               y == BalanceOf(v, t, u)
    <3>1. OwedBy(e, w, t, u) = Owed(d, t, entry, x)
      BY DEF OwedBy
    <3>2. OwedBy(f, v, t, u) = Owed(d, t, f.users[<<t, u>>], y)
      BY <2>1, <2>3 DEF OwedBy
    <3>3. x \in Nat /\ y \in Nat /\ entry \in UserEmissionData \cup {NoData}
      BY <1>1, SharesNat
    <3>4. CASE moved(u)
      <4>1. f.users[<<t, u>>] = Entry(d, t, entry, x)
        BY <1>3, <3>4
      <4>2. entry # NoData => d # NoData /\ entry.index <= d.index
        <5>1. entry # NoData => e.data[t] # NoData /\ entry.index <= e.data[t].index
          BY HolderParts DEF Consistent, Behind
        <5>2. e.data[t] # NoData => d # NoData /\ e.data[t].index <= d.index
          BY AccrualKept
        <5>3. /\ entry # NoData => entry.index \in Nat
              /\ e.data[t] # NoData => e.data[t].index \in Nat
              /\ d # NoData => d.index \in Nat
          BY <1>1, <3>3 DEF UserEmissionData, ReserveEmissionData
        <5> QED
          BY <5>1, <5>2, <5>3
      <4> HIDE DEF entry, x, y, d
      <4>3. Owed(d, t, Entry(d, t, entry, x), y) = Owed(d, t, entry, x)
        BY <1>1, <3>3, <4>2, OwedOnceSettled
      <4> QED
        BY <3>1, <3>2, <4>1, <4>3
    <3>5. CASE ~moved(u)
      BY <1>0, <1>3, <3>1, <3>2, <3>5
    <3> QED
      BY <3>4, <3>5
  <2> QED
    BY <2>1, <2>2, <2>4 DEF OwedAlike, f
<1>6. CASE ~(\E u \in Accounts : moved(u))
  <2>1. \A u \in Accounts : ~moved(u)
    BY <1>6
  <2>2. \A u \in Accounts : BalanceOf(v, t, u) = BalanceOf(w, t, u)
    BY <1>0, <2>1
  <2>3. SupplyOf(v, t) = SupplyOf(w, t)
    BY <2>2, UntouchedSupply
  <2>4. f.data[t] = e.data[t] /\ \A u \in Accounts : f.users[<<t, u>>] = e.users[<<t, u>>]
    BY <1>2, <1>3, <1>6, <2>1
  <2> QED
    BY <2>2, <2>3, <2>4 DEF OwedAlike, OwedBy, f
<1> QED
  BY <1>5, <1>6

-----------------------------------------------------------------------------
(* Decimals never change, and a submit changes its working copy only.      *)

SameScalars == \A a \in Assets : config'.reserves[a].scalar = config.reserves[a].scalar

LEMMA ScalarsFixed ==
    ASSUME GoodSettings, [Next]_poolVars
    PROVE  SameScalars
<1>1. ASSUME config' = config PROVE SameScalars
  BY <1>1 DEF SameScalars
<1>2. config.reserves \in [Assets -> ReserveConfig] /\ config \in Config
  BY DEF GoodSettings, Config
<1>3. CASE Begin \/ Commit \/ Abort \/ UNCHANGED poolVars
  BY <1>1, <1>3 DEF Begin, BeginSubmit, BeginFlashLoan, Commit, Abort, poolVars, vars
<1>4. CASE RequestStep
  BY <1>1, <1>4 DEF RequestStep, Supply, Withdraw, SupplyCollateral, WithdrawCollateral, Borrow,
     Repay, FillUserLiquidationAuction, FillBadDebtAuction, FillInterestAuction,
     DeleteLiquidationAuction, Proceed, ProceedChecked, ProceedWith
<1>5. CASE AuctionStep
  BY <1>1, <1>5 DEF AuctionStep, LiquidationStep, OtherAuctionStep, NewUserLiquidation, NewBadDebtAuction, NewInterestAuction,
     DeleteStaleLiquidation, DeleteStaleBadDebt, DeleteStaleInterest, Writes
<1>6. CASE EnvironmentStep
  BY <1>1, <1>6 DEF EnvironmentStep, OutsideStep, BackstopStep, Tick, NewPrice, Gift,
     BackstopDeposit, BackstopWithdraw, BackstopMoves, QueueChange, Writes
<1>7. CASE MaintenanceStep
  <2>1. CASE \E a \in Assets : SetReserve(a)
    <3>1. PICK a \in Assets : SetReserve(a)
      BY <2>1
    <3> DEFINE cur == config.reserves[a]
               cfg == config.queued[a].new_config
    <3>2. config' = [config EXCEPT !.queued[a] = NoQueue, !.reserves[a] = cfg]
      BY <3>1 DEF SetReserve
    <3>3. cfg.scalar = cur.scalar
      BY <3>1 DEF SetReserve, ValidChange
    <3> HIDE DEF cfg
    <3>4. config'.reserves = [config.reserves EXCEPT ![a] = cfg]
      BY <1>2, <3>2 DEF Config
    <3> QED
      BY <1>2, <3>3, <3>4 DEF SameScalars
  <2>2. CASE ~\E a \in Assets : SetReserve(a)
    <3>1. config'.reserves = config.reserves
      BY <1>2, <1>7, <2>2 DEF MaintenanceStep, BadDebt, Gulp, UpdatePool, QueueSetReserve,
         CancelSetReserve, UpdateStatus, SetStatus, SetsStatus, SetsConfig, Writes, Config
    <3> QED
      BY <3>1 DEF SameScalars
  <2> QED
    BY <2>1, <2>2
<1> QED
  BY <1>1, <1>3, <1>4, <1>5, <1>6, <1>7 DEF Next

LEMMA OwedAfter ==
    ASSUME now' = now, SameScalars, NEW t \in ReserveTokens, NEW u,
           NEW e, emissions' = e, NEW w, ledger' = w
    PROVE  OwedNow(t, u)' = OwedBy(e, w, t, u)
<1>0. ScalarOf(t)' = ScalarOf(t)
  BY HolderParts DEF SameScalars, ScalarOf
<1>1. SupplyOf(ledger, t)' = SupplyOf(w, t)
  BY DEF SupplyOf
<1>2. BalanceOf(ledger, t, u)' = BalanceOf(w, t, u)
  BY DEF BalanceOf
<1>3. AccruedNow(t)' = Accrued(e.data[t], t, SupplyOf(w, t))
  BY <1>0, <1>1 DEF AccruedNow, Accrued, IsAccruing
<1>4. OwedNow(t, u)' = Owed(Accrued(e.data[t], t, SupplyOf(w, t)), t, e.users[<<t, u>>],
                            BalanceOf(w, t, u))
  BY <1>0, <1>2, <1>3 DEF OwedNow, Owed
<1> QED
  BY <1>4 DEF OwedBy

LEMMA OwedBefore ==
    ASSUME NEW t, NEW u
    PROVE  OwedNow(t, u) = OwedBy(emissions, ledger, t, u)
  BY DEF OwedNow, AccruedNow, OwedBy

CallCarried == call # NoCall => Carried(emissions, ledger, pending, call.ledger)

\* What a pool step settles, of a copy that owed what the storage owes.
LEMMA SettlingCarries ==
    ASSUME GoodSettings, NEW e, Consistent(e), NEW w \in Ledger, NEW v \in Ledger,
           SharesMatch(w), SharesMatch(v),
           NEW touched \in SUBSET Holders, Covers(touched, w, v),
           NEW e0, NEW w0, Carried(e0, w0, e, w)
    PROVE  Carried(e0, w0, SettledFor(e, w, touched), v)
<1>1. SettledFor(e, w, touched).allowance = e.allowance
  BY DEF SettledFor, Consistent, Emissions
<1>2. ASSUME NEW t \in ReserveTokens, SupplyOf(w0, t) # 0
      PROVE  /\ SupplyOf(v, t) # 0 \/ Still(SettledFor(e, w, touched).data[t])
             /\ OwedAlike(e0, w0, SettledFor(e, w, touched), v, t)
  <2>1. (SupplyOf(w, t) # 0 \/ Still(e.data[t])) /\ OwedAlike(e0, w0, e, w, t)
    BY <1>2 DEF Carried
  <2>2. /\ SupplyOf(v, t) # 0 \/ Still(SettledFor(e, w, touched).data[t])
        /\ OwedAlike(e, w, SettledFor(e, w, touched), v, t)
    BY <2>1, SettlingOwesAlike
  <2> QED
    BY <2>1, <2>2 DEF OwedAlike
<1> QED
  BY <1>1, <1>2 DEF Carried

LEMMA CarriedAtFirst ==
    ASSUME NEW e, NEW w
    PROVE  Carried(e, w, e, w)
  BY DEF Carried, OwedAlike

LEMMA CarriedLater ==
    ASSUME now' = now, config' = config, NEW e, NEW w, NEW f, NEW v, Carried(e, w, f, v),
           emissions' = e, ledger' = w, pending' = f, call'.ledger = v
    PROVE  Carried(emissions, ledger, pending, call.ledger)'
<1>1. ASSUME NEW t
      PROVE  /\ ScalarOf(t)' = ScalarOf(t)
             /\ SupplyOf(ledger, t)' = SupplyOf(w, t)
             /\ SupplyOf(call.ledger, t)' = SupplyOf(v, t)
  BY DEF ScalarOf, SupplyOf
<1>2. ASSUME NEW t
      PROVE  /\ Accrued(emissions.data[t], t, SupplyOf(ledger, t))'
                  = Accrued(e.data[t], t, SupplyOf(w, t))
             /\ Accrued(pending.data[t], t, SupplyOf(call.ledger, t))'
                  = Accrued(f.data[t], t, SupplyOf(v, t))
  BY <1>1 DEF Accrued, IsAccruing
<1>3. ASSUME NEW t, NEW u
      PROVE  /\ BalanceOf(ledger, t, u)' = BalanceOf(w, t, u)
             /\ BalanceOf(call.ledger, t, u)' = BalanceOf(v, t, u)
  BY DEF BalanceOf
<1>4. ASSUME NEW t, NEW u
      PROVE  /\ OwedBy(emissions, ledger, t, u)' = OwedBy(e, w, t, u)
             /\ OwedBy(pending, call.ledger, t, u)' = OwedBy(f, v, t, u)
  BY <1>1, <1>2, <1>3 DEF OwedBy, Owed
<1>5. ASSUME NEW t
      PROVE  Still(pending.data[t])' <=> Still(f.data[t])
  BY DEF Still
<1> QED
  BY <1>1, <1>4, <1>5 DEF Carried, OwedAlike

LEMMA DuringCallCarries ==
    ASSUME PoolInv, PoolInv', EmissionInv, CallCarried, DuringCall
    PROVE  CallCarried' /\ ledger' = ledger /\ emissions' = emissions
<1>0. now' = now /\ config' = config /\ ledger' = ledger /\ emissions' = emissions
  <2>1. CASE Begin
    BY <2>1 DEF DuringCall, Begin, BeginSubmit, BeginFlashLoan
  <2>2. CASE RequestStep
    BY <2>2, RequestLeaves DEF DuringCall
  <2> QED
    BY <2>1, <2>2 DEF DuringCall
<1> SUFFICES ASSUME call' # NoCall PROVE CallCarried'
  BY <1>0 DEF CallCarried
<1> DEFINE e == IF call = NoCall THEN emissions ELSE pending
           w == View
<1>1. GoodSettings /\ w \in Ledger /\ SharesMatch(w) /\ Consistent(e)
  BY DEF PoolInv, WellFormed, GoodSettings, View, EmissionInv
<1>2. PICK v : v = call'.ledger
  OBVIOUS
<1>3. v \in Ledger /\ SharesMatch(v) /\ View' = v
  <2>1. WellFormed(call.ledger)'
    BY DEF PoolInv
  <2>2. SharesMatch(call.ledger)' /\ call'.ledger \in Ledger
    BY <2>1 DEF WellFormed
  <2>3. SharesMatch(v)
    BY <1>2, <2>2 DEF SharesMatch
  <2> QED
    BY <1>2, <2>2, <2>3 DEF View
<1>4. PICK touched, x :
        /\ touched \in SUBSET Holders
        /\ x = Settled(e, w, v) /\ x = SettledFor(e, w, touched) /\ Covers(touched, w, v)
  BY SettledMoved
<1>5. pending' = x
  BY <1>3, <1>4 DEF DuringCall
<1>6. Carried(emissions, ledger, e, w)
  BY CarriedAtFirst DEF CallCarried, View
<1> HIDE DEF e, w
<1>7. Carried(emissions, ledger, x, v)
  BY <1>1, <1>3, <1>4, <1>6, SettlingCarries
<1>8. PICK e0, w0 : e0 = emissions /\ w0 = ledger
  OBVIOUS
<1>9. Carried(emissions, ledger, pending, call.ledger)'
  BY <1>0, <1>2, <1>5, <1>7, <1>8, CarriedLater
<1> QED
  BY <1>9 DEF CallCarried

-----------------------------------------------------------------------------
(* What each step does to what is owed.                                    *)

OwesAsBefore ==
    /\ emissions'.allowance >= emissions.allowance
    /\ \A t \in ReserveTokens : SupplyOf(ledger, t) # 0 =>
         \A u \in Accounts : OwedNow(t, u)' = OwedNow(t, u)

\* A claim pays one user what it is owed, of some reserve tokens.
PaysOne ==
    \E u \in Users :
        /\ emissions.allowance - emissions'.allowance
             = SumFunction([t \in ReserveTokens |-> OwedNow(t, u) - OwedNow(t, u)'])
        /\ \A t \in ReserveTokens : OwedNow(t, u)' \in {0, OwedNow(t, u)}
        /\ \A t \in ReserveTokens : SupplyOf(ledger, t) # 0 =>
             \A v \in Accounts \ {u} : OwedNow(t, v)' = OwedNow(t, v)

LEMMA CarriedOwes ==
    ASSUME now' = now, SameScalars, emissions \in Emissions,
           NEW e, emissions' = e, NEW w, ledger' = w, Carried(emissions, ledger, e, w)
    PROVE  OwesAsBefore
<1>1. emissions'.allowance >= emissions.allowance
  BY EmissionFields DEF Carried
<1>2. ASSUME NEW t \in ReserveTokens, SupplyOf(ledger, t) # 0, NEW u \in Accounts
      PROVE  OwedNow(t, u)' = OwedNow(t, u)
  <2>1. OwedBy(e, w, t, u) = OwedBy(emissions, ledger, t, u)
    BY <1>2 DEF Carried, OwedAlike
  <2> QED
    BY <2>1, OwedAfter, OwedBefore
<1> QED
  BY <1>1, <1>2 DEF OwesAsBefore

LEMMA CommitCallOwes ==
    ASSUME EmissionInv, CallCarried, CommitCall, SameScalars
    PROVE  OwesAsBefore
<1>1. call # NoCall /\ now' = now /\ emissions' = pending
      /\ ledger' = [call.ledger EXCEPT !.balance = BalancesAfter]
  BY DEF CommitCall, Commit
<1>2. Carried(emissions, ledger, pending, call.ledger)
  BY <1>1 DEF CallCarried
<1>3. PICK w : w = [call.ledger EXCEPT !.balance = BalancesAfter]
  OBVIOUS
<1>4. PICK f : f = pending
  OBVIOUS
<1>5. w.reserves = call.ledger.reserves /\ w.positions = call.ledger.positions
  BY <1>3
<1>6. \A t, u : SupplyOf(w, t) = SupplyOf(call.ledger, t) /\ BalanceOf(w, t, u) = BalanceOf(call.ledger, t, u)
  BY <1>5 DEF SupplyOf, BalanceOf
<1>7. Carried(emissions, ledger, f, w)
  BY <1>2, <1>4, <1>6 DEF Carried, OwedAlike, OwedBy
<1> QED
  BY <1>1, <1>3, <1>4, <1>7, CarriedOwes DEF EmissionInv, EmissionTypeOK

LEMMA KeptOwes ==
    ASSUME EmissionInv, now' = now, SameScalars, emissions' = emissions, ledger' = ledger
    PROVE  OwesAsBefore
<1>1. PICK e, w : e = emissions /\ w = ledger
  OBVIOUS
<1>2. Carried(emissions, ledger, e, w)
  BY <1>1, CarriedAtFirst
<1> QED
  BY <1>1, <1>2, CarriedOwes DEF EmissionInv, EmissionTypeOK

LEMMA OutsideCallOwes ==
    ASSUME PoolInv, PoolInv', EmissionInv, OutsideCall \/ CreationStep, SameScalars, now' = now
    PROVE  OwesAsBefore
<1>1. GoodSettings /\ ledger \in Ledger /\ SharesMatch(ledger) /\ Consistent(emissions)
  BY DEF PoolInv, WellFormed, GoodSettings, EmissionInv
<1>2. PICK v : v = ledger'
  OBVIOUS
<1>3. v \in Ledger /\ SharesMatch(v)
  BY <1>2 DEF PoolInv, WellFormed, SharesMatch
<1>4. PICK touched, x :
        /\ touched \in SUBSET Holders
        /\ emissions' = x /\ x = SettledFor(emissions, ledger, touched)
        /\ Covers(touched, ledger, v)
  BY <1>2, BetweenCalls
<1>5. Carried(emissions, ledger, x, v)
  BY <1>1, <1>3, <1>4, CarriedAtFirst, SettlingCarries
<1>6. emissions' = x
  BY <1>4
<1> QED
  BY <1>2, <1>5, <1>6, CarriedOwes DEF EmissionInv, EmissionTypeOK

\* Of the storage, what is owed depends on the data and the entry alone.
LEMMA StoredAfter ==
    ASSUME UNCHANGED poolVars, GoodSettings, NEW e, emissions' = e,
           NEW t \in ReserveTokens, NEW u
    PROVE  OwedNow(t, u)' = OwedBy(e, ledger, t, u)
<1>1. now' = now /\ config' = config /\ ledger' = ledger
  BY DEF poolVars, vars
<1>2. PICK w : w = ledger
  OBVIOUS
<1>3. SameScalars
  BY <1>1 DEF SameScalars
<1> QED
  BY <1>1, <1>2, <1>3, OwedAfter

LEMMA SetEmissionsConfigOwes ==
    ASSUME PoolInv, EmissionInv, NEW shares, SetEmissionsConfig(shares)
    PROVE  OwesAsBefore
<1>1. PICK e : e = [emissions EXCEPT !.shares = shares]
  OBVIOUS
<1>2. /\ e.data = emissions.data /\ e.users = emissions.users
      /\ e.allowance = emissions.allowance /\ emissions.allowance \in Nat
  BY <1>1 DEF EmissionInv, EmissionTypeOK, Emissions
<1>3. emissions' = e /\ UNCHANGED poolVars /\ GoodSettings
  BY <1>1 DEF SetEmissionsConfig, PoolInv
<1>4. \A t, u : OwedBy(e, ledger, t, u) = OwedBy(emissions, ledger, t, u)
  BY <1>2 DEF OwedBy
<1>5. \A t \in ReserveTokens, u \in Accounts : OwedNow(t, u)' = OwedNow(t, u)
  BY <1>3, <1>4, StoredAfter, OwedBefore
<1> QED
  BY <1>2, <1>3, <1>5 DEF OwesAsBefore

\* A new stream goes on from the index of now.
LEMMA NewStreamOwes ==
    ASSUME PoolInv, EmissionInv, NEW t \in ReserveTokens, Enabled(t), NEW amount \in Nat,
           NEW u \in Accounts
    PROVE  Owed(Accrued(Stream(t, amount), t, SupplyOf(ledger, t)), t,
                emissions.users[<<t, u>>], BalanceOf(ledger, t, u))
             = OwedNow(t, u)
<1> DEFINE d == AccruedNow(t)
           s == Stream(t, amount)
           entry == emissions.users[<<t, u>>]
           b == BalanceOf(ledger, t, u)
           k == ScalarOf(t) * Scalar7
<1>1. GoodSettings /\ ledger \in Ledger /\ Consistent(emissions) /\ now \in Nat
  BY ViewInLedger DEF EmissionInv
<1>2. /\ s \in ReserveEmissionData /\ s # NoData /\ s.last_time = now
      /\ s.index = IF d = NoData THEN 0 ELSE d.index
  <2>1. s.index = IF d = NoData THEN 0 ELSE d.index
    BY DEF Stream, AccruedNow
  <2> QED
    BY <1>1, <2>1, StreamForward
<1>3. /\ d \in ReserveEmissionData \cup {NoData}
      /\ entry # NoData => d # NoData
      /\ b \in Nat /\ k \in Int /\ k > 0
  BY <1>1, OwedNowNat, AccrualKept, SharesNat, ScalarPositive DEF AccruedNow
<1> HIDE DEF s, d
<1>4. Accrued(s, t, SupplyOf(ledger, t)) = s
  BY <1>1, <1>2, NothingToAccrue DEF Still
<1>5. CASE d = NoData
  <2>1. entry = NoData /\ s.index = 0
    BY <1>2, <1>3, <1>5
  <2>2. Owed(d, t, entry, b) = 0
    BY <1>5 DEF Owed
  <2>3. Owed(s, t, entry, b) = MulFloor(b, 0, k)
    BY <1>2, <2>1 DEF Owed
  <2>4. MulFloor(b, 0, k) = 0
    <3> HIDE DEF b, k
    <3> QED
      BY <1>3, NoGrowth
  <2> QED
    BY <1>4, <2>2, <2>3, <2>4 DEF OwedNow, s, d
<1>6. CASE d # NoData
  <2>1. Owed(s, t, entry, b) = Owed(d, t, entry, b)
    BY <1>2, <1>6 DEF Owed
  <2> QED
    BY <1>4, <2>1 DEF OwedNow, s, d
<1> QED
  BY <1>5, <1>6

LEMMA GulpEmissionsOwes ==
    ASSUME PoolInv, EmissionInv, NEW amount \in EmissionAmounts, GulpEmissions(amount)
    PROVE  OwesAsBefore
<1> DEFINE data == [t \in ReserveTokens |->
                      IF Enabled(t) THEN Stream(t, amount) ELSE emissions.data[t]]
           n == emissions.allowance + amount
<1>1. PICK e : e = [emissions EXCEPT !.allowance = n, !.data = data]
  OBVIOUS
<1>2. emissions' = e /\ UNCHANGED poolVars /\ GoodSettings
  BY <1>1 DEF GulpEmissions, PoolInv
<1>3. amount \in Nat /\ emissions \in Emissions /\ emissions.allowance \in Nat
  BY EmissionAssumption, EmissionFields DEF EmissionInv, EmissionTypeOK
<1>4. /\ \A t \in ReserveTokens : Enabled(t) => data[t] = Stream(t, amount)
      /\ \A t \in ReserveTokens : ~Enabled(t) => data[t] = emissions.data[t]
      /\ n >= emissions.allowance
  BY <1>3
<1> HIDE DEF data, n
<1>5. e.data = data /\ e.users = emissions.users /\ e.allowance = n
  BY <1>1, <1>3, ReplacedTwo
<1>6. ASSUME NEW t \in ReserveTokens, NEW u \in Accounts
      PROVE  OwedBy(e, ledger, t, u) = OwedBy(emissions, ledger, t, u)
  <2>1. CASE Enabled(t)
    BY <1>3, <1>4, <1>5, <2>1, NewStreamOwes, OwedBefore DEF OwedBy
  <2>2. CASE ~Enabled(t)
    BY <1>4, <1>5, <2>2 DEF OwedBy
  <2> QED
    BY <2>1, <2>2
<1>7. \A t \in ReserveTokens, u \in Accounts : OwedNow(t, u)' = OwedNow(t, u)
  BY <1>2, <1>6, StoredAfter, OwedBefore
<1> QED
  BY <1>2, <1>4, <1>5, <1>7 DEF OwesAsBefore

\* A claim settles its reserve tokens for everybody, and empties one entry.
LEMMA ClaimPays ==
    ASSUME PoolInv, EmissionInv, NEW u \in Users, NEW ids \in ClaimLists, Claim(u, ids)
    PROVE  PaysOne
<1> DEFINE data == [t \in ReserveTokens |->
                      IF t \in ids THEN AccruedNow(t) ELSE emissions.data[t]]
           users == [h \in Holders |->
                       IF h[1] \in ids /\ h[2] = u /\ AccruedNow(h[1]) # NoData
                       THEN [index |-> AccruedNow(h[1]).index, accrued |-> 0]
                       ELSE emissions.users[h]]
           rest == emissions.allowance - Claimable(ids, u)
<1>1. PICK e : e = [emissions EXCEPT !.allowance = rest, !.data = data, !.users = users]
  OBVIOUS
<1>2. emissions' = e /\ UNCHANGED poolVars
  BY <1>1 DEF Claim
<1>3. /\ GoodSettings /\ ledger \in Ledger /\ Consistent(emissions) /\ now \in Nat
      /\ emissions \in Emissions /\ emissions.allowance \in Nat
      /\ ids \subseteq ReserveTokens /\ u \in Accounts
  BY ViewInLedger, EmissionFields, EmissionAssumption, AccountsFinite DEF EmissionInv, EmissionTypeOK
<1>4. /\ \A t \in ids : data[t] = AccruedNow(t)
      /\ \A t \in ReserveTokens \ ids : data[t] = emissions.data[t]
  BY <1>3
<1>5. ASSUME NEW t \in ReserveTokens, NEW v \in Accounts
      PROVE  /\ t \in ids /\ v = u /\ AccruedNow(t) # NoData =>
                  users[<<t, v>>] = [index |-> AccruedNow(t).index, accrued |-> 0]
             /\ ~(t \in ids /\ v = u /\ AccruedNow(t) # NoData) =>
                  users[<<t, v>>] = emissions.users[<<t, v>>]
  BY HolderParts
<1> HIDE DEF data, users, rest
<1>6. e.data = data /\ e.users = users /\ e.allowance = rest
  <2>1. PICK x : x = [emissions EXCEPT !.allowance = rest, !.data = data]
    OBVIOUS
  <2>2. x = [shares |-> emissions.shares, data |-> data, users |-> emissions.users,
             allowance |-> rest]
    BY <1>3, <2>1, ReplacedTwo, Zenon
  <2>3. e = [x EXCEPT !.users = users]
    BY <1>1, <1>3, <2>1 DEF Emissions
  <2> QED
    BY <2>2, <2>3
<1>7. ASSUME NEW t \in ReserveTokens
      PROVE  /\ AccruedNow(t) \in ReserveEmissionData \cup {NoData}
             /\ Accrued(data[t], t, SupplyOf(ledger, t)) = AccruedNow(t)
  <2>1. /\ emissions.data[t] \in ReserveEmissionData \cup {NoData}
        /\ AccruedNow(t) \in ReserveEmissionData \cup {NoData}
    BY <1>3, EmissionFields, AccrualKept DEF AccruedNow
  <2>2. CASE t \in ids
    <3>1. Accrued(AccruedNow(t), t, SupplyOf(ledger, t)) = AccruedNow(t)
      BY <1>3, <2>1, AccruedTwice DEF AccruedNow
    <3> QED
      BY <1>4, <2>1, <2>2, <3>1
  <2>3. CASE t \notin ids
    BY <1>4, <2>1, <2>3 DEF AccruedNow
  <2> QED
    BY <2>2, <2>3
<1>8. ASSUME NEW t \in ReserveTokens, NEW v \in Accounts, ~(t \in ids /\ v = u)
      PROVE  OwedNow(t, v)' = OwedNow(t, v)
  <2>1. OwedBy(e, ledger, t, v) = OwedNow(t, v)
    BY <1>5, <1>6, <1>7, <1>8 DEF OwedBy, OwedNow
  <2> QED
    BY <1>2, <1>3, <2>1, StoredAfter
<1>9. ASSUME NEW t \in ids
      PROVE  OwedNow(t, u)' = 0
  <2>1. t \in ReserveTokens /\ BalanceOf(ledger, t, u) \in Nat
    BY <1>3, SharesNat
  <2> DEFINE d == AccruedNow(t)
             b == BalanceOf(ledger, t, u)
  <2>2. OwedBy(e, ledger, t, u) = Owed(d, t, users[<<t, u>>], b)
    BY <1>6, <1>7, <2>1 DEF OwedBy
  <2>3. CASE d = NoData
    BY <1>2, <1>3, <2>1, <2>2, <2>3, StoredAfter DEF Owed
  <2>4. CASE d # NoData
    <3>1. users[<<t, u>>] = [index |-> d.index, accrued |-> 0]
      BY <1>3, <1>5, <2>1, <2>4
    <3>2. d \in ReserveEmissionData
      BY <1>7, <2>1, <2>4
    <3> HIDE DEF d, b
    <3>3. Owed(d, t, [index |-> d.index, accrued |-> 0], b) = 0
      BY <1>3, <2>1, <3>2, NotedDown DEF b
    <3> QED
      BY <1>2, <1>3, <2>1, <2>2, <3>1, <3>3, StoredAfter
  <2> QED
    BY <2>3, <2>4
<1>10. \A t \in ReserveTokens : OwedNow(t, u) \in Nat
  BY <1>3, OwedNowNat
<1>11. emissions.allowance - emissions'.allowance
         = SumFunction([t \in ReserveTokens |-> OwedNow(t, u) - OwedNow(t, u)'])
  <2> DEFINE lost == [t \in ReserveTokens |-> OwedNow(t, u) - OwedNow(t, u)']
             paid == [t \in ids |-> OwedNow(t, u)]
  <2>1. ASSUME NEW t \in ids PROVE lost[t] = paid[t] /\ paid[t] \in Nat
    BY <1>3, <1>9, <1>10
  <2>2. ASSUME NEW t \in ReserveTokens \ ids PROVE lost[t] = 0
    <3>1. OwedNow(t, u)' = OwedNow(t, u) /\ OwedNow(t, u) \in Nat
      BY <1>3, <1>8, <1>10
    <3> QED
      BY <3>1
  <2>3. Claimable(ids, u) = SumFunction(paid)
    BY DEF Claimable
  <2>4. DOMAIN lost = ReserveTokens /\ DOMAIN paid = ids
    OBVIOUS
  <2> HIDE DEF lost, paid
  <2>5. IsFiniteSet(ids) /\ ids \in SUBSET ReserveTokens /\ IsFiniteSet(ReserveTokens)
    BY <1>3, TokensFinite, FS_Subset
  <2>6. \A t \in ReserveTokens : lost[t] \in Int
    BY <2>1, <2>2
  <2>7. Sum(lost, ReserveTokens) = Sum(lost, ids)
    BY <2>2, <2>5, <2>6, SumOnPart
  <2>8. Sum(lost, ids) = Sum(paid, ids)
    BY <2>1, <2>5, SumSame
  <2>9. SumFunction(lost) = SumFunction(paid)
    BY <2>4, <2>7, <2>8, SumFunctionIsSum
  <2>10. paid \in [ids -> Nat]
    BY <2>1 DEF paid
  <2>11. SumFunction(paid) \in Nat
    BY <2>5, <2>10, SumFunctionNat
  <2>12. emissions.allowance - emissions'.allowance = SumFunction(lost)
    BY <1>2, <1>3, <1>6, <2>3, <2>9, <2>11 DEF rest
  <2> QED
    BY <2>12 DEF lost
<1>12. \A t \in ReserveTokens : OwedNow(t, u)' \in {0, OwedNow(t, u)}
  BY <1>3, <1>8, <1>9
<1> QED
  BY <1>8, <1>11, <1>12 DEF PaysOne

\* The invariant of the working copy, and what a step does to what is owed.
LEMMA EmissionStepOwes ==
    ASSUME PoolInv, PoolInv', EmissionInv, CallCarried, EmissionNext
    PROVE  CallCarried' /\ (now' = now => OwesAsBefore \/ PaysOne)
<1>0. SameScalars
  BY EmissionStepIsPoolStep, ScalarsFixed DEF PoolInv
<1>1. CASE DuringCall
  BY <1>0, <1>1, DuringCallCarries, KeptOwes
<1>2. CASE CommitCall
  BY <1>0, <1>2, CommitCallOwes DEF CommitCall, Commit, CallCarried
<1>3. CASE AbortCall
  BY <1>0, <1>3, KeptOwes DEF AbortCall, Abort, CallCarried
<1>4. CASE OutsideCall \/ CreationStep
  <2>1. call' = NoCall
    BY <1>4, BetweenCalls
  <2> QED
    BY <1>0, <1>4, <2>1, OutsideCallOwes DEF CallCarried
<1>5. CASE \E shares \in ShareSettings : SetEmissionsConfig(shares)
  <2>1. call' = NoCall
    BY <1>5 DEF SetEmissionsConfig, poolVars, vars
  <2> QED
    BY <1>5, <2>1, SetEmissionsConfigOwes DEF CallCarried
<1>6. CASE \E amount \in EmissionAmounts : GulpEmissions(amount)
  <2>1. call' = NoCall
    BY <1>6 DEF GulpEmissions, poolVars, vars
  <2> QED
    BY <1>6, <2>1, GulpEmissionsOwes DEF CallCarried
<1>7. CASE \E u \in Users, ids \in ClaimLists : Claim(u, ids)
  <2>1. call' = NoCall
    BY <1>7 DEF Claim, poolVars, vars
  <2> QED
    BY <1>7, <2>1, ClaimPays DEF CallCarried
<1> QED
  BY <1>1, <1>2, <1>3, <1>4, <1>5, <1>6, <1>7 DEF EmissionNext

LEMMA CarriedStutter ==
    ASSUME CallCarried, UNCHANGED emissionVars
    PROVE  CallCarried'
<1>1. /\ now' = now /\ config' = config /\ emissions' = emissions /\ ledger' = ledger
      /\ pending' = pending /\ call' = call
  BY DEF emissionVars, poolVars, vars
<1> SUFFICES ASSUME call # NoCall PROVE CallCarried'
  BY <1>1 DEF CallCarried
<1>2. PICK e, w, f, v : e = emissions /\ w = ledger /\ f = pending /\ v = call.ledger
  OBVIOUS
<1>3. Carried(e, w, f, v)
  BY <1>2 DEF CallCarried
<1>4. Carried(emissions, ledger, pending, call.ledger)'
  BY <1>1, <1>2, <1>3, CarriedLater
<1> QED
  BY <1>4 DEF CallCarried

LEMMA EmissionInvariants == EmissionSpec => [](PoolInv /\ EmissionInv)
<1>1. EmissionSpec => []PoolInv
  BY EmissionsImplementPool, PoolInvariant, PTL
<1>2. EmissionSpec => []EmissionInv
  BY <1>1, InitEstablishesEmissionInv, EmissionNextKeepsInv, PTL DEF EmissionSpec
<1> QED
  BY <1>1, <1>2, PTL

\* While a submit runs, its copy of the emissions owes every account what the
\* storage owes it, of every reserve token that was held when it began.
THEOREM WorkingCopyOwesAlike == EmissionSpec => []CallCarried
<1>1. EmissionInit => CallCarried
  BY DEF EmissionInit, Init, CallCarried
<1>2. PoolInv /\ PoolInv' /\ EmissionInv /\ CallCarried /\ [EmissionNext]_emissionVars
        => CallCarried'
  BY EmissionStepOwes, CarriedStutter
<1> QED
  BY <1>1, <1>2, EmissionInvariants, PTL DEF EmissionSpec

\* Nobody gains or loses what it is owed by anybody's step, only by time and by
\* its own claim, which takes what it pays (update_emissions before a change,
\* execute_claim, update_reserve_emission_eps).
THEOREM NobodyLosesEmissions == EmissionSpec => OwedOnlyByTime
<1> DEFINE Body ==
      now' = now =>
         LET held == {t \in ReserveTokens : SupplyOf(ledger, t) # 0}
             Lost(u) == SumFunction([t \in ReserveTokens |-> OwedNow(t, u) - OwedNow(t, u)'])
             Steady(u) == \A t \in held : OwedNow(t, u)' = OwedNow(t, u)
         IN \/ /\ emissions'.allowance >= emissions.allowance
               /\ \A u \in Accounts : Steady(u)
            \/ \E u \in Users :
                 /\ emissions.allowance - emissions'.allowance = Lost(u)
                 /\ \A t \in ReserveTokens : OwedNow(t, u)' \in {0, OwedNow(t, u)}
                 /\ \A v \in Accounts \ {u} : Steady(v)
<1>1. ASSUME PoolInv, PoolInv', EmissionInv, CallCarried, EmissionNext
      PROVE  Body
  <2>1. CASE now' # now
    BY <2>1
  <2>2. CASE now' = now /\ OwesAsBefore
    BY <2>2 DEF OwesAsBefore
  <2>3. CASE now' = now /\ PaysOne
    BY <2>3 DEF PaysOne
  <2> QED
    BY <1>1, <2>1, <2>2, <2>3, EmissionStepOwes
<1>2. PoolInv /\ PoolInv' /\ EmissionInv /\ CallCarried /\ [EmissionNext]_emissionVars
        => [Body]_emissionVars
  BY <1>1
<1> QED
  BY <1>2, EmissionInvariants, WorkingCopyOwesAlike, PTL DEF EmissionSpec, OwedOnlyByTime

-----------------------------------------------------------------------------
(* What is promised is covered by the allowance.                           *)
(*                                                                         *)
(* What an account is owed is rounded down, so sums of it do not balance.  *)
(* What it is entitled to, before the rounding, does: the growth of an     *)
(* index over the shares it is paid to is what the stream gave meanwhile.  *)
(* Entitlements to a reserve token are counted in units of its scalar.     *)

IndexOf(d) == IF d = NoData THEN 0 ELSE d.index

\* To an account with n shares, at index i; k counts the units of one stroop.
Entitled(k, entry, i, n) ==
    IF entry = NoData THEN n * i ELSE k * entry.accrued + n * (i - entry.index)

\* What the stream has still to give.
Streaming(d) ==
    IF d # NoData /\ d.expiration > d.last_time
    THEN d.eps * (d.expiration - d.last_time) ELSE 0

Entitlements(k, d, entries, shares) ==
    [u \in Accounts |-> Entitled(k, entries[u], IndexOf(d), shares[u])]

EntitledBy(s, d, entries, shares) ==
    s * Streaming(d) + SumFunction(Entitlements(s * Scalar7, d, entries, shares))

\* The entries of a reserve token's holders fit its data d.
Fits(d, entries) ==
    \A u \in Accounts : entries[u] # NoData => d # NoData /\ entries[u].index <= d.index

LEMMA DataParts ==
    ASSUME NEW d \in ReserveEmissionData
    PROVE  /\ d # NoData
           /\ d.expiration \in Nat /\ d.eps \in Nat /\ d.index \in Nat /\ d.last_time \in Nat
           /\ IndexOf(d) = d.index
  BY EmissionAssumption DEF ReserveEmissionData, IndexOf

LEMMA EntryParts ==
    ASSUME NEW entry \in UserEmissionData
    PROVE  entry # NoData /\ entry.index \in Nat /\ entry.accrued \in Nat
  BY EmissionAssumption DEF UserEmissionData

LEMMA EntitledNat ==
    ASSUME NEW k \in Nat, NEW entry \in UserEmissionData \cup {NoData}, NEW i \in Nat, NEW n \in Nat,
           entry # NoData => entry.index <= i
    PROVE  Entitled(k, entry, i, n) \in Nat
<1>1. CASE entry = NoData
  BY <1>1, ProductNat DEF Entitled
<1>2. CASE entry # NoData
  <2>1. entry.index \in Nat /\ entry.accrued \in Nat
    BY <1>2, EntryParts
  <2>2. i - entry.index \in Nat
    BY <1>2, <2>1
  <2> DEFINE x == k * entry.accrued
             y == n * (i - entry.index)
  <2>3. x \in Nat /\ y \in Nat
    BY <2>1, <2>2, ProductNat
  <2>4. Entitled(k, entry, i, n) = x + y
    BY <1>2 DEF Entitled
  <2> HIDE DEF x, y
  <2> QED
    BY <2>3, <2>4
<1> QED
  BY <1>1, <1>2

LEMMA StreamingNat ==
    ASSUME NEW d \in ReserveEmissionData \cup {NoData}
    PROVE  Streaming(d) \in Nat
<1>1. CASE d # NoData /\ d.expiration > d.last_time
  <2>1. d.eps \in Nat /\ d.expiration - d.last_time \in Nat
    BY <1>1, DataParts
  <2>2. d.eps * (d.expiration - d.last_time) \in Nat
    BY <2>1, ProductNat
  <2> QED
    BY <1>1, <2>2 DEF Streaming
<1>2. CASE ~(d # NoData /\ d.expiration > d.last_time)
  BY <1>2 DEF Streaming
<1> QED
  BY <1>1, <1>2

LEMMA EntitlementsNat ==
    ASSUME NEW s \in Nat, NEW d \in ReserveEmissionData \cup {NoData},
           NEW entries \in [Accounts -> UserEmissionData \cup {NoData}], Fits(d, entries),
           NEW shares \in [Accounts -> Nat]
    PROVE  /\ s * Scalar7 \in Nat /\ IndexOf(d) \in Nat
           /\ Entitlements(s * Scalar7, d, entries, shares) \in [Accounts -> Nat]
           /\ SumFunction(Entitlements(s * Scalar7, d, entries, shares)) \in Nat
           /\ s * Streaming(d) \in Nat
           /\ EntitledBy(s, d, entries, shares) \in Nat
<1> DEFINE k == s * Scalar7
           f == Entitlements(k, d, entries, shares)
           r == s * Streaming(d)
<1>1. k \in Nat
  BY ScalarAssumption, ProductNat
<1>2. IndexOf(d) \in Nat
  BY DataParts DEF IndexOf
<1> HIDE DEF k
<1>3. ASSUME NEW u \in Accounts
      PROVE  Entitled(k, entries[u], IndexOf(d), shares[u]) \in Nat
  <2>1. shares[u] \in Nat /\ entries[u] \in UserEmissionData \cup {NoData}
    OBVIOUS
  <2>2. entries[u] # NoData => entries[u].index <= IndexOf(d)
    BY DEF Fits, IndexOf
  <2> QED
    BY <1>1, <1>2, <2>1, <2>2, EntitledNat
<1>4. f \in [Accounts -> Nat]
  BY <1>3 DEF Entitlements
<1> HIDE DEF f
<1>5. SumFunction(f) \in Nat
  BY <1>4, AccountsFinite, SumFunctionNat
<1>6. r \in Nat
  BY StreamingNat, ProductNat
<1> HIDE DEF r
<1>7. r + SumFunction(f) \in Nat
  BY <1>5, <1>6
<1> QED
  BY <1>1, <1>2, <1>4, <1>5, <1>6, <1>7 DEF EntitledBy, r, f, k

\* What is paid is no more than the entitlement.
LEMMA OwedFits ==
    ASSUME GoodSettings, NEW t \in ReserveTokens, NEW d \in ReserveEmissionData,
           NEW entry \in UserEmissionData \cup {NoData},
           entry # NoData => entry.index <= d.index, NEW n \in Nat
    PROVE  (ScalarOf(t) * Scalar7) * Owed(d, t, entry, n)
              <= Entitled(ScalarOf(t) * Scalar7, entry, d.index, n)
<1> DEFINE k == ScalarOf(t) * Scalar7
<1>0. d.index \in Nat /\ d # NoData /\ k \in Int /\ k > 0 /\ k \in Nat
  BY DataParts, ScalarPositive
<1> HIDE DEF k
<1>1. ASSUME NEW i \in Nat
      PROVE  k * MulFloor(n, i, k) <= n * i /\ MulFloor(n, i, k) \in Nat /\ n * i \in Nat
  <2> DEFINE x == n * i
  <2>1. x \in Nat
    BY ProductNat
  <2>2. MulFloor(n, i, k) = FloorDiv(x, k)
    BY DEF MulFloor
  <2> HIDE DEF x
  <2>3. k * FloorDiv(x, k) <= x /\ FloorDiv(x, k) \in Nat
    BY <1>0, <2>1, FloorDivBounds, FloorDivNat
  <2> QED
    BY <2>1, <2>2, <2>3 DEF x
<1>2. CASE entry = NoData
  <2>1. Owed(d, t, entry, n) = MulFloor(n, d.index, k)
    BY <1>0, <1>2 DEF Owed, k
  <2> QED
    BY <1>0, <1>1, <1>2, <2>1 DEF Entitled, k
<1>3. CASE entry # NoData
  <2>1. entry.index \in Nat /\ entry.accrued \in Nat
    BY <1>3, EntryParts
  <2> DEFINE i == d.index - entry.index
             a == entry.accrued
             f == MulFloor(n, i, k)
             x == n * i
  <2>2. i \in Nat
    BY <1>0, <1>3, <2>1
  <2>3. Owed(d, t, entry, n) = a + f /\ Entitled(k, entry, d.index, n) = k * a + x
    BY <1>0, <1>3 DEF Owed, Entitled, k
  <2>4. a \in Nat
    BY <2>1
  <2> HIDE DEF i, a
  <2>5. k * f <= x /\ f \in Nat /\ x \in Nat
    BY <1>1, <2>2
  <2> HIDE DEF f, x
  <2>6. k * (a + f) = k * a + k * f
    BY <1>0, <2>4, <2>5, SMT
  <2>7. k * a \in Nat /\ k * f \in Nat
    BY <1>0, <2>4, <2>5, ProductNat
  <2>8. k * Owed(d, t, entry, n) <= Entitled(k, entry, d.index, n)
    BY <2>3, <2>5, <2>6, <2>7
  <2> QED
    BY <2>8 DEF k
<1> QED
  BY <1>2, <1>3

\* Settled, an account is entitled to what was written down, of which a claim
\* leaves nothing.
LEMMA SettledFits ==
    ASSUME GoodSettings, NEW t \in ReserveTokens, NEW d \in ReserveEmissionData,
           NEW entry \in UserEmissionData \cup {NoData},
           entry # NoData => entry.index <= d.index, NEW n \in Nat, NEW m \in Nat
    PROVE  LET k == ScalarOf(t) * Scalar7
           IN /\ Entitled(k, Entry(d, t, entry, n), d.index, m) <= Entitled(k, entry, d.index, n)
              /\ Entitled(k, [index |-> d.index, accrued |-> 0], d.index, m) = 0
              /\ k * Owed(d, t, entry, n) <= Entitled(k, entry, d.index, n)
<1> DEFINE k == ScalarOf(t) * Scalar7
           owed == Owed(d, t, entry, n)
           i == d.index
<1>0. d # NoData /\ i \in Nat /\ k \in Nat /\ owed \in Nat
  BY DataParts, ScalarPositive, OwedIsNat
<1>1. Entry(d, t, entry, n) = [index |-> i, accrued |-> owed]
  BY <1>0 DEF Entry
<1>2. k * owed <= Entitled(k, entry, i, n)
  BY OwedFits
<1> HIDE DEF owed, i, k
<1>3. [index |-> i, accrued |-> owed] \in UserEmissionData
      /\ [index |-> i, accrued |-> 0] \in UserEmissionData
  BY <1>0 DEF UserEmissionData
<1>4. /\ Entitled(k, [index |-> i, accrued |-> owed], i, m) = k * owed + m * (i - i)
      /\ Entitled(k, [index |-> i, accrued |-> 0], i, m) = k * 0 + m * (i - i)
  BY <1>3, EntryParts DEF Entitled
<1>5. m * (i - i) = 0 /\ k * 0 = 0
  BY <1>0, SMT
<1>6. k * owed \in Nat
  BY <1>0, ProductNat
<1>7. /\ Entitled(k, [index |-> i, accrued |-> owed], i, m) = k * owed
      /\ Entitled(k, [index |-> i, accrued |-> 0], i, m) = 0
  BY <1>4, <1>5, <1>6
<1> QED
  BY <1>1, <1>2, <1>7 DEF owed, i, k

-----------------------------------------------------------------------------
(* Accruing: the stream pays for the growth of the index.                  *)

\* The growth of the index, over the shares it is paid to, is what the stream
\* gives in the time since.
LEMMA GrowthIsPaid ==
    ASSUME GoodSettings, NEW t \in ReserveTokens, NEW m \in Nat, NEW d \in ReserveEmissionData,
           d.last_time <= now, IsAccruing(d, m)
    PROVE  LET a == Accrued(d, t, m)
               g == a.index - d.index
           IN /\ g \in Nat /\ a.index = d.index + g /\ g * m \in Nat
              /\ g * m + ScalarOf(t) * Streaming(a) <= ScalarOf(t) * Streaming(d)
<1> DEFINE a == Accrued(d, t, m)
           s == ScalarOf(t)
           eps == d.eps
           last == d.last_time
           end == d.expiration
           until == Earlier(now, end)
           x == until - last
           rest == end - until
           spent == x * eps
           g == DivFloor(spent, m, s)
<1>1. /\ eps \in Nat /\ last \in Nat /\ end \in Nat /\ now \in Nat /\ d.index \in Nat
      /\ last < end /\ last < now /\ m \in Int /\ m > 0 /\ d # NoData
  BY DataParts DEF IsAccruing, GoodSettings
<1>2. until \in Nat /\ last < until /\ until <= end
  BY <1>1 DEF Earlier
<1>3. s \in Nat /\ s > 0
  BY ScalarPositive
<1>4. a = [d EXCEPT !.index = @ + g, !.last_time = until]
  BY <1>1 DEF Accrued
<1>5. Streaming(d) = eps * (end - last)
  BY <1>1 DEF Streaming
<1> HIDE DEF s, eps, last, end, until, spent, g, a
<1>6. x \in Nat /\ rest \in Nat /\ x + rest = end - last
  BY <1>1, <1>2
<1>7. spent \in Nat
  BY <1>1, <1>6, ProductNat DEF spent
<1>8. g \in Nat /\ g * m \in Nat /\ g * m <= spent * s /\ spent * s \in Nat
  <2> DEFINE y == spent * s
  <2>1. y \in Nat
    BY <1>3, <1>7, ProductNat
  <2>2. g = FloorDiv(y, m)
    BY DEF DivFloor, g
  <2> HIDE DEF y
  <2>3. g \in Nat /\ m * g <= y
    BY <1>1, <2>1, <2>2, FloorDivBounds, FloorDivNat
  <2>4. m * g = g * m
    BY <1>1, <2>3, SMT
  <2>5. g * m \in Nat
    BY <2>3, ProductNat
  <2> QED
    BY <2>1, <2>3, <2>4, <2>5 DEF y
<1>9. /\ a.eps = eps /\ a.expiration = end /\ a.last_time = until
      /\ a.index = d.index + g /\ a \in ReserveEmissionData
  <2>1. d \in ReserveEmissionData
    OBVIOUS
  <2>2. a.eps = eps /\ a.expiration = end /\ a.last_time = until /\ a.index = d.index + g
    BY <1>4, <2>1 DEF ReserveEmissionData, eps, end
  <2>3. a \in ReserveEmissionData
    BY AccrualForward DEF a
  <2> QED
    BY <2>2, <2>3
<1>10. Streaming(a) = eps * rest
  <2>1. a # NoData
    BY <1>9, DataParts
  <2>2. Streaming(a) = IF end > until THEN eps * rest ELSE 0
    BY <1>9, <2>1 DEF Streaming
  <2>3. end > until \/ rest = 0
    BY <1>1, <1>2
  <2>4. eps * 0 = 0
    BY <1>1, SMT
  <2> QED
    BY <2>2, <2>3, <2>4
<1> HIDE DEF x, rest
<1>11. spent * s + s * (eps * rest) = s * (eps * (end - last))
  <2>1. x * eps + eps * rest = eps * (x + rest)
    BY <1>1, <1>6, SMT
  <2> DEFINE y == eps * rest
  <2>2. y \in Nat
    BY <1>1, <1>6, ProductNat
  <2> HIDE DEF y
  <2>3. spent * s + s * y = s * (spent + y)
    BY <1>3, <1>7, <2>2, SMT
  <2>4. spent + y = eps * (end - last)
    BY <1>6, <2>1 DEF spent, y
  <2> QED
    BY <2>3, <2>4 DEF y
<1>12. g * m + s * Streaming(a) <= s * Streaming(d)
  <2> DEFINE b == g * m
             c == spent * s
             f == s * (eps * rest)
  <2>1. eps * rest \in Nat
    BY <1>1, <1>6, ProductNat
  <2>2. f \in Nat
    BY <1>3, <2>1, ProductNat
  <2>3. b \in Nat /\ c \in Nat /\ b <= c
    BY <1>8
  <2> HIDE DEF b, c, f
  <2>4. b + f <= c + f
    BY <2>2, <2>3
  <2> QED
    BY <1>5, <1>10, <1>11, <2>4 DEF b, c, f
<1>13. a.index - d.index = g
  BY <1>1, <1>8, <1>9
<1> QED
  BY <1>8, <1>9, <1>12, <1>13 DEF a, s

\* Accruing entitles the holders to nothing new.
LEMMA AccrualIsPaid ==
    ASSUME GoodSettings, NEW t \in ReserveTokens, NEW d \in ReserveEmissionData \cup {NoData},
           d # NoData => d.last_time <= now,
           NEW entries \in [Accounts -> UserEmissionData \cup {NoData}], Fits(d, entries),
           NEW shares \in [Accounts -> Nat], NEW m, m = SumFunction(shares)
    PROVE  LET a == Accrued(d, t, m)
           IN /\ a \in ReserveEmissionData \cup {NoData}
              /\ Fits(a, entries)
              /\ EntitledBy(ScalarOf(t), a, entries, shares)
                   <= EntitledBy(ScalarOf(t), d, entries, shares)
<1> DEFINE a == Accrued(d, t, m)
           s == ScalarOf(t)
<1>0. s \in Nat /\ m \in Nat /\ s * Scalar7 \in Nat
  BY ScalarPositive, AccountsFinite, SumFunctionNat
<1>1. CASE d = NoData \/ ~IsAccruing(d, m)
  <2>1. a = d
    BY <1>1 DEF Accrued
  <2>2. EntitledBy(s, d, entries, shares) \in Nat
    <3> HIDE DEF s
    <3> QED
      BY <1>0, EntitlementsNat
  <2> QED
    BY <2>1, <2>2
<1>2. CASE d # NoData /\ IsAccruing(d, m)
  <2> DEFINE g == a.index - d.index
             k == s * Scalar7
             before == Entitlements(k, d, entries, shares)
             after == Entitlements(k, a, entries, shares)
             growth == [u \in Accounts |-> g * shares[u]]
             i == d.index
  <2>1. d \in ReserveEmissionData /\ i \in Nat
    BY <1>2, DataParts
  <2>2. a \in ReserveEmissionData
    BY <1>0, <1>2, <2>1, AccrualForward
  <2>3. /\ g \in Nat /\ a.index = i + g /\ g * m \in Nat
        /\ g * m + s * Streaming(a) <= s * Streaming(d)
    BY <1>0, <1>2, <2>1, GrowthIsPaid
  <2>4. IndexOf(d) = i /\ IndexOf(a) = i + g
    BY <2>1, <2>2, <2>3, DataParts
  <2> HIDE DEF a, s, g, i
  <2>5. Fits(a, entries)
    <3> SUFFICES ASSUME NEW u \in Accounts, entries[u] # NoData
                 PROVE  a # NoData /\ entries[u].index <= a.index
      BY DEF Fits
    <3>1. entries[u].index <= i /\ entries[u] \in UserEmissionData
      BY DEF Fits, i
    <3>2. entries[u].index \in Nat
      BY <3>1, EntryParts
    <3> QED
      BY <2>1, <2>2, <2>3, <3>1, <3>2, DataParts
  <2>6. /\ k \in Nat
        /\ before \in [Accounts -> Nat] /\ after \in [Accounts -> Nat]
        /\ SumFunction(before) \in Nat /\ SumFunction(after) \in Nat
        /\ s * Streaming(a) \in Nat /\ s * Streaming(d) \in Nat
    BY <1>0, <2>1, <2>2, <2>5, EntitlementsNat
  <2>7. /\ \A u \in Accounts : before[u] = Entitled(k, entries[u], i, shares[u])
        /\ \A u \in Accounts : after[u] = Entitled(k, entries[u], i + g, shares[u])
        /\ \A u \in Accounts : growth[u] = g * shares[u]
    BY <2>4 DEF Entitlements
  <2> HIDE DEF before, after, k, growth
  <2>8. \A u \in Accounts : growth[u] \in Int /\ shares[u] \in Int
    BY <2>3, <2>7, ProductNat
  \* One unit of index is one unit for each share.
  <2>9. ASSUME NEW u \in Accounts PROVE after[u] = before[u] + growth[u]
    <3>1. PICK entry \in UserEmissionData \cup {NoData}, n \in Nat :
            entry = entries[u] /\ n = shares[u]
      OBVIOUS
    <3>2. i \in Nat /\ g \in Nat /\ k \in Nat
      BY <2>1, <2>3, <2>6
    <3> DEFINE j == entry.index
               x == k * entry.accrued
               y == g * n
    <3>3. y \in Nat
      BY <3>2, ProductNat
    <3>4. CASE entry = NoData
      <4>1. n * (i + g) = n * i + g * n /\ n * i \in Nat
        BY <3>2, SMT
      <4>2. Entitled(k, entry, i + g, n) = n * (i + g) /\ Entitled(k, entry, i, n) = n * i
        BY <3>4 DEF Entitled
      <4> QED
        BY <2>7, <3>1, <4>1, <4>2
    <3>5. CASE entry # NoData
      <4>1. j \in Nat /\ x \in Nat
        BY <3>2, <3>5, EntryParts, ProductNat
      <4>2. Entitled(k, entry, i + g, n) = x + n * ((i + g) - j)
            /\ Entitled(k, entry, i, n) = x + n * (i - j)
        BY <3>5 DEF Entitled
      <4> HIDE DEF j, x
      <4>3. n * ((i + g) - j) = n * (i - j) + y /\ n * (i - j) \in Int
        BY <3>2, <4>1, SMT
      <4>4. Entitled(k, entry, i + g, n) = Entitled(k, entry, i, n) + y
        BY <3>3, <4>1, <4>2, <4>3
      <4> QED
        BY <2>7, <3>1, <4>4
    <3> QED
      BY <3>4, <3>5
  <2>10. Sum(after, Accounts) = Sum(before, Accounts) + Sum(growth, Accounts)
    <3>1. \A u \in Accounts : before[u] \in Int
      BY <2>6
    <3> QED
      BY <2>8, <2>9, <3>1, AccountsFinite, SumAdd
  <2>11. Sum(growth, Accounts) = g * Sum(shares, Accounts)
    BY <2>3, <2>7, <2>8, AccountsFinite, SumTimes
  <2>12. DOMAIN before = Accounts /\ DOMAIN after = Accounts /\ DOMAIN shares = Accounts
    BY <2>6
  <2>13. SumFunction(after) = SumFunction(before) + g * m
    BY <2>10, <2>11, <2>12, SumFunctionIsSum
  <2>14. s * Streaming(a) + SumFunction(after) <= s * Streaming(d) + SumFunction(before)
    <3> DEFINE gm == g * m
               x == s * Streaming(a)
               y == s * Streaming(d)
    <3>1. gm \in Nat /\ x \in Nat /\ y \in Nat /\ gm + x <= y
          /\ SumFunction(after) = SumFunction(before) + gm
      BY <2>3, <2>6, <2>13
    <3> HIDE DEF gm, x, y
    <3>2. x + SumFunction(after) <= y + SumFunction(before)
      BY <2>6, <3>1
    <3> QED
      BY <3>2 DEF x, y
  <2>15. EntitledBy(s, a, entries, shares) <= EntitledBy(s, d, entries, shares)
    BY <2>14 DEF EntitledBy, before, after, k
  <2> QED
    BY <2>2, <2>5, <2>15 DEF a, s
<1> QED
  BY <1>1, <1>2

-----------------------------------------------------------------------------
(* The storage as a whole, with the ledger it belongs to.                  *)

EntriesOf(e, t) == [u \in Accounts |-> e.users[<<t, u>>]]
SharesOf(w, t) == [u \in Accounts |-> BalanceOf(w, t, u)]
EntitledOf(e, w, t) == EntitledBy(ScalarOf(t), e.data[t], EntriesOf(e, t), SharesOf(w, t))

\* The stroops that cover the entitlements to a reserve token, scaled by Scalar7.
Reserved(e, w, t) == CeilDiv(EntitledOf(e, w, t), ScalarOf(t))

Funded(e, w) ==
    SumFunction([t \in ReserveTokens |-> Reserved(e, w, t)]) <= Scalar7 * e.allowance

\* Storage and working copy are covered by what the backstop lets the pool take.
FundedInv ==
    /\ Funded(emissions, ledger)
    /\ call # NoCall => Funded(pending, call.ledger)

LEMMA TokenParts ==
    ASSUME GoodSettings, NEW e, Consistent(e), NEW w \in Ledger, NEW t \in ReserveTokens
    PROVE  /\ e.data[t] \in ReserveEmissionData \cup {NoData}
           /\ e.data[t] # NoData => e.data[t].last_time <= now
           /\ EntriesOf(e, t) \in [Accounts -> UserEmissionData \cup {NoData}]
           /\ Fits(e.data[t], EntriesOf(e, t))
           /\ SharesOf(w, t) \in [Accounts -> Nat]
           /\ EntitledOf(e, w, t) \in Nat
           /\ Reserved(e, w, t) \in Nat
<1>1. e.data[t] \in ReserveEmissionData \cup {NoData} /\ e \in Emissions
  BY EmissionFields DEF Consistent
<1>2. e.data[t] # NoData => e.data[t].last_time <= now
  BY DEF Consistent, OnTime
<1>3. EntriesOf(e, t) \in [Accounts -> UserEmissionData \cup {NoData}]
  BY <1>1, EmissionFields, HolderParts DEF EntriesOf
<1>4. Fits(e.data[t], EntriesOf(e, t))
  BY HolderParts DEF Fits, EntriesOf, Consistent, Behind
<1>5. SharesOf(w, t) \in [Accounts -> Nat]
  BY SharesNat DEF SharesOf
<1> DEFINE s == ScalarOf(t)
           n == EntitledOf(e, w, t)
<1>6. s \in Nat /\ s \in Int /\ s > 0
  BY ScalarPositive
<1>7. n \in Nat
  <2> HIDE DEF s
  <2>1. EntitledBy(s, e.data[t], EntriesOf(e, t), SharesOf(w, t)) \in Nat
    BY <1>1, <1>3, <1>4, <1>5, <1>6, EntitlementsNat
  <2> QED
    BY <2>1 DEF EntitledOf, s
<1> HIDE DEF s, n
<1>8. CeilDiv(n, s) \in Nat
  BY <1>6, <1>7, CeilDivNat
<1> QED
  BY <1>1, <1>2, <1>3, <1>4, <1>5, <1>7, <1>8 DEF Reserved, n, s

\* Entitlements that shrink one by one shrink together.
LEMMA EntitledLess ==
    ASSUME NEW s \in Nat, NEW d \in ReserveEmissionData \cup {NoData},
           NEW entries \in [Accounts -> UserEmissionData \cup {NoData}], Fits(d, entries),
           NEW shares \in [Accounts -> Nat],
           NEW after \in [Accounts -> UserEmissionData \cup {NoData}], Fits(d, after),
           NEW held \in [Accounts -> Nat],
           \A u \in Accounts : Entitled(s * Scalar7, after[u], IndexOf(d), held[u])
                                 <= Entitled(s * Scalar7, entries[u], IndexOf(d), shares[u])
    PROVE  EntitledBy(s, d, after, held) <= EntitledBy(s, d, entries, shares)
<1> DEFINE k == s * Scalar7
           x == Entitlements(k, d, entries, shares)
           y == Entitlements(k, d, after, held)
           r == s * Streaming(d)
<1>1. x \in [Accounts -> Nat] /\ SumFunction(x) \in Nat /\ r \in Nat
  BY EntitlementsNat
<1>2. y \in [Accounts -> Nat] /\ SumFunction(y) \in Nat
  BY EntitlementsNat
<1>3. \A u \in Accounts : y[u] <= x[u]
  BY DEF Entitlements
<1> HIDE DEF k, x, y, r
<1>4. x \in [Accounts -> Int] /\ y \in [Accounts -> Int]
  BY <1>1, <1>2
<1>5. SumFunction(y) <= SumFunction(x)
  BY <1>3, <1>4, AccountsFinite, SumFunctionAtMost
<1>6. r + SumFunction(y) <= r + SumFunction(x)
  BY <1>1, <1>2, <1>5
<1> QED
  BY <1>6 DEF EntitledBy, k, x, y, r

\* Settling a pool step, of any balances, entitles nobody to more.
LEMMA SettlingIsPaid ==
    ASSUME GoodSettings, NEW e, Consistent(e), NEW w \in Ledger, NEW v \in Ledger,
           SharesMatch(w), NEW touched \in SUBSET Holders, Covers(touched, w, v),
           NEW t \in ReserveTokens
    PROVE  EntitledOf(SettledFor(e, w, touched), v, t) <= EntitledOf(e, w, t)
<1> DEFINE f == SettledFor(e, w, touched)
           d == Accrued(e.data[t], t, SupplyOf(w, t))
           moved(u) == <<t, u>> \in touched
<1>0. e \in Emissions
  BY DEF Consistent
<1>1. Consistent(f)
  BY SettledKept
<1>2. /\ (\E u \in Accounts : moved(u)) => f.data[t] = d
      /\ ~(\E u \in Accounts : moved(u)) => f.data[t] = e.data[t]
  BY <1>0, SettledData
<1>3. ASSUME NEW u \in Accounts
       PROVE  /\ moved(u) =>
                   f.users[<<t, u>>] = Entry(d, t, e.users[<<t, u>>], BalanceOf(w, t, u))
              /\ ~moved(u) => /\ f.users[<<t, u>>] = e.users[<<t, u>>]
                             /\ BalanceOf(v, t, u) = BalanceOf(w, t, u)
  <2>1. CASE moved(u)
    BY <1>0, <2>1, SettledEntry
  <2>2. CASE ~moved(u)
    BY <1>0, <2>2, SettledEntry, HolderParts DEF Covers, Moved
  <2> QED
    BY <2>1, <2>2
<1> DEFINE s == ScalarOf(t)
           m == SupplyOf(w, t)
           entries == EntriesOf(e, t)
           shares == SharesOf(w, t)
           after == EntriesOf(f, t)
           held == SharesOf(v, t)
<1>4. ASSUME NEW u \in Accounts
       PROVE  /\ moved(u) => after[u] = Entry(d, t, entries[u], shares[u])
              /\ ~moved(u) => after[u] = entries[u] /\ held[u] = shares[u]
  <2>1. /\ after[u] = f.users[<<t, u>>] /\ entries[u] = e.users[<<t, u>>]
        /\ shares[u] = BalanceOf(w, t, u) /\ held[u] = BalanceOf(v, t, u)
    BY DEF EntriesOf, SharesOf
  <2> HIDE DEF f, d, moved, after, entries, shares, held
  <2> QED
    BY <1>3, <2>1
<1>5. \A u \in Accounts : shares[u] = BalanceOf(w, t, u) /\ held[u] = BalanceOf(v, t, u)
  BY DEF SharesOf
<1>6. /\ e.data[t] \in ReserveEmissionData \cup {NoData}
      /\ e.data[t] # NoData => e.data[t].last_time <= now
      /\ entries \in [Accounts -> UserEmissionData \cup {NoData}] /\ Fits(e.data[t], entries)
      /\ shares \in [Accounts -> Nat] /\ EntitledOf(e, w, t) \in Nat
  BY TokenParts
<1>7. /\ after \in [Accounts -> UserEmissionData \cup {NoData}] /\ Fits(f.data[t], after)
      /\ held \in [Accounts -> Nat] /\ EntitledOf(f, v, t) \in Nat
  BY <1>1, TokenParts
<1>8. s \in Nat /\ s \in Int /\ s > 0
  BY ScalarPositive
<1>9. EntitledOf(e, w, t) = EntitledBy(s, e.data[t], entries, shares)
      /\ EntitledOf(f, v, t) = EntitledBy(s, f.data[t], after, held)
  BY DEF EntitledOf
<1>10. m = SumFunction(shares)
  BY SupplyIsHeld DEF SharesOf
<1> HIDE DEF f, entries, shares, after, held
<1>11. /\ d \in ReserveEmissionData \cup {NoData} /\ Fits(d, entries)
      /\ EntitledBy(s, d, entries, shares) <= EntitledBy(s, e.data[t], entries, shares)
  BY <1>6, <1>10, AccrualIsPaid
<1> HIDE DEF d, m
<1>12. CASE \E u \in Accounts : moved(u)
  <2>1. f.data[t] = d
    BY <1>2, <1>12
  <2>2. ASSUME NEW u \in Accounts
        PROVE  Entitled(s * Scalar7, after[u], IndexOf(d), held[u])
                 <= Entitled(s * Scalar7, entries[u], IndexOf(d), shares[u])
    <3>1. /\ entries[u] \in UserEmissionData \cup {NoData} /\ shares[u] \in Nat /\ held[u] \in Nat
          /\ entries[u] # NoData => d # NoData /\ entries[u].index <= d.index
      BY <1>6, <1>7, <1>11 DEF Fits
    <3>2. CASE ~moved(u)
      <4>1. after[u] = entries[u] /\ held[u] = shares[u]
        BY <1>4, <1>5, <3>2
      <4>2. Entitled(s * Scalar7, entries[u], IndexOf(d), shares[u]) \in Nat
        <5>1. IndexOf(d) \in Nat /\ s * Scalar7 \in Nat
          BY <1>6, <1>8, <1>11, EntitlementsNat
        <5>2. entries[u] # NoData => entries[u].index <= IndexOf(d)
          BY <3>1 DEF IndexOf
        <5> DEFINE k == s * Scalar7
                   i == IndexOf(d)
        <5>3. k \in Nat /\ i \in Nat /\ (entries[u] # NoData => entries[u].index <= i)
          BY <5>1, <5>2
        <5> HIDE DEF k, i
        <5>4. Entitled(k, entries[u], i, shares[u]) \in Nat
          BY <3>1, <5>3, EntitledNat
        <5> QED
          BY <5>4 DEF k, i
      <4> QED
        BY <4>1, <4>2
    <3>3. CASE moved(u) /\ d = NoData
      <4>1. after[u] = NoData /\ entries[u] = NoData /\ IndexOf(d) = 0
        BY <1>4, <3>1, <3>3 DEF Entry, IndexOf
      <4>2. held[u] * 0 = 0 /\ shares[u] * 0 = 0
        BY <3>1, SMT
      <4>3. Entitled(s * Scalar7, NoData, 0, held[u]) = held[u] * 0
            /\ Entitled(s * Scalar7, NoData, 0, shares[u]) = shares[u] * 0
        BY DEF Entitled
      <4> QED
        BY <4>1, <4>2, <4>3
    <3>4. CASE moved(u) /\ d # NoData
      <4>1. d \in ReserveEmissionData /\ IndexOf(d) = d.index
        BY <1>11, <3>4, DataParts
      <4>2. after[u] = Entry(d, t, entries[u], shares[u])
        BY <1>4, <3>4
      <4>3. PICK entry \in UserEmissionData \cup {NoData}, n \in Nat, n2 \in Nat :
              entry = entries[u] /\ n = shares[u] /\ n2 = held[u]
        BY <3>1
      <4>4. entry # NoData => entry.index <= d.index
        BY <3>1, <4>3
      <4>5. Entitled(s * Scalar7, Entry(d, t, entry, n), d.index, n2)
              <= Entitled(s * Scalar7, entry, d.index, n)
        BY <4>1, <4>4, SettledFits
      <4> QED
        BY <4>1, <4>2, <4>3, <4>5
    <3> QED
      BY <3>2, <3>3, <3>4
  <2>3. EntitledBy(s, d, after, held) <= EntitledBy(s, d, entries, shares)
    <3> HIDE DEF s
    <3> QED
      BY <1>6, <1>7, <1>8, <1>11, <2>1, <2>2, EntitledLess
  <2> DEFINE x == EntitledBy(s, d, after, held)
             y == EntitledBy(s, d, entries, shares)
             z == EntitledBy(s, e.data[t], entries, shares)
  <2>4. x \in Nat /\ y \in Nat /\ z \in Nat
    <3> HIDE DEF s
    <3> QED
      BY <1>6, <1>7, <1>8, <1>11, <2>1, EntitlementsNat
  <2>5. x <= y /\ y <= z
    BY <1>11, <2>3
  <2> HIDE DEF x, y, z
  <2>6. x <= z
    BY <2>4, <2>5
  <2> QED
    BY <1>9, <2>1, <2>6 DEF x, z, f
<1>13. CASE ~(\E u \in Accounts : moved(u))
  <2>1. f.data[t] = e.data[t] /\ \A u \in Accounts : after[u] = entries[u] /\ held[u] = shares[u]
    BY <1>2, <1>4, <1>5, <1>13
  <2>2. after = entries /\ held = shares
    BY <1>6, <1>7, <2>1
  <2> QED
    BY <1>6, <1>9, <2>1, <2>2 DEF f
<1> QED
  BY <1>12, <1>13

-----------------------------------------------------------------------------
(* A step that pays for what it promises.                                  *)

LEMMA CeilMoves ==
    ASSUME NEW s \in Int, s > 0, NEW m \in Int, NEW n \in Int, NEW x \in Int, n <= m + s * x
    PROVE  CeilDiv(n, s) <= CeilDiv(m, s) + x
<1> DEFINE c == CeilDiv(m, s)
<1>1. c \in Int /\ m <= s * c
  BY CeilDivBounds
<1> HIDE DEF c
<1>2. s * (c + x) = s * c + s * x
  BY <1>1, SMT
<1>3. n <= s * (c + x)
  <2>1. s * c \in Int /\ s * x \in Int
    BY <1>1, ProductInt
  <2> QED
    BY <1>1, <1>2, <2>1
<1>4. c + x \in Int
  BY <1>1
<1>5. CeilDiv(n, s) <= c + x
  BY <1>3, <1>4, CeilDivUpper
<1> QED
  BY <1>5 DEF c

\* x is what the step promises in addition, reserve token by reserve token.
LEMMA FundedStep ==
    ASSUME GoodSettings, NEW e, Consistent(e), NEW w \in Ledger, Funded(e, w),
           NEW f, Consistent(f), NEW v \in Ledger,
           NEW x \in [ReserveTokens -> Int],
           \A t \in ReserveTokens :
              EntitledOf(f, v, t) <= EntitledOf(e, w, t) + ScalarOf(t) * x[t],
           SumFunction(x) <= Scalar7 * f.allowance - Scalar7 * e.allowance
    PROVE  Funded(f, v)
<1> DEFINE before == [t \in ReserveTokens |-> Reserved(e, w, t)]
           after == [t \in ReserveTokens |-> Reserved(f, v, t)]
           both == [t \in ReserveTokens |-> before[t] + x[t]]
<1>1. before \in [ReserveTokens -> Int] /\ after \in [ReserveTokens -> Int]
  <2>1. \A t \in ReserveTokens : Reserved(e, w, t) \in Int /\ Reserved(f, v, t) \in Int
    BY TokenParts
  <2> QED
    BY <2>1
<1>2. ASSUME NEW t \in ReserveTokens
      PROVE  after[t] <= both[t]
  <2> DEFINE s == ScalarOf(t)
             m == EntitledOf(e, w, t)
             n == EntitledOf(f, v, t)
             y == x[t]
  <2>1. s \in Int /\ s > 0 /\ m \in Int /\ n \in Int /\ y \in Int
    BY TokenParts, ScalarPositive
  <2>2. n <= m + s * y
    OBVIOUS
  <2>3. after[t] = CeilDiv(n, s) /\ both[t] = CeilDiv(m, s) + y
    BY DEF Reserved
  <2> HIDE DEF s, m, n, y, after, both
  <2>4. CeilDiv(n, s) <= CeilDiv(m, s) + y
    BY <2>1, <2>2, CeilMoves
  <2> QED
    BY <2>3, <2>4
<1>3. \A t \in ReserveTokens : both[t] = before[t] + x[t]
  OBVIOUS
<1>4. both \in [ReserveTokens -> Int]
  <2> HIDE DEF before
  <2> QED
    BY <1>1
<1>5. SumFunction(before) <= Scalar7 * e.allowance
  BY DEF Funded
<1> HIDE DEF before, after, both
<1>6. SumFunction(after) <= SumFunction(both)
  BY <1>1, <1>2, <1>4, TokensFinite, SumFunctionAtMost
<1>7. Sum(both, ReserveTokens) = Sum(before, ReserveTokens) + Sum(x, ReserveTokens)
  <2>1. \A t \in ReserveTokens : before[t] \in Int /\ x[t] \in Int
    BY <1>1
  <2> QED
    BY <1>3, <2>1, TokensFinite, SumAdd
<1>8. DOMAIN both = ReserveTokens /\ DOMAIN before = ReserveTokens /\ DOMAIN x = ReserveTokens
      /\ DOMAIN after = ReserveTokens
  BY <1>1, <1>4
<1>9. SumFunction(both) = SumFunction(before) + SumFunction(x)
  BY <1>7, <1>8, SumFunctionIsSum
<1> DEFINE a == SumFunction(after)
           b == SumFunction(before)
           c == SumFunction(x)
           m == Scalar7 * e.allowance
           n == Scalar7 * f.allowance
<1>10. a \in Int /\ b \in Int /\ c \in Int
  <2>1. /\ \A t \in ReserveTokens : after[t] \in Int
        /\ \A t \in ReserveTokens : before[t] \in Int
        /\ \A t \in ReserveTokens : x[t] \in Int
    BY <1>1
  <2>2. Sum(after, ReserveTokens) \in Int /\ Sum(before, ReserveTokens) \in Int
        /\ Sum(x, ReserveTokens) \in Int
    BY <2>1, TokensFinite, SumInt
  <2> QED
    BY <1>8, <2>2, SumFunctionIsSum
<1>11. m \in Int /\ n \in Int
  <2>1. e.allowance \in Nat /\ f.allowance \in Nat /\ Scalar7 \in Nat
    BY EmissionFields, ScalarAssumption DEF Consistent
  <2> QED
    BY <2>1, ProductInt
<1>12. a <= b + c /\ b <= m /\ c <= n - m
  BY <1>5, <1>6, <1>9
<1> HIDE DEF a, b, c, m, n
<1>13. a <= n
  BY <1>10, <1>11, <1>12
<1> QED
  BY <1>13 DEF Funded, a, n, after

\* A step that promises nothing.
LEMMA FundedStays ==
    ASSUME GoodSettings, NEW e, Consistent(e), NEW w \in Ledger, Funded(e, w),
           NEW f, Consistent(f), NEW v \in Ledger,
           \A t \in ReserveTokens : EntitledOf(f, v, t) <= EntitledOf(e, w, t),
           f.allowance = e.allowance
    PROVE  Funded(f, v)
<1> DEFINE x == [t \in ReserveTokens |-> 0]
<1>1. x \in [ReserveTokens -> Nat] /\ x \in [ReserveTokens -> Int]
      /\ \A t \in ReserveTokens : x[t] = 0
  OBVIOUS
<1> HIDE DEF x
<1>2. SumFunction(x) = 0
  BY <1>1, TokensFinite, SumFunctionZero
<1>3. ASSUME NEW t \in ReserveTokens
      PROVE  EntitledOf(f, v, t) <= EntitledOf(e, w, t) + ScalarOf(t) * x[t]
  <2> DEFINE s == ScalarOf(t)
             m == EntitledOf(e, w, t)
             n == EntitledOf(f, v, t)
  <2>1. s \in Int /\ m \in Int /\ n \in Int /\ n <= m
    BY TokenParts, ScalarPositive
  <2> HIDE DEF s, m, n
  <2>2. s * 0 = 0
    BY <2>1, SMT
  <2>3. n <= m + s * x[t]
    BY <1>1, <2>1, <2>2
  <2> QED
    BY <2>3 DEF s, m, n
<1>4. SumFunction(x) <= Scalar7 * f.allowance - Scalar7 * e.allowance
  <2> DEFINE m == Scalar7 * e.allowance
  <2>1. e.allowance \in Nat /\ Scalar7 \in Nat
    BY EmissionFields, ScalarAssumption DEF Consistent
  <2>2. m \in Int
    BY <2>1, ProductInt
  <2> HIDE DEF m
  <2>3. 0 <= m - m
    BY <2>2
  <2> QED
    BY <1>2, <2>3 DEF m
<1> QED
  BY <1>1, <1>3, <1>4, FundedStep

\* The storage, and the working copy, once they have been written.
LEMMA FundedAfter ==
    ASSUME SameScalars, NEW e, NEW w, Funded(e, w), emissions' = e, ledger' = w
    PROVE  Funded(emissions, ledger)'
<1>1. ASSUME NEW t \in ReserveTokens
      PROVE  Reserved(emissions, ledger, t)' = Reserved(e, w, t)
  <2>1. ScalarOf(t)' = ScalarOf(t)
    BY HolderParts DEF SameScalars, ScalarOf
  <2>2. EntriesOf(emissions, t)' = EntriesOf(e, t)
    BY DEF EntriesOf
  <2>3. SharesOf(ledger, t)' = SharesOf(w, t)
    BY DEF SharesOf, BalanceOf
  <2>4. EntitledOf(emissions, ledger, t)' = EntitledOf(e, w, t)
    BY <2>1, <2>2, <2>3 DEF EntitledOf
  <2> QED
    BY <2>1, <2>4 DEF Reserved
<1>2. [t \in ReserveTokens |-> Reserved(emissions, ledger, t)]'
        = [t \in ReserveTokens |-> Reserved(e, w, t)]
  BY <1>1
<1> QED
  BY <1>2 DEF Funded

LEMMA CopyFundedAfter ==
    ASSUME SameScalars, NEW e, NEW w, Funded(e, w), pending' = e, call'.ledger = w
    PROVE  Funded(pending, call.ledger)'
<1>1. ASSUME NEW t \in ReserveTokens
      PROVE  Reserved(pending, call.ledger, t)' = Reserved(e, w, t)
  <2>1. ScalarOf(t)' = ScalarOf(t)
    BY HolderParts DEF SameScalars, ScalarOf
  <2>2. EntriesOf(pending, t)' = EntriesOf(e, t)
    BY DEF EntriesOf
  <2>3. SharesOf(call.ledger, t)' = SharesOf(w, t)
    BY DEF SharesOf, BalanceOf
  <2>4. EntitledOf(pending, call.ledger, t)' = EntitledOf(e, w, t)
    BY <2>1, <2>2, <2>3 DEF EntitledOf
  <2> QED
    BY <2>1, <2>4 DEF Reserved
<1>2. [t \in ReserveTokens |-> Reserved(pending, call.ledger, t)]'
        = [t \in ReserveTokens |-> Reserved(e, w, t)]
  BY <1>1
<1> QED
  BY <1>2 DEF Funded

\* A step that settles what it moves.
LEMMA SettlingFunded ==
    ASSUME GoodSettings, NEW e, Consistent(e), NEW w \in Ledger, NEW v \in Ledger,
           SharesMatch(w), NEW touched \in SUBSET Holders, Covers(touched, w, v), Funded(e, w)
    PROVE  Funded(SettledFor(e, w, touched), v)
<1>1. PICK f : f = SettledFor(e, w, touched)
  OBVIOUS
<1>2. Consistent(f)
  BY <1>1, SettledKept
<1>3. f.allowance = e.allowance
  BY <1>1 DEF SettledFor, Consistent, Emissions
<1>4. \A t \in ReserveTokens : EntitledOf(f, v, t) <= EntitledOf(e, w, t)
  BY <1>1, SettlingIsPaid
<1> QED
  BY <1>1, <1>2, <1>3, <1>4, FundedStays

\* What is paid to whom depends on the entries, and on the positions.
LEMMA FundedAlike ==
    ASSUME NEW e, NEW w, Funded(e, w), NEW f, NEW v,
           f.data = e.data, f.users = e.users, f.allowance = e.allowance,
           v.positions = w.positions
    PROVE  Funded(f, v)
<1>1. ASSUME NEW t \in ReserveTokens
      PROVE  Reserved(f, v, t) = Reserved(e, w, t)
  <2>1. EntriesOf(f, t) = EntriesOf(e, t) /\ SharesOf(v, t) = SharesOf(w, t)
    BY DEF EntriesOf, SharesOf, BalanceOf
  <2> QED
    BY <2>1 DEF Reserved, EntitledOf
<1>2. [t \in ReserveTokens |-> Reserved(f, v, t)] = [t \in ReserveTokens |-> Reserved(e, w, t)]
  BY <1>1
<1> QED
  BY <1>2 DEF Funded

LEMMA InitFunded == EmissionInit => FundedInv
<1> SUFFICES ASSUME EmissionInit
             PROVE  FundedInv
  OBVIOUS
<1>1. call = NoCall /\ emissions = NoEmissions
  BY DEF EmissionInit, StartWithoutEmissions, Init
<1>2. /\ \A t \in ReserveTokens : emissions.data[t] = NoData
      /\ \A t \in ReserveTokens, u \in Accounts : emissions.users[<<t, u>>] = NoData
      /\ emissions.allowance = 0
  BY <1>1, HolderParts DEF NoEmissions
<1>3. GoodSettings /\ ledger \in Ledger
  BY InitEstablishesInv, ViewInLedger DEF EmissionInit
<1>4. ASSUME NEW t \in ReserveTokens
      PROVE  Reserved(emissions, ledger, t) = 0
  <2> DEFINE s == ScalarOf(t)
             k == s * Scalar7
             shares == SharesOf(ledger, t)
             entries == EntriesOf(emissions, t)
             f == Entitlements(k, NoData, entries, shares)
  <2>1. s \in Nat /\ s > 0
    BY <1>3, ScalarPositive
  <2>2. shares \in [Accounts -> Nat]
    BY <1>3, SharesNat DEF SharesOf
  <2>3. ASSUME NEW u \in Accounts PROVE f[u] = 0
    <3>1. entries[u] = NoData
      BY <1>2 DEF EntriesOf
    <3>2. f[u] = Entitled(k, NoData, 0, shares[u])
      BY <3>1 DEF Entitlements, IndexOf
    <3>3. f[u] = shares[u] * 0
      BY <3>2 DEF Entitled
    <3>4. shares[u] \in Nat
      BY <2>2
    <3> HIDE DEF f, shares
    <3> QED
      BY <3>3, <3>4, SMT
  <2>4. f \in [Accounts -> Nat]
    BY <2>3 DEF Entitlements
  <2> HIDE DEF f, s
  <2>5. SumFunction(f) = 0
    BY <2>3, <2>4, AccountsFinite, SumFunctionZero
  <2>6. Streaming(NoData) = 0 /\ s * 0 = 0
    BY <2>1, SMT DEF Streaming
  <2>7. EntitledOf(emissions, ledger, t) = 0
    BY <1>2, <2>5, <2>6 DEF EntitledOf, EntitledBy, f, s
  <2>8. CeilDiv(0, s) = 0
    <3>1. CeilDiv(0, s) \in Nat
      BY <2>1, CeilDivNat
    <3>2. 0 <= s * 0
      BY <2>1, <2>6
    <3>3. CeilDiv(0, s) <= 0
      BY <2>1, <3>2, CeilDivUpper
    <3> QED
      BY <3>1, <3>3
  <2> QED
    BY <2>7, <2>8 DEF Reserved, s
<1>5. SumFunction([t \in ReserveTokens |-> Reserved(emissions, ledger, t)]) = 0
  <2> DEFINE f == [t \in ReserveTokens |-> Reserved(emissions, ledger, t)]
  <2>1. f \in [ReserveTokens -> Nat] /\ \A t \in ReserveTokens : f[t] = 0
    BY <1>4
  <2> HIDE DEF f
  <2>2. SumFunction(f) = 0
    BY <2>1, TokensFinite, SumFunctionZero
  <2> QED
    BY <2>2 DEF f
<1>6. Scalar7 * 0 = 0
  BY ScalarAssumption, SMT
<1> QED
  BY <1>1, <1>2, <1>5, <1>6 DEF FundedInv, Funded

LEMMA DuringCallFunded ==
    ASSUME PoolInv, PoolInv', EmissionInv, FundedInv, SameScalars, DuringCall
    PROVE  FundedInv'
<1>0. ledger' = ledger /\ emissions' = emissions
  <2>1. CASE Begin
    BY <2>1 DEF DuringCall, Begin, BeginSubmit, BeginFlashLoan
  <2>2. CASE RequestStep
    BY <2>2, RequestLeaves DEF DuringCall
  <2> QED
    BY <2>1, <2>2 DEF DuringCall
<1>1. Funded(emissions, ledger)'
  <2>1. PICK e, w : e = emissions /\ w = ledger
    OBVIOUS
  <2> QED
    BY <1>0, <2>1, FundedAfter DEF FundedInv
<1>2. ASSUME call' # NoCall PROVE Funded(pending, call.ledger)'
  <2> DEFINE e == IF call = NoCall THEN emissions ELSE pending
             w == View
  <2>1. GoodSettings /\ w \in Ledger /\ SharesMatch(w) /\ Consistent(e) /\ Funded(e, w)
    BY DEF PoolInv, WellFormed, GoodSettings, View, EmissionInv, FundedInv
  <2>2. PICK v : v = call'.ledger
    OBVIOUS
  <2>3. v \in Ledger /\ View' = v
    <3>1. call'.ledger \in Ledger
      BY <1>2 DEF PoolInv, WellFormed
    <3> QED
      BY <1>2, <2>2, <3>1 DEF View
  <2>4. PICK touched, x :
          /\ touched \in SUBSET Holders
          /\ x = Settled(e, w, v) /\ x = SettledFor(e, w, touched) /\ Covers(touched, w, v)
    BY SettledMoved
  <2>5. pending' = x
    BY <2>3, <2>4 DEF DuringCall
  <2> HIDE DEF e, w
  <2>6. Funded(x, v)
    BY <2>1, <2>3, <2>4, SettlingFunded
  <2> QED
    BY <2>2, <2>5, <2>6, CopyFundedAfter
<1> QED
  BY <1>1, <1>2 DEF FundedInv

LEMMA CommitCallFunded ==
    ASSUME FundedInv, SameScalars, CommitCall
    PROVE  FundedInv'
<1>1. /\ call # NoCall /\ call' = NoCall /\ emissions' = pending
      /\ ledger' = [call.ledger EXCEPT !.balance = BalancesAfter]
  BY DEF CommitCall, Commit
<1>2. PICK w, e : w = [call.ledger EXCEPT !.balance = BalancesAfter] /\ e = pending
  OBVIOUS
<1>3. w.positions = call.ledger.positions
  BY <1>2
<1>4. Funded(pending, call.ledger)
  BY <1>1 DEF FundedInv
<1>5. Funded(e, w)
  BY <1>2, <1>3, <1>4, FundedAlike
<1>6. Funded(emissions, ledger)'
  BY <1>1, <1>2, <1>5, FundedAfter
<1> QED
  BY <1>1, <1>6 DEF FundedInv

LEMMA OutsideCallFunded ==
    ASSUME PoolInv, PoolInv', EmissionInv, FundedInv, SameScalars,
           OutsideCall \/ CreationStep
    PROVE  FundedInv'
<1>1. GoodSettings /\ ledger \in Ledger /\ SharesMatch(ledger) /\ Consistent(emissions)
  BY DEF PoolInv, WellFormed, GoodSettings, EmissionInv
<1>2. PICK v : v = ledger'
  OBVIOUS
<1>3. v \in Ledger
  BY <1>2 DEF PoolInv, WellFormed
<1>4. PICK touched, x :
        /\ touched \in SUBSET Holders
        /\ emissions' = x /\ x = SettledFor(emissions, ledger, touched)
        /\ Covers(touched, ledger, v)
  BY <1>2, BetweenCalls
<1>5. Funded(x, v)
  BY <1>1, <1>3, <1>4, SettlingFunded DEF FundedInv
<1>6. emissions' = x /\ ledger' = v
  BY <1>2, <1>4
<1>7. Funded(emissions, ledger)'
  BY <1>5, <1>6, FundedAfter
<1>8. call' = NoCall
  BY BetweenCalls
<1> QED
  BY <1>7, <1>8 DEF FundedInv

\* A step between calls that writes the emission storage e.
LEMMA StoredFunded ==
    ASSUME UNCHANGED poolVars, call = NoCall, NEW e, emissions' = e, Funded(e, ledger)
    PROVE  FundedInv'
<1>1. config' = config /\ ledger' = ledger /\ call' = NoCall
  BY DEF poolVars, vars
<1>2. SameScalars
  BY <1>1 DEF SameScalars
<1>3. PICK w : w = ledger
  OBVIOUS
<1>4. Funded(emissions, ledger)'
  BY <1>1, <1>2, <1>3, FundedAfter
<1> QED
  BY <1>1, <1>4 DEF FundedInv

LEMMA SetEmissionsConfigFunded ==
    ASSUME EmissionInv, FundedInv, NEW shares, SetEmissionsConfig(shares)
    PROVE  FundedInv'
<1>1. PICK e : e = [emissions EXCEPT !.shares = shares]
  OBVIOUS
<1>2. e.data = emissions.data /\ e.users = emissions.users /\ e.allowance = emissions.allowance
  BY <1>1 DEF EmissionInv, EmissionTypeOK, Emissions
<1>3. Funded(e, ledger)
  BY <1>2, FundedAlike DEF FundedInv
<1> QED
  BY <1>1, <1>3, StoredFunded DEF SetEmissionsConfig

\* A claim takes no more than the claimant is entitled to.
LEMMA ClaimedLess ==
    ASSUME GoodSettings, NEW t \in ReserveTokens, NEW d \in ReserveEmissionData,
           NEW entries \in [Accounts -> UserEmissionData \cup {NoData}], Fits(d, entries),
           NEW shares \in [Accounts -> Nat], NEW u \in Accounts,
           NEW after \in [Accounts -> UserEmissionData \cup {NoData}], Fits(d, after),
           after[u] = [index |-> d.index, accrued |-> 0],
           \A v \in Accounts \ {u} : after[v] = entries[v]
    PROVE  EntitledBy(ScalarOf(t), d, after, shares)
             + (ScalarOf(t) * Scalar7) * Owed(d, t, entries[u], shares[u])
             <= EntitledBy(ScalarOf(t), d, entries, shares)
<1> DEFINE s == ScalarOf(t)
           k == s * Scalar7
           x == Entitlements(k, d, entries, shares)
           y == Entitlements(k, d, after, shares)
           r == s * Streaming(d)
           p == k * Owed(d, t, entries[u], shares[u])
<1>0. s \in Nat /\ k \in Nat /\ IndexOf(d) = d.index /\ u \in Accounts
      /\ entries[u] \in UserEmissionData \cup {NoData} /\ shares[u] \in Nat
  BY ScalarPositive, DataParts
<1>1. /\ x \in [Accounts -> Nat] /\ SumFunction(x) \in Nat /\ r \in Nat
      /\ y \in [Accounts -> Nat] /\ SumFunction(y) \in Nat
  <2> HIDE DEF s
  <2> QED
    BY <1>0, EntitlementsNat
<1>2. y[u] = 0 /\ p <= x[u] /\ p \in Nat
  <2>1. entries[u] # NoData => entries[u].index <= d.index
    BY DEF Fits
  <2>2. PICK entry \in UserEmissionData \cup {NoData}, n \in Nat :
          entry = entries[u] /\ n = shares[u]
    BY <1>0
  <2>3. /\ Entitled(k, [index |-> d.index, accrued |-> 0], d.index, n) = 0
        /\ k * Owed(d, t, entry, n) <= Entitled(k, entry, d.index, n)
    BY <2>1, <2>2, SettledFits
  <2>4. y[u] = Entitled(k, [index |-> d.index, accrued |-> 0], d.index, n)
    BY <1>0, <2>2 DEF Entitlements
  <2>5. x[u] = Entitled(k, entry, d.index, n)
    BY <1>0, <2>2 DEF Entitlements
  <2>6. Owed(d, t, entry, n) \in Nat
    BY <2>1, <2>2, DataParts, OwedIsNat
  <2>7. p \in Nat
    <3> HIDE DEF k
    <3> QED
      BY <1>0, <2>2, <2>6, ProductNat
  <2> QED
    BY <2>2, <2>3, <2>4, <2>5, <2>7
<1>3. \A v \in Accounts \ {u} : y[v] = x[v]
  BY DEF Entitlements
<1> HIDE DEF k, x, y, r, p, s
<1>4. x \in [Accounts -> Int] /\ y \in [Accounts -> Int] /\ x[u] \in Nat
  BY <1>0, <1>1
<1>5. SumFunction(y) = SumFunction(x) + y[u] - x[u]
  BY <1>0, <1>3, <1>4, AccountsFinite, SumFunctionUpdate
<1>6. (r + SumFunction(y)) + p <= r + SumFunction(x)
  BY <1>1, <1>2, <1>4, <1>5
<1> QED
  BY <1>6 DEF EntitledBy, k, x, y, r, p, s

LEMMA StoredConsistent ==
    ASSUME EmissionInv', now' = now, NEW e, emissions' = e
    PROVE  Consistent(e)
<1>1. Consistent(emissions)'
  BY DEF EmissionInv
<1> QED
  BY <1>1 DEF Consistent, Behind, OnTime

LEMMA ClaimFunded ==
    ASSUME PoolInv, EmissionInv, EmissionInv', FundedInv,
           NEW u \in Users, NEW ids \in ClaimLists, Claim(u, ids)
    PROVE  FundedInv'
<1> DEFINE data == [t \in ReserveTokens |->
                      IF t \in ids THEN AccruedNow(t) ELSE emissions.data[t]]
           users == [h \in Holders |->
                       IF h[1] \in ids /\ h[2] = u /\ AccruedNow(h[1]) # NoData
                       THEN [index |-> AccruedNow(h[1]).index, accrued |-> 0]
                       ELSE emissions.users[h]]
           rest == emissions.allowance - Claimable(ids, u)
<1>1. PICK e : e = [emissions EXCEPT !.allowance = rest, !.data = data, !.users = users]
  OBVIOUS
<1>2. emissions' = e /\ UNCHANGED poolVars /\ now' = now /\ call = NoCall
  BY <1>1 DEF Claim, poolVars, vars
<1>3. /\ GoodSettings /\ ledger \in Ledger /\ Consistent(emissions) /\ SharesMatch(ledger)
      /\ emissions \in Emissions /\ emissions.allowance \in Nat
      /\ ids \subseteq ReserveTokens /\ u \in Accounts
  BY ViewInLedger, EmissionFields, EmissionAssumption, AccountsFinite
     DEF PoolInv, WellFormed, EmissionInv, EmissionTypeOK
<1>4. /\ \A t \in ids : data[t] = AccruedNow(t)
      /\ \A t \in ReserveTokens \ ids : data[t] = emissions.data[t]
  BY <1>3
<1>5. ASSUME NEW t \in ReserveTokens, NEW v \in Accounts
      PROVE  /\ t \in ids /\ v = u /\ AccruedNow(t) # NoData =>
                  users[<<t, v>>] = [index |-> AccruedNow(t).index, accrued |-> 0]
             /\ ~(t \in ids /\ v = u /\ AccruedNow(t) # NoData) =>
                  users[<<t, v>>] = emissions.users[<<t, v>>]
  BY HolderParts
<1> HIDE DEF data, users, rest
<1>6. e.data = data /\ e.users = users /\ e.allowance = rest
  <2>1. PICK x : x = [emissions EXCEPT !.allowance = rest, !.data = data]
    OBVIOUS
  <2>2. x = [shares |-> emissions.shares, data |-> data, users |-> emissions.users,
             allowance |-> rest]
    BY <1>3, <2>1, ReplacedTwo, Zenon
  <2>3. e = [x EXCEPT !.users = users]
    BY <1>1, <1>3, <2>1 DEF Emissions
  <2> QED
    BY <2>2, <2>3
<1>7. Consistent(e)
  BY <1>2, StoredConsistent
<1> DEFINE x == [t \in ReserveTokens |-> IF t \in ids THEN -(Scalar7 * OwedNow(t, u)) ELSE 0]
<1>8. /\ \A t \in ids : x[t] = -(Scalar7 * OwedNow(t, u))
      /\ \A t \in ReserveTokens \ ids : x[t] = 0
  BY <1>3
<1>9. ASSUME NEW t \in ReserveTokens
      PROVE  OwedNow(t, u) \in Nat /\ Scalar7 * OwedNow(t, u) \in Nat
  BY <1>3, OwedNowNat, ScalarAssumption, ProductNat
<1>10. x \in [ReserveTokens -> Int] /\ DOMAIN x = ReserveTokens
  BY <1>9
<1> HIDE DEF x
<1>11. ASSUME NEW t \in ReserveTokens, t \notin ids
       PROVE  EntitledOf(e, ledger, t) <= EntitledOf(emissions, ledger, t) + ScalarOf(t) * x[t]
  <2>1. EntriesOf(e, t) = EntriesOf(emissions, t)
    BY <1>5, <1>6, <1>11 DEF EntriesOf
  <2>2. EntitledOf(e, ledger, t) = EntitledOf(emissions, ledger, t)
    BY <1>4, <1>6, <1>11, <2>1 DEF EntitledOf
  <2>3. EntitledOf(emissions, ledger, t) \in Nat /\ ScalarOf(t) \in Nat
    BY <1>3, TokenParts, ScalarPositive
  <2>4. ScalarOf(t) * 0 = 0
    BY <2>3, SMT
  <2> QED
    BY <1>8, <1>11, <2>2, <2>3, <2>4
<1>12. ASSUME NEW t \in ReserveTokens, t \in ids
       PROVE  EntitledOf(e, ledger, t) <= EntitledOf(emissions, ledger, t) + ScalarOf(t) * x[t]
  <2> DEFINE s == ScalarOf(t)
             d == AccruedNow(t)
             before == emissions.data[t]
             entries == EntriesOf(emissions, t)
             after == EntriesOf(e, t)
             shares == SharesOf(ledger, t)
             p == (s * Scalar7) * Owed(d, t, entries[u], shares[u])
             i == EntitledBy(s, before, entries, shares)
             j == EntitledBy(s, d, entries, shares)
             l == EntitledBy(s, d, after, shares)
  <2>1. /\ before \in ReserveEmissionData \cup {NoData} /\ (before # NoData => before.last_time <= now)
        /\ entries \in [Accounts -> UserEmissionData \cup {NoData}] /\ Fits(before, entries)
        /\ shares \in [Accounts -> Nat] /\ s \in Nat
        /\ after \in [Accounts -> UserEmissionData \cup {NoData}] /\ Fits(e.data[t], after)
    BY <1>3, <1>7, TokenParts, ScalarPositive
  <2>2. e.data[t] = d
    BY <1>4, <1>6, <1>12
  <2>3. SupplyOf(ledger, t) = SumFunction(shares)
    BY <1>3, SupplyIsHeld DEF SharesOf
  <2>4. /\ d \in ReserveEmissionData \cup {NoData} /\ Fits(d, entries) /\ j <= i
    <3> HIDE DEF entries, shares, before
    <3> QED
      BY <1>3, <2>1, <2>3, AccrualIsPaid DEF AccruedNow, before
  <2>5. i \in Nat /\ j \in Nat /\ l \in Nat
    <3> HIDE DEF entries, shares, before, after, d, s
    <3> QED
      BY <2>1, <2>2, <2>4, EntitlementsNat
  <2>6. EntitledOf(emissions, ledger, t) = i /\ EntitledOf(e, ledger, t) = l
    BY <2>2 DEF EntitledOf
  <2>7. entries[u] = emissions.users[<<t, u>>] /\ shares[u] = BalanceOf(ledger, t, u)
    BY <1>3 DEF EntriesOf, SharesOf
  <2>8. OwedNow(t, u) = Owed(d, t, entries[u], shares[u]) /\ OwedNow(t, u) \in Nat
    BY <1>9, <2>7 DEF OwedNow
  <2>9. s * x[t] = -p /\ p \in Nat
    <3> DEFINE n == OwedNow(t, u)
    <3>1. n \in Nat /\ Scalar7 \in Nat /\ x[t] = -(Scalar7 * n) /\ p = (s * Scalar7) * n
      BY <1>8, <1>12, <2>8, ScalarAssumption
    <3> HIDE DEF n, p, s
    <3>2. s * (-(Scalar7 * n)) = -((s * Scalar7) * n)
      BY <2>1, <3>1, SMT
    <3>3. (s * Scalar7) * n \in Nat
      BY <2>1, <3>1, ProductNat
    <3> QED
      BY <3>1, <3>2, <3>3
  <2>10. l + p <= j
    <3>1. CASE d = NoData
      <4>1. Owed(d, t, entries[u], shares[u]) = 0
        BY <3>1 DEF Owed
      <4>2. (s * Scalar7) * 0 = 0
        BY <2>1, ScalarAssumption, ProductNat, SMT
      <4>3. \A v \in Accounts : after[v] = entries[v]
        BY <1>5, <1>6, <3>1 DEF EntriesOf
      <4>4. after = entries
        BY <2>1, <4>3
      <4>5. p = 0 /\ l = j
        BY <4>1, <4>2, <4>4
      <4> QED
        BY <2>5, <4>5
    <3>2. CASE d # NoData
      <4>1. /\ after[u] = [index |-> d.index, accrued |-> 0]
            /\ \A v \in Accounts \ {u} : after[v] = entries[v]
        BY <1>3, <1>5, <1>6, <1>12, <3>2 DEF EntriesOf
      <4>2. d \in ReserveEmissionData
        BY <2>4, <3>2
      <4> HIDE DEF d, entries, after, shares
      <4> QED
        BY <1>3, <2>1, <2>2, <2>4, <4>1, <4>2, ClaimedLess
    <3> QED
      BY <3>1, <3>2
  <2> HIDE DEF i, j, l, p, s
  <2>11. l <= i + s * x[t]
    BY <2>4, <2>5, <2>9, <2>10
  <2> QED
    BY <2>6, <2>11 DEF s
<1>13. SumFunction(x) = Scalar7 * e.allowance - Scalar7 * emissions.allowance
  <2> DEFINE paid == [t \in ids |-> OwedNow(t, u)]
  <2>1. IsFiniteSet(ids) /\ ids \in SUBSET ReserveTokens /\ IsFiniteSet(ReserveTokens)
    BY <1>3, TokensFinite, FS_Subset
  <2>2. /\ paid \in [ids -> Nat] /\ DOMAIN paid = ids
        /\ \A t \in ids : paid[t] = OwedNow(t, u)
    BY <1>3, <1>9
  <2>3. Claimable(ids, u) = SumFunction(paid)
    BY DEF Claimable
  <2> HIDE DEF paid
  <2>4. Sum(x, ReserveTokens) = Sum(x, ids)
    BY <1>8, <1>10, <2>1, SumOnPart
  <2> DEFINE c == -Scalar7
             n == SumFunction(paid)
             m == emissions.allowance
  <2>5. c \in Int /\ Scalar7 \in Nat
    BY ScalarAssumption
  <2>6. ASSUME NEW t \in ids PROVE paid[t] \in Int /\ x[t] = c * paid[t]
    <3>1. paid[t] \in Nat /\ x[t] = -(Scalar7 * paid[t])
      BY <1>8, <2>2
    <3>2. -(Scalar7 * paid[t]) = (-Scalar7) * paid[t]
      BY <2>5, <3>1, SMT
    <3> QED
      BY <3>1, <3>2
  <2> HIDE DEF c
  <2>7. Sum(x, ids) = c * Sum(paid, ids)
    BY <2>1, <2>5, <2>6, SumTimes
  <2>8. SumFunction(x) = c * n
    BY <1>10, <2>2, <2>4, <2>7, SumFunctionIsSum
  <2>9. n \in Nat
    BY <2>1, <2>2, SumFunctionNat
  <2>10. e.allowance = m - n
    BY <1>6, <2>3 DEF rest
  <2>11. m \in Nat
    BY <1>3
  <2> HIDE DEF n, m
  <2>12. (-Scalar7) * n = Scalar7 * (m - n) - Scalar7 * m
    BY <2>5, <2>9, <2>11, SMT
  <2> QED
    BY <2>8, <2>10, <2>12 DEF c, m
<1>14. SumFunction(x) <= Scalar7 * e.allowance - Scalar7 * emissions.allowance
  <2>1. e.allowance \in Nat /\ Scalar7 \in Nat
    BY <1>7, EmissionFields, ScalarAssumption DEF Consistent
  <2> DEFINE a == Scalar7 * e.allowance
             b == Scalar7 * emissions.allowance
  <2>2. a \in Int /\ b \in Int
    BY <1>3, <2>1, ProductInt
  <2> HIDE DEF a, b
  <2>3. a - b <= a - b
    BY <2>2
  <2> QED
    BY <1>13, <2>3 DEF a, b
<1>15. Funded(emissions, ledger)
  BY DEF FundedInv
<1>16. Funded(e, ledger)
  BY <1>3, <1>7, <1>10, <1>11, <1>12, <1>14, <1>15, FundedStep
<1> QED
  BY <1>2, <1>16, StoredFunded

\* What a gulp shares out is no more than what was gulped.
LEMMA GulpedWhole ==
    ASSUME emissions \in Emissions, NEW amount \in Nat,
           NEW x \in [ReserveTokens -> Nat],
           \A t \in ReserveTokens : Enabled(t) => x[t] = Scalar7 * NewReserveEmissions(t, amount),
           \A t \in ReserveTokens : ~Enabled(t) => x[t] = 0
    PROVE  SumFunction(x) <= Scalar7 * amount
<1> DEFINE S == {s \in ReserveTokens : Enabled(s)}
           f == [s \in S |-> emissions.shares[s]]
           z == SumFunction(f)
           g == [s \in S |-> DivFloor(f[s], z, Scalar7)]
           bound == [s \in S |-> amount * g[s]]
<1>0. Scalar7 \in Nat /\ Scalar7 \in Int /\ Scalar7 > 0
  BY ScalarAssumption
<1>1. IsFiniteSet(S) /\ S \in SUBSET ReserveTokens /\ IsFiniteSet(ReserveTokens)
  BY TokensFinite, FS_Subset
<1>2. f \in [S -> Nat] /\ \A s \in S : f[s] = emissions.shares[s] /\ f[s] > 0
  BY EmissionFields DEF Enabled
<1>3. TotalShare = z
  BY DEF TotalShare
<1>4. /\ \A s \in S : g[s] = DivFloor(f[s], z, Scalar7)
      /\ \A s \in S : bound[s] = amount * g[s]
      /\ DOMAIN g = S /\ DOMAIN bound = S /\ DOMAIN x = ReserveTokens
      /\ g = [s \in S |-> g[s]]
  OBVIOUS
<1>5. /\ \A s \in S : x[s] = Scalar7 * NewReserveEmissions(s, amount)
      /\ \A s \in ReserveTokens \ S : x[s] = 0
      /\ \A s \in ReserveTokens : x[s] \in Int
  OBVIOUS
<1>6. \A s \in S : NewReserveEmissions(s, amount) \in Nat
  BY ShareOfAmount
<1> HIDE DEF S, f, z, g, bound
<1>7. SumFunction(x) = Sum(x, S)
  <2>1. Sum(x, ReserveTokens) = Sum(x, S)
    BY <1>1, <1>5, SumOnPart
  <2> QED
    BY <1>4, <2>1, SumFunctionIsSum
<1>8. CASE S = {}
  <2>1. Sum(x, S) = 0
    BY <1>8, SumEmpty
  <2>2. Scalar7 * amount \in Nat
    BY <1>0, ProductNat
  <2> QED
    BY <1>7, <2>1, <2>2
<1>9. CASE S # {}
  <2>1. z \in Nat /\ z > 0 /\ z \in Int
    <3>1. PICK s \in S : f[s] > 0
      BY <1>2, <1>9
    <3>2. SumFunction(f) \in Nat /\ f[s] <= SumFunction(f) /\ f[s] \in Nat
      BY <1>1, <1>2, SumFunctionNat, SumFunctionBound
    <3> QED
      BY <3>1, <3>2 DEF z
  <2>2. ASSUME NEW s \in S
        PROVE  g[s] \in Nat /\ z * g[s] <= Scalar7 * f[s]
    <3> DEFINE y == f[s] * Scalar7
    <3>1. f[s] \in Nat /\ y \in Nat
      BY <1>0, <1>2, ProductNat
    <3>2. g[s] = FloorDiv(y, z)
      BY <1>4 DEF DivFloor
    <3>3. y = Scalar7 * f[s]
      BY <1>0, <3>1, SMT
    <3> HIDE DEF y
    <3>4. FloorDiv(y, z) \in Nat /\ z * FloorDiv(y, z) <= y
      BY <2>1, <3>1, FloorDivBounds, FloorDivNat
    <3> QED
      BY <3>2, <3>3, <3>4
  <2>3. g \in [S -> Nat]
    BY <1>4, <2>2
  <2>4. Sum(g, S) <= Scalar7 /\ Sum(g, S) \in Nat
    <3>1. SumFunction(f) > 0 /\ \A s \in S : SumFunction(f) * g[s] <= Scalar7 * f[s]
      BY <2>1, <2>2 DEF z
    <3>2. SumFunction(g) <= Scalar7
      BY <1>0, <1>1, <1>2, <2>3, <3>1, SharedOut
    <3> QED
      BY <1>1, <1>4, <2>3, <3>2, SumFunctionIsSum, SumFunctionNat
  <2>5. ASSUME NEW s \in S
        PROVE  x[s] \in Int /\ bound[s] \in Int /\ x[s] <= bound[s]
    <3> DEFINE y == g[s] * amount
               h == NewReserveEmissions(s, amount)
    <3>1. g[s] \in Nat /\ y \in Nat /\ h \in Nat
      BY <1>6, <2>2, ProductNat
    <3>2. h = FloorDiv(y, Scalar7)
      BY <1>2, <1>3, <1>4 DEF NewReserveEmissions, MulFloor
    <3>3. y = amount * g[s]
      BY <3>1, SMT
    <3>4. x[s] = Scalar7 * h /\ bound[s] = amount * g[s]
      BY <1>4, <1>5
    <3> HIDE DEF y, h
    <3>5. Scalar7 * FloorDiv(y, Scalar7) <= y
      BY <1>0, <3>1, FloorDivBounds
    <3>6. Scalar7 * h \in Nat
      BY <1>0, <3>1, ProductNat
    <3> QED
      BY <3>1, <3>2, <3>3, <3>4, <3>5, <3>6
  <2>6. Sum(x, S) <= Sum(bound, S)
    BY <1>1, <2>5, SumAtMost
  <2>7. Sum(bound, S) = amount * Sum(g, S)
    <3>1. \A s \in S : g[s] \in Int /\ bound[s] = amount * g[s]
      BY <1>4, <2>2
    <3>2. amount \in Int
      OBVIOUS
    <3> QED
      BY <1>1, <3>1, <3>2, SumTimes
  <2> DEFINE y == Sum(g, S)
             b == Sum(bound, S)
             n == Sum(x, S)
  <2>8. y \in Nat /\ y <= Scalar7
    BY <2>4
  <2>9. n \in Int
    BY <1>1, <2>5, SumInt
  <2> HIDE DEF y, b, n
  <2>10. amount * y <= amount * Scalar7
    BY <1>0, <2>8, ProductMonotone
  <2>11. amount * Scalar7 = Scalar7 * amount /\ amount * Scalar7 \in Int /\ amount * y \in Int
    BY <1>0, <2>8, ProductInt, SMT
  <2>12. n <= amount * y
    BY <2>6, <2>7 DEF y, b, n
  <2>13. n <= Scalar7 * amount
    BY <2>9, <2>10, <2>11, <2>12
  <2> QED
    BY <1>7, <2>13 DEF n
<1> QED
  BY <1>8, <1>9

\* A new stream gives what was left, and what is new, at most.
LEMMA StreamIsPaid ==
    ASSUME PoolInv, Consistent(emissions), NEW t \in ReserveTokens, Enabled(t), NEW amount \in Nat
    PROVE  LET a == AccruedNow(t)
               new == Scalar7 * NewReserveEmissions(t, amount)
           IN /\ new \in Nat
              /\ Streaming(Stream(t, amount)) <= new + Streaming(a)
              /\ IndexOf(Stream(t, amount)) = IndexOf(a)
<1> DEFINE d == AccruedNow(t)
           n == NewReserveEmissions(t, amount)
           left == Unemitted(d)
           x == (n + left) * Scalar7
           eps == x \div EmissionPeriod
           stream == Stream(t, amount)
<1>0. GoodSettings /\ ledger \in Ledger /\ now \in Nat /\ emissions \in Emissions
  BY ViewInLedger DEF Consistent
<1>1. /\ d \in ReserveEmissionData \cup {NoData}
      /\ d # NoData => d.last_time <= now
  BY <1>0, AccrualKept DEF AccruedNow
<1>2. n \in Nat /\ left \in Nat /\ Scalar7 \in Nat /\ Scalar7 \in Int /\ Scalar7 > 0
  BY <1>0, <1>1, ShareOfAmount, UnemittedNat, ScalarAssumption
<1>3. EmissionPeriod \in Nat /\ EmissionPeriod \in Int /\ EmissionPeriod > 0
  BY EmissionAssumption
<1>4. stream \in ReserveEmissionData /\ stream # NoData
  BY <1>0, StreamForward
<1>5. /\ stream.expiration = now + EmissionPeriod /\ stream.last_time = now
      /\ stream.eps = eps /\ stream.index = IF d = NoData THEN 0 ELSE d.index
  BY DEF Stream, AccruedNow
<1>6. IndexOf(stream) = IndexOf(d)
  BY <1>4, <1>5 DEF IndexOf
<1> HIDE DEF stream, d
<1>7. Streaming(stream) = eps * EmissionPeriod
  <2>1. now + EmissionPeriod > now /\ (now + EmissionPeriod) - now = EmissionPeriod
    BY <1>0, <1>3
  <2> QED
    BY <1>4, <1>5, <2>1 DEF Streaming
<1>8. Scalar7 * left <= Streaming(d)
  <2>1. CASE d # NoData /\ d.expiration > now
    <3>1. /\ d.eps \in Nat /\ d.expiration \in Nat /\ d.last_time \in Nat
          /\ d.last_time <= now /\ d.expiration > d.last_time
      BY <1>0, <1>1, <2>1, DataParts
    <3> DEFINE y == d.eps * (d.expiration - now)
               z == d.expiration - now
               w == d.expiration - d.last_time
    <3>2. z \in Nat /\ w \in Nat /\ z <= w
      BY <1>0, <2>1, <3>1
    <3>3. left = FloorDiv(y, Scalar7)
      BY <2>1 DEF Unemitted, MulFloor
    <3>4. y \in Nat
      BY <3>1, <3>2, ProductNat
    <3>5. Streaming(d) = d.eps * w
      BY <2>1, <3>1 DEF Streaming
    <3> HIDE DEF w, z
    <3>6. d.eps * z <= d.eps * w /\ d.eps * w \in Nat
      BY <3>1, <3>2, ProductMonotone, ProductNat
    <3>7. y <= d.eps * w
      BY <3>6 DEF z
    <3> HIDE DEF y
    <3>8. Scalar7 * FloorDiv(y, Scalar7) <= y /\ FloorDiv(y, Scalar7) \in Nat
      BY <1>2, <3>4, FloorDivBounds, FloorDivNat
    <3>9. Scalar7 * FloorDiv(y, Scalar7) \in Nat
      BY <1>2, <3>8, ProductNat
    <3> QED
      BY <3>3, <3>4, <3>5, <3>6, <3>7, <3>8, <3>9
  <2>2. CASE ~(d # NoData /\ d.expiration > now)
    <3>1. left = 0
      BY <2>2 DEF Unemitted
    <3>2. Scalar7 * 0 = 0
      BY <1>2, SMT
    <3>3. Streaming(d) \in Nat
      BY <1>1, StreamingNat
    <3> QED
      BY <3>1, <3>2, <3>3
  <2> QED
    BY <2>1, <2>2
<1> HIDE DEF n, left, eps, x
<1>9. Streaming(stream) <= Scalar7 * n + Scalar7 * left
  <2>1. n + left \in Nat /\ x \in Nat
    BY <1>2, ProductNat DEF x
  <2>2. EmissionPeriod * (x \div EmissionPeriod) <= x /\ (x \div EmissionPeriod) \in Int
    BY <1>3, <2>1, DivBounds
  <2>3. eps * EmissionPeriod = EmissionPeriod * eps /\ eps \in Int
    BY <1>3, <2>2, SMT DEF eps
  <2>4. x = Scalar7 * n + Scalar7 * left
    BY <1>2, SMT DEF x
  <2>5. EmissionPeriod * eps \in Int
    BY <1>3, <2>3, ProductInt
  <2>6. EmissionPeriod * eps <= x
    BY <2>2 DEF eps
  <2> QED
    BY <1>7, <2>3, <2>4, <2>6
<1>10. Scalar7 * n \in Nat
  BY <1>2, ProductNat
<1>11. Scalar7 * left \in Nat /\ Streaming(d) \in Nat /\ Streaming(stream) \in Nat
  BY <1>1, <1>2, <1>4, ProductNat, StreamingNat
<1>12. Streaming(stream) <= Scalar7 * n + Streaming(d)
  BY <1>8, <1>9, <1>10, <1>11
<1> QED
  BY <1>6, <1>10, <1>12 DEF n, d, stream

LEMMA GulpEmissionsFunded ==
    ASSUME PoolInv, EmissionInv, EmissionInv', FundedInv,
           NEW amount \in EmissionAmounts, GulpEmissions(amount)
    PROVE  FundedInv'
<1> DEFINE data == [t \in ReserveTokens |->
                      IF Enabled(t) THEN Stream(t, amount) ELSE emissions.data[t]]
           m == emissions.allowance + amount
           x == [t \in ReserveTokens |->
                   IF Enabled(t) THEN Scalar7 * NewReserveEmissions(t, amount) ELSE 0]
<1>1. PICK e : e = [emissions EXCEPT !.allowance = m, !.data = data]
  OBVIOUS
<1>2. emissions' = e /\ UNCHANGED poolVars /\ now' = now /\ call = NoCall
  BY <1>1 DEF GulpEmissions, poolVars, vars
<1>3. /\ GoodSettings /\ ledger \in Ledger /\ Consistent(emissions) /\ SharesMatch(ledger)
      /\ emissions \in Emissions /\ emissions.allowance \in Nat /\ amount \in Nat
      /\ Scalar7 \in Nat
  BY ViewInLedger, EmissionFields, EmissionAssumption, ScalarAssumption
     DEF PoolInv, WellFormed, EmissionInv, EmissionTypeOK
<1>4. /\ \A t \in ReserveTokens : Enabled(t) => data[t] = Stream(t, amount)
      /\ \A t \in ReserveTokens : ~Enabled(t) => data[t] = emissions.data[t]
      /\ \A t \in ReserveTokens :
           Enabled(t) => x[t] = Scalar7 * NewReserveEmissions(t, amount)
      /\ \A t \in ReserveTokens : ~Enabled(t) => x[t] = 0
  OBVIOUS
<1>5. x \in [ReserveTokens -> Nat] /\ x \in [ReserveTokens -> Int]
  <2>1. \A t \in ReserveTokens : Enabled(t) => Scalar7 * NewReserveEmissions(t, amount) \in Nat
    BY <1>3, StreamIsPaid
  <2> QED
    BY <2>1
<1> HIDE DEF data, m, x
<1>6. e.data = data /\ e.users = emissions.users /\ e.allowance = m
  BY <1>1, <1>3, ReplacedTwo
<1>7. Consistent(e)
  BY <1>2, StoredConsistent
<1>8. ASSUME NEW t \in ReserveTokens
      PROVE  EntitledOf(e, ledger, t) <= EntitledOf(emissions, ledger, t) + ScalarOf(t) * x[t]
  <2> DEFINE s == ScalarOf(t)
             before == emissions.data[t]
             d == AccruedNow(t)
             n == e.data[t]
             entries == EntriesOf(emissions, t)
             shares == SharesOf(ledger, t)
             y == x[t]
             i == EntitledBy(s, before, entries, shares)
  <2>1. /\ before \in ReserveEmissionData \cup {NoData} /\ (before # NoData => before.last_time <= now)
        /\ n \in ReserveEmissionData \cup {NoData}
        /\ entries \in [Accounts -> UserEmissionData \cup {NoData}] /\ Fits(before, entries)
        /\ shares \in [Accounts -> Nat] /\ s \in Nat /\ EntitledOf(emissions, ledger, t) \in Nat
    BY <1>3, <1>7, TokenParts, ScalarPositive
  <2>2. EntriesOf(e, t) = entries
    BY <1>6 DEF EntriesOf
  <2>3. EntitledOf(emissions, ledger, t) = i /\ EntitledOf(e, ledger, t) = EntitledBy(s, n, entries, shares)
    BY <2>2 DEF EntitledOf
  <2>4. CASE ~Enabled(t)
    <3>1. s * 0 = 0
      BY <2>1, SMT
    <3>2. n = before /\ y = 0
      BY <1>4, <1>6, <2>4
    <3>3. i \in Nat
      BY <2>1, <2>3
    <3> QED
      BY <2>3, <3>1, <3>2, <3>3
  <2>5. CASE Enabled(t)
    <3>1. /\ y = Scalar7 * NewReserveEmissions(t, amount) /\ y \in Nat
          /\ Streaming(n) <= y + Streaming(d) /\ IndexOf(n) = IndexOf(d)
      BY <1>3, <1>4, <1>5, <1>6, <2>5, StreamIsPaid
    <3>2. SupplyOf(ledger, t) = SumFunction(shares)
      BY <1>3, SupplyIsHeld DEF SharesOf
    <3>3. /\ d \in ReserveEmissionData \cup {NoData} /\ Fits(d, entries)
          /\ EntitledBy(s, d, entries, shares) <= i
      <4> HIDE DEF entries, shares, before
      <4> QED
        BY <1>3, <2>1, <3>2, AccrualIsPaid DEF AccruedNow, before
    <3> DEFINE k == s * Scalar7
               total == SumFunction(Entitlements(k, d, entries, shares))
               p == Streaming(n)
               q == Streaming(d)
    <3>4. Entitlements(k, n, entries, shares) = Entitlements(k, d, entries, shares)
      BY <3>1 DEF Entitlements
    <3>5. /\ EntitledBy(s, n, entries, shares) = s * p + total
          /\ EntitledBy(s, d, entries, shares) = s * q + total
      BY <3>4 DEF EntitledBy
    <3>6. p \in Nat /\ q \in Nat /\ p <= y + q
      BY <2>1, <3>1, <3>3, StreamingNat
    <3>7. total \in Nat /\ i \in Nat
      <4> HIDE DEF entries, shares, d, s, before
      <4> QED
        BY <2>1, <3>3, EntitlementsNat
    <3> HIDE DEF total, p, q, k, y, i, s
    <3>8. s * p <= s * (y + q) /\ s * (y + q) = s * y + s * q
      <4>1. y + q \in Int /\ p \in Int
        BY <3>1, <3>6
      <4>2. s * p <= s * (y + q)
        BY <2>1, <3>6, <4>1, ProductMonotone
      <4>3. s * (y + q) = s * y + s * q
        BY <2>1, <3>1, <3>6, SMT
      <4> QED
        BY <4>2, <4>3
    <3>9. s * p \in Nat /\ s * y \in Nat /\ s * q \in Nat
      BY <2>1, <3>1, <3>6, ProductNat
    <3>10. s * p + total <= i + s * y
      BY <3>3, <3>5, <3>7, <3>8, <3>9
    <3> QED
      BY <2>3, <3>5, <3>10 DEF y, s
  <2> QED
    BY <2>4, <2>5
<1>9. SumFunction(x) <= Scalar7 * amount
  BY <1>3, <1>4, <1>5, GulpedWhole
<1>10. SumFunction(x) <= Scalar7 * e.allowance - Scalar7 * emissions.allowance
  <2> DEFINE a == emissions.allowance
             b == SumFunction(x)
  <2>1. e.allowance = a + amount /\ a \in Nat /\ b <= Scalar7 * amount
    BY <1>3, <1>6, <1>9 DEF m
  <2> HIDE DEF a, b
  <2>2. Scalar7 * (a + amount) - Scalar7 * a = Scalar7 * amount
    BY <1>3, <2>1, SMT
  <2>3. b <= Scalar7 * e.allowance - Scalar7 * a
    BY <2>1, <2>2
  <2> QED
    BY <2>3 DEF a, b
<1>11. Funded(emissions, ledger)
  BY DEF FundedInv
<1>12. Funded(e, ledger)
  BY <1>3, <1>5, <1>7, <1>8, <1>10, <1>11, FundedStep
<1> QED
  BY <1>2, <1>12, StoredFunded

LEMMA EmissionStepFunded ==
    ASSUME PoolInv, PoolInv', EmissionInv, EmissionInv', FundedInv, [EmissionNext]_emissionVars
    PROVE  FundedInv'
<1>0. SameScalars
  BY EmissionStepIsPoolStep, ScalarsFixed DEF PoolInv
<1>1. CASE DuringCall
  BY <1>0, <1>1, DuringCallFunded
<1>2. CASE CommitCall
  BY <1>0, <1>2, CommitCallFunded
<1>3. CASE AbortCall
  <2>1. PICK e, w : e = emissions /\ w = ledger
    OBVIOUS
  <2>2. emissions' = e /\ ledger' = w /\ call' = NoCall
    BY <1>3, <2>1 DEF AbortCall, Abort
  <2>3. Funded(emissions, ledger)'
    BY <1>0, <2>1, <2>2, FundedAfter DEF FundedInv
  <2> QED
    BY <2>2, <2>3 DEF FundedInv
<1>4. CASE OutsideCall \/ CreationStep
  BY <1>0, <1>4, OutsideCallFunded
<1>5. CASE \E shares \in ShareSettings : SetEmissionsConfig(shares)
  BY <1>5, SetEmissionsConfigFunded
<1>6. CASE \E amount \in EmissionAmounts : GulpEmissions(amount)
  BY <1>6, GulpEmissionsFunded
<1>7. CASE \E u \in Users, ids \in ClaimLists : Claim(u, ids)
  BY <1>7, ClaimFunded
<1>8. CASE UNCHANGED emissionVars
  <2>1. /\ emissions' = emissions /\ ledger' = ledger /\ pending' = pending /\ call' = call
    BY <1>8 DEF emissionVars, poolVars, vars
  <2>2. PICK e, w, f, v : e = emissions /\ w = ledger /\ f = pending /\ v = call.ledger
    OBVIOUS
  <2>3. Funded(emissions, ledger)'
    BY <1>0, <2>1, <2>2, FundedAfter DEF FundedInv
  <2>4. call # NoCall => Funded(pending, call.ledger)'
    BY <1>0, <2>1, <2>2, CopyFundedAfter DEF FundedInv
  <2> QED
    BY <2>1, <2>3, <2>4 DEF FundedInv
<1> QED
  BY <1>1, <1>2, <1>3, <1>4, <1>5, <1>6, <1>7, <1>8 DEF EmissionNext

\* What is outstanding is rounded down, what is reserved is not.
LEMMA OutstandingReserved ==
    ASSUME PoolInv, EmissionInv, NEW t \in ReserveTokens
    PROVE  Outstanding(t) \in Nat /\ Outstanding(t) <= Reserved(emissions, ledger, t)
<1> DEFINE s == ScalarOf(t)
           k == s * Scalar7
           d == AccruedNow(t)
           before == emissions.data[t]
           entries == EntriesOf(emissions, t)
           shares == SharesOf(ledger, t)
           owed == [u \in Accounts |-> OwedNow(t, u)]
           paid == [u \in Accounts |-> k * owed[u]]
           due == Entitlements(k, d, entries, shares)
           n == EntitledOf(emissions, ledger, t)
<1>1. /\ GoodSettings /\ ledger \in Ledger /\ SharesMatch(ledger) /\ Consistent(emissions)
      /\ Scalar7 \in Nat
  BY ScalarAssumption DEF PoolInv, WellFormed, GoodSettings, EmissionInv
<1>2. /\ before \in ReserveEmissionData \cup {NoData} /\ (before # NoData => before.last_time <= now)
      /\ entries \in [Accounts -> UserEmissionData \cup {NoData}] /\ Fits(before, entries)
      /\ shares \in [Accounts -> Nat] /\ n \in Nat /\ Reserved(emissions, ledger, t) \in Nat
  BY <1>1, TokenParts
<1>3. s \in Nat /\ s \in Int /\ s > 0 /\ k \in Nat
  BY <1>1, ScalarPositive
<1>4. SupplyOf(ledger, t) = SumFunction(shares)
  BY <1>1, SupplyIsHeld DEF SharesOf
<1>5. n = EntitledBy(s, before, entries, shares)
  BY DEF EntitledOf
<1>6. /\ d \in ReserveEmissionData \cup {NoData} /\ Fits(d, entries)
      /\ EntitledBy(s, d, entries, shares) <= n
  <2> HIDE DEF entries, shares, before, n
  <2> QED
    BY <1>1, <1>2, <1>4, <1>5, AccrualIsPaid DEF AccruedNow, before
<1>7. CASE d = NoData
  BY <1>2, <1>7 DEF Outstanding
<1>8. CASE d # NoData
  <2>1. d \in ReserveEmissionData /\ IndexOf(d) = d.index
    BY <1>6, <1>8, DataParts
  <2> DEFINE total == SumFunction(owed)
             r == Streaming(d)
  <2>2. Outstanding(t) = Scalar7 * total + r
    BY <1>8 DEF Outstanding, Streaming
  <2>3. owed \in [Accounts -> Nat] /\ \A u \in Accounts : owed[u] = OwedNow(t, u)
    BY <1>1, OwedNowNat
  <2>4. /\ due \in [Accounts -> Nat] /\ SumFunction(due) \in Nat /\ s * r \in Nat
        /\ EntitledBy(s, d, entries, shares) = s * r + SumFunction(due)
    <3>1. /\ due \in [Accounts -> Nat] /\ SumFunction(due) \in Nat /\ s * r \in Nat
      <4> HIDE DEF entries, shares, d, s
      <4> QED
        BY <1>2, <1>3, <2>1, <1>6, EntitlementsNat
    <3> QED
      BY <3>1 DEF EntitledBy
  <2>5. r \in Nat
    BY <2>1, StreamingNat
  <2>6. ASSUME NEW u \in Accounts
        PROVE  k * owed[u] <= due[u]
    <3>1. entries[u] \in UserEmissionData \cup {NoData} /\ shares[u] \in Nat
          /\ (entries[u] # NoData => entries[u].index <= d.index)
      BY <1>2, <1>6 DEF Fits
    <3>2. PICK entry \in UserEmissionData \cup {NoData}, m \in Nat :
            entry = entries[u] /\ m = shares[u]
      BY <3>1
    <3>3. k * Owed(d, t, entry, m) <= Entitled(k, entry, d.index, m)
      BY <1>1, <2>1, <3>1, <3>2, OwedFits
    <3>4. owed[u] = Owed(d, t, entry, m)
      BY <3>2 DEF OwedNow, EntriesOf, SharesOf
    <3>5. due[u] = Entitled(k, entry, d.index, m)
      BY <2>1, <3>2 DEF Entitlements
    <3> QED
      BY <3>3, <3>4, <3>5
  <2>7. \A u \in Accounts : paid[u] = k * owed[u]
    OBVIOUS
  <2> HIDE DEF owed, due, k, d, entries, shares
  <2>8. \A u \in Accounts : k * owed[u] \in Nat
    BY <1>3, <2>3, ProductNat
  <2>9. paid \in [Accounts -> Int] /\ due \in [Accounts -> Int] /\ DOMAIN paid = Accounts
        /\ DOMAIN owed = Accounts
    BY <2>3, <2>4, <2>8
  <2> HIDE DEF paid
  <2>10. SumFunction(paid) <= SumFunction(due)
    BY <2>6, <2>7, <2>9, AccountsFinite, SumFunctionAtMost
  <2>11. Sum(paid, Accounts) = k * Sum(owed, Accounts)
    <3>1. \A u \in Accounts : owed[u] \in Int /\ paid[u] = k * owed[u]
      BY <2>3, <2>7
    <3>2. k \in Int
      BY <1>3
    <3> QED
      BY <3>1, <3>2, AccountsFinite, SumTimes
  <2>12. SumFunction(paid) = k * total /\ total \in Nat
    BY <2>3, <2>9, <2>11, AccountsFinite, SumFunctionIsSum, SumFunctionNat
  <2> HIDE DEF total, r
  <2>13. s * (Scalar7 * total + r) = k * total + s * r
    BY <1>1, <1>3, <2>5, <2>12, SMT DEF k
  <2> DEFINE m == Scalar7 * total + r
             p == k * total
             q == s * r
             g == SumFunction(due)
  <2>14. m \in Nat /\ p \in Nat
    <3>1. Scalar7 * total \in Nat /\ k * total \in Nat
      BY <1>1, <1>3, <2>12, ProductNat
    <3> QED
      BY <2>5, <3>1
  <2>15. s * m = p + q /\ p <= g /\ q + g <= n /\ q \in Nat /\ g \in Nat
    BY <1>6, <2>4, <2>10, <2>12, <2>13
  <2>16. s * m < n + s
    <3> HIDE DEF m, p, q, g, n, s
    <3> QED
      BY <1>2, <1>3, <2>14, <2>15
  <2>17. m <= CeilDiv(n, s)
    <3>1. m \in Int /\ n \in Int
      BY <1>2, <2>14
    <3> HIDE DEF m, n, s
    <3> QED
      BY <1>3, <2>16, <3>1, CeilDivLower
  <2> QED
    BY <2>2, <2>14, <2>17 DEF Reserved
<1> QED
  BY <1>7, <1>8

\* What the storage and its working copy promise is covered, at every step.
THEOREM EntitlementsAreFunded == EmissionSpec => []FundedInv
<1>1. EmissionInit => FundedInv
  BY InitFunded
<1>2. PoolInv /\ PoolInv' /\ EmissionInv /\ EmissionInv' /\ FundedInv
        /\ [EmissionNext]_emissionVars => FundedInv'
  BY EmissionStepFunded
<1> QED
  BY <1>1, <1>2, EmissionInvariants, PTL DEF EmissionSpec

\* Whatever the reserves, shares, streams and claims, all that is owed in
\* emissions, and all the streams under way will give, is within what the
\* backstop lets the pool take: the last holder to claim is paid like the first
\* (gulp_emissions, update_reserve_emission_eps, update_emissions, execute_claim).
THEOREM EmissionsAreCovered == EmissionSpec => []ReserveEmissionsCovered
<1>1. ASSUME PoolInv, EmissionInv, FundedInv
      PROVE  ReserveEmissionsCovered
  <2> DEFINE out == [t \in ReserveTokens |-> Outstanding(t)]
             kept == [t \in ReserveTokens |-> Reserved(emissions, ledger, t)]
             n == Scalar7 * emissions.allowance
  <2>1. /\ out \in [ReserveTokens -> Int] /\ \A t \in ReserveTokens : out[t] <= kept[t]
    BY <1>1, OutstandingReserved
  <2>2. kept \in [ReserveTokens -> Nat]
    BY <1>1, TokenParts, ViewInLedger DEF EmissionInv
  <2>3. SumFunction(kept) <= n
    BY <1>1 DEF FundedInv, Funded
  <2>4. n \in Nat
    <3>1. emissions.allowance \in Nat /\ Scalar7 \in Nat
      BY <1>1, EmissionFields, ScalarAssumption DEF EmissionInv, EmissionTypeOK
    <3> QED
      BY <3>1, ProductNat
  <2> HIDE DEF out, kept, n
  <2>5. kept \in [ReserveTokens -> Int]
    BY <2>2
  <2>6. SumFunction(out) <= SumFunction(kept)
    BY <2>1, <2>5, TokensFinite, SumFunctionAtMost
  <2>7. SumFunction(kept) \in Nat
    BY <2>2, TokensFinite, SumFunctionNat
  <2>8. SumFunction(out) \in Int
    <3>1. \A t \in ReserveTokens : out[t] \in Int
      BY <2>1
    <3>2. Sum(out, ReserveTokens) \in Int /\ DOMAIN out = ReserveTokens
      BY <2>1, <3>1, TokensFinite, SumInt
    <3> QED
      BY <3>2, SumFunctionIsSum
  <2>9. SumFunction(out) <= n
    BY <2>3, <2>4, <2>6, <2>7, <2>8
  <2> QED
    BY <2>9 DEF ReserveEmissionsCovered, out, n
<1> QED
  BY <1>1, EmissionInvariants, EntitlementsAreFunded, PTL
=============================================================================
