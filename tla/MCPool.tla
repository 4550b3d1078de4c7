------------------------------- MODULE MCPool -------------------------------
(***************************************************************************)
(* Constants shared by the TLC runs of the pool.  Scalars are small so     *)
(* that every rounding is coarse: a share is worth a few tokens, interest  *)
(* of one step is a few percent, and a rounding in the wrong direction     *)
(* shows up as a whole token.                                              *)
(***************************************************************************)
EXTENDS PoolProperties

CONSTANTS usdc, xlm, alice, bob

MCReserve ==
    [c_factor |-> 80, l_factor |-> 80, util |-> 50, max_util |-> 90,
     r_base |-> 10, r_one |-> 20, r_two |-> 50, r_three |-> 100,
     reactivity |-> 3, supply_cap |-> 60, scalar |-> 1, enabled |-> TRUE]

MCConfigs == [a \in Assets |-> MCReserve]

MCPoolConfig == [bstop_rate |-> 20, max_positions |-> 4, min_collateral |-> 500]
NoNewConfigs == [a \in Assets |-> {}]

FixedPrices == [a \in Assets |-> {100}]

Asks(type, address, amounts) ==
    {[request_type |-> type, address |-> address, amount |-> n] : n \in amounts}

-----------------------------------------------------------------------------
(* A start further on, for runs about what happens to debt: at ledger 0 the *)
(* admin activated the pool, alice supplied 100 usdc as collateral, bob    *)
(* supplied 100 xlm as collateral and borrowed 50 usdc, in four invocations*)
(* that accrue nothing and round nothing.                                  *)

One(a, n) == [NoShares EXCEPT ![a] = n]

AfterBorrow(l) ==
    [l EXCEPT !.positions = [u \in Accounts |->
                  CASE u = alice -> [NoPositions EXCEPT !.collateral = One(usdc, 100)]
                    [] u = bob   -> [NoPositions EXCEPT !.collateral = One(xlm, 100),
                                                        !.liabilities = One(usdc, 50)]
                    [] OTHER     -> NoPositions],
              !.reserves[usdc].b_supply = 100, !.reserves[usdc].d_supply = 50,
              !.reserves[xlm].b_supply = 100,
              !.balance = [a \in Assets |-> IF a = usdc THEN 50 ELSE 100]]

\* Of MaxWrites, `made' are spent on the way to l.
StartingFrom(prices, l, made) ==
    /\ now = 0
    /\ price = prices
    /\ config = InitialConfig(0)
    /\ q4w_pct = 0
    /\ ledger = l
    /\ call = NoCall
    /\ writes = made

BorrowedAt(prices) == StartingFrom(prices, AfterBorrow(InitialLedger), 0)

BorrowedInit == BorrowedAt([a \in Assets |-> 100])

BorrowedSpec == BorrowedInit /\ [][Next]_poolVars
=============================================================================
