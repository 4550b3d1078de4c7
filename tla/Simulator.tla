------------------------------ MODULE Simulator ------------------------------
(***************************************************************************)
(* The browser's stand-in for the pool, frontend/lib/simulator.ts: a       *)
(* ledger of members and the totals of the pool, both in localStorage.     *)
(* Every action reads, checks and writes synchronously.                    *)
(***************************************************************************)
EXTENDS Integers

Actions == {"deposit", "withdraw", "borrow", "repay"}

Account == [deposit : Nat, borrow : Nat]

AtLeastZero(n) == IF n < 0 THEN 0 ELSE n

\* What get_member_stats of the contract, and its simulated double, tell a
\* member: twice the deposit may be borrowed.
AvailableToBorrow(m) == AtLeastZero(2 * m.deposit - m.borrow)

\* Mutant of CanApply: the loan there is already does not count.
CanApplyAfresh(m, action, n) ==
    /\ n > 0
    /\ action = "withdraw" => n <= m.deposit /\ m.borrow <= 2 * (m.deposit - n)
    /\ action = "borrow" => n <= 2 * m.deposit
    /\ action = "repay" => n <= m.borrow

\* Mutant of CanApply: a withdrawal is not held to the cap.
CanApplyUncapped(m, action, n) ==
    /\ n > 0
    /\ action = "withdraw" => n <= m.deposit
    /\ action = "borrow" => m.borrow + n <= 2 * m.deposit
    /\ action = "repay" => n <= m.borrow

\* applySimAction throws otherwise.
CanApply(m, action, n) ==
    /\ n > 0
    /\ action = "withdraw" => n <= m.deposit /\ m.borrow <= 2 * (m.deposit - n)
    /\ action = "borrow" => m.borrow + n <= 2 * m.deposit
    /\ action = "repay" => n <= m.borrow

Applied(m, action, n) ==
    CASE action = "deposit"  -> [m EXCEPT !.deposit = @ + n]
      [] action = "withdraw" -> [m EXCEPT !.deposit = @ - n]
      [] action = "borrow"   -> [m EXCEPT !.borrow = @ + n]
      [] action = "repay"    -> [m EXCEPT !.borrow = @ - n]

\* bumpPool: the totals are adjusted on their own, and never go below zero.
Bumped(pool, action, n) ==
    CASE action = "deposit"  -> [pool EXCEPT !.deposit = AtLeastZero(@ + n)]
      [] action = "withdraw" -> [pool EXCEPT !.deposit = AtLeastZero(@ - n)]
      [] action = "borrow"   -> [pool EXCEPT !.borrow = AtLeastZero(@ + n)]
      [] action = "repay"    -> [pool EXCEPT !.borrow = AtLeastZero(@ - n)]
=============================================================================
