------------------------------- MODULE Vault --------------------------------
(***************************************************************************)
(* What the backstop promises its depositors: a vault per pool, whose      *)
(* tokens belong to the holders of stakes in proportion.  Joining and      *)
(* leaving are at most at the current price, so nobody's entry or exit     *)
(* takes value from those who stay; only the pool itself can draw.         *)
(* How long a stake waits before it leaves is no concern of the vault.     *)
(***************************************************************************)
EXTENDS Integers, Functions

CONSTANTS Pools, Users

VARIABLES
    tokens,   \* per pool
    stake     \* per pool and user

vars == <<tokens, stake>>

Total(p) == SumFunction(stake[p])

Init ==
    /\ tokens = [p \in Pools |-> 0]
    /\ stake = [p \in Pools |-> [u \in Users |-> 0]]

\* A price that is fair to those already in: minted / paid <= total / tokens.
FairEntry(total, held, paid, minted) ==
    /\ paid >= 0 /\ minted >= 0
    /\ IF total = 0 THEN minted = paid
       ELSE /\ minted * held <= paid * total
            /\ held = 0 => minted = 0

\* paid / burned <= tokens / total.
FairExit(total, held, paid, burned) ==
    /\ burned > 0 /\ paid > 0 /\ paid <= held
    /\ paid * total <= burned * held

OnlyStakeOf(u, p) == \A v \in Users \ {u} : stake'[p][v] = stake[p][v]

\* One user enters several vaults.
Join(u, P) ==
    \A p \in Pools :
        IF p \in P
        THEN /\ FairEntry(Total(p), tokens[p], tokens'[p] - tokens[p],
                          stake'[p][u] - stake[p][u])
             /\ OnlyStakeOf(u, p)
        ELSE tokens'[p] = tokens[p] /\ stake'[p] = stake[p]

Leave(u, p) ==
    /\ FairExit(Total(p), tokens[p], tokens[p] - tokens'[p], stake[p][u] - stake'[p][u])
    /\ OnlyStakeOf(u, p)
    /\ \A r \in Pools \ {p} : tokens'[r] = tokens[r] /\ stake'[r] = stake[r]

\* The pool takes tokens, or gives some, and leaves the stakes alone.
DrawOrDonate(p) ==
    /\ tokens'[p] >= 0
    /\ \A r \in Pools \ {p} : tokens'[r] = tokens[r]
    /\ stake' = stake

Next ==
    \/ \E u \in Users, P \in SUBSET Pools : Join(u, P)
    \/ \E u \in Users, p \in Pools : Leave(u, p)
    \/ \E p \in Pools : DrawOrDonate(p)

Spec == Init /\ [][Next]_vars
=============================================================================
