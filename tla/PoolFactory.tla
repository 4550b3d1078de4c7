---------------------------- MODULE PoolFactory ----------------------------
(***************************************************************************)
(* The pool factory (pool-factory/src): it deploys lending pools and       *)
(* remembers their addresses, which is all the backstop knows about who is *)
(* a pool.  An address is a hash of the deployer's choice of salt and of   *)
(* the admin: no address is deployed to twice, and most are never deployed *)
(* to at all.                                                              *)
(***************************************************************************)
EXTENDS Integers

CONSTANTS
    Scalar7,       \* 10^7
    Deployable,    \* addresses the factory may deploy to
    DeployArgs     \* arguments tried

VARIABLE deployed

ValidInitArgs(args) ==
    /\ args.backstop_take_rate < Scalar7
    /\ args.max_positions \in 2..60
    /\ args.min_collateral >= 0

Deploy(p, args) ==
    /\ p \in Deployable \ deployed
    /\ ValidInitArgs(args)
    /\ deployed' = deployed \cup {p}

IsPool(p) == p \in deployed
=============================================================================
