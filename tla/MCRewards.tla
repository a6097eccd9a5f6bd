------------------------------ MODULE MCRewards ------------------------------
(* Bob was referred by Alice.  Deposits are of 100.                        *)
EXTENDS Rewards, TLC

CONSTANTS Alice, Bob

MCReferredBy == (Alice :> NoUser) @@ (Bob :> Alice)

MCOffers == {[fixed |-> FALSE, value |-> 20, maxUses |-> 1, active |-> TRUE],
             [fixed |-> TRUE, value |-> 6, maxUses |-> 2, active |-> FALSE]}

(* A capped first-deposit bonus and a referrer paid by percentage; and no  *)
(* first-deposit bonus with a fixed reward.                                *)
MCSettings ==
  {[firstEnabled |-> TRUE, firstPercent |-> 10, firstMin |-> 50,
    firstMax |-> 5, referralEnabled |-> TRUE, refereePercent |-> 3,
    fixed |-> FALSE, referrerValue |-> 2],
   [firstEnabled |-> TRUE, firstPercent |-> 10, firstMin |-> 500,
    firstMax |-> 0, referralEnabled |-> TRUE, refereePercent |-> 0,
    fixed |-> TRUE, referrerValue |-> 7]}
=============================================================================
