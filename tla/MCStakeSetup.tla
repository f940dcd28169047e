---------------------------- MODULE MCStakeSetup ----------------------------
(* Stake 1 is set up, stake 2 is about to be created. *)
EXTENDS StakeSetup, TLC

MCTabs == {"t1"}
MCStakes == 1..2
MCNew == {2}
=============================================================================
