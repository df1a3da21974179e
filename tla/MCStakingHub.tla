---------------------------- MODULE MCStakingHub ----------------------------
(***************************************************************************)
(* Small instances of StakingHub for TLC.                                  *)
(***************************************************************************)
EXTENDS StakingHubRefinement, HubQueries, TLC

\* Users are interchangeable in every action and property.
UserSymmetry == Permutations(Users)

\* Batch lists for WithdrawUnstakedForBatches, without and with a repetition.
DistinctLists == {<<2>>, <<2, 1>>}
RepeatingLists == {<<1, 1>>}
NoLists == {}
=============================================================================
