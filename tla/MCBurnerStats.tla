---------------------------- MODULE MCBurnerStats ----------------------------
(* Instances of BurnerStats: off, stage 1, both stages, stage 2 alone. *)
EXTENDS BurnerStats

\* A burner of two stages that names the first together with the second.
MCTwoStages == {{}, {4}, {4, 16}}
MCPayloads == {{}, {4}, {4, 16}, {16}}
=============================================================================
