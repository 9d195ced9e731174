--------------------------- MODULE MCHerOperator ---------------------------
(* Instances of HerOperator for TLC. *)
EXTENDS HerOperator

Initial == {[image |-> "v1", config |-> 1]}

TwoImages == {"v1", "v2"}
OneConfig == {1}
TwoConfigs == {1, 2}
ThreeConfigs == {1, 2, 3}

\* A rollout, and one that is taken back.
Releases == {<<"v1", "v2">>, <<"v2", "v1">>}

\* Configs that move on, and are taken back.
Revisions == {<<1, 2>>, <<2, 1>>, <<2, 3>>, <<3, 2>>}

=============================================================================
