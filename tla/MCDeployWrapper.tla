-------------------------- MODULE MCDeployWrapper --------------------------
(* Small instances of DeployWrapper for TLC. *)
EXTENDS DeployWrapper

\* the third release brings a migration
LastMigrates == [r \in Releases |-> IF r = 3 THEN 2 ELSE 1]
=============================================================================
