-------------------------- MODULE MCOracleAdapter ---------------------------
(***************************************************************************)
(* Instances of OracleAdapter for TLC.  Publisher keys are interchangeable *)
(* and form a symmetry set.                                                *)
(***************************************************************************)
EXTENDS OracleAdapter

MCReadings == {-1, 0, 2}
MCValues == 0 .. 2
MCSymmetry == Permutations(Publishers)
=============================================================================
