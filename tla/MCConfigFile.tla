---------------------------- MODULE MCConfigFile ----------------------------
(* Small instances of ConfigFile; savers are interchangeable. *)
EXTENDS ConfigFile, TLC

SaverSymmetry == Permutations(Savers)

=============================================================================
