----------------------------- MODULE MCBackends -----------------------------
(* Two backends in two shards, with blocks of two slots. *)
EXTENDS Backends, TLC
CONSTANTS app, web, s0, s1
MCId == {app, web}
MCShard == {s0, s1}
MCShardOf == (app :> s0) @@ (web :> s1)
\* Nothing tells two configurations apart but their being different.
CfgSymmetry == Permutations(Cfg)
=============================================================================
