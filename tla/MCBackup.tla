------------------------------- MODULE MCBackup -------------------------------
(* An instance of Backup for TLC: f is "a/b", g is one file with the name     *)
(* "a\b", for which the same path is written down, m is a manifest.           *)
EXTENDS Backup, TLC
CONSTANTS f, g, h, m

PathOf == (f :> "a/b") @@ (g :> "a/b") @@ (h :> "c")
KeySymmetry == Permutations(Keys)
=============================================================================
