----------------------------- MODULE MCPayment -----------------------------
(* Small instances of Payment for TLC: their constants are in the .cfg files. *)
(* No symmetry is declared, since the main instance checks a liveness property. *)
EXTENDS Payment

=============================================================================
