------------------------------ MODULE MCRunner ------------------------------
(* Small instances of Runner: two requests for one run ID, and either one  *)
(* for another run ID or one that validate() refuses.                      *)
EXTENDS Runner, TLC

CONSTANTS h1, h2, h3, r1, r2, a, b, c, bad

MCRunOf == (a :> r1) @@ (b :> r1) @@ (c :> r2)
OneRunOf == (a :> r1) @@ (b :> r1) @@ (bad :> r1)

(* The handlers are interchangeable. *)
Symmetry == Permutations(Handlers)
=============================================================================
