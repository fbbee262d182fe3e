----------------------------- MODULE MCProvenance -----------------------------
(* Two artifacts; a checkout, the same on another branch with a dirty tree, *)
(* with another toolchain on another host, and a later one whose workspace  *)
(* builds one artifact less.  Every input is numbered.                      *)
EXTENDS FluxoraProvenance, TLC

CONSTANT other

First == [f \in BuildFields |-> 1] @@ [crates |-> {1, 2}]

Checkouts ==
  { First,
    [First EXCEPT !.git_ref = 2, !.git_dirty = 2],
    [First EXCEPT !.rustc = 2, !.cargo = 2, !.host = 2],
    [First EXCEPT !.git_revision = 2, !.soroban_sdk = 2, !.crates = {1}] }
=============================================================================
