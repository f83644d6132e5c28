------------------------ MODULE MCIncrementalTabling ------------------------
EXTENDS IncrementalTabling
CONSTANTS p, q, r, e, f, a, b
(* q over a leaf, p over q, and r over both.                                  *)
Chain == {p :> {<<q>>} @@ q :> {<<e>>} @@ r :> {<<q, p>>}}
(* p and q depend on each other, r on p.                                      *)
Cycle == {p :> {<<q>>, <<e>>} @@ q :> {<<p, f>>} @@ r :> {<<p>>}}
(* p calls q only while e has an answer; r needs one of two.                  *)
Choice == {p :> {<<e, q>>} @@ q :> {<<f>>} @@ r :> {<<p>>, <<q>>}}
(* p over q, q over a leaf.                                                   *)
Pair == {p :> {<<q>>} @@ q :> {<<e>>}}
AllPrograms == Chain \cup Cycle \cup Choice
=============================================================================
