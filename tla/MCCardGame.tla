----------------------------- MODULE MCCardGame -----------------------------
(* A small instance of CardGame: three cards, one shuffle in each sub stage  *)
(* and two in the second.                                                    *)
EXTENDS CardGame

ThreeCards == 0..2
UpToTwo    == [s \in SubStages |-> IF s = 1 THEN 3 ELSE 2]
=============================================================================
