--------------------------- MODULE MCClawMachine ---------------------------
(* ClawMachine for TLC: every small input file whose first arrival is 0.   *)
(* Players are interchangeable as long as only safety is checked: the      *)
(* program looks at the order of ids nowhere but in sorting the file.      *)
EXTENDS ClawMachine

CONSTANTS MaxArrive, MaxOnce, MaxRest, MaxTotal, MaxGuarantee

MCInputs ==
  {in \in [guarantee : 1..MaxGuarantee,
           player : [Players -> [arrive : 0..MaxArrive, once : 1..MaxOnce,
                                 rest : 0..MaxRest, total : 1..MaxTotal]]] :
     \E p \in Players : in.player[p].arrive = 0}

\* Who has played rests afterwards, so that a start or wait line in the slot in
\* which somebody finishes is another player's, let through by the gate.
MCRestingInputs == {in \in MCInputs : \A p \in Players : in.player[p].rest > 0}

Symmetry == Permutations(Players)
=============================================================================
