----------------------------- MODULE MCSettlement -----------------------------
(* Small instances of Settlement. *)
EXTENDS Settlement

CONSTANTS h1, h2

\* Bounds: the second machine takes part while there is one row (whatever the other
\* one would have done), and one row of two stands for each sentence.
Apart == batch'[h2] # NoRows => status'[2] = "absent" /\ effect[2] = "pays"
BookInit == Init /\ effect[2] \in {"pays", "silent", "reverts"}
BookSpec == BookInit /\ [][Next /\ Apart]_vars /\ Fairness
==============================================================================
