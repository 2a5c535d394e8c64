------------------------------ MODULE MC_BBNode ------------------------------
(* Model-checking instance of BBNode: model values for names, handles and  *)
(* inodes, and the symmetry of the sets whose members are interchangeable. *)
EXTENDS BBNode, TLC

CONSTANTS p1, p2, h1, h2, i1, i2, i3, i4

MCPaths == {p1, p2}
MCHandles == {h1, h2}
MCInos == {i1, i2, i3}
MCInos4 == {i1, i2, i3, i4}
MCPaths1 == {p1}
MCHandles1 == {h1}
MCInos2 == {i1, i2}

MCSymmetry == Permutations(MCPaths) \cup Permutations(MCHandles)
                  \cup Permutations(MCInos4)
====
