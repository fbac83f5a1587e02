---- MODULE MCProjectSave ----
\* One project directory with two data nodes.
EXTENDS ProjectSave, TLC
NodeSymmetry == Permutations(Nodes)
====
