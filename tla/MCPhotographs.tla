---- MODULE MCPhotographs ----
EXTENDS Photographs, TLC

CONSTANTS r1, r2
MCRemovals == {r1, r2}
OneRemoval == {r1}
Swaps == Permutations(Removals)
====
