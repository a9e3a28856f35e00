------------------------ MODULE MCInstrumentedChain ------------------------
(* Two chains of up to four blocks; each is new, with the registry or without *)
(* it, or reloaded with two blocks of which the first was pruned before.      *)
EXTENDS InstrumentedInvariant, TLC

CONSTANTS c1, c2, added, ratio, events, dropped, plain, i0, i1, i2, i3, i4

MCIndexOf == [i \in 0 .. 4 |-> <<i0, i1, i2, i3, i4>>[i + 1]]

MCStarts == {<<FALSE>>, <<TRUE, FALSE>>}

Symmetry == Permutations(Chain)
=============================================================================
