------------------------------ MODULE MCBusLink -------------------------------
\* BusLink for TLC: two controllers that know the same command.
EXTENDS BusLink, TLC

CONSTANTS d1, d2, c1, f1, f2, r1, r2

MCParams == {<<d1, c1>>, <<d2, c1>>}
MCField == {f1, f2}
MCRest == {r1, r2}

\* Controllers and contents are only compared.
Symmetry ==
    Permutations({d1, d2}) \cup Permutations(MCField) \cup Permutations(MCRest)

=============================================================================
