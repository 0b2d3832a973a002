--------------------------- MODULE MCPluginFirewall ---------------------------
\* Model-checking instance of PluginFirewall: the addresses a domain resolves to
\* are interchangeable.
EXTENDS PluginFirewall, TLC
Symmetry == Permutations(Addresses)
=============================================================================
