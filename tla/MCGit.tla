------------------------------- MODULE MCGit -------------------------------
\* Two devices, for TLC.
EXTENDS Git, TLC

Symmetric == Permutations(Devices)
=============================================================================
