-------------------------- MODULE MCCertification --------------------------
EXTENDS Certification, TLC

CONSTANTS h1, h2, l1

MCHandles == {h1, h2}
MCLineages == {l1}
HandleSymmetry == Permutations(MCHandles)
=============================================================================
