---------------------------- MODULE MCDonglePeers ----------------------------
EXTENDS DonglePeers, TLC

Symmetry == Permutations(Device)
==============================================================================
