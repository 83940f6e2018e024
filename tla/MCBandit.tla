------------------------------ MODULE MCBandit ------------------------------
EXTENDS Bandit, TLC

Symmetry == Permutations(Messages)
=============================================================================
