-------------------------- MODULE MCGenerationStore --------------------------
EXTENDS GenerationStore, TLC

MCSymmetry == Permutations(Requests)
=============================================================================
