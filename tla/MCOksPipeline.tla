---------------------------- MODULE MCOksPipeline ---------------------------
EXTENDS OksPipeline, TLC

JobSymmetry == Permutations(Job)
=============================================================================
