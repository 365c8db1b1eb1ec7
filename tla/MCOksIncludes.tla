---------------------------- MODULE MCOksIncludes ---------------------------
EXTENDS OksIncludes, TLC

FileSymmetry == Permutations(File \ Ring)
=============================================================================
