-------------------------- MODULE MCOksFileSession --------------------------
EXTENDS OksFileSession, TLC

FileSymmetry == Permutations(File)
=============================================================================
