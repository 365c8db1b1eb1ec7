---------------------------- MODULE MCOksFileLock ---------------------------
EXTENDS OksFileLock, TLC

ProcSymmetry == Permutations(Proc)
=============================================================================
