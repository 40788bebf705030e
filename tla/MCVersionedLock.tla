-------------------------- MODULE MCVersionedLock --------------------------
EXTENDS VersionedLock, TLC

SymmetricServers == Permutations(Servers)
=============================================================================
