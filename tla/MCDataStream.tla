---------------------------- MODULE MCDataStream ----------------------------
EXTENDS DataStream, TLC
SymmetricClients == Permutations(Clients)
=============================================================================
