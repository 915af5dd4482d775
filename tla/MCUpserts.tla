------------------------------ MODULE MCUpserts ------------------------------
EXTENDS Upserts, TLC

Perms == Permutations(Clients) \cup Permutations(Bodies) \cup Permutations(Copies)
=============================================================================
