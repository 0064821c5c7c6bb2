---------------------------- MODULE MCVaultStore ----------------------------
EXTENDS VaultStore, TLC

StoreSymmetry ==
  Permutations(Session) \cup Permutations(Ticket) \cup Permutations(Code)

=============================================================================
