---------------------------- MODULE MCAddressBook ----------------------------
EXTENDS AddressBook, TLC

Symmetry == Permutations(Ids) \cup Permutations(Addresses) \cup Permutations(Requests)
=============================================================================
