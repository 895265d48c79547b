----------------------------- MODULE MCHousehold -----------------------------
EXTENDS Household, TLC
MCContentOf(m) == "bytes"
Symmetry == Permutations(Requests) \cup Permutations(Families) \cup Permutations(Devices)
            \cup Permutations(Codes) \cup Permutations(Media)
=============================================================================
