--------------------------- MODULE MCUserSessions ---------------------------
\* Model-checking instance of UserSessions: two users behind one address, two
\* inbounds; users, and inbounds, are interchangeable.
EXTENDS UserSessions, TLC
Symmetry == Permutations(Users) \cup Permutations(Tags)
=============================================================================
