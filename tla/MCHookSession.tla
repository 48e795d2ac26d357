--------------------------- MODULE MCHookSession ---------------------------
\* HookSession for TLC: two sessions of one project, alike.
EXTENDS HookSession, TLC

SessionSymmetry == Permutations(Session)

=============================================================================
