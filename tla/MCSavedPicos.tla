------------------------------ MODULE MCSavedPicos ------------------------------
EXTENDS SavedPicos, TLC

CONSTANTS a, b   \* two windows

\* Windows differ in nothing but their names.
AnyWindow == Permutations(Processes)
=============================================================================
