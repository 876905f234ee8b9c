------------------------------ MODULE Handles ------------------------------
(***************************************************************************)
(* The handle allocator of NetEnforcer.cpp: pure functions naming the TC   *)
(* qdisc handles and class minors of the root HTB tree, the DSMARK qdiscs, *)
(* the per-priority base HTB qdiscs and the per-client rate-limit chains.  *)
(* Priority NumPriorities is the sentinel "no priority" (delete).          *)
(***************************************************************************)
EXTENDS Naturals

CONSTANTS
  NumPriorities,   \* g_numPriorities (-n on the command line)
  NumLevels        \* g_numLevels, compile-time 5

ASSUME NumPriorities \in Nat \ {0} /\ NumLevels \in Nat \ {0}

rootHTBHandle == 1

rootHTBMinor(priority) == priority + 1

rootHTBMinorHelper(priority) == priority + rootHTBMinor(NumPriorities)

rootHTBMinorDefault == rootHTBMinorHelper(NumPriorities)

DSMARKHandle(priority) == priority + rootHTBMinorDefault + 1

HTBBaseHandle(priority) == priority + DSMARKHandle(NumPriorities)

HTBHandle(id, priority, level) ==
  (id * NumPriorities * NumLevels) + (priority * NumLevels) + level
    + HTBBaseHandle(NumPriorities)

\* Minor 1 of every HTB qdisc is its default class; level 0 is per client.
HTBMinor(id, level) == IF level = 0 THEN id + 2 ELSE 1

=============================================================================
