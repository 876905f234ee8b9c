---------------------------- MODULE MCNetEnforcer ----------------------------
(***************************************************************************)
(* Model-checking instance of NetEnforcer: two clients, two priorities and *)
(* chains of up to two levels (rate-limit lengths 0..4, and 5 rejected).   *)
(***************************************************************************)
EXTENDS NetEnforcer

CONSTANTS k1, k2

MCKeys == {k1, k2}

MCOneKey == {k1}

\* Keys are model values only compared for equality.
KeySymmetry == Permutations(MCKeys)

\* Bounds on the unbounded accumulators of a client.
StateConstraint ==
  \A k \in DOMAIN clients :
    /\ clients[k].maxSentBytes <= 1
    /\ clients[k].sentBytes \in -1..1

\* The states explored when the clock does not matter to the property.
TimelessConstraint ==
  /\ StateConstraint
  /\ \A k \in DOMAIN clients : clients[k].elapsed = 0 /\ clients[k].window = 0

\* The states explored when only the growth of ids matters: no time
\* passing, and a client at the last priority with a two-level chain or
\* none.
LongRunConstraint ==
  /\ \A k \in DOMAIN clients :
       /\ clients[k].priority = NumPriorities - 1
       /\ clients[k].rateLimitLength \in {0, 3}
       /\ clients[k].elapsed = 0
       /\ clients[k].window = 0

\* The states explored when only ids and counters matter: both clients at
\* the last priority with a one-level chain (so neither a priority change
\* nor a re-created class resets what is read), and no time passing.
SamePriorityConstraint ==
  /\ StateConstraint
  /\ \A k \in DOMAIN clients :
       /\ clients[k].priority = NumPriorities - 1
       /\ clients[k].rateLimitLength = 1
       /\ clients[k].elapsed = 0
       /\ clients[k].window = 0

=============================================================================
