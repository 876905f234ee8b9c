----------------------------- MODULE RootTopology -----------------------------
(***************************************************************************)
(* initTC's root HTB tree, with the numbers it computes: main reads -n and *)
(* -b with atoi, then initTC adds class 1:rootHTBMinorHelper(0) at the     *)
(* full rate and, for each priority, the priority's class (minRate,        *)
(* borrowing up to ceil), its DSMARK class with DSCP value (7 - p) << 5,    *)
(* and the next helper class, after "rate -= minRate; ceil -= minRate".    *)
(* One step per iteration of the loop. An unsigned int is held as what    *)
(* "%d" prints for it, its two's complement signed value, so a subtraction *)
(* that wraps below 0 prints negative; the DSCP value is taken mod 2^8 as  *)
(* the unsigned char holds it.                                             *)
(***************************************************************************)
EXTENDS Naturals, Integers, FiniteSets, FiniteSetsExt, Functions, TLC

CONSTANTS
  PriorityCounts,  \* values of -n (g_numPriorities) to explore
  MaxRates         \* values of -b (g_maxRate, bytes per second) to explore

ASSUME PriorityCounts \subseteq Nat \ {0} /\ MaxRates \subseteq Nat

VARIABLES
  numPriorities,   \* g_numPriorities
  maxRate,         \* g_maxRate
  priority,        \* the loop counter
  rate,            \* the loop's running rate
  ceil,            \* the loop's running ceil
  classes,         \* root HTB classes added: minor -> [parent, rate, ceil]
  dscp             \* DSMARK value per priority marked so far

vars == <<numPriorities, maxRate, priority, rate, ceil, classes, dscp>>

H == INSTANCE Handles WITH NumPriorities <- numPriorities, NumLevels <- 5

\* unsigned char value = (7 - priority) << 5
DSCPValue(p) == ((7 - p) * 32) % 256

minRate == maxRate \div 100

Class(parent, r, c) == [parent |-> parent, rate |-> r, ceil |-> c]

\* main's option parsing and initTC up to the loop: the root qdisc and
\* class 1:rootHTBMinorHelper(0), "htb rate maxRate" (ceil defaults to rate).
Init ==
  /\ numPriorities \in PriorityCounts
  /\ maxRate \in MaxRates
  /\ priority = 0
  /\ rate = (maxRate \div 100) * (numPriorities + 1)
  /\ ceil = maxRate
  /\ classes = H!rootHTBMinorHelper(0) :> Class(0, maxRate, maxRate)
  /\ dscp = <<>>

\* Mutation: the loop runs while priority <= numPriorities.
AddPriorityOffByOne ==
  /\ priority <= numPriorities
  /\ priority' = priority + 1
  /\ rate' = rate - minRate
  /\ ceil' = ceil - minRate
  /\ dscp' = (priority :> DSCPValue(priority)) @@ dscp
  /\ classes' = (H!rootHTBMinorHelper(priority + 1) :>
                   Class(H!rootHTBMinorHelper(priority), rate', ceil'))
                @@ (H!rootHTBMinor(priority) :>
                      Class(H!rootHTBMinorHelper(priority), minRate, ceil))
                @@ classes
  /\ UNCHANGED <<numPriorities, maxRate>>

\* Mutation: the helper classes keep the starting rate.
AddPriorityKeepingRate ==
  /\ priority < numPriorities
  /\ priority' = priority + 1
  /\ UNCHANGED rate
  /\ ceil' = ceil - minRate
  /\ dscp' = (priority :> DSCPValue(priority)) @@ dscp
  /\ classes' = (H!rootHTBMinorHelper(priority + 1) :>
                   Class(H!rootHTBMinorHelper(priority), rate, ceil - minRate))
                @@ (H!rootHTBMinor(priority) :>
                      Class(H!rootHTBMinorHelper(priority), minRate, ceil))
                @@ classes
  /\ UNCHANGED <<numPriorities, maxRate>>

\* Mutation: the loop stops one priority short.
AddPriorityStoppingEarly ==
  /\ priority + 1 < numPriorities
  /\ priority' = priority + 1
  /\ rate' = rate - minRate
  /\ ceil' = ceil - minRate
  /\ dscp' = (priority :> DSCPValue(priority)) @@ dscp
  /\ classes' = (H!rootHTBMinorHelper(priority + 1) :>
                   Class(H!rootHTBMinorHelper(priority), rate', ceil'))
                @@ (H!rootHTBMinor(priority) :>
                      Class(H!rootHTBMinorHelper(priority), minRate, ceil))
                @@ classes
  /\ UNCHANGED <<numPriorities, maxRate>>

\* One iteration of the loop: class 1:rootHTBMinor(p) (rate minRate, ceil),
\* the DSMARK value (7 - p) << 5 stored in an unsigned char, then rate and
\* ceil lowered by minRate and class 1:rootHTBMinorHelper(p + 1) added.
AddPriority ==
  /\ priority < numPriorities
  /\ priority' = priority + 1
  /\ rate' = rate - minRate
  /\ ceil' = ceil - minRate
  /\ dscp' = (priority :> DSCPValue(priority)) @@ dscp
  /\ classes' = (H!rootHTBMinorHelper(priority + 1) :>
                   Class(H!rootHTBMinorHelper(priority), rate', ceil'))
                @@ (H!rootHTBMinor(priority) :>
                      Class(H!rootHTBMinorHelper(priority), minRate, ceil))
                @@ classes
  /\ UNCHANGED <<numPriorities, maxRate>>

Next == AddPriority

\* initTC is straight-line code that main runs before svc_run, in the only
\* thread, and no step of it waits: while the loop has iterations left, the
\* next one is taken (a signal ending it is the lifecycle's, in NetEnforcer).
Spec == Init /\ [][Next]_vars /\ WF_vars(AddPriority)

(***************************************************************************)
(* Properties.                                                             *)
(***************************************************************************)
TypeOK ==
  /\ numPriorities \in PriorityCounts
  /\ maxRate \in MaxRates
  /\ priority \in 0..numPriorities
  /\ rate \in Int /\ ceil \in Int
  /\ \A m \in DOMAIN classes : classes[m] \in [parent : Nat, rate : Int, ceil : Int]
  /\ \A p \in DOMAIN dscp : dscp[p] \in 0..255
  /\ DOMAIN dscp = 0..priority - 1

\* Every root class tc is given is a valid HTB class nested in its parent:
\* a positive rate no greater than its ceil, a ceil no greater than the
\* link, and children whose guaranteed rates add up to no more than their
\* parent's. It is about the unsigned "rate -= minRate; ceil -= minRate" of
\* the loop and the rates printed with "%d".
RatesNested ==
  \A m \in DOMAIN classes :
    LET c == classes[m]
        kids == {k \in DOMAIN classes : classes[k].parent = m}
    IN  /\ 0 < c.rate
        /\ c.rate <= c.ceil
        /\ c.ceil <= maxRate
        /\ MapThenSumSet(LAMBDA k : classes[k].rate, kids) <= c.rate


\* initTC eventually builds, and keeps, the tree the file header draws: the
\* helper classes 1:rootHTBMinorHelper(0..n), the last being the default
\* class, each priority's class 1:rootHTBMinor(p) and the next helper as
\* the two children of helper p. It is about the loop's bound and the
\* handles each iteration passes to "tc class add".
RootTreeBuilt ==
  <>[](/\ DOMAIN classes = {H!rootHTBMinorHelper(p) : p \in 0..numPriorities}
                          \cup {H!rootHTBMinor(p) : p \in 0..numPriorities - 1}
       /\ \A p \in 0..numPriorities - 1 :
            /\ classes[H!rootHTBMinor(p)].parent = H!rootHTBMinorHelper(p)
            /\ classes[H!rootHTBMinorHelper(p + 1)].parent = H!rootHTBMinorHelper(p))

=============================================================================
