---------------------------- MODULE EnforcerPolicy ----------------------------
(***************************************************************************)
(* What NetEnforcer promises its controller: a store of client policies    *)
(* (priority and rate-limit chain length, plus the client's id) whose TC   *)
(* realisation is installed on the device whenever a request completes.    *)
(* A request changes the policies of the clients it names and no other;    *)
(* a client keeps its id while it has a policy and a new client gets an    *)
(* id never given out before in this process. Occupancy queries and the    *)
(* passing of time and traffic change nothing here.                        *)
(*                                                                         *)
(* tc is the structure of the device's TC state: the set of <<qdisc,       *)
(* parent>> pairs, the set of classes and the bag of filters.              *)
(***************************************************************************)
EXTENDS Naturals, FiniteSets, Bags, Handles, TCKernel

CONSTANTS Keys, MaxBatch

VARIABLES policy, nextId, tc, up

MaxRateLimitLength == (NumLevels + 1) * 2

Config == [priority : 0..NumPriorities - 1, rateLimitLength : 0..MaxRateLimitLength]

Stages(rateLimitLength) == (rateLimitLength + 1) \div 2

LevelHandle(id, priority, level) ==
  IF level = 0 THEN HTBBaseHandle(priority) ELSE HTBHandle(id, priority, level - 1)

(***************************************************************************)
(* The root tree of the NetEnforcer.cpp file header.                       *)
(***************************************************************************)
Priorities == 0..NumPriorities - 1

RootQdiscs ==
  {<< rootHTBHandle, NoParent >>}
  \cup {<< DSMARKHandle(p), << rootHTBHandle, rootHTBMinor(p) >> >> : p \in Priorities}
  \cup {<< HTBBaseHandle(p), << DSMARKHandle(p), 1 >> >> : p \in Priorities}

RootClasses ==
  {<< rootHTBHandle, rootHTBMinorHelper(p) >> : p \in 0..NumPriorities}
  \cup {<< rootHTBHandle, rootHTBMinor(p) >> : p \in Priorities}
  \cup {<< DSMARKHandle(p), 1 >> : p \in Priorities}

(***************************************************************************)
(* A client's objects: its root filter; when rate limited its base-HTB     *)
(* filter, a class per level and an HTB qdisc per level below the first.   *)
(***************************************************************************)
ClientQdiscs(c) ==
  {<< LevelHandle(c.id, c.priority, l),
      << LevelHandle(c.id, c.priority, l - 1), HTBMinor(c.id, l - 1) >> >>
     : l \in 1..Stages(c.rateLimitLength) - 1}

ClientClasses(c) ==
  {<< LevelHandle(c.id, c.priority, l), HTBMinor(c.id, l) >>
     : l \in 0..Stages(c.rateLimitLength) - 1}

ClientFilters(k, c) ==
  {Filter(rootHTBHandle, c.id + 1, k, rootHTBMinor(c.priority))}
  \cup (IF c.rateLimitLength > 0
        THEN {Filter(HTBBaseHandle(c.priority), c.id + 1, k, HTBMinor(c.id, 0))}
        ELSE {})

Realize(P) ==
  [qdisc  |-> RootQdiscs \cup UNION {ClientQdiscs(P[k]) : k \in DOMAIN P},
   class  |-> RootClasses \cup UNION {ClientClasses(P[k]) : k \in DOMAIN P},
   filter |-> SetToBag(UNION {ClientFilters(k, P[k]) : k \in DOMAIN P})]

NoTC == [qdisc |-> {}, class |-> {}, filter |-> EmptyBag]

(***************************************************************************)
(* Requests.                                                               *)
(***************************************************************************)
\* Set the policies of the keys in S; new keys get the next ids in turn.
Configure ==
  /\ up
  /\ \E S \in SUBSET Keys, cfg \in [Keys -> Config] :
       LET new == S \ DOMAIN policy
       IN  /\ Cardinality(S) <= MaxBatch
           /\ \E fresh \in [new -> nextId..nextId + Cardinality(new) - 1] :
                /\ \A a, b \in new : a # b => fresh[a] # fresh[b]
                /\ policy' = [k \in DOMAIN policy \cup S |->
                                IF k \in S
                                THEN cfg[k] @@ [id |-> IF k \in new THEN fresh[k]
                                                       ELSE policy[k].id]
                                ELSE policy[k]]
           /\ nextId' = nextId + Cardinality(new)
           /\ tc' = Realize(policy')
  /\ UNCHANGED up

Remove ==
  /\ up
  /\ \E S \in SUBSET Keys :
       /\ Cardinality(S) <= MaxBatch
       /\ policy' = [k \in DOMAIN policy \ S |-> policy[k]]
       /\ tc' = Realize(policy')
  /\ UNCHANGED <<nextId, up>>

Start ==
  /\ ~up
  /\ up' = TRUE
  /\ policy' = <<>>
  /\ nextId' = 0
  /\ tc' = Realize(<<>>)

\* A termination signal removes everything; a kill leaves tc as it is.
Stop ==
  /\ up
  /\ up' = FALSE
  /\ policy' = <<>>
  /\ nextId' = 0
  /\ tc' \in {NoTC, tc}

Init ==
  /\ up = FALSE
  /\ policy = <<>>
  /\ nextId = 0
  /\ tc = NoTC

Next == Configure \/ Remove \/ Start \/ Stop

Spec == Init /\ [][Next]_<<policy, nextId, tc, up>>

=============================================================================
