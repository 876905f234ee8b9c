----------------------------- MODULE NetEnforcer -----------------------------
(***************************************************************************)
(* NetEnforcer (src/src/NetEnforcer/NetEnforcer.cpp): a single-threaded    *)
(* RPC server that keeps a table of clients, keyed by (dst, src) address    *)
(* pair, and reconciles the Linux TC state of one device with it: a root   *)
(* filter per client selecting its priority, and for a rate-limited client *)
(* a filter on the priority's base HTB qdisc and a chain of HTB classes    *)
(* and qdiscs, one level per (rate, ceil) pair. It also samples the       *)
(* kernel's sent-byte counters to report each client's occupancy.          *)
(*                                                                         *)
(* Every RPC handler runs to completion before the next request is read    *)
(* (svc_run), so each handler is one atomic action here. Time is the       *)
(* per-client "elapsed" since lastSentBytesTime, advanced by Tick.         *)
(***************************************************************************)
EXTENDS Naturals, Integers, FiniteSets, Bags, SequencesExt, TLC, Handles, TCKernel

CONSTANTS
  Keys,          \* (dst, src) address pairs a controller may name
  MaxRate,       \* g_maxRate, the rate of a client without rate limits
  Rates,         \* values of rateLimitRates[0] a request may carry
  MaxBatch,      \* longest request batch
  MaxIds,        \* bound on g_nextId
  MaxBytes,      \* bound on a kernel class's sent-bytes counter
  MaxElapsed,    \* bound on the time since a client's lastSentBytesTime
  QueryUnknown,  \* whether GetOccupancy may name a key never configured
  MaxTcFailures  \* bound on the tc commands of updateClient that fail

ASSUME /\ Keys # {} /\ MaxRate \in Nat /\ Rates \subseteq Nat \ {0}
       /\ MaxBatch \in Nat \ {0} /\ MaxIds \in Nat /\ MaxBytes \in Nat
       /\ MaxElapsed \in Nat \ {0} /\ QueryUnknown \in BOOLEAN
       /\ MaxTcFailures \in Nat

VARIABLES
  running,     \* the process is up (between main's initTC and exit)
  clients,     \* g_clients: key -> Client
  nextId,      \* g_nextId
  kernel,      \* TC state of g_dev (module TCKernel)
  occupancy,   \* the last GetOccupancy reply as a fraction <<sent, allowed>>
  tcFailures   \* history: how many tc commands have failed so far

vars == <<running, clients, nextId, kernel, occupancy, tcFailures>>

MaxRateLimitLength == (NumLevels + 1) * 2

\* Client's fields; sentBytes is a uint64 kept as the exact difference it
\* accumulates: a negative value is the wrapped-around value 2^64 - |v|.
\* window is a history field, not in the code: the time since sentBytes and
\* maxSentBytes were last zeroed (client creation or an occupancy reset).
Client == [id : Nat, priority : 0..NumPriorities,
           rateLimitLength : 0..MaxRateLimitLength, rate : Nat,
           elapsed : 0..MaxElapsed, maxSentBytes : Nat,
           prevSentBytes : Nat, sentBytes : Int, window : 0..MaxElapsed]

(***************************************************************************)
(* initTC: remove the root, then build the root HTB tree of the file       *)
(* header: per priority a class, a DSMARK qdisc and a base HTB qdisc.      *)
(***************************************************************************)
InitPriority(K, priority) ==
  LET K1 == addHTBClass(K, rootHTBHandle, rootHTBMinor(priority))
      K2 == addDSMARKQdisc(K1, rootHTBHandle, rootHTBMinor(priority),
                           DSMARKHandle(priority))
      K3 == addHTBQdisc(K2, DSMARKHandle(priority), 1, HTBBaseHandle(priority))
  IN  addHTBClass(K3, rootHTBHandle, rootHTBMinorHelper(priority + 1))

initTC(K) ==
  LET K1 == addRootHTB(removeRoot(K), rootHTBHandle)
      K2 == addHTBClass(K1, rootHTBHandle, rootHTBMinorHelper(0))
  IN  FoldLeft(InitPriority, K2, [i \in 1..NumPriorities |-> i - 1])

(***************************************************************************)
(* The tc commands updateClient issues, as data, and their execution.      *)
(***************************************************************************)
Cmd(op, args) == [op |-> op, args |-> args]

Exec(K, c) ==
  LET a == c.args IN
  CASE c.op = "addHTBQdisc"  -> addHTBQdisc(K, a[1], a[2], a[3])
    [] c.op = "addHTBClass"  -> addHTBClass(K, a[1], a[2])
    [] c.op = "addFilter"    -> addFilter(K, a[1], a[2], a[3], a[4])
    [] c.op = "removeFilter" -> removeFilter(K, a[1], a[2])
    [] c.op = "removeQdisc"  -> removeQdisc(K, a[1], a[2], a[3])
    [] c.op = "removeClass"  -> removeClass(K, a[1], a[2])

\* runCmd: a command whose tc process fails (cannot be spawned, or exits
\* with an error the driver never reads) has no effect, and updateClient
\* goes on with the next one. mayFail admits one such command per call;
\* failed counts the commands that failed.
RunCmds(K, cmds, mayFail) ==
  {[kernel |-> FoldLeft(Exec, K, cmds), failed |-> 0]}
  \cup (IF mayFail
        THEN {[kernel |-> FoldLeft(Exec, K, RemoveAt(cmds, i)), failed |-> 1]
              : i \in 1..Len(cmds)}
        ELSE {})

\* Levels of a chain: the while loop runs while level * 2 < length.
Stages(rateLimitLength) == (rateLimitLength + 1) \div 2

\* The qdisc holding the class of a level: the base HTB qdisc at level 0,
\* the qdisc added at that level otherwise.
LevelHandle(id, priority, level) ==
  IF level = 0 THEN HTBBaseHandle(priority) ELSE HTBHandle(id, priority, level - 1)

ChainCmds(id, oldPriority, oldLen, priority, rateLimitLength) ==
  LET LevelCmds(level) ==
        (IF level > 0 /\ (level * 2 >= oldLen \/ oldPriority # priority)
         THEN << Cmd("addHTBQdisc", << LevelHandle(id, priority, level - 1),
                                       HTBMinor(id, level - 1),
                                       LevelHandle(id, priority, level) >>) >>
         ELSE << >>)
        \o << Cmd("addHTBClass", << LevelHandle(id, priority, level),
                                    HTBMinor(id, level) >>) >>
  IN  FlattenSeq([l \in 1..Stages(rateLimitLength) |-> LevelCmds(l - 1)])

BaseFilterCmds(key, id, oldPriority, oldLen, priority, rateLimitLength) ==
  IF rateLimitLength > 0 /\ (oldLen = 0 \/ oldPriority # priority)
  THEN << Cmd("addFilter", << HTBBaseHandle(priority), id, key, HTBMinor(id, 0) >>) >>
  ELSE << >>

RootFilterCmds(key, id, oldPriority, priority) ==
  IF oldPriority # priority
  THEN (IF oldPriority < NumPriorities
        THEN << Cmd("removeFilter", << rootHTBHandle, id >>) >> ELSE << >>)
       \o (IF priority < NumPriorities
           THEN << Cmd("addFilter", << rootHTBHandle, id, key, rootHTBMinor(priority) >>) >>
           ELSE << >>)
  ELSE << >>

\* After the loop parentHandle/minor/childHandle hold the last level's
\* values (level 0's when the loop did not run).
PruneCmds(id, oldPriority, oldLen, priority, rateLimitLength) ==
  LET last == IF Stages(rateLimitLength) = 0 THEN 0 ELSE Stages(rateLimitLength) - 1
  IN  IF oldLen > 2
      THEN IF oldPriority # priority
           THEN << Cmd("removeQdisc", << HTBBaseHandle(oldPriority), HTBMinor(id, 0),
                                         HTBHandle(id, oldPriority, 0) >>) >>
           ELSE IF Stages(rateLimitLength) * 2 < oldLen
           THEN << Cmd("removeQdisc", << LevelHandle(id, priority, last),
                                         HTBMinor(id, last),
                                         LevelHandle(id, priority, last + 1) >>) >>
           ELSE << >>
      ELSE << >>

\* Mutation: the old base filter and class are dropped only when the rate
\* limits go away, not when the client moves to another priority.
DropCmdsOnlyWhenUnlimited(id, oldPriority, oldLen, priority, rateLimitLength) ==
  IF oldLen > 0 /\ rateLimitLength = 0
  THEN << Cmd("removeFilter", << HTBBaseHandle(oldPriority), id >>),
          Cmd("removeClass", << HTBBaseHandle(oldPriority), HTBMinor(id, 0) >>) >>
  ELSE << >>

DropCmds(id, oldPriority, oldLen, priority, rateLimitLength) ==
  IF oldLen > 0 /\ (rateLimitLength = 0 \/ oldPriority # priority)
  THEN << Cmd("removeFilter", << HTBBaseHandle(oldPriority), id >>),
          Cmd("removeClass", << HTBBaseHandle(oldPriority), HTBMinor(id, 0) >>) >>
  ELSE << >>

UpdateCmds(key, id, oldPriority, oldLen, priority, rateLimitLength) ==
  ChainCmds(id, oldPriority, oldLen, priority, rateLimitLength)
  \o BaseFilterCmds(key, id, oldPriority, oldLen, priority, rateLimitLength)
  \o RootFilterCmds(key, id, oldPriority, priority)
  \o PruneCmds(id, oldPriority, oldLen, priority, rateLimitLength)
  \o DropCmds(id, oldPriority, oldLen, priority, rateLimitLength)

(***************************************************************************)
(* updateSentBytes: the possible results of sampling a client's counter.   *)
(***************************************************************************)
updateSentBytes(c, K) ==
  IF c.rateLimitLength > 0
  THEN {[c EXCEPT !.sentBytes = @ + curr - c.prevSentBytes,
                  !.prevSentBytes = curr,
                  !.maxSentBytes = @ + c.rate * c.elapsed,
                  !.elapsed = 0]
        : curr \in getSentBytes(K, HTBBaseHandle(c.priority), HTBMinor(c.id, 0))}
  ELSE {c}

(***************************************************************************)
(* updateClient on a state S = [clients, nextId, kernel]: the set of       *)
(* possible successor states. A new client carries oldPriority =          *)
(* NumPriorities and oldRateLimitLength = 0 in its priority and length.    *)
(***************************************************************************)
updateClient(S, key, priority, rateLimitLength, rate0, mayFail) ==
  LET newClient == key \notin DOMAIN S.clients
      fresh == [id |-> S.nextId, priority |-> NumPriorities, rateLimitLength |-> 0,
                rate |-> 0, elapsed |-> 0, maxSentBytes |-> 0,
                prevSentBytes |-> 0, sentBytes |-> 0, window |-> 0]
      settled == IF newClient THEN {fresh}
                 ELSE updateSentBytes(S.clients[key], S.kernel)
      Apply(c) ==
        LET c1 == [c EXCEPT !.priority = priority,
                            !.rateLimitLength = rateLimitLength,
                            !.rate = IF rateLimitLength > 0 THEN rate0 ELSE MaxRate,
                            !.prevSentBytes = IF c.priority # priority THEN 0 ELSE @]
        IN  {[clients |-> IF priority = NumPriorities
                          THEN Restrict(S.clients, DOMAIN S.clients \ {key})
                          ELSE (key :> c1) @@ S.clients,
              nextId  |-> IF newClient THEN S.nextId + 1 ELSE S.nextId,
              kernel  |-> R.kernel,
              failures |-> S.failures + R.failed]
             : R \in RunCmds(S.kernel,
                             UpdateCmds(key, c.id, c.priority, c.rateLimitLength,
                                        priority, rateLimitLength), mayFail)}
  IN  IF newClient /\ priority = NumPriorities THEN {S}
      ELSE UNION {Apply(c) : c \in settled}

Current == [clients |-> clients, nextId |-> nextId, kernel |-> kernel,
            failures |-> tcFailures]

Commit(S) ==
  /\ S.nextId <= MaxIds
  /\ clients' = S.clients
  /\ nextId' = S.nextId
  /\ kernel' = S.kernel
  /\ tcFailures' = S.failures

(***************************************************************************)
(* RPC handlers.                                                           *)
(***************************************************************************)
Update == [key : Keys, priority : 0..NumPriorities,
           length : 0..MaxRateLimitLength + 1, rate0 : Rates]

\* Mutation: the handler checks the priority but not the number of limits.
UpdateItemUnchecked(states, u) ==
  IF u.priority >= NumPriorities
  THEN states
  ELSE UNION {updateClient(S, u.key, u.priority, u.length, u.rate0, S.failures < MaxTcFailures) : S \in states}

\* One item of net_enforcer_update_clients_svc: invalid items are skipped.
UpdateItem(states, u) ==
  IF u.priority >= NumPriorities \/ u.length > MaxRateLimitLength
  THEN states
  ELSE UNION {updateClient(S, u.key, u.priority, u.length, u.rate0, S.failures < MaxTcFailures) : S \in states}

UpdateClients ==
  /\ running
  /\ \E batch \in SeqOf(Update, MaxBatch) :
       \E S \in FoldLeft(UpdateItem, {Current}, batch) : Commit(S)
  /\ UNCHANGED <<running, occupancy>>

\* net_enforcer_remove_clients_svc: updateClient with the sentinel priority.
RemoveItem(states, key) ==
  UNION {updateClient(S, key, NumPriorities, 0, 0, S.failures < MaxTcFailures) : S \in states}

RemoveClients ==
  /\ running
  /\ \E batch \in SeqOf(Keys, MaxBatch) :
       \E S \in FoldLeft(RemoveItem, {Current}, batch) : Commit(S)
  /\ UNCHANGED <<running, occupancy>>

\* g_clients[addr] value-initialises a missing entry: id 0, priority 0,
\* no rate limits, lastSentBytesTime 0 (so the longest elapsed time).
DefaultClient ==
  [id |-> 0, priority |-> 0, rateLimitLength |-> 0, rate |-> 0,
   elapsed |-> MaxElapsed, maxSentBytes |-> 0, prevSentBytes |-> 0, sentBytes |-> 0,
   window |-> 0]

\* occupancy = (double)sentBytes / maxSentBytes, capped at 1: 0/0 stays
\* <<0, 0>> (NaN), x/0 is infinite and a wrapped (negative) sentBytes is huge.
Ratio(sent, allowed) ==
  IF sent = 0 /\ allowed = 0 THEN <<0, 0>>
  ELSE IF sent < 0 \/ sent >= allowed THEN <<1, 1>>
  ELSE <<sent, allowed>>

getOccupancy(key) ==
  LET c == IF key \in DOMAIN clients THEN clients[key] ELSE DefaultClient
  IN  IF c.priority # 0
      THEN \E c1 \in updateSentBytes(c, kernel) :
             /\ occupancy' = Ratio(c1.sentBytes, c1.maxSentBytes)
             /\ clients' = (key :> [c1 EXCEPT !.sentBytes = 0, !.maxSentBytes = 0, !.window = 0]) @@ clients
      ELSE /\ occupancy' = <<0, 1>>
           /\ clients' = (key :> c) @@ clients

GetOccupancy ==
  /\ running
  /\ \E key \in Keys :
       /\ QueryUnknown \/ key \in DOMAIN clients
       /\ getOccupancy(key)
  /\ UNCHANGED <<running, nextId, kernel, tcFailures>>

(***************************************************************************)
(* Environment: time passes, traffic crosses a client's level-0 class.     *)
(***************************************************************************)
Tick ==
  /\ running
  /\ \A k \in DOMAIN clients : clients[k].elapsed < MaxElapsed /\ clients[k].window < MaxElapsed
  /\ clients' = [k \in DOMAIN clients |-> [clients[k] EXCEPT !.elapsed = @ + 1, !.window = @ + 1]]
  /\ UNCHANGED <<running, nextId, kernel, occupancy, tcFailures>>

Traffic ==
  /\ running
  /\ \E c \in DOMAIN kernel.class :
       /\ c[1] \in {HTBBaseHandle(p) : p \in 0..NumPriorities - 1}
       /\ kernel.class[c] < MaxBytes
       /\ kernel' = [kernel EXCEPT !.class[c] = @ + 1]
  /\ UNCHANGED <<running, clients, nextId, occupancy, tcFailures>>

(***************************************************************************)
(* Lifecycle: main installs the root tree before serving; term_signal      *)
(* removes the root and exits; a kill leaves the kernel as it is.          *)
(***************************************************************************)
Start ==
  /\ ~running
  /\ running' = TRUE
  /\ kernel' = initTC(kernel)
  /\ UNCHANGED <<clients, nextId, occupancy, tcFailures>>

TermSignal ==
  /\ running
  /\ running' = FALSE
  /\ kernel' = removeRoot(kernel)
  /\ clients' = <<>>
  /\ nextId' = 0
  /\ UNCHANGED <<occupancy, tcFailures>>

Crash ==
  /\ running
  /\ running' = FALSE
  /\ clients' = <<>>
  /\ nextId' = 0
  /\ UNCHANGED <<kernel, occupancy, tcFailures>>

Init ==
  /\ running = FALSE
  /\ clients = <<>>
  /\ nextId = 0
  /\ kernel = EmptyKernel
  /\ occupancy = <<0, 1>>
  /\ tcFailures = 0

\* net_enforcer_program: a request runs the handler its procedure number
\* names. A NULL ping, an unknown procedure and arguments that fail to
\* decode are answered without touching any state: stuttering steps.
Dispatch ==
  \/ UpdateClients
  \/ RemoveClients
  \/ GetOccupancy

Next ==
  \/ Dispatch
  \/ Tick
  \/ Traffic
  \/ Start
  \/ TermSignal
  \/ Crash

Spec == Init /\ [][Next]_vars

(***************************************************************************)
(* Properties.                                                             *)
(***************************************************************************)
TypeOK ==
  /\ running \in BOOLEAN
  /\ DOMAIN clients \subseteq Keys
  /\ \A k \in DOMAIN clients : clients[k] \in Client
  /\ nextId \in 0..MaxIds
  /\ occupancy \in Nat \X Nat
  /\ tcFailures \in 0..MaxTcFailures

(***************************************************************************)
(* The policy store NetEnforcer implements (module EnforcerPolicy): each   *)
(* client's id, priority and chain length, and the structure of the TC     *)
(* state without its counters.                                             *)
(***************************************************************************)
PolicyViewOf(C) ==
  [k \in DOMAIN C |-> [id |-> C[k].id, priority |-> C[k].priority,
                       rateLimitLength |-> C[k].rateLimitLength]]

TCViewOf(K) ==
  [qdisc  |-> {<< q, K.qdisc[q] >> : q \in DOMAIN K.qdisc},
   class  |-> DOMAIN K.class,
   filter |-> K.filter]

PolicyView == PolicyViewOf(clients)

TCView == TCViewOf(kernel)

Policy == INSTANCE EnforcerPolicy
            WITH policy <- PolicyView, tc <- TCView, up <- running, nextId <- nextId

\* Between requests the TC state of the device is exactly the realisation
\* of g_clients: no object of a removed or re-prioritised client is left,
\* none is missing, and no filter is installed twice. It is about the
\* command sequence updateClient issues for every transition of a client
\* (priority change, chain growth and shrink, removal) and about initTC
\* clearing what a killed process left behind. A failed tc command leaves
\* the kernel short of the table by design (spec 7), so the claim is made
\* of the behaviours in which every command so far succeeded.
KernelMatchesTable ==
  running /\ tcFailures = 0 => TCView = Policy!Realize(PolicyView)

\* A request that leaves a client's id, priority and chain length as they
\* were leaves that client's filters and classes in the kernel. It is about
\* the filters being removed by prio (id + 1) alone and the classes by
\* minor (id + 2) alone, which is only safe while no two table entries share
\* an id: getOccupancy's g_clients[addr] inserts an entry with id 0.
UntouchedClientsKeepTC ==
  [][\A k \in DOMAIN clients \cap DOMAIN clients' :
       PolicyView'[k] = PolicyView[k] =>
         /\ {f \in DOMAIN kernel.filter : f.key = k} \subseteq DOMAIN kernel'.filter
         /\ Policy!ClientClasses(PolicyView[k]) \cap DOMAIN kernel.class
              \subseteq DOMAIN kernel'.class]_vars

\* Every GetOccupancy reply is a number between 0 and 1 (spec, testable
\* properties): getOccupancy divides sentBytes by maxSentBytes, which stays
\* 0 for a client that never had its counter sampled.
OccupancyInRange ==
  occupancy[2] # 0 /\ occupancy[1] <= occupancy[2]

\* Answering a GetOccupancy for a client starts its next sampling interval:
\* its sentBytes and maxSentBytes are zero after the reply (spec 3:
\* sentBytes counts the bytes "since last occupancy query"). It is about
\* getOccupancy taking priority 0 as the mark of an entry it does not know,
\* which also passes over every configured client at priority 0.
QueryResetsCounters ==
  [][\A k \in DOMAIN clients :
       running /\ getOccupancy(k) /\ UNCHANGED <<running, nextId, kernel, tcFailures>>
         => clients'[k].sentBytes = 0 /\ clients'[k].maxSentBytes = 0]_vars

\* The byte count accumulated for occupancy never wraps below zero: each
\* sample adds the kernel counter minus prevSentBytes, so prevSentBytes must
\* never exceed the counter of the class it is read from. updateClient
\* clears prevSentBytes only on a priority change, yet a chain dropped to
\* length 0 and re-added at the same priority gets a fresh class.
SentBytesNeverWraps ==
  \A k \in DOMAIN clients : clients[k].sentBytes >= 0

\* The counter updateSentBytes last read for a rate-limited client is its
\* own: prevSentBytes never exceeds the count of the client's level-0 class
\* HTBBaseHandle(priority):HTBMinor(id, 0), which only grows while the
\* class exists (0 when it does not). It is about getSentBytes taking the
\* first "class htb H:M" of the dump as a substring, which also stops at a
\* class H:M' whose minor's digits start with M's: client 0's minor 2 and
\* client 18's minor 20 under the same base qdisc.
SamplesOwnClass ==
  \A k \in DOMAIN clients :
    LET c == clients[k]
        own == <<HTBBaseHandle(c.priority), HTBMinor(c.id, 0)>>
    IN  c.rateLimitLength > 0 =>
          c.prevSentBytes <= IF own \in DOMAIN kernel.class THEN kernel.class[own] ELSE 0

\* The allowance a client has accumulated since its counters were last
\* zeroed is at most what its rate allows over that time (spec 3:
\* maxSentBytes is rate x elapsed since the last getOccupancy). It is about
\* updateSentBytes skipping clients without rate limits, which leaves
\* lastSentBytesTime behind while the client is unlimited: the next sample
\* after limits are added charges the whole gap, reset or not.
AllowanceWithinWindow ==
  \A k \in DOMAIN clients :
    clients[k].maxSentBytes <= Max(Rates \cup {MaxRate}) * clients[k].window

\* The controller re-sending every client's current configuration, one
\* updateClient per client, with no command failing.
ResendAll ==
  LET Resend(k, states) ==
        UNION {updateClient(S, k, S.clients[k].priority, S.clients[k].rateLimitLength,
                            S.clients[k].rate, FALSE) : S \in states}
  IN  FoldSet(Resend, {Current}, DOMAIN clients)

\* Whatever tc commands failed before, re-sending each client's current
\* configuration puts the TC state right (spec 7: a failed command may
\* leave the kernel inconsistent, "accepted because the caller is expected
\* to retry"). It is about updateClient issuing the filter adds, and the
\* qdisc adds of existing levels, only when the priority or the old chain
\* length changes, so a repeated request issues nothing but class replaces.
RepairableByResend ==
  running =>
    \A S \in ResendAll :
      TCViewOf(S.kernel) = Policy!Realize(PolicyViewOf(S.clients))

\* Every step of the server is a step of the policy store: requests change
\* only the clients they name, ids are stable and fresh, occupancy queries,
\* time and traffic leave the policies and the TC structure alone.
RefinesPolicy == Policy!Spec

=============================================================================
