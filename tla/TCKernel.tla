------------------------------ MODULE TCKernel ------------------------------
(***************************************************************************)
(* The TC driver of NetEnforcer.cpp (removeRoot, removeQdisc, removeClass, *)
(* removeFilter, addHTBQdisc, addHTBClass, addFilter, getSentBytes) and    *)
(* the effect each tc command has on the kernel's TC state of the device.  *)
(*                                                                         *)
(* A kernel state is a record:                                             *)
(*   qdisc  : qdisc handle -> <<parentHandle, parentMinor>> (root: NoParent)*)
(*   class  : <<handle, minor>> -> sent-bytes counter of that class         *)
(*   filter : bag of u32 filters [parent, prio, key, minor] (flowid is     *)
(*            parent:minor); a key stands for the (dst, src) match.       *)
(* A command that tc rejects leaves the kernel unchanged; the driver       *)
(* ignores the result (runCmd returns the output, never a status).         *)
(***************************************************************************)
EXTENDS Naturals, FiniteSets, Bags, Functions, Sequences

NoParent == <<0, 0>>

EmptyKernel == [qdisc |-> <<>>, class |-> <<>>, filter |-> EmptyBag]

Filter(parent, prio, key, minor) ==
  [parent |-> parent, prio |-> prio, key |-> key, minor |-> minor]

\* The driver prints handles and minors with %d, and tc reads the text
\* "H:M" as two 16-bit hexadecimal numbers: decimal 10 is read as 0x10.
\* Distinct numbers stay distinct, but one whose decimal digits, read in
\* base 16, pass 0xFFFF (any number above 9999) is refused.
RECURSIVE DecimalAsHex(_)
DecimalAsHex(n) == IF n < 10 THEN n ELSE DecimalAsHex(n \div 10) * 16 + (n % 10)

TcParses(ns) == \A n \in ns : DecimalAsHex(n) < 2^16

\* The qdiscs hs and every qdisc grafted below them.
RECURSIVE Subtree(_, _)
Subtree(Q, hs) ==
  LET more == {q \in DOMAIN Q : Q[q][1] \in hs} \ hs
  IN  IF more = {} THEN hs ELSE Subtree(Q, hs \cup more)

\* Deleting a qdisc destroys its classes, its filters and its child qdiscs.
DeleteQdiscs(K, hs) ==
  LET D == Subtree(K.qdisc, hs)
  IN  [qdisc  |-> Restrict(K.qdisc, DOMAIN K.qdisc \ D),
       class  |-> Restrict(K.class, {c \in DOMAIN K.class : c[1] \notin D}),
       filter |-> Restrict(K.filter, {f \in DOMAIN K.filter : f.parent \notin D})]

\* "tc qdisc del dev D root"
removeRoot(K) == EmptyKernel

\* "tc qdisc add dev D root handle 1: htb default N"
addRootHTB(K, handle) ==
  IF K.qdisc = <<>>
  THEN [K EXCEPT !.qdisc = handle :> NoParent]
  ELSE K

\* "tc qdisc add dev D parent P:M handle H: ..."; the parent class must
\* exist, carry no qdisc yet, and the handle must be unused.
AddQdisc(K, parentHandle, parentMinor, childHandle) ==
  LET p == <<parentHandle, parentMinor>>
  IN  IF /\ TcParses({parentHandle, parentMinor, childHandle})
         /\ p \in DOMAIN K.class
         /\ childHandle \notin DOMAIN K.qdisc
         /\ \A q \in DOMAIN K.qdisc : K.qdisc[q] # p
      THEN [K EXCEPT !.qdisc = (childHandle :> p) @@ K.qdisc]
      ELSE K

addHTBQdisc(K, parentHandle, parentMinor, childHandle) ==
  AddQdisc(K, parentHandle, parentMinor, childHandle)

\* A DSMARK qdisc with "indices 2" comes with its class H:1.
addDSMARKQdisc(K, parentHandle, parentMinor, childHandle) ==
  LET K1 == AddQdisc(K, parentHandle, parentMinor, childHandle)
  IN  IF K1 = K THEN K
      ELSE [K1 EXCEPT !.class = (<<childHandle, 1>> :> 0) @@ K1.class]

\* "tc class replace dev D parent H: classid H:M htb ..." creates the class
\* with a zero counter or keeps the existing one (and its counter).
addHTBClass(K, parentHandle, minor) ==
  IF TcParses({parentHandle, minor}) /\ parentHandle \in DOMAIN K.qdisc
  THEN [K EXCEPT !.class = K.class @@ (<<parentHandle, minor>> :> 0)]
  ELSE K

\* "tc filter add dev D parent H: protocol ip prio id+1 u32 ... flowid H:M"
addFilter(K, parentHandle, id, key, minor) ==
  IF TcParses({parentHandle, minor}) /\ parentHandle \in DOMAIN K.qdisc
  THEN [K EXCEPT !.filter = K.filter (+) SetToBag({Filter(parentHandle, id + 1, key, minor)})]
  ELSE K

\* Mutation: "tc filter del dev D parent H:" without the prio, which deletes
\* every filter of the qdisc.
removeFilterAnyPrio(K, parentHandle, id) ==
  IF ~TcParses({parentHandle}) THEN K ELSE
  [K EXCEPT !.filter =
     Restrict(K.filter, {f \in DOMAIN K.filter : f.parent # parentHandle})]

\* "tc filter del dev D parent H: prio id+1 u32" deletes every filter of
\* that priority on the qdisc, whatever it matches.
removeFilter(K, parentHandle, id) ==
  IF ~TcParses({parentHandle}) THEN K ELSE
  [K EXCEPT !.filter =
     Restrict(K.filter, {f \in DOMAIN K.filter :
                           ~(f.parent = parentHandle /\ f.prio = id + 1)})]

\* "tc qdisc del dev D parent P:M handle H:"
removeQdisc(K, parentHandle, parentMinor, childHandle) ==
  IF /\ TcParses({parentHandle, parentMinor, childHandle})
     /\ childHandle \in DOMAIN K.qdisc
     /\ K.qdisc[childHandle] = <<parentHandle, parentMinor>>
  THEN DeleteQdiscs(K, {childHandle})
  ELSE K

\* "tc class del dev D classid H:M": refused while a filter is bound to the
\* class; destroys the qdisc grafted on it.
removeClass(K, parentHandle, minor) ==
  LET c == <<parentHandle, minor>>
  IN  IF /\ TcParses({parentHandle, minor})
         /\ c \in DOMAIN K.class
         /\ \A f \in DOMAIN K.filter : ~(f.parent = parentHandle /\ f.minor = minor)
      THEN LET K1 == DeleteQdiscs(K, {q \in DOMAIN K.qdisc : K.qdisc[q] = c})
           IN  [K1 EXCEPT !.class = Restrict(K1.class, DOMAIN K1.class \ {c})]
      ELSE K

(***************************************************************************)
(* getSentBytes searches the text of "tc -s class show parent H:" for the  *)
(* first occurrence of "class htb H:M" and reads the "Sent" that follows.  *)
(* The search is a substring search, so it also stops at a class H:M'      *)
(* whose minor's digits start with those of M; which one comes first is   *)
(* the kernel's dump order, unknown here. Nothing found reads 0.           *)
(***************************************************************************)
RECURSIVE IsDecimalPrefix(_, _)
IsDecimalPrefix(m, m2) ==
  \/ m2 = m
  \/ m2 >= 10 /\ IsDecimalPrefix(m, m2 \div 10)

getSentBytes(K, parentHandle, minor) ==
  LET found == {c \in DOMAIN K.class :
                  c[1] = parentHandle /\ IsDecimalPrefix(minor, c[2])}
  IN  IF found = {} THEN {0} ELSE {K.class[c] : c \in found}

=============================================================================
