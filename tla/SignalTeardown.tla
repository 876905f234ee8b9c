---------------------------- MODULE SignalTeardown ----------------------------
(***************************************************************************)
(* main and term_signal at the grain of tc processes. runCmd is not one    *)
(* step: popen forks a shell running tc, main then blocks reading the      *)
(* pipe until the child exits, and pclose reaps it. main installs          *)
(* term_signal for SIGTERM and SIGINT before initTC, so a signal can stop  *)
(* main anywhere from the first tc command on. The handler runs on main's  *)
(* stack: it calls removeRoot (itself a runCmd) and exit(0). A tc child    *)
(* main started goes on running when main is stopped or has exited. The    *)
(* handler's own signal is blocked while it runs (sa_flags has no          *)
(* SA_NODEFER), but sa_mask is empty: a SIGINT during the SIGTERM handler  *)
(* (or the reverse) runs term_signal again on top of it. The nested        *)
(* handler exits too, so the outer one never resumes. pmap_unset talks to  *)
(* the portmapper and holds no state of this model.                        *)
(*                                                                         *)
(* The device is abstracted to whether the root qdisc exists. Every other  *)
(* object the daemon adds hangs below the root, so "tc qdisc del root"     *)
(* removes it, and a command under the root fails while there is none: the *)
(* device is clean exactly when it has no root qdisc.                      *)
(***************************************************************************)
EXTENDS Naturals, Sequences, FiniteSets

CONSTANTS
  NumPriorities   \* g_numPriorities

ASSUME NumPriorities \in Nat

VARIABLES
  root,        \* the device has a root qdisc
  mainPc,      \* "setup", "run" (next runCmd), "wait" (inside runCmd), "exited"
  step,        \* index of main's next command; past InitCmds, svc_run serving
  children,    \* tc processes running: [by : Runners, op : Ops]
  handlerPc,   \* the innermost handler: "off", "armed", "popen", "wait", "hung", "done"
  nested       \* the other signal has started a second term_signal

vars == <<root, mainPc, step, children, handlerPc, nested>>

\* Who started a tc process: main, the first handler, the nested one.
Runners == {"main", "handler", "nested"}

\* The runner the innermost handler's removeRoot reaps.
HandlerRunner == IF nested THEN "nested" ELSE "handler"

Ops == {"delRoot", "addRoot", "underRoot"}

\* initTC's commands in order: removeRoot, the root HTB qdisc, class
\* 1:rootHTBMinorHelper(0), then per priority its class, DSMARK qdisc, DSMARK
\* class change, base HTB qdisc and the next helper class.
InitCmds ==
  <<"delRoot", "addRoot">>
  \o [i \in 1..1 + 5 * NumPriorities |-> "underRoot"]

\* The command main issues next: initTC's, then those of the requests
\* svc_run serves (updateClient's are all under the root).
NextCmd == IF step <= Len(InitCmds) THEN InitCmds[step] ELSE "underRoot"

\* While term_signal runs, main is stopped on the interrupted instruction.
MainMayRun == handlerPc \in {"off", "armed"}

\* sigaction(SIGTERM/SIGINT, term_signal): the handler is installed before
\* initTC runs.
Setup ==
  /\ mainPc = "setup"
  /\ mainPc' = "run"
  /\ handlerPc' = "armed"
  /\ UNCHANGED <<root, step, children, nested>>

\* runCmd's popen: a shell running tc is forked and main blocks reading it,
\* or popen returns NULL (no process) and runCmd returns at once.
Spawn ==
  /\ mainPc = "run" /\ MainMayRun
  /\ \/ /\ children' = children \cup {[by |-> "main", op |-> NextCmd]}
        /\ mainPc' = "wait"
        /\ UNCHANGED step
     \/ /\ step' = IF step <= Len(InitCmds) THEN step + 1 ELSE step
        /\ UNCHANGED <<mainPc, children>>
  /\ UNCHANGED <<root, handlerPc, nested>>

\* A tc process does its work and exits, whether or not its parent is
\* still there: "qdisc del root" empties the device, "qdisc add root" fails
\* if a root exists, a command under the root needs one (and adds nothing
\* that outlives the root).
Land(c) ==
  /\ c \in children
  /\ root' = CASE c.op = "delRoot"   -> FALSE
               [] c.op = "addRoot"   -> TRUE
               [] c.op = "underRoot" -> root
  /\ children' = children \ {c}
  /\ UNCHANGED <<mainPc, step, handlerPc, nested>>

\* fgets reads end-of-file once the child has exited; pclose reaps it and
\* runCmd returns. Past initTC the step count stays put.
Reap ==
  /\ mainPc = "wait" /\ MainMayRun
  /\ \A c \in children : c.by # "main"
  /\ mainPc' = "run"
  /\ step' = IF step <= Len(InitCmds) THEN step + 1 ELSE step
  /\ UNCHANGED <<root, children, handlerPc, nested>>

\* SIGTERM or SIGINT is delivered: main stops where it is.
Signal ==
  /\ handlerPc = "armed" /\ mainPc # "exited"
  /\ handlerPc' = "popen"
  /\ UNCHANGED <<root, mainPc, step, children, nested>>

\* The other signal arrives while term_signal is inside removeRoot's runCmd:
\* the empty sa_mask lets it in, and term_signal starts again from the top.
NestedSignal ==
  /\ handlerPc \in {"popen", "wait"} /\ ~nested
  /\ nested' = TRUE
  /\ handlerPc' = "popen"
  /\ UNCHANGED <<root, mainPc, step, children>>

\* The innermost handler interrupted code inside runCmd: main waiting on
\* its tc child, or the outer handler inside its own runCmd.
StoppedInRunCmd == mainPc = "wait" \/ nested

\* term_signal calls removeRoot, whose runCmd calls popen, which is not
\* async-signal-safe. When main was stopped inside runCmd (in popen, in the
\* string appends of the read loop, in pclose), it may hold a libc lock,
\* e.g. malloc's, that popen needs: the outcome is undefined, and either
\* the handler goes on or it blocks forever. popen may also return NULL:
\* runCmd returns, removeRoot has done nothing, and exit(0) follows.
HandlerPopen ==
  /\ handlerPc = "popen"
  /\ \/ /\ children' = children \cup {[by |-> HandlerRunner, op |-> "delRoot"]}
        /\ handlerPc' = "wait"
        /\ UNCHANGED mainPc
     \/ /\ StoppedInRunCmd
        /\ handlerPc' = "hung"
        /\ UNCHANGED <<mainPc, children>>
     \/ /\ handlerPc' = "done"
        /\ mainPc' = "exited"
        /\ UNCHANGED children
  /\ UNCHANGED <<root, step, nested>>

\* The handler's tc has exited: pclose reaps it, removeRoot returns, and
\* exit(0) ends the process without waiting for a tc child main, or an
\* outer handler, had started.
HandlerExit ==
  /\ handlerPc = "wait"
  /\ \A c \in children : c.by # HandlerRunner
  /\ handlerPc' = "done"
  /\ mainPc' = "exited"
  /\ UNCHANGED <<root, step, children, nested>>

Init ==
  /\ root \in BOOLEAN       \* a previous run may have left its tree
  /\ mainPc = "setup"
  /\ step = 1
  /\ children = {}
  /\ handlerPc = "off"
  /\ nested = FALSE

Next ==
  \/ Setup \/ Spawn \/ Reap
  \/ \E c \in children : Land(c)
  \/ Signal \/ NestedSignal \/ HandlerPopen \/ HandlerExit

\* main, the handler and the tc children are processes the kernel keeps
\* scheduling; the signals are the environment's and need never come.
Spec ==
  /\ Init /\ [][Next]_vars
  /\ WF_vars(Setup \/ Spawn \/ Reap)
  /\ WF_vars(\E c \in children : Land(c))
  /\ WF_vars(HandlerPopen \/ HandlerExit)

TypeOK ==
  /\ root \in BOOLEAN
  /\ mainPc \in {"setup", "run", "wait", "exited"}
  /\ step \in 1..Len(InitCmds) + 1
  /\ children \subseteq [by : Runners, op : Ops]
  /\ handlerPc \in {"off", "armed", "popen", "wait", "hung", "done"}
  /\ nested \in BOOLEAN

\* Once SIGTERM or SIGINT has arrived, the process eventually exits and
\* stays gone with the device left without any TC state (the spec's
\* lifecycle: teardown on termination signal). It is about term_signal
\* calling popen from a signal handler that may have stopped main inside
\* runCmd, and exiting while a tc child main started may still run.
SignalLeavesDeviceClean ==
  <>[](handlerPc \notin {"off", "armed"} => mainPc = "exited" /\ ~root)

=============================================================================
