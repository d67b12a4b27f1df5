---------------------------- MODULE WorkerGroup -----------------------------
(***************************************************************************)
(* The group of worker processes: src/suil/worker.cpp:92-134, 196-417.     *)
(*                                                                         *)
(* init() forks worker 1 from the process that calls it, the super process.*)
(* launch(), in worker 1, forks workers 2 .. N; so the super process is    *)
(* the parent of worker 1 only, and worker 1 of the others.  The table of  *)
(* workers and nActive are shared memory, set to zero by init().  exit(),  *)
(* in the super process, waits for the workers and removes the memory.     *)
(*                                                                         *)
(* An action is one access to the shared memory or one system call.  A     *)
(* process may end at any time.  SIGCHLD is not queued: of two that are    *)
(* pending at once the second is lost.                                     *)
(***************************************************************************)
EXTENDS Integers, FiniteSets

CONSTANTS
  N,             \* mWorkers = mIpc->nWorkers
  Loaded,        \* load() was called: suil_sah handles the signals of the
                 \* super process (src/suil/init.cpp:37-88)
  None           \* no signal pending

Workers == 1 .. N

VARIABLES
  nActive,       \* Ipc_t::nActive, a uint8_t
  active,        \* active[w]: Worker_t::Active
  pid,           \* pid[w]: Worker_t::Pid has been set
  st,            \* process w: "none", "forked", "flagged" (initializeIpc is
                 \* done), "running", "zombie", "gone"
  forks,         \* launch(), in worker 1: "no", "fork", "store", "init",
                 \* "pid", "done"
  next,          \* its variable w
  chld,          \* the child whose SIGCHLD is pending at worker 1
  sup,           \* the super process: "runs", "kill", "check", "reap",
                 \* "done" (exit() returned), "killed"
  w,             \* the variable w of Worker::exit
  done           \* its variable done

superVars == <<sup, w, done>>
vars == <<nActive, active, pid, st, forks, next, chld, superVars>>

Alive(i) == st[i] \in {"forked", "flagged", "running"}
Dec(n) == (n + 255) % 256
Inc(n) == (n + 1) % 256

(* init() has counted and forked worker 1.                                 *)
Init ==
  /\ nActive = 1
  /\ active = [i \in Workers |-> FALSE]
  /\ pid = [i \in Workers |-> FALSE]
  /\ st = [i \in Workers |-> IF i = 1 THEN "forked" ELSE "none"]
  /\ forks = "no"
  /\ next = 2
  /\ chld = None
  /\ sup = "runs"
  /\ w = 1
  /\ done = 0

-----------------------------------------------------------------------------
(* launch() in worker 1.                                                   *)

LoopTop(n) == IF n <= N THEN "fork" ELSE "init"

Launch ==
  /\ forks = "no" /\ Alive(1)
  /\ forks' = LoopTop(2)
  /\ UNCHANGED <<nActive, active, pid, st, next, chld, superVars>>

Fork ==
  /\ forks = "fork" /\ Alive(1)
  /\ st' = [st EXCEPT ![next] = "forked"]
  /\ forks' = "store"
  /\ UNCHANGED <<nActive, active, pid, next, chld, superVars>>

(* launch() returns 0 and worker 1 goes on without being initialized.      *)
ForkFails ==
  /\ forks = "fork" /\ Alive(1)
  /\ forks' = "done"
  /\ UNCHANGED <<nActive, active, pid, st, next, chld, superVars>>

StorePid ==
  /\ forks = "store" /\ Alive(1)
  /\ pid' = [pid EXCEPT ![next] = TRUE]
  /\ next' = next + 1
  /\ forks' = LoopTop(next + 1)
  /\ UNCHANGED <<nActive, active, st, chld, superVars>>

(* initializeIpc and Pid of worker 1, when the others have been forked.    *)
InitFirst ==
  /\ forks = "init" /\ Alive(1)
  /\ active' = [active EXCEPT ![1] = TRUE]
  /\ st' = [st EXCEPT ![1] = "running"]
  /\ forks' = "pid"
  /\ UNCHANGED <<nActive, pid, next, chld, superVars>>

StoreFirst ==
  /\ forks = "pid" /\ Alive(1)
  /\ pid' = [pid EXCEPT ![1] = TRUE]
  /\ forks' = "done"
  /\ UNCHANGED <<nActive, active, st, next, chld, superVars>>

(* The child of launch(): initializeIpc, then the count.                   *)
Flag(i) ==
  /\ i > 1 /\ st[i] = "forked"
  /\ active' = [active EXCEPT ![i] = TRUE]
  /\ st' = [st EXCEPT ![i] = "flagged"]
  /\ UNCHANGED <<nActive, pid, forks, next, chld, superVars>>

Count(i) ==
  /\ st[i] = "flagged"
  /\ nActive' = Inc(nActive)
  /\ st' = [st EXCEPT ![i] = "running"]
  /\ UNCHANGED <<active, pid, forks, next, chld, superVars>>

-----------------------------------------------------------------------------
(* A worker ends.  Worker 1 does not let its children become zombies, and  *)
(* neither does the super process after load().                            *)
Die(i) ==
  /\ Alive(i)
  /\ st' = [st EXCEPT ![i] = IF i = 1 /\ ~Loaded THEN "zombie" ELSE "gone"]
  /\ chld' = IF i > 1 /\ Alive(1) /\ chld = None THEN i
             ELSE IF i = 1 THEN None ELSE chld
  /\ sup' = IF i = 1 /\ Loaded /\ sup \notin {"done", "killed"}
            THEN "sigchld" ELSE sup
  /\ UNCHANGED <<nActive, active, pid, forks, next, w, done>>

(* Parent_sa_handler: finds the child by its pid.                          *)
ParentHandler ==
  /\ chld # None /\ Alive(1)
  /\ chld' = None
  /\ IF pid[chld]
     THEN /\ active' = [active EXCEPT ![chld] = FALSE]
          /\ nActive' = Dec(nActive)
     ELSE UNCHANGED <<active, nActive>>
  /\ UNCHANGED <<pid, st, forks, next, superVars>>

(* suil_sah, Process_sa_handler, Worker_sa_handler: worker 1 has ended and *)
(* the super process calls Worker::exit from the handler, wherever it was, *)
(* and exit(0) after it.                                                   *)
SuperHandler ==
  /\ sup = "sigchld"
  /\ IF pid[1]
     THEN /\ active' = [active EXCEPT ![1] = FALSE]
          /\ nActive' = Dec(nActive)
     ELSE UNCHANGED <<active, nActive>>
  /\ sup' = IF nActive' # 0 THEN "check" ELSE "done"
  /\ w' = 1
  /\ done' = 0
  /\ UNCHANGED <<pid, st, forks, next, chld>>

-----------------------------------------------------------------------------
(* Worker::exit(code, wait) in the super process.                          *)

Exit ==
  /\ sup = "runs"
  /\ \/ nActive = 0 /\ sup' = "done"
     \/ nActive # 0 /\ sup' \in {"check", "kill"}
  /\ UNCHANGED <<nActive, active, pid, st, forks, next, chld, w, done>>

(* !wait: SIGABRT to every worker.  A Pid still zero, and the entry behind *)
(* the table, mean the process group: the super process gets it as well.   *)
KillAll ==
  /\ sup = "kill"
  /\ st' = [i \in Workers |-> IF Alive(i) THEN "gone" ELSE st[i]]
  /\ sup' = "killed"
  /\ UNCHANGED <<nActive, active, pid, forks, next, chld, w, done>>

(* The next turn of the loop over w, 0 .. mWorkers in the code and         *)
(* 1 .. N + 1 here, inside of while (done < nWorkers).                     *)
Turn(d) ==
  IF w <= N THEN w' = w + 1 /\ sup' = "check"
  ELSE w' = 1 /\ sup' = IF d < N THEN "check" ELSE "done"

(* if (tmp.Active); the entry behind the table is zero.                    *)
Check ==
  /\ sup = "check"
  /\ IF w <= N /\ active[w]
     THEN sup' = "reap" /\ UNCHANGED w
     ELSE Turn(done)
  /\ UNCHANGED <<nActive, active, pid, st, forks, next, chld, done>>

(* workerWait(true): waitpid() returns a child that has ended, or ECHILD   *)
(* at once when there is no child, and the for loop ends.                  *)
Reap ==
  /\ sup = "reap"
  /\ \/ /\ st[1] = "zombie"
        /\ st' = [st EXCEPT ![1] = "gone"]
        /\ active' = IF pid[1] THEN [active EXCEPT ![1] = FALSE] ELSE active
        /\ done' = done + 1
        /\ Turn(done + 1)
     \/ /\ st[1] = "gone"
        /\ w' = 1
        /\ sup' = "check"
        /\ UNCHANGED <<st, active, done>>
  /\ UNCHANGED <<nActive, pid, forks, next, chld>>

-----------------------------------------------------------------------------
LaunchStep ==
  Launch \/ Fork \/ ForkFails \/ StorePid \/ InitFirst \/ StoreFirst

SuperStep == SuperHandler \/ KillAll \/ Check \/ Reap

Next ==
  \/ LaunchStep \/ ParentHandler \/ SuperStep \/ Exit
  \/ \E i \in Workers : Flag(i) \/ Count(i) \/ Die(i)

Spec == Init /\ [][Next]_vars

(* The kernel runs every process and delivers its signals.                 *)
FairSpec ==
  /\ Spec
  /\ WF_vars(LaunchStep) /\ WF_vars(ParentHandler) /\ WF_vars(SuperStep)
  /\ \A i \in Workers : WF_vars(Flag(i) \/ Count(i))

-----------------------------------------------------------------------------
(* Types: the ranges of the shared table and of the locals.                *)
TypeOK ==
  /\ nActive \in 0 .. 255
  /\ active \in [Workers -> BOOLEAN]
  /\ pid \in [Workers -> BOOLEAN]
  /\ st \in [Workers -> {"none", "forked", "flagged", "running", "zombie", "gone"}]
  /\ forks \in {"no", "fork", "store", "init", "pid", "done"}
  /\ next \in 2 .. N + 1
  /\ chld \in Workers \cup {None}
  /\ sup \in {"runs", "sigchld", "kill", "check", "reap", "done", "killed"}
  /\ w \in 1 .. N + 1
  /\ done \in 0 .. N

(* Worker::exit "wait[s] for workers to shutdown" (src/suil/worker.cpp:389)*)
(* and then removes the shared memory: when the workers have all ended, it *)
(* returns.                                                                *)
ExitReturns ==
  (sup \in {"check", "reap"} /\ \A i \in Workers : st[i] \in {"zombie", "gone"})
    ~> (sup = "done")
=============================================================================
