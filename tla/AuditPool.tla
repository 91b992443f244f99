------------------------------ MODULE AuditPool ------------------------------
(***************************************************************************)
(* `tolza audit' (toolchain/src/command_audit.cpp): the only part of the   *)
(* toolchain that runs threads.  The main thread collects the source files *)
(* of a workspace, starts a progress thread and a pool of workers, joins   *)
(* them and prints the totals.  A worker claims a file by incrementing a   *)
(* shared index, accumulates its statistics in thread-local counters and,  *)
(* when no file is left, adds them to the shared totals under a mutex.     *)
(*                                                                         *)
(* A statistics object is a sum of per-file contributions, so it is        *)
(* modelled by how often it contains each file: a file counted twice or    *)
(* lost is visible whatever its lines are.                                 *)
(***************************************************************************)
EXTENDS Naturals, FiniteSets

CONSTANTS
  Workers,      \* the threads of the pool
  TotalFiles,   \* total_files: the number of collected tasks
  Category      \* Category[i]: the category of task i

Tasks   == 0 .. TotalFiles - 1
Cats    == {"src", "vendor", "bind"}
Ledgers == Cats \cup {"global"}   \* three CategoryStats and one GlobalStats
None    == TotalFiles             \* "no task": an index past the last one

ASSUME AuditAssumption ==
  /\ Workers # {}
  /\ TotalFiles \in Nat
  /\ Category \in [Tasks -> Cats]

VARIABLES
  onDisk,     \* the tasks whose file still exists
  index,      \* std::atomic<size_t> index
  processed,  \* std::atomic<size_t> processed
  wpc,        \* where each worker is
  task,       \* the task a worker holds
  local,      \* a worker's local_src, local_vendor, local_bind, local_global
  lock,       \* stats_mutex: its holders
  tmp,        \* the totals a merging worker has read
  totals,     \* source_code, vendor, binder, global
  done,       \* std::atomic<bool> done
  ppc,        \* where the progress thread is
  shown,      \* the count the progress thread printed last
  mpc,        \* where the main thread is
  opened      \* history: the tasks whose file could be opened

vars == <<onDisk, index, processed, wpc, task, local, lock, tmp, totals,
          done, ppc, shown, mpc, opened>>
workerVars == <<index, processed, wpc, task, local, lock, tmp, totals, opened>>

Zero == [l \in Ledgers |-> [t \in Tasks |-> 0]]
Sum(a, b) == [l \in Ledgers |-> [t \in Tasks |-> a[l][t] + b[l][t]]]
Count(stats, l, t) == [stats EXCEPT ![l][t] = @ + 1]

Init ==
  /\ onDisk = Tasks
  /\ index = 0
  /\ processed = 0
  /\ wpc = [w \in Workers |-> "unborn"]
  /\ task = [w \in Workers |-> None]
  /\ local = [w \in Workers |-> Zero]
  /\ lock = {}
  /\ tmp = [w \in Workers |-> Zero]
  /\ totals = Zero
  /\ done = FALSE
  /\ ppc = "check"
  /\ shown = 0
  /\ mpc = "spawn"
  /\ opened = {}

(***************************************************************************)
(* Mutated forms of the actions below: bugs the properties must notice.    *)
(***************************************************************************)

\* The loop ends one file too early.
ClaimOffByOne(w) ==
  /\ wpc[w] = "claim"
  /\ index' = index + 1
  /\ task' = IF index + 1 < TotalFiles THEN [task EXCEPT ![w] = index] ELSE task
  /\ wpc' = [wpc EXCEPT ![w] = IF index + 1 < TotalFiles THEN "open" ELSE "lock"]
  /\ UNCHANGED <<onDisk, processed, local, lock, tmp, totals, done, ppc, shown,
                 mpc, opened>>

\* The merge does not wait for the mutex.
LockIgnored(w) ==
  /\ wpc[w] = "lock"
  /\ lock' = lock \cup {w}
  /\ wpc' = [wpc EXCEPT ![w] = "load"]
  /\ UNCHANGED <<onDisk, index, processed, task, local, tmp, totals, done, ppc,
                 shown, mpc, opened>>

\* The unsigned count of the files still to do, which may wrap below zero.
ProgressPrintNone ==
  /\ ppc = "print"
  /\ shown' = TotalFiles - index
  /\ ppc' = "check"
  /\ UNCHANGED <<onDisk, done, mpc, workerVars>>

\* done is never set.
JoinWithoutDone ==
  /\ mpc = "join"
  /\ \A w \in Workers : wpc[w] = "ended"
  /\ mpc' = "progress"
  /\ UNCHANGED <<onDisk, done, ppc, shown, workerVars>>

\* The workers are detached instead of joined.
JoinDetached ==
  /\ mpc = "join"
  /\ done' = TRUE
  /\ mpc' = "progress"
  /\ UNCHANGED <<onDisk, ppc, shown, workerVars>>

(***************************************************************************)
(* The main thread.                                                        *)
(***************************************************************************)

\* workers.emplace_back: a worker runs as soon as it is created.
Spawn(w) ==
  /\ mpc = "spawn"
  /\ wpc[w] = "unborn"
  /\ wpc' = [wpc EXCEPT ![w] = "claim"]
  /\ mpc' = IF \A v \in Workers \ {w} : wpc[v] # "unborn" THEN "join" ELSE "spawn"
  /\ UNCHANGED <<onDisk, index, processed, task, local, lock, tmp, totals,
                 done, ppc, shown, opened>>

\* for (auto& w : workers) w.join(); done = true;
JoinWorkers ==
  /\ mpc = "join"
  /\ \A w \in Workers : wpc[w] = "ended"
  /\ done' = TRUE
  /\ mpc' = "progress"
  /\ UNCHANGED <<onDisk, ppc, shown, workerVars>>

\* progress_thread.join(), then the totals are printed.
Report ==
  /\ mpc = "progress"
  /\ ppc = "ended"
  /\ mpc' = "reported"
  /\ UNCHANGED <<onDisk, done, ppc, shown, workerVars>>

(***************************************************************************)
(* The worker threads.                                                     *)
(***************************************************************************)

Running == mpc # "aborted"

\* i = index.fetch_add(1); the loop ends when i >= total_files.
Claim(w) ==
  /\ Running
  /\ wpc[w] = "claim"
  /\ index' = index + 1
  /\ IF index < TotalFiles
       THEN /\ task' = [task EXCEPT ![w] = index]
            /\ wpc' = [wpc EXCEPT ![w] = "open"]
       ELSE /\ wpc' = [wpc EXCEPT ![w] = "lock"]
            /\ UNCHANGED task
  /\ UNCHANGED <<onDisk, processed, local, lock, tmp, totals, done, ppc, shown,
                 mpc, opened>>

\* process_file: a file that cannot be opened is skipped without a word.
Open(w) ==
  /\ Running
  /\ wpc[w] = "open"
  /\ IF task[w] \in onDisk
       THEN /\ local' = [local EXCEPT ![w] = Count(@, Category[task[w]], task[w])]
            /\ opened' = opened \cup {task[w]}
            /\ wpc' = [wpc EXCEPT ![w] = "size"]
       ELSE /\ wpc' = [wpc EXCEPT ![w] = "count"]
            /\ UNCHANGED <<local, opened>>
  /\ UNCHANGED <<onDisk, index, processed, task, lock, tmp, totals, done, ppc,
                 shown, mpc>>

\* process_file ends with fs::file_size, which throws when the file is gone:
\* the function is noexcept, so the whole process is terminated.
FileSize(w) ==
  /\ Running
  /\ wpc[w] = "size"
  /\ IF task[w] \in onDisk
       THEN /\ local' = [local EXCEPT ![w] = Count(@, "global", task[w])]
            /\ wpc' = [wpc EXCEPT ![w] = "count"]
            /\ UNCHANGED mpc
       ELSE /\ mpc' = "aborted"
            /\ UNCHANGED <<local, wpc>>
  /\ UNCHANGED <<onDisk, index, processed, task, lock, tmp, totals, done, ppc,
                 shown, opened>>

\* processed++
Processed(w) ==
  /\ Running
  /\ wpc[w] = "count"
  /\ processed' = processed + 1
  /\ task' = [task EXCEPT ![w] = None]
  /\ wpc' = [wpc EXCEPT ![w] = "claim"]
  /\ UNCHANGED <<onDisk, index, local, lock, tmp, totals, done, ppc, shown,
                 mpc, opened>>

\* std::lock_guard<std::mutex> lock(stats_mutex)
Lock(w) ==
  /\ Running
  /\ wpc[w] = "lock"
  /\ lock = {}
  /\ lock' = lock \cup {w}
  /\ wpc' = [wpc EXCEPT ![w] = "load"]
  /\ UNCHANGED <<onDisk, index, processed, task, local, tmp, totals, done, ppc,
                 shown, mpc, opened>>

\* operator+= reads the shared totals ...
MergeLoad(w) ==
  /\ Running
  /\ wpc[w] = "load"
  /\ tmp' = [tmp EXCEPT ![w] = totals]
  /\ wpc' = [wpc EXCEPT ![w] = "store"]
  /\ UNCHANGED <<onDisk, index, processed, task, local, lock, totals, done,
                 ppc, shown, mpc, opened>>

\* ... and writes them back; then the lock is released and the thread ends.
MergeStore(w) ==
  /\ Running
  /\ wpc[w] = "store"
  /\ totals' = Sum(tmp[w], local[w])
  /\ local' = [local EXCEPT ![w] = Zero]
  /\ tmp' = [tmp EXCEPT ![w] = Zero]
  /\ lock' = lock \ {w}
  /\ wpc' = [wpc EXCEPT ![w] = "ended"]
  /\ UNCHANGED <<onDisk, index, processed, task, done, ppc, shown, mpc, opened>>

(***************************************************************************)
(* The progress thread: while (!done) print processed, then sleep.         *)
(***************************************************************************)

ProgressCheck ==
  /\ Running
  /\ ppc = "check"
  /\ ppc' = IF done THEN "ended" ELSE "print"
  /\ UNCHANGED <<onDisk, done, shown, mpc, workerVars>>

ProgressPrint ==
  /\ Running
  /\ ppc = "print"
  /\ shown' = processed
  /\ ppc' = "check"
  /\ UNCHANGED <<onDisk, done, mpc, workerVars>>

(***************************************************************************)
(* The environment: another program may delete a file at any time.         *)
(***************************************************************************)
Delete(t) ==
  /\ t \in onDisk
  /\ mpc \notin {"reported", "aborted"}
  /\ onDisk' = onDisk \ {t}
  /\ UNCHANGED <<done, ppc, shown, mpc, workerVars>>

\* The report is printed, or std::terminate has ended the process.
Finished == mpc \in {"reported", "aborted"} /\ UNCHANGED vars

Worker(w) ==
  \/ Claim(w) \/ Open(w) \/ FileSize(w) \/ Processed(w)
  \/ Lock(w) \/ MergeLoad(w) \/ MergeStore(w)
Main == JoinWorkers \/ Report \/ \E w \in Workers : Spawn(w)
Progress == ProgressCheck \/ ProgressPrint

Next ==
  \/ Main
  \/ Progress
  \/ \E w \in Workers : Worker(w)
  \/ \E t \in Tasks : Delete(t)
  \/ Finished

\* The operating system schedules every thread that can run.
Fairness == WF_vars(Main) /\ WF_vars(Progress) /\ \A w \in Workers : WF_vars(Worker(w))

Spec == Init /\ [][Next]_vars /\ Fairness

------------------------------------------------------------------------------
Stats == [Ledgers -> [Tasks -> Nat]]

TypeOK ==
  /\ onDisk \subseteq Tasks
  /\ index \in Nat
  /\ processed \in Nat
  /\ wpc \in [Workers -> {"unborn", "claim", "open", "size", "count", "lock",
                          "load", "store", "ended"}]
  /\ task \in [Workers -> Tasks \cup {None}]
  /\ local \in [Workers -> Stats]
  /\ lock \subseteq Workers
  /\ tmp \in [Workers -> Stats]
  /\ totals \in Stats
  /\ done \in BOOLEAN
  /\ ppc \in {"check", "print", "ended"}
  /\ shown \in Nat
  /\ mpc \in {"spawn", "join", "progress", "reported", "aborted"}
  /\ opened \subseteq Tasks

\* What a statistics object holds once every opened file is counted once.
Exact == [l \in Ledgers |-> [t \in Tasks |->
            IF t \in opened /\ l \in {Category[t], "global"} THEN 1 ELSE 0]]

(* The printed totals contain every file that could be opened exactly once, *)
(* in its own category and in the global line, and nothing else, and a file *)
(* that is still there was opened, whatever the interleaving of claims,     *)
(* merges and joins (audit_workspace).                                      *)
ReportExact == mpc = "reported" => totals = Exact /\ onDisk \subseteq opened

(* No file is ever processed by two workers: fetch_add gives every worker   *)
(* its own index.                                                           *)
ClaimsDisjoint ==
  \A v, w \in Workers : v # w /\ task[v] \in Tasks => task[v] # task[w]

(* No merge is lost: the shared totals never forget a contribution another  *)
(* worker has stored (the lock_guard around the four +=).                   *)
MergesKept ==
  [][\A l \in Ledgers, t \in Tasks : totals'[l][t] >= totals[l][t]]_vars

(* The audit ends: the report is printed or the process is terminated; no   *)
(* join waits for ever and the progress thread sees done.                   *)
AuditEnds == <>(mpc \in {"reported", "aborted"})

(***************************************************************************)
(* What the audit promises, without its threads.                           *)
(***************************************************************************)
Abstract == INSTANCE AuditReport WITH
  Files <- Tasks,
  present <- onDisk,
  seen <- opened,
  kept <- {t \in Tasks : totals["global"][t] > 0},
  status <- IF mpc \in {"reported", "aborted"} THEN mpc ELSE "running"

(* The thread pool implements the sequential audit.                         *)
ImplementsAudit == Abstract!Spec

=============================================================================
