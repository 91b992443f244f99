--------------------------- MODULE AuditPoolProofs ---------------------------
(***************************************************************************)
(* Proofs about AuditPool for every number of workers and files.           *)
(*                                                                         *)
(* The inductive invariant says where every contribution is: a file that   *)
(* was opened is counted once, either in the totals or in the counters of  *)
(* exactly one worker, and nowhere else.  What makes it inductive is that  *)
(* the index hands out every file once (ClaimInv) and that the totals a    *)
(* merging worker has read are still the totals when it stores (LockInv).  *)
(***************************************************************************)
EXTENDS AuditPool, TLAPS

(* The workers between lock and unlock are the holders of the mutex, there *)
(* is at most one, and what it has read is still what the totals are.      *)
LockInv ==
  /\ \A w \in Workers : wpc[w] \in {"load", "store"} <=> w \in lock
  /\ \A v, w \in lock : v = w
  /\ \A w \in Workers : wpc[w] = "store" => tmp[w] = totals

(* A worker holds a task exactly while it processes it; the task was given *)
(* out by the index and to nobody else; a worker past the loop has seen    *)
(* the index at its end.                                                   *)
ClaimInv ==
  /\ \A w \in Workers : task[w] \in Tasks <=> wpc[w] \in {"open", "size", "count"}
  /\ \A w \in Workers : task[w] \in Tasks => task[w] < index
  /\ \A v, w \in Workers : v # w /\ task[v] \in Tasks => task[v] # task[w]
  /\ \A w \in Workers : wpc[w] \in {"lock", "load", "store", "ended"} => TotalFiles <= index

(* A file the index has passed was opened, is held by a worker that has yet *)
(* to open it, or no longer exists; one that the index has not reached was  *)
(* not opened.                                                              *)
OpenInv ==
  /\ \A t \in opened : t < index
  /\ \A w \in Workers : wpc[w] = "open" => task[w] \notin opened
  /\ \A w \in Workers : wpc[w] = "size" => task[w] \in opened
  /\ \A t \in Tasks : t < index =>
       \/ t \in opened
       \/ t \notin onDisk
       \/ \E w \in Workers : task[w] = t /\ wpc[w] = "open"

Measuring(t) == \E w \in Workers : task[w] = t /\ wpc[w] = "size"
Counted(l, t) == t \in opened /\ (l = Category[t] \/ (l = "global" /\ ~Measuring(t)))

Absent(l, t) == totals[l][t] = 0 /\ \A w \in Workers : local[w][l][t] = 0
Merged(l, t) == totals[l][t] = 1 /\ \A w \in Workers : local[w][l][t] = 0
HeldBy(l, t, w) ==
  /\ totals[l][t] = 0
  /\ local[w][l][t] = 1
  /\ \A v \in Workers \ {w} : local[v][l][t] = 0
Placed(l, t) == Merged(l, t) \/ \E w \in Workers : HeldBy(l, t, w)

(* Every contribution is in exactly one place, once; a thread that has not *)
(* started or has ended holds none.                                        *)
LedgerInv ==
  /\ \A l \in Ledgers, t \in Tasks :
       IF Counted(l, t) THEN Placed(l, t) ELSE Absent(l, t)
  /\ \A w \in Workers : wpc[w] = "ended" => local[w] = Zero

(* The main thread joins all workers before it goes on.                    *)
JoinInv == mpc \in {"progress", "reported"} => \A w \in Workers : wpc[w] = "ended"

IInv == TypeOK /\ LockInv /\ ClaimInv /\ OpenInv /\ LedgerInv /\ JoinInv

------------------------------------------------------------------------------
(* Adding two statistics objects gives a statistics object.                *)
LEMMA SumType ==
  ASSUME NEW a \in Stats, NEW b \in Stats
  PROVE  Sum(a, b) \in Stats
BY DEF Sum, Stats

(* The empty statistics object, and one with a file added.                 *)
LEMMA CountType ==
  /\ Zero \in Stats
  /\ \A s \in Stats, l \in Ledgers, t \in Tasks : Count(s, l, t) \in Stats
BY DEF Count, Stats, Zero

(* Type correctness is inductive.                                          *)
LEMMA TypeInit == Init => TypeOK
<1> SUFFICES ASSUME Init PROVE TypeOK
  OBVIOUS
<1>1. Zero \in Stats
  BY CountType
<1>2. QED
  BY <1>1 DEF Init, TypeOK

LEMMA TypeStep == TypeOK /\ [Next]_vars => TypeOK'
<1> SUFFICES ASSUME TypeOK, [Next]_vars PROVE TypeOK'
  OBVIOUS
<1> USE AuditAssumption DEF TypeOK
<1>1. ASSUME NEW w \in Workers, Spawn(w) PROVE TypeOK'
  BY <1>1 DEF Spawn
<1>2. CASE JoinWorkers
  BY <1>2 DEF JoinWorkers, workerVars
<1>3. CASE Report
  BY <1>3 DEF Report, workerVars
<1>4. CASE Progress
  BY <1>4 DEF Progress, ProgressCheck, ProgressPrint, workerVars
<1>5. ASSUME NEW w \in Workers, Claim(w) PROVE TypeOK'
  <2>1. index < TotalFiles => index \in Tasks
    BY DEF Tasks
  <2>2. QED
    BY <1>5, <2>1 DEF Claim
<1>6. ASSUME NEW w \in Workers, Open(w) PROVE TypeOK'
  <2>1. CASE task[w] \in onDisk
    <3>1. Category[task[w]] \in Ledgers /\ task[w] \in Tasks
      BY <2>1 DEF Ledgers
    <3>2. Count(local[w], Category[task[w]], task[w]) \in Stats
      BY <3>1, CountType
    <3>3. local' \in [Workers -> Stats]
      BY <1>6, <2>1, <3>2 DEF Open
    <3>4. QED
      BY <1>6, <2>1, <3>1, <3>3 DEF Open
  <2>2. CASE task[w] \notin onDisk
    BY <1>6, <2>2 DEF Open
  <2>3. QED
    BY <2>1, <2>2
<1>7. ASSUME NEW w \in Workers, FileSize(w) PROVE TypeOK'
  <2>1. CASE task[w] \in onDisk
    <3>1. Count(local[w], "global", task[w]) \in Stats
      BY <2>1, CountType DEF Ledgers
    <3>2. local' \in [Workers -> Stats]
      BY <1>7, <2>1, <3>1 DEF FileSize
    <3>3. QED
      BY <1>7, <2>1, <3>2 DEF FileSize
  <2>2. CASE task[w] \notin onDisk
    BY <1>7, <2>2 DEF FileSize
  <2>3. QED
    BY <2>1, <2>2
<1>8. ASSUME NEW w \in Workers, Processed(w) PROVE TypeOK'
  BY <1>8 DEF Processed
<1>9. ASSUME NEW w \in Workers, Lock(w) PROVE TypeOK'
  BY <1>9 DEF Lock
<1>10. ASSUME NEW w \in Workers, MergeLoad(w) PROVE TypeOK'
  BY <1>10 DEF MergeLoad
<1>11. ASSUME NEW w \in Workers, MergeStore(w) PROVE TypeOK'
  <2>1. Sum(tmp[w], local[w]) \in Stats
    BY SumType
  <2>2. QED
    BY <1>11, <2>1, CountType DEF MergeStore
<1>12. ASSUME NEW t \in Tasks, Delete(t) PROVE TypeOK'
  BY <1>12 DEF Delete, workerVars
<1>13. CASE UNCHANGED vars
  BY <1>13 DEF vars
<1>14. QED
  BY <1>1, <1>2, <1>3, <1>4, <1>5, <1>6, <1>7, <1>8, <1>9, <1>10, <1>11, <1>12, <1>13
     DEF Next, Main, Worker, Finished

(* The state always has its type.                                          *)
THEOREM TypeCorrect == Spec => []TypeOK
<1>1. QED
  BY TypeInit, TypeStep, PTL DEF Spec

------------------------------------------------------------------------------
(* The mutex protects the totals.                                          *)
LEMMA LockStep == TypeOK /\ LockInv /\ [Next]_vars => LockInv'
<1> SUFFICES ASSUME TypeOK, LockInv, [Next]_vars PROVE LockInv'
  OBVIOUS
<1> USE DEF TypeOK, LockInv
<1>1. CASE Main
  BY <1>1 DEF Main, Spawn, JoinWorkers, Report, workerVars
<1>2. CASE Progress
  BY <1>2 DEF Progress, ProgressCheck, ProgressPrint, workerVars
<1>3. ASSUME NEW w \in Workers, Claim(w) \/ Open(w) \/ FileSize(w) \/ Processed(w)
      PROVE  LockInv'
  BY <1>3 DEF Claim, Open, FileSize, Processed
<1>4. ASSUME NEW w \in Workers, Lock(w) PROVE LockInv'
  BY <1>4 DEF Lock
<1>5. ASSUME NEW w \in Workers, MergeLoad(w) PROVE LockInv'
  BY <1>5 DEF MergeLoad
<1>6. ASSUME NEW w \in Workers, MergeStore(w) PROVE LockInv'
  BY <1>6 DEF MergeStore
<1>7. ASSUME NEW t \in Tasks, Delete(t) PROVE LockInv'
  BY <1>7 DEF Delete, workerVars
<1>8. CASE UNCHANGED vars
  BY <1>8 DEF vars
<1>9. QED
  BY <1>1, <1>2, <1>3, <1>4, <1>5, <1>6, <1>7, <1>8 DEF Next, Worker, Finished

(* The index gives every file to one worker.                               *)
LEMMA ClaimStep == TypeOK /\ ClaimInv /\ [Next]_vars => ClaimInv'
<1> SUFFICES ASSUME TypeOK, ClaimInv, [Next]_vars PROVE ClaimInv'
  OBVIOUS
<1> USE AuditAssumption DEF TypeOK, ClaimInv
<1>0. None \notin Tasks
  BY DEF None, Tasks
<1>1. ASSUME NEW w \in Workers, Spawn(w) PROVE ClaimInv'
  BY <1>1 DEF Spawn
<1>2. CASE JoinWorkers \/ Report \/ Progress
  BY <1>2 DEF JoinWorkers, Report, Progress, ProgressCheck, ProgressPrint, workerVars
<1>3. ASSUME NEW w \in Workers, Claim(w) PROVE ClaimInv'
  <2>1. CASE index < TotalFiles
    <3>1. index \in Tasks
      BY <2>1 DEF Tasks
    <3>2. \A v \in Workers : task[v] \in Tasks => task[v] \in Nat /\ task[v] # index
      BY DEF Tasks
    <3>3. /\ index \in Nat /\ index' = index + 1
          /\ task' = [task EXCEPT ![w] = index]
          /\ wpc' = [wpc EXCEPT ![w] = "open"]
      BY <1>3, <2>1 DEF Claim
    <3>4. \A v \in Workers : task'[v] \in Tasks => task'[v] < index'
      BY <3>2, <3>3
    <3>5. \A v \in Workers : TotalFiles <= index => TotalFiles <= index'
      BY <3>3
    <3>6. QED
      BY <3>1, <3>2, <3>3, <3>4, <3>5
  <2>2. CASE ~(index < TotalFiles)
    <3>1. \A v \in Workers : task[v] \in Tasks => task[v] \in Nat
      BY DEF Tasks
    <3>2. index \in Nat /\ index' = index + 1 /\ TotalFiles <= index'
      BY <1>3, <2>2 DEF Claim
    <3>3. task' = task /\ wpc' = [wpc EXCEPT ![w] = "lock"] /\ wpc[w] = "claim"
      BY <1>3, <2>2 DEF Claim
    <3>4. \A v \in Workers : task[v] \in Tasks => task'[v] < index'
      BY <3>1, <3>2, <3>3
    <3>5. \A v \in Workers :
            wpc'[v] \in {"lock", "load", "store", "ended"} => TotalFiles <= index'
      BY <3>2
    <3>6. QED
      BY <3>3, <3>4, <3>5
  <2>3. QED
    BY <2>1, <2>2
<1>4. ASSUME NEW w \in Workers, Open(w) \/ FileSize(w) PROVE ClaimInv'
  BY <1>4 DEF Open, FileSize
<1>5. ASSUME NEW w \in Workers, Processed(w) PROVE ClaimInv'
  BY <1>0, <1>5 DEF Processed
<1>6. ASSUME NEW w \in Workers, Lock(w) \/ MergeLoad(w) \/ MergeStore(w) PROVE ClaimInv'
  BY <1>6 DEF Lock, MergeLoad, MergeStore
<1>7. ASSUME NEW t \in Tasks, Delete(t) PROVE ClaimInv'
  BY <1>7 DEF Delete, workerVars
<1>8. CASE UNCHANGED vars
  BY <1>8 DEF vars
<1>9. QED
  BY <1>1, <1>2, <1>3, <1>4, <1>5, <1>6, <1>7, <1>8 DEF Next, Main, Worker, Finished

(* Opening follows claiming.                                               *)
LEMMA OpenStep == TypeOK /\ ClaimInv /\ OpenInv /\ [Next]_vars => OpenInv'
<1> SUFFICES ASSUME TypeOK, ClaimInv, OpenInv, [Next]_vars PROVE OpenInv'
  OBVIOUS
<1> USE AuditAssumption DEF TypeOK, OpenInv
<1>1. ASSUME NEW w \in Workers, Spawn(w) PROVE OpenInv'
  BY <1>1 DEF Spawn
<1>2. CASE JoinWorkers \/ Report \/ Progress
  BY <1>2 DEF JoinWorkers, Report, Progress, ProgressCheck, ProgressPrint, workerVars
<1>3. ASSUME NEW w \in Workers, Claim(w) PROVE OpenInv'
  <2>1. \A t \in Tasks : t \in Nat
    BY DEF Tasks
  <2>2. CASE index < TotalFiles
    <3>1. index \notin opened
      BY <2>1
    <3>2. \A t \in Tasks : t < index' => t < index \/ t = index
      BY <1>3, <2>1 DEF Claim
    <3>3. QED
      BY <1>3, <2>1, <2>2, <3>1, <3>2 DEF Claim
  <2>3. CASE ~(index < TotalFiles)
    BY <1>3, <2>1, <2>3 DEF Claim, Tasks
  <2>4. QED
    BY <2>2, <2>3
<1>4. ASSUME NEW w \in Workers, Open(w) PROVE OpenInv'
  BY <1>4 DEF Open, ClaimInv
<1>5. ASSUME NEW w \in Workers, FileSize(w) PROVE OpenInv'
  BY <1>5 DEF FileSize
<1>6. ASSUME NEW w \in Workers, Processed(w) PROVE OpenInv'
  BY <1>6 DEF Processed
<1>7. ASSUME NEW w \in Workers, Lock(w) \/ MergeLoad(w) \/ MergeStore(w) PROVE OpenInv'
  BY <1>7 DEF Lock, MergeLoad, MergeStore
<1>8. ASSUME NEW t \in Tasks, Delete(t) PROVE OpenInv'
  BY <1>8 DEF Delete, workerVars
<1>9. CASE UNCHANGED vars
  BY <1>9 DEF vars
<1>10. QED
  BY <1>1, <1>2, <1>3, <1>4, <1>5, <1>6, <1>7, <1>8, <1>9 DEF Next, Main, Worker, Finished

(* The main thread goes on only when every worker has ended.               *)
LEMMA JoinStep == TypeOK /\ JoinInv /\ [Next]_vars => JoinInv'
<1> SUFFICES ASSUME TypeOK, JoinInv, [Next]_vars PROVE JoinInv'
  OBVIOUS
<1>1. QED
  BY DEF TypeOK, JoinInv, Next, Main, Spawn, JoinWorkers, Report, Progress, ProgressCheck,
         ProgressPrint, Worker, Claim, Open, FileSize, Processed, Lock, MergeLoad,
         MergeStore, Delete, Finished, vars, workerVars

------------------------------------------------------------------------------
(* A file's category ledger is not the global one.                         *)
LEMMA LedgerKinds == \A t \in Tasks : Category[t] \in Ledgers /\ Category[t] # "global"
BY AuditAssumption DEF Ledgers, Cats

(* What Count and Zero contain, entry by entry.                            *)
LEMMA CountEntry ==
  ASSUME NEW s \in Stats, NEW l \in Ledgers, NEW t \in Tasks,
         NEW k \in Ledgers, NEW u \in Tasks
  PROVE  Count(s, l, t)[k][u] = IF k = l /\ u = t THEN s[k][u] + 1 ELSE s[k][u]
BY DEF Count, Stats

LEMMA ZeroEntry == \A l \in Ledgers, t \in Tasks : Zero[l][t] = 0
BY DEF Zero

LEMMA SumEntry ==
  ASSUME NEW a \in Stats, NEW b \in Stats, NEW l \in Ledgers, NEW t \in Tasks
  PROVE  Sum(a, b)[l][t] = a[l][t] + b[l][t]
BY DEF Sum, Stats

(* An entry of a statistics object is a number.                            *)
LEMMA EntryType == \A s \in Stats, l \in Ledgers, t \in Tasks : s[l][t] \in Nat
BY DEF Stats

(* A step that leaves the statistics, the opened files and the workers at  *)
(* fs::file_size alone keeps every contribution where it is.               *)
LEMMA LedgerFrame ==
  ASSUME LedgerInv, UNCHANGED <<local, totals, opened>>,
         \A t \in Tasks : Measuring(t)' <=> Measuring(t),
         \A w \in Workers : wpc'[w] = "ended" => wpc[w] = "ended"
  PROVE  LedgerInv'
BY DEF LedgerInv, Counted, Placed, Absent, Merged, HeldBy

(* Every contribution stays in exactly one place.                          *)
LEMMA LedgerStep ==
  TypeOK /\ LockInv /\ ClaimInv /\ OpenInv /\ LedgerInv /\ [Next]_vars => LedgerInv'
<1> SUFFICES ASSUME TypeOK, LockInv, ClaimInv, OpenInv, LedgerInv, [Next]_vars
             PROVE  LedgerInv'
  OBVIOUS
<1> USE DEF TypeOK
<1>1. ASSUME NEW w \in Workers, Spawn(w) PROVE LedgerInv'
  BY <1>1, LedgerFrame DEF Spawn, Measuring
<1>2. CASE JoinWorkers \/ Report \/ Progress
  BY <1>2, LedgerFrame DEF JoinWorkers, Report, Progress, ProgressCheck, ProgressPrint,
                           workerVars, Measuring
<1>3. ASSUME NEW w \in Workers, Claim(w) PROVE LedgerInv'
  <2>1. \A t \in Tasks : Measuring(t)' <=> Measuring(t)
    BY <1>3 DEF Claim, Measuring
  <2>2. QED
    BY <1>3, <2>1, LedgerFrame DEF Claim
<1>4. ASSUME NEW w \in Workers, Lock(w) \/ MergeLoad(w) PROVE LedgerInv'
  <2>1. \A t \in Tasks : Measuring(t)' <=> Measuring(t)
    BY <1>4 DEF Lock, MergeLoad, Measuring
  <2>2. QED
    BY <1>4, <2>1, LedgerFrame DEF Lock, MergeLoad
<1>5. ASSUME NEW w \in Workers, Processed(w) PROVE LedgerInv'
  <2>1. \A t \in Tasks : Measuring(t)' <=> Measuring(t)
    BY <1>5 DEF Processed, Measuring
  <2>2. QED
    BY <1>5, <2>1, LedgerFrame DEF Processed
<1>6. ASSUME NEW t \in Tasks, Delete(t) PROVE LedgerInv'
  BY <1>6, LedgerFrame DEF Delete, workerVars, Measuring
<1>7. CASE UNCHANGED vars
  BY <1>7, LedgerFrame DEF vars, Measuring
<1>8. ASSUME NEW w \in Workers, Open(w) PROVE LedgerInv'
  <2>1. CASE task[w] \in onDisk
    <3> DEFINE f == task[w]
    <3>1. f \in Tasks /\ f \notin opened /\ wpc[w] = "open" /\ Category[f] \in Ledgers
      BY <1>8, <2>1, LedgerKinds DEF Open, OpenInv
    <3>2. /\ local' = [local EXCEPT ![w] = Count(local[w], Category[f], f)]
          /\ opened' = opened \cup {f}
          /\ wpc' = [wpc EXCEPT ![w] = "size"]
          /\ UNCHANGED <<task, totals>>
      BY <1>8, <2>1 DEF Open
    <3>3. ASSUME NEW l \in Ledgers, NEW t \in Tasks
          PROVE  IF Counted(l, t)' THEN Placed(l, t)' ELSE Absent(l, t)'
      <4>1. CASE t = f /\ l = Category[f]
        <5>1. Absent(l, t)
          BY <3>1, <4>1 DEF LedgerInv, Counted
        <5>2. local'[w][l][t] = 1
          BY <3>1, <3>2, <4>1, <5>1, CountEntry DEF Absent
        <5>3. \A v \in Workers \ {w} : local'[v][l][t] = 0
          BY <3>2, <5>1 DEF Absent
        <5>4. HeldBy(l, t, w)'
          BY <3>2, <5>1, <5>2, <5>3 DEF HeldBy, Absent
        <5>5. Counted(l, t)'
          BY <3>2, <4>1 DEF Counted
        <5>6. QED
          BY <5>4, <5>5 DEF Placed
      <4>2. CASE ~(t = f /\ l = Category[f])
        <5>1. \A v \in Workers : local'[v][l][t] = local[v][l][t]
          BY <3>1, <3>2, <4>2, CountEntry
        <5>2. (Placed(l, t)' <=> Placed(l, t)) /\ (Absent(l, t)' <=> Absent(l, t))
          BY <3>2, <5>1 DEF Placed, Merged, HeldBy, Absent
        <5>3. Counted(l, t)' <=> Counted(l, t)
          <6>1. CASE t = f
            <7>1. Measuring(t)'
              BY <3>1, <3>2, <6>1 DEF Measuring
            <7>2. QED
              BY <3>1, <4>2, <6>1, <7>1 DEF Counted
          <6>2. CASE t # f
            <7>1. Measuring(t)' <=> Measuring(t)
              BY <3>2, <6>2 DEF Measuring
            <7>2. QED
              BY <3>2, <6>2, <7>1 DEF Counted
          <6>3. QED
            BY <6>1, <6>2
        <5>4. QED
          BY <5>2, <5>3 DEF LedgerInv
      <4>3. QED
        BY <4>1, <4>2
    <3>4. \A v \in Workers : wpc'[v] = "ended" => local'[v] = Zero
      BY <3>2 DEF LedgerInv
    <3>5. QED
      BY <3>3, <3>4 DEF LedgerInv
  <2>2. CASE task[w] \notin onDisk
    <3>1. \A t \in Tasks : Measuring(t)' <=> Measuring(t)
      BY <1>8, <2>2 DEF Open, Measuring
    <3>2. QED
      BY <1>8, <2>2, <3>1, LedgerFrame DEF Open
  <2>3. QED
    BY <2>1, <2>2
<1>9. ASSUME NEW w \in Workers, FileSize(w) PROVE LedgerInv'
  <2>1. CASE task[w] \in onDisk
    <3> DEFINE f == task[w]
    <3>1. f \in Tasks /\ f \in opened /\ Measuring(f) /\ "global" \in Ledgers
      BY <1>9, <2>1 DEF FileSize, OpenInv, Measuring, Ledgers
    <3>2. /\ local' = [local EXCEPT ![w] = Count(local[w], "global", f)]
          /\ wpc' = [wpc EXCEPT ![w] = "count"]
          /\ UNCHANGED <<task, totals, opened>>
      BY <1>9, <2>1 DEF FileSize
    <3>3. \A v \in Workers : task[v] = f => v = w
      BY <3>1 DEF ClaimInv
    <3>4. ASSUME NEW l \in Ledgers, NEW t \in Tasks
          PROVE  IF Counted(l, t)' THEN Placed(l, t)' ELSE Absent(l, t)'
      <4>1. CASE t = f /\ l = "global"
        <5>1. Absent(l, t)
          BY <3>1, <4>1, LedgerKinds DEF LedgerInv, Counted
        <5>2. local'[w][l][t] = 1
          BY <3>1, <3>2, <4>1, <5>1, CountEntry DEF Absent
        <5>3. \A v \in Workers \ {w} : local'[v][l][t] = 0
          BY <3>2, <5>1 DEF Absent
        <5>4. HeldBy(l, t, w)'
          BY <3>2, <5>1, <5>2, <5>3 DEF HeldBy, Absent
        <5>5. ~Measuring(t)'
          BY <3>2, <3>3, <4>1 DEF Measuring
        <5>6. Counted(l, t)'
          BY <3>1, <3>2, <4>1, <5>5 DEF Counted
        <5>7. QED
          BY <5>4, <5>6 DEF Placed
      <4>2. CASE ~(t = f /\ l = "global")
        <5>1. \A v \in Workers : local'[v][l][t] = local[v][l][t]
          BY <3>1, <3>2, <4>2, CountEntry
        <5>2. (Placed(l, t)' <=> Placed(l, t)) /\ (Absent(l, t)' <=> Absent(l, t))
          BY <3>2, <5>1 DEF Placed, Merged, HeldBy, Absent
        <5>3. Counted(l, t)' <=> Counted(l, t)
          <6>1. CASE t = f
            BY <3>2, <4>2, <6>1 DEF Counted
          <6>2. CASE t # f
            <7>1. Measuring(t)' <=> Measuring(t)
              BY <3>2, <6>2 DEF Measuring
            <7>2. QED
              BY <3>2, <7>1 DEF Counted
          <6>3. QED
            BY <6>1, <6>2
        <5>4. QED
          BY <5>2, <5>3 DEF LedgerInv
      <4>3. QED
        BY <4>1, <4>2
    <3>5. \A v \in Workers : wpc'[v] = "ended" => local'[v] = Zero
      BY <3>2 DEF LedgerInv
    <3>6. QED
      BY <3>4, <3>5 DEF LedgerInv
  <2>2. CASE task[w] \notin onDisk
    BY <1>9, <2>2, LedgerFrame DEF FileSize, Measuring
  <2>3. QED
    BY <2>1, <2>2
<1>10. ASSUME NEW w \in Workers, MergeStore(w) PROVE LedgerInv'
  <2>1. /\ totals' = Sum(totals, local[w])
        /\ local' = [local EXCEPT ![w] = Zero]
        /\ wpc' = [wpc EXCEPT ![w] = "ended"]
        /\ wpc[w] = "store"
        /\ UNCHANGED <<task, opened>>
    BY <1>10 DEF MergeStore, LockInv
  <2>2. \A t \in Tasks : Measuring(t)' <=> Measuring(t)
    BY <2>1 DEF Measuring
  <2>3. ASSUME NEW l \in Ledgers, NEW t \in Tasks
        PROVE  IF Counted(l, t)' THEN Placed(l, t)' ELSE Absent(l, t)'
    <3>1. totals'[l][t] = totals[l][t] + local[w][l][t]
      BY <2>1, SumEntry
    <3>2. local'[w][l][t] = 0 /\ \A v \in Workers \ {w} : local'[v][l][t] = local[v][l][t]
      BY <2>1, ZeroEntry
    <3>3. Counted(l, t)' <=> Counted(l, t)
      BY <2>1, <2>2 DEF Counted
    <3>4. Absent(l, t) => Absent(l, t)'
      BY <3>1, <3>2 DEF Absent
    <3>5. Merged(l, t) => Merged(l, t)'
      BY <3>1, <3>2 DEF Merged
    <3>6. HeldBy(l, t, w) => Merged(l, t)'
      BY <3>1, <3>2 DEF HeldBy, Merged
    <3>7. ASSUME NEW v \in Workers \ {w}, HeldBy(l, t, v) PROVE HeldBy(l, t, v)'
      BY <3>1, <3>2, <3>7 DEF HeldBy
    <3>8. Placed(l, t) => Placed(l, t)'
      BY <3>5, <3>6, <3>7 DEF Placed
    <3>9. QED
      BY <3>3, <3>4, <3>8 DEF LedgerInv
  <2>4. \A v \in Workers : wpc'[v] = "ended" => local'[v] = Zero
    BY <2>1 DEF LedgerInv
  <2>5. QED
    BY <2>3, <2>4 DEF LedgerInv
<1>11. QED
  BY <1>1, <1>2, <1>3, <1>4, <1>5, <1>6, <1>7, <1>8, <1>9, <1>10
     DEF Next, Main, Worker, Finished

------------------------------------------------------------------------------
(* The inductive invariant.                                                *)
THEOREM Invariance == Spec => []IInv
<1>1. Init => IInv
  <2> SUFFICES ASSUME Init PROVE IInv
    OBVIOUS
  <2>1. None \notin Tasks
    BY AuditAssumption DEF None, Tasks
  <2>2. LockInv /\ ClaimInv /\ JoinInv
    BY <2>1 DEF Init, LockInv, ClaimInv, JoinInv
  <2>3. \A t \in Tasks : ~(t < index)
    BY AuditAssumption DEF Init, Tasks
  <2>4. OpenInv
    BY <2>3 DEF Init, OpenInv
  <2>5. LedgerInv
    BY ZeroEntry DEF Init, LedgerInv, Counted, Absent
  <2>6. QED
    BY <2>2, <2>4, <2>5, TypeInit DEF IInv
<1>2. IInv /\ [Next]_vars => IInv'
  BY TypeStep, LockStep, ClaimStep, OpenStep, LedgerStep, JoinStep DEF IInv
<1>3. QED
  BY <1>1, <1>2, PTL DEF Spec

(* When every worker has ended, every contribution is in the totals.       *)
LEMMA AllMerged ==
  ASSUME IInv, \A w \in Workers : wpc[w] = "ended"
  PROVE  totals = Exact /\ onDisk \subseteq opened
<1>1. \A w \in Workers : local[w] = Zero
  BY DEF IInv, LedgerInv
<1>2. \A l \in Ledgers, t \in Tasks : Counted(l, t) <=> t \in opened /\ l \in {Category[t], "global"}
  BY DEF Counted, Measuring
<1>3. ASSUME NEW l \in Ledgers, NEW t \in Tasks
      PROVE  totals[l][t] = Exact[l][t]
  <2>1. \A w \in Workers : local[w][l][t] = 0
    BY <1>1, ZeroEntry
  <2>2. Placed(l, t) => totals[l][t] = 1
    BY <2>1 DEF Placed, Merged, HeldBy
  <2>3. Absent(l, t) => totals[l][t] = 0
    BY DEF Absent
  <2>4. QED
    BY <1>2, <2>2, <2>3 DEF IInv, LedgerInv, Exact
<1>4. totals = Exact
  <2>1. totals \in Stats /\ Exact \in Stats
    BY DEF IInv, TypeOK, Exact, Stats
  <2>2. QED
    BY <1>3, <2>1 DEF Stats
<1>5. onDisk \subseteq opened
  <2>1. PICK w \in Workers : TRUE
    BY AuditAssumption
  <2>2. TotalFiles <= index
    BY <2>1 DEF IInv, ClaimInv
  <2>3. \A t \in Tasks : t < index
    BY <2>2, AuditAssumption DEF Tasks, IInv, TypeOK
  <2>4. QED
    BY <2>3 DEF IInv, OpenInv, TypeOK
<1>6. QED
  BY <1>4, <1>5

(* The printed totals are exact, for every number of threads and files.    *)
THEOREM ExactReport == Spec => []ReportExact
<1>1. IInv => ReportExact
  BY AllMerged DEF IInv, JoinInv, ReportExact
<1>2. QED
  BY <1>1, Invariance, PTL

(* No file is processed twice.                                             *)
THEOREM DisjointClaims == Spec => []ClaimsDisjoint
<1>1. IInv => ClaimsDisjoint
  BY DEF IInv, ClaimInv, ClaimsDisjoint
<1>2. QED
  BY <1>1, Invariance, PTL

(* No merge is lost.                                                       *)
THEOREM KeptMerges == Spec => MergesKept
<1> DEFINE Grows == \A l \in Ledgers, t \in Tasks : totals'[l][t] >= totals[l][t]
<1>1. IInv /\ [Next]_vars => [Grows]_vars
  <2> SUFFICES ASSUME IInv, Next PROVE Grows
    OBVIOUS
  <2>1. \A l \in Ledgers, t \in Tasks : totals[l][t] \in Nat
    BY EntryType DEF IInv, TypeOK
  <2>2. ASSUME totals' = totals PROVE Grows
    BY <2>1, <2>2
  <2>3. ASSUME NEW w \in Workers, MergeStore(w) PROVE Grows
    <3>1. totals' = Sum(totals, local[w])
      BY <2>3 DEF MergeStore, IInv, LockInv
    <3>2. ASSUME NEW l \in Ledgers, NEW t \in Tasks
          PROVE  totals'[l][t] >= totals[l][t]
      <4>1. totals'[l][t] = totals[l][t] + local[w][l][t]
        BY <3>1, SumEntry DEF IInv, TypeOK
      <4>2. local[w][l][t] \in Nat
        BY EntryType DEF IInv, TypeOK
      <4>3. QED
        BY <2>1, <4>1, <4>2
    <3>3. QED
      BY <3>2
  <2>4. QED
    BY <2>2, <2>3 DEF Next, Main, Spawn, JoinWorkers, Report, Progress, ProgressCheck,
       ProgressPrint, Worker, Claim, Open, FileSize, Processed, Lock, MergeLoad, Delete,
       Finished, vars, workerVars
<1>2. QED
  BY <1>1, Invariance, PTL DEF Spec, MergesKept

------------------------------------------------------------------------------
(* The refinement of AuditReport.                                          *)
KeptFiles == {t \in Tasks : totals["global"][t] > 0}

\* A step that leaves the totals, the opened files and the files alone, and
\* goes on or is at the end.
LEMMA AuditStutter ==
  ASSUME UNCHANGED <<onDisk, opened, totals>>,
         mpc \in {"reported", "aborted"} \/ mpc' \in {"reported", "aborted"} => mpc' = mpc
  PROVE  UNCHANGED Abstract!vars
BY DEF Abstract!vars

\* A merge keeps what the worker has counted, and only that.
LEMMA MergeKeeps ==
  ASSUME IInv, NEW w \in Workers, MergeStore(w), mpc \notin {"reported", "aborted"}
  PROVE  \E S \in SUBSET opened : Abstract!Keep(S)
<1> DEFINE S == {t \in Tasks : local[w]["global"][t] > 0}
<1>1. "global" \in Ledgers /\ local[w] \in Stats /\ totals \in Stats /\ totals' = Sum(totals, local[w])
  BY DEF Ledgers, MergeStore, IInv, LockInv, TypeOK
<1>2. ASSUME NEW t \in Tasks
      PROVE  totals'["global"][t] > 0 <=> totals["global"][t] > 0 \/ local[w]["global"][t] > 0
  BY <1>1, SumEntry, EntryType
<1>3. KeptFiles' = KeptFiles \cup S
  BY <1>2 DEF KeptFiles
<1>4. S \subseteq opened
  <2> SUFFICES ASSUME NEW t \in S PROVE t \in opened
    OBVIOUS
  <2>1. ~Absent("global", t)
    BY DEF Absent
  <2> QED
    BY <1>1, <2>1 DEF IInv, LedgerInv, Counted
<1> QED
  BY <1>3, <1>4 DEF MergeStore, Abstract!Keep, KeptFiles

\* When the process is terminated, a file was seen, is gone and was not kept.
LEMMA TerminationAborts ==
  ASSUME IInv, NEW w \in Workers, FileSize(w), task[w] \notin onDisk
  PROVE  Abstract!Abort
<1> DEFINE f == task[w]
<1>1. f \in Tasks /\ f \in opened /\ "global" \in Ledgers
  BY DEF FileSize, IInv, ClaimInv, OpenInv, Ledgers
<1>2. Absent("global", f)
  <2>1. Category[f] # "global" /\ Measuring(f)
    BY <1>1, LedgerKinds DEF FileSize, Measuring
  <2> QED
    BY <1>1, <2>1 DEF IInv, LedgerInv, Counted
<1>3. f \notin KeptFiles
  BY <1>1, <1>2 DEF Absent, KeptFiles
<1>4. mpc \notin {"reported", "aborted"} /\ mpc' = "aborted"
  BY DEF FileSize, Running, IInv, JoinInv
<1>5. UNCHANGED <<onDisk, opened, totals>>
  BY DEF FileSize
<1> QED
  BY <1>1, <1>3, <1>4, <1>5 DEF Abstract!Abort, KeptFiles

\* The report is printed when everything seen is kept.
LEMMA ReportReports ==
  ASSUME IInv, Report
  PROVE  Abstract!Report
<1>1. totals = Exact /\ onDisk \subseteq opened
  BY AllMerged DEF Report, IInv, JoinInv
<1>2. \A t \in Tasks : totals["global"][t] > 0 <=> t \in opened
  BY <1>1 DEF Exact, Ledgers
<1>3. KeptFiles = opened
  BY <1>2 DEF KeptFiles, IInv, TypeOK
<1> QED
  BY <1>1, <1>3 DEF Report, workerVars, Abstract!Report, KeptFiles

LEMMA StepSimulates == IInv /\ [Next]_vars => [Abstract!Next]_(Abstract!vars)
<1> SUFFICES ASSUME IInv, [Next]_vars PROVE Abstract!Next \/ UNCHANGED Abstract!vars
  OBVIOUS
<1>1. TypeOK
  BY DEF IInv
<1>2. CASE UNCHANGED vars \/ Finished
  BY <1>2, AuditStutter DEF vars, Finished
<1>3. CASE JoinWorkers \/ Progress
  BY <1>3, AuditStutter DEF JoinWorkers, Progress, ProgressCheck, ProgressPrint, workerVars, Running
<1>4. CASE Report
  BY <1>4, ReportReports DEF Abstract!Next
<1>5. CASE \E w \in Workers : Spawn(w)
  BY <1>5, AuditStutter DEF Spawn
<1>6. ASSUME NEW t \in Tasks, Delete(t) PROVE Abstract!Next
  <2>1. Abstract!Vanish(t)
    BY <1>1, <1>6 DEF Delete, workerVars, Abstract!Vanish, TypeOK
  <2> QED
    BY <2>1 DEF Abstract!Next
<1>7. ASSUME NEW w \in Workers, Claim(w) \/ Processed(w) \/ Lock(w) \/ MergeLoad(w)
      PROVE  UNCHANGED Abstract!vars
  BY <1>7, AuditStutter DEF Claim, Processed, Lock, MergeLoad
<1>8. ASSUME NEW w \in Workers, Open(w) PROVE Abstract!Next \/ UNCHANGED Abstract!vars
  <2>1. CASE task[w] \in onDisk
    <3>1. task[w] \in Tasks /\ task[w] \notin opened
      BY <1>8, <2>1 DEF Open, IInv, OpenInv, TypeOK
    <3>2. Abstract!See(task[w])
      BY <1>1, <1>8, <2>1, <3>1 DEF Open, Running, TypeOK, JoinInv, IInv, Abstract!See
    <3> QED
      BY <3>1, <3>2 DEF Abstract!Next
  <2>2. CASE task[w] \notin onDisk
    BY <1>8, <2>2, AuditStutter DEF Open
  <2> QED
    BY <2>1, <2>2
<1>9. ASSUME NEW w \in Workers, FileSize(w) PROVE Abstract!Next \/ UNCHANGED Abstract!vars
  <2>1. CASE task[w] \in onDisk
    BY <1>9, <2>1, AuditStutter DEF FileSize
  <2>2. CASE task[w] \notin onDisk
    BY <1>9, <2>2, TerminationAborts DEF Abstract!Next
  <2> QED
    BY <2>1, <2>2
<1>10. ASSUME NEW w \in Workers, MergeStore(w) PROVE Abstract!Next
  <2>1. mpc \notin {"reported", "aborted"}
    BY <1>10 DEF MergeStore, Running, IInv, JoinInv
  <2> QED
    BY <1>10, <2>1, MergeKeeps DEF Abstract!Next
<1> QED
  BY <1>2, <1>3, <1>4, <1>5, <1>6, <1>7, <1>8, <1>9, <1>10 DEF Next, Main, Worker

(* For every number of threads and files the pool does what the sequential  *)
(* audit does: it prints its report only when all it has seen is kept and   *)
(* no file was passed over, and is terminated only by a file that vanished. *)
THEOREM Implements == Spec => ImplementsAudit
<1>1. Init => Abstract!Init
  <2> SUFFICES ASSUME Init PROVE Abstract!Init
    OBVIOUS
  <2>1. KeptFiles = {}
    BY ZeroEntry DEF Init, KeptFiles, Ledgers
  <2> QED
    BY <2>1 DEF Init, KeptFiles, Abstract!Init
<1> QED
  BY <1>1, Invariance, StepSimulates, PTL DEF Spec, ImplementsAudit, Abstract!Spec
=============================================================================
