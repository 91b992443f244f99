---------------------------- MODULE PipelineProofs ----------------------------
(***************************************************************************)
(* Proofs about Pipeline, for every set of files, every content of them    *)
(* and both builds.                                                        *)
(***************************************************************************)
EXTENDS Pipeline, TLAPS

Early == {"start", "prepare", "modules", "bindings"}
Late  == {"target", "codegen", "link", "emit", "executable"}

\* What exists: one unit per path, each set inside the one before it.
UnitInv ==
  /\ UnitsUnique
  /\ current # None => current \in Ran(units)

\* What the loops have visited and what they still visit.
LoopInv ==
  /\ \A u \in Units : imports[u] \subseteq Imports[u]
  /\ bindings \subseteq Bindings \cup {NoPath}
  /\ current # None => current \in todo
  /\ phase \notin {"prepare", "bindings"} => current = None
  /\ phase = "start" => prepared = {}
  /\ In("prepare") => unprepared = Source /\ todo \subseteq Source /\ prepared = Source \ todo
  /\ phase \notin {"start", "prepare"} => Source \subseteq prepared
  /\ phase = "modules" => prepared = Source
  /\ In("bindings") => todo \subseteq bindings /\ todo \cap prepared = {}
  /\ phase \in {"modules", "resolve"} => todo \subseteq prepared
  /\ phase = "codegen" => todo \subseteq analyzed

\* What has been reported, and what has been built, in each phase.
ErrorInv ==
  /\ phase = "start" => Grouped = {}
  /\ phase \in Early => analyzed = {} /\ \A u \in Units : errors[u] \subseteq {"prepare", "import"}
  /\ phase = "resolve" =>
       \A u \in Units : /\ "codegen" \notin errors[u]
                        /\ u \in todo => errors[u] \subseteq {"prepare", "import"}
  /\ phase \in Early \cup {"resolve"} => llvm = {}
  /\ In("codegen") /\ ~unverified => analyzed \ todo \subseteq llvm
  /\ phase \in {"link", "emit", "executable"} => analyzed \subseteq llvm

IInv == TypeOK /\ UnitInv /\ LoopInv /\ ErrorInv /\ GeneratorInput /\ VerdictHonest /\ StagesStop

------------------------------------------------------------------------------
(* Appending to a sequence without duplicates an element it does not hold   *)
(* keeps it so: what query_CU_at_path does with a path it has not seen.     *)
LEMMA AppendDistinct ==
  ASSUME NEW S, NEW s \in Seq(S), NEW p \in S
  PROVE  /\ Append(s, p) \in Seq(S)
         /\ Ran(Append(s, p)) = Ran(s) \cup {p}
         /\ Distinct(s) /\ p \notin Ran(s) => Distinct(Append(s, p))
<1> DEFINE t == Append(s, p)
<1>1. /\ t \in Seq(S)
      /\ Len(t) = Len(s) + 1
      /\ t[Len(s) + 1] = p
      /\ \A k \in 1 .. Len(s) : t[k] = s[k]
  OBVIOUS
<1>2. Len(s) \in Nat
  OBVIOUS
<1>3. \A k : k \in 1 .. Len(t) <=> k \in 1 .. Len(s) \/ k = Len(s) + 1
  BY <1>1, <1>2
<1> HIDE DEF t
<1>4. Ran(t) = Ran(s) \cup {p}
  BY <1>1, <1>2, <1>3 DEF Ran
<1>5. ASSUME Distinct(s), p \notin Ran(s), NEW j \in 1 .. Len(t), NEW k \in 1 .. Len(t), t[j] = t[k]
      PROVE  j = k
  BY <1>1, <1>2, <1>3, <1>5 DEF Ran, Distinct
<1> QED
  BY <1>1, <1>4, <1>5 DEF Distinct, t

(* A query names the unit of the path and makes no second one.              *)
LEMMA QueryUnique ==
  ASSUME units \in Seq(Units), NEW p \in Units, Query(p)
  PROVE  /\ units' \in Seq(Units)
         /\ Ran(units') = Ran(units) \cup {p}
         /\ Distinct(units) => Distinct(units')
<1>1. CASE p \in Ran(units)
  BY <1>1 DEF Query
<1>2. CASE p \notin Ran(units)
  <2>1. units' = Append(units, p)
    BY <1>2 DEF Query
  <2> QED
    BY <1>2, <2>1, AppendDistinct
<1> QED
  BY <1>1, <1>2

(* An error reported in a unit changes the group of that unit only; the     *)
(* process exits only after printing.                                       *)
LEMMA AddErrorsType ==
  ASSUME errors \in [Units -> SUBSET Kinds], NEW u \in Units, NEW kinds \in SUBSET Kinds,
         NEW next, AddErrors(u, kinds, next), printed \in BOOLEAN, fatal \in BOOLEAN
  PROVE  /\ errors' \in [Units -> SUBSET Kinds]
         /\ errors'[u] = errors[u] \cup kinds
         /\ \A v \in Units \ {u} : errors'[v] = errors[v]
         /\ printed' \in BOOLEAN
         /\ status' = next \/ (status' = "exit" /\ printed' = TRUE)
<1>1. errors' = [errors EXCEPT ![u] = errors[u] \cup kinds]
  BY DEF AddErrors
<1>2. CASE fatal /\ kinds # {}
  BY <1>1, <1>2 DEF AddErrors
<1>3. CASE ~(fatal /\ kinds # {})
  BY <1>1, <1>3 DEF AddErrors
<1> QED
  BY <1>2, <1>3

------------------------------------------------------------------------------
(* The initial states satisfy the invariant.                                *)
LEMMA InitInv == Init => IInv
<1> SUFFICES ASSUME Init PROVE IInv
  OBVIOUS
<1> USE PipelineAssumption DEF Init
<1>1. TypeOK
  <2>1. empty \subseteq Units
    BY DEF Units, Files
  <2>2. units \in Seq(Units)
    OBVIOUS
  <2>3. /\ imports \in [Units -> SUBSET Instructions]
        /\ errors \in [Units -> SUBSET Kinds]
        /\ ran \in [Units -> SUBSET Passes]
    OBVIOUS
  <2> QED
    BY <2>1, <2>2, <2>3 DEF TypeOK
<1>2. Ran(units) = {} /\ Distinct(units)
  BY DEF Ran, Distinct
<1>3. UnitInv
  BY <1>2 DEF UnitInv, UnitsUnique
<1>4. LoopInv
  BY DEF LoopInv, In
<1>5. ErrorInv
  BY DEF ErrorInv, Early, In, Grouped
<1>6. GeneratorInput /\ StagesStop
  BY DEF GeneratorInput, StagesStop
<1>7. VerdictHonest
  BY DEF VerdictHonest
<1> QED
  BY <1>1, <1>3, <1>4, <1>5, <1>6, <1>7 DEF IInv

(* Every step keeps the types.                                              *)
LEMMA TypeStep == TypeOK /\ [Next]_vars => TypeOK'
<1> SUFFICES ASSUME TypeOK, [Next]_vars PROVE TypeOK'
  OBVIOUS
<1> USE PipelineAssumption DEF TypeOK, config, In, Preparing
<1>0. /\ {"prepare"} \in SUBSET Kinds /\ {"import"} \in SUBSET Kinds
      /\ {"codegen"} \in SUBSET Kinds /\ {} \in SUBSET Kinds /\ Passes \subseteq Kinds
      /\ Source \subseteq Units
      /\ Units \ {None} = Units
  BY DEF Kinds, Units, Files
<1>1. CASE NoFiles
  BY <1>1 DEF NoFiles, Die
<1>2. CASE QueryDir
  <2>1. units' \in Seq(Units)
    BY <1>0, <1>2 DEF QueryDir
  <2> QED
    BY <1>0, <1>2, <2>1 DEF QueryDir
<1>3. ASSUME NEW u \in Units, BeginUnit(u) PROVE TypeOK'
  <2>1. CASE Query(u) /\ current' = u /\ status' = status
    BY <1>3, <2>1, QueryUnique DEF BeginUnit
  <2>2. CASE status' = "crash" /\ UNCHANGED <<current, units>>
    BY <1>3, <2>2 DEF BeginUnit
  <2> QED
    BY <1>3, <2>1, <2>2 DEF BeginUnit
<1>4. CASE ParseImport
  <2> PICK i \in Imports[current] \ imports[current] :
        IF i.path \in Files
          THEN /\ Query(i.path)
               /\ imports' = [imports EXCEPT ![current] = @ \cup {i}]
               /\ UNCHANGED <<errors, printed, status>>
          ELSE /\ AddErrors(current, {"prepare"},
                            IF Asserts /\ i.form = "import" THEN "crash" ELSE "running")
               /\ imports' = IF i.form = "import"
                               THEN [imports EXCEPT ![current] = @ \cup {i}] ELSE imports
               /\ UNCHANGED units
    BY <1>4 DEF ParseImport
  <2>1. current \in Units /\ i \in Instructions
    BY <1>4 DEF ParseImport
  <2>2. imports' \in [Units -> SUBSET Instructions]
    BY <2>1
  <2>3. /\ units' \in Seq(Units) /\ errors' \in [Units -> SUBSET Kinds]
        /\ printed' \in BOOLEAN /\ status' \in {"running", "exit", "crash"}
    <3>1. CASE i.path \in Files
      BY <1>4, <2>1, <3>1, QueryUnique DEF ParseImport, Units
    <3>2. CASE i.path \notin Files
      <4>1. AddErrors(current, {"prepare"},
                      IF Asserts /\ i.form = "import" THEN "crash" ELSE "running")
        BY <3>2
      <4> QED
        BY <1>0, <2>1, <3>2, <4>1, AddErrorsType
    <3> QED
      BY <3>1, <3>2
  <2> QED
    BY <1>4, <2>2, <2>3 DEF ParseImport
<1>5. CASE EndUnit
  <2>1. current \in Units
    BY <1>5 DEF EndUnit
  <2>2. /\ errors' \in [Units -> SUBSET Kinds]
        /\ printed' \in BOOLEAN /\ status' \in {"running", "exit", "crash"}
    <3> PICK bad \in SUBSET {"prepare"} :
          AddErrors(current, bad, IF Asserts /\ current \in prepared THEN "crash" ELSE "running")
      BY <1>5 DEF EndUnit
    <3>1. bad \in SUBSET Kinds
      BY <1>0
    <3> QED
      BY <2>1, <3>1, AddErrorsType
  <2> QED
    BY <1>5, <2>1, <2>2 DEF EndUnit
<1>6. CASE Hang
  <2>1. current \in Units /\ AddErrors(current, {"prepare"}, "hang")
    BY <1>6 DEF Hang
  <2>2. /\ errors' \in [Units -> SUBSET Kinds]
        /\ printed' \in BOOLEAN /\ status' \in {"hang", "exit"}
    BY <1>0, <2>1, AddErrorsType
  <2> QED
    BY <1>6, <2>2 DEF Hang
<1>7. CASE Settle
  BY <1>7 DEF Settle
<1>8. CASE EngageBindings
  BY <1>8 DEF EngageBindings
<1>9. CASE BindingsDone
  BY <1>9 DEF BindingsDone
<1>10. ASSUME NEW u \in Units, ResolveModules(u) PROVE TypeOK'
  <2> DEFINE absent == {i \in imports[u] : i.path \in Absent}
             binds  == {i \in imports[u] : i.from = "bind"}
  <2>1. CASE Die("crash")
    BY <2>1 DEF Die
  <2>2. CASE /\ bindings' = bindings \cup {i.path : i \in binds \ absent}
                                     \cup {NoPath : i \in binds \cap absent}
             /\ AddErrors(u, {"import" : i \in absent}, "running")
             /\ todo' = todo \ {u}
             /\ UNCHANGED <<config, phase, units, unprepared, prepared, analyzed,
                            imports, ran, llvm, current, target, unverified>>
    <3>1. \A i \in imports[u] : i.path \in Files \cup Absent
      BY DEF Instructions
    <3>2. bindings' \subseteq Units
      BY <2>2, <3>1 DEF Units
    <3>3. {"import" : i \in absent} \in SUBSET Kinds
      BY <1>0
    <3>4. /\ errors' \in [Units -> SUBSET Kinds]
          /\ printed' \in BOOLEAN /\ status' \in {"running", "exit"}
      BY <2>2, <3>3, AddErrorsType
    <3> QED
      BY <2>2, <3>2, <3>4
  <2> QED
    BY <1>10, <2>1, <2>2 DEF ResolveModules
<1>11. ASSUME NEW u \in Units, Resolve(u) PROVE TypeOK'
  <2> DEFINE ranNow(bad) == {p \in Passes : u \in Grouped \/ bad \cap Earlier[p] = {}}
  <2> PICK bad \in SUBSET Passes :
             /\ ran' = [ran EXCEPT ![u] = ranNow(bad)]
             /\ AddErrors(u, bad \cap ranNow(bad), "running")
    BY <1>11 DEF Resolve
  <2>1. bad \cap ranNow(bad) \in SUBSET Kinds /\ ranNow(bad) \in SUBSET Passes
    BY <1>0
  <2>2. ran' \in [Units -> SUBSET Passes]
    BY <2>1
  <2>3. /\ errors' \in [Units -> SUBSET Kinds]
        /\ printed' \in BOOLEAN /\ status' \in {"running", "exit"}
    BY <2>1, AddErrorsType
  <2> QED
    BY <1>11, <2>2, <2>3 DEF Resolve
<1>12. CASE Verdict
  BY <1>12 DEF Verdict
<1>13. CASE GenerateTargetMachine
  BY <1>13 DEF GenerateTargetMachine
<1>14. ASSUME NEW u \in Units, Codegen(u) PROVE TypeOK'
  <2>1. /\ errors' \in [Units -> SUBSET Kinds]
        /\ printed' \in BOOLEAN /\ status' \in {"running", "exit", "crash"}
    <3> PICK bad \in SUBSET {"codegen"} :
          AddErrors(u, bad, IF target THEN "running" ELSE "crash")
      BY <1>14 DEF Codegen
    <3>1. bad \in SUBSET Kinds
      BY <1>0
    <3> QED
      BY <3>1, AddErrorsType
  <2> QED
    BY <1>14, <2>1 DEF Codegen
<1>15. CASE CodegenDone
  BY <1>15 DEF CodegenDone
<1>16. CASE LinkModules \/ Emit \/ LinkExecutable
  BY <1>16 DEF LinkModules, Emit, LinkExecutable
<1>17. CASE UNCHANGED vars
  BY <1>17 DEF vars
<1> QED
  BY <1>1, <1>2, <1>3, <1>4, <1>5, <1>6, <1>7, <1>8, <1>9, <1>10, <1>11, <1>12, <1>13,
     <1>14, <1>15, <1>16, <1>17
     DEF Next, PrepareStep, ModuleStep, AnalyseStep, GenerateStep, Ended

(* The variables keep their types for every set of files (pipeline.hpp).    *)
THEOREM TypeCorrect == Spec => []TypeOK
<1>1. Init => TypeOK
  BY InitInv DEF IInv
<1> QED
  BY <1>1, TypeStep, PTL DEF Spec

------------------------------------------------------------------------------
(* Every step keeps the units distinct and the sets nested.                 *)
LEMMA UnitStep == TypeOK /\ UnitInv /\ LoopInv /\ [Next]_vars => UnitInv'
<1> SUFFICES ASSUME TypeOK, UnitInv, LoopInv, [Next]_vars PROVE UnitInv'
  OBVIOUS
<1> USE PipelineAssumption DEF UnitInv, UnitsUnique, config
<1>0. units \in Seq(Units) /\ current \in Units \cup {None} /\ imports \in [Units -> SUBSET Instructions]
  BY DEF TypeOK
<1>1. CASE NoFiles
  BY <1>1 DEF NoFiles, Die, Ran, Distinct
<1>2. CASE QueryDir
  BY <1>2 DEF QueryDir, Source, LoopInv, In
<1>3. ASSUME NEW u \in Units, BeginUnit(u) PROVE UnitInv'
  <2>1. CASE Query(u) /\ current' = u /\ status' = status
    BY <1>0, <1>3, <2>1, QueryUnique DEF BeginUnit
  <2>2. CASE status' = "crash" /\ UNCHANGED <<current, units>>
    BY <1>3, <2>2 DEF BeginUnit, Ran, Distinct
  <2> QED
    BY <1>3, <2>1, <2>2 DEF BeginUnit
<1>4. CASE ParseImport
  <2>1. units' = units \/ \E p \in Units : Query(p)
    BY <1>4 DEF ParseImport, Units
  <2>2. Ran(units) \subseteq Ran(units') /\ Distinct(units')
    BY <1>0, <2>1, QueryUnique DEF UnitInv
  <2> QED
    BY <1>4, <2>2 DEF ParseImport
<1>5. CASE EndUnit
  BY <1>5 DEF EndUnit, Ran, Distinct
<1>6. CASE Hang
  BY <1>6 DEF Hang, Ran, Distinct
<1>7. CASE Settle
  BY <1>7 DEF Settle, Ran, Distinct
<1>8. CASE EngageBindings
  BY <1>8 DEF EngageBindings, Ran, Distinct
<1>9. CASE BindingsDone
  BY <1>9 DEF BindingsDone, Ran, Distinct
<1>10. ASSUME NEW u \in Units, ResolveModules(u) PROVE UnitInv'
  BY <1>10 DEF ResolveModules, Die, Ran, Distinct
<1>11. ASSUME NEW u \in Units, Resolve(u) PROVE UnitInv'
  <2>1. u \in prepared
    BY <1>11 DEF Resolve, In, LoopInv
  <2>2. analyzed' \subseteq analyzed \cup {u} /\ analyzed \subseteq analyzed'
    BY <1>11 DEF Resolve
  <2> QED
    BY <1>11, <2>1, <2>2 DEF Resolve, Ran, Distinct
<1>12. CASE Verdict
  BY <1>12 DEF Verdict, Ran, Distinct
<1>13. CASE GenerateTargetMachine
  BY <1>13 DEF GenerateTargetMachine, Ran, Distinct
<1>14. ASSUME NEW u \in Units, Codegen(u) PROVE UnitInv'
  <2>1. u \in analyzed
    BY <1>14 DEF Codegen, In, LoopInv
  <2>2. llvm' \subseteq llvm \cup {u}
    BY <1>14 DEF Codegen
  <2> QED
    BY <1>14, <2>1, <2>2 DEF Codegen, Ran, Distinct
<1>15. CASE CodegenDone
  BY <1>15 DEF CodegenDone, Ran, Distinct
<1>16. CASE LinkModules \/ Emit \/ LinkExecutable
  BY <1>16 DEF LinkModules, Emit, LinkExecutable, Ran, Distinct
<1>17. CASE UNCHANGED vars
  BY <1>17 DEF vars, Ran, Distinct
<1> QED
  BY <1>1, <1>2, <1>3, <1>4, <1>5, <1>6, <1>7, <1>8, <1>9, <1>10, <1>11, <1>12, <1>13,
     <1>14, <1>15, <1>16, <1>17
     DEF Next, PrepareStep, ModuleStep, AnalyseStep, GenerateStep, Ended

(* Every step keeps what the loops have visited in line with what they      *)
(* still visit.                                                             *)
LEMMA LoopStep == TypeOK /\ LoopInv /\ ErrorInv /\ [Next]_vars => LoopInv'
<1> SUFFICES ASSUME TypeOK, LoopInv, ErrorInv, [Next]_vars PROVE LoopInv'
  OBVIOUS
<1> USE PipelineAssumption DEF LoopInv, In, Preparing, config
<1>0. /\ current \in Units \cup {None} /\ imports \in [Units -> SUBSET Instructions]
      /\ Source \subseteq Units
  BY DEF TypeOK, Units, Files
<1>1. CASE NoFiles
  BY <1>1 DEF NoFiles, Die
<1>2. CASE QueryDir
  BY <1>2 DEF QueryDir
<1>3. ASSUME NEW u \in Units, BeginUnit(u) PROVE LoopInv'
  BY <1>3 DEF BeginUnit
<1>4. CASE ParseImport
  <2> PICK i \in Imports[current] \ imports[current] :
        imports' = imports \/ imports' = [imports EXCEPT ![current] = @ \cup {i}]
    BY <1>4 DEF ParseImport
  <2>1. \A u \in Units : imports'[u] \subseteq Imports[u]
    BY <1>0, <1>4 DEF ParseImport
  <2> QED
    BY <1>4, <2>1 DEF ParseImport
<1>5. CASE EndUnit
  <2>1. current \in Units /\ current \in todo
    BY <1>0, <1>5 DEF EndUnit
  <2>2. CASE status' = "running"
    BY <1>5, <2>1, <2>2 DEF EndUnit
  <2>3. CASE status' # "running"
    BY <1>5, <2>1, <2>3 DEF EndUnit
  <2> QED
    BY <2>2, <2>3
<1>6. CASE Hang
  BY <1>6 DEF Hang, AddErrors
<1>7. CASE Settle
  <2>1. unprepared' = {}
    BY <1>7 DEF Settle
  <2> QED
    BY <1>7, <2>1 DEF Settle
<1>8. CASE EngageBindings
  <2>1. Source \cap (Bindings \cup {NoPath}) = {}
    BY DEF Files
  <2> QED
    BY <1>8, <2>1 DEF EngageBindings
<1>9. CASE BindingsDone
  BY <1>9 DEF BindingsDone
<1>10. ASSUME NEW u \in Units, ResolveModules(u) PROVE LoopInv'
  <2> DEFINE absent == {i \in imports[u] : i.path \in Absent}
             binds  == {i \in imports[u] : i.from = "bind"}
  <2>1. CASE Die("crash")
    BY <1>10, <2>1 DEF Die, ResolveModules
  <2>2. CASE /\ bindings' = bindings \cup {i.path : i \in binds \ absent}
                                     \cup {NoPath : i \in binds \cap absent}
             /\ todo' = todo \ {u}
             /\ UNCHANGED <<config, phase, units, unprepared, prepared, analyzed,
                            imports, ran, llvm, current, target, unverified>>
    <3>1. \A i \in binds \ absent : i.path \in Bindings
      BY <1>0 DEF Instructions
    <3>2. bindings' \subseteq Bindings \cup {NoPath}
      BY <2>2, <3>1
    <3> QED
      BY <1>10, <2>2, <3>2 DEF ResolveModules
  <2> QED
    BY <1>10, <2>1, <2>2 DEF ResolveModules
<1>11. ASSUME NEW u \in Units, Resolve(u) PROVE LoopInv'
  BY <1>11 DEF Resolve
<1>12. CASE Verdict
  BY <1>12 DEF Verdict
<1>13. CASE GenerateTargetMachine
  BY <1>13 DEF GenerateTargetMachine
<1>14. ASSUME NEW u \in Units, Codegen(u) PROVE LoopInv'
  BY <1>14 DEF Codegen
<1>15. CASE CodegenDone
  BY <1>15 DEF CodegenDone
<1>16. CASE LinkModules \/ Emit \/ LinkExecutable
  BY <1>16 DEF LinkModules, Emit, LinkExecutable
<1>17. CASE UNCHANGED vars
  BY <1>17 DEF vars
<1> QED
  BY <1>1, <1>2, <1>3, <1>4, <1>5, <1>6, <1>7, <1>8, <1>9, <1>10, <1>11, <1>12, <1>13,
     <1>14, <1>15, <1>16, <1>17
     DEF Next, PrepareStep, ModuleStep, AnalyseStep, GenerateStep, Ended

(* A step reports in one unit errors of the given kinds at most, and an     *)
(* exit has printed everything.                                             *)
Reports(u, kinds) ==
  /\ errors[u] \subseteq errors'[u]
  /\ errors'[u] \subseteq errors[u] \cup kinds
  /\ \A v \in Units \ {u} : errors'[v] = errors[v]
  /\ status' = "exit" => printed' = TRUE

(* What add_error does to the groups, in the shape the next proofs need it. *)
LEMMA ErrorsOf ==
  ASSUME TypeOK, NEW u \in Units, NEW kinds \in SUBSET Kinds, NEW next, next # "exit",
         AddErrors(u, kinds, next)
  PROVE  Reports(u, kinds) /\ status' \in {next, "exit"}
<1>1. /\ errors \in [Units -> SUBSET Kinds]
      /\ printed \in BOOLEAN /\ fatal \in BOOLEAN
  BY DEF TypeOK
<1>2. /\ errors'[u] = errors[u] \cup kinds
      /\ \A v \in Units \ {u} : errors'[v] = errors[v]
      /\ status' = next \/ (status' = "exit" /\ printed' = TRUE)
  BY <1>1, AddErrorsType
<1> QED
  BY <1>2 DEF Reports

(* Preparing a unit reports errors of the preparation only.                 *)
LEMMA PrepareErrors ==
  ASSUME TypeOK, ParseImport \/ EndUnit \/ Hang
  PROVE  /\ current \in Units /\ Reports(current, {"prepare"})
         /\ status' \in {"running", "crash", "hang", "exit"}
         /\ phase' = phase /\ UNCHANGED <<analyzed, ran, llvm, check>>
<1> USE DEF config, Preparing, In
<1>0. {"prepare"} \in SUBSET Kinds /\ {} \in SUBSET Kinds
  BY DEF Kinds
<1>1. CASE ParseImport
  <2>1. current \in Units /\ phase' = phase /\ UNCHANGED <<analyzed, ran, llvm, check>>
    BY <1>1 DEF ParseImport, TypeOK
  <2> PICK i \in Imports[current] \ imports[current] :
       IF i.path \in Files
         THEN UNCHANGED <<errors, printed, status>>
         ELSE AddErrors(current, {"prepare"},
                        IF Asserts /\ i.form = "import" THEN "crash" ELSE "running")
    BY <1>1 DEF ParseImport
  <2>2. CASE i.path \in Files
    BY <1>1, <2>1, <2>2 DEF ParseImport, Reports
  <2>3. CASE i.path \notin Files
    <3> DEFINE next == IF Asserts /\ i.form = "import" THEN "crash" ELSE "running"
    <3>1. AddErrors(current, {"prepare"}, next)
      BY <2>3
    <3>2. next \in {"crash", "running"}
      OBVIOUS
    <3> HIDE DEF next
    <3> QED
      BY <1>0, <2>1, <3>1, <3>2, ErrorsOf
  <2> QED
    BY <2>2, <2>3
<1>2. CASE EndUnit
  <2>1. current \in Units /\ phase' = phase /\ UNCHANGED <<analyzed, ran, llvm, check>>
    BY <1>2 DEF EndUnit, TypeOK
  <2> DEFINE next == IF Asserts /\ current \in prepared THEN "crash" ELSE "running"
  <2>2. AddErrors(current, {"prepare"}, next) \/ AddErrors(current, {}, next)
    <3> PICK bad \in SUBSET {"prepare"} : AddErrors(current, bad, next)
      BY <1>2 DEF EndUnit
    <3>1. bad = {"prepare"} \/ bad = {}
      OBVIOUS
    <3> QED
      BY <3>1
  <2>3. next \in {"crash", "running"}
    OBVIOUS
  <2> HIDE DEF next
  <2>4. status' \in {"running", "crash", "hang", "exit"}
    BY <1>0, <2>1, <2>2, <2>3, ErrorsOf
  <2>5. Reports(current, {}) => Reports(current, {"prepare"})
    BY DEF Reports
  <2>6. Reports(current, {"prepare"})
    BY <1>0, <2>1, <2>2, <2>3, <2>5, ErrorsOf
  <2> QED
    BY <2>1, <2>4, <2>6
<1>3. CASE Hang
  <2>1. /\ current \in Units /\ AddErrors(current, {"prepare"}, "hang")
        /\ phase' = phase /\ UNCHANGED <<analyzed, ran, llvm, check>>
    BY <1>3 DEF Hang, TypeOK
  <2> QED
    BY <1>0, <2>1, ErrorsOf
<1> QED
  BY <1>1, <1>2, <1>3

(* The module resolver ends the process, or reports errors of imports only. *)
LEMMA ModuleErrors ==
  ASSUME TypeOK, NEW u \in Units, ResolveModules(u)
  PROVE  /\ Reports(u, {"import"})
         /\ status' \in {"running", "crash", "exit"}
         /\ phase' = phase /\ UNCHANGED <<analyzed, ran, llvm, check>>
<1> DEFINE kinds == {"import" : i \in {j \in imports[u] : j.path \in Absent}}
<1> USE DEF config
<1>1. CASE Die("crash")
  BY <1>1 DEF Die, Reports
<1>2. CASE /\ AddErrors(u, kinds, "running")
           /\ UNCHANGED <<config, phase, analyzed, ran, llvm>>
  <2>1. kinds \subseteq {"import"}
    OBVIOUS
  <2>2. kinds \in SUBSET Kinds
    BY DEF Kinds
  <2> HIDE DEF kinds
  <2>3. Reports(u, kinds) => Reports(u, {"import"})
    BY <2>1 DEF Reports
  <2>4. Reports(u, kinds) /\ status' \in {"running", "exit"}
    BY <1>2, <2>2, ErrorsOf
  <2> QED
    BY <1>2, <2>3, <2>4
<1> QED
  BY <1>1, <1>2 DEF ResolveModules

(* A step of the resolver: which passes ran and what they reported.         *)
LEMMA ResolveErrors ==
  ASSUME TypeOK, NEW u \in Units, Resolve(u)
  PROVE  \E bad \in SUBSET Passes :
           LET ranNow == {p \in Passes : u \in Grouped \/ bad \cap Earlier[p] = {}} IN
           /\ errors'[u] = errors[u] \cup (bad \cap ranNow)
           /\ ran'[u] = ranNow
           /\ \A v \in Units \ {u} : errors'[v] = errors[v] /\ ran'[v] = ran[v]
           /\ Reports(u, Passes) /\ status' \in {"running", "exit"}
<1> DEFINE ranNow(bad) == {p \in Passes : u \in Grouped \/ bad \cap Earlier[p] = {}}
<1> PICK bad \in SUBSET Passes :
           /\ ran' = [ran EXCEPT ![u] = ranNow(bad)]
           /\ AddErrors(u, bad \cap ranNow(bad), "running")
  BY DEF Resolve
<1>1. bad \cap ranNow(bad) \in SUBSET Kinds
  BY DEF Kinds
<1>2. ran \in [Units -> SUBSET Passes]
  BY DEF TypeOK
<1>3. ran'[u] = ranNow(bad) /\ \A v \in Units \ {u} : ran'[v] = ran[v]
  BY <1>2
<1>4. /\ errors'[u] = errors[u] \cup (bad \cap ranNow(bad))
      /\ \A v \in Units \ {u} : errors'[v] = errors[v]
      /\ status' = "running" \/ (status' = "exit" /\ printed' = TRUE)
  BY <1>1, AddErrorsType DEF TypeOK
<1>5. Reports(u, Passes)
  BY <1>4 DEF Reports
<1> QED
  BY <1>3, <1>4, <1>5

(* A step of the generator: only errors of its own, and a module only for   *)
(* the unit at hand.                                                        *)
LEMMA CodegenErrors ==
  ASSUME TypeOK, NEW u \in Units, Codegen(u)
  PROVE  /\ Reports(u, {"codegen"})
         /\ status' \in {"running", "crash", "exit"}
         /\ llvm \subseteq llvm'
         /\ status' = "running" /\ ~unverified' => ~unverified /\ u \in llvm'
<1> DEFINE next == IF target THEN "running" ELSE "crash"
<1>1. AddErrors(u, {"codegen"}, next) \/ AddErrors(u, {}, next)
  <2> PICK bad \in SUBSET {"codegen"} : AddErrors(u, bad, next)
    BY DEF Codegen
  <2>1. bad = {"codegen"} \/ bad = {}
    OBVIOUS
  <2> QED
    BY <2>1
<1>2. {"codegen"} \in SUBSET Kinds /\ {} \in SUBSET Kinds
  BY DEF Kinds
<1>3. next \in {"running", "crash"}
  OBVIOUS
<1> HIDE DEF next
<1>4. PICK verified \in BOOLEAN :
       /\ llvm' = IF verified /\ status' = "running" THEN llvm \cup {u} ELSE llvm
       /\ unverified' = (unverified \/ ~verified)
  BY DEF Codegen
<1>5. status' = "running" /\ ~unverified' => ~unverified /\ u \in llvm'
  <2>1. unverified \in BOOLEAN
    BY DEF TypeOK
  <2> QED
    BY <1>4, <2>1
<1>6. llvm \subseteq llvm'
  BY <1>4
<1>7. Reports(u, {}) => Reports(u, {"codegen"})
  BY DEF Reports
<1>8. Reports(u, {"codegen"}) /\ status' \in {"running", "crash", "exit"}
  BY <1>1, <1>2, <1>3, <1>7, ErrorsOf
<1> QED
  BY <1>5, <1>6, <1>8

------------------------------------------------------------------------------
(* Every step keeps the reports and the modules in line with the phase.     *)
LEMMA ErrorStep == TypeOK /\ LoopInv /\ ErrorInv /\ [Next]_vars => ErrorInv'
<1> SUFFICES ASSUME TypeOK, LoopInv, ErrorInv, [Next]_vars PROVE ErrorInv'
  OBVIOUS
<1> USE PipelineAssumption DEF ErrorInv, Early, In, config
<1>1. CASE NoFiles
  BY <1>1 DEF NoFiles, Die, Grouped
<1>2. CASE QueryDir
  BY <1>2 DEF QueryDir, Grouped
<1>3. ASSUME NEW u \in Units, BeginUnit(u) PROVE ErrorInv'
  BY <1>3 DEF BeginUnit, Preparing
<1>4. CASE ParseImport \/ EndUnit \/ Hang
  <2>1. phase \in {"prepare", "bindings"}
    BY <1>4 DEF ParseImport, EndUnit, Hang, Preparing
  <2> QED
    BY <1>4, <2>1, PrepareErrors DEF Reports
<1>7. CASE Settle
  BY <1>7 DEF Settle
<1>8. CASE EngageBindings
  BY <1>8 DEF EngageBindings
<1>9. CASE BindingsDone
  BY <1>9 DEF BindingsDone
<1>10. ASSUME NEW u \in Units, ResolveModules(u) PROVE ErrorInv'
  <2>1. phase = "modules"
    BY <1>10 DEF ResolveModules
  <2> QED
    BY <1>10, <2>1, ModuleErrors DEF Reports
<1>11. ASSUME NEW u \in Units, Resolve(u) PROVE ErrorInv'
  <2>1. phase = "resolve" /\ phase' = phase /\ llvm' = llvm /\ todo' = todo \ {u}
    BY <1>11 DEF Resolve
  <2>2. "codegen" \notin Passes
    BY DEF Passes
  <2> QED
    BY <1>11, <2>1, <2>2, ResolveErrors DEF Reports
<1>12. CASE Verdict
  BY <1>12 DEF Verdict
<1>13. CASE GenerateTargetMachine
  BY <1>13 DEF GenerateTargetMachine
<1>14. ASSUME NEW u \in Units, Codegen(u) PROVE ErrorInv'
  <2>1. /\ phase = "codegen" /\ phase' = phase /\ status = "running"
        /\ analyzed' = analyzed /\ todo' = todo \ {u}
    BY <1>14 DEF Codegen
  <2>2. In("codegen")' /\ ~unverified' => analyzed' \ todo' \subseteq llvm'
    <3> SUFFICES ASSUME status' = "running", ~unverified' PROVE analyzed' \ todo' \subseteq llvm'
      OBVIOUS
    <3>1. ~unverified /\ u \in llvm' /\ llvm \subseteq llvm'
      BY <1>14, CodegenErrors
    <3>2. analyzed \ todo \subseteq llvm
      BY <2>1, <3>1
    <3> QED
      BY <2>1, <3>1, <3>2
  <2> QED
    BY <2>1, <2>2
<1>15. CASE CodegenDone
  BY <1>15 DEF CodegenDone
<1>16. CASE LinkModules \/ Emit \/ LinkExecutable
  BY <1>16 DEF LinkModules, Emit, LinkExecutable
<1>17. CASE UNCHANGED vars
  BY <1>17 DEF vars, Grouped
<1> QED
  BY <1>1, <1>2, <1>3, <1>4, <1>7, <1>8, <1>9, <1>10, <1>11, <1>12, <1>13,
     <1>14, <1>15, <1>16, <1>17
     DEF Next, PrepareStep, ModuleStep, AnalyseStep, GenerateStep, Ended

(* A step that leaves the phase out of the back end changes nothing about   *)
(* the generator's input; the verdict opens the back end on a clean front   *)
(* end, and the back end adds errors of its own only.                       *)
LEMMA GeneratorStep ==
  TypeOK /\ UnitInv /\ LoopInv /\ ErrorInv /\ GeneratorInput /\ [Next]_vars => GeneratorInput'
<1> SUFFICES ASSUME TypeOK, UnitInv, LoopInv, ErrorInv, GeneratorInput, [Next]_vars
             PROVE  GeneratorInput'
  OBVIOUS
<1> DEFINE Back == {"target", "codegen", "link", "emit", "executable"}
<1> USE DEF In, Preparing, config
<1>1. CASE NoFiles \/ QueryDir \/ Settle \/ EngageBindings \/ BindingsDone \/ \E u \in Units : BeginUnit(u)
  <2>1. phase' \notin Back
    BY <1>1 DEF NoFiles, Die, QueryDir, Settle, EngageBindings, BindingsDone, BeginUnit
  <2> QED
    BY <2>1 DEF GeneratorInput
<1>2. CASE ParseImport \/ EndUnit \/ Hang \/ \E u \in Units : ResolveModules(u) \/ Resolve(u)
  <2>1. phase' \notin Back
    BY <1>2 DEF ParseImport, EndUnit, Hang, ResolveModules, Die, Resolve
  <2> QED
    BY <2>1 DEF GeneratorInput
<1>3. CASE Verdict
  <2>1. CASE phase' \notin Back
    BY <2>1 DEF GeneratorInput
  <2>2. CASE phase' \in Back
    <3>1. Grouped = {} /\ prepared \ analyzed = {} /\ UNCHANGED <<errors, analyzed, prepared>>
      BY <1>3, <2>2 DEF Verdict
    <3>2. FrontErrors' = {}
      BY <3>1 DEF Grouped, FrontErrors
    <3>3. analyzed = prepared /\ Source \subseteq prepared
      BY <1>3, <3>1 DEF Verdict, UnitInv, UnitsUnique, LoopInv
    <3> QED
      BY <3>1, <3>2, <3>3 DEF GeneratorInput
  <2> QED
    BY <2>1, <2>2
<1>4. ASSUME NEW u \in Units, Codegen(u) PROVE GeneratorInput'
  <2>1. phase = "codegen" /\ UNCHANGED <<analyzed, prepared>>
    BY <1>4 DEF Codegen
  <2>2. FrontErrors = {} /\ analyzed = prepared /\ Source \subseteq prepared
    BY <2>1 DEF GeneratorInput
  <2>3. FrontErrors' = {}
    BY <1>4, <2>2, CodegenErrors DEF FrontErrors, FrontEnd, Reports
  <2> QED
    BY <2>1, <2>2, <2>3 DEF GeneratorInput
<1>5. CASE GenerateTargetMachine \/ CodegenDone \/ LinkModules \/ Emit \/ LinkExecutable
  BY <1>5 DEF GenerateTargetMachine, CodegenDone, LinkModules, Emit, LinkExecutable,
              GeneratorInput, FrontErrors
<1>6. CASE UNCHANGED vars
  BY <1>6 DEF vars, GeneratorInput, FrontErrors
<1> QED
  BY <1>1, <1>2, <1>3, <1>4, <1>5, <1>6
     DEF Next, PrepareStep, ModuleStep, AnalyseStep, GenerateStep, Ended

(* Every step keeps the verdict honest: a step that ends the process with   *)
(* errors has printed them, and the two steps that end it with success come *)
(* after everything their mode asks for.                                    *)
LEMMA VerdictStep == IInv /\ [Next]_vars => VerdictHonest'
<1> SUFFICES ASSUME IInv, [Next]_vars PROVE VerdictHonest'
  OBVIOUS
<1> USE DEF IInv, In, Preparing, config
<1>1. CASE NoFiles
  <2>1. status' = "failure" /\ FrontErrors' = FrontErrors /\ Grouped = {}
    BY <1>1 DEF NoFiles, Die, ErrorInv, FrontErrors
  <2>2. FrontErrors \subseteq Grouped
    BY DEF FrontErrors, Grouped
  <2> QED
    BY <2>1, <2>2 DEF VerdictHonest
<1>2. CASE QueryDir \/ Settle \/ EngageBindings \/ BindingsDone \/ GenerateTargetMachine
      \/ \E u \in Units : BeginUnit(u)
  <2>1. status' \in {"running", "crash"}
    BY <1>2 DEF QueryDir, Settle, EngageBindings, BindingsDone, GenerateTargetMachine, BeginUnit
  <2> QED
    BY <2>1 DEF VerdictHonest
<1>3. CASE ParseImport \/ EndUnit \/ Hang
  <2>1. status' \notin {"success", "failure"} /\ (status' = "exit" => printed')
    BY <1>3, PrepareErrors DEF Reports
  <2> QED
    BY <2>1 DEF VerdictHonest
<1>4. CASE \E u \in Units : ResolveModules(u) \/ Resolve(u) \/ Codegen(u)
  <2>1. status' \notin {"success", "failure"} /\ (status' = "exit" => printed')
    BY <1>4, ModuleErrors, ResolveErrors, CodegenErrors DEF Reports
  <2> QED
    BY <2>1 DEF VerdictHonest
<1>5. CASE Verdict
  <2>1. CASE status' = "success"
    <3>1. /\ check /\ Grouped = {} /\ prepared \ analyzed = {}
          /\ UNCHANGED <<errors, analyzed, check>> /\ Source \subseteq prepared
      BY <1>5, <2>1 DEF Verdict, LoopInv
    <3>2. FrontErrors' = {}
      BY <3>1 DEF Grouped, FrontErrors
    <3>3. Source \subseteq analyzed'
      BY <3>1
    <3> QED
      BY <2>1, <3>1, <3>2, <3>3 DEF VerdictHonest
  <2>2. CASE status' # "success"
    BY <1>5, <2>2 DEF Verdict, VerdictHonest
  <2> QED
    BY <2>1, <2>2
<1>6. CASE CodegenDone
  BY <1>6 DEF CodegenDone, VerdictHonest
<1>7. CASE LinkModules \/ Emit \/ LinkExecutable
  <2>1. /\ phase \in {"link", "emit", "executable"}
        /\ UNCHANGED <<errors, analyzed, llvm, check>>
    BY <1>7 DEF LinkModules, Emit, LinkExecutable
  <2>2. /\ FrontErrors = {} /\ Source \subseteq analyzed /\ analyzed \subseteq llvm
    BY <2>1 DEF GeneratorInput, ErrorInv
  <2>3. FrontErrors' = {}
    BY <2>1, <2>2 DEF FrontErrors
  <2> QED
    BY <2>1, <2>2, <2>3 DEF VerdictHonest
<1>8. CASE UNCHANGED vars
  BY <1>8 DEF vars, VerdictHonest, FrontErrors
<1> QED
  BY <1>1, <1>2, <1>3, <1>4, <1>5, <1>6, <1>7, <1>8
     DEF Next, PrepareStep, ModuleStep, AnalyseStep, GenerateStep, Ended

(* Every step keeps the order of the resolver's passes: a step of the       *)
(* resolver stops at the first pass that reports, unless the unit had       *)
(* reports of the preparation; no other step runs a pass, and none takes    *)
(* a report back.                                                           *)
LEMMA StagesStep == IInv /\ [Next]_vars => StagesStop'
<1> SUFFICES ASSUME IInv, [Next]_vars, NEW v \in Units, NEW p \in ran'[v],
                    errors'[v] \cap Earlier[p] # {}
             PROVE  errors'[v] \cap {"prepare", "import"} # {}
  BY DEF StagesStop
<1> USE DEF config
<1>0. p \in ran[v] /\ errors[v] \cap Earlier[p] # {} => errors[v] \cap {"prepare", "import"} # {}
  BY DEF IInv, StagesStop
<1>1. ASSUME NEW u \in Units, Resolve(u) PROVE errors'[v] \cap {"prepare", "import"} # {}
  <2>1. CASE v # u
    BY <1>0, <1>1, <2>1, ResolveErrors DEF IInv
  <2>2. CASE v = u
    <3>1. errors[u] \subseteq {"prepare", "import"}
      BY <1>1 DEF Resolve, In, IInv, ErrorInv
    <3>2. PICK bad \in SUBSET Passes :
            LET ranNow == {q \in Passes : u \in Grouped \/ bad \cap Earlier[q] = {}} IN
            errors'[u] = errors[u] \cup (bad \cap ranNow) /\ ran'[u] = ranNow
      BY <1>1, ResolveErrors DEF IInv
    <3>3. CASE u \in Grouped
      <4>1. errors[u] \cap {"prepare", "import"} # {}
        BY <3>1, <3>3 DEF Grouped
      <4> QED
        BY <2>2, <3>2, <4>1
    <3>4. CASE u \notin Grouped
      <4>1. errors[u] = {} /\ bad \cap Earlier[p] = {} /\ errors'[u] \subseteq bad
        BY <2>2, <3>2, <3>4 DEF Grouped
      <4> QED
        BY <2>2, <4>1
    <3> QED
      BY <3>3, <3>4
  <2> QED
    BY <2>1, <2>2
<1>2. CASE ran' = ran /\ errors' = errors
  BY <1>0, <1>2
<1>3. ASSUME NEW u \in Units, NEW K, Reports(u, K), K \cap Passes = {}, ran' = ran
      PROVE  errors'[v] \cap {"prepare", "import"} # {}
  <2>1. Earlier[p] \subseteq Passes
    <3>1. p \in Passes
      BY <1>3 DEF IInv, TypeOK
    <3> QED
      BY <3>1 DEF Earlier, Passes
  <2>2. errors'[v] \cap Earlier[p] \subseteq errors[v] \cap Earlier[p] /\ errors[v] \subseteq errors'[v]
    BY <1>3, <2>1 DEF Reports
  <2> QED
    BY <1>0, <1>3, <2>2
<1>4. CASE ParseImport \/ EndUnit \/ Hang
  <2>1. current \in Units /\ Reports(current, {"prepare"}) /\ ran' = ran
    BY <1>4, PrepareErrors DEF IInv
  <2>2. {"prepare"} \cap Passes = {}
    BY DEF Passes
  <2> QED
    BY <1>3, <2>1, <2>2
<1>5. ASSUME NEW u \in Units, ResolveModules(u) PROVE errors'[v] \cap {"prepare", "import"} # {}
  <2>1. Reports(u, {"import"}) /\ ran' = ran
    BY <1>5, ModuleErrors DEF IInv
  <2>2. {"import"} \cap Passes = {}
    BY DEF Passes
  <2> QED
    BY <1>3, <2>1, <2>2
<1>6. ASSUME NEW u \in Units, Codegen(u) PROVE errors'[v] \cap {"prepare", "import"} # {}
  <2>1. Reports(u, {"codegen"}) /\ ran' = ran
    BY <1>6, CodegenErrors DEF IInv, Codegen
  <2>2. {"codegen"} \cap Passes = {}
    BY DEF Passes
  <2> QED
    BY <1>3, <2>1, <2>2
<1>7. CASE NoFiles \/ QueryDir \/ Settle \/ EngageBindings \/ BindingsDone \/ GenerateTargetMachine
      \/ \E u \in Units : BeginUnit(u)
  BY <1>2, <1>7 DEF NoFiles, Die, QueryDir, Settle, EngageBindings, BindingsDone,
                    GenerateTargetMachine, BeginUnit
<1>8. CASE Verdict \/ CodegenDone \/ LinkModules \/ Emit \/ LinkExecutable \/ UNCHANGED vars
  BY <1>2, <1>8 DEF Verdict, CodegenDone, LinkModules, Emit, LinkExecutable, vars
<1> QED
  BY <1>1, <1>4, <1>5, <1>6, <1>7, <1>8
     DEF Next, PrepareStep, ModuleStep, AnalyseStep, GenerateStep, Ended

------------------------------------------------------------------------------
(* The invariant: what exists, what the loops visit, what is reported, and  *)
(* the promises that rest on them (start_compilation).                      *)
THEOREM Invariance == Spec => []IInv
<1>1. IInv /\ [Next]_vars => IInv'
  <2> SUFFICES ASSUME IInv, [Next]_vars PROVE IInv'
    OBVIOUS
  <2>1. TypeOK' /\ UnitInv' /\ LoopInv' /\ ErrorInv' /\ GeneratorInput'
    BY TypeStep, UnitStep, LoopStep, ErrorStep, GeneratorStep DEF IInv
  <2>2. VerdictHonest' /\ StagesStop'
    BY VerdictStep, StagesStep
  <2> QED
    BY <2>1, <2>2 DEF IInv
<1> QED
  BY <1>1, InitInv, PTL DEF Spec

(* One unit per path and nested sets, for every set of files                *)
(* (query_CU_at_path).                                                      *)
THEOREM OneUnitPerPath == Spec => []UnitsUnique
<1>1. IInv => UnitsUnique
  BY DEF IInv, UnitInv
<1> QED
  BY <1>1, Invariance, PTL

(* The assertion of prepare_cu never fails: no unit is prepared twice.      *)
THEOREM NeverPreparedTwice == Spec => []PrepareOnce
<1>1. IInv => PrepareOnce
  BY DEF IInv, LoopInv, PrepareOnce, Preparing, In
<1> QED
  BY <1>1, Invariance, PTL

(* The generator sees a compilation whose front end is clean, and all of it *)
(* (the gates of start_compilation).                                        *)
THEOREM CleanGenerator == Spec => []GeneratorInput
<1>1. IInv => GeneratorInput
  BY DEF IInv
<1> QED
  BY <1>1, Invariance, PTL

(* The compiler's answer is true: a success is complete and a failure with  *)
(* errors has printed them (start_compilation, compiler_failed).            *)
THEOREM HonestVerdict == Spec => []VerdictHonest
<1>1. IInv => VerdictHonest
  BY DEF IInv
<1> QED
  BY <1>1, Invariance, PTL

(* The resolver stops at the pass that fails, except on units that already  *)
(* had errors (resolve_cu).                                                 *)
THEOREM StoppedStages == Spec => []StagesStop
<1>1. IInv => StagesStop
  BY DEF IInv
<1> QED
  BY <1>1, Invariance, PTL

------------------------------------------------------------------------------
(* What becomes of the bindings: every one that a visited source file       *)
(* imports is queued, and every one queued is prepared, unless an error has *)
(* been reported or a blank binding is queued.                              *)
Broken == Grouped # {} \/ bindings \cap empty # {}
Queued(u) == \A i \in imports[u] : i.from = "bind" => i.path \in bindings

BindInv ==
  /\ NoPath \in bindings => Grouped # {}
  /\ phase = "modules" => Broken \/ \A u \in prepared \ todo : Queued(u)
  /\ phase \in {"bindings", "resolve"} => Broken \/ \A u \in Source : Queued(u)
  /\ phase = "bindings" => Broken \/ bindings \subseteq todo \cup prepared
  /\ phase = "resolve" => Broken \/ bindings \subseteq prepared
  /\ BindingsPrepared

(* An error is never taken back, nor a binding from the queue: a build that *)
(* is broken stays so.                                                      *)
LEMMA StaysBroken ==
  ASSUME NEW u \in Units, NEW kinds, Reports(u, kinds),
         bindings \subseteq bindings', empty' = empty
  PROVE  /\ Grouped # {} => Grouped' # {}
         /\ Broken => Broken'
<1>1. \A v \in Units : errors[v] \subseteq errors'[v]
  BY DEF Reports
<1>2. Grouped # {} => Grouped' # {}
  BY <1>1 DEF Grouped
<1> QED
  BY <1>2 DEF Broken

(* Every step of the preparation keeps it: a source file's imports no       *)
(* longer change when they have been queued, and a binding leaves the loop  *)
(* prepared, blank, absent or with an error.                                *)
LEMMA PrepareBind ==
  ASSUME IInv, BindInv, ParseImport \/ EndUnit \/ Hang
  PROVE  BindInv'
<1> USE DEF Preparing, In, config
<1>0. /\ current \in Units /\ Reports(current, {"prepare"}) /\ phase' = phase
      /\ UNCHANGED <<bindings, empty>> /\ phase \in {"prepare", "bindings"}
  BY PrepareErrors DEF IInv, ParseImport, EndUnit, Hang
<1>1. (Grouped # {} => Grouped' # {}) /\ (Broken => Broken')
  BY <1>0, StaysBroken
<1>2. NoPath \in bindings' => Grouped' # {}
  BY <1>0, <1>1 DEF BindInv
<1>3. phase' \notin {"modules", "resolve"} /\ BindingsPrepared'
  BY <1>0 DEF BindingsPrepared
<1>4. CASE phase = "prepare"
  BY <1>0, <1>2, <1>3, <1>4 DEF BindInv
<1>5. CASE phase = "bindings"
  <2>0. status = "running" /\ current \in todo /\ todo \subseteq bindings
        /\ bindings \subseteq Bindings \cup {NoPath}
    BY <1>5 DEF IInv, LoopInv, ParseImport, EndUnit, Hang
  <2>1. current \notin Source
    BY <2>0, PipelineAssumption DEF Files
  <2>2. \A u \in Source : imports'[u] = imports[u]
    <3>1. imports' = imports \/ \E S : imports' = [imports EXCEPT ![current] = S]
      BY DEF ParseImport, EndUnit, Hang
    <3>2. imports \in [Units -> SUBSET Instructions] /\ Source \subseteq Units
      BY DEF IInv, TypeOK, Units, Files
    <3> QED
      BY <2>1, <3>1, <3>2
  <2>3. Broken' \/ \A u \in Source : Queued(u)'
    BY <1>0, <1>1, <1>5, <2>2 DEF BindInv, Queued
  <2>4. Broken' \/ bindings' \subseteq todo' \cup prepared'
    <3>1. CASE ParseImport \/ Hang
      <4>1. UNCHANGED <<todo, prepared, bindings>>
        BY <3>1 DEF ParseImport, Hang
      <4> QED
        BY <1>1, <1>5, <4>1 DEF BindInv
    <3>2. CASE EndUnit
      <4>1. CASE errors'[current] # {}
        BY <1>0, <4>1 DEF Broken, Grouped
      <4>2. CASE current \in empty \cup {NoPath}
        BY <1>0, <1>1, <2>0, <4>2 DEF Broken, BindInv
      <4>3. CASE errors'[current] = {} /\ current \notin empty \cup {NoPath}
        <5>1. todo' = todo \ {current}
          BY <3>2, <4>3 DEF EndUnit
        <5>2. status' # "exit"
          BY <1>0, <3>2, <4>3 DEF EndUnit, AddErrors, Reports, IInv, TypeOK
        <5>3. prepared' = prepared \cup {current}
          BY <3>2, <5>2 DEF EndUnit
        <5> QED
          BY <1>0, <1>1, <1>5, <5>1, <5>3 DEF BindInv
      <4> QED
        BY <4>1, <4>2, <4>3
    <3> QED
      BY <3>1, <3>2
  <2> QED
    BY <1>0, <1>2, <1>3, <1>5, <2>3, <2>4 DEF BindInv
<1> QED
  BY <1>0, <1>4, <1>5

(* A step of the module resolver queues the bindings of the unit it visits, *)
(* or reports that one has no file.                                         *)
LEMMA ModuleBind ==
  ASSUME IInv, BindInv, NEW u \in Units, ResolveModules(u)
  PROVE  BindInv'
<1> USE DEF In, config
<1> DEFINE absent == {i \in imports[u] : i.path \in Absent}
           binds  == {i \in imports[u] : i.from = "bind"}
<1>0. Reports(u, {"import"}) /\ phase = "modules" /\ phase' = "modules"
  BY ModuleErrors DEF IInv, ResolveModules
<1>1. CASE Die("crash")
  BY <1>0, <1>1 DEF Die, BindInv, Broken, Grouped, Queued, BindingsPrepared
<1>2. CASE /\ bindings' = bindings \cup {i.path : i \in binds \ absent}
                                   \cup {NoPath : i \in binds \cap absent}
           /\ AddErrors(u, {"import" : i \in absent}, "running")
           /\ todo' = todo \ {u}
           /\ UNCHANGED <<config, phase, units, unprepared, prepared, analyzed,
                          imports, ran, llvm, current, target, unverified>>
  <2>1. (Grouped # {} => Grouped' # {}) /\ (Broken => Broken')
    BY <1>0, <1>2, StaysBroken
  <2>2. absent # {} => Grouped' # {}
    <3>1. errors'[u] = errors[u] \cup {"import" : i \in absent}
      BY <1>2 DEF AddErrors, IInv, TypeOK
    <3> QED
      BY <3>1 DEF Grouped
  <2>3. NoPath \in bindings' => Grouped' # {}
    <3>1. \A i \in binds \ absent : i.path \in Files
      BY DEF IInv, TypeOK, Instructions
    <3>2. NoPath \in bindings' => NoPath \in bindings \/ absent # {}
      BY <1>2, <3>1, PipelineAssumption
    <3> QED
      BY <2>1, <2>2, <3>2 DEF BindInv
  <2>4. Broken' \/ \A v \in prepared' \ todo' : Queued(v)'
    <3>1. absent = {} => Queued(u)'
      BY <1>2 DEF Queued
    <3>2. \A v \in Units : Queued(v) => Queued(v)'
      BY <1>2 DEF Queued
    <3>3. prepared' \subseteq Units /\ prepared' \ todo' \subseteq (prepared \ todo) \cup {u}
      BY <1>2 DEF IInv, TypeOK
    <3> QED
      BY <1>0, <2>1, <2>2, <3>1, <3>2, <3>3 DEF BindInv, Broken
  <2> QED
    BY <1>0, <2>3, <2>4 DEF BindInv, BindingsPrepared
<1> QED
  BY <1>1, <1>2 DEF ResolveModules

LEMMA BindStep == IInv /\ BindInv /\ [Next]_vars => BindInv'
<1> SUFFICES ASSUME IInv, BindInv, [Next]_vars PROVE BindInv'
  OBVIOUS
<1> USE DEF In, config
<1>1. CASE NoFiles \/ QueryDir \/ Settle \/ \E u \in Units : BeginUnit(u)
  <2>1. UNCHANGED <<bindings, errors, empty, imports, prepared>>
    BY <1>1 DEF NoFiles, Die, QueryDir, Settle, BeginUnit
  <2>2. UNCHANGED <<phase, todo>> \/ (phase' = "modules" /\ todo' = prepared) \/ phase' = "prepare"
    BY <1>1 DEF NoFiles, Die, QueryDir, Settle, BeginUnit
  <2>3. analyzed' = analyzed
    BY <1>1 DEF NoFiles, Die, QueryDir, Settle, BeginUnit
  <2> QED
    BY <2>1, <2>2, <2>3 DEF BindInv, Broken, Grouped, Queued, BindingsPrepared
<1>2. CASE ParseImport \/ EndUnit \/ Hang
  BY <1>2, PrepareBind
<1>3. ASSUME NEW u \in Units, ResolveModules(u) PROVE BindInv'
  BY <1>3, ModuleBind
<1>4. CASE EngageBindings
  BY <1>4 DEF EngageBindings, IInv, LoopInv, BindInv, Broken, Grouped, Queued, BindingsPrepared
<1>5. CASE BindingsDone
  BY <1>5 DEF BindingsDone, BindInv, Broken, Grouped, Queued, BindingsPrepared
<1>6. ASSUME NEW u \in Units, Resolve(u) PROVE BindInv'
  <2>1. \A v \in Units : errors[v] \subseteq errors'[v]
    BY <1>6, ResolveErrors DEF IInv
  <2>2. (Grouped # {} => Grouped' # {}) /\ UNCHANGED <<bindings, empty, imports, prepared>>
        /\ phase = "resolve" /\ phase' = "resolve"
    BY <1>6, <2>1 DEF Resolve, Grouped
  <2> QED
    BY <2>2 DEF BindInv, Broken, Queued, BindingsPrepared
<1>7. CASE Verdict
  <2>1. /\ phase = "resolve" /\ phase' \in {"resolve", "target"}
        /\ UNCHANGED <<bindings, empty, imports, prepared, errors, analyzed>>
    BY <1>7 DEF Verdict
  <2>2. CASE phase' = "resolve"
    BY <2>1, <2>2 DEF BindInv, Broken, Grouped, Queued, BindingsPrepared
  <2>3. CASE phase' = "target"
    <3>1. Grouped = {} /\ prepared \subseteq analyzed
      BY <1>7, <2>1, <2>3 DEF Verdict
    <3> QED
      BY <2>1, <2>3, <3>1 DEF BindInv, Broken, Grouped, Queued, BindingsPrepared
  <2> QED
    BY <2>1, <2>2, <2>3
<1>8. ASSUME NEW u \in Units, Codegen(u) PROVE BindInv'
  <2>1. Reports(u, {"codegen"})
    BY <1>8, CodegenErrors DEF IInv
  <2>2. /\ UNCHANGED <<bindings, empty, imports, analyzed>>
        /\ phase = "codegen" /\ phase' = "codegen"
    BY <1>8 DEF Codegen
  <2> QED
    BY <2>1, <2>2, StaysBroken DEF BindInv, BindingsPrepared
<1>9. CASE GenerateTargetMachine \/ CodegenDone \/ LinkModules \/ Emit \/ LinkExecutable
  <2>1. /\ UNCHANGED <<bindings, empty, imports, analyzed, errors>>
        /\ phase \in Late /\ phase' \in Late
    BY <1>9 DEF GenerateTargetMachine, CodegenDone, LinkModules, Emit, LinkExecutable, Late
  <2> QED
    BY <2>1 DEF BindInv, BindingsPrepared, Grouped, Late
<1>10. CASE UNCHANGED vars
  BY <1>10 DEF vars, BindInv, Broken, Grouped, Queued, BindingsPrepared
<1> QED
  BY <1>1, <1>2, <1>3, <1>4, <1>5, <1>6, <1>7, <1>8, <1>9, <1>10
     DEF Next, PrepareStep, ModuleStep, AnalyseStep, GenerateStep, Ended

(* No binding is left out of a build that reaches the generator, blank ones *)
(* apart, although the answer of engage_bindings is ignored.                *)
THEOREM BindingsComplete == Spec => []BindingsPrepared
<1>1. Init => BindInv
  BY DEF Init, BindInv, BindingsPrepared
<1>2. BindInv => BindingsPrepared
  BY DEF BindInv
<1> QED
  BY <1>1, <1>2, BindStep, Invariance, PTL DEF Spec

------------------------------------------------------------------------------
(* The stage a unit has completed, as the refinement reads it off the sets. *)
Level(u) == IF u \in llvm THEN 3 ELSE IF u \in analyzed THEN 2 ELSE IF u \in prepared THEN 1 ELSE 0

(* A step that leaves the three sets alone is a stutter of the build or its *)
(* end; it may end in success only when nothing is left halfway.            *)
LEMMA StopSimulates ==
  ASSUME UNCHANGED <<llvm, analyzed, prepared>>, status = "running",
         status' \in Staged!Ends \cup {"running"},
         status' = "success" => analyzed = prepared /\ Source \subseteq analyzed
  PROVE  [Staged!Next]_Staged!vars
<1>1. CASE status' = "running"
  BY <1>1 DEF Staged!vars
<1>2. CASE status' = "success"
  <2>1. \A v \in Units : Level(v) # 1
    BY <1>2 DEF Level
  <2>2. \A v \in Source : Level(v) >= 2
    BY <1>2 DEF Level
  <2>3. Source \subseteq Units
    BY DEF Units, Files
  <2> QED
    BY <1>2, <2>1, <2>2, <2>3 DEF Level, Staged!Next, Staged!Stop, Staged!Succeed
<1>3. CASE status' \in Staged!Ends \ {"success"}
  BY <1>3 DEF Staged!Next, Staged!Stop
<1> QED
  BY <1>1, <1>2, <1>3 DEF Staged!Ends

(* A unit that enters the set of stage n, and no other change, is the build *)
(* moving that unit to stage n.                                             *)
LEMMA LevelUp ==
  ASSUME NEW u \in Units, NEW n, Level(u) = n - 1, Level(u)' = n,
         \A v \in Units \ {u} : Level(v)' = Level(v), status' = status
  PROVE  Staged!To(u, n)
<1> DEFINE lv == [v \in Units |-> Level(v)]
<1>1. lv[u] = n - 1
  OBVIOUS
<1>2. lv' = [lv EXCEPT ![u] = n]
  <2>1. lv' = [v \in Units |-> Level(v)']
    OBVIOUS
  <2> QED
    BY <2>1
<1> QED
  BY <1>1, <1>2 DEF Level, Staged!To

(* Every step of a compilation is a step of the staged build, or leaves it  *)
(* as it is.                                                                *)
LEMMA StepSimulates == IInv /\ [Next]_vars => [Staged!Next]_Staged!vars
<1> SUFFICES ASSUME IInv, [Next]_vars PROVE [Staged!Next]_Staged!vars
  OBVIOUS
<1> USE DEF In, Preparing, config
<1>0. TypeOK /\ LoopInv /\ ErrorInv /\ UnitsUnique /\ GeneratorInput
  BY DEF IInv, UnitInv
<1>1. CASE NoFiles \/ QueryDir \/ Settle \/ EngageBindings \/ BindingsDone \/ GenerateTargetMachine
      \/ CodegenDone \/ \E u \in Units : BeginUnit(u)
  <2>1. /\ UNCHANGED <<llvm, analyzed, prepared>> /\ status = "running"
        /\ status' \in {"running", "failure", "crash"}
    BY <1>1 DEF NoFiles, Die, QueryDir, Settle, EngageBindings, BindingsDone,
                GenerateTargetMachine, CodegenDone, BeginUnit
  <2> QED
    BY <2>1, StopSimulates DEF Staged!Ends
<1>2. CASE ParseImport \/ Hang
  <2>1. UNCHANGED <<llvm, analyzed, prepared>> /\ status = "running"
    BY <1>2 DEF ParseImport, Hang
  <2>2. status' \in {"running", "crash", "hang", "exit"}
    BY <1>0, <1>2, PrepareErrors
  <2> QED
    BY <2>1, <2>2, StopSimulates DEF Staged!Ends
<1>3. CASE EndUnit
  <2>1. /\ current \in Units \ prepared /\ analyzed = {} /\ llvm = {} /\ status = "running"
        /\ UNCHANGED <<analyzed, llvm>>
    BY <1>0, <1>3 DEF EndUnit, TypeOK, LoopInv, ErrorInv, Early
  <2>2. PICK bad \in SUBSET {"prepare"} : AddErrors(current, bad, "running")
    BY <1>3, <2>1 DEF EndUnit
  <2>3. status' \in {"running", "exit"}
    BY <2>2 DEF AddErrors
  <2>4. CASE status' = "exit"
    <3>1. UNCHANGED <<llvm, analyzed, prepared>>
      BY <1>3, <2>1, <2>4 DEF EndUnit
    <3> QED
      BY <2>1, <2>4, <3>1, StopSimulates DEF Staged!Ends
  <2>5. CASE status' = "running"
    <3> PICK u \in Units : u = current
      BY <2>1
    <3>1. prepared' = prepared \cup {u} /\ u \notin prepared
      BY <1>3, <2>1, <2>5 DEF EndUnit
    <3>2. Level(u) = 0 /\ Level(u)' = 1
      BY <2>1, <3>1 DEF Level
    <3>3. \A v \in Units \ {u} : Level(v)' = Level(v)
      BY <2>1, <3>1 DEF Level
    <3>4. Staged!To(u, 1)
      BY <2>1, <2>5, <3>2, <3>3, LevelUp
    <3>5. Staged!Prepare(u)
      BY <2>1, <3>4 DEF Staged!Prepare
    <3> QED
      BY <2>1, <3>5 DEF Staged!Next
  <2> QED
    BY <2>3, <2>4, <2>5
<1>4. ASSUME NEW u \in Units, ResolveModules(u) PROVE [Staged!Next]_Staged!vars
  <2>1. UNCHANGED <<llvm, analyzed, prepared>> /\ status = "running"
    BY <1>4 DEF ResolveModules, Die
  <2>2. status' \in {"running", "crash", "exit"}
    BY <1>0, <1>4, ModuleErrors
  <2> QED
    BY <2>1, <2>2, StopSimulates DEF Staged!Ends
<1>5. ASSUME NEW u \in Units, Resolve(u) PROVE [Staged!Next]_Staged!vars
  <2>1. /\ u \in prepared /\ Source \subseteq prepared /\ llvm = {} /\ status = "running"
        /\ UNCHANGED <<llvm, prepared>>
    BY <1>0, <1>5 DEF Resolve, LoopInv, ErrorInv
  <2>2. status' \in {"running", "exit"}
    BY <1>0, <1>5, ResolveErrors
  <2>3. CASE analyzed' = analyzed
    BY <2>1, <2>2, <2>3, StopSimulates DEF Staged!Ends
  <2>4. CASE analyzed' # analyzed
    <3>1. status' = "running" /\ analyzed' = analyzed \cup {u} /\ u \notin analyzed
      BY <1>5, <2>4 DEF Resolve
    <3>2. Source \subseteq Units
      BY DEF Units, Files
    <3>3. Staged!Analyse(u)
      <4>1. Level(u) = 1 /\ Level(u)' = 2
        BY <2>1, <3>1 DEF Level
      <4>2. \A v \in Units \ {u} : Level(v)' = Level(v)
        BY <2>1, <3>1 DEF Level
      <4>3. Staged!To(u, 2)
        BY <2>1, <3>1, <4>1, <4>2, LevelUp
      <4> QED
        BY <2>1, <3>2, <4>3 DEF Staged!Analyse
    <3> QED
      BY <2>1, <3>3 DEF Staged!Next
  <2> QED
    BY <2>3, <2>4
<1>6. ASSUME NEW u \in Units, Codegen(u) PROVE [Staged!Next]_Staged!vars
  <2>1. /\ u \in analyzed /\ analyzed = prepared /\ Source \subseteq analyzed
        /\ status = "running" /\ UNCHANGED <<analyzed, prepared>>
    BY <1>0, <1>6 DEF Codegen, LoopInv, GeneratorInput
  <2>2. status' \in {"running", "crash", "exit"}
    BY <1>0, <1>6, CodegenErrors
  <2>3. CASE llvm' = llvm
    BY <2>1, <2>2, <2>3, StopSimulates DEF Staged!Ends
  <2>4. CASE llvm' # llvm
    <3>1. status' = "running" /\ llvm' = llvm \cup {u} /\ u \notin llvm
      BY <1>6, <2>4 DEF Codegen
    <3>2. Source \subseteq Units
      BY DEF Units, Files
    <3>3. Staged!Generate(u)
      <4>1. Level(u) = 2 /\ Level(u)' = 3
        BY <2>1, <3>1 DEF Level
      <4>2. \A v \in Units \ {u} : Level(v)' = Level(v)
        BY <2>1, <3>1 DEF Level
      <4>3. Staged!To(u, 3)
        BY <2>1, <3>1, <4>1, <4>2, LevelUp
      <4> QED
        BY <2>1, <3>2, <4>3 DEF Staged!Generate
    <3> QED
      BY <2>1, <3>3 DEF Staged!Next
  <2> QED
    BY <2>3, <2>4
<1>7. CASE Verdict
  <2>1. /\ UNCHANGED <<llvm, analyzed, prepared>> /\ status = "running"
        /\ status' \in {"running", "failure", "success"}
        /\ status' = "success" => prepared \ analyzed = {} /\ Source \subseteq prepared
    BY <1>0, <1>7 DEF Verdict, LoopInv
  <2>2. analyzed \subseteq prepared
    BY <1>0 DEF UnitsUnique
  <2> QED
    BY <2>1, <2>2, StopSimulates DEF Staged!Ends
<1>8. CASE LinkModules \/ Emit \/ LinkExecutable
  <2>1. /\ UNCHANGED <<llvm, analyzed, prepared>> /\ status = "running"
        /\ phase \in {"link", "emit", "executable"}
        /\ status' \in {"running", "failure", "success"}
    BY <1>8 DEF LinkModules, Emit, LinkExecutable
  <2>2. analyzed = prepared /\ Source \subseteq prepared
    BY <1>0, <2>1 DEF GeneratorInput
  <2> QED
    BY <2>1, <2>2, StopSimulates DEF Staged!Ends
<1>9. CASE UNCHANGED vars
  BY <1>9 DEF vars, Staged!vars
<1> QED
  BY <1>1, <1>2, <1>3, <1>4, <1>5, <1>6, <1>7, <1>8, <1>9
     DEF Next, PrepareStep, ModuleStep, AnalyseStep, GenerateStep, Ended

(* Every compilation is a staged build: no unit skips a stage or goes back, *)
(* and no stage starts before the one before it is complete                 *)
(* (start_compilation against the comments of pipeline.hpp).                *)
THEOREM Implements == Spec => ImplementsStages
<1>1. Init => Staged!Init
  BY DEF Init, Staged!Init
<1> QED
  BY <1>1, Invariance, StepSimulates, PTL DEF Spec, ImplementsStages, Staged!Spec

=============================================================================
