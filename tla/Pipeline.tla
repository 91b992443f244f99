------------------------------- MODULE Pipeline -------------------------------
(***************************************************************************)
(* One compilation, from the first file read to the executable:            *)
(* compiler/src/compiler/compiler.cpp (start_compilation, add_error) and   *)
(* compiler/src/pipeline/ (preparer, module_resolver, bindings, resolver,  *)
(* codegen, linker).                                                       *)
(*                                                                         *)
(* The compiler is sequential.  What varies is the text of the files, the  *)
(* iteration order of its unordered sets, the options and the outcome of   *)
(* LLVM, of the linker and of clang: those are the choices of the actions. *)
(* A unit is named by its path; its text is reduced to the imports it      *)
(* makes and to the passes that find an error in it.                       *)
(***************************************************************************)
EXTENDS Naturals, Sequences, FiniteSets

CONSTANTS
  Found,       \* the .tlz files below the source directory, in find_tolza_files' order
  Libraries,   \* files of the vendor, std and package directories
  Bindings,    \* binding files that exist in the binding directory
  Absent,      \* paths with no file behind them
  Imports,     \* Imports[u]: the import and reexport instructions file u may contain
  MaxImports,  \* bound: instructions per file
  Blank,       \* the files that may be found without a single character
  Asserts,     \* the compiler is a Debug build: its assertions are checked
  NoPath,      \* the empty string get_tolza_file returns for an absent file
  None         \* no unit is being prepared

Ran(seq) == {seq[k] : k \in 1 .. Len(seq)}
Distinct(seq) == \A j, k \in 1 .. Len(seq) : seq[j] = seq[k] => j = k

Source == Ran(Found)
Files  == Source \cup Libraries \cup Bindings
Units  == Files \cup {NoPath}
Forms  == {"import", "reexport"}
Origin == {"self", "src", "lib", "bind"}   \* EFileSource; vendor, std and pkg are "lib"
Instructions == [path : Files \cup Absent, from : Origin, form : Forms]

ASSUME PipelineAssumption ==
  /\ Found \in Seq(Source) /\ Distinct(Found)
  /\ Imports \in [Units -> SUBSET Instructions]
  /\ \A u \in Units : \A i \in Imports[u] :
       i.path \in Files => (i.path \in Bindings <=> i.from = "bind")
  /\ Blank \subseteq Source \cup Bindings
  /\ Files \cap Absent = {} /\ NoPath \notin Files \cup Absent
  /\ Source \cap Libraries = {} /\ Source \cap Bindings = {} /\ Libraries \cap Bindings = {}
  /\ None \notin Units
  /\ MaxImports \in Nat /\ Asserts \in BOOLEAN

Passes == {"sym", "ty", "sem"}                    \* the passes of the resolver
Kinds  == Passes \cup {"prepare", "import", "codegen"}

VARIABLES
  check,       \* OPTIONS.is_check_mode
  fatal,       \* OPTIONS.diagnostic.error = fail_fatal
  empty,       \* the files without a single character
  phase,       \* where start_compilation is
  units,       \* compilation_units, path_generated (the root unit left out)
  unprepared,  \* unprepared_compilation_units
  prepared,    \* prepared_compilation_units
  analyzed,    \* analyzed_compilation_units
  imports,     \* CU::imports of every unit
  bindings,    \* binding_compilation_units_to_prepare
  errors,      \* COMPILER.errors: the kinds of error reported in each unit
  ran,         \* history: the resolver passes that ran on each unit
  llvm,        \* the units that have an optimised LLVM module
  todo,        \* the units the current loop has not visited yet
  current,     \* the unit being prepared
  target,      \* TARGET_MACHINE has been created
  unverified,  \* codegen_success is false
  printed,     \* print_errors has been called
  status       \* "running", or how the process ended

config == <<check, fatal, empty>>
vars == <<config, phase, units, unprepared, prepared, analyzed, imports, bindings,
          errors, ran, llvm, todo, current, target, unverified, printed, status>>

\* compiler::errors holds one group per unit: its size is the number of groups.
Grouped == {u \in Units : errors[u] # {}}
FrontEnd == Kinds \ {"codegen"}
FrontErrors == {u \in Units : errors[u] \cap FrontEnd # {}}

Init ==
  /\ check \in BOOLEAN /\ fatal \in BOOLEAN
  /\ empty \in SUBSET Blank
  /\ phase = "start"
  /\ units = <<>>
  /\ unprepared = {} /\ prepared = {} /\ analyzed = {}
  /\ imports = [u \in Units |-> {}]
  /\ bindings = {}
  /\ errors = [u \in Units |-> {}]
  /\ ran = [u \in Units |-> {}]
  /\ llvm = {}
  /\ todo = {}
  /\ current = None
  /\ target = FALSE
  /\ unverified = FALSE
  /\ printed = FALSE
  /\ status = "running"

In(p) == status = "running" /\ phase = p
Preparing == In("prepare") \/ In("bindings")

Die(how) ==
  /\ status' = how
  /\ UNCHANGED <<config, phase, units, unprepared, prepared, analyzed, imports,
                 bindings, errors, ran, llvm, todo, current, target, unverified, printed>>

\* add_error: the error joins the group of its unit; with fail_fatal everything
\* is printed and the process exits inside the call.
AddErrors(u, kinds, next) ==
  /\ errors' = [errors EXCEPT ![u] = @ \cup kinds]
  /\ IF fatal /\ kinds # {}
       THEN printed' = TRUE /\ status' = "exit"
       ELSE UNCHANGED printed /\ status' = next

\* query_CU_at_path: a path that already has a unit gets no second one.
Query(p) == units' = IF p \in Ran(units) THEN units ELSE Append(units, p)

(***************************************************************************)
(* Mutated forms of the actions below: bugs the properties must notice.    *)
(***************************************************************************)

\* The loop forgets to erase the prepared units.
SettleKeepsPrepared ==
  /\ In("prepare") /\ todo = {} /\ current = None
  /\ unprepared' = unprepared \ Grouped
  /\ IF unprepared' = {}
       THEN phase' = "modules" /\ todo' = prepared
       ELSE UNCHANGED phase /\ todo' = unprepared'
  /\ UNCHANGED <<config, units, prepared, analyzed, imports, bindings, errors, ran,
                 llvm, current, target, unverified, printed, status>>

\* The binding's path is queued as it is written in the import.
ResolveModulesRaw(u) ==
  /\ In("modules") /\ u \in todo
  /\ bindings' = bindings \cup {i.path : i \in {j \in imports[u] : j.from = "bind"}}
  /\ todo' = todo \ {u}
  /\ UNCHANGED <<config, phase, units, unprepared, prepared, analyzed, imports, errors,
                 ran, llvm, current, target, unverified, printed, status>>

\* Only the analyser's answer is looked at, not the errors of the preparation.
VerdictOnAnalyserOnly ==
  /\ In("resolve") /\ todo = {}
  /\ IF prepared \ analyzed # {}
       THEN printed' = TRUE /\ status' = "failure" /\ UNCHANGED phase
       ELSE phase' = "target" /\ UNCHANGED <<printed, status>>
  /\ UNCHANGED <<config, units, unprepared, prepared, analyzed, imports, bindings,
                 errors, ran, llvm, todo, current, target, unverified>>

\* A failed analysis returns without print_errors, as the linker's failures do.
VerdictSilent ==
  /\ In("resolve") /\ todo = {}
  /\ IF prepared \ analyzed # {} \/ Grouped # {}
       THEN status' = "failure" /\ UNCHANGED phase
       ELSE phase' = "target" /\ UNCHANGED status
  /\ UNCHANGED <<config, units, unprepared, prepared, analyzed, imports, bindings,
                 errors, ran, llvm, todo, current, target, unverified, printed>>

\* Neither the analyser nor the errors are looked at.
VerdictNone ==
  /\ In("resolve") /\ todo = {}
  /\ phase' = "target"
  /\ UNCHANGED <<config, units, unprepared, prepared, analyzed, imports, bindings,
                 errors, ran, llvm, todo, current, target, unverified, printed, status>>

(***************************************************************************)
(* Reading the source directory and preparing its units.                   *)
(***************************************************************************)

\* The source directory is empty or cannot be read: nothing is compiled.
NoFiles == In("start") /\ Die("failure")

\* query_CUs_at_dir: the directory names a file once, and no unit exists yet.
QueryDir ==
  /\ In("start")
  /\ units' = Found
  /\ unprepared' = Source
  /\ phase' = "prepare"
  /\ todo' = unprepared'
  /\ UNCHANGED <<config, prepared, analyzed, imports, bindings, errors, ran, llvm,
                 current, target, unverified, printed, status>>

\* prepare_cu is called; engage_bindings makes a unit of its path first.  The
\* preprocessor of an empty file reads past the end of an empty token vector.
BeginUnit(u) ==
  /\ Preparing /\ current = None /\ u \in todo
  /\ \/ /\ current' = u
        /\ Query(u)
        /\ UNCHANGED status
     \/ /\ u \in empty \cup {NoPath}
        /\ status' = "crash"
        /\ UNCHANGED <<current, units>>
  /\ UNCHANGED <<config, phase, unprepared, prepared, analyzed, imports, bindings,
                 errors, ran, llvm, todo, target, unverified, printed>>

\* parse_import and parse_reexport.  A missing file is an error (238, 240); an
\* import then trips an assertion, or is recorded with an invalid module.
ParseImport ==
  /\ Preparing /\ current # None
  /\ current \notin empty \cup {NoPath}
  /\ Cardinality(imports[current]) < MaxImports
  /\ \E i \in Imports[current] \ imports[current] :
       IF i.path \in Files
         THEN /\ Query(i.path)
              /\ imports' = [imports EXCEPT ![current] = @ \cup {i}]
              /\ UNCHANGED <<errors, printed, status>>
         ELSE /\ AddErrors(current, {"prepare"},
                           IF Asserts /\ i.form = "import" THEN "crash" ELSE "running")
              /\ imports' = IF i.form = "import"
                              THEN [imports EXCEPT ![current] = @ \cup {i}] ELSE imports
              /\ UNCHANGED units
  /\ UNCHANGED <<config, phase, unprepared, prepared, analyzed, bindings, ran, llvm,
                 todo, current, target, unverified>>

\* The passes of prepare_cu are over, with or without an error of their own; the
\* unit must not have been in prepared_compilation_units.  Only engage_bindings
\* looks at the result and stops at the first failure.
EndUnit ==
  /\ Preparing /\ current # None
  /\ \E bad \in SUBSET {"prepare"} :
       AddErrors(current, bad, IF Asserts /\ current \in prepared THEN "crash" ELSE "running")
  /\ prepared' = IF status' = "exit" THEN prepared ELSE prepared \cup {current}
  /\ todo' = IF /\ phase = "bindings"
                /\ errors'[current] # {} \/ current \in empty \cup {NoPath}
               THEN {} ELSE todo \ {current}
  /\ current' = None
  /\ UNCHANGED <<config, phase, units, unprepared, analyzed, imports, bindings, ran,
                 llvm, target, unverified>>

\* A parser exception on the last token: recover_sync never leaves its loop.
Hang ==
  /\ Preparing /\ current # None
  /\ current \notin empty \cup {NoPath}
  /\ AddErrors(current, {"prepare"}, "hang")
  /\ UNCHANGED <<config, phase, units, unprepared, prepared, analyzed, imports,
                 bindings, ran, llvm, todo, current, target, unverified>>

\* The end of the body of while (!unprepared.empty()).
Settle ==
  /\ In("prepare") /\ todo = {} /\ current = None
  /\ unprepared' = (unprepared \ prepared) \ Grouped
  /\ IF unprepared' = {}
       THEN phase' = "modules" /\ todo' = prepared
       ELSE UNCHANGED phase /\ todo' = unprepared'
  /\ UNCHANGED <<config, units, prepared, analyzed, imports, bindings, errors, ran,
                 llvm, current, target, unverified, printed, status>>

(***************************************************************************)
(* Resolving the imports of the prepared units, then their bindings.       *)
(***************************************************************************)

\* resolve_modules on one unit.  CU::imports also holds the re-exports, which are
\* no Import node; a self import of an absent file has no module to look into.
ResolveModules(u) ==
  LET absent == {i \in imports[u] : i.path \in Absent}
      binds  == {i \in imports[u] : i.from = "bind"}
  IN
  /\ In("modules") /\ u \in todo
  /\ IF \/ \E i \in imports[u] : i.form = "reexport"
        \/ \E i \in absent : i.from = "self"
       THEN Die("crash")
       ELSE /\ bindings' = bindings \cup {i.path : i \in binds \ absent}
                                    \cup {NoPath : i \in binds \cap absent}
            /\ AddErrors(u, {"import" : i \in absent}, "running")
            /\ todo' = todo \ {u}
            /\ UNCHANGED <<config, phase, units, unprepared, prepared, analyzed,
                           imports, ran, llvm, current, target, unverified>>

\* resolve_modules returns and engage_bindings starts.
EngageBindings ==
  /\ In("modules") /\ todo = {}
  /\ phase' = "bindings"
  /\ todo' = bindings
  /\ UNCHANGED <<config, units, unprepared, prepared, analyzed, imports, bindings,
                 errors, ran, llvm, current, target, unverified, printed, status>>

\* engage_bindings returns; unprepared_compilation_units is empty: the loop ends.
BindingsDone ==
  /\ In("bindings") /\ todo = {} /\ current = None
  /\ phase' = "resolve"
  /\ todo' = prepared
  /\ UNCHANGED <<config, units, unprepared, prepared, analyzed, imports, bindings,
                 errors, ran, llvm, current, target, unverified, printed, status>>

(***************************************************************************)
(* The analyser.                                                           *)
(***************************************************************************)

\* resolve_cu stops after a pass that adds an error group; when the unit has a
\* group already, no pass adds one, every pass runs and the unit is analysed.
Earlier == [sym |-> {}, ty |-> {"sym"}, sem |-> {"sym", "ty"}]

Resolve(u) ==
  LET hidden == u \in Grouped IN
  /\ In("resolve") /\ u \in todo
  /\ \E bad \in SUBSET Passes :
       LET ranNow == {p \in Passes : hidden \/ bad \cap Earlier[p] = {}} IN
       /\ ran' = [ran EXCEPT ![u] = ranNow]
       /\ AddErrors(u, bad \cap ranNow, "running")
       /\ analyzed' = IF (hidden \/ bad = {}) /\ status' = "running"
                        THEN analyzed \cup {u} ELSE analyzed
  /\ todo' = todo \ {u}
  /\ UNCHANGED <<config, phase, units, unprepared, prepared, imports, bindings, llvm,
                 current, target, unverified>>

\* if (!analyzer_success) ..., if (!errors.empty()) ..., if (is_check_mode) ...
Verdict ==
  /\ In("resolve") /\ todo = {}
  /\ IF prepared \ analyzed # {} \/ Grouped # {}
       THEN printed' = TRUE /\ status' = "failure" /\ UNCHANGED phase
       ELSE /\ UNCHANGED printed
            /\ IF check THEN status' = "success" /\ UNCHANGED phase
                        ELSE phase' = "target" /\ UNCHANGED status
  /\ UNCHANGED <<config, units, unprepared, prepared, analyzed, imports, bindings,
                 errors, ran, llvm, todo, current, target, unverified>>

(***************************************************************************)
(* The generator and the linker.                                           *)
(***************************************************************************)

\* generate_target_machine: an unknown triple is printed and forgotten.
GenerateTargetMachine ==
  /\ In("target")
  /\ target' \in BOOLEAN
  /\ phase' = "codegen"
  /\ todo' = analyzed
  /\ UNCHANGED <<config, units, unprepared, prepared, analyzed, imports, bindings,
                 errors, ran, llvm, current, unverified, printed, status>>

\* codegen_cu: errors of the generator are recorded and not looked at; the
\* optimiser dereferences TARGET_MACHINE and verifies the module.
Codegen(u) ==
  /\ In("codegen") /\ u \in todo
  /\ \E bad \in SUBSET {"codegen"} :
       AddErrors(u, bad, IF target THEN "running" ELSE "crash")
  /\ \E verified \in BOOLEAN :
       /\ llvm' = IF verified /\ status' = "running" THEN llvm \cup {u} ELSE llvm
       /\ unverified' = (unverified \/ ~verified)
  /\ todo' = todo \ {u}
  /\ UNCHANGED <<config, phase, units, unprepared, prepared, analyzed, imports,
                 bindings, ran, current, target>>

\* if (!codegen_success) goto compiler_failed
CodegenDone ==
  /\ In("codegen") /\ todo = {}
  /\ IF unverified
       THEN printed' = TRUE /\ status' = "failure" /\ UNCHANGED phase
       ELSE phase' = "link" /\ UNCHANGED <<printed, status>>
  /\ UNCHANGED <<config, units, unprepared, prepared, analyzed, imports, bindings,
                 errors, ran, llvm, todo, current, target, unverified>>

\* link_modules, emit and link_executable: a failure returns at once, and nothing
\* prints the errors the generator left behind.
LinkModules ==
  /\ In("link")
  /\ \/ phase' = "emit" /\ UNCHANGED status
     \/ status' = "failure" /\ UNCHANGED phase
  /\ UNCHANGED <<config, units, unprepared, prepared, analyzed, imports, bindings,
                 errors, ran, llvm, todo, current, target, unverified, printed>>

Emit ==
  /\ In("emit")
  /\ \/ phase' = "executable" /\ UNCHANGED status
     \/ status' = "failure" /\ UNCHANGED phase
  /\ UNCHANGED <<config, units, unprepared, prepared, analyzed, imports, bindings,
                 errors, ran, llvm, todo, current, target, unverified, printed>>

LinkExecutable ==
  /\ In("executable")
  /\ status' \in {"success", "failure"}
  /\ UNCHANGED <<config, phase, units, unprepared, prepared, analyzed, imports,
                 bindings, errors, ran, llvm, todo, current, target, unverified, printed>>

Ended == status # "running" /\ UNCHANGED vars

PrepareStep ==
  \/ NoFiles \/ QueryDir \/ ParseImport \/ EndUnit \/ Hang \/ Settle
  \/ \E u \in Units : BeginUnit(u)
ModuleStep == EngageBindings \/ BindingsDone \/ \E u \in Units : ResolveModules(u)
AnalyseStep == Verdict \/ \E u \in Units : Resolve(u)
GenerateStep ==
  \/ GenerateTargetMachine \/ CodegenDone \/ LinkModules \/ Emit \/ LinkExecutable
  \/ \E u \in Units : Codegen(u)

Next == PrepareStep \/ ModuleStep \/ AnalyseStep \/ GenerateStep \/ Ended

\* The process is one thread, and it keeps running.
Spec == Init /\ [][Next]_vars /\ WF_vars(Next)

------------------------------------------------------------------------------
TypeOK ==
  /\ {check, fatal, target, unverified, printed} \subseteq BOOLEAN
  /\ empty \subseteq Units
  /\ phase \in {"start", "prepare", "modules", "bindings", "resolve", "target",
                "codegen", "link", "emit", "executable"}
  /\ units \in Seq(Units)
  /\ unprepared \subseteq Units /\ prepared \subseteq Units /\ analyzed \subseteq Units
  /\ imports \in [Units -> SUBSET Instructions]
  /\ bindings \subseteq Units
  /\ errors \in [Units -> SUBSET Kinds]
  /\ ran \in [Units -> SUBSET Passes]
  /\ llvm \subseteq Units /\ todo \subseteq Units
  /\ current \in Units \cup {None}
  /\ status \in {"running", "success", "failure", "exit", "crash", "hang"}

(* A path has at most one compilation unit, whoever asks for it and however *)
(* often, and the sets of the pipeline only name units that exist, each set *)
(* inside the one before it (query_CU_at_path and the position of a unit as *)
(* its cu::ID).                                                             *)
UnitsUnique ==
  /\ Distinct(units)
  /\ prepared \cup unprepared \subseteq Ran(units)
  /\ llvm \subseteq analyzed /\ analyzed \subseteq prepared

(* assert(success) in prepare_cu cannot fail: no loop ever prepares a unit   *)
(* a second time, although units are queried while the loop is running and  *)
(* a binding file is queued by several importers.                           *)
PrepareOnce ==
  /\ Preparing => todo \cap prepared = {}
  /\ current # None => current \in todo

(* The generator and the linker only run on a compilation whose front end   *)
(* found no error, and on all of it: every unit prepared has been analysed  *)
(* and every source file is among them.                                     *)
GeneratorInput ==
  phase \in {"target", "codegen", "link", "emit", "executable"} =>
    /\ FrontErrors = {}
    /\ analyzed = prepared
    /\ Source \subseteq prepared

(* No binding is left out of the build: when the generator starts, every    *)
(* binding a source file imports has been prepared and analysed, although   *)
(* engage_bindings stops at the first one that fails and its answer is      *)
(* ignored.  Blank bindings are the exception: they stop it without an      *)
(* error, and the build goes on without the bindings behind them.           *)
BindingsPrepared ==
  phase \in {"target", "codegen", "link", "emit", "executable"} =>
    \/ bindings \cap empty # {}
    \/ \A u \in Source : \A i \in imports[u] : i.from = "bind" => i.path \in analyzed

(* The answer of the compiler is true: success means that the front end     *)
(* found nothing and every source file went all the way its mode asks for;  *)
(* a failure or an exit with front-end errors has printed them.             *)
VerdictHonest ==
  /\ status = "success" =>
       /\ FrontErrors = {} /\ Source \subseteq analyzed
       /\ ~check => Source \subseteq llvm
  /\ status \in {"failure", "exit"} /\ FrontErrors # {} => printed

(* A pass of the resolver never runs on a unit whose earlier pass failed,   *)
(* unless the unit had errors before the resolver was started.              *)
StagesStop ==
  \A u \in Units : \A p \in ran[u] :
    errors[u] \cap Earlier[p] # {} => errors[u] \cap {"prepare", "import"} # {}

(* A compilation ends: no file, import cycle or binding keeps the loops of  *)
(* start_compilation busy for ever (the parser's own loop apart, "hang").   *)
CompilationEnds == <>(status # "running")

(***************************************************************************)
(* The promises of the build, without its data structures.                 *)
(***************************************************************************)
Staged == INSTANCE StagedBuild WITH
  Units <- Units,
  Required <- Source,
  level <- [u \in Units |-> IF u \in llvm THEN 3 ELSE IF u \in analyzed THEN 2
                            ELSE IF u \in prepared THEN 1 ELSE 0],
  outcome <- status

(* Every compilation is a staged build.                                     *)
ImplementsStages == Staged!Spec

(***************************************************************************)
(* What the documents and the assertions of the repository say, and the    *)
(* code does not keep.                                                     *)
(***************************************************************************)

(* "wait all imports prepared" (pipeline.hpp): the library files imported by *)
(* a prepared unit are prepared when the analyser starts.                   *)
ImportsPrepared ==
  In("resolve") => \A u \in prepared : \A i \in imports[u] :
                     i.path \in Libraries => i.path \in prepared

=============================================================================
