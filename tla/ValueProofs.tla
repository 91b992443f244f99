------------------------------ MODULE ValueProofs ------------------------------
(***************************************************************************)
(* Two components whose properties say that a value is settled once: the   *)
(* options of a compilation, by the layers that set them (DecidedByLast-   *)
(* Layer and FlagsKept of Options, for every set of fields, all lists of   *)
(* profiles and all triples), and the constants of a program, by their     *)
(* literals (SameEverywhere of Arithmetic, for words of every width, every *)
(* expression and every number of units).                                  *)
(***************************************************************************)
EXTENDS Options, Arithmetic, TLAPS

Manifest == files["manifest"]
\* A set of flags is what was put into it, and what it starts from at most.
Holds(flags, put, first) == put \subseteq flags /\ flags \subseteq put \cup first
Unmixed(f) == Raw(Manifest.mode, f, None) \in {None, "union"}

\* The manifest is a file, and no text of a decided field is the number 0.
IsFile(file) == file = [set |-> file.set, mode |-> file.mode]
Worded(set) == \A f \in Decided : Raw(set, f, None) # "0"
FilesInv ==
  phase # "empty" =>
    /\ "manifest" \in DOMAIN files
    /\ files = [p \in DOMAIN files |-> files[p]]
    /\ IsFile(Manifest)
    /\ Worded(Manifest.set)

\* While profiles are applied the options are still the manifest's, and hold its flags. This is
\* so of every field, those a listed profile sets included: its values are never read.
AppliedInv ==
  phase = "apply" =>
    /\ \A f \in Decided : options[f] = Raw(Manifest.set, f, None)
    /\ \A f \in Flags \ {"debugs"} : Unmixed(f) => Holds(options[f], Raw(Manifest.set, f, {}), Defaults[f])

IInv == studied \in Studied /\ FilesInv /\ AppliedInv /\ DecidedByLastLayer /\ FlagsKept

------------------------------------------------------------------------------
(* What reading and merging do to the decided fields and to the flags.     *)

LEMMA DecidedKinds ==
  ASSUME NEW f \in Decided
  PROVE  /\ f \in Fields /\ f \in Scalars \ {"abi", "reloc_model"}
         /\ f \notin Filled /\ f # "emits" /\ f \notin Unread /\ f \notin Flags /\ f \notin Dirs
         /\ f \notin Bools /\ f \notin PointerBools /\ f \notin CStrings
         /\ f \notin {"libc_version", "profiles", "defines"}
         /\ f \in Enums \/ f \in Strings
         /\ PlainKey[f] = f /\ DottedKey[f] = f
  BY DEF Decided, Fields, Scalars, Enums, Strings, Dirs, Filled, Unread, Flags,
     Bools, PointerBools, CStrings, PlainKey, DottedKey

LEMMA FlagKinds ==
  ASSUME NEW f \in Flags
  PROVE  /\ f \in Fields /\ f # "abi" /\ f # "reloc_model" /\ f \notin Scalars
         /\ f \notin Filled /\ f \notin Enums /\ f \notin Strings /\ f \notin Dirs
         /\ f \notin Bools /\ f \notin PointerBools /\ f \notin CStrings
         /\ f \notin {"libc_version", "profiles", "defines"}
         /\ f \in Unread <=> f = "debugs"
         /\ PlainKey[f] = f /\ DottedKey[f] = f
  BY DEF Fields, Scalars, Enums, Strings, Dirs, Filled, Unread, Flags,
     Bools, PointerBools, CStrings, PlainKey, DottedKey

LEMMA ParsedDecided ==
  ASSUME NEW file, NEW keys, NEW at, NEW f \in Decided, keys[f] = f, Worded(file.set)
  PROVE  Parsed(file, keys, at)[f] = Raw(file.set, f, None)
<1>1. Raw(file.set, f, None) # "0"
  BY DEF Worded
<1>2. from_str(Raw(file.set, f, None)) = Raw(file.set, f, None)
  BY <1>1 DEF from_str
<1>3. CASE f \in Enums
  BY <1>2, <1>3, DecidedKinds DEF Parsed
<1>4. CASE f \notin Enums
  BY <1>4, DecidedKinds DEF Parsed
<1> QED
  BY <1>3, <1>4

LEMMA ParsedFlags ==
  ASSUME NEW file, NEW keys, NEW at, NEW f \in Flags \ {"debugs"}, keys[f] = f
  PROVE  Parsed(file, keys, at)[f] = Raw(file.set, f, {})
  BY FlagKinds DEF Parsed

LEMMA ReadDecided ==
  ASSUME NEW file, NEW f \in Decided, Worded(file.set)
  PROVE  read_manifest(file)[f] = Raw(file.set, f, None)
  BY ParsedDecided, DecidedKinds DEF read_manifest

LEMMA ReadFlags ==
  ASSUME NEW file, NEW f \in Flags \ {"debugs"}
  PROVE  Holds(read_manifest(file)[f], Raw(file.set, f, {}), Defaults[f])
<1>1. Defaults["emits"] = {"standard"}
  <2>1. "emits" \in Flags
    BY DEF Flags
  <2>2. /\ "emits" \in Fields /\ "emits" \notin Filled /\ "emits" \notin Dirs
        /\ "emits" \notin Bools /\ "emits" \notin CStrings \cup {"libc_version", "profiles", "defines"}
    BY <2>1, FlagKinds
  <2> QED
    BY <2>1, <2>2 DEF Defaults
<1>2. Parsed(file, PlainKey, 0)[f] = Raw(file.set, f, {})
  BY ParsedFlags, FlagKinds
<1>3. read_manifest(file)[f] = IF f = "emits" /\ Raw(file.set, f, {}) = {} THEN {"standard"}
                               ELSE Raw(file.set, f, {})
  BY <1>2, FlagKinds DEF read_manifest
<1> QED
  BY <1>1, <1>3 DEF Holds

LEMMA MergeDecided ==
  ASSUME NEW layer, NEW base, NEW f \in Decided
  PROVE  merge_context(layer, base)[f] = Applied(base[f], layer.options[f])
  BY DecidedKinds DEF merge_context

LEMMA MergeFlags ==
  ASSUME NEW layer, NEW base, NEW f \in Flags, layer.mode[f] \in {None, "union"}
  PROVE  merge_context(layer, base)[f] = base[f] \cup layer.options[f]
<1>1. merge_context(layer, base)[f] = merge_bitwise(base[f], layer.options[f], layer.mode[f])
  BY FlagKinds DEF merge_context
<1> QED
  BY <1>1 DEF merge_bitwise, None

\* A profile, which is the manifest again, changes no decided field.
LEMMA ProfileDecided ==
  ASSUME NEW file, NEW at, NEW base, NEW f \in Decided, Worded(file.set),
         base[f] = Raw(file.set, f, None)
  PROVE  merge_context(read_profile(file, at), base)[f] = base[f]
<1> DEFINE read == Parsed(file, DottedKey, at)
<1>1. f \in DOMAIN read
  BY DecidedKinds DEF Parsed
<1>2. read_profile(file, at).options[f] \in {read[f], None}
  BY <1>1 DEF read_profile
<1>3. read[f] = base[f]
  BY ParsedDecided, DecidedKinds
<1> QED
  BY <1>2, <1>3, MergeDecided DEF Applied

LEMMA ProfileFlags ==
  ASSUME NEW file, NEW at, NEW base, NEW f \in Flags \ {"debugs"},
         Raw(file.mode, f, None) \in {None, "union"}, Raw(file.set, f, {}) \subseteq base[f]
  PROVE  merge_context(read_profile(file, at), base)[f] = base[f]
<1>1. read_profile(file, at).mode[f] \in {None, "union"}
  BY FlagKinds DEF read_profile
<1>2. f # "project_name" /\ f \in DOMAIN Parsed(file, DottedKey, at)
  BY FlagKinds DEF Parsed, Flags
<1>3. read_profile(file, at).options[f] = Raw(file.set, f, {})
  BY <1>2, ParsedFlags, FlagKinds DEF read_profile
<1>4. merge_context(read_profile(file, at), base)[f] = base[f] \cup Raw(file.set, f, {})
  BY <1>1, <1>3, MergeFlags
<1> QED
  BY <1>4

------------------------------------------------------------------------------
(* The files.                                                              *)

\* What write_manifest writes for a decided field is no number.
LEMMA WrittenWorded ==
  ASSUME NEW use_env \in BOOLEAN
  PROVE  LET file == write_manifest(get_current, use_env)
         IN  IsFile(file) /\ Worded(file.set)
<1> DEFINE file == write_manifest(get_current, use_env)
<1>1. IsFile(file)
  BY DEF write_manifest, File, IsFile
<1>2. ASSUME NEW f \in Decided PROVE Raw(file.set, f, None) # "0"
  <2>1. \A g \in Fields : MANIFEST_TOML_TEMPLATE[g] = f <=> g = f
    BY DecidedKinds DEF MANIFEST_TOML_TEMPLATE, DottedKey, Decided
  <2>2. f \in Fields \ {"overlay"}
    BY DecidedKinds DEF Decided
  <2>3. (CHOOSE g \in Fields : MANIFEST_TOML_TEMPLATE[g] = f) = f
    BY <2>1, <2>2
  <2>4. f \in DOMAIN file.set /\ file.set[f] = Written(get_current, use_env, f)
    BY <2>1, <2>2, <2>3 DEF write_manifest, File
  <2>5. get_current[f] # "0"
    BY <2>2 DEF get_current, Defaults, Decided, Filled, Dirs, Flags, Bools, CStrings, None
  <2>6. Written(get_current, use_env, f) # "0"
    <3>1. f \in EnvFields \/ f = "log_level" \/ f = "project_name"
      BY DEF Decided, EnvFields
    <3>2. CASE f \in EnvFields
      <4>1. /\ Empty(f) = None
            /\ f \notin {"libc_version", "debug", "optimization", "logs", "log_level", "warn_level",
                         "compiler", "stdlib", "packages", "verify_module"}
        BY <3>2, DecidedKinds DEF Empty, Decided, EnvFields
      <4>2. Written(get_current, use_env, f) = IF use_env THEN get_current[f] ELSE None
        BY <3>2, <4>1, DecidedKinds DEF Written
      <4> QED
        BY <2>5, <4>2 DEF None
    <3>3. CASE f = "log_level"
      BY <3>3 DEF Written, EnvFields, Bools
    <3>4. CASE f = "project_name"
      BY <2>5, <3>4 DEF Written, EnvFields, Bools
    <3> QED
      BY <3>1, <3>2, <3>3, <3>4
  <2> QED
    BY <2>4, <2>6 DEF Raw
<1> QED
  BY <1>1, <1>2 DEF Worded

LEMMA SetWorded ==
  ASSUME NEW set, NEW key, NEW value, Worded(set), key \in Decided => value # "0"
  PROVE  Worded(Set(set, key, value))
  BY DEF Worded, Set, Raw

LEMMA EditedFiles ==
  ASSUME NEW path, NEW keys, NEW v, EditFile(path, keys, v), IInv, v # "0",
         \A f \in Fields : keys[f] \in Decided => keys[f] = f
  PROVE  /\ "manifest" \in DOMAIN files' /\ files' = [p \in DOMAIN files' |-> files'[p]]
         /\ IsFile(files'["manifest"]) /\ Worded(files'["manifest"].set)
<1> USE DEF EditFile
<1>1. /\ "manifest" \in DOMAIN files /\ files = [p \in DOMAIN files |-> files[p]]
      /\ IsFile(Manifest) /\ Worded(Manifest.set)
  BY DEF IInv, FilesInv
<1>2. PICK f \in studied, mode \in Modes : \E value \in Value(f, v) :
        files' = [files EXCEPT ![path] = [set |-> Set(@.set, keys[f], value), mode |-> Set(@.mode, f, mode)]]
  OBVIOUS
<1>3. PICK value \in Value(f, v) :
        files' = [files EXCEPT ![path] = [set |-> Set(files[path].set, keys[f], value),
                                          mode |-> Set(files[path].mode, f, mode)]]
  BY <1>2
<1>4. f \in Fields
  BY OptionsAssumption DEF IInv
<1>5. keys[f] \in Decided => value # "0"
  <2> SUFFICES ASSUME f \in Decided PROVE value # "0"
    BY <1>4
  <2>1. value \in {v, "standard"}
    BY DecidedKinds DEF Value
  <2> QED
    BY <2>1
<1>6. "manifest" \in DOMAIN files' /\ files' = [p \in DOMAIN files' |-> files'[p]]
  BY <1>1, <1>3
<1>7. CASE path = "manifest"
  <2>1. files'["manifest"] = [set |-> Set(Manifest.set, keys[f], value), mode |-> Set(Manifest.mode, f, mode)]
    BY <1>1, <1>3, <1>7 DEF Manifest
  <2> QED
    BY <1>1, <1>5, <1>6, <2>1, SetWorded DEF IsFile
<1>8. CASE path # "manifest"
  <2>1. files'["manifest"] = Manifest
    BY <1>1, <1>3, <1>8 DEF Manifest
  <2> QED
    BY <1>1, <1>6, <2>1
<1> QED
  BY <1>7, <1>8

------------------------------------------------------------------------------
(* The steps.                                                              *)

\* A step before the compiler starts has to look after the files only.
LEMMA Before ==
  ASSUME phase' \in {"edit", "list", "command", "start"}, studied' = studied, IInv, FilesInv'
  PROVE  IInv'
  BY DEF IInv, AppliedInv, DecidedByLastLayer, FlagsKept

LEMMA WriteStep ==
  ASSUME IInv, NewManifest \/ generate_tolza_workspace \/ OwnManifest
  PROVE  IInv'
<1>1. studied' = studied /\ phase' = "edit"
  BY DEF NewManifest, generate_tolza_workspace, OwnManifest
<1>2. CASE NewManifest \/ generate_tolza_workspace
  BY <1>1, <1>2, WrittenWorded, Before DEF NewManifest, generate_tolza_workspace, FilesInv, Manifest
<1>3. CASE OwnManifest
  <2>1. IsFile(File(<<>>)) /\ Worded(File(<<>>).set)
    BY DEF IsFile, File, Worded, Raw, None
  <2> QED
    BY <1>1, <1>3, <2>1, Before DEF OwnManifest, FilesInv, Manifest
<1> QED
  BY <1>2, <1>3

LEMMA EditStep ==
  ASSUME IInv, NewProfile \/ EditManifest \/ EditProfile \/ ListProfiles
  PROVE  IInv'
<1>1. CASE NewProfile
  BY <1>1, Before DEF NewProfile, IInv, FilesInv, Manifest
<1>2. CASE EditManifest
  <2>1. \A f \in Fields : MANIFEST_TOML_TEMPLATE[f] \in Decided => MANIFEST_TOML_TEMPLATE[f] = f
    BY DEF MANIFEST_TOML_TEMPLATE, DottedKey, Decided
  <2>2. EditFile("manifest", MANIFEST_TOML_TEMPLATE, "file") /\ phase' \in {"edit", "list"} /\ studied' = studied
    BY <1>2 DEF EditManifest, EditFile
  <2> QED
    BY <2>1, <2>2, EditedFiles, Before DEF FilesInv, Manifest
<1>3. CASE EditProfile
  <2>1. \A f \in Fields : PlainKey[f] = f
    BY DEF PlainKey
  <2>2. EditFile("debug", PlainKey, "profile") /\ phase' = "edit" /\ studied' = studied
    BY <1>3 DEF EditProfile, EditFile
  <2> QED
    BY <2>1, <2>2, EditedFiles, Before DEF FilesInv, Manifest
<1>4. CASE ListProfiles
  <2>1. PICK list \in Lists : files' = [files EXCEPT !["manifest"].set = Set(files["manifest"].set, "profiles", list)]
    BY <1>4 DEF ListProfiles
  <2>2. /\ "manifest" \in DOMAIN files /\ files = [p \in DOMAIN files |-> files[p]]
        /\ IsFile(Manifest) /\ Worded(Manifest.set)
    BY <1>4 DEF ListProfiles, IInv, FilesInv
  <2>3. files'["manifest"] = [set |-> Set(Manifest.set, "profiles", list), mode |-> Manifest.mode]
    BY <2>1, <2>2 DEF Manifest, IsFile
  <2>4. Worded(files'["manifest"].set)
    BY <2>2, <2>3, SetWorded DEF Decided
  <2>5. phase' = "command" /\ studied' = studied
    BY <1>4 DEF ListProfiles
  <2> QED
    BY <2>1, <2>2, <2>3, <2>4, <2>5, Before DEF FilesInv, IsFile, Manifest
<1> QED
  BY <1>1, <1>2, <1>3, <1>4

LEMMA CommandStep ==
  ASSUME IInv, Give \/ StartCompiler
  PROVE  IInv'
<1>1. files' = files /\ studied' = studied /\ phase = "command" /\ phase' \in {"command", "start"}
  BY DEF Give, StartCompiler
<1> QED
  BY <1>1, Before DEF IInv, FilesInv, Manifest

LEMMA ReadStep ==
  ASSUME IInv, ReadManifest
  PROVE  IInv'
<1>1. files' = files /\ studied' = studied /\ phase = "start" /\ phase' = "apply"
  BY DEF ReadManifest, project
<1>2. FilesInv' /\ Worded(Manifest.set)
  BY <1>1 DEF IInv, FilesInv, Manifest
<1>3. options' = read_manifest(Manifest)
  BY DEF ReadManifest, Manifest
<1>4. AppliedInv'
  BY <1>1, <1>2, <1>3, ReadDecided, ReadFlags DEF AppliedInv, Manifest
<1> QED
  BY <1>1, <1>2, <1>4 DEF IInv, DecidedByLastLayer, FlagsKept

\* While profiles are applied: options is what it was or merged with the manifest.
LEMMA Applying ==
  ASSUME IInv, phase = "apply", phase' \in {"apply", "crashed"}, UNCHANGED project,
         \/ options' = options
         \/ options' = merge_context(read_profile(Manifest, reads), options)
  PROVE  IInv'
<1>1. files' = files /\ studied' = studied
  BY DEF project
<1>2. FilesInv' /\ Worded(Manifest.set)
  BY <1>1 DEF IInv, FilesInv, Manifest
<1>3. ASSUME NEW f \in Decided PROVE options'[f] = Raw(Manifest.set, f, None)
  BY <1>2, ProfileDecided DEF IInv, AppliedInv
<1>4. ASSUME NEW f \in Flags \ {"debugs"}, Unmixed(f) PROVE Holds(options'[f], Raw(Manifest.set, f, {}), Defaults[f])
  <2>1. Holds(options[f], Raw(Manifest.set, f, {}), Defaults[f])
    BY <1>4 DEF IInv, AppliedInv
  <2>2. options'[f] = options[f]
    BY <1>4, <2>1, ProfileFlags DEF Unmixed, Holds
  <2> QED
    BY <2>1, <2>2
<1>5. AppliedInv'
  BY <1>1, <1>3, <1>4 DEF AppliedInv, Manifest, Unmixed
<1> QED
  BY <1>1, <1>2, <1>5 DEF IInv, DecidedByLastLayer, FlagsKept

LEMMA ApplyStep ==
  ASSUME IInv, apply_foreach_profiles \/ CommandProfiles
  PROVE  IInv'
<1>1. CASE apply_foreach_profiles
  <2>1. phase = "apply" /\ phase' \in {"apply", "crashed"} /\ UNCHANGED project
    BY <1>1 DEF apply_foreach_profiles
  <2>2. options' = options \/ options' = merge_context(read_profile(Manifest, reads), options)
    BY <1>1 DEF apply_foreach_profiles, Next_, Manifest
  <2> QED
    BY <2>1, <2>2, Applying
<1>2. CASE CommandProfiles
  BY <1>2, Applying DEF CommandProfiles
<1> QED
  BY <1>1, <1>2

LEMMA MergeStep ==
  ASSUME IInv, MergeCommand
  PROVE  IInv'
<1> DEFINE layer == [options |-> command_args, mode |-> [f \in Fields |-> None], has |-> {}]
<1>1. /\ files' = files /\ studied' = studied /\ given' = given /\ preset' = preset
      /\ phase = "apply" /\ phase' = "ready"
      /\ options' = merge_context(layer, options)
  BY DEF MergeCommand, project
<1>2. command_args' = command_args
  BY <1>1 DEF command_args
<1>3. DecidedByLastLayer'
  <2>1. \A f \in Decided : options'[f] = Applied(options[f], command_args[f])
    BY <1>1, MergeDecided
  <2> QED
    BY <1>1, <1>2, <2>1, DecidedKinds DEF DecidedByLastLayer, Applied, IInv, AppliedInv, Manifest
<1>4. FlagsKept'
  <2>1. \A f \in Flags : options'[f] = options[f] \cup command_args[f]
    BY <1>1, MergeFlags, FlagKinds
  <2>2. \A f \in Flags \ {"debugs"} :
          Unmixed(f) => Holds(options[f], Raw(Manifest.set, f, {}), Defaults[f])
    BY <1>1 DEF IInv, AppliedInv
  <2> QED
    BY <1>1, <1>2, <2>1, <2>2 DEF FlagsKept, Holds, Manifest, Unmixed
<1> QED
  BY <1>1, <1>3, <1>4 DEF IInv, FilesInv, AppliedInv, Manifest

LEMMA OutputStep ==
  ASSUME IInv, get_profile_filename \/ UNCHANGED vars
  PROVE  IInv'
<1>1. UNCHANGED <<studied, files, given, preset, options, phase>>
  BY DEF get_profile_filename, project, vars
<1>2. command_args' = command_args
  BY <1>1 DEF command_args
<1>3. SetByProfiles' = SetByProfiles
  BY <1>1, <1>2 DEF SetByProfiles, Composed
<1> QED
  BY <1>1, <1>2, <1>3 DEF IInv, FilesInv, AppliedInv, DecidedByLastLayer, FlagsKept, Manifest, Unmixed

LEMMA InitInv == Init => IInv
  BY DEF Init, IInv, FilesInv, AppliedInv, DecidedByLastLayer, FlagsKept

(* What every step keeps: the manifest is there, and the options follow it  *)
(* until the command line is merged.                                        *)
THEOREM Invariance == Spec => []IInv
<1>1. IInv /\ [Next]_vars => IInv'
  BY WriteStep, EditStep, CommandStep, ReadStep, ApplyStep, MergeStep, OutputStep DEF Next
<1> QED
  BY <1>1, InitInv, PTL DEF Spec

(* A decided field that no profile of the composition sets has the value of *)
(* the command line, and without one that of the manifest, in whatever      *)
(* order and however often the layers are applied.                          *)
THEOREM LastLayerDecides == Spec => []DecidedByLastLayer
  BY Invariance, PTL DEF IInv

(* A set of flags without a mode, which no profile of the composition sets, *)
(* is what the manifest and the command put into it.                        *)
THEOREM KeptFlags == Spec => []FlagsKept
  BY Invariance, PTL DEF IInv

------------------------------------------------------------------------------
(* Constants: the specification of Arithmetic.                            *)

\* The expression the property speaks of.
Steady == expr.op \in Unwritten /\ expr.left.kind # "floating"
Folds == evaluate_expression(expr, written[1], written[2])

\* The literals hold what was written, and every constant is what they fold to.
FoldInv ==
  /\ expr \in Expressions
  /\ generated = [u \in Units |-> generated[u]]
  /\ sizes = [u \in Units |-> sizes[u]]
  /\ Steady =>
       /\ cells[1] = written[1] /\ cells[2] = written[2]
       /\ \A u \in Units :
            /\ generated[u].is = "const" => \E o \in Folds : generated[u] = o.result
            /\ sizes[u].is = "const" => \E o \in Folds : sizes[u] = o.result

------------------------------------------------------------------------------

LEMMA OutcomeIs ==
  ASSUME NEW x, NEW l, NEW r
  PROVE  Outcome(x, l, r).result = x /\ Outcome(x, l, r).cells = <<l, r>>
  BY DEF Outcome

(* The fold of an operation that is neither a power nor a minus has one     *)
(* outcome, and it leaves the two literals as they are.                     *)
LEMMA OneOutcome ==
  ASSUME NEW e, NEW l, NEW r, e.op \notin {"pow", "minus"}, e.left.kind # "floating"
  PROVE  \E x : evaluate_expression(e, l, r) = {Outcome(x, l, r)}
<1> DEFINE One(S) == \E x : S = {Outcome(x, l, r)}
<1>1. One({scalar_plus(e.type, e.left.kind, l, r)})
  BY DEF scalar_plus
<1>2. One({boolean_not(e.left.kind, l, r)})
  BY DEF boolean_not
<1>3. One(integral(e.op, e.type, l, r))
  BY DEF integral, Overwritten
<1>4. One(evaluate_binary(e, l, r))
  <2> DEFINE read == <<create_constant(e.left, e.type, l), create_constant(e.right, e.type, r)>>
  <2>1. CASE \E i \in 1 .. 2 : read[i] = Crash
    BY <2>1 DEF evaluate_binary
  <2>2. CASE ~(\E i \in 1 .. 2 : read[i] = Crash) /\ \E i \in 1 .. 2 : read[i].is = "error"
    BY <2>2 DEF evaluate_binary
  <2>3. CASE ~(\E i \in 1 .. 2 : read[i] = Crash) /\ ~(\E i \in 1 .. 2 : read[i].is = "error")
    <3>1. e.left.kind \in {"integral", "fixed", "boolean"}
      <4>1. read[1].is # "error"
        BY <2>3
      <4> QED
        BY <4>1 DEF create_constant, Error
    <3>2. CASE e.right.kind # e.left.kind
      BY <2>3, <3>2 DEF evaluate_binary
    <3>3. CASE e.right.kind = e.left.kind
      BY <1>3, <2>3, <3>1, <3>3 DEF evaluate_binary
    <3> QED
      BY <3>2, <3>3
  <2> QED
    BY <2>1, <2>2, <2>3
<1>5. CASE e.op \in {"literal", "as"}
  BY <1>5 DEF evaluate_expression
<1>6. CASE e.op \in {"plus", "not", "invert_sign"}
  BY <1>1, <1>2, <1>6 DEF evaluate_expression
<1>7. CASE e.op \notin {"literal", "as", "plus", "not", "invert_sign"}
  BY <1>4, <1>7 DEF evaluate_expression
<1> QED
  BY <1>5, <1>6, <1>7

\* What the generated code computes is never a constant of the fold.
LEMMA RunIsNoConstant ==
  ASSUME NEW e, NEW l, NEW r
  PROVE  Generate(e, l, r).is # "const"
<1> USE DEF Computed, Divided, Raised, Error, Undefined, Crash
<1>1. ASSUME NEW op, NEW t, NEW x, NEW y PROVE arith(op, t, x, y).is # "const"
  BY DEF arith
<1>2. ASSUME NEW op, NEW t, NEW x, NEW y PROVE byte(op, t, x, y).is # "const"
  BY DEF byte
<1>3. ASSUME NEW op, NEW t, NEW x, NEW y PROVE fill_ones(op, t, x, y).is # "const"
  BY DEF fill_ones
<1>4. ASSUME NEW op, NEW t, NEW x, NEW y PROVE codegen_binary_op(op, t, x, y).is # "const"
  BY <1>1, <1>2, <1>3 DEF codegen_binary_op
<1>5. ASSUME NEW op \in Unary, NEW t, NEW x PROVE codegen_unary_op(op, t, x).is # "const"
  BY DEF codegen_unary_op, Unary, is_integral
<1>6. ASSUME NEW x, NEW from, NEW to PROVE primitive_coerce(x, from, to).is # "const"
  BY DEF primitive_coerce
<1> DEFINE x == Wrap(l, e.type.bits)
           y == Wrap(r, e.type.bits)
<1>7. CASE e.op = "literal"
  <2>1. Generate(e, l, r) = Computed(x, e.type.bits)
    BY <1>7 DEF Generate, Unary
  <2> QED
    BY <2>1
<1>8. CASE e.op = "as"
  <2>1. Generate(e, l, r) = primitive_coerce(x, e.type, e.to)
    BY <1>8 DEF Generate, Unary
  <2> QED
    BY <1>6, <2>1
<1>9. CASE e.op \in Unary
  <2>1. Generate(e, l, r) = codegen_unary_op(e.op, e.type, x)
    BY <1>9 DEF Generate, Unary
  <2> QED
    BY <1>5, <1>9, <2>1
<1>10. CASE e.op \notin Unary \cup {"literal", "as"}
  <2>1. Generate(e, l, r) = codegen_binary_op(e.op, e.type, x, y)
    BY <1>10 DEF Generate
  <2> QED
    BY <1>4, <2>1
<1> QED
  BY <1>7, <1>9, <1>10, <1>8

\* A constant a variable is settled with is the one its expression folds to.
LEMMA SettledConstant ==
  ASSUME NEW e \in Expressions, NEW x, NEW run, run.is # "const", Settle(e, x, run).is = "const"
  PROVE  Settle(e, x, run) = x
  BY ArithmeticAssumption DEF Settle, Error, Crash

------------------------------------------------------------------------------

\* What the expression folds to depends on nothing a step changes.
LEMMA FoldsStay ==
  ASSUME expr' = expr, written' = written, asserts' = asserts
  PROVE  Folds' = Folds
  BY DEF Folds, evaluate_expression, evaluate_binary, integral, IntegralResult, ByteResult,
         decimal, OfType, scalar_minus, scalar_plus, create_constant, get_int_constant

LEMMA FoldInit == FoldingInit => FoldInv
  BY DEF FoldingInit, FoldInv, NotYet

LEMMA VariableStep == ASSUME FoldInv, NEW u \in Units, Codegen_Variable(u) PROVE FoldInv'
<1>1. /\ expr' = expr /\ written' = written /\ asserts' = asserts /\ sizes' = sizes
      /\ expr \in Expressions
      /\ generated' = [v \in Units |-> generated'[v]]
  BY DEF Codegen_Variable, FoldInv
<1> SUFFICES ASSUME Steady PROVE
       /\ cells'[1] = written[1] /\ cells'[2] = written[2]
       /\ generated'[u].is = "const" => \E o \in Folds : generated'[u] = o.result
  <2>1. \A v \in Units \ {u} : generated'[v] = generated[v]
    BY DEF Codegen_Variable, FoldInv
  <2> QED
    BY <1>1, <2>1, FoldsStay DEF FoldInv, Steady
<1>2. cells[1] = written[1] /\ cells[2] = written[2]
  BY DEF FoldInv
<1>3. CASE expr.variable = "local"
  <2>1. generated'[u] = Generate(expr, cells[1], cells[2]) /\ cells' = cells
    BY <1>3 DEF Codegen_Variable, FoldInv
  <2> QED
    BY <1>2, <2>1, RunIsNoConstant
<1>4. CASE expr.variable # "local"
  <2>1. PICK x : Folds = {Outcome(x, written[1], written[2])}
    BY ArithmeticAssumption, OneOutcome DEF Folds, Steady
  <2>2. PICK o \in Folds : /\ generated'[u] = Settle(expr, o.result, Generate(expr, o.cells[1], o.cells[2]))
                           /\ cells' = o.cells
    BY <1>2, <1>4 DEF Codegen_Variable, FoldInv, Folds
  <2>3. o.result = x /\ cells' = <<written[1], written[2]>>
    BY <2>1, <2>2, OutcomeIs
  <2>4. generated'[u].is = "const" => generated'[u] = o.result
    BY <1>1, <2>2, RunIsNoConstant, SettledConstant
  <2> QED
    BY <2>2, <2>3, <2>4
<1> QED
  BY <1>3, <1>4

LEMMA ArrayStep == ASSUME FoldInv, NEW u \in Units, Codegen_Array(u) PROVE FoldInv'
<1>1. /\ expr' = expr /\ written' = written /\ asserts' = asserts /\ generated' = generated
      /\ expr \in Expressions
      /\ sizes' = [v \in Units |-> sizes'[v]]
  BY DEF Codegen_Array, FoldInv
<1> SUFFICES ASSUME Steady PROVE
       /\ cells'[1] = written[1] /\ cells'[2] = written[2]
       /\ sizes'[u].is = "const" => \E o \in Folds : sizes'[u] = o.result
  <2>1. \A v \in Units \ {u} : sizes'[v] = sizes[v]
    BY DEF Codegen_Array, FoldInv
  <2> QED
    BY <1>1, <2>1, FoldsStay DEF FoldInv, Steady
<1>2. cells[1] = written[1] /\ cells[2] = written[2]
  BY DEF FoldInv
<1>3. PICK x : Folds = {Outcome(x, written[1], written[2])}
  BY ArithmeticAssumption, OneOutcome DEF Folds, Steady
<1>4. PICK o \in Folds : /\ sizes'[u] \in {o.result, Error(279)}
                         /\ cells' = o.cells
  BY <1>2 DEF Codegen_Array, FoldInv, Folds
<1>5. cells' = <<written[1], written[2]>>
  BY <1>3, <1>4, OutcomeIs
<1>6. sizes'[u].is = "const" => sizes'[u] = o.result
  BY <1>4 DEF Error
<1> QED
  BY <1>4, <1>5, <1>6

LEMMA FoldStep == FoldInv /\ [FoldingNext]_foldingVars => FoldInv'
<1>1. FoldInv /\ UNCHANGED foldingVars => FoldInv'
  BY FoldsStay DEF FoldInv, foldingVars, Steady
<1> QED
  BY <1>1, VariableStep, ArrayStep DEF FoldingNext

(* Every unit and every table has the same constant for a variable, in      *)
(* whatever order they evaluate its expression, for words of every width.   *)
THEOREM OneConstant == FoldingSpec => []SameEverywhere
<1>1. FoldInv => SameEverywhere
  <2> SUFFICES ASSUME FoldInv, Steady,
                      NEW c \in {generated[u] : u \in Units} \cup {sizes[u] : u \in Units}, c.is = "const",
                      NEW d \in {generated[u] : u \in Units} \cup {sizes[u] : u \in Units}, d.is = "const"
               PROVE  c = d
    BY DEF SameEverywhere, Steady
  <2>1. PICK x : Folds = {Outcome(x, written[1], written[2])}
    BY ArithmeticAssumption, OneOutcome DEF Folds, Steady
  <2>2. (\E o \in Folds : c = o.result) /\ (\E o \in Folds : d = o.result)
    BY DEF FoldInv
  <2> QED
    BY <2>1, <2>2
<1>2. FoldInv /\ [FoldingNext]_foldingVars => FoldInv'
  BY FoldStep
<1> QED
  BY <1>1, <1>2, FoldInit, PTL DEF FoldingSpec

=============================================================================
