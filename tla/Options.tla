------------------------------- MODULE Options -------------------------------
(***************************************************************************)
(* The options of one compilation.  The toolchain writes a manifest, and    *)
(* profiles for a new workspace; the user edits them and starts the         *)
(* compiler, which reads the manifest, applies the profiles it lists, then  *)
(* the profiles of the command line, then the command line itself           *)
(* (configurator.cpp, compiler_options.cpp, utils.cpp, commands.cpp).       *)
(*                                                                          *)
(* An option is a field; a file maps the keys it holds to raw values.  The  *)
(* values of a field are few: None, the one the program starts from         *)
(* ("standard"), the one detected on the host, and those a file or a        *)
(* command gives.  A flag set is a set of flags, a list a sequence.         *)
(***************************************************************************)
EXTENDS Integers, Sequences, FiniteSets

CONSTANTS Studied,   \* the sets of fields one behaviour gives values to
          Names,     \* the names of profiles
          Triples,   \* the triples --preset is given
          Lists      \* the lists of profiles a manifest or a command gives

None == "NONE"

-----------------------------------------------------------------------------
(* Manifest and Profile: their fields, and what a new object holds.         *)

Enums == {"arch", "platform", "vendor", "abi", "call_convention", "reloc_model", "code_model", "optimization",
          "log_level", "warn_level", "error", "out_format", "libc", "std", "env"}
Strings == {"project_name", "cpu", "sysroot", "overlay"}
Dirs == {"build", "source", "dir_profile", "dir_vendor", "binding", "ffi_json", "compiler", "stdlib", "packages"}
Flags == {"features", "emits", "logs", "warns", "debugs", "c_source"}
CStrings == {"undefines", "llvm_args", "c_args"}
Bools == {"debug", "verify_module", "disable_builtins", "strict_aliasing"}
Scalars == Enums \cup Strings \cup Dirs
Fields == Scalars \cup Flags \cup CStrings \cup Bools \cup {"libc_version", "profiles", "defines"}

ASSUME OptionsAssumption == Studied \subseteq SUBSET Fields

\* The fields whose initialiser is a value of their own: PIE, small, O0, W0, fail_fatal, "./build" ...
Filled == {"reloc_model", "code_model", "optimization", "warn_level", "error", "out_format"}
Defaults ==
  [f \in Fields |->
    CASE f \in Filled \cup (Dirs \ {"stdlib", "packages"}) -> "standard"
      [] f = "emits" -> {"standard"}
      [] f \in Flags \ {"emits"} -> {}
      [] f \in Bools -> f = "verify_module"
      [] f = "libc_version" -> [major |-> 0, minor |-> 0]
      [] f \in CStrings \cup {"profiles", "defines"} -> <<>>
      [] OTHER -> None]

get_current ==
  [f \in Fields |-> IF f \in {"arch", "vendor", "platform", "abi", "call_convention", "std", "env"} THEN "host"
                    ELSE IF f = "c_source" THEN {"host"}
                    ELSE IF f = "project_name" THEN "name" ELSE Defaults[f]]

-----------------------------------------------------------------------------
(* Triples and presets of the command line.                                 *)

\* TargetTriple::parse: the parts of the text in the order arch, vendor, platform, abi.
Part(s, i) == IF i <= Len(s) THEN s[i] ELSE None
parse_triple(s) == [arch |-> Part(s, 1), vendor |-> Part(s, 2), platform |-> Part(s, 3), abi |-> Part(s, 4)]

\* LibCVersion::parse: without a dot the whole is the major version.
parse_version(s) == [major |-> IF s = <<>> THEN 0 ELSE s[1], minor |-> IF Len(s) < 2 THEN 0 ELSE s[2]]

Bsd == {"_freebsd", "_openbsd", "_netbsd", "_dragonflybsd"}
C(libc, std, source, env) == [libc |-> libc, std |-> std, c_source |-> source, env |-> env]
PresetC(t) ==
  CASE t.platform = "_linux" -> C(IF t.abi = "gnu" THEN "glibc" ELSE "musl", "gnu17", {"_gnu"}, "gnu")
    [] t.platform \in {"_macos", "_ios"} -> C("libsystem", "gnu17", {"_darwin"}, "darwin")
    [] t.platform = "_windows" -> C("ucrt", "c17", {"_crt_secure_no_warnings"}, "msvc")
    [] t.platform \in Bsd -> C("bsd_libc", "gnu17", {"_bsd"}, "gnu")
    [] t.abi = "wasm32" \/ t.arch = "wasm32" -> C(None, "c17", {}, "wasi")
    [] OTHER -> C(None, "c17", {}, "baremetal")
Hosted(t) == t.platform \in {"_linux", "_macos", "_ios"} \cup Bsd
Bare(t) == PresetC(t).env = "baremetal"

\* Manifest::get_preset.  The architecture and the vendor of the triple are dropped.
get_preset(t) ==
  [f \in Fields |->
    CASE f \in {"platform", "abi"} -> t[f]
      [] f = "call_convention" -> "derived"
      [] f = "reloc_model" -> IF Hosted(t) THEN "standard" ELSE "STATIC"
      [] f \in {"libc", "std", "c_source", "env"} -> PresetC(t)[f]
      [] f = "disable_builtins" -> Bare(t)
      [] OTHER -> Defaults[f]]

\* Commander::compilation_args: the options that exist.  They are handled in the order of
\* their definition, and --preset replaces everything the ones before it have set.
CliFields == Fields \ {"sysroot", "std", "env", "c_source", "dir_profile", "llvm_args", "c_args",
                       "disable_builtins", "strict_aliasing"}
BeforePreset == {"project_name", "profiles"}
compilation_args(given, preset) ==
  [f \in Fields |->
    IF f \in DOMAIN given /\ (preset = <<>> \/ f \notin BeforePreset) THEN given[f]
    ELSE IF preset # <<>> THEN get_preset(parse_triple(preset))[f]
    ELSE Defaults[f]]

-----------------------------------------------------------------------------
(* The files: the values they set, and the modes of their sets of options.  *)
(* A key is named by its field, except the two of [diagnostic]: a manifest  *)
(* is written with the dotted keys and read with the plain ones, a profile  *)
(* the other way round.                                                     *)

DottedKey == [f \in Fields |-> IF f = "error" THEN "error.mode" ELSE IF f = "out_format" THEN "out.format" ELSE f]
PlainKey == [f \in Fields |-> f]
MANIFEST_TOML_TEMPLATE == DottedKey

\* The values written without --no-env stripped: the target and the C library.
EnvFields == {"arch", "platform", "vendor", "abi", "call_convention", "cpu", "features", "code_model", "reloc_model",
              "libc_version", "libc", "std", "c_source", "env", "sysroot", "llvm_args", "c_args", "undefines", "defines"}
Empty(f) == IF f \in Scalars THEN None ELSE IF f \in Flags THEN {} ELSE <<>>
Written(options, use_env, f) ==
  CASE f \in EnvFields -> IF ~use_env THEN Empty(f)
                          ELSE IF f = "libc_version" THEN <<options[f].major, options[f].minor>> ELSE options[f]
    [] f = "debug" -> TRUE
    [] f = "optimization" -> "standard"
    [] f = "logs" -> {"all"}
    [] f = "log_level" -> "normal"
    [] f = "warn_level" -> "0"                                  \* a number, not the name of a level
    [] f \in {"compiler", "stdlib", "packages"} -> "home"
    [] f = "verify_module" -> IF use_env THEN options[f] ELSE TRUE
    [] f \in Bools \ {"debug", "verify_module"} -> IF use_env THEN options[f] ELSE FALSE
    [] OTHER -> options[f]
\* Manifest::write_manifest, of the options of get_current, whose lists are empty.
File(set) == [set |-> set, mode |-> <<>>]
write_manifest(options, use_env) ==
  File([key \in {MANIFEST_TOML_TEMPLATE[f] : f \in Fields \ {"overlay"}} |->
          Written(options, use_env, CHOOSE f \in Fields : MANIFEST_TOML_TEMPLATE[f] = key)])

\* Every field of the template of profiles is commented out: a written profile sets nothing.
PROFILE_TOML_TEMPLATE == {}
write_profile(options) == File([f \in PROFILE_TOML_TEMPLATE |-> options[f]])

-----------------------------------------------------------------------------
(* Reading.                                                                 *)

Raw(keys, key, absent) == IF key \in DOMAIN keys THEN keys[key] ELSE absent

\* resolve_path of an empty text is the directory it is relative to.
resolve_path(dir) == IF dir = None THEN "project" ELSE dir

\* A number has no text, and value_or gives the empty one: no level is called so.
from_str(value) == IF value = "0" THEN None ELSE value

\* get_str(...) is a pointer, and as a bool always true.
PointerBools == {"disable_builtins", "strict_aliasing"}
Unread == {"call_convention", "debugs", "overlay"}
\* The texts of a C list belong to the table of the file; "at" tells one reading from another.
Parsed(file, keys, at) ==
  [f \in Fields |->
    CASE f \in Unread -> Defaults[f]
      [] f \in Enums \ Unread -> from_str(Raw(file.set, keys[f], None))
      [] f \in Strings \ Unread -> Raw(file.set, keys[f], None)
      [] f \in Dirs -> resolve_path(Raw(file.set, keys[f], None))
      [] f \in Flags \ Unread -> Raw(file.set, keys[f], {})
      [] f \in PointerBools -> TRUE
      [] f \in Bools \ PointerBools -> Raw(file.set, keys[f], FALSE)
      [] f = "libc_version" -> parse_version(Raw(file.set, keys[f], <<>>))
      [] f \in CStrings -> [i \in DOMAIN Raw(file.set, keys[f], <<>>) |-> <<file.set[keys[f]][i], at>>]
      [] f \in {"profiles", "defines"} -> Raw(file.set, keys[f], <<>>)]

read_manifest(file) ==
  LET read == Parsed(file, PlainKey, 0)
  IN [f \in Fields |-> IF f \in Filled /\ read[f] = None THEN "standard"
                       ELSE IF f = "emits" /\ read[f] = {} THEN {"standard"} ELSE read[f]]

\* contains("a.b") asks for a key of the root, so no boolean is ever there.
Modes == {None, "union", "override", "inter", "!inter"}
read_profile(file, at) ==
  [options |-> [Parsed(file, DottedKey, at) EXCEPT !["project_name"] = None],
   mode |-> [f \in Fields |-> IF f = "debugs" THEN None ELSE Raw(file.mode, f, None)],
   has |-> {}]

-----------------------------------------------------------------------------
(* Merging.                                                                 *)

\* The mode _override keeps what was there.
replaced_bits(dest, val, mode) == IF mode \in {None, "union"} THEN val ELSE dest
merge_bitwise(dest, val, mode) ==
  CASE mode = "override" -> dest
    [] mode \in {None, "union"} -> dest \cup val
    [] mode = "inter" -> dest \cap val
    [] mode = "!inter" -> dest \ val

\* merge_list_str and merge_list_cstr: the elements of the second are pointers, here
\* <<text, at>>.  _override falls through into the intersection of val with itself.
Among(list, s) == SelectSeq(list, LAMBDA e : e \in s)
Elements(list) == {list[i] : i \in DOMAIN list}
merge_list(dest, val, mode) ==
  CASE mode \in {None, "union"} -> dest \o val
    [] mode = "override" -> Among(val, Elements(val))
    [] mode = "inter" -> Among(dest, Elements(val))
    [] mode = "!inter" -> SelectSeq(dest, LAMBDA e : e \notin Elements(val))

\* merge_map: a list of <<key, value>>; the value "!" takes the key away.
KeyIn(list, key) == \E i \in DOMAIN list : list[i][1] = key
Removes(list, key) == \E i \in DOMAIN list : list[i] = <<key, "!">>
Kept(list) == SelectSeq(list, LAMBDA p : p[2] # "!")
Overridden(dest, val) ==
  [i \in DOMAIN dest |->
     IF KeyIn(val, dest[i][1])
     THEN val[CHOOSE j \in DOMAIN val : val[j][1] = dest[i][1]] ELSE dest[i]]
merge_map(dest, val, mode) ==
  CASE mode = None -> dest
    [] mode = "union" -> Kept(Overridden(dest, val))
                           \o SelectSeq(val, LAMBDA p : p[2] # "!" /\ ~KeyIn(dest, p[1]))
    [] mode = "override" -> Kept(val)
    [] mode = "inter" -> SelectSeq(dest, LAMBDA p : KeyIn(val, p[1]) /\ ~Removes(val, p[1]))
    [] mode = "!inter" -> SelectSeq(dest, LAMBDA p : ~KeyIn(val, p[1]))

AppliedAlways(dest, val) == val
Applied(dest, val) == IF val = None THEN dest ELSE val

\* Profile::merge_context.  A relocation model replaces the abi, and not the model.
merge_context(layer, base) ==
  [f \in Fields |->
    LET val == layer.options[f]
    IN CASE f = "abi" -> IF layer.options.reloc_model # None THEN val ELSE Applied(base[f], val)
         [] f = "reloc_model" -> base[f]
         [] f \in Scalars \ {"abi", "reloc_model"} -> Applied(base[f], val)
         [] f \in Flags -> merge_bitwise(base[f], val, layer.mode[f])
         [] f \in Bools -> IF f \in layer.has THEN val ELSE base[f]
         [] f = "libc_version" -> IF val.minor # 0 /\ val.major # 0 THEN val ELSE base[f]
         [] f \in CStrings \cup {"profiles"} -> merge_list(base[f], val, layer.mode[f])
         [] f = "defines" -> merge_map(base[f], val, layer.mode[f])]

-----------------------------------------------------------------------------
(* One project, and one process of the compiler.                            *)

VARIABLES studied,   \* the fields this behaviour is about
          files,     \* path -> contents: "manifest" and the profiles, in the standard directory
          given,     \* the options of the command, and its triple
          preset,
          options,   \* OPTIONS
          source,    \* the loop of apply_foreach_profiles: "manifest" or "command"
          queue,     \* what it has not visited
          torn,      \* OPTIONS.profiles was replaced under it
          reads,     \* how often a file was read
          filename,  \* the static text of get_profile_filename
          phase

vars == <<studied, files, given, preset, options, source, queue, torn, reads, filename, phase>>
project == <<studied, files, given, preset>>

\* The command line as the compiler parses it.
command_args == compilation_args(given, preset)

Value(f, v) ==
  CASE f \in Scalars -> IF v = "cli" THEN {v, "standard"} ELSE {v}
    [] f \in Flags -> {{v, "all"}}
    [] f \in Bools -> BOOLEAN
    [] f = "libc_version" -> {<<2>>, <<2, 3>>}
    [] f \in CStrings -> {<<v, "all">>}
    [] f = "profiles" -> Lists
    [] f = "defines" -> {<<<<"key", v>>>>, <<<<"key", "!">>, <<v, v>>>>}
\* The same on the command line, as its options store it.
CliValue(f) ==
  CASE f = "libc_version" -> {parse_version(s) : s \in Value(f, "cli")}
    [] f \in CStrings -> {[i \in DOMAIN s |-> <<s[i], "cli">>] : s \in Value(f, "cli")}
    [] OTHER -> Value(f, "cli")

Init ==
  /\ studied \in Studied
  /\ files = <<>> /\ given = <<>> /\ preset = <<>>
  /\ options = Defaults
  /\ source = "manifest" /\ queue = <<>> /\ torn = FALSE /\ reads = 1
  /\ filename = <<>>
  /\ phase = "empty"

Set(file, key, value) == [k \in DOMAIN file \cup {key} |-> IF k = key THEN value ELSE file[k]]
process == <<options, source, queue, torn, reads, filename>>

\* tolza new manifest: the host's options, or none of them with --no-env.
NewManifest ==
  /\ phase = "empty"
  /\ \E use_env \in BOOLEAN : files' = [p \in {"manifest"} |-> write_manifest(get_current, use_env)]
  /\ phase' = "edit"
  /\ UNCHANGED <<studied, given, preset, process>>

\* generate_tolza_workspace: the manifest without the host's options, and two profiles.
generate_tolza_workspace ==
  /\ phase = "empty"
  /\ files' = [p \in {"manifest", "debug", "release"} |->
                 IF p = "manifest" THEN write_manifest(get_current, FALSE) ELSE write_profile(get_current)]
  /\ phase' = "edit"
  /\ UNCHANGED <<studied, given, preset, process>>

\* tolza new profile, before the user edits anything.
NewProfile ==
  /\ phase = "edit" /\ "debug" \notin DOMAIN files /\ files["manifest"].mode = <<>>
  /\ files' = [p \in DOMAIN files \cup {"debug"} |-> IF p = "debug" THEN write_profile(get_current) ELSE files[p]]
  /\ UNCHANGED <<studied, given, preset, process, phase>>

\* The user writes a manifest by hand, with nothing in it yet.
OwnManifest ==
  /\ phase = "empty"
  /\ files' = [p \in {"manifest"} |-> File(<<>>)]
  /\ phase' = "edit"
  /\ UNCHANGED <<studied, given, preset, process>>

\* The user sets the fields of interest in the manifest or in a profile, under the keys of the
\* templates, with a mode or without.
EditFile(path, keys, v) ==
  /\ phase = "edit" /\ path \in DOMAIN files /\ files[path].mode = <<>>
  /\ \E f \in studied, mode \in Modes :
       /\ f \in Flags \cup CStrings \cup {"defines"} \/ mode = None
       /\ \E value \in Value(f, v) :
            files' = [files EXCEPT ![path] = [set |-> Set(@.set, keys[f], value), mode |-> Set(@.mode, f, mode)]]
  /\ UNCHANGED <<studied, given, preset, process>>
EditManifest ==
  /\ EditFile("manifest", MANIFEST_TOML_TEMPLATE, "file") /\ phase' \in {"edit", "list"}
EditProfile ==
  /\ EditFile("debug", PlainKey, "profile") /\ phase' = "edit"

\* The user lists profiles in the manifest.
ListProfiles ==
  /\ phase \in {"edit", "list"}
  /\ \E list \in Lists : files' = [files EXCEPT !["manifest"].set = Set(@, "profiles", list)]
  /\ phase' = "command"
  /\ UNCHANGED <<studied, given, preset, process>>

\* The user types the command: some of the fields of interest, profiles, perhaps a triple.
Give ==
  /\ phase = "command"
  /\ \E f \in ((studied \cap CliFields) \cup {"profiles"}) \ DOMAIN given :
       \E value \in CliValue(f) : given' = Set(given, f, value)
  /\ UNCHANGED <<studied, files, preset, process, phase>>
StartCompiler ==
  /\ phase = "command"
  /\ preset' \in Triples \cup {<<>>}
  /\ phase' = "start"
  /\ UNCHANGED <<studied, files, given, process>>

\* init_compiler_OPTIONS reads the manifest.
ReadManifest ==
  /\ phase = "start"
  /\ options' = read_manifest(files["manifest"])
  /\ queue' = options'.profiles
  /\ source' = "manifest" /\ torn' = FALSE
  /\ phase' = "apply"
  /\ UNCHANGED <<project, reads, filename>>

\* A profile counts when there is a file of its name in the directory of profiles, but what is
\* read is the manifest again.  OPTIONS is replaced, and with it the list the first loop is in:
\* every later name is read from memory that is no longer a list, and may be any or a crash.
Exists(name) == options["dir_profile"] = "standard" /\ name \in DOMAIN files
Next_(name) ==
  /\ IF Exists(name)
     THEN /\ options' = merge_context(read_profile(files["manifest"], reads), options)
          /\ reads' = reads + 1
          /\ torn' = (torn \/ source = "manifest")
     ELSE UNCHANGED <<options, reads, torn>>
  /\ queue' = Tail(queue)
apply_foreach_profiles ==
  /\ phase = "apply" /\ queue # <<>>
  /\ IF torn /\ source = "manifest"
     THEN \/ \E name \in Names : Next_(name) /\ UNCHANGED phase
          \/ phase' = "crashed" /\ UNCHANGED <<options, reads, torn, queue>>
     ELSE Next_(Head(queue)) /\ UNCHANGED phase
  /\ UNCHANGED <<project, source, filename>>

\* The second loop, over the profiles of the command line.
CommandProfiles ==
  /\ phase = "apply" /\ queue = <<>> /\ source = "manifest"
  /\ source' = "command" /\ queue' = command_args.profiles
  /\ UNCHANGED <<project, options, torn, reads, filename, phase>>

\* The command line itself, a profile without modes and without a boolean.
MergeCommand ==
  /\ phase = "apply" /\ queue = <<>> /\ source = "command"
  /\ options' = merge_context([options |-> command_args, mode |-> [f \in Fields |-> None], has |-> {}], options)
  /\ phase' = "ready"
  /\ UNCHANGED <<project, source, queue, torn, reads, filename>>

\* The first caller decides the name of the outputs.
get_profile_filename ==
  /\ phase = "ready" /\ filename = <<>>
  /\ filename' = <<IF options.project_name = None THEN "stem" ELSE options.project_name>> \o options.profiles
  /\ UNCHANGED <<project, options, source, queue, torn, reads, phase>>

Next ==
  \/ NewManifest \/ generate_tolza_workspace \/ OwnManifest \/ NewProfile
  \/ EditManifest \/ EditProfile \/ ListProfiles \/ Give \/ StartCompiler
  \/ ReadManifest \/ apply_foreach_profiles \/ CommandProfiles \/ MergeCommand
  \/ get_profile_filename

Spec == Init /\ [][Next]_vars

-----------------------------------------------------------------------------
(* Properties.                                                              *)

\* The fields that are read and merged without an accident on the way.
Decided == {"arch", "platform", "vendor", "log_level", "libc", "std", "env", "project_name", "cpu", "sysroot"}

\* The profiles the manifest and the command list and for which there is a file, and the
\* fields they have values for.
Composed ==
  LET listed == Elements(Raw(files["manifest"].set, "profiles", <<>>)) \cup Elements(command_args.profiles)
  IN {name \in listed : name \in DOMAIN files /\ options["dir_profile"] = "standard"}
SetByProfiles == UNION {DOMAIN files[name].set : name \in Composed}

\* DecidedByLastLayer: a field that no profile of the composition sets has, once the options are
\* complete, the value of the command line, and without one the value the manifest gives it,
\* however often the manifest is applied again in between (configurator.cpp, read_manifest,
\* merge_context). What profiles set is left out: profile.md has their values override the
\* manifest's, and the code never reads them (configurator.cpp:22).
DecidedByLastLayer ==
  phase = "ready" =>
    \A f \in Decided \ SetByProfiles :
      options[f] = IF command_args[f] # None THEN command_args[f]
                   ELSE Raw(files["manifest"].set, f, None)

\* FlagsKept: a set of flags that no profile of the composition sets and the manifest gives no
\* mode is what the manifest and the command put into it: nothing of that is lost, and nothing
\* is added but the flag the program starts from (merge_bitwise, merge_context). The set debugs
\* is left out: that of the manifest is never read.
FlagsKept ==
  phase = "ready" =>
    \A f \in Flags \ ({"debugs"} \cup SetByProfiles) :
      Raw(files["manifest"].mode, f, None) \in {None, "union"} =>
        LET put == Raw(files["manifest"].set, f, {}) \cup command_args[f]
        IN put \subseteq options[f] /\ options[f] \subseteq put \cup Defaults[f]

==============================================================================
