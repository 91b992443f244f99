------------------------------ MODULE MCPipeline ------------------------------
(* Two source files, a library file and two binding files.  A source file     *)
(* imports the other one, the library file, a binding the other one imports   *)
(* too, an absent file of each origin, or re-exports the library file; a      *)
(* binding imports the other binding.                                         *)
EXTENDS Pipeline

CONSTANTS s1, s2, lib, b1, b2, gone

MCFound == <<s1, s2>>
MCLibraries == {lib}
MCBindings == {b1, b2}
MCAbsent == {gone}

Import(p, o) == [path |-> p, from |-> o, form |-> "import"]
Reexport(p, o) == [path |-> p, from |-> o, form |-> "reexport"]
MCImports == [u \in Units |->
  CASE u = s1 -> {Import(s2, "src"), Import(lib, "lib"), Import(b1, "bind"), Import(gone, "self")}
    [] u = s2 -> {Import(b1, "bind"), Import(b2, "bind"), Import(gone, "bind"), Reexport(lib, "lib")}
    [] u = b2 -> {Import(b1, "bind")}
    [] OTHER  -> {}]
MCBlank == {b1}

=============================================================================
