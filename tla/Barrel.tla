-------------------------------- MODULE Barrel --------------------------------
(***************************************************************************)
(* `tolza sync': a barrel file beside every directory, which re-exports    *)
(* the scripts of the directory (synchronize in                            *)
(* toolchain/src/command_workspace.cpp, write_barrel in                    *)
(* common/src/common/fileutils.cpp).                                       *)
(*                                                                         *)
(* The barrel of directory foo is foo.tlz in the parent directory.  A      *)
(* script the user has put there is moved to foo/mod.tlz or, when that     *)
(* exists, to .foo..tlz.  The user edits files between the runs, and a run *)
(* may be killed between two of its writes.                                *)
(***************************************************************************)
EXTENDS Naturals

CONSTANTS
  Dirs,        \* the directories below the one that is synchronised
  Top,         \* the directory that is synchronised
  Parent,      \* Parent[d]: the directory that holds d
  Names,       \* the names a .tlz file may have, without the extension
  Mod,         \* the name "mod"
  DirName,     \* DirName[d]: the name of d
  Stem,        \* Stem[d]: path.stem() of d, which drops what follows its last dot
  Temp,        \* Temp[n]: the name of .n..tlz without its extension
  Codes,       \* what a user may write into a script
  MaxEdits,    \* bound: edits by the user
  MaxCrashes,  \* bound: runs killed
  None         \* no directory is being written

Paths == (Dirs \cup {Top}) \X Names

ASSUME BarrelAssumption ==
  /\ Top \notin Dirs /\ None \notin Dirs
  /\ Parent \in [Dirs -> Dirs \cup {Top}]
  /\ DirName \in [Dirs -> Names] /\ Stem \in [Dirs -> Names] /\ Temp \in [Names -> Names]
  /\ Mod \in Names
  /\ \A d \in Dirs, n \in Names : Temp[n] \notin {Mod, Stem[d]}
  /\ \A d, e \in Dirs : Parent[d] = Parent[e] /\ DirName[d] = DirName[e] => d = e
  /\ MaxEdits \in Nat /\ MaxCrashes \in Nat

VARIABLES
  files,    \* files[p]: what the file at path p holds
  phase,    \* where the run is
  dir,      \* the directory write_barrel is at
  listing,  \* out_str: the names the barrel will re-export
  done,     \* the directories whose barrel is written
  synced,   \* the last thing that happened to the workspace is a complete run
  owned,    \* history: what the user wrote and has not removed himself
  edits, crashes

vars == <<files, phase, dir, listing, done, synced, owned, edits, crashes>>

\* A file is absent, a barrel that names scripts, or user code.  An empty file
\* does not start with "# barrel": it is user code without a text.
Nothing == [kind |-> "none", of |-> {}]
Script(codes) == [kind |-> "user", of |-> codes]
Barrels(names) == [kind |-> "barrel", of |-> names]
Contents == {Nothing} \cup {Script(c) : c \in SUBSET Codes} \cup {Barrels(n) : n \in SUBSET Names}

Exists(p) == files[p].kind # "none"
InDir(d) == {n \in Names : Exists(<<d, n>>)}

BarrelPath(d) == <<Parent[d], Stem[d]>>
TempPath(d) == <<Parent[d], Temp[Stem[d]]>>
Rescues == {TempPath(d) : d \in Dirs}
\* No two directories of one directory have the same stem, and no stem is the name of a sibling.
StemsDiffer ==
  \A d, e \in Dirs : Parent[d] = Parent[e] /\ (Stem[d] = Stem[e] \/ Stem[d] = DirName[e]) => d = e

\* The directory at parent/stem: d itself unless the name of d holds a dot.
Home(d) == {e \in Dirs : Parent[e] = Parent[d] /\ DirName[e] = Stem[d]}
ModPath(h) == <<h, Mod>>

Init ==
  /\ files = [p \in Paths |-> Nothing]
  /\ phase = "idle"
  /\ dir = None
  /\ listing = {}
  /\ done = {}
  /\ synced = FALSE
  /\ owned = {}
  /\ edits = 0
  /\ crashes = 0

\* write_barrel visits a directory, and all that is below it, before it goes on: the
\* open directories are above the next one.
Downward(d) == {S \in SUBSET Dirs : \A e \in Dirs : Parent[e] \in S \cup {d} => e \in S}
Below(d) == {e \in Dirs : \A S \in Downward(d) : e \in S}
Open == {e \in Dirs \ done : Below(e) \cap done # {}}
\* Mutated form of NextDirs: a parent may be written before its sub-directories.
NextDirsAnyOrder == Dirs \ done

NextDirs == {d \in Dirs \ done : Below(d) \subseteq done /\ \A e \in Open : d \in Below(e) \cup {e}}

\* Mutated form of Rescue: an existing mod.tlz is replaced.
RescueToMod ==
  /\ phase = "rescue"
  /\ \E h \in Home(dir) : files' = [files EXCEPT ![ModPath(h)] = files[BarrelPath(dir)]]
  /\ listing' = listing \cup {Mod}
  /\ phase' = "truncate"
  /\ UNCHANGED <<dir, done, synced, owned, edits, crashes>>

\* Mutated form of Rescue: the code is left to be overwritten.
RescueNothing ==
  /\ phase = "rescue"
  /\ phase' = "truncate"
  /\ UNCHANGED <<files, listing, dir, done, synced, owned, edits, crashes>>

(***************************************************************************)
(* One run of synchronize.                                                 *)
(***************************************************************************)

Start ==
  /\ phase = "idle"
  /\ phase' = "pick"
  /\ done' = {}
  /\ synced' = FALSE
  /\ UNCHANGED <<files, dir, listing, owned, edits, crashes>>

\* write_barrel lists the scripts of d, sub-barrels included, then looks at what
\* stands at the path of the barrel.
List(d) ==
  /\ phase = "pick"
  /\ d \in NextDirs
  /\ dir' = d
  /\ listing' = InDir(d)
  /\ phase' = IF files[BarrelPath(d)].kind = "user" THEN "rescue" ELSE "truncate"
  /\ UNCHANGED <<files, done, synced, owned, edits, crashes>>

\* The user code is copied to mod.tlz, and listed, or over the temporary file.
\* Without a directory at parent/stem copy_file throws in a noexcept function.
Rescue ==
  /\ phase = "rescue"
  /\ \/ /\ \E h \in Home(dir) : Exists(ModPath(h))
        /\ files' = [files EXCEPT ![TempPath(dir)] = files[BarrelPath(dir)]]
        /\ phase' = "truncate"
        /\ UNCHANGED listing
     \/ \E h \in Home(dir) :
          /\ ~Exists(ModPath(h))
          /\ files' = [files EXCEPT ![ModPath(h)] = files[BarrelPath(dir)]]
          /\ listing' = listing \cup {Mod}
          /\ phase' = "truncate"
     \/ /\ Home(dir) = {}
        /\ phase' = "terminated"
        /\ UNCHANGED <<files, listing>>
  /\ UNCHANGED <<dir, done, synced, owned, edits, crashes>>

\* std::ofstream f(p) empties the file ...
Truncate ==
  /\ phase = "truncate"
  /\ files' = [files EXCEPT ![BarrelPath(dir)] = Script({})]
  /\ phase' = "write"
  /\ UNCHANGED <<dir, listing, done, synced, owned, edits, crashes>>

\* ... and the header and the listing are written.
Write ==
  /\ phase = "write"
  /\ files' = [files EXCEPT ![BarrelPath(dir)] = Barrels(listing)]
  /\ done' = done \cup {dir}
  /\ dir' = None
  /\ phase' = "pick"
  /\ UNCHANGED <<listing, synced, owned, edits, crashes>>

Finish ==
  /\ phase = "pick"
  /\ done = Dirs
  /\ phase' = "idle"
  /\ synced' = TRUE
  /\ UNCHANGED <<files, dir, listing, done, owned, edits, crashes>>

(***************************************************************************)
(* The world around it.                                                    *)
(***************************************************************************)

\* The run is killed.
Crash ==
  /\ phase \notin {"idle", "terminated"}
  /\ crashes < MaxCrashes
  /\ crashes' = crashes + 1
  /\ phase' = "idle"
  /\ dir' = None
  /\ UNCHANGED <<files, listing, done, synced, owned, edits>>

\* The user saves or removes a script; what it held before he gives up himself.
\* The temporary files belong to the run: he may only remove them.
Edit(p) ==
  /\ phase = "idle"
  /\ edits < MaxEdits
  /\ edits' = edits + 1
  /\ synced' = FALSE
  /\ \/ \E c \in Codes :
          /\ p \notin Rescues
          /\ files' = [files EXCEPT ![p] = Script({c})]
          /\ owned' = (owned \ files[p].of) \cup {c}
     \/ /\ Exists(p)
        /\ files' = [files EXCEPT ![p] = Nothing]
        /\ owned' = owned \ files[p].of
  /\ UNCHANGED <<phase, dir, listing, done, crashes>>

Terminated == phase = "terminated" /\ UNCHANGED vars

Sync == Start \/ Rescue \/ Truncate \/ Write \/ Finish \/ \E d \in Dirs : List(d)
Next == Sync \/ Crash \/ Terminated \/ \E p \in Paths : Edit(p)

Spec == Init /\ [][Next]_vars

------------------------------------------------------------------------------

\* The user's text c is in some file.
Kept(c) == \E p \in Paths : files[p].kind = "user" /\ c \in files[p].of

(* The run changes no script of the user but the one that stands at the     *)
(* path of a barrel and the temporary files: an existing mod.tlz above all  *)
(* is left alone, whatever the order of runs, edits and crashes.            *)
OtherScriptsKept ==
  [][\A p \in Paths \ (Rescues \cup {BarrelPath(d) : d \in Dirs}) :
       edits' = edits /\ files[p].kind = "user" => files'[p] = files[p]]_vars

(* The only step that can destroy the last copy of something the user wrote *)
(* is the overwriting of a temporary file that already holds user code; in  *)
(* particular a barrel's path is emptied only after its code was copied.    *)
LastCopyKept ==
  [][\A c \in owned \cap owned' :
       Kept(c) /\ ~Kept(c)' =>
         \E p \in Rescues : files[p].kind = "user" /\ files'[p] # files[p]]_vars

(* After a complete run every barrel names exactly the scripts that are in  *)
(* its directory, the sub-barrels and the scripts the run itself has moved  *)
(* included, even if an earlier run was killed halfway.                     *)
BarrelsComplete == synced => \A d \in Dirs : files[BarrelPath(d)] = Barrels(InDir(d))

(***************************************************************************)
(* What the comments say, and the code does not keep.                      *)
(***************************************************************************)

(* "do not modify any existing usercode !" (fileutils.cpp): what the user   *)
(* wrote and did not remove himself is still in some file.                  *)
NoUserCodeLost == \A c \in owned : Kept(c)

=============================================================================
