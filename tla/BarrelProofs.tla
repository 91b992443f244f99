----------------------------- MODULE BarrelProofs -----------------------------
(***************************************************************************)
(* A run of sync, killed or not, keeps the user's code: proofs for every   *)
(* tree of directories, every set of names and every number of edits and   *)
(* kills.                                                                  *)
(***************************************************************************)
EXTENDS Barrel, TLAPS

TypeInv ==
  /\ files \in [Paths -> Contents]
  /\ phase \in {"idle", "pick", "rescue", "truncate", "write", "terminated"}
  /\ phase \in {"rescue", "truncate", "write"} => dir \in Dirs
  /\ listing \subseteq Names
  /\ edits \in Nat

\* Another file than the one at path p holds the text c.
Elsewhere(c, p) == \E q \in Paths \ {p} : files[q].kind = "user" /\ c \in files[q].of

\* What the steps of write_barrel know of the file at the path of the barrel.
RescueInv == phase = "rescue" => files[BarrelPath(dir)].kind = "user"
TruncateInv ==
  phase = "truncate" /\ files[BarrelPath(dir)].kind = "user" =>
    \A c \in files[BarrelPath(dir)].of : Elsewhere(c, BarrelPath(dir))
WriteInv == phase = "write" => files[BarrelPath(dir)] = Script({})

IInv == TypeInv /\ RescueInv /\ TruncateInv /\ WriteInv

------------------------------------------------------------------------------

\* The paths a run writes to are paths of the workspace.
LEMMA PathsInside ==
  /\ \A d \in Dirs : BarrelPath(d) \in Paths /\ TempPath(d) \in Paths /\ TempPath(d) # BarrelPath(d)
  /\ \A d \in Dirs : TempPath(d) \in Rescues
  /\ \A d \in Dirs : \A h \in Home(d) : ModPath(h) \in Paths
  BY BarrelAssumption DEF Paths, BarrelPath, TempPath, Rescues, Home, ModPath

\* What files hold.
LEMMA ContentsAre ==
  /\ Nothing \in Contents /\ Nothing.kind = "none" /\ Nothing.of = {}
  /\ \A c \in SUBSET Codes : Script(c) \in Contents /\ Script(c).kind = "user" /\ Script(c).of = c
  /\ \A n \in SUBSET Names : Barrels(n) \in Contents /\ Barrels(n).kind = "barrel"
  BY DEF Contents, Nothing, Script, Barrels

LEMMA InitInv == Init => IInv
<1> SUFFICES ASSUME Init PROVE IInv
  OBVIOUS
<1>1. TypeInv
  BY ContentsAre DEF Init, TypeInv
<1> QED
  BY <1>1 DEF Init, IInv, RescueInv, TruncateInv, WriteInv

LEMMA StutterInv == IInv /\ UNCHANGED vars => IInv'
  BY DEF vars, IInv, TypeInv, RescueInv, TruncateInv, WriteInv, Elsewhere, BarrelPath

LEMMA StartInv == IInv /\ Start => IInv'
  BY DEF Start, IInv, TypeInv, RescueInv, TruncateInv, WriteInv

LEMMA ListInv == ASSUME IInv, NEW d \in Dirs, List(d) PROVE IInv'
<1>1. TypeInv'
  BY DEF List, IInv, TypeInv, InDir
<1>2. RescueInv' /\ TruncateInv' /\ WriteInv'
  BY DEF List, RescueInv, TruncateInv, WriteInv, BarrelPath
<1> QED
  BY <1>1, <1>2 DEF IInv

\* The code is copied to another path before the phase moves on.
LEMMA RescueKeeps == IInv /\ Rescue => IInv'
<1> SUFFICES ASSUME IInv, Rescue PROVE IInv'
  OBVIOUS
<1> DEFINE b == BarrelPath(dir)
<1>1. /\ phase = "rescue" /\ dir \in Dirs /\ dir' = dir /\ edits' = edits
      /\ files \in [Paths -> Contents] /\ b \in Paths /\ files[b].kind = "user"
      /\ BarrelPath(dir)' = b
  BY PathsInside DEF Rescue, IInv, TypeInv, RescueInv, BarrelPath
<1>2. ASSUME NEW p \in Paths, p # b, phase' = "truncate",
             files' = [files EXCEPT ![p] = files[b]]
      PROVE  files' \in [Paths -> Contents] /\ TruncateInv'
  <2>1. files' \in [Paths -> Contents] /\ files'[p] = files[b] /\ files'[b] = files[b]
    BY <1>1, <1>2
  <2>2. ASSUME NEW c \in files'[b].of PROVE Elsewhere(c, b)'
    BY <1>1, <1>2, <2>1, <2>2 DEF Elsewhere
  <2> QED
    BY <1>1, <2>1, <2>2 DEF TruncateInv, Elsewhere
<1>3. CASE /\ files' = [files EXCEPT ![TempPath(dir)] = files[b]]
           /\ phase' = "truncate"
           /\ listing' = listing
  <2>1. files' \in [Paths -> Contents] /\ TruncateInv'
    BY <1>1, <1>2, <1>3, PathsInside
  <2> QED
    BY <1>1, <1>3, <2>1 DEF IInv, TypeInv, RescueInv, WriteInv
<1>4. ASSUME NEW h \in Home(dir), ~Exists(ModPath(h)),
             files' = [files EXCEPT ![ModPath(h)] = files[b]],
             listing' = listing \cup {Mod}, phase' = "truncate"
      PROVE  IInv'
  <2>1. ModPath(h) \in Paths /\ ModPath(h) # b
    BY <1>1, <1>4, PathsInside DEF Exists
  <2>2. files' \in [Paths -> Contents] /\ TruncateInv'
    BY <1>2, <1>4, <2>1
  <2> QED
    BY <1>1, <1>4, <2>2, BarrelAssumption DEF IInv, TypeInv, RescueInv, WriteInv
<1>5. CASE phase' = "terminated" /\ UNCHANGED <<files, listing>>
  BY <1>1, <1>5 DEF IInv, TypeInv, RescueInv, TruncateInv, WriteInv
<1> QED
  BY <1>3, <1>4, <1>5 DEF Rescue

LEMMA TruncateKeeps == IInv /\ Truncate => IInv'
<1> SUFFICES ASSUME IInv, Truncate PROVE IInv'
  OBVIOUS
<1>1. dir \in Dirs /\ BarrelPath(dir) \in Paths /\ BarrelPath(dir)' = BarrelPath(dir) /\ Script({}) \in Contents
  BY PathsInside, ContentsAre DEF Truncate, IInv, TypeInv, BarrelPath
<1>2. TypeInv'
  BY <1>1 DEF Truncate, IInv, TypeInv
<1>3. WriteInv'
  BY <1>1 DEF Truncate, IInv, TypeInv, WriteInv
<1> QED
  BY <1>2, <1>3 DEF Truncate, IInv, RescueInv, TruncateInv

LEMMA WriteKeeps == IInv /\ Write => IInv'
<1> SUFFICES ASSUME IInv, Write PROVE IInv'
  OBVIOUS
<1>1. dir \in Dirs /\ BarrelPath(dir) \in Paths /\ Barrels(listing) \in Contents
  BY PathsInside, ContentsAre DEF Write, IInv, TypeInv
<1>2. TypeInv'
  BY <1>1 DEF Write, IInv, TypeInv
<1> QED
  BY <1>2 DEF Write, IInv, RescueInv, TruncateInv, WriteInv

LEMMA FinishInv == IInv /\ Finish => IInv'
  BY DEF Finish, IInv, TypeInv, RescueInv, TruncateInv, WriteInv

LEMMA CrashInv == IInv /\ Crash => IInv'
  BY DEF Crash, IInv, TypeInv, RescueInv, TruncateInv, WriteInv

LEMMA EditInv == ASSUME IInv, NEW p \in Paths, Edit(p) PROVE IInv'
<1>1. files' \in [Paths -> Contents]
  <2>1. \A c \in Codes : Script({c}) \in Contents
    BY ContentsAre
  <2> QED
    BY <2>1, ContentsAre DEF Edit, IInv, TypeInv
<1> QED
  BY <1>1 DEF Edit, IInv, TypeInv, RescueInv, TruncateInv, WriteInv

LEMMA StepInv == IInv /\ [Next]_vars => IInv'
<1> SUFFICES ASSUME IInv, [Next]_vars PROVE IInv'
  OBVIOUS
<1>1. CASE UNCHANGED vars
  BY <1>1, StutterInv
<1>2. CASE Sync
  BY <1>2, StartInv, ListInv, RescueKeeps, TruncateKeeps, WriteKeeps, FinishInv DEF Sync
<1>3. CASE Crash
  BY <1>3, CrashInv
<1>4. CASE Terminated
  BY <1>4, StutterInv DEF Terminated
<1>5. CASE \E p \in Paths : Edit(p)
  BY <1>5, EditInv
<1> QED
  BY <1>1, <1>2, <1>3, <1>4, <1>5 DEF Next

(* What write_barrel knows between two of its steps stays true whatever the *)
(* order of the directories, the edits and the kills.                       *)
THEOREM Invariance == Spec => []IInv
  BY InitInv, StepInv, PTL DEF Spec

------------------------------------------------------------------------------

\* The scripts a run must not touch.
Others == Paths \ (Rescues \cup {BarrelPath(d) : d \in Dirs})

LEMMA OthersStep ==
  ASSUME IInv, [Next]_vars, NEW p \in Others, edits' = edits, files[p].kind = "user"
  PROVE  files'[p] = files[p]
<1>1. p \in Paths /\ files \in [Paths -> Contents] /\ edits \in Nat
  BY DEF Others, IInv, TypeInv
<1>2. CASE Rescue
  <2>1. dir \in Dirs /\ TempPath(dir) \in Rescues
    BY <1>2, PathsInside DEF Rescue, IInv, TypeInv
  <2>2. p # TempPath(dir)
    BY <2>1 DEF Others
  <2>3. ASSUME NEW h, ~Exists(ModPath(h)) PROVE p # ModPath(h)
    BY <2>3 DEF Exists
  <2> QED
    BY <1>1, <1>2, <2>2, <2>3 DEF Rescue
<1>3. CASE Truncate \/ Write
  <2>1. dir \in Dirs
    BY <1>3 DEF Truncate, Write, IInv, TypeInv
  <2>2. p # BarrelPath(dir)
    BY <2>1 DEF Others
  <2> QED
    BY <1>1, <1>3, <2>2 DEF Truncate, Write
<1>4. CASE \E q \in Paths : Edit(q)
  BY <1>1, <1>4 DEF Edit
<1>5. CASE Start \/ Finish \/ Crash \/ Terminated \/ (\E d \in Dirs : List(d)) \/ UNCHANGED vars
  BY <1>5 DEF Start, Finish, Crash, Terminated, List, vars
<1> QED
  BY <1>2, <1>3, <1>4, <1>5 DEF Next, Sync

(* A run leaves every script of the user alone that does not stand at the   *)
(* path of a barrel or of a temporary file: write_barrel never overwrites   *)
(* an existing mod.tlz, for any tree of directories.                        *)
THEOREM OthersKept == Spec => OtherScriptsKept
<1>1. IInv /\ [Next]_vars =>
        [\A p \in Paths \ (Rescues \cup {BarrelPath(d) : d \in Dirs}) :
           edits' = edits /\ files[p].kind = "user" => files'[p] = files[p]]_vars
  BY OthersStep DEF Others
<1> QED
  BY <1>1, Invariance, PTL DEF Spec, OtherScriptsKept

------------------------------------------------------------------------------

\* A copy at a path the step leaves alone is still there.
LEMMA CopyStays ==
  ASSUME NEW c, NEW q \in Paths, files[q].kind = "user", c \in files[q].of, files'[q] = files[q]
  PROVE  Kept(c)'
  BY DEF Kept

LEMMA LastCopyStep ==
  ASSUME IInv, [Next]_vars, NEW c \in owned \cap owned', Kept(c), ~Kept(c)'
  PROVE  \E p \in Rescues : files[p].kind = "user" /\ files'[p] # files[p]
<1>1. files \in [Paths -> Contents]
  BY DEF IInv, TypeInv
<1>2. PICK q \in Paths : files[q].kind = "user" /\ c \in files[q].of
  BY DEF Kept
<1>3. ASSUME NEW r \in Paths, files[r].kind = "user", c \in files[r].of PROVE files'[r] # files[r]
  BY <1>3, CopyStays
<1>4. CASE Rescue
  <2>1. dir \in Dirs /\ TempPath(dir) \in Rescues
    BY <1>4, PathsInside DEF Rescue, IInv, TypeInv
  <2>2. ASSUME NEW h, ~Exists(ModPath(h)), files' = [files EXCEPT ![ModPath(h)] = files[BarrelPath(dir)]]
        PROVE  FALSE
    <3>1. q # ModPath(h)
      BY <1>2, <2>2 DEF Exists
    <3> QED
      BY <1>1, <1>2, <1>3, <2>2, <3>1
  <2>3. CASE files' = [files EXCEPT ![TempPath(dir)] = files[BarrelPath(dir)]]
    <3>1. q = TempPath(dir)
      BY <1>1, <1>2, <1>3, <2>3
    <3> QED
      BY <1>2, <1>3, <2>1, <3>1
  <2>4. CASE files' = files
    BY <1>2, <1>3, <2>4
  <2> QED
    BY <1>4, <2>2, <2>3, <2>4 DEF Rescue
<1>5. CASE Truncate
  <2>1. q = BarrelPath(dir) /\ phase = "truncate"
    BY <1>1, <1>2, <1>3, <1>5 DEF Truncate
  <2>2. PICK r \in Paths \ {q} : files[r].kind = "user" /\ c \in files[r].of
    BY <1>2, <2>1 DEF IInv, TruncateInv, Elsewhere
  <2> QED
    BY <1>1, <1>3, <1>5, <2>1, <2>2 DEF Truncate
<1>6. CASE Write
  <2>1. q = BarrelPath(dir) /\ files[q] = Script({})
    BY <1>1, <1>2, <1>3, <1>6 DEF Write, IInv, WriteInv
  <2> QED
    BY <1>2, <2>1, ContentsAre
<1>7. ASSUME NEW p \in Paths, Edit(p) PROVE FALSE
  <2>1. q = p
    BY <1>1, <1>2, <1>3, <1>7 DEF Edit
  <2>2. PICK e \in Codes : files' = [files EXCEPT ![p] = Script({e})] /\ c = e
    BY <1>2, <1>7, <2>1 DEF Edit
  <2>3. files'[p] = Script({c}) /\ files'[p].kind = "user" /\ c \in files'[p].of
    BY <1>1, <2>2, ContentsAre
  <2> QED
    BY <2>3 DEF Kept
<1>8. CASE Start \/ Finish \/ Crash \/ Terminated \/ (\E d \in Dirs : List(d)) \/ UNCHANGED vars
  BY <1>2, <1>3, <1>8 DEF Start, Finish, Crash, Terminated, List, vars
<1> QED
  BY <1>4, <1>5, <1>6, <1>7, <1>8 DEF Next, Sync

(* Whatever the tree, the edits and the kills: a text the user wrote and    *)
(* did not remove loses its last copy only when a temporary file is         *)
(* overwritten that already holds user code (the defect of barrel_loses_    *)
(* code); the path of a barrel is emptied only after its code was copied.   *)
THEOREM LastCopy == Spec => LastCopyKept
<1>1. IInv /\ [Next]_vars =>
        [\A c \in owned \cap owned' :
           Kept(c) /\ ~Kept(c)' =>
             \E p \in Rescues : files[p].kind = "user" /\ files'[p] # files[p]]_vars
  BY LastCopyStep
<1> QED
  BY <1>1, Invariance, PTL DEF Spec, LastCopyKept

------------------------------------------------------------------------------
(***************************************************************************)
(* Barrels are complete: a directory is written after all that are in it,  *)
(* and from then on nothing in it changes until the run ends.              *)
(***************************************************************************)

Children(d) == {e \in Dirs : Parent[e] = d}
Complete(d) == files[BarrelPath(d)] = Barrels(InDir(d))

\* The directory in hand is not done, all in it are, and the listing is up to date.
HandInv ==
  phase \in {"rescue", "truncate", "write"} =>
    dir \notin done /\ Children(dir) \subseteq done /\ listing = InDir(dir)
\* What is done is complete, and so are the directories in it.
DoneInv ==
  synced \/ phase \in {"pick", "rescue", "truncate", "write"} =>
    \A d \in done : Complete(d) /\ Children(d) \subseteq done
CompleteInv ==
  /\ done \subseteq Dirs
  /\ synced => phase = "idle" /\ done = Dirs
  /\ HandInv
  /\ DoneInv

LEMMA ChildrenBelow == ASSUME NEW d PROVE Children(d) \subseteq Below(d)
  BY DEF Children, Below, Downward

\* The directory in hand is not in itself, nor in one that is done.
LEMMA HandFacts ==
  ASSUME IInv, CompleteInv, phase \in {"rescue", "truncate", "write"}
  PROVE  /\ dir \in Dirs \ done /\ listing = InDir(dir)
         /\ Parent[dir] \notin done /\ Parent[dir] # dir
         /\ \A d \in done : Complete(d) /\ d \in Dirs
         /\ files \in [Paths -> Contents]
  BY DEF IInv, TypeInv, CompleteInv, HandInv, DoneInv, Children

\* A file of another directory is no entry of d; one that was there stays one.
LEMMA EntriesStay ==
  ASSUME NEW p \in Paths, NEW c \in Contents, files \in [Paths -> Contents],
         files' = [files EXCEPT ![p] = c], NEW d \in Dirs, p[1] # d
  PROVE  InDir(d)' = InDir(d)
<1>1. \A n \in Names : <<d, n>> \in Paths /\ <<d, n>> # p
  BY DEF Paths
<1> QED
  BY <1>1 DEF InDir, Exists

\* A write outside of what is done leaves it complete.
LEMMA DoneStay ==
  ASSUME NEW p \in Paths, NEW c \in Contents, files \in [Paths -> Contents],
         files' = [files EXCEPT ![p] = c], NEW d \in Dirs, Complete(d), p[1] # d, p # BarrelPath(d)
  PROVE  Complete(d)'
<1>1. InDir(d)' = InDir(d) /\ BarrelPath(d) \in Paths /\ BarrelPath(d)' = BarrelPath(d)
  BY EntriesStay, PathsInside DEF BarrelPath
<1> QED
  BY <1>1 DEF Complete, Barrels

LEMMA CompleteList ==
  ASSUME IInv, CompleteInv, NEW d \in Dirs, List(d) PROVE CompleteInv'
<1>1. d \in Dirs \ done /\ Children(d) \subseteq done
  BY ChildrenBelow DEF List, NextDirs
<1>2. HandInv'
  BY <1>1 DEF List, HandInv, InDir, Exists, Children
<1>3. DoneInv'
  BY DEF List, CompleteInv, DoneInv, Complete, InDir, Exists, BarrelPath, Children
<1> QED
  BY <1>2, <1>3 DEF List, CompleteInv

LEMMA CompleteRescue ==
  ASSUME StemsDiffer, IInv, CompleteInv, Rescue PROVE CompleteInv'
<1> DEFINE b == BarrelPath(dir)
<1>1. /\ dir \in Dirs \ done /\ listing = InDir(dir) /\ Parent[dir] \notin done /\ Parent[dir] # dir
      /\ \A d \in done : Complete(d) /\ d \in Dirs
      /\ files \in [Paths -> Contents] /\ files[b] \in Contents /\ Exists(b)
  BY HandFacts, PathsInside DEF Rescue, IInv, TypeInv, RescueInv, Exists
<1>2. /\ dir' = dir /\ done' = done /\ synced' = synced /\ ~synced
      /\ phase = "rescue" /\ Children(dir) \subseteq done /\ done \subseteq Dirs
      /\ \A d \in done : Children(d) \subseteq done
  BY DEF Rescue, CompleteInv, HandInv, DoneInv
<1>3. PICK h \in Dirs : h = dir
  BY <1>1
<1>4. ASSUME NEW p \in Paths, files' = [files EXCEPT ![p] = files[b]], phase' = "truncate",
             listing' = InDir(h)', \A d \in done : p[1] # d /\ p # BarrelPath(d)
      PROVE  CompleteInv'
  <2>1. \A d \in done : Complete(d)'
    BY <1>1, <1>4, DoneStay
  <2>2. listing' = InDir(dir)'
    BY <1>2, <1>3, <1>4 DEF InDir, Exists
  <2> QED
    BY <1>2, <1>4, <2>1, <2>2 DEF CompleteInv, HandInv, DoneInv, Children
<1>5. CASE files' = [files EXCEPT ![TempPath(dir)] = files[b]] /\ phase' = "truncate" /\ listing' = listing
  <2>1. TempPath(dir) \in Paths /\ TempPath(dir)[1] = Parent[dir]
    BY <1>1, PathsInside DEF TempPath
  <2>2. \A d \in done : TempPath(dir) # BarrelPath(d)
    BY <1>1, BarrelAssumption DEF TempPath, BarrelPath
  <2>3. InDir(h)' = InDir(h)
    BY <1>1, <1>3, <1>5, <2>1, EntriesStay
  <2> QED
    BY <1>1, <1>3, <1>4, <1>5, <2>1, <2>2, <2>3
<1>6. ASSUME NEW e \in Home(dir), ~Exists(ModPath(e)), files' = [files EXCEPT ![ModPath(e)] = files[b]],
             listing' = listing \cup {Mod}, phase' = "truncate"
      PROVE  CompleteInv'
  <2>1. e = h /\ ModPath(e) \in Paths /\ ModPath(e) = <<h, Mod>>
    BY <1>1, <1>3, <1>6, PathsInside DEF StemsDiffer, Home, ModPath
  <2>2. ASSUME NEW d \in done PROVE ModPath(e) # BarrelPath(d)
    <3>1. files[BarrelPath(d)].kind = "barrel"
      <4>1. InDir(d) \in SUBSET Names
        BY DEF InDir
      <4> QED
        BY <1>1, <2>2, <4>1, ContentsAre DEF Complete
    <3> QED
      BY <1>6, <3>1 DEF Exists
  <2>3. InDir(h)' = InDir(h) \cup {Mod}
    <3>1. \A q \in Paths : Exists(q)' <=> Exists(q) \/ q = ModPath(e)
      BY <1>1, <1>6, <2>1 DEF Exists
    <3>2. \A n \in Names : <<h, n>> \in Paths /\ (<<h, n>> = ModPath(e) <=> n = Mod)
      BY <1>1, <2>1 DEF Paths
    <3>3. \A n \in Names : Exists(<<h, n>>)' <=> Exists(<<h, n>>) \/ n = Mod
      BY <3>1, <3>2
    <3>4. Mod \in Names
      BY BarrelAssumption
    <3> QED
      BY <3>3, <3>4 DEF InDir
  <2> QED
    BY <1>1, <1>3, <1>4, <1>6, <2>1, <2>2, <2>3
<1>7. CASE phase' = "terminated" /\ UNCHANGED <<files, listing>>
  BY <1>2, <1>7 DEF CompleteInv, HandInv, DoneInv
<1> QED
  BY <1>5, <1>6, <1>7 DEF Rescue

\* Emptying and writing the barrel: only the directory around it gets another entry.
LEMMA CompleteBarrel ==
  ASSUME StemsDiffer, IInv, CompleteInv, phase \in {"truncate", "write"}, NEW c \in Contents,
         NEW h, h = dir, files' = [files EXCEPT ![BarrelPath(h)] = c]
  PROVE  /\ \A d \in done : Complete(d)'
         /\ InDir(h)' = InDir(h)
         /\ files'[BarrelPath(h)] = c
<1>1. /\ h \in Dirs \ done /\ Parent[h] \notin done /\ Parent[h] # h
      /\ \A d \in done : Complete(d) /\ d \in Dirs
      /\ files \in [Paths -> Contents]
  BY HandFacts
<1>2. BarrelPath(h) \in Paths /\ BarrelPath(h)[1] = Parent[h]
  BY <1>1, PathsInside DEF BarrelPath
<1>3. \A d \in done : BarrelPath(d) # BarrelPath(h)
  BY <1>1 DEF StemsDiffer, BarrelPath
<1>4. \A d \in done : Complete(d)'
  BY <1>1, <1>2, <1>3, DoneStay
<1>5. InDir(h)' = InDir(h)
  BY <1>1, <1>2, EntriesStay
<1> QED
  BY <1>1, <1>2, <1>4, <1>5

LEMMA CompleteTruncate ==
  ASSUME StemsDiffer, IInv, CompleteInv, Truncate PROVE CompleteInv'
<1>1. PICK h : h = dir
  OBVIOUS
<1>2. (\A d \in done : Complete(d)') /\ InDir(h)' = InDir(h)
  BY <1>1, CompleteBarrel, ContentsAre DEF Truncate
<1>3. InDir(dir)' = InDir(dir)
  BY <1>1, <1>2 DEF Truncate, InDir, Exists
<1> QED
  BY <1>2, <1>3 DEF Truncate, CompleteInv, HandInv, DoneInv, Children

LEMMA CompleteWrite ==
  ASSUME StemsDiffer, IInv, CompleteInv, Write PROVE CompleteInv'
<1>1. PICK h : h = dir
  OBVIOUS
<1>2. h \in Dirs /\ listing = InDir(h) /\ Barrels(listing) \in Contents
  BY <1>1, HandFacts, ContentsAre DEF Write, IInv, TypeInv
<1>3. files' = [files EXCEPT ![BarrelPath(h)] = Barrels(listing)]
  BY <1>1 DEF Write
<1>4. /\ \A d \in done : Complete(d)'
      /\ InDir(h)' = InDir(h)
      /\ files'[BarrelPath(h)] = Barrels(listing)
  BY <1>1, <1>2, <1>3, CompleteBarrel DEF Write
<1>5. BarrelPath(h)' = BarrelPath(h)
  BY DEF BarrelPath
<1>6. Complete(h)'
  BY <1>2, <1>4, <1>5 DEF Complete
<1>7. /\ done' = done \cup {h} /\ phase' = "pick" /\ synced' = synced /\ ~synced
      /\ \A d \in done' : Children(d) \subseteq done
      /\ done \subseteq Dirs
  BY <1>1 DEF Write, CompleteInv, HandInv, DoneInv
<1>8. \A d \in done' : Complete(d)' /\ Children(d)' \subseteq done'
  BY <1>4, <1>6, <1>7 DEF Children
<1> QED
  BY <1>2, <1>7, <1>8 DEF CompleteInv, HandInv, DoneInv

LEMMA CompleteStep == ASSUME StemsDiffer, IInv, CompleteInv, [Next]_vars PROVE CompleteInv'
<1>1. CASE Start
  BY <1>1 DEF Start, CompleteInv, HandInv, DoneInv
<1>2. CASE Finish
  BY <1>2 DEF Finish, CompleteInv, HandInv, DoneInv, Complete, InDir, Exists, BarrelPath, Children
<1>3. CASE Crash
  BY <1>3 DEF Crash, CompleteInv, HandInv, DoneInv
<1>4. ASSUME NEW p \in Paths, Edit(p) PROVE CompleteInv'
  BY <1>4 DEF Edit, CompleteInv, HandInv, DoneInv
<1>5. CASE UNCHANGED vars
  BY <1>5 DEF vars, CompleteInv, HandInv, DoneInv, Complete, InDir, Exists, BarrelPath, Children
<1> QED
  BY <1>1, <1>2, <1>3, <1>4, <1>5, CompleteList, CompleteRescue, CompleteTruncate, CompleteWrite
     DEF Next, Sync, Terminated

(* After a complete run every barrel names exactly what is in its directory, *)
(* in any tree of directories in which no two of one directory share a stem  *)
(* (they would share a barrel) and none has the stem of another for a name   *)
(* (it would get that one's code), with any edits before and runs killed.    *)
THEOREM CompleteBarrels == StemsDiffer => (Spec => []BarrelsComplete)
<1> SUFFICES ASSUME StemsDiffer PROVE Spec => []BarrelsComplete
  OBVIOUS
<1>1. Init => CompleteInv
  BY DEF Init, CompleteInv, HandInv, DoneInv
<1>2. IInv /\ CompleteInv /\ [Next]_vars => CompleteInv'
  BY CompleteStep
<1>3. CompleteInv => BarrelsComplete
  BY DEF CompleteInv, DoneInv, Complete, BarrelsComplete
<1> QED
  BY <1>1, <1>2, <1>3, Invariance, PTL DEF Spec

=============================================================================
