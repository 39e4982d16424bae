-------------------------------- MODULE Ftw ---------------------------------
(***************************************************************************)
(* lab_03/dir.c: a recursive walk of a tree of directories.  The program   *)
(* changes its current directory on the way down and goes back by "..",    *)
(* and names every file relative to where it believes it is, while other   *)
(* programs may move and remove files.  A call of dopath is a frame of the *)
(* stack; names are unique, so that a name found in the current directory  *)
(* is the file that was meant.  Directories are moved, not removed.        *)
(***************************************************************************)
EXTENDS Integers, Sequences, FiniteSets

CONSTANTS Dirs, Files,  \* what is in the tree
          Root,         \* the directory that the walk begins with
          Outside,      \* the directory of Root, as high as ".." goes
          Nowhere,      \* where removed files are
          Tree,         \* the directory of each file at the start
          MaxChanges    \* files moved and removed by others

Nodes == Dirs \cup Files

ASSUME TreeAssumption ==
  /\ IsFiniteSet(Nodes) /\ Dirs \cap Files = {}
  /\ Root \in Dirs /\ {Outside, Nowhere} \cap Nodes = {} /\ Outside # Nowhere
  /\ Tree \in [Nodes -> Dirs \cup {Outside}]
  /\ \A n \in Nodes : Tree[n] = Outside <=> n = Root
  /\ \A S \in SUBSET Nodes : S # {} => \E n \in S : Tree[n] \notin S
  /\ MaxChanges \in Nat

VARIABLES
  parent,   \* the directory of each file now
  cwd,      \* the current directory
  stack,    \* the calls of dopath in their loop: directory, what was in it, names read
  at, arg,  \* where the innermost dopath is, and its path
  ret,      \* its result
  g_depth,
  count,    \* how often each file has been counted, by nreg, ndir and so on
  shown,    \* the depth that each file was last printed with
  denied,   \* auxiliary: the directories that opendir has failed for
  broken,   \* auxiliary: the directories that readdir has failed in
  stuck,    \* auxiliary: a chdir("..") has failed
  changes   \* what others have changed, for MaxChanges

results == <<count, shown>>
world   == <<parent, changes>>
ftwVars    == <<world, cwd, stack, at, arg, ret, g_depth, results, denied, broken, stuck>>

Up(d) == IF d = Outside THEN Outside ELSE parent[d]

\* The directories above a file, in the tree p.
Above(p, n) ==
  LET above[m \in Nodes \cup {Outside, Nowhere}] ==
        IF m \in {Outside, Nowhere} THEN {} ELSE {p[m]} \cup above[p[m]]
  IN above[n]

Children(d) == {n \in Nodes : parent[n] = d}

FtwInit ==
  /\ parent = Tree
  /\ cwd = Outside /\ stack = <<>>
  /\ at = "lstat" /\ arg = Root /\ ret = 0
  /\ g_depth = 0
  /\ count = [n \in Nodes |-> 0]
  /\ shown = [n \in Nodes |-> -1]
  /\ denied = {} /\ broken = {} /\ stuck = FALSE
  /\ changes = 0

Top == stack[Len(stack)]
Pop == SubSeq(stack, 1, Len(stack) - 1)

\* The path is a name in the current directory.
Found == parent[arg] = cwd

\* dopath returns r to the dopath that called it, or to main.
Return(r, callers) ==
  /\ ret' = r
  /\ at' = CASE callers = <<>> -> "end"
             [] callers # <<>> /\ r = 0 -> "read"
             [] OTHER -> "leave"
-----------------------------------------------------------------------------
(* dopath.                                                                 *)

\* myfunc prints with the indentation of g_depth, and counts by type.
Report ==
  /\ count' = [count EXCEPT ![arg] = @ + 1]
  /\ shown' = [shown EXCEPT ![arg] = g_depth]

LstatFile ==
  /\ at = "lstat" /\ Found
  /\ arg \in Files
  /\ Report
  /\ Return(0, stack)
  /\ UNCHANGED <<world, cwd, stack, arg, g_depth, denied, broken, stuck>>

LstatDir ==
  /\ at = "lstat" /\ Found
  /\ arg \in Dirs
  /\ Report
  /\ at' = "open"
  /\ g_depth' = g_depth + 1
  /\ UNCHANGED <<world, cwd, stack, arg, ret, denied, broken, stuck>>

\* The file is not there, or may not be looked at: the program exits.
LstatFails ==
  /\ at = "lstat"
  /\ at' = "exit"
  /\ UNCHANGED <<world, cwd, stack, arg, ret, g_depth, results, denied, broken, stuck>>

Opendir ==
  /\ at = "open" /\ Found
  /\ at' = "chdir"
  /\ UNCHANGED <<world, cwd, stack, arg, ret, g_depth, results, denied, broken, stuck>>

\* Fault: the depth is not restored.
OpendirFailsDeeper ==
  /\ at = "open"
  /\ denied' = denied \cup {arg}
  /\ Return(0, stack)
  /\ UNCHANGED <<world, cwd, stack, arg, g_depth, results, broken, stuck>>

\* The directory is printed a second time, as one that may not be read.
OpendirFails ==
  /\ at = "open"
  /\ g_depth' = g_depth - 1
  /\ shown' = [shown EXCEPT ![arg] = g_depth']
  /\ denied' = denied \cup {arg}
  /\ Return(0, stack)
  /\ UNCHANGED <<world, cwd, stack, arg, count, broken, stuck>>

Chdir ==
  /\ at = "chdir" /\ Found
  /\ cwd' = arg
  /\ stack' = Append(stack, [dir |-> arg, first |-> Children(arg), read |-> {}])
  /\ ret' = 0
  /\ at' = "read"
  /\ UNCHANGED <<world, arg, g_depth, results, denied, broken, stuck>>

ChdirFails ==
  /\ at = "chdir"
  /\ g_depth' = g_depth - 1
  /\ Return(-1, stack)
  /\ UNCHANGED <<world, cwd, stack, arg, results, denied, broken, stuck>>

\* readdir gives a name that it has not given before.
Readdir(n) ==
  /\ at = "read"
  /\ n \in Children(Top.dir) \ Top.read
  /\ stack' = [stack EXCEPT ![Len(stack)].read = @ \cup {n}]
  /\ arg' = n
  /\ at' = "lstat"
  /\ UNCHANGED <<world, cwd, ret, g_depth, results, denied, broken, stuck>>

\* What is moved into the directory while it is read may be given or not.
ReaddirEnds ==
  /\ at = "read"
  /\ Children(Top.dir) \cap Top.first \subseteq Top.read
  /\ at' = "leave"
  /\ UNCHANGED <<world, cwd, stack, arg, ret, g_depth, results, denied, broken, stuck>>

\* The loop does not tell an error of readdir from the end of the directory.
ReaddirFails ==
  /\ at = "read"
  /\ broken' = broken \cup {Top.dir}
  /\ at' = "leave"
  /\ UNCHANGED <<world, cwd, stack, arg, ret, g_depth, results, denied, stuck>>

\* Fault: the directory is left without a step up.
Stay ==
  /\ at = "leave"
  /\ g_depth' = g_depth - 1
  /\ stack' = Pop
  /\ Return(ret, Pop)
  /\ UNCHANGED <<world, cwd, arg, results, denied, broken, stuck>>

\* chdir(".."): from wherever the current directory is now.
Leave ==
  /\ at = "leave"
  /\ cwd' = Up(cwd)
  /\ g_depth' = g_depth - 1
  /\ stack' = Pop
  /\ Return(ret, Pop)
  /\ UNCHANGED <<world, arg, results, denied, broken, stuck>>

LeaveFails ==
  /\ at = "leave"
  /\ stuck' = TRUE
  /\ stack' = Pop
  /\ Return(-1, Pop)
  /\ UNCHANGED <<world, cwd, arg, g_depth, results, denied, broken>>

Walk ==
  \/ LstatFile \/ LstatDir \/ LstatFails
  \/ Opendir \/ OpendirFails
  \/ Chdir \/ ChdirFails
  \/ \E n \in Nodes : Readdir(n)
  \/ ReaddirEnds \/ ReaddirFails
  \/ Leave \/ LeaveFails
-----------------------------------------------------------------------------
(* Other programs.                                                         *)

Change(n, d) ==
  /\ changes < MaxChanges
  /\ n # Root /\ parent[n] # Nowhere
  /\ parent' = [parent EXCEPT ![n] = d]
  /\ changes' = changes + 1
  /\ UNCHANGED <<cwd, stack, at, arg, ret, g_depth, results, denied, broken, stuck>>

Move(n, d) == n \notin {d} \cup Above(parent, d) /\ Change(n, d)

Unlink(n) == n \in Files /\ Change(n, Nowhere)
-----------------------------------------------------------------------------
FtwNext ==
  \/ Walk
  \/ \E n \in Nodes, d \in Dirs : Move(n, d)
  \/ \E n \in Nodes : Unlink(n)

FtwSpec == FtwInit /\ [][FtwNext]_ftwVars
-----------------------------------------------------------------------------
(* What is claimed of the walk.                                            *)

\* Until a chdir("..") fails, g_depth is the number of directories that are
\* open, whatever others do to the tree; and as long as nobody moves anything
\* the current directory is the one that is being read, reached step by step
\* from the root, so that a name is looked up where it was found.
Placed ==
  ~ stuck =>
    /\ g_depth = Len(stack) + IF at = "chdir" \/ at = "open" THEN 1 ELSE 0
    /\ changes = 0 =>
         /\ cwd = IF stack = <<>> THEN Outside ELSE Top.dir
         /\ \A k \in 1 .. Len(stack) :
              Tree[stack[k].dir] = IF k = 1 THEN Outside ELSE stack[k - 1].dir

\* In a tree that nobody changes no file is counted twice, and each is printed
\* at its own depth.  A walk that ends with 0 has counted nothing below the
\* directories that could not be opened, which were printed as such, and
\* everything that is below neither these nor those that readdir failed in:
\* only there files are left out without a word.  Even a chdir("..") that fails
\* does not leave something out and say 0.
Complete ==
  changes = 0 =>
    /\ \A n \in Nodes :
         /\ count[n] <= 1
         /\ count[n] = 1 => shown[n] = Cardinality(Above(Tree, n)) - 1
    /\ at = "end" /\ ret = 0 =>
         \A n \in Nodes :
           /\ count[n] = 1 => Above(Tree, n) \cap denied = {}
           /\ Above(Tree, n) \cap (denied \cup broken) = {} => count[n] = 1

=============================================================================
