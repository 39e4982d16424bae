---------------------------- MODULE SmallProofs ----------------------------
(* Theorems about four small programs, which share nothing but their size:  *)
(* what the file system module of SlabFs gives back, for an array of any    *)
(* size, and who may still be inside it when it goes, for any number of     *)
(* mounts; where the walk of Ftw stands and what it counts, in any tree;    *)
(* who gets which answer from the calculator of Dgram, for any set of       *)
(* clients; and what becomes of the letters in Streams, for an alphabet and *)
(* a buffer of any size.                                                    *)
EXTENDS SlabFs, Ftw, Dgram, Streams, FiniteSetTheorems, SequenceTheorems, TLAPS

-----------------------------------------------------------------------------
(* SlabFs.                                                                 *)

\* The module is on its way back, out of a myfs_init or a myfs_exit.
Back == {"free", "kfree", "unregister", "return", "gone"}

\* Who is on the way back has failed or is unloading, and who is unloading has
\* no users: rmmod found none and the kernel lets none in.
HoldInv ==
  /\ pc \in Back => failed \/ state \in {"going", "gone"}
  /\ state \in {"coming", "live", "going", "gone"}
  /\ state \in {"going", "gone"} => failed \/ Users = {}

\* MountsHoldModule follows: there are users only where HoldInv lets them be.
THEOREM MountsAreSafe == Spec => []MountsHoldModule
<1>1. Init => HoldInv
  BY DEF Init, HoldInv, Back
<1>2. HoldInv /\ [Next]_vars => HoldInv'
  <2> SUFFICES ASSUME HoldInv, [Next]_vars
               PROVE  HoldInv'
    OBVIOUS
  <2>1. CASE ModuleStep
    <3>1. mnt' = mnt
      BY <2>1 DEF ModuleStep, Goto, Register, RegisterFails, KmallocLine, KmallocLineFails,
         CreateCache, CreateCacheFails, Alloc, AllocFails, Loaded, FreeObject, DestroyCache,
         KfreeLine, Unregister, Unload, Rmmod
    <3>2. Users' = Users
      BY <3>1 DEF Users
    <3> QED
      BY <2>1, <3>2 DEF HoldInv, Back, ModuleStep, Goto, Register, RegisterFails, KmallocLine,
         KmallocLineFails, CreateCache, CreateCacheFails, Alloc, AllocFails, Loaded, FreeObject,
         DestroyCache, KfreeLine, Unregister, Unload, Rmmod, module
  <2>2. ASSUME NEW m \in Mounts, Mount(m)
        PROVE  HoldInv'
    <3>1. UNCHANGED <<pc, module>>
      BY <2>2 DEF Mount, Step, GetFs, Sget, SgetFails, FillSb, FillSbFails, Umount, KillSb, PutFs
    <3>2. CASE GetFs(m)
      BY <3>1, <3>2 DEF HoldInv, GetFs, module
    <3>3. CASE ~ GetFs(m)
      <4>1. mnt[m] # "none" /\ \E to : mnt' = [mnt EXCEPT ![m] = to]
        BY <2>2, <3>3 DEF Mount, Step, Sget, SgetFails, FillSb, FillSbFails, Umount, KillSb, PutFs
      <4>2. Users' \subseteq Users
        BY <4>1 DEF Users
      <4> QED
        BY <3>1, <4>2 DEF HoldInv, module
    <3> QED
      BY <3>2, <3>3
  <2>3. CASE UNCHANGED vars
    BY <2>3 DEF HoldInv, Users, vars, module
  <2> QED
    BY <2>1, <2>2, <2>3 DEF Next
<1>3. HoldInv => MountsHoldModule
  BY DEF HoldInv, MountsHoldModule
<1> QED
  BY <1>1, <1>2, <1>3, PTL DEF Spec
-----------------------------------------------------------------------------
(* The memory.                                                             *)

\* The elements lo .. hi of line hold the objects that are out, each one once.
Holds(lo, hi) ==
  /\ line \in [Indices -> Objects \cup {Null}]
  /\ used = {line[j] : j \in lo .. hi}
  /\ used \subseteq Objects
  /\ \A j, k \in lo .. hi : line[j] = line[k] => j = k

\* What there is at each place of myfs_init and myfs_exit.
MemInv ==
  /\ pc \in Back \cup {"register", "kmalloc", "create", "alloc", "loaded"}
  /\ pc \in {"register", "kmalloc", "create"} => i = 0
  /\ pc = "create" => line \in [Indices -> Objects \cup {Null}]
  /\ pc \in {"alloc", "loaded"} =>
       cache /\ i \in 0 .. MY_VFS_CACHE_SIZE /\ Holds(0, i - 1)
  /\ pc = "loaded" => i = MY_VFS_CACHE_SIZE
  /\ pc = "free" =>
       /\ cache
       /\ bound \in 0 .. MY_VFS_CACHE_SIZE /\ i \in 0 .. bound
       /\ Holds(i, bound - 1)
  /\ pc \notin {"alloc", "loaded", "free"} => ~ cache /\ used = {}
  /\ pc \in {"register", "kmalloc", "unregister", "return", "gone"} => line = <<>>
  /\ pc \in {"register", "return", "gone"} => ~ registered
  /\ cache \in BOOLEAN
  /\ state \in {"coming", "live", "going", "gone"}
  /\ state = "gone" => pc = "gone"

(* Nothing is allocated.                                                    *)
LEMMA MemInit == Init => MemInv
  BY DEF Init, MemInv, Back

\* What the module's own steps do to it; those of a mount do nothing.
LEMMA MemNext == MemInv /\ [Next]_vars => MemInv'
<1> SUFFICES ASSUME MemInv, [Next]_vars
             PROVE  MemInv'
  OBVIOUS
<1> USE ConstantsAssumption DEF MemInv, Back, Goto, loops, memory, module
<1>1. CASE Register \/ RegisterFails \/ KmallocLine \/ KmallocLineFails
  BY <1>1 DEF Register, RegisterFails, KmallocLine, KmallocLineFails
<1>2. CASE CreateCache
  <2>1. pc' = "alloc" /\ cache' /\ line' = line /\ used' = {} /\ i' = 0
    BY <1>2 DEF CreateCache
  <2>2. 0 .. i' - 1 = {}
    BY <2>1
  <2>3. Holds(0, i - 1)'
    BY <1>2, <2>1, <2>2 DEF CreateCache, Holds
  <2> QED
    BY <1>2, <2>1, <2>3 DEF CreateCache
<1>3. CASE CreateCacheFails
  BY <1>3 DEF CreateCacheFails
<1>4. ASSUME NEW o \in Objects, Alloc(o)
      PROVE  MemInv'
  BY <1>4 DEF Alloc, Holds, Indices
<1>5. CASE AllocFails
  BY <1>5 DEF AllocFails, Holds
<1>6. CASE Loaded
  BY <1>6 DEF Loaded, Holds
<1>7. CASE FreeObject
  <2>1. i < bound /\ i \in i .. bound - 1 /\ i' = i + 1
    BY <1>7 DEF FreeObject
  <2>2. i .. bound - 1 = {i} \cup (i' .. bound - 1)
    BY <2>1
  <2>3. used' = {line[j] : j \in i' .. bound - 1}
    BY <1>7, <2>1, <2>2 DEF FreeObject, Holds
  <2>4. Holds(i, bound - 1)'
    BY <1>7, <2>1, <2>2, <2>3 DEF FreeObject, Holds
  <2> QED
    BY <1>7, <2>1, <2>4 DEF FreeObject
<1>8. CASE DestroyCache
  <2>1. i .. bound - 1 = {}
    BY <1>8 DEF DestroyCache
  <2>2. used = {}
    BY <1>8, <2>1 DEF DestroyCache, Holds
  <2> QED
    BY <1>8, <2>2 DEF DestroyCache
<1>9. CASE KfreeLine \/ Unregister \/ Unload
  BY <1>9 DEF KfreeLine, Unregister, Unload
<1>10. CASE Rmmod
  BY <1>10 DEF Rmmod, Holds
<1>11. ASSUME NEW m \in Mounts, Mount(m)
       PROVE  MemInv'
  <2>1. UNCHANGED <<pc, loops, memory, registered, module>>
    BY <1>11 DEF Mount, Step, GetFs, Sget, SgetFails, FillSb, FillSbFails, Umount, KillSb, PutFs
  <2> QED
    BY <2>1 DEF Holds
<1>12. CASE UNCHANGED vars
  BY <1>12 DEF vars, Holds
<1> QED
  BY <1>1, <1>2, <1>3, <1>4, <1>5, <1>6, <1>7, <1>8, <1>9, <1>10, <1>11, <1>12
  DEF Next, ModuleStep

\* Nothing is left behind and nothing is given back twice, at whatever step and
\* index myfs_init fails.
THEOREM AllGivenBack == Spec => []GivenBack
<1>1. MemInv => GivenBack
  BY DEF MemInv, GivenBack, Holds, Back
<1> QED
  BY <1>1, MemInit, MemNext, PTL DEF Spec
-----------------------------------------------------------------------------
(* Ftw.                                                                     *)

Calls == [dir : Dirs, first : SUBSET Nodes, read : SUBSET Nodes]

WalkTypes ==
  /\ parent \in [Nodes -> Nodes \cup {Outside, Nowhere}]
  /\ stack \in Seq(Calls) /\ arg \in Nodes /\ g_depth \in Int /\ changes \in Nat
  /\ at \in {"lstat", "open", "chdir", "read", "leave", "end", "exit"}
  /\ at \in {"open", "chdir"} => arg \in Dirs
  /\ at \in {"read", "leave"} => stack # <<>>
  /\ changes = 0 => parent = Tree

PlacedInv == WalkTypes /\ Placed

Opening == IF at = "chdir" \/ at = "open" THEN 1 ELSE 0

Depth == g_depth = Len(stack) + Opening

StepByStep ==
  /\ cwd = IF stack = <<>> THEN Outside ELSE Top.dir
  /\ \A k \in 1 .. Len(stack) :
       Tree[stack[k].dir] = IF k = 1 THEN Outside ELSE stack[k - 1].dir

(* Placed, told by its parts.                                               *)
LEMMA PlacedParts == Placed <=> (~stuck => Depth /\ (changes = 0 => StepByStep))
  BY DEF Placed, Depth, StepByStep, Opening

(* The same after a step.                                                   *)
LEMMA PlacedPartsAfter == Placed' <=> (~stuck' => Depth' /\ (changes' = 0 => StepByStep'))
  BY DEF Placed, Depth, StepByStep, Opening

(* The walk begins outside its root.                                        *)
LEMMA PlacedInit == FtwInit => PlacedInv
<1> SUFFICES ASSUME FtwInit
             PROVE  PlacedInv
  OBVIOUS
<1>1. WalkTypes
  <2>1. Root \in Nodes /\ Tree \in [Nodes -> Nodes \cup {Outside, Nowhere}]
    BY TreeAssumption DEF Nodes
  <2>2. stack \in Seq(Calls)
    BY DEF FtwInit
  <2> QED
    BY <2>1, <2>2 DEF FtwInit, WalkTypes
<1>2. Placed
  BY DEF FtwInit, Placed
<1> QED
  BY <1>1, <1>2 DEF PlacedInv

(* Where a call returns to.                                                 *)
LEMMA ReturnPlaces ==
  ASSUME NEW r, NEW callers \in Seq(Calls), Return(r, callers)
  PROVE  /\ at' \in {"end", "read", "leave"}
         /\ at' \in {"read", "leave"} => callers # <<>>
  BY DEF Return

(* The stack of the callers, when the innermost call returns.               *)
LEMMA Popped ==
  ASSUME NEW s \in Seq(Calls), s # <<>>
  PROVE  LET p == SubSeq(s, 1, Len(s) - 1)
         IN  /\ p \in Seq(Calls) /\ Len(p) = Len(s) - 1
             /\ \A k \in 1 .. Len(p) : p[k] = s[k]
             /\ p = <<>> <=> Len(s) = 1
<1>1. Len(s) \in Nat /\ Len(s) # 0
  OBVIOUS
<1>2. SubSeq(s, 1, Len(s) - 1) = [k \in 1 .. Len(s) - 1 |-> s[k]]
  BY <1>1
<1>3. PICK p : p = SubSeq(s, 1, Len(s) - 1)
  OBVIOUS
<1>4. p \in Seq(Calls) /\ Len(p) = Len(s) - 1 /\ \A k \in 1 .. Len(p) : p[k] = s[k]
  <2>1. p = [k \in 1 .. Len(s) - 1 |-> s[k]] /\ Len(s) - 1 \in Nat
    BY <1>1, <1>2, <1>3
  <2>2. \A k \in 1 .. Len(s) - 1 : s[k] \in Calls
    BY <1>1
  <2>3. p \in Seq(Calls)
    BY <2>1, <2>2
  <2>4. Len(p) = Len(s) - 1
    BY <2>1
  <2> QED
    BY <2>1, <2>3, <2>4
<1>5. p = <<>> <=> Len(p) = 0
  BY <1>4
<1> QED
  BY <1>1, <1>3, <1>4, <1>5

(* A step down: the directory opened is in the one that was read.           *)
LEMMA ChdirPlaced == PlacedInv /\ Chdir => PlacedInv'
<1> SUFFICES ASSUME PlacedInv, Chdir
             PROVE  PlacedInv'
  OBVIOUS
<1> USE DEF PlacedInv, WalkTypes, world, results
<1> DEFINE call == [dir |-> arg, first |-> Children(arg), read |-> {}]
<1>1. /\ parent[arg] = cwd /\ cwd' = arg /\ stack' = Append(stack, call) /\ at' = "read"
      /\ at = "chdir" /\ arg \in Dirs
      /\ UNCHANGED <<parent, changes, arg, g_depth, stuck>>
  BY DEF Chdir, Found
<1>2. call \in Calls /\ call.dir = arg
  BY <1>1 DEF Calls, Children
<1> HIDE DEF call
<1>3. /\ stack' \in Seq(Calls) /\ Len(stack') = Len(stack) + 1 /\ stack' # <<>>
      /\ \A k \in 1 .. Len(stack) : stack'[k] = stack[k]
      /\ stack'[Len(stack) + 1] = call /\ Len(stack) \in Nat
  BY <1>1, <1>2
<1>4. WalkTypes'
  BY <1>1, <1>3
<1>5. ~stuck => Depth'
  BY <1>1, <1>3, PlacedParts DEF Depth, Opening
<1>6. ASSUME ~stuck, changes = 0
      PROVE  StepByStep'
  <2>1. StepByStep /\ parent = Tree
    BY <1>6, PlacedParts
  <2>2. stack = <<>> <=> Len(stack) = 0
    OBVIOUS
  <2>3. Tree[arg] = IF stack = <<>> THEN Outside ELSE stack[Len(stack)].dir
    BY <1>1, <2>1 DEF StepByStep, Top
  <2>4. ASSUME NEW k \in 1 .. Len(stack) + 1
        PROVE  Tree[stack'[k].dir] = IF k = 1 THEN Outside ELSE stack'[k - 1].dir
    <3>1. CASE k = Len(stack) + 1
      BY <1>2, <1>3, <2>2, <2>3, <3>1
    <3>2. CASE k \in 1 .. Len(stack)
      BY SMTT(30), <1>3, <2>1, <3>2 DEF StepByStep
    <3> QED
      BY <1>3, <3>1, <3>2
  <2>5. cwd' = Top'.dir
    BY <1>1, <1>2, <1>3 DEF Top
  <2> QED
    BY <1>3, <2>4, <2>5 DEF StepByStep
<1> QED
  BY <1>1, <1>4, <1>5, <1>6, PlacedPartsAfter

(* A step up: ".." is the directory of the caller.                          *)
LEMMA LeavePlaced == PlacedInv /\ (Leave \/ LeaveFails) => PlacedInv'
<1> SUFFICES ASSUME PlacedInv, Leave \/ LeaveFails
             PROVE  PlacedInv'
  OBVIOUS
<1> USE DEF PlacedInv, WalkTypes, world, results
<1>1. /\ at = "leave" /\ stack # <<>> /\ stack' = Pop
      /\ UNCHANGED <<parent, changes, arg>>
  BY DEF Leave, LeaveFails
<1>2. /\ stack' \in Seq(Calls) /\ Len(stack') = Len(stack) - 1
      /\ \A k \in 1 .. Len(stack') : stack'[k] = stack[k]
      /\ stack' = <<>> <=> Len(stack) = 1
      /\ Len(stack) \in Nat \ {0}
  BY <1>1, Popped DEF Pop
<1>3. at' \in {"end", "read", "leave"} /\ (at' \in {"read", "leave"} => stack' # <<>>)
  BY <1>1, <1>2, ReturnPlaces DEF Leave, LeaveFails
<1>4. CASE LeaveFails
  BY <1>1, <1>2, <1>3, <1>4, PlacedPartsAfter DEF LeaveFails
<1>5. CASE Leave
  <2>1. g_depth' = g_depth - 1 /\ cwd' = Up(cwd) /\ UNCHANGED stuck
    BY <1>5 DEF Leave
  <2>2. WalkTypes'
    BY <1>1, <1>2, <1>3, <2>1
  <2>3. ~stuck => Depth'
    BY <1>1, <1>2, <1>3, <2>1, PlacedParts DEF Depth, Opening
  <2>4. ASSUME ~stuck, changes = 0
        PROVE  StepByStep'
    <3>1. StepByStep /\ parent = Tree
      BY <2>4, PlacedParts
    <3>2. cwd = stack[Len(stack)].dir /\ cwd \in Dirs
      <4>1. stack[Len(stack)] \in Calls
        BY <1>2
      <4> QED
        BY <1>1, <3>1, <4>1 DEF StepByStep, Top, Calls
    <3>3. cwd' = Tree[cwd]
      BY <2>1, <3>1, <3>2, TreeAssumption DEF Up, Nodes
    <3>4. cwd' = IF Len(stack) = 1 THEN Outside ELSE stack[Len(stack) - 1].dir
      BY <1>2, <3>1, <3>2, <3>3 DEF StepByStep
    <3>5. cwd' = IF stack' = <<>> THEN Outside ELSE Top'.dir
      BY <1>2, <3>4 DEF Top
    <3>6. \A k \in 1 .. Len(stack') :
            Tree[stack'[k].dir] = IF k = 1 THEN Outside ELSE stack'[k - 1].dir
      BY <1>2, <3>1 DEF StepByStep
    <3> QED
      BY <3>5, <3>6 DEF StepByStep
  <2> QED
    BY <1>1, <2>1, <2>2, <2>3, <2>4, PlacedPartsAfter
<1> QED
  BY <1>4, <1>5

(* readdir moves nothing.                                                   *)
LEMMA ReaddirPlaced == PlacedInv /\ (\E n \in Nodes : Readdir(n)) => PlacedInv'
<1> SUFFICES ASSUME PlacedInv, NEW n \in Nodes, Readdir(n)
             PROVE  PlacedInv'
  OBVIOUS
<1> USE DEF PlacedInv, WalkTypes, world, results
<1> DEFINE call == [stack[Len(stack)] EXCEPT !.read = @ \cup {n}]
<1>1. /\ at = "read" /\ stack # <<>> /\ arg' = n /\ at' = "lstat"
      /\ stack' = [stack EXCEPT ![Len(stack)] = call]
      /\ UNCHANGED <<parent, changes, cwd, g_depth, stuck>>
  BY DEF Readdir
<1>2. Len(stack) \in 1 .. Len(stack) /\ stack[Len(stack)] \in Calls /\ Len(stack) \in Nat
  BY <1>1
<1>3. call \in Calls /\ call.dir = stack[Len(stack)].dir
  BY <1>2 DEF Calls
<1> HIDE DEF call
<1>4. /\ stack' \in Seq(Calls) /\ Len(stack') = Len(stack) /\ stack' # <<>>
      /\ \A k \in 1 .. Len(stack) : stack'[k].dir = stack[k].dir
  BY <1>1, <1>2, <1>3
<1>5. WalkTypes'
  BY <1>1, <1>4
<1>6. ~stuck => Depth'
  BY <1>1, <1>4, PlacedParts DEF Depth, Opening
<1>7. ASSUME ~stuck, changes = 0
      PROVE  StepByStep'
  <2>1. StepByStep
    BY <1>7, PlacedParts
  <2>2. cwd' = Top'.dir
    BY <1>1, <1>2, <1>4, <2>1 DEF StepByStep, Top
  <2>3. ASSUME NEW k \in 1 .. Len(stack')
        PROVE  Tree[stack'[k].dir] = IF k = 1 THEN Outside ELSE stack'[k - 1].dir
    <3>1. stack'[k].dir = stack[k].dir /\ (k # 1 => stack'[k - 1].dir = stack[k - 1].dir)
      BY <1>2, <1>4
    <3> QED
      BY <1>4, <2>1, <3>1 DEF StepByStep
  <2> QED
    BY <1>4, <2>2, <2>3 DEF StepByStep
<1> QED
  BY <1>1, <1>5, <1>6, <1>7, PlacedPartsAfter

(* PlacedInv is inductive, whatever others move or remove.                  *)
LEMMA PlacedStep == PlacedInv /\ [FtwNext]_ftwVars => PlacedInv'
<1> SUFFICES ASSUME PlacedInv, [FtwNext]_ftwVars
             PROVE  PlacedInv'
  OBVIOUS
<1> USE DEF PlacedInv, WalkTypes, world, results
<1>1. ASSUME UNCHANGED <<parent, changes, cwd, stack, arg, stuck>>, WalkTypes', Depth => Depth'
      PROVE  PlacedInv'
  BY <1>1, PlacedParts, PlacedPartsAfter DEF StepByStep, Top
<1>2. CASE LstatFile
  <2>1. at = "lstat" /\ UNCHANGED <<parent, changes, cwd, stack, arg, stuck, g_depth>>
    BY <1>2 DEF LstatFile
  <2>2. at' \in {"end", "read", "leave"} /\ (at' \in {"read", "leave"} => stack # <<>>)
    BY <1>2, ReturnPlaces DEF LstatFile
  <2> QED
    BY <1>1, <2>1, <2>2 DEF Depth, Opening
<1>3. CASE OpendirFails \/ ChdirFails
  <2>1. /\ at \in {"open", "chdir"} /\ g_depth' = g_depth - 1
        /\ UNCHANGED <<parent, changes, cwd, stack, arg, stuck>>
    BY <1>3 DEF OpendirFails, ChdirFails
  <2>2. at' \in {"end", "read", "leave"} /\ (at' \in {"read", "leave"} => stack # <<>>)
    BY <1>3, ReturnPlaces DEF OpendirFails, ChdirFails
  <2>3. Len(stack) \in Nat
    OBVIOUS
  <2> QED
    BY <1>1, <2>1, <2>2, <2>3 DEF Depth, Opening
<1>4. CASE LstatDir \/ LstatFails \/ Opendir \/ ReaddirEnds \/ ReaddirFails
  <2>1. Len(stack) \in Nat
    OBVIOUS
  <2> QED
    BY <1>1, <1>4, <2>1 DEF LstatDir, LstatFails, Opendir, ReaddirEnds, ReaddirFails, Depth,
       Opening
<1>5. CASE UNCHANGED ftwVars
  BY <1>1, <1>5 DEF ftwVars, Depth, Opening
<1>6. ASSUME NEW n \in Nodes, NEW d \in Dirs \cup {Nowhere}, Change(n, d)
      PROVE  PlacedInv'
  <2>1. /\ parent' \in [Nodes -> Nodes \cup {Outside, Nowhere}]
        /\ changes' \in Nat /\ changes' # 0
        /\ UNCHANGED <<cwd, stack, at, arg, g_depth, stuck>>
    BY <1>6 DEF Change, Nodes
  <2> QED
    BY <2>1, PlacedParts, PlacedPartsAfter DEF Depth, Opening
<1> QED
  BY <1>2, <1>3, <1>4, <1>5, <1>6, ChdirPlaced, LeavePlaced, ReaddirPlaced
     DEF FtwNext, Walk, Move, Unlink

(* Placed is an invariant: g_depth counts the open directories until a      *)
(* chdir("..") fails, and in a tree that nobody changes the current         *)
(* directory is the one that is read.                                       *)
THEOREM WalkIsPlaced == FtwSpec => []Placed
<1>1. PlacedInv => Placed
  BY DEF PlacedInv
<1> QED
  BY <1>1, PlacedInit, PlacedStep, PTL DEF FtwSpec

\* The depth of a file in the tree, the directories on the stack, and what a
\* directory holds as long as nobody changes the tree.
Level(n) == Cardinality(Above(Tree, n))
OnStack(d) == \E k \in 1 .. Len(stack) : stack[k].dir = d
Under(d) == {n \in Nodes : Tree[n] = d}

\* Where the walk is with the name in hand, and what a failure leads to.
InHand ==
  /\ ret \in {0, -1}
  /\ ret = -1 => at \in {"leave", "end"}
  /\ stuck => ret = -1
  /\ at = "end" => stack = <<>>
  /\ at \in {"lstat", "open", "chdir"} =>
       /\ Tree[arg] = cwd
       /\ stack # <<>> => arg \in Top.read
  /\ at = "lstat" => count[arg] = 0
  /\ at \in {"open", "chdir"} =>
       count[arg] = 1 /\ arg \notin denied /\ \A n \in Under(arg) : count[n] = 0

\* The directories that are being read: how deep they are, and which of the files
\* in them have been counted.
Reading ==
  \A k \in 1 .. Len(stack) :
    LET d == stack[k].dir
    IN  /\ Level(d) = k
        /\ count[d] = 1 /\ d \notin denied
        /\ stack[k].first = Under(d)
        /\ \A n \in Under(d) :
             /\ n \notin stack[k].read => count[n] = 0
             /\ n \in stack[k].read => count[n] = 1 \/ (at \in {"lstat", "exit"} /\ n = arg)

\* The directories that have been read, or could not be.
Counted ==
  /\ count \in [Nodes -> {0, 1}] /\ shown \in [Nodes -> Int]
  /\ denied \subseteq Dirs
  /\ count[Root] = 1 \/ (at = "lstat" /\ arg = Root) \/ at = "exit"
  /\ \A n \in Nodes : count[n] = 1 => shown[n] = Level(n) - 1
  /\ \A n \in Nodes \ {Root} : count[n] = 1 => count[Tree[n]] = 1 /\ Tree[n] \notin denied
  /\ \A d \in denied : count[d] = 1
  /\ at = "leave" /\ ret = 0 => Under(Top.dir) \subseteq Top.read \/ Top.dir \in broken
  /\ ret = 0 =>
       \A n \in Nodes \ {Root} :
         count[Tree[n]] = 1 => \/ count[n] = 1
                               \/ Tree[n] \in denied \cup broken
                               \/ OnStack(Tree[n])
                               \/ at \in {"open", "chdir"} /\ arg = Tree[n]
\* Inductive while nobody changes the tree; with the types and Placed always.
WalkInv == InHand /\ Reading /\ Counted

CountInv == PlacedInv /\ (changes = 0 => WalkInv)

-----------------------------------------------------------------------------
(* The directories above a file.                                            *)

Places == Nodes \cup {Outside, Nowhere}

\* What lies above m: what is in every set that has the directory of m, and with
\* a file the directory of that.
Closed(U) == \A m \in U \cap Nodes : Tree[m] \in U
Beyond(m) == {d \in Places : \A U \in SUBSET Places : Tree[m] \in U /\ Closed(U) => d \in U}

(* A file is in a directory or is the root.                                 *)
LEMMA TreeFacts ==
  /\ Tree \in [Nodes -> Dirs \cup {Outside}]
  /\ Root \in Nodes /\ Outside \notin Nodes /\ Nowhere \notin Nodes /\ Outside # Nowhere
  /\ \A n \in Nodes : Tree[n] \in Places /\ Tree[n] # Nowhere
  /\ \A n \in Nodes : Tree[n] = Outside <=> n = Root
  /\ \A n \in Nodes \ {Root} : Tree[n] \in Nodes
  /\ IsFiniteSet(Nodes)
  BY TreeAssumption DEF Nodes, Places

(* Beyond is a solution of the equation that Above is defined by.           *)
LEMMA BeyondStep ==
  ASSUME NEW n \in Nodes
  PROVE  /\ n = Root => Beyond(n) = {Outside}
         /\ n # Root => Beyond(n) = {Tree[n]} \cup Beyond(Tree[n])
<1>1. CASE n = Root
  <2>1. Tree[n] = Outside /\ Outside \in Places /\ {Outside} \in SUBSET Places
    BY <1>1, TreeFacts DEF Places
  <2>2. Closed({Outside})
    BY TreeFacts DEF Closed
  <2>3. Beyond(n) \subseteq {Outside}
    BY <2>1, <2>2 DEF Beyond
  <2>4. Outside \in Beyond(n)
    BY <2>1 DEF Beyond
  <2> QED
    BY <1>1, <2>3, <2>4
<1>2. CASE n # Root
  <2>1. Tree[n] \in Nodes /\ Tree[n] \in Places /\ Tree[Tree[n]] \in Places
    BY <1>2, TreeFacts
  <2>2. ASSUME NEW d \in Beyond(n), d # Tree[n]
        PROVE  d \in Beyond(Tree[n])
    <3>1. ASSUME NEW U \in SUBSET Places, Tree[Tree[n]] \in U, Closed(U)
          PROVE  d \in U
      <4>1. U \cup {Tree[n]} \in SUBSET Places
        BY <2>1
      <4>2. Closed(U \cup {Tree[n]})
        BY <3>1 DEF Closed
      <4>3. d \in U \cup {Tree[n]}
        BY <4>1, <4>2 DEF Beyond
      <4> QED
        BY <4>3, <2>2
    <3> QED
      BY <3>1 DEF Beyond
  <2>3. Tree[n] \in Beyond(n)
    BY <2>1 DEF Beyond
  <2>4. ASSUME NEW d \in Beyond(Tree[n])
        PROVE  d \in Beyond(n)
    BY <2>1 DEF Beyond, Closed
  <2> QED
    BY <1>2, <2>2, <2>3, <2>4
<1> QED
  BY <1>1, <1>2

(* So there is such a function, and what Above says holds of it.            *)
LEMMA AboveStep ==
  /\ Above(Tree, Outside) = {}
  /\ \A n \in Nodes : Above(Tree, n) = {Tree[n]} \cup Above(Tree, Tree[n])
<1> DEFINE Equation(f) ==
      f = [m \in Nodes \cup {Outside, Nowhere} |->
             IF m \in {Outside, Nowhere} THEN {} ELSE {Tree[m]} \cup f[Tree[m]]]
           g == [m \in Nodes \cup {Outside, Nowhere} |-> 
             IF m \in {Outside, Nowhere} THEN {} ELSE Beyond(m)]
<1>1. Equation(g)
  <2>1. ASSUME NEW m \in Nodes
        PROVE  Beyond(m) = {Tree[m]} \cup g[Tree[m]]
    <3>1. CASE m = Root
      BY <3>1, BeyondStep, TreeFacts
    <3>2. CASE m # Root
      <4>1. Tree[m] \in Nodes /\ Tree[m] \notin {Outside, Nowhere}
        BY <3>2, TreeFacts
      <4>2. g[Tree[m]] = Beyond(Tree[m])
        BY <4>1
      <4> QED
        BY <3>2, <4>2, BeyondStep
    <3> QED
      BY <3>1, <3>2
  <2> HIDE DEF g
  <2>2. \A m \in Nodes \cup {Outside, Nowhere} :
          g[m] = IF m \in {Outside, Nowhere} THEN {} ELSE {Tree[m]} \cup g[Tree[m]]
    BY <2>1, TreeFacts DEF g
  <2>3. g = [m \in Nodes \cup {Outside, Nowhere} |-> g[m]]
    BY DEF g
  <2> QED
    BY <2>2, <2>3
<1>2. PICK f : f = CHOOSE h : Equation(h)
  OBVIOUS
<1>3. Equation(f)
  <2> HIDE DEF Equation
  <2> QED
    BY <1>1, <1>2
<1>4. \A n : Above(Tree, n) = f[n]
  BY <1>2 DEF Above
<1>5. f[Outside] = {}
  BY <1>3
<1>6. \A n \in Nodes : f[n] = {Tree[n]} \cup f[Tree[n]]
  BY <1>3, TreeFacts
<1> HIDE DEF Equation
<1> QED
  BY <1>4, <1>5, <1>6

(* What is above one directory is above everything below it.                *)
LEMMA AboveNested ==
  ASSUME NEW n \in Nodes, NEW m \in Nodes, m \in Above(Tree, n)
  PROVE  Above(Tree, m) \subseteq Above(Tree, n)
<1> DEFINE Bad == {x \in Nodes : \E y \in Nodes : y \in Above(Tree, x) /\ ~(Above(Tree, y) \subseteq Above(Tree, x))}
<1>1. ASSUME Bad # {}
      PROVE  FALSE
  <2>1. PICK x \in Bad : Tree[x] \notin Bad
    BY <1>1, TreeAssumption
  <2>2. PICK y \in Nodes : y \in Above(Tree, x) /\ ~(Above(Tree, y) \subseteq Above(Tree, x))
    OBVIOUS
  <2>3. x \in Nodes /\ Above(Tree, x) = {Tree[x]} \cup Above(Tree, Tree[x])
    BY AboveStep
  <2>4. y # Tree[x] /\ y \in Above(Tree, Tree[x])
    BY <2>2, <2>3
  <2>5. Tree[x] \in Nodes
    BY <2>3, <2>4, TreeFacts, AboveStep
  <2>6. Above(Tree, y) \subseteq Above(Tree, Tree[x])
    BY <2>1, <2>4, <2>5
  <2> QED
    BY <2>2, <2>3, <2>6
<1> QED
  BY <1>1

(* No file is above itself.                                                 *)
LEMMA NoLoop == \A n \in Nodes : n \notin Above(Tree, n)
<1> DEFINE Bad == {x \in Nodes : x \in Above(Tree, x)}
<1>1. ASSUME Bad # {}
      PROVE  FALSE
  <2>1. PICK x \in Bad : Tree[x] \notin Bad
    BY <1>1, TreeAssumption
  <2>2. x \in Nodes /\ x \in Above(Tree, x) /\ Above(Tree, x) = {Tree[x]} \cup Above(Tree, Tree[x])
    BY AboveStep
  <2>3. x # Tree[x]
    BY <2>1
  <2>4. x \in Above(Tree, Tree[x])
    BY <2>2, <2>3
  <2>5. Tree[x] \in Nodes
    BY <2>4, <2>2, TreeFacts, AboveStep
  <2>6. Above(Tree, x) \subseteq Above(Tree, Tree[x])
    BY <2>4, <2>5, AboveNested
  <2>7. Tree[x] \in Above(Tree, Tree[x])
    BY <2>2, <2>6
  <2> QED
    BY <2>1, <2>5, <2>7
<1> QED
  BY <1>1

(* Only places are above a file.                                            *)
LEMMA AboveIsFinite ==
  \A n \in Nodes : Above(Tree, n) \subseteq Places /\ IsFiniteSet(Above(Tree, n))
<1> DEFINE Bad == {x \in Nodes : ~(Above(Tree, x) \subseteq Places)}
<1>1. ASSUME Bad # {}
      PROVE  FALSE
  <2>1. PICK x \in Bad : Tree[x] \notin Bad
    BY <1>1, TreeAssumption
  <2>2. x \in Nodes /\ ~(Above(Tree, x) \subseteq Places) /\ Above(Tree, x) = {Tree[x]} \cup Above(Tree, Tree[x])
    BY AboveStep
  <2>3. Tree[x] \in Places /\ (Tree[x] \in Nodes \/ Tree[x] = Outside)
    BY TreeFacts
  <2>4. Above(Tree, Tree[x]) \subseteq Places
    BY <2>1, <2>3, AboveStep
  <2> QED
    BY <2>2, <2>3, <2>4
<1>2. IsFiniteSet({Outside, Nowhere})
  <2>1. {Outside, Nowhere} = {Outside} \cup {Nowhere}
    OBVIOUS
  <2> QED
    <3>1. IsFiniteSet({Outside})
      BY FS_Singleton
    <3> QED
      BY <2>1, <3>1, FS_AddElement
<1>3. IsFiniteSet(Places)
  BY <1>2, TreeFacts, FS_Union DEF Places
<1> QED
  BY <1>1, <1>3, FS_Subset

(* The root is at level 1 and what is in a directory is one level deeper.   *)
LEMMA LevelStep ==
  ASSUME NEW n \in Nodes
  PROVE  /\ Level(n) \in Nat
         /\ n = Root => Level(n) = 1
         /\ n # Root => Level(n) = Level(Tree[n]) + 1
<1>1. Level(n) \in Nat
  BY AboveIsFinite, FS_CardinalityType DEF Level
<1>2. CASE n = Root
  <2>1. Above(Tree, n) = {Outside}
    BY <1>2, AboveStep, TreeFacts
  <2> QED
    BY <1>1, <1>2, <2>1, FS_Singleton DEF Level
<1>3. CASE n # Root
  <2>1. Tree[n] \in Nodes
    BY <1>3, TreeFacts
  <2>2. IsFiniteSet(Above(Tree, Tree[n])) /\ Tree[n] \notin Above(Tree, Tree[n])
    BY <2>1, AboveIsFinite, NoLoop
  <2>3. Above(Tree, n) = Above(Tree, Tree[n]) \cup {Tree[n]}
    BY AboveStep
  <2>4. Cardinality(Above(Tree, n)) = Cardinality(Above(Tree, Tree[n])) + 1
    BY <2>2, <2>3, FS_AddElement
  <2> QED
    BY <1>1, <1>3, <2>4 DEF Level
<1> QED
  BY <1>2, <1>3, <1>1

(* When the walk has ended with 0, what was counted is all that could be.   *)
LEMMA CountIsComplete ==
  ASSUME WalkTypes, InHand, Reading, Counted, at = "end", ret = 0, NEW n \in Nodes
  PROVE  /\ count[n] = 1 => Above(Tree, n) \cap denied = {}
         /\ Above(Tree, n) \cap (denied \cup broken) = {} => count[n] = 1
<1>1. denied \subseteq Nodes /\ denied \subseteq Dirs /\ Outside \notin denied
  BY TreeFacts DEF Counted, Nodes
<1>2. \A m \in Nodes : count[m] \in {0, 1}
  BY DEF Counted
<1>3. ASSUME NEW d, OnStack(d)
      PROVE  FALSE
  BY <1>3 DEF InHand, OnStack
<1> DEFINE Wrong == {m \in Nodes : count[m] = 1 /\ Above(Tree, m) \cap denied # {}}
           Left  == {m \in Nodes : count[m] = 0 /\ Above(Tree, m) \cap (denied \cup broken) = {}}
<1>4. ASSUME Wrong # {}
      PROVE  FALSE
  <2>1. PICK x \in Wrong : Tree[x] \notin Wrong
    BY <1>4, TreeAssumption
  <2>2. x \in Nodes /\ count[x] = 1 /\ Above(Tree, x) \cap denied # {}
    OBVIOUS
  <2>3. Above(Tree, x) = {Tree[x]} \cup Above(Tree, Tree[x])
    BY AboveStep
  <2>4. x # Root
    BY <1>1, <2>2, <2>3, TreeFacts, AboveStep
  <2>5. Tree[x] \in Nodes /\ count[Tree[x]] = 1 /\ Tree[x] \notin denied
    BY <2>2, <2>4, TreeFacts DEF Counted
  <2> QED
    BY <2>1, <2>2, <2>3, <2>5
<1>5. ASSUME Left # {}
      PROVE  FALSE
  <2>1. PICK x \in Left : Tree[x] \notin Left
    BY <1>5, TreeAssumption
  <2>2. x \in Nodes /\ count[x] = 0 /\ Above(Tree, x) \cap (denied \cup broken) = {}
    OBVIOUS
  <2>3. Above(Tree, x) = {Tree[x]} \cup Above(Tree, Tree[x])
    BY AboveStep
  <2>4. x # Root
    BY <2>2 DEF Counted
  <2>5. Tree[x] \in Nodes /\ count[Tree[x]] = 1 /\ Tree[x] \notin denied \cup broken
    BY <1>2, <2>1, <2>2, <2>3, <2>4, TreeFacts
  <2> QED
    BY <1>3, <2>2, <2>4, <2>5 DEF Counted
<1> QED
  BY <1>2, <1>4, <1>5

(* Complete follows.                                                        *)
LEMMA CountSuffices == CountInv => Complete
<1> SUFFICES ASSUME CountInv, changes = 0
             PROVE  Complete
  BY DEF Complete
<1>1. WalkTypes /\ InHand /\ Reading /\ Counted
  BY DEF CountInv, PlacedInv, WalkInv
<1>2. \A n \in Nodes : count[n] <= 1 /\ (count[n] = 1 => shown[n] = Cardinality(Above(Tree, n)) - 1)
  BY <1>1 DEF Counted, Level
<1> QED
  BY <1>1, <1>2, CountIsComplete DEF Complete

(* Nothing has been counted when the walk begins.                           *)
LEMMA CountInit == FtwInit => CountInv
<1> SUFFICES ASSUME FtwInit
             PROVE  CountInv
  OBVIOUS
<1>1. PlacedInv
  BY PlacedInit
<1>2. InHand
  BY TreeFacts DEF FtwInit, InHand
<1>3. Reading
  BY DEF FtwInit, Reading
<1>4. Counted
  BY TreeFacts DEF FtwInit, Counted
<1> QED
  BY <1>1, <1>2, <1>3, <1>4 DEF CountInv, WalkInv

\* A state of the walk in a tree that nobody has changed.
Quiet == PlacedInv /\ changes = 0 /\ WalkInv

(* What the types say of the stack.                                         *)
LEMMA QuietTypes ==
  ASSUME Quiet
  PROVE  /\ Len(stack) \in Nat /\ parent = Tree /\ arg \in Nodes
         /\ \A k \in 1 .. Len(stack) :
              stack[k] \in Calls /\ stack[k].dir \in Dirs /\ stack[k].dir \in Nodes
         /\ stack # <<>> => Len(stack) \in 1 .. Len(stack)
         /\ \A n \in Nodes : Under(n) = Children(n) /\ n \notin Under(n)
         /\ \A n \in Nodes : count[n] \in {0, 1}
<1>1. Len(stack) \in Nat /\ parent = Tree /\ arg \in Nodes /\ stack \in Seq(Calls)
  BY DEF Quiet, PlacedInv, WalkTypes
<1>2. \A k \in 1 .. Len(stack) : stack[k] \in Calls
  BY <1>1
<1>3. \A k \in 1 .. Len(stack) : stack[k].dir \in Dirs /\ stack[k].dir \in Nodes
  BY <1>2 DEF Calls, Nodes
<1>4. stack # <<>> => Len(stack) \in 1 .. Len(stack)
  BY <1>1
<1>5. \A n \in Nodes : Under(n) = Children(n)
  BY <1>1 DEF Under, Children
<1>6. \A n \in Nodes : n \notin Under(n)
  BY AboveStep, NoLoop DEF Under
<1>7. \A n \in Nodes : count[n] \in {0, 1}
  BY DEF Quiet, WalkInv, Counted
<1> QED
  BY <1>1, <1>2, <1>3, <1>4, <1>5, <1>6, <1>7

(* The name in hand is in the directory that is being read, one level down. *)
LEMMA LevelInHand ==
  ASSUME Quiet, at \in {"lstat", "open", "chdir"}
  PROVE  /\ ~stuck /\ ret = 0 /\ g_depth = Len(stack) + Opening
         /\ Level(arg) = Len(stack) + 1
         /\ stack = <<>> => arg = Root
         /\ stack # <<>> => arg # Root /\ Tree[arg] = Top.dir /\ arg \in Top.read
<1>1. ~stuck /\ ret = 0 /\ Tree[arg] = cwd
  BY DEF Quiet, WalkInv, InHand
<1>2. Depth /\ StepByStep
  BY <1>1, PlacedParts DEF Quiet, PlacedInv
<1>3. CASE stack = <<>>
  <2>1. arg = Root
    BY <1>1, <1>2, <1>3, TreeFacts, QuietTypes DEF StepByStep
  <2> QED
    BY <1>1, <1>2, <1>3, <2>1, LevelStep, QuietTypes DEF Depth
<1>4. CASE stack # <<>>
  <2>1. Tree[arg] = Top.dir
    BY <1>1, <1>2, <1>4 DEF StepByStep
  <2>2. Top.dir \in Nodes
    BY <1>4, QuietTypes DEF Top
  <2>3. arg # Root /\ arg \in Top.read
    BY <1>4, <2>1, <2>2, TreeFacts DEF Quiet, WalkInv, InHand
  <2>4. Level(Top.dir) = Len(stack)
    BY <1>4, QuietTypes DEF Quiet, WalkInv, Reading, Top
  <2> QED
    BY <1>1, <1>2, <1>4, <2>1, <2>3, <2>4, LevelStep, QuietTypes DEF Depth
<1> QED
  BY <1>3, <1>4

(* Only the innermost directory on the stack has the name in hand in it, and *)
(* that name is not on the stack itself.                                    *)
LEMMA OnlyInTop ==
  ASSUME Quiet, at \in {"lstat", "open", "chdir"}, NEW k \in 1 .. Len(stack)
  PROVE  stack[k].dir # arg /\ (Tree[arg] = stack[k].dir => k = Len(stack))
<1>1. stack # <<>> /\ Len(stack) \in 1 .. Len(stack)
  BY QuietTypes
<1>2. Level(stack[k].dir) = k /\ Level(Top.dir) = Len(stack)
  BY <1>1 DEF Quiet, WalkInv, Reading, Top
<1>3. Level(arg) = Len(stack) + 1 /\ Tree[arg] = Top.dir
  BY <1>1, LevelInHand
<1> QED
  BY <1>2, <1>3, QuietTypes

(* A name that is counted: what holds of the directories afterwards.        *)
LEMMA ReportReading ==
  ASSUME Quiet, at = "lstat", count' = [count EXCEPT ![arg] = @ + 1], UNCHANGED <<stack, denied>>
  PROVE  /\ Reading'
         /\ count' \in [Nodes -> {0, 1}] /\ count'[arg] = 1
         /\ \A n \in Nodes \ {arg} : count'[n] = count[n]
<1>1. count \in [Nodes -> {0, 1}] /\ count[arg] = 0 /\ arg \in Nodes
  BY QuietTypes DEF Quiet, WalkInv, Counted, InHand
<1>2. count' \in [Nodes -> {0, 1}] /\ count'[arg] = 1 /\ \A n \in Nodes \ {arg} : count'[n] = count[n]
  BY <1>1
<1>3. ASSUME NEW k \in 1 .. Len(stack)
      PROVE  LET d == stack[k].dir
             IN  /\ Level(d) = k
                 /\ count'[d] = 1 /\ d \notin denied
                 /\ stack[k].first = Under(d)
                 /\ \A n \in Under(d) :
                      /\ n \notin stack[k].read => count'[n] = 0
                      /\ n \in stack[k].read => count'[n] = 1
  <2> DEFINE d == stack[k].dir
  <2>1. /\ Level(d) = k /\ count[d] = 1 /\ d \notin denied /\ stack[k].first = Under(d)
        /\ \A n \in Under(d) : /\ n \notin stack[k].read => count[n] = 0
                               /\ n \in stack[k].read => count[n] = 1 \/ n = arg
    BY <1>3 DEF Quiet, WalkInv, Reading
  <2>2. count'[d] = 1
    BY <1>2, <2>1, QuietTypes
  <2>3. ASSUME NEW n \in Under(d), n \notin stack[k].read
        PROVE  n # arg
    <3>1. ASSUME n = arg
          PROVE  FALSE
      <4>1. Tree[arg] = stack[k].dir
        BY <3>1, <2>3 DEF Under
      <4>2. stack[k] = Top /\ stack # <<>>
        BY <4>1, OnlyInTop DEF Top
      <4>3. arg \in stack[k].read
        BY <4>2, LevelInHand
      <4> QED
        BY <2>3, <3>1, <4>3
    <3> QED
      BY <3>1
  <2>4. \A n \in Under(d) : n \in Nodes
    BY DEF Under
  <2> QED
    BY <1>2, <2>1, <2>2, <2>3, <2>4
<1>4. Reading'
  BY <1>3 DEF Reading
<1> QED
  BY <1>2, <1>4

(* A file is counted.                                                       *)
LEMMA LstatFileCounts == Quiet /\ LstatFile => WalkInv'
<1> SUFFICES ASSUME Quiet, LstatFile
             PROVE  WalkInv'
  OBVIOUS
<1> USE DEF Report
<1>1. at = "lstat" /\ arg \in Files /\ UNCHANGED <<cwd, stack, arg, g_depth, denied, broken, stuck>>
      /\ count' = [count EXCEPT ![arg] = @ + 1] /\ shown' = [shown EXCEPT ![arg] = g_depth]
  BY DEF LstatFile
<1>2. ret' = 0 /\ at' \in {"end", "read"} /\ (at' = "end" => stack = <<>>)
  BY DEF LstatFile, Return
<1>3. /\ Reading'
      /\ count' \in [Nodes -> {0, 1}] /\ count'[arg] = 1
      /\ \A n \in Nodes \ {arg} : count'[n] = count[n]
  BY <1>1, ReportReading
<1>4. InHand'
  BY <1>1, <1>2, LevelInHand DEF InHand
<1>5. Counted /\ ret = 0
  BY <1>1, LevelInHand DEF Quiet, WalkInv
<1>6. shown' \in [Nodes -> Int] /\ \A n \in Nodes : count'[n] = 1 => shown'[n] = Level(n) - 1
  <2>1. g_depth = Level(arg) - 1 /\ g_depth \in Int
    BY <1>1, LevelInHand, QuietTypes DEF Opening
  <2> QED
    BY <1>1, <1>3, <1>5, <2>1 DEF Counted
<1>7. count'[Root] = 1
  BY <1>1, <1>3, <1>5, TreeFacts DEF Counted
<1>8. ASSUME NEW n \in Nodes \ {Root}, count'[n] = 1
      PROVE  count'[Tree[n]] = 1 /\ Tree[n] \notin denied
  <2>1. Tree[n] \in Nodes
    BY TreeFacts
  <2>2. CASE n = arg
    <3>1. stack # <<>> /\ Tree[n] = Top.dir
      BY <1>1, <2>2, LevelInHand
    <3>2. count[Top.dir] = 1 /\ Top.dir \notin denied
      BY <3>1, QuietTypes DEF Quiet, WalkInv, Reading, Top
    <3> QED
      BY <1>3, <2>1, <3>1, <3>2
  <2>3. CASE n # arg
    BY <1>3, <1>5, <1>8, <2>1, <2>3 DEF Counted
  <2> QED
    BY <2>2, <2>3
<1>9. ASSUME NEW n \in Nodes \ {Root}, count'[Tree[n]] = 1
      PROVE  count'[n] = 1 \/ Tree[n] \in denied \cup broken \/ OnStack(Tree[n])
  <2>1. Tree[n] \in Nodes /\ Tree[n] # arg
    BY <1>1, TreeFacts, TreeAssumption
  <2>2. count[Tree[n]] = 1
    BY <1>3, <1>9, <2>1
  <2> QED
    BY <1>1, <1>3, <1>5, <2>2 DEF Counted
<1>10. \A d \in denied : count'[d] = 1
  BY <1>3, <1>5, TreeFacts DEF Counted, Nodes
<1>11. Counted'
  BY <1>1, <1>2, <1>3, <1>5, <1>6, <1>7, <1>8, <1>9, <1>10 DEF Counted, OnStack
<1> QED
  BY <1>3, <1>4, <1>11 DEF WalkInv

(* A directory is counted, and nothing in it has been.                      *)
LEMMA LstatDirCounts == Quiet /\ LstatDir => WalkInv'
<1> SUFFICES ASSUME Quiet, LstatDir
             PROVE  WalkInv'
  OBVIOUS
<1> USE DEF Report
<1>1. at = "lstat" /\ arg \in Dirs /\ at' = "open" /\ UNCHANGED <<cwd, stack, arg, ret, denied, broken, stuck>>
      /\ count' = [count EXCEPT ![arg] = @ + 1] /\ shown' = [shown EXCEPT ![arg] = g_depth]
  BY DEF LstatDir
<1>2. ret = 0 /\ ~stuck /\ Tree[arg] = cwd /\ count[arg] = 0
  BY <1>1, LevelInHand DEF Quiet, WalkInv, InHand
<1>3. /\ Reading'
      /\ count' \in [Nodes -> {0, 1}] /\ count'[arg] = 1
      /\ \A n \in Nodes \ {arg} : count'[n] = count[n]
  BY <1>1, ReportReading
<1>4. Counted
  BY DEF Quiet, WalkInv
<1>5. \A n \in Under(arg) : n \in Nodes \ {arg} /\ n # Root /\ count[n] = 0
  <2>1. \A n \in Under(arg) : n \in Nodes /\ n # arg /\ Tree[n] = arg
    BY QuietTypes DEF Under
  <2>2. \A n \in Under(arg) : n # Root
    BY <2>1, TreeFacts, QuietTypes
  <2> QED
    BY <1>2, <1>4, <2>1, <2>2, QuietTypes DEF Counted
<1>6. InHand'
  <2>1. arg \notin denied
    BY <1>2, <1>4 DEF Counted
  <2>2. \A n \in Under(arg) : count'[n] = 0
    BY <1>3, <1>5
  <2>3. stack # <<>> => arg \in Top.read
    BY <1>1, LevelInHand
  <2> QED
    BY <1>1, <1>2, <1>3, <2>1, <2>2, <2>3 DEF InHand, Top, Under
<1>7. shown' \in [Nodes -> Int] /\ \A n \in Nodes : count'[n] = 1 => shown'[n] = Level(n) - 1
  <2>1. g_depth = Level(arg) - 1 /\ g_depth \in Int
    BY <1>1, LevelInHand, QuietTypes DEF Opening
  <2> QED
    BY <1>1, <1>3, <1>4, <2>1 DEF Counted
<1>8. count'[Root] = 1
  BY <1>1, <1>3, <1>4, TreeFacts DEF Counted
<1>9. ASSUME NEW n \in Nodes \ {Root}, count'[n] = 1
      PROVE  count'[Tree[n]] = 1 /\ Tree[n] \notin denied
  <2>1. Tree[n] \in Nodes
    BY TreeFacts
  <2>2. CASE n = arg
    <3>1. stack # <<>> /\ Tree[n] = Top.dir
      BY <1>1, <2>2, LevelInHand
    <3>2. count[Top.dir] = 1 /\ Top.dir \notin denied
      BY <3>1, QuietTypes DEF Quiet, WalkInv, Reading, Top
    <3> QED
      BY <1>3, <2>1, <3>1, <3>2
  <2>3. CASE n # arg
    BY <1>3, <1>4, <1>9, <2>1, <2>3 DEF Counted
  <2> QED
    BY <2>2, <2>3
<1>10. ASSUME NEW n \in Nodes \ {Root}, count'[Tree[n]] = 1
       PROVE  count'[n] = 1 \/ Tree[n] \in denied \cup broken \/ OnStack(Tree[n]) \/ arg = Tree[n]
  <2>1. Tree[n] \in Nodes
    BY TreeFacts
  <2>2. CASE Tree[n] # arg
    <3>1. count[Tree[n]] = 1
      BY <1>3, <1>10, <2>1, <2>2
    <3> QED
      BY <1>1, <1>2, <1>3, <1>4, <3>1 DEF Counted
  <2> QED
    BY <2>2
<1>11. \A d \in denied : count'[d] = 1
  BY <1>3, <1>4, TreeFacts DEF Counted, Nodes
<1>12. Counted'
  BY <1>1, <1>3, <1>4, <1>7, <1>8, <1>9, <1>10, <1>11 DEF Counted, OnStack
<1> QED
  BY <1>3, <1>6, <1>12 DEF WalkInv

(* Steps that leave stack and counters alone.                               *)
LEMMA PlainCounts == Quiet /\ (LstatFails \/ Opendir \/ ReaddirEnds) => WalkInv'
<1> SUFFICES ASSUME Quiet, LstatFails \/ Opendir \/ ReaddirEnds
             PROVE  WalkInv'
  OBVIOUS
<1>1. UNCHANGED <<cwd, stack, arg, ret, count, shown, denied, broken, stuck>>
  BY DEF LstatFails, Opendir, ReaddirEnds, results
<1>2. \/ at = "lstat" /\ at' = "exit"
      \/ at = "open" /\ at' = "chdir"
      \/ at = "read" /\ at' = "leave" /\ Children(Top.dir) \cap Top.first \subseteq Top.read
  BY DEF LstatFails, Opendir, ReaddirEnds
<1>3. InHand /\ Reading /\ Counted
  BY DEF Quiet, WalkInv
<1>4. InHand'
  BY <1>1, <1>2, <1>3 DEF InHand, Top, Under
<1>5. Reading'
  BY <1>1, <1>2, <1>3 DEF Reading, Under
<1>6. at' = "leave" => Under(Top.dir) \subseteq Top.read
  <2>1. ASSUME at' = "leave"
        PROVE  at = "read" /\ Children(Top.dir) \cap Top.first \subseteq Top.read
    BY <1>2, <2>1
  <2>2. ASSUME at = "read"
        PROVE  Children(Top.dir) = Under(Top.dir) /\ Top.first = Under(Top.dir)
    <3>1. stack # <<>>
      BY <2>2 DEF Quiet, PlacedInv, WalkTypes
    <3> QED
      BY <1>3, <3>1, QuietTypes DEF Reading, Top
  <2> QED
    BY <2>1, <2>2
<1>7. Counted'
  BY <1>1, <1>2, <1>3, <1>6 DEF Counted, OnStack, Top, Under
<1> QED
  BY <1>4, <1>5, <1>7 DEF WalkInv

(* A directory that is not opened is denied: nothing in it is counted.      *)
LEMMA OpendirFailsCounts == Quiet /\ OpendirFails => WalkInv'
<1> SUFFICES ASSUME Quiet, OpendirFails
             PROVE  WalkInv'
  OBVIOUS
<1>1. /\ at = "open" /\ UNCHANGED <<cwd, stack, arg, count, broken, stuck>>
      /\ g_depth' = g_depth - 1 /\ shown' = [shown EXCEPT ![arg] = g_depth']
      /\ denied' = denied \cup {arg}
  BY DEF OpendirFails
<1>2. ret' = 0 /\ at' \in {"end", "read"} /\ (at' = "end" => stack = <<>>)
  BY DEF OpendirFails, Return
<1>3. InHand /\ Reading /\ Counted /\ arg \in Dirs
  BY <1>1 DEF Quiet, WalkInv, PlacedInv, WalkTypes
<1>4. InHand'
  BY <1>1, <1>2, LevelInHand DEF InHand
<1>5. Reading'
  <2>1. \A k \in 1 .. Len(stack) : stack[k].dir # arg
    BY <1>1, OnlyInTop
  <2> QED
    BY <1>1, <1>2, <1>3, <2>1 DEF Reading, Under
<1>6. shown' \in [Nodes -> Int] /\ \A n \in Nodes : count[n] = 1 => shown'[n] = Level(n) - 1
  <2>1. g_depth' = Level(arg) - 1 /\ g_depth' \in Int
    BY <1>1, LevelInHand, QuietTypes DEF Opening
  <2> QED
    BY <1>1, <1>3, <2>1 DEF Counted
<1>7. /\ count[arg] = 1 /\ \A n \in Nodes : Tree[n] = arg => count[n] = 0
      /\ ret = 0
  BY <1>1, <1>3, LevelInHand DEF InHand, Under
<1>8. \A n \in Nodes \ {Root} : count[n] = 1 => count[Tree[n]] = 1 /\ Tree[n] \notin denied'
  BY <1>1, <1>3, <1>7 DEF Counted
<1>9. \A n \in Nodes \ {Root} : count[Tree[n]] = 1 =>
         count[n] = 1 \/ Tree[n] \in denied' \cup broken \/ OnStack(Tree[n])
  BY <1>1, <1>3, <1>7 DEF Counted
<1>10. Counted'
  BY <1>1, <1>2, <1>3, <1>6, <1>7, <1>8, <1>9 DEF Counted, OnStack
<1> QED
  BY <1>4, <1>5, <1>10 DEF WalkInv

(* A directory is entered: it comes on the stack with nothing read.         *)
LEMMA ChdirCounts == Quiet /\ Chdir => WalkInv'
<1> SUFFICES ASSUME Quiet, Chdir
             PROVE  WalkInv'
  OBVIOUS
<1> DEFINE new == [dir |-> arg, first |-> Children(arg), read |-> {}]
<1>1. /\ at = "chdir" /\ at' = "read" /\ ret' = 0 /\ stack' = Append(stack, new)
      /\ UNCHANGED <<arg, count, shown, denied, broken, stuck>>
  BY DEF Chdir, results
<1>2. InHand /\ Reading /\ Counted /\ arg \in Nodes /\ stack \in Seq(Calls)
  BY <1>1 DEF Quiet, WalkInv, PlacedInv, WalkTypes
<1>3. /\ Len(stack') = Len(stack) + 1 /\ stack'[Len(stack) + 1] = new
      /\ \A k \in 1 .. Len(stack) : stack'[k] = stack[k]
  BY <1>1, <1>2
<1>4. ret = 0 /\ ~stuck /\ Level(arg) = Len(stack) + 1 /\ Len(stack) \in Nat
  BY <1>1, LevelInHand, QuietTypes
<1>5. InHand'
  BY <1>1, <1>4 DEF InHand
<1>6. count[arg] = 1 /\ arg \notin denied /\ \A n \in Under(arg) : count[n] = 0
  BY <1>1, <1>2 DEF InHand
<1>7. Reading'
  <2>1. ASSUME NEW k \in 1 .. Len(stack')
        PROVE  LET d == stack'[k].dir
               IN  /\ Level(d) = k
                   /\ count[d] = 1 /\ d \notin denied
                   /\ stack'[k].first = Under(d)
                   /\ \A n \in Under(d) :
                        /\ n \notin stack'[k].read => count[n] = 0
                        /\ n \in stack'[k].read => count[n] = 1
    <3>1. CASE k = Len(stack) + 1
      <4>1. stack'[k] = new
        BY <1>3, <3>1
      <4>2. new.dir = arg /\ new.first = Under(arg) /\ new.read = {}
        BY <1>2, QuietTypes
      <4> QED
        BY <1>4, <1>6, <3>1, <4>1, <4>2
    <3>2. CASE k # Len(stack) + 1
      <4>1. k \in 1 .. Len(stack) /\ stack'[k] = stack[k]
        BY <1>3, <1>4, <2>1, <3>2
      <4> QED
        BY <1>1, <1>2, <4>1 DEF Reading
    <3> QED
      BY <3>1, <3>2
  <2> QED
    BY <1>1, <2>1 DEF Reading, Under
<1>8. \A d : OnStack(d) \/ d = arg => OnStack(d)'
  <2>1. \A d : OnStack(d) => OnStack(d)'
    BY <1>3, <1>4 DEF OnStack
  <2>2. \A d : d = arg => OnStack(d)'
    BY <1>1, <1>3, <1>4 DEF OnStack
  <2> QED
    BY <2>1, <2>2
<1>9. Counted'
  BY <1>1, <1>2, <1>4, <1>8 DEF Counted
<1> QED
  BY <1>5, <1>7, <1>9 DEF WalkInv

(* A directory that is not entered ends the walk with an error.             *)
LEMMA ChdirFailsCounts == Quiet /\ ChdirFails => WalkInv'
<1> SUFFICES ASSUME Quiet, ChdirFails
             PROVE  WalkInv'
  OBVIOUS
<1>1. /\ at = "chdir" /\ UNCHANGED <<cwd, stack, arg, count, shown, denied, broken, stuck>>
      /\ ret' = -1 /\ at' \in {"end", "leave"} /\ (at' = "end" => stack = <<>>)
  BY DEF ChdirFails, Return, results
<1>2. InHand /\ Reading /\ Counted
  BY DEF Quiet, WalkInv
<1>3. InHand'
  BY <1>1, LevelInHand DEF InHand
<1>4. Reading'
  BY <1>1, <1>2 DEF Reading, Under
<1>5. Counted'
  BY <1>1, <1>2 DEF Counted, OnStack
<1> QED
  BY <1>3, <1>4, <1>5 DEF WalkInv

(* A name is read that has not been read before, and so not counted.        *)
LEMMA ReaddirCounts == Quiet /\ (\E n \in Nodes : Readdir(n)) => WalkInv'
<1> SUFFICES ASSUME Quiet, NEW n \in Nodes, Readdir(n)
             PROVE  WalkInv'
  OBVIOUS
<1>1. /\ at = "read" /\ at' = "lstat" /\ arg' = n /\ n \in Children(Top.dir) \ Top.read
      /\ stack' = [stack EXCEPT ![Len(stack)].read = @ \cup {n}]
      /\ UNCHANGED <<cwd, ret, count, shown, denied, broken, stuck>>
  BY DEF Readdir, results
<1>2. InHand /\ Reading /\ Counted /\ stack \in Seq(Calls) /\ stack # <<>>
  BY <1>1 DEF Quiet, WalkInv, PlacedInv, WalkTypes
<1>3. ret = 0 /\ ~stuck
  BY <1>1, <1>2 DEF InHand
<1>4. Depth /\ StepByStep
  BY <1>3, PlacedParts DEF Quiet, PlacedInv
<1>5. /\ Len(stack) \in 1 .. Len(stack) /\ Top.dir \in Nodes /\ Top = stack[Len(stack)]
      /\ n \in Under(Top.dir) /\ Tree[n] = Top.dir /\ Top.dir = cwd
  BY <1>1, <1>2, <1>4, QuietTypes DEF Top, StepByStep, Under
<1>6. /\ Len(stack') = Len(stack)
      /\ \A k \in 1 .. Len(stack) :
           /\ stack'[k].dir = stack[k].dir /\ stack'[k].first = stack[k].first
           /\ stack'[k].read = IF k = Len(stack) THEN stack[k].read \cup {n} ELSE stack[k].read
  <2> DEFINE top == [stack[Len(stack)] EXCEPT !.read = @ \cup {n}]
  <2>1. stack' = [stack EXCEPT ![Len(stack)] = top]
    BY <1>1
  <2> HIDE DEF top
  <2>2. Len(stack') = Len(stack) /\ \A k \in 1 .. Len(stack) : stack'[k] = IF k = Len(stack) THEN top ELSE stack[k]
    BY <1>2, <2>1
  <2>3. stack[Len(stack)] \in Calls
    BY <1>5, QuietTypes
  <2>4. /\ top.dir = stack[Len(stack)].dir /\ top.first = stack[Len(stack)].first
        /\ top.read = stack[Len(stack)].read \cup {n}
    BY <2>3 DEF top, Calls
  <2> QED
    BY <2>2, <2>4
<1>7. count[n] = 0
  BY <1>1, <1>2, <1>5 DEF Reading
<1>8. InHand'
  <2>1. n \in stack'[Len(stack')].read
    BY <1>5, <1>6
  <2> QED
    BY <1>1, <1>2, <1>3, <1>5, <1>7, <2>1 DEF InHand, Top
<1>9. Reading'
  <2>1. ASSUME NEW k \in 1 .. Len(stack), NEW m \in Under(stack[k].dir)
        PROVE  /\ m \notin stack'[k].read => count[m] = 0
               /\ m \in stack'[k].read => count[m] = 1 \/ m = n
    BY <1>1, <1>2, <1>6 DEF Reading
  <2> QED
    BY <1>1, <1>2, <1>6, <2>1 DEF Reading, Under
<1>10. \A d : OnStack(d) <=> OnStack(d)'
  BY <1>6 DEF OnStack
<1>11. Counted'
  BY <1>1, <1>2, <1>3, <1>10 DEF Counted
<1> QED
  BY <1>8, <1>9, <1>11 DEF WalkInv

(* A directory that readdir fails in: the walk goes up as if it were read.   *)
LEMMA ReaddirFailsCounts == Quiet /\ ReaddirFails => WalkInv'
<1> SUFFICES ASSUME Quiet, ReaddirFails
             PROVE  WalkInv'
  OBVIOUS
<1>1. /\ at = "read" /\ at' = "leave" /\ broken' = broken \cup {Top.dir}
      /\ UNCHANGED <<cwd, stack, arg, ret, count, shown, denied, stuck>>
  BY DEF ReaddirFails, results
<1>2. InHand /\ Reading /\ Counted
  BY DEF Quiet, WalkInv
<1>3. InHand'
  BY <1>1, <1>2 DEF InHand, Top, Under
<1>4. Reading'
  BY <1>1, <1>2 DEF Reading, Under
<1>5. Counted'
  <2>1. Top' = Top
    BY <1>1 DEF Top
  <2> QED
    BY <1>1, <1>2, <2>1 DEF Counted, OnStack, Under
<1> QED
  BY <1>3, <1>4, <1>5 DEF WalkInv

(* The way up: the directory that is left has been read to its end, readdir *)
(* has failed in it, or the walk has failed.                                *)
LEMMA LeaveCounts == Quiet /\ (Leave \/ LeaveFails) => WalkInv'
<1> SUFFICES ASSUME Quiet, Leave \/ LeaveFails
             PROVE  WalkInv'
  OBVIOUS
<1>1. /\ at = "leave" /\ stack' = Pop /\ UNCHANGED <<arg, count, shown, denied, broken>>
      /\ at' \in {"end", "read", "leave"} /\ (at' = "end" <=> Pop = <<>>)
      /\ ret' \in {ret, -1} /\ (stuck' => stuck \/ ret' = -1)
      /\ (at' = "read" <=> Pop # <<>> /\ ret' = 0)
  BY DEF Leave, LeaveFails, Return, results
<1>2. InHand /\ Reading /\ Counted /\ stack \in Seq(Calls) /\ stack # <<>>
  BY <1>1 DEF Quiet, WalkInv, PlacedInv, WalkTypes
<1>3. /\ Len(stack') = Len(stack) - 1 /\ Len(stack) \in 1 .. Len(stack)
      /\ \A k \in 1 .. Len(stack') : stack'[k] = stack[k]
  BY <1>1, <1>2, Popped, QuietTypes DEF Pop
<1>4. InHand'
  <2>1. ret' \in {0, -1} /\ (ret' = -1 => at' \in {"leave", "end"}) /\ (stuck' => ret' = -1)
    BY <1>1, <1>2 DEF InHand
  <2> QED
    BY <1>1, <2>1 DEF InHand
<1>5. Reading'
  <2>1. \A k \in 1 .. Len(stack') : k \in 1 .. Len(stack)
    BY <1>3
  <2> QED
    BY <1>1, <1>2, <1>3, <2>1 DEF Reading, Under
<1>6. ASSUME ret' = 0, NEW n \in Nodes \ {Root}, count[Tree[n]] = 1
      PROVE  count[n] = 1 \/ Tree[n] \in denied \cup broken \/ OnStack(Tree[n])'
  <2>1. ret = 0
    BY <1>1, <1>6
  <2>2. count[n] = 1 \/ Tree[n] \in denied \cup broken \/ OnStack(Tree[n])
    BY <1>1, <1>2, <1>6, <2>1 DEF Counted
  <2>3. ASSUME NEW k \in 1 .. Len(stack), stack[k].dir = Tree[n]
        PROVE  count[n] = 1 \/ Tree[n] \in broken \/ OnStack(Tree[n])'
    <3>1. CASE k = Len(stack)
      <4>1. /\ n \in Under(Top.dir) /\ Top.dir = Tree[n]
            /\ Under(Top.dir) \subseteq Top.read \/ Top.dir \in broken
        BY <1>1, <1>2, <2>1, <2>3, <3>1 DEF Counted, Under, Top
      <4> QED
        BY <1>1, <1>2, <2>3, <3>1, <4>1 DEF Reading, Top, Under
    <3>2. CASE k # Len(stack)
      <4>1. k \in 1 .. Len(stack') /\ stack'[k].dir = Tree[n]
        BY <1>3, <2>3, <3>2
      <4> QED
        BY <4>1 DEF OnStack
    <3> QED
      BY <3>1, <3>2
  <2> QED
    BY <2>2, <2>3 DEF OnStack
<1>7. at' = "leave" => ret' # 0
  BY <1>1
<1>8. Counted'
  BY <1>1, <1>2, <1>6, <1>7 DEF Counted
<1> QED
  BY <1>4, <1>5, <1>8 DEF WalkInv

(* Once others have changed the tree nothing is claimed.                    *)
LEMMA CountStep == CountInv /\ [FtwNext]_ftwVars => CountInv'
<1> SUFFICES ASSUME CountInv, [FtwNext]_ftwVars
             PROVE  CountInv'
  OBVIOUS
<1>1. PlacedInv'
  BY PlacedStep DEF CountInv
<1>2. ASSUME Walk, changes' = 0
      PROVE  WalkInv'
  <2>1. changes' = changes
    BY <1>2 DEF Walk, LstatFile, LstatDir, LstatFails, Opendir, OpendirFails, Chdir, ChdirFails,
       Readdir, ReaddirEnds, ReaddirFails, Leave, LeaveFails, world
  <2>2. Quiet
    BY <1>2, <2>1 DEF CountInv, Quiet
  <2> QED
    BY <1>2, <2>2, LstatFileCounts, LstatDirCounts, PlainCounts, OpendirFailsCounts, ChdirCounts,
       ChdirFailsCounts, ReaddirCounts, ReaddirFailsCounts, LeaveCounts DEF Walk
<1>3. ASSUME NEW n \in Nodes, NEW d, Change(n, d)
      PROVE  changes' # 0
  BY <1>3 DEF Change, CountInv, PlacedInv, WalkTypes
<1>4. CASE UNCHANGED ftwVars
  <2> USE DEF ftwVars, world, results
  <2>1. UNCHANGED <<changes, at, arg, ret, cwd, stack, count, shown, denied, broken, stuck>>
    BY <1>4
  <2>2. InHand => InHand'
    BY <2>1 DEF InHand, Top, Under
  <2>3. Reading => Reading'
    BY <2>1 DEF Reading, Under
  <2>4. Counted => Counted'
    BY <2>1 DEF Counted, Top, OnStack, Under
  <2> QED
    BY <1>1, <2>1, <2>2, <2>3, <2>4 DEF CountInv, WalkInv
<1> QED
  BY <1>1, <1>2, <1>3, <1>4 DEF CountInv, FtwNext, Move, Unlink

(* Complete is an invariant: in a tree that nobody changes no file is       *)
(* counted twice, each is printed at its own depth, and a walk that ends    *)
(* with 0 has left out only what is below directories that opendir or       *)
(* readdir has failed for.                                                  *)
THEOREM WalkIsComplete == FtwSpec => []Complete
  BY CountInit, CountStep, CountSuffices, PTL DEF FtwSpec
-----------------------------------------------------------------------------
(* Dgram.                                                                   *)

Asked == [from : Clients, n : Nat, kind : Kinds]

DgramTypes ==
    /\ server \in {"off", "recvfrom", "sendto", "killed"}
    /\ requests \in Seq(Asked) /\ op \in Asked \cup {NoRequest}
    /\ result \in Asked \cup {NoRequest}
    /\ client \in [Clients -> Kinds \cup {"asks", "gone"}]
    /\ asked \in [Clients -> Nat] /\ asks \in Nat
    /\ answers \in [Clients -> Seq(Asked \cup {NoRequest})]
    /\ grew \in BOOLEAN /\ zeros \in BOOLEAN

(* What is left of the buffer's length, and what the buffer holds once a    *)
(* request has been taken.                                                  *)
BufferInv ==
    /\ last \in Nat
    /\ client_len = Width \/ client_len = last + 1
    /\ server = "sendto" =>
         /\ op \in Asked /\ op.kind \in {"sum", "zero"}
         /\ ~grew => /\ client_len = Len(op.from) + 1
                     /\ \A k \in 1 .. Len(op.from) : client_addr[k] = op.from[k]
                     /\ client_addr[Len(op.from) + 1] = NUL

(* Where the request r of a client that waits for its answer is on its way. *)
OnItsWay(r) ==
    /\ answers[r.from] = <<>> /\ asked[r.from] = r.n
    /\ client[r.from] \in {r.kind, "gone"}

TurnInv ==
    /\ \A j \in DOMAIN requests : OnItsWay(requests[j]) /\ requests[j].kind # "zero"
    /\ \A j, k \in DOMAIN requests : requests[j].from = requests[k].from => j = k
    /\ server = "sendto" =>
         /\ OnItsWay(op) /\ result = op
         /\ \A j \in DOMAIN requests : requests[j].from # op.from

AnswerInv == DgramTypes /\ BufferInv /\ (~grew /\ ~zeros => TurnInv /\ OwnAnswers)

(* No client has the empty name.                                            *)
LEMMA NoClientIsNobody == NoRequest \notin Asked
<1>1. \A c \in Clients : Len(c) # 0
  BY NamesAssumption
<1>2. Len(<<>>) = 0
  OBVIOUS
<1>3. <<>> \notin Clients
  BY <1>1, <1>2
<1> QED
  BY <1>3 DEF NoRequest, Asked

(* Nothing has been asked.                                                  *)
LEMMA AnswerInit == DgramInit => AnswerInv
<1> SUFFICES ASSUME DgramInit
             PROVE  AnswerInv
  OBVIOUS
<1>1. DgramTypes
  <2>1. /\ requests \in Seq(Asked) /\ op \in Asked \cup {NoRequest}
        /\ result \in Asked \cup {NoRequest}
    BY DEF DgramInit
  <2>2. /\ client \in [Clients -> Kinds \cup {"asks", "gone"}]
        /\ asked \in [Clients -> Nat] /\ asks \in Nat
    BY DEF DgramInit
  <2>3. answers \in [Clients -> Seq(Asked \cup {NoRequest})]
    BY DEF DgramInit
  <2>4. server = "off" /\ grew \in BOOLEAN /\ zeros \in BOOLEAN
    BY DEF DgramInit
  <2> QED
    BY <2>1, <2>2, <2>3, <2>4 DEF DgramTypes
<1>2. BufferInv
  BY NamesAssumption DEF DgramInit, BufferInv
<1>3. TurnInv /\ OwnAnswers
  BY DEF DgramInit, TurnInv, OwnAnswers
<1> QED
  BY <1>1, <1>2, <1>3 DEF AnswerInv

(* A buffer that holds the name of the sender names nobody else: no name    *)
(* has a '\0' in it, and none is as long as the name with its '\0'.         *)
LEMMA SenderIsAddressed ==
    ASSUME NEW c \in Clients, client_len = Len(c) + 1,
           \A k \in 1 .. Len(c) : client_addr[k] = c[k], client_addr[Len(c) + 1] = NUL
    PROVE  Addressed = {c}
<1>1. /\ c \in Seq(Nat \ {NUL}) /\ Len(c) \in Nat
      /\ \A k \in 1 .. Len(c) : c[k] # NUL
  BY NamesAssumption
<1>2. \A n \in 0 .. client_len : /\ Len(SubSeq(client_addr, 1, n)) = n
                                 /\ \A k \in 1 .. n : SubSeq(client_addr, 1, n)[k] = client_addr[k]
  OBVIOUS
<1>3. ASSUME NEW d \in Addressed
      PROVE  d = c
  <2>1. PICK n \in 0 .. client_len : /\ d = SubSeq(client_addr, 1, n)
                                     /\ n = client_len \/ client_addr[n + 1] = NUL
    BY DEF Addressed
  <2>2. /\ d \in Seq(Nat \ {NUL}) /\ Len(d) = n
        /\ \A k \in 1 .. n : d[k] = client_addr[k] /\ d[k] # NUL
    <3>1. d \in Seq(Nat \ {NUL})
      BY NamesAssumption DEF Addressed
    <3>2. Len(d) = n /\ \A k \in 1 .. n : d[k] = client_addr[k]
      BY <1>2, <2>1
    <3> QED
      BY <3>1, <3>2
  <2>3. n # client_len
    BY <1>1, <2>2
  <2>4. ~ (n + 1 \in 1 .. Len(c))
    BY <1>1, <2>1, <2>3
  <2>5. n = Len(c)
    BY <1>1, <2>1, <2>3, <2>4
  <2> QED
    BY <1>1, <2>2, <2>5
<1>4. c \in Addressed
  <2>1. Len(SubSeq(client_addr, 1, Len(c))) = Len(c)
    BY <1>1, <1>2
  <2>2. SubSeq(client_addr, 1, Len(c)) = [k \in 1 .. Len(c) |-> client_addr[k]]
    BY <1>1
  <2>3. c = [k \in 1 .. Len(c) |-> c[k]]
    BY <1>1
  <2>4. c = SubSeq(client_addr, 1, Len(c))
    BY <2>2, <2>3
  <2>5. Len(c) \in 0 .. client_len
    BY <1>1
  <2> QED
    BY <2>4, <2>5 DEF Addressed
<1> QED
  BY <1>3, <1>4

(* Every step keeps the types.                                              *)
LEMMA TypesStep == DgramTypes /\ BufferInv /\ [DgramNext]_dgramVars => DgramTypes'
<1> SUFFICES ASSUME DgramTypes, BufferInv, [DgramNext]_dgramVars
             PROVE  DgramTypes'
  OBVIOUS
<1> USE DEF DgramTypes, serverVars, clientVars, history
<1>1. CASE Start \/ Kill
  <2>1. <<>> \in Seq(Asked)
    OBVIOUS
  <2>2. requests' \in Seq(Asked) /\ op' \in Asked \cup {NoRequest}
    BY <1>1, <2>1 DEF Start, Kill
  <2> QED
    BY <1>1, <2>2 DEF Start, Kill
<1>2. CASE Recvfrom
  BY <1>2 DEF Recvfrom, Computed
<1>3. CASE Sendto
  <2>1. ASSUME NEW c \in Addressed, Deliver(c, result)
        PROVE  answers' \in [Clients -> Seq(Asked \cup {NoRequest})]
    BY <2>1 DEF Deliver, Addressed
  <2> QED
    BY <1>3, <2>1 DEF Sendto
<1>4. ASSUME NEW c \in Clients, NEW kind \in Kinds, Ask(c, kind)
      PROVE  DgramTypes'
  <2>1. asks' \in Nat /\ [from |-> c, n |-> asks', kind |-> kind] \in Asked
    BY <1>4 DEF Ask, Asked
  <2> QED
    BY <1>4, <2>1 DEF Ask
<1>5. ASSUME NEW c \in Clients, AskFails(c) \/ GetAnswer(c) \/ handle_sigint(c)
      PROVE  DgramTypes'
  <2>1. answers' \in [Clients -> Seq(Asked \cup {NoRequest})]
    <3>1. <<>> \in Seq(Asked \cup {NoRequest})
      OBVIOUS
    <3>2. answers[c] # <<>> => Tail(answers[c]) \in Seq(Asked \cup {NoRequest})
      OBVIOUS
    <3> QED
      BY <1>5, <3>1, <3>2 DEF AskFails, GetAnswer, handle_sigint
  <2>2. client' \in [Clients -> Kinds \cup {"asks", "gone"}]
    BY <1>5 DEF AskFails, GetAnswer, handle_sigint
  <2>3. UNCHANGED <<serverVars, requests, asked, asks, history>>
    BY <1>5 DEF AskFails, GetAnswer, handle_sigint
  <2> QED
    BY <2>1, <2>2, <2>3
<1>6. CASE UNCHANGED dgramVars
  BY <1>6 DEF dgramVars
<1> QED
  BY <1>1, <1>2, <1>3, <1>4, <1>5, <1>6 DEF DgramNext, Server

(* Recvfrom puts the whole name in the buffer unless it has grown.          *)
LEMMA BufferStep == DgramTypes /\ BufferInv /\ [DgramNext]_dgramVars => BufferInv'
<1> SUFFICES ASSUME DgramTypes, BufferInv, [DgramNext]_dgramVars
             PROVE  BufferInv'
  OBVIOUS
<1> USE DEF BufferInv, serverVars, clientVars, history
<1>1. CASE Recvfrom
  <2> DEFINE r == Head(requests)
  <2>1. r \in Asked
    BY <1>1 DEF Recvfrom, DgramTypes
  <2>2. PICK c \in Clients : c = r.from
    BY <2>1 DEF Asked
  <2>3. c \in Seq(Nat \ {NUL}) /\ Len(c) \in 1 .. Width - 1 /\ Width \in Nat
    BY NamesAssumption
  <2>4. /\ Name(c) = c \o <<NUL>> /\ Len(Name(c)) = Len(c) + 1
        /\ \A k \in 1 .. Len(c) : Name(c)[k] = c[k]
        /\ Name(c)[Len(c) + 1] = NUL
    BY <2>3 DEF Name
  <2>5. /\ client_addr' = Fits(c) /\ client_len' = Len(c) + 1 /\ last' = Len(c)
        /\ grew' = (grew \/ Len(c) > last)
    BY <1>1, <2>2, <2>4 DEF Recvfrom
  <2>6. ASSUME ~grew'
        PROVE  /\ \A k \in 1 .. Len(c) : client_addr'[k] = c[k]
               /\ client_addr'[Len(c) + 1] = NUL
    <3>1. ~ (Len(c) > last)
      BY <2>5, <2>6
    <3>2. Len(c) + 1 <= client_len
      BY <2>3, <3>1
    <3> QED
      BY <2>3, <2>4, <2>5, <3>2 DEF Fits
  <2>7. server' = "sendto" => op' = r /\ r.kind \in {"sum", "zero"}
    <3>1. r.kind \in {"sum", "zero", "unknown"}
      BY <2>1, NamesAssumption DEF Asked
    <3> QED
      BY <1>1, <3>1 DEF Recvfrom
  <2> QED
    BY SMTT(30), <2>1, <2>2, <2>3, <2>5, <2>6, <2>7
<1>2. CASE Start \/ Kill \/ Sendto
  BY <1>2 DEF Start, Kill, Sendto
<1>3. ASSUME NEW c \in Clients, NEW kind \in Kinds, Ask(c, kind)
      PROVE  BufferInv'
  BY <1>3 DEF Ask
<1>4. ASSUME NEW c \in Clients, AskFails(c) \/ GetAnswer(c) \/ handle_sigint(c)
      PROVE  BufferInv'
  BY <1>4 DEF AskFails, GetAnswer, handle_sigint
<1>5. CASE UNCHANGED dgramVars
  BY <1>5 DEF dgramVars
<1> QED
  BY <1>1, <1>2, <1>3, <1>4, <1>5 DEF DgramNext, Server

(* Recvfrom takes the request out of the queue, Sendto makes it an answer.  *)
LEMMA ServerTurn ==
    ASSUME DgramTypes, BufferInv, TurnInv, OwnAnswers, Server, ~grew, ~zeros
    PROVE  ~grew' => TurnInv' /\ OwnAnswers'
<1> USE DEF DgramTypes, serverVars, clientVars, history
<1>1. CASE Recvfrom
  <2> DEFINE r == Head(requests)
  <2>1. /\ requests # <<>> /\ requests' = Tail(requests) /\ r = requests[1]
        /\ 1 \in DOMAIN requests /\ r \in Asked
    BY <1>1 DEF Recvfrom
  <2>2. /\ DOMAIN requests' = 1 .. Len(requests) - 1
        /\ \A j \in DOMAIN requests' : /\ requests'[j] = requests[j + 1]
                                       /\ j + 1 \in DOMAIN requests
    BY <2>1
  <2>3. UNCHANGED <<client, asked, answers>>
    BY <1>1 DEF Recvfrom
  <2>4. OnItsWay(r) /\ \A j \in DOMAIN requests : OnItsWay(requests[j]) /\ requests[j].kind # "zero"
    BY <2>1 DEF TurnInv
  <2>5. server' = "sendto" => op' = r /\ result' = r
    <3>1. r.kind \in {"sum", "zero", "unknown"} /\ r.kind # "zero"
      BY <2>1, <2>4, NamesAssumption DEF Asked
    <3> QED
      BY <1>1, <3>1 DEF Recvfrom, Computed
  <2>6. \A j \in DOMAIN requests' : requests'[j].from # r.from
    BY <2>1, <2>2 DEF TurnInv
  <2>7. \A j, k \in DOMAIN requests' : requests'[j].from = requests'[k].from => j = k
    BY <2>2 DEF TurnInv
  <2>8. \A q : OnItsWay(q) => OnItsWay(q)'
    BY <2>3 DEF OnItsWay
  <2>9. \A j \in DOMAIN requests' : \E q : /\ q = requests'[j] /\ OnItsWay(q)'
                                         /\ q.kind # "zero"
    BY <2>2, <2>4, <2>8
  <2>10. server' = "sendto" => \E q : q = op' /\ q = result' /\ q = r /\ OnItsWay(q)'
    BY <2>4, <2>5, <2>8
  <2>11. TurnInv'
    BY <2>6, <2>7, <2>9, <2>10 DEF TurnInv, OnItsWay
  <2> QED
    BY <2>3, <2>11 DEF OwnAnswers
<1>2. CASE Sendto
  <2>1. op \in Asked /\ op.kind \in {"sum", "zero"} /\ server = "sendto" /\ server' = "recvfrom"
    BY <1>2 DEF Sendto, BufferInv
  <2>2. PICK c \in Clients : c = op.from
    BY <2>1 DEF Asked
  <2>3. Addressed = {c}
    BY <2>1, <2>2, SenderIsAddressed DEF BufferInv
  <2>4. /\ OnItsWay(op) /\ result = op
        /\ \A j \in DOMAIN requests : requests[j].from # c
    BY <2>1, <2>2 DEF TurnInv
  <2>5. UNCHANGED <<requests, client, asked>>
    BY <1>2 DEF Sendto
  <2>6. CASE client[c] # "gone" /\ Deliver(c, result)
    <3>1. answers' = [answers EXCEPT ![c] = <<op>>]
      <4>1. answers[c] = <<>> /\ Append(<<>>, op) = <<op>>
        BY <2>2, <2>4 DEF OnItsWay
      <4> QED
        BY <2>4, <2>6, <4>1 DEF Deliver
    <3>2. client[c] \in Kinds
      BY <2>1, <2>2, <2>4, <2>6 DEF OnItsWay, Asked
    <3>3. \A d \in Clients \ {c} : answers'[d] = answers[d]
      BY <3>1
    <3>4. TurnInv'
      <4>1. \A j \in DOMAIN requests : requests[j] \in Asked
        OBVIOUS
      <4>2. \A j \in DOMAIN requests : requests[j].from \in Clients \ {c}
        BY <2>4, <4>1 DEF Asked
      <4> QED
        BY <2>1, <2>5, <3>3, <4>2 DEF TurnInv, OnItsWay
    <3>5. OwnAnswers'
      <4>1. answers'[c] = <<op>> /\ op.n = asked'[c] /\ client'[c] \in Kinds
        BY <2>2, <2>4, <2>5, <3>1, <3>2 DEF OnItsWay
      <4>2. /\ Len(answers'[c]) = 1 /\ answers'[c][1].from = c
            /\ answers'[c][1].n = asked'[c]
        BY <2>2, <4>1
      <4>3. \A d \in Clients \ {c} : answers'[d] # <<>> =>
              /\ client'[d] \in Kinds /\ Len(answers'[d]) = 1
              /\ answers'[d][1].from = d /\ answers'[d][1].n = asked'[d]
        BY <2>5, <3>3 DEF OwnAnswers
      <4> QED
        BY <4>1, <4>2, <4>3 DEF OwnAnswers
    <3> QED
      BY <3>4, <3>5
  <2>7. CASE UNCHANGED answers
    BY <2>1, <2>5, <2>7 DEF TurnInv, OnItsWay, OwnAnswers
  <2> QED
    BY <1>2, <2>3, <2>6, <2>7 DEF Sendto
<1> QED
  BY <1>1, <1>2 DEF Server

(* A client that asks is waiting for nothing and has nothing on its way.    *)
LEMMA ClientTurn ==
    ASSUME DgramTypes, BufferInv, TurnInv, OwnAnswers, ~grew, ~zeros, NEW c \in Clients,
           \/ \E kind \in Kinds : Ask(c, kind)
           \/ AskFails(c) \/ GetAnswer(c) \/ handle_sigint(c)
    PROVE  ~zeros' => TurnInv' /\ OwnAnswers'
<1> USE DEF DgramTypes, serverVars, clientVars, history
<1>1. ASSUME NEW r, OnItsWay(r), r \in Asked, client[c] \in {"asks"} \cup Kinds,
             answers[c] # <<>> \/ client[c] = "asks"
      PROVE  r.from # c
  BY <1>1, NamesAssumption DEF OnItsWay, Asked
<1>2. ASSUME NEW kind \in Kinds, Ask(c, kind), ~zeros'
      PROVE  TurnInv' /\ OwnAnswers'
  <2> DEFINE r == [from |-> c, n |-> asks', kind |-> kind]
  <2>1. /\ client[c] = "asks" /\ kind # "zero"
        /\ asked' = [asked EXCEPT ![c] = asks'] /\ client' = [client EXCEPT ![c] = kind]
        /\ requests' = Append(requests, r)
        /\ UNCHANGED <<server, op, result, answers>>
    BY <1>2 DEF Ask
  <2>2. /\ \A j \in DOMAIN requests : requests[j] \in Asked /\ requests[j].from # c
        /\ server = "sendto" => op \in Asked /\ op.from # c
    BY <1>1, <2>1 DEF TurnInv, BufferInv
  <2>3. answers[c] = <<>>
    BY <2>1, NamesAssumption DEF OwnAnswers
  <2>4. \A d \in Clients \ {c} : asked'[d] = asked[d] /\ client'[d] = client[d]
    BY <2>1
  <2>5. asked'[c] = asks' /\ client'[c] = kind
    BY <2>1
  <2>6. ASSUME NEW q \in Asked, q.from # c, OnItsWay(q)
        PROVE  OnItsWay(q)'
    BY <2>1, <2>4, <2>6 DEF OnItsWay, Asked
  <2>7. /\ DOMAIN requests' = 1 .. Len(requests) + 1
        /\ \A j \in DOMAIN requests : requests'[j] = requests[j]
        /\ requests'[Len(requests) + 1] = r /\ DOMAIN requests = 1 .. Len(requests)
        /\ Len(requests) \in Nat
    BY <2>1
  <2>8. r.from = c /\ r.kind = kind /\ r.n = asks'
    OBVIOUS
  <2>9. ASSUME NEW j \in DOMAIN requests'
        PROVE  \E q : q = requests'[j] /\ OnItsWay(q)' /\ q.kind # "zero"
    <3>1. CASE j \in DOMAIN requests
      <4>1. PICK q \in Asked : q = requests[j] /\ q.from # c
        BY <2>2, <3>1
      <4>2. OnItsWay(q) /\ q.kind # "zero"
        BY <3>1, <4>1 DEF TurnInv
      <4> QED
        BY <2>6, <2>7, <3>1, <4>1, <4>2
    <3>2. CASE j = Len(requests) + 1
      <4>1. PICK q : q = r
        OBVIOUS
      <4>2. q.from = c /\ q.n = asked'[c] /\ client'[c] = q.kind /\ q.kind # "zero"
        BY <2>1, <2>5, <2>8, <4>1
      <4>3. OnItsWay(q)'
        BY <2>1, <2>3, <4>2 DEF OnItsWay
      <4> QED
        BY <2>7, <3>2, <4>1, <4>2, <4>3
    <3> QED
      BY <2>7, <3>1, <3>2
  <2>10. \A j, k \in DOMAIN requests' : requests'[j].from = requests'[k].from => j = k
    BY <2>2, <2>7, <2>8 DEF TurnInv
  <2>11. server = "sendto" => /\ OnItsWay(op)' /\ result = op
                              /\ \A j \in DOMAIN requests' : requests'[j].from # op.from
    BY <2>1, <2>2, <2>6, <2>7, <2>8 DEF TurnInv
  <2>12. TurnInv'
    BY <2>1, <2>9, <2>10, <2>11 DEF TurnInv, OnItsWay
  <2>13. OwnAnswers'
    BY <2>1, <2>3, <2>4 DEF OwnAnswers
  <2> QED
    BY <2>12, <2>13
<1>3. CASE AskFails(c)
  <2>1. /\ client[c] = "asks" /\ client' = [client EXCEPT ![c] = "gone"]
        /\ UNCHANGED <<server, op, result, requests, asked, answers, grew, zeros>>
    BY <1>3 DEF AskFails
  <2>2. \A q \in Asked : OnItsWay(q) => OnItsWay(q)'
    BY <2>1 DEF OnItsWay, Asked
  <2>3. TurnInv'
    BY <2>1, <2>2 DEF TurnInv, BufferInv
  <2>4. answers[c] = <<>>
    BY <2>1, NamesAssumption DEF OwnAnswers
  <2> QED
    BY <2>1, <2>3, <2>4 DEF OwnAnswers
<1>4. CASE GetAnswer(c)
  <2>1. /\ client[c] \in Kinds /\ answers[c] # <<>>
        /\ client' = [client EXCEPT ![c] = "asks"]
        /\ answers' = [answers EXCEPT ![c] = Tail(@)]
        /\ UNCHANGED <<server, op, result, requests, asked, grew, zeros>>
    BY <1>4 DEF GetAnswer
  <2>2. \A q \in Asked : OnItsWay(q) => OnItsWay(q)'
    BY <1>1, <2>1 DEF OnItsWay, Asked
  <2>3. TurnInv'
    BY <2>1, <2>2 DEF TurnInv, BufferInv
  <2>4. answers'[c] = <<>>
    BY <2>1 DEF OwnAnswers
  <2> QED
    BY <2>1, <2>3, <2>4 DEF OwnAnswers
<1>5. CASE handle_sigint(c)
  <2>1. /\ client' = [client EXCEPT ![c] = "gone"] /\ answers' = [answers EXCEPT ![c] = <<>>]
        /\ UNCHANGED <<server, op, result, requests, asked, grew, zeros>>
    BY <1>5 DEF handle_sigint
  <2>2. \A q \in Asked : OnItsWay(q) => OnItsWay(q)'
    BY <2>1 DEF OnItsWay, Asked
  <2>3. TurnInv'
    BY <2>1, <2>2 DEF TurnInv, BufferInv
  <2> QED
    BY <2>1, <2>3 DEF OwnAnswers
<1> QED
  BY <1>2, <1>3, <1>4, <1>5

(* AnswerInv is inductive.                                                  *)
LEMMA AnswerStep == AnswerInv /\ [DgramNext]_dgramVars => AnswerInv'
<1> SUFFICES ASSUME AnswerInv, [DgramNext]_dgramVars
             PROVE  AnswerInv'
  OBVIOUS
<1>1. DgramTypes' /\ BufferInv'
  BY TypesStep, BufferStep DEF AnswerInv
<1>2. (grew => grew') /\ (zeros => zeros')
  <2>1. DgramTypes
    BY DEF AnswerInv
  <2>2. CASE Recvfrom
    BY <2>1, <2>2 DEF Recvfrom, DgramTypes
  <2>3. CASE ~Recvfrom
    BY <2>1, <2>3 DEF DgramTypes, DgramNext, Start, Kill, Server, Sendto, Ask, AskFails,
       GetAnswer, handle_sigint, dgramVars, history
  <2> QED
    BY <2>2, <2>3
<1>3. ASSUME ~grew', ~zeros'
      PROVE  TurnInv' /\ OwnAnswers'
  <2>1. TurnInv /\ OwnAnswers /\ ~grew /\ ~zeros
    BY <1>2, <1>3 DEF AnswerInv
  <2>2. CASE Start \/ Kill
    BY <2>1, <2>2 DEF Start, Kill, TurnInv, OnItsWay, OwnAnswers, serverVars, clientVars, history
  <2>3. CASE UNCHANGED dgramVars
    BY <2>1, <2>3 DEF dgramVars, TurnInv, OnItsWay, OwnAnswers, serverVars, clientVars, history
  <2> QED
    BY <1>3, <2>1, <2>2, <2>3, ServerTurn, ClientTurn DEF AnswerInv, DgramNext
<1> QED
  BY <1>1, <1>3 DEF AnswerInv

(* OwnAnswers is an invariant: as long as no name is longer than the one    *)
(* before it and nobody divides by zero, each client gets the answer to     *)
(* what it asked last, and nobody else's.                                   *)
THEOREM OwnAnswersOnly == DgramSpec => []OwnAnswers
<1>1. AnswerInv => OwnAnswers
  BY DEF AnswerInv, OwnAnswers
<1> QED
  BY <1>1, AnswerInit, AnswerStep, PTL DEF DgramSpec

-----------------------------------------------------------------------------
(* Streams: the letters in sequences.                                       *)

Half == N \div 2
Descs == {Desc(s) : s \in Streams}

(* What the fifteen programs have in common.                                *)
LEMMA ProgramFacts ==
  ASSUME NEW p \in Programs
  PROVE  /\ p.mode \in {"read", "write"} /\ p.by \in {"turns", "threads", "detached"}
         /\ p.shared \in BOOLEAN /\ p.append \in BOOLEAN /\ p.buffered \in BOOLEAN
         /\ p.by = "detached" => p.mode = "read"
         /\ p.append => p.mode = "write" /\ p.by = "turns"
         /\ p.shared => p.mode = "read"
<1>1. \/ \E sh, bu \in BOOLEAN, by \in {"turns", "threads", "detached"} : p = Reader(sh, bu, by)
      \/ \E ap, bu \in BOOLEAN, by \in {"turns", "threads"} :
           (ap => by = "turns") /\ p = Writer(ap, bu, by)
  BY DEF Programs, first, testCIO_thread, testCIO_thread1, testCIO_thread2,
     second, second_thr, second_thr2, second_append, third, third_thr, third_thr2,
     fopen, fopen_append, fopen_thr, fopen_thr2
<1>2. ASSUME NEW sh \in BOOLEAN, NEW bu \in BOOLEAN, NEW by \in {"turns", "threads", "detached"},
             p = Reader(sh, bu, by)
      PROVE  /\ p.mode = "read" /\ p.by = by /\ p.shared = sh /\ p.append = FALSE
             /\ p.buffered = bu
  BY <1>2 DEF Reader
<1>3. ASSUME NEW ap \in BOOLEAN, NEW bu \in BOOLEAN, NEW by \in {"turns", "threads"},
             p = Writer(ap, bu, by)
      PROVE  /\ p.mode = "write" /\ p.by = by /\ p.shared = FALSE /\ p.append = ap
             /\ p.buffered = bu
  BY <1>3 DEF Writer
<1>4. CASE \E sh, bu \in BOOLEAN, by \in {"turns", "threads", "detached"} : p = Reader(sh, bu, by)
  <2>1. PICK sh \in BOOLEAN, bu \in BOOLEAN, by \in {"turns", "threads", "detached"} :
          p = Reader(sh, bu, by)
    BY <1>4
  <2>2. p.mode = "read" /\ p.by = by /\ p.shared = sh /\ p.append = FALSE /\ p.buffered = bu
    BY <1>2, <2>1
  <2> QED
    BY <2>2
<1>5. CASE \E ap, bu \in BOOLEAN, by \in {"turns", "threads"} :
             (ap => by = "turns") /\ p = Writer(ap, bu, by)
  <2>1. PICK ap \in BOOLEAN, bu \in BOOLEAN, by \in {"turns", "threads"} :
          (ap => by = "turns") /\ p = Writer(ap, bu, by)
    BY <1>5
  <2>2. p.mode = "write" /\ p.by = by /\ p.shared = FALSE /\ p.append = ap /\ p.buffered = bu
    BY <1>3, <2>1
  <2> QED
    BY <2>1, <2>2
<1> QED
  BY <1>1, <1>4, <1>5

(* The letters are shared out evenly.                                       *)
LEMMA HalfFacts == N \in Nat /\ Half \in Nat /\ N = 2 * Half /\ Half > 0
  BY LettersAssumption DEF Half

(* A count is a number.                                                     *)
LEMMA CountType ==
  ASSUME NEW a \in Seq(Int), NEW x
  PROVE  Count(x, a) \in Nat /\ IsFiniteSet({k \in DOMAIN a : a[k] = x})
<1>1. Len(a) \in Nat /\ DOMAIN a = 1 .. Len(a)
  OBVIOUS
<1>2. IsFiniteSet(1 .. Len(a))
  BY <1>1, FS_Interval
<1>3. IsFiniteSet({k \in DOMAIN a : a[k] = x})
  BY <1>1, <1>2, FS_Subset
<1> QED
  BY <1>3, FS_CardinalityType DEF Count

(* Sets without common elements.                                            *)
LEMMA DisjointUnion ==
  ASSUME NEW S, NEW T, IsFiniteSet(S), IsFiniteSet(T), S \cap T = {}
  PROVE  Cardinality(S \cup T) = Cardinality(S) + Cardinality(T)
<1>1. Cardinality(S) \in Nat /\ Cardinality(T) \in Nat /\ Cardinality(S \cap T) = 0
  BY FS_CardinalityType, FS_EmptySet
<1>2. Cardinality(S \cup T) = Cardinality(S) + Cardinality(T) - Cardinality(S \cap T)
  BY FS_Union
<1> QED
  BY <1>1, <1>2

(* Counts add up.                                                           *)
LEMMA CountConcat ==
  ASSUME NEW a \in Seq(Int), NEW b \in Seq(Int), NEW x
  PROVE  Count(x, a \o b) = Count(x, a) + Count(x, b)
<1> DEFINE A == {k \in DOMAIN a : a[k] = x}
           B == {k \in DOMAIN b : b[k] = x}
           C == {k \in DOMAIN (a \o b) : (a \o b)[k] = x}
           D == {k \in C : k > Len(a)}
           shift == [k \in B |-> k + Len(a)]
<1>1. /\ Len(a) \in Nat /\ Len(b) \in Nat /\ DOMAIN a = 1 .. Len(a) /\ DOMAIN b = 1 .. Len(b)
      /\ DOMAIN (a \o b) = 1 .. Len(a) + Len(b)
      /\ \A k \in 1 .. Len(a) + Len(b) : (a \o b)[k] = IF k <= Len(a) THEN a[k] ELSE b[k - Len(a)]
  OBVIOUS
<1>2. IsFiniteSet(A) /\ IsFiniteSet(B)
  BY CountType
<1>3. shift \in Bijection(B, D)
  <2>1. \A k \in B : k + Len(a) \in D
    BY <1>1
  <2>2. \A k \in D : k - Len(a) \in B /\ (k - Len(a)) + Len(a) = k
    BY <1>1
  <2>3. \A k, m \in B : k + Len(a) = m + Len(a) => k = m
    BY <1>1
  <2> HIDE DEF A, B, C, D
  <2>4. shift \in [B -> D] /\ \A k \in B : shift[k] = k + Len(a)
    BY <2>1
  <2>5. \A k \in D : \E m \in B : shift[m] = k
    BY <2>2, <2>4
  <2> QED
    BY <2>3, <2>4, <2>5 DEF Bijection, Injection, Surjection, IsInjective
<1>4. IsFiniteSet(D) /\ Cardinality(D) = Cardinality(B)
  BY <1>2, <1>3, FS_Bijection DEF ExistsBijection
<1>5. C = A \cup D /\ A \cap D = {}
  BY <1>1
<1>6. Cardinality(C) = Cardinality(A) + Cardinality(B)
  <2> HIDE DEF A, B, C, D
  <2>1. Cardinality(A \cup D) = Cardinality(A) + Cardinality(D)
    BY <1>2, <1>4, <1>5, DisjointUnion
  <2> QED
    BY <1>4, <1>5, <2>1
<1> QED
  BY <1>6 DEF Count

(* One letter.                                                              *)
LEMMA CountOne ==
  ASSUME NEW x, NEW y
  PROVE  Count(x, <<y>>) = IF x = y THEN 1 ELSE 0
<1>1. DOMAIN <<y>> = {1} /\ <<y>>[1] = y
  OBVIOUS
<1>2. {k \in DOMAIN <<y>> : <<y>>[k] = x} = IF x = y THEN {1} ELSE {}
  BY <1>1
<1> QED
  BY <1>2, FS_Singleton, FS_EmptySet DEF Count

(* A letter that is shown leaves the buffer.                                *)
LEMMA CountTail ==
  ASSUME NEW a \in Seq(Int), a # <<>>, NEW x
  PROVE  Count(x, a) = Count(x, <<Head(a)>>) + Count(x, Tail(a))
<1>1. <<Head(a)>> \in Seq(Int) /\ Tail(a) \in Seq(Int) /\ a = <<Head(a)>> \o Tail(a)
  BY HeadTailProperties
<1>2. PICK h, t : h = <<Head(a)>> /\ t = Tail(a)
  OBVIOUS
<1>3. h \in Seq(Int) /\ t \in Seq(Int) /\ a = h \o t
  BY <1>1, <1>2
<1>4. Count(x, h \o t) = Count(x, h) + Count(x, t)
  BY <1>3, CountConcat
<1> QED
  BY <1>2, <1>3, <1>4

(* Nothing is counted in an empty buffer.                                   *)
LEMMA CountEmpty == \A x : Count(x, <<>>) = 0
<1>1. \A x : {k \in DOMAIN <<>> : <<>>[k] = x} = {}
  OBVIOUS
<1> QED
  BY <1>1, FS_EmptySet DEF Count

(* A piece of the alphabet has each of its letters once.                    *)
LEMMA CountChunk ==
  ASSUME NEW p \in 0 .. N, NEW q \in p .. N, NEW x \in 1 .. N
  PROVE  LET chunk == SubSeq(Alphabet, p + 1, q)
         IN  /\ chunk \in Seq(1 .. N) /\ Len(chunk) = q - p
             /\ \A k \in 1 .. Len(chunk) : chunk[k] = p + k
             /\ Count(x, chunk) = IF p < x /\ x <= q THEN 1 ELSE 0
<1>1. PICK chunk : chunk = SubSeq(Alphabet, p + 1, q)
  OBVIOUS
<1>2. chunk = [k \in 1 .. q - p |-> p + k]
  <2>1. chunk = [k \in 1 .. q - p |-> Alphabet[p + k]]
    BY <1>1, HalfFacts
  <2>2. \A k \in 1 .. q - p : Alphabet[p + k] = p + k
    BY HalfFacts DEF Alphabet
  <2> QED
    BY <2>1, <2>2
<1>3. q - p \in Nat /\ \A k \in 1 .. q - p : p + k \in 1 .. N
  BY HalfFacts
<1>4. chunk \in Seq(1 .. N) /\ Len(chunk) = q - p /\ DOMAIN chunk = 1 .. q - p
  BY <1>2, <1>3
<1>5. {k \in DOMAIN chunk : chunk[k] = x} = IF p < x /\ x <= q THEN {x - p} ELSE {}
  BY <1>2, <1>4, HalfFacts
<1>6. Count(x, chunk) = IF p < x /\ x <= q THEN 1 ELSE 0
  BY <1>5, FS_Singleton, FS_EmptySet DEF Count
<1> QED
  BY <1>1, <1>2, <1>4, <1>6

-----------------------------------------------------------------------------
(* Streams: the readers.                                                    *)

Passed(x) == Cardinality({d \in Descs : x <= pos[d]})

ReadTypes ==
  /\ prog \in Programs /\ prog.mode = "read" /\ file = Alphabet
  /\ pos \in [Streams -> 0 .. N] /\ buf \in [Streams -> Seq(1 .. N)]
  /\ out \in Seq(Streams \X (1 .. N))
  /\ going \in [Streams -> BOOLEAN]
  /\ main \in {"run", "end"} /\ (main = "end" => \A s \in Streams : ~going[s])

\* What a stream shows grows, and what it has in its buffer comes after that; it
\* ends with the file.
InOrder(s) ==
  /\ \A j, k \in DOMAIN buf[s] : j < k => buf[s][j] < buf[s][k]
  /\ \A m \in DOMAIN buf[s] : buf[s][m] <= pos[Desc(s)]
  /\ \A k \in DOMAIN out : out[k][1] = s =>
       /\ out[k][2] <= pos[Desc(s)]
       /\ \A m \in DOMAIN buf[s] : out[k][2] < buf[s][m]
       /\ \A j \in DOMAIN out : j < k /\ out[j][1] = s => out[j][2] < out[k][2]
  /\ ~going[s] => buf[s] = <<>> /\ pos[Desc(s)] = N

\* What was shown or lies in a buffer is what the offsets have passed.
AllThere ==
  \A x \in 1 .. N : Count(x, Printed) + Count(x, buf[1]) + Count(x, buf[2]) = Passed(x)

ReadersInv == ReadTypes /\ (\A s \in Streams : InOrder(s)) /\ AllThere

Reads == prog.mode = "read" /\ Trustworthy => ReadersInv

(* How many offsets have passed a letter.                                   *)
LEMMA PassedSum ==
  ASSUME NEW f \in [Streams -> Int], NEW x \in Int
  PROVE  LET P(d) == IF x <= f[d] THEN 1 ELSE 0
         IN  /\ Cardinality({d \in {1} : x <= f[d]}) = P(1)
             /\ Cardinality({d \in Streams : x <= f[d]}) = P(1) + P(2)
<1> DEFINE A == {d \in {1} : x <= f[d]}
           B == {d \in {2} : x <= f[d]}
           C == {d \in Streams : x <= f[d]}
<1>1. A = IF x <= f[1] THEN {1} ELSE {}
  OBVIOUS
<1>2. B = IF x <= f[2] THEN {2} ELSE {}
  OBVIOUS
<1>3. C = A \cup B /\ A \cap B = {}
  BY DEF Streams
<1> HIDE DEF A, B, C
<1>4. IsFiniteSet(A) /\ Cardinality(A) = IF x <= f[1] THEN 1 ELSE 0
  BY <1>1, FS_Singleton, FS_EmptySet
<1>5. IsFiniteSet(B) /\ Cardinality(B) = IF x <= f[2] THEN 1 ELSE 0
  BY <1>2, FS_Singleton, FS_EmptySet
<1>6. Cardinality(C) = Cardinality(A) + Cardinality(B)
  BY <1>3, <1>4, <1>5, DisjointUnion
<1> QED
  BY <1>4, <1>5, <1>6 DEF A, C

(* The descriptions that there are.                                         *)
LEMMA DescsAre ==
  ASSUME prog \in Programs
  PROVE  /\ Descs = IF prog.shared THEN {1} ELSE Streams
         /\ \A s \in Streams : Desc(s) \in Streams
         /\ \A s \in Streams : Desc(s) = IF prog.shared THEN 1 ELSE s
<1>1. prog.shared \in BOOLEAN
  BY ProgramFacts
<1> QED
  BY <1>1 DEF Descs, Desc, Streams

(* What has been printed is letters.                                        *)
LEMMA PrintedType ==
  ASSUME NEW o \in Seq(Streams \X (1 .. N))
  PROVE  [k \in DOMAIN o |-> o[k][2]] \in Seq(Int) /\ DOMAIN o = 1 .. Len(o)
<1>1. DOMAIN o = 1 .. Len(o) /\ Len(o) \in Nat
  OBVIOUS
<1>2. \A k \in 1 .. Len(o) : o[k] \in Streams \X (1 .. N)
  OBVIOUS
<1>3. \A k \in 1 .. Len(o) : o[k][2] \in 1 .. N
  BY <1>2
<1>4. \A k \in 1 .. N : k \in Int
  BY HalfFacts
<1> QED
  BY <1>1, <1>3, <1>4

(* A read(2) moves letters from the file into a buffer.                     *)
LEMMA FillKeeps ==
  ASSUME ReadersInv, NEW s \in Streams, Fill(s)
  PROVE  ReadersInv'
<1> DEFINE d == Desc(s)
           n == IF prog.buffered THEN BufSize ELSE 1
           q == IF pos[d] + n < N THEN pos[d] + n ELSE N
<1>1. ReadTypes /\ prog \in Programs /\ prog.buffered \in BOOLEAN
  BY ProgramFacts DEF ReadersInv, ReadTypes
<1>2. d \in Streams /\ pos[d] \in 0 .. N /\ n \in Nat /\ n > 0
  BY <1>1, DescsAre, LettersAssumption DEF ReadTypes
<1>3. q \in pos[d] .. N /\ (q = pos[d] => q = N)
  BY <1>2, HalfFacts
<1> HIDE DEF q, n
<1>4. PICK chunk : chunk = SubSeq(Alphabet, pos[d] + 1, q)
  OBVIOUS
<1>5. /\ chunk \in Seq(1 .. N) /\ Len(chunk) = q - pos[d]
      /\ \A k \in 1 .. Len(chunk) : chunk[k] = pos[d] + k
      /\ \A x \in 1 .. N : Count(x, chunk) = IF pos[d] < x /\ x <= q THEN 1 ELSE 0
  BY SMTT(30), <1>2, <1>3, <1>4, CountChunk
<1>6. /\ main = "run" /\ buf[s] = <<>> /\ going[s]
      /\ buf' = [buf EXCEPT ![s] = chunk]
      /\ pos' = [pos EXCEPT ![d] = @ + Len(chunk)]
      /\ going' = [going EXCEPT ![s] = chunk # <<>>]
      /\ UNCHANGED <<prog, main, turn, sent, file, out>>
  BY <1>1, <1>4 DEF Fill, May, ReadTypes, q, n
<1>7. pos' = [pos EXCEPT ![d] = q] /\ pos' \in [Streams -> 0 .. N]
  <2>1. pos[d] + Len(chunk) = q
    BY <1>2, <1>3, <1>5
  <2>2. pos' = [pos EXCEPT ![d] = q] /\ pos \in [Streams -> 0 .. N]
    BY <1>1, <1>6, <2>1 DEF ReadTypes
  <2>3. q \in 0 .. N
    BY <1>2, <1>3, HalfFacts
  <2> HIDE DEF d
  <2> QED
    BY <1>2, <2>2, <2>3
<1>8. /\ pos'[d] = q /\ \A t \in Streams : pos[Desc(t)] <= pos'[Desc(t)]
      /\ \A t \in Streams : Desc(t) \in Streams /\ Desc(t)' = Desc(t)
      /\ \A t \in Streams : pos[Desc(t)] \in 0 .. N /\ pos'[Desc(t)] \in 0 .. N
  BY <1>1, <1>2, <1>3, <1>6, <1>7, DescsAre, HalfFacts DEF Desc, ReadTypes
<1>9. ReadTypes'
  BY <1>1, <1>5, <1>6, <1>7 DEF ReadTypes
<1>10. buf'[s] = chunk /\ DOMAIN chunk = 1 .. Len(chunk) /\ \A t \in Streams \ {s} : buf'[t] = buf[t]
  BY <1>1, <1>5, <1>6 DEF ReadTypes
<1>11. InOrder(s)'
  <2>1. \A k \in DOMAIN out : out[k][1] = s =>
          /\ out[k][2] <= pos[d]
          /\ \A j \in DOMAIN out : j < k /\ out[j][1] = s => out[j][2] < out[k][2]
    BY DEF ReadersInv, InOrder
  <2>2. \A k \in DOMAIN out : out[k][2] \in 1 .. N
    BY <1>1 DEF ReadTypes
  <2>3. ~going'[s] => chunk = <<>> /\ q = N
    <3>1. going'[s] <=> chunk # <<>>
      BY <1>1, <1>6 DEF ReadTypes
    <3>2. chunk = <<>> => Len(chunk) = 0
      OBVIOUS
    <3>3. chunk = <<>> => q = pos[d]
      BY <1>2, <1>3, <1>5, <3>2, HalfFacts
    <3> QED
      BY <1>3, <3>1, <3>3
  <2>4. \A m \in DOMAIN chunk : chunk[m] <= q /\ chunk[m] > pos[d]
    BY <1>2, <1>3, <1>5, <1>10
  <2>5. \A j, k \in DOMAIN chunk : j < k => chunk[j] < chunk[k]
    BY <1>2, <1>5, <1>10
  <2>6. \A k \in DOMAIN out : out[k][1] = s =>
          /\ out[k][2] <= q
          /\ \A m \in DOMAIN chunk : out[k][2] < chunk[m]
    BY <1>2, <1>3, <1>5, <1>10, <2>1, <2>2, <2>4
  <2> QED
    BY <1>6, <1>8, <1>10, <2>1, <2>3, <2>4, <2>5, <2>6 DEF InOrder
<1>12. ASSUME NEW t \in Streams \ {s}
       PROVE  InOrder(t)'
  <2>1. InOrder(t) /\ Desc(t) \in Streams /\ pos[Desc(t)] <= pos'[Desc(t)]
    BY <1>8 DEF ReadersInv
  <2>2. \A k \in DOMAIN out : out[k][2] \in 1 .. N
    BY <1>1 DEF ReadTypes
  <2>3. \A m \in DOMAIN buf[t] : buf[t][m] \in 1 .. N
    <3>1. PICK c : c = buf[t]
      OBVIOUS
    <3>2. c \in Seq(1 .. N)
      BY <1>1, <3>1 DEF ReadTypes
    <3>3. DOMAIN c = 1 .. Len(c)
      BY <3>2
    <3>4. \A m \in 1 .. Len(c) : c[m] \in 1 .. N
      BY <3>2, ElementOfSeq
    <3> QED
      BY <3>1, <3>3, <3>4
  <2>4. \A y \in 1 .. N : y <= pos[Desc(t)] => y <= pos'[Desc(t)]
    BY <1>8, <2>1, HalfFacts
  <2>5. going'[t] = going[t] /\ (pos[Desc(t)] = N => pos'[Desc(t)] = N)
    BY <1>1, <1>6, <1>8, <2>1, HalfFacts DEF ReadTypes
  <2> QED
    BY <1>6, <1>8, <1>10, <2>1, <2>2, <2>3, <2>4, <2>5 DEF InOrder
<1>13. AllThere'
  <2>1. ASSUME NEW x \in 1 .. N
        PROVE  Passed(x)' = Passed(x) + Count(x, chunk)
    <3>1. pos \in [Streams -> Int] /\ pos' \in [Streams -> Int] /\ x \in Int
      BY <1>1, <1>7, HalfFacts DEF ReadTypes
    <3>2. Descs' = Descs /\ Descs = IF prog.shared THEN {1} ELSE Streams
      <4>1. Descs' = Descs
        BY <1>6 DEF Descs, Desc
      <4> QED
        BY <1>1, <4>1, DescsAre
    <3>3. Desc(s) = IF prog.shared THEN 1 ELSE s
      BY <1>1, DescsAre
    <3>4. pos'[1] = (IF d = 1 THEN q ELSE pos[1]) /\ pos'[2] = (IF d = 2 THEN q ELSE pos[2])
      BY <1>1, <1>2, <1>7 DEF ReadTypes, Streams
    <3>5. Count(x, chunk) = IF pos[d] < x /\ x <= q THEN 1 ELSE 0
      BY <1>5
    <3>6. prog.shared \in BOOLEAN
      BY <1>1, ProgramFacts
    <3>7. pos[1] \in Int /\ pos[2] \in Int /\ q \in Int /\ pos[d] <= q
      BY <1>2, <1>3, <3>1, HalfFacts DEF Streams
    <3>8. CASE prog.shared
      <4>1. Passed(x) = (IF x <= pos[1] THEN 1 ELSE 0) /\ Passed(x)' = (IF x <= pos'[1] THEN 1 ELSE 0)
        BY <3>1, <3>2, <3>8, PassedSum DEF Passed
      <4> QED
        BY <3>1, <3>3, <3>4, <3>5, <3>7, <3>8, <4>1
    <3>9. CASE ~prog.shared
      <4>1. /\ Passed(x) = (IF x <= pos[1] THEN 1 ELSE 0) + (IF x <= pos[2] THEN 1 ELSE 0)
            /\ Passed(x)' = (IF x <= pos'[1] THEN 1 ELSE 0) + (IF x <= pos'[2] THEN 1 ELSE 0)
        BY <3>1, <3>2, <3>9, PassedSum DEF Passed
      <4> QED
        BY <3>1, <3>3, <3>4, <3>5, <3>7, <3>9, <4>1 DEF Streams
    <3> QED
      BY <3>6, <3>8, <3>9
  <2>2. ASSUME NEW x \in 1 .. N
        PROVE  Count(x, buf'[1]) + Count(x, buf'[2]) = Count(x, buf[1]) + Count(x, buf[2]) + Count(x, chunk)
    <3>1. Count(x, buf[s]) = 0
      BY <1>6, CountEmpty
    <3>2. \A t \in Streams : buf[t] \in Seq(Int)
      BY <1>1, HalfFacts DEF ReadTypes
    <3>3. \A t \in Streams : Count(x, buf[t]) \in Nat
      BY <3>2, CountType
    <3>4. chunk \in Seq(Int)
      BY <1>5, HalfFacts
    <3>5. Count(x, chunk) \in Nat
      BY <3>4, CountType
    <3>6. CASE s = 1
      BY <1>10, <3>1, <3>3, <3>5, <3>6 DEF Streams
    <3>7. CASE s = 2
      BY <1>10, <3>1, <3>3, <3>5, <3>7 DEF Streams
    <3> QED
      BY <3>6, <3>7 DEF Streams
  <2>3. ASSUME NEW x \in 1 .. N
        PROVE  /\ Count(x, Printed) \in Nat /\ Count(x, buf[1]) \in Nat /\ Count(x, buf[2]) \in Nat
               /\ Count(x, chunk) \in Nat /\ Count(x, buf'[1]) \in Nat /\ Count(x, buf'[2]) \in Nat
               /\ Printed' = Printed
    <3>1. \A t \in Streams : buf[t] \in Seq(Int) /\ buf'[t] \in Seq(Int)
      BY <1>1, <1>9, HalfFacts DEF ReadTypes
    <3>2. chunk \in Seq(Int)
      BY <1>5, HalfFacts
    <3>3. Printed \in Seq(Int)
      BY <1>1, PrintedType DEF ReadTypes, Printed
    <3> QED
      BY <1>6, <3>1, <3>2, <3>3, CountType DEF Printed, Streams
  <2>4. \A x \in 1 .. N : Count(x, Printed) + Count(x, buf[1]) + Count(x, buf[2]) = Passed(x)
    BY DEF ReadersInv, AllThere
  <2> QED
    BY <2>1, <2>2, <2>3, <2>4 DEF AllThere
<1> QED
  BY <1>9, <1>11, <1>12, <1>13 DEF ReadersInv

(* A letter is shown: it is the least in its buffer.                        *)
LEMMA ShowKeeps ==
  ASSUME ReadersInv, NEW s \in Streams, Show(s)
  PROVE  ReadersInv'
<1>1. ReadTypes /\ prog \in Programs
  BY DEF ReadersInv, ReadTypes
<1>2. /\ main = "run" /\ going[s] /\ buf[s] # <<>>
      /\ out' = Append(out, <<s, Head(buf[s])>>)
      /\ buf' = [buf EXCEPT ![s] = Tail(@)]
      /\ UNCHANGED <<prog, main, going, pos, sent, file>>
  BY DEF Show, May
<1>3. PICK b : b = buf[s]
  OBVIOUS
<1>4. b \in Seq(1 .. N) /\ b # <<>>
  BY <1>1, <1>2, <1>3 DEF ReadTypes
<1>5. PICK h, t : h = Head(b) /\ t = Tail(b)
  OBVIOUS
<1>6. /\ h \in 1 .. N /\ h = b[1] /\ t \in Seq(1 .. N) /\ Len(t) = Len(b) - 1
      /\ Len(b) \in Nat /\ Len(b) > 0 /\ DOMAIN b = 1 .. Len(b) /\ DOMAIN t = 1 .. Len(t)
      /\ \A m \in 1 .. Len(t) : t[m] = b[m + 1]
  <2>1. /\ h \in 1 .. N /\ t \in Seq(1 .. N) /\ Len(t) = Len(b) - 1
        /\ \A m \in 1 .. Len(t) : t[m] = b[m + 1]
    BY <1>4, <1>5, HeadTailProperties
  <2>2. h = b[1] /\ Len(b) \in Nat /\ Len(b) > 0 /\ DOMAIN b = 1 .. Len(b)
    BY <1>4, <1>5
  <2>3. DOMAIN t = 1 .. Len(t)
    BY <2>1
  <2> QED
    BY <2>1, <2>2, <2>3
<1>7. out' = Append(out, <<s, h>>) /\ buf' = [buf EXCEPT ![s] = t]
  BY <1>2, <1>3, <1>5
<1>8. buf'[s] = t /\ \A r \in Streams \ {s} : buf'[r] = buf[r]
  BY <1>1, <1>7 DEF ReadTypes
<1>9. out \in Seq(Streams \X (1 .. N)) /\ <<s, h>> \in Streams \X (1 .. N)
  BY <1>1, <1>6 DEF ReadTypes
<1>10. /\ Len(out) \in Nat /\ DOMAIN out = 1 .. Len(out) /\ DOMAIN out' = 1 .. Len(out) + 1
       /\ out' \in Seq(Streams \X (1 .. N))
       /\ out'[Len(out) + 1] = <<s, h>> /\ \A k \in 1 .. Len(out) : out'[k] = out[k]
  BY <1>7, <1>9
<1>11. ReadTypes'
  <2>1. buf' \in [Streams -> Seq(1 .. N)]
    BY <1>1, <1>6, <1>7 DEF ReadTypes
  <2> QED
    BY <1>1, <1>2, <1>10, <2>1 DEF ReadTypes
<1>12. \A r \in Streams : Desc(r)' = Desc(r)
  BY <1>2 DEF Desc
<1>13. ASSUME NEW k \in DOMAIN out', NEW j \in DOMAIN out', j < k
       PROVE  j \in DOMAIN out /\ out'[j] = out[j] /\ (k \in DOMAIN out \/ k = Len(out) + 1)
  BY <1>10, <1>13
<1>14. InOrder(s)'
  <2>1. /\ \A j, k \in DOMAIN b : j < k => b[j] < b[k]
        /\ \A m \in DOMAIN b : b[m] <= pos[Desc(s)]
        /\ \A k \in DOMAIN out : out[k][1] = s =>
             /\ out[k][2] <= pos[Desc(s)]
             /\ \A m \in DOMAIN b : out[k][2] < b[m]
             /\ \A j \in DOMAIN out : j < k /\ out[j][1] = s => out[j][2] < out[k][2]
    BY <1>3 DEF ReadersInv, InOrder
  <2>2. \A m \in DOMAIN t : m + 1 \in DOMAIN b /\ t[m] = b[m + 1] /\ h < t[m]
    BY <1>6, <2>1
  <2>3. \A j, k \in DOMAIN t : j < k => t[j] < t[k]
    BY <1>6, <2>1, <2>2
  <2>4. \A m \in DOMAIN t : t[m] <= pos[Desc(s)]
    BY <2>1, <2>2
  <2>5. h <= pos[Desc(s)] /\ \A k \in DOMAIN out : out[k][1] = s => out[k][2] < h
    BY <1>6, <2>1
  <2>6. ASSUME NEW k \in DOMAIN out', out'[k][1] = s
        PROVE  /\ out'[k][2] <= pos[Desc(s)]
               /\ \A m \in DOMAIN t : out'[k][2] < t[m]
               /\ \A j \in DOMAIN out' : j < k /\ out'[j][1] = s => out'[j][2] < out'[k][2]
    <3>1. CASE k = Len(out) + 1
      <4>1. out'[k][2] = h
        BY <1>10, <3>1
      <4>2. ASSUME NEW j \in DOMAIN out', j < k, out'[j][1] = s
            PROVE  out'[j][2] < h
        <5>1. j \in DOMAIN out /\ out[j][1] = s /\ out'[j] = out[j]
          BY <1>13, <4>2
        <5> QED
          BY <2>5, <5>1
      <4> QED
        BY <2>2, <2>5, <4>1, <4>2
    <3>2. CASE k # Len(out) + 1
      <4>1. k \in DOMAIN out /\ out'[k] = out[k]
        BY <1>10, <3>2
      <4>2. \A m \in DOMAIN t : out[k][2] < t[m]
        BY <2>1, <2>2, <2>6, <4>1
      <4> QED
        BY <1>13, <2>1, <2>6, <4>1, <4>2
    <3> QED
      BY <3>1, <3>2
  <2> QED
    BY <1>2, <1>8, <1>12, <2>3, <2>4, <2>6 DEF InOrder
<1>15. ASSUME NEW r \in Streams \ {s}
       PROVE  InOrder(r)'
  <2>1. InOrder(r)
    BY DEF ReadersInv
  <2>2. \A k \in DOMAIN out' : out'[k][1] = r => k \in DOMAIN out /\ out'[k] = out[k]
    BY <1>10
  <2>3. ASSUME NEW k \in DOMAIN out', out'[k][1] = r
        PROVE  /\ out'[k][2] <= pos[Desc(r)]
               /\ \A m \in DOMAIN buf[r] : out'[k][2] < buf[r][m]
               /\ \A j \in DOMAIN out' : j < k /\ out'[j][1] = r => out'[j][2] < out'[k][2]
    BY <1>13, <2>1, <2>2, <2>3 DEF InOrder
  <2> QED
    BY <1>2, <1>8, <1>12, <2>1, <2>3 DEF InOrder
<1>16. AllThere'
  <2>1. Printed' = Append(Printed, h)
    <3>1. \A k \in 1 .. Len(out) : out'[k][2] = out[k][2]
      BY <1>10
    <3>2. out'[Len(out) + 1][2] = h
      BY <1>10
    <3>3. Printed = [k \in 1 .. Len(out) |-> out[k][2]] /\ Printed' = [k \in 1 .. Len(out) + 1 |-> out'[k][2]]
      BY <1>10 DEF Printed
    <3>4. Printed \in Seq(Int) /\ Len(Printed) = Len(out)
      BY <1>9, <1>10, <3>3, PrintedType DEF Printed
    <3>5. Append(Printed, h) = [k \in 1 .. Len(out) + 1 |-> IF k = Len(out) + 1 THEN h ELSE Printed[k]]
      <4>1. PICK y : y = Printed
        OBVIOUS
      <4>2. y \in Seq(Int) /\ Len(y) = Len(out) /\ h \in Int
        BY <1>6, <3>4, <4>1, HalfFacts
      <4>3. Append(y, h) \in Seq(Int) /\ Len(Append(y, h)) = Len(y) + 1
            /\ \A k \in 1 .. Len(y) + 1 : Append(y, h)[k] = IF k = Len(y) + 1 THEN h ELSE y[k]
        BY <4>2, AppendProperties
      <4>4. PICK z : z = Append(y, h)
        OBVIOUS
      <4>5. z \in Seq(Int) /\ Len(z) = Len(y) + 1 /\ Len(y) \in Nat
            /\ \A k \in 1 .. Len(y) + 1 : z[k] = IF k = Len(y) + 1 THEN h ELSE y[k]
        BY <4>2, <4>3, <4>4
      <4>6. z = [k \in 1 .. Len(y) + 1 |-> IF k = Len(y) + 1 THEN h ELSE y[k]]
        BY <4>5
      <4> QED
        BY <4>1, <4>2, <4>4, <4>6
    <3>6. \A k \in 1 .. Len(out) + 1 : out'[k][2] = IF k = Len(out) + 1 THEN h ELSE Printed[k]
      BY <1>10, <3>1, <3>2, <3>3
    <3> QED
      BY <3>3, <3>5, <3>6
  <2>2. Printed \in Seq(Int) /\ <<h>> \in Seq(Int) /\ Printed' = Printed \o <<h>>
    <3>1. Printed \in Seq(Int)
      BY <1>9, PrintedType DEF Printed
    <3>2. h \in Int
      BY <1>6, HalfFacts
    <3>3. PICK y : y = Printed
      OBVIOUS
    <3>4. Append(y, h) = y \o <<h>> /\ <<h>> \in Seq(Int)
      BY <3>1, <3>2, <3>3, AppendIsConcat
    <3> QED
      BY <2>1, <3>1, <3>3, <3>4
  <2>3. ASSUME NEW x \in 1 .. N
        PROVE  Count(x, Printed') = Count(x, Printed) + Count(x, <<h>>)
    BY <2>2, CountConcat
  <2>4. b \in Seq(Int) /\ t \in Seq(Int)
    BY <1>4, <1>6, HalfFacts
  <2>5. ASSUME NEW x \in 1 .. N
        PROVE  Count(x, b) = Count(x, <<h>>) + Count(x, t)
    BY <1>4, <1>5, <2>4, CountTail
  <2>6. ASSUME NEW x \in 1 .. N
        PROVE  /\ Count(x, Printed) \in Nat /\ Count(x, <<h>>) \in Nat /\ Count(x, t) \in Nat
               /\ Count(x, buf[1]) \in Nat /\ Count(x, buf[2]) \in Nat
    <3>1. buf[1] \in Seq(Int) /\ buf[2] \in Seq(Int)
      BY <1>1, HalfFacts DEF ReadTypes, Streams
    <3> QED
      BY <2>2, <2>4, <3>1, CountType
  <2>7. \A x \in 1 .. N : Passed(x)' = Passed(x)
    BY <1>2 DEF Passed, Descs, Desc
  <2>8. \A x \in 1 .. N : Count(x, Printed) + Count(x, buf[1]) + Count(x, buf[2]) = Passed(x)
    BY DEF ReadersInv, AllThere
  <2>9. CASE s = 1
    <3>1. buf[1] = b /\ buf'[1] = t /\ buf'[2] = buf[2]
      BY <1>3, <1>8, <2>9 DEF Streams
    <3> QED
      BY <2>3, <2>5, <2>6, <2>7, <2>8, <3>1 DEF AllThere
  <2>10. CASE s = 2
    <3>1. buf[2] = b /\ buf'[2] = t /\ buf'[1] = buf[1]
      BY <1>3, <1>8, <2>10 DEF Streams
    <3> QED
      BY <2>3, <2>5, <2>6, <2>7, <2>8, <3>1 DEF AllThere
  <2> QED
    BY <2>9, <2>10 DEF Streams
<1> QED
  BY <1>11, <1>14, <1>15, <1>16 DEF ReadersInv

(* Nothing has been read when the program begins.                           *)
LEMMA ReadsInit == StreamsInit => Reads
<1> SUFFICES ASSUME StreamsInit, prog.mode = "read"
             PROVE  ReadersInv
  BY DEF Reads
<1>1. /\ prog \in Programs /\ main = "run" /\ file = Alphabet /\ out = <<>>
      /\ going = [s \in Streams |-> TRUE] /\ pos = [s \in Streams |-> 0]
      /\ buf = [s \in Streams |-> <<>>]
  BY DEF StreamsInit
<1>2. ReadTypes
  BY <1>1, HalfFacts DEF ReadTypes
<1>3. ASSUME NEW s \in Streams
      PROVE  InOrder(s)
  <2>1. DOMAIN out = {} /\ DOMAIN buf[s] = {}
    BY <1>1
  <2> QED
    BY <1>1, <2>1 DEF InOrder
<1>4. ASSUME NEW x \in 1 .. N
      PROVE  Count(x, Printed) + Count(x, buf[1]) + Count(x, buf[2]) = Passed(x)
  <2>1. Count(x, buf[1]) = 0 /\ Count(x, buf[2]) = 0
    BY <1>1, CountEmpty DEF Streams
  <2>2. Count(x, Printed) = 0
    <3>1. DOMAIN Printed = {}
      BY <1>1 DEF Printed
    <3>2. {k \in DOMAIN Printed : Printed[k] = x} = {}
      BY <3>1
    <3> QED
      BY <3>2, FS_EmptySet DEF Count
  <2>3. Passed(x) = 0
    <3>1. \A d \in Descs : ~(x <= pos[d])
      BY <1>1, DescsAre, HalfFacts DEF Descs
    <3>2. {d \in Descs : x <= pos[d]} = {}
      BY <3>1
    <3> QED
      BY <3>2, FS_EmptySet DEF Passed
  <2> QED
    BY <2>1, <2>2, <2>3
<1> QED
  BY <1>2, <1>3, <1>4 DEF ReadersInv, AllThere

(* A step that leaves files, buffers and output alone.                      *)
LEMMA ReadersStay ==
  ASSUME ReadersInv, UNCHANGED <<prog, going, pos, buf, file, out>>,
         main' \in {"run", "end"}, main' = "end" => \A s \in Streams : ~going[s]
  PROVE  ReadersInv'
<1>1. ReadTypes'
  BY DEF ReadersInv, ReadTypes
<1>2. \A s \in Streams : Desc(s)' = Desc(s)
  BY DEF Desc
<1>3. \A s \in Streams : InOrder(s)'
  BY <1>2 DEF ReadersInv, InOrder
<1>4. AllThere'
  BY DEF ReadersInv, AllThere, Passed, Descs, Desc, Printed
<1> QED
  BY <1>1, <1>3, <1>4 DEF ReadersInv

(* Each step of a reader, until main returns under its threads.             *)
LEMMA ReadsStep == Reads /\ [StreamsNext]_streamsVars => Reads'
<1> SUFFICES ASSUME Reads, [StreamsNext]_streamsVars, prog'.mode = "read", Trustworthy'
             PROVE  ReadersInv'
  BY DEF Reads
<1>1. prog' = prog /\ (main' = "run" => main = "run")
  <2>1. \A from, to : MainGoes(from, to) => prog' = prog /\ main' = to
    BY DEF MainGoes
  <2>2. ASSUME NEW s \in Streams, Fill(s) \/ Show(s) \/ Write(s) \/ Stray(s) \/ Cleanup(s)
        PROVE  prog' = prog /\ main' = main
    BY <2>2 DEF Fill, Show, Write, Stray, Cleanup
  <2>3. CASE Join \/ MainReturns
    BY <2>1, <2>3 DEF Join, MainReturns, MainGoes
  <2>4. CASE fcloses \/ file_info \/ Exit
    BY <2>1, <2>4 DEF fcloses, Close, file_info, Exit
  <2>5. CASE UNCHANGED streamsVars
    BY <2>5 DEF streamsVars
  <2> QED
    BY <2>2, <2>3, <2>4, <2>5 DEF StreamsNext
<1>2. ReadersInv
  BY <1>1 DEF Reads, Trustworthy
<1>3. prog.mode = "read" /\ prog \in Programs /\ main \in {"run", "end"}
      /\ (main = "end" => \A s \in Streams : ~going[s])
  BY <1>2 DEF ReadersInv, ReadTypes
<1>4. ASSUME NEW s \in Streams, Fill(s) \/ Show(s)
      PROVE  ReadersInv'
  BY <1>2, <1>4, FillKeeps, ShowKeeps
<1>5. ASSUME NEW s \in Streams, Write(s) \/ Stray(s) \/ Cleanup(s)
      PROVE  FALSE
  BY <1>3, <1>5 DEF Write, Stray, Cleanup
<1>6. CASE Join
  <2>1. main' = "end" /\ (\A s \in Streams : ~going[s]) /\ UNCHANGED <<prog, going, pos, buf, file, out>>
    BY <1>3, <1>6 DEF Join, MainGoes, Fopened
  <2> QED
    BY <1>2, <2>1, ReadersStay
<1>7. CASE MainReturns
  BY <1>1, <1>7 DEF MainReturns, MainGoes, Trustworthy
<1>8. CASE fcloses \/ file_info \/ Exit
  BY <1>3, <1>8 DEF fcloses, Close, file_info, Exit, MainGoes
<1>9. CASE UNCHANGED streamsVars
  BY <1>2, <1>3, <1>9, ReadersStay DEF streamsVars
<1> QED
  BY <1>4, <1>5, <1>6, <1>7, <1>8, <1>9 DEF StreamsNext

(* ReadOnce puts what was shown and the buffers into one sequence.          *)
LEMMA ReadsSuffice == Reads => ReadOnce
<1> SUFFICES ASSUME Reads, prog.mode = "read", Trustworthy
             PROVE  /\ \A x \in 1 .. N : Count(x, Printed \o buf[1] \o buf[2]) = Passed(x)
                    /\ \A j, k \in DOMAIN out : j < k /\ out[j][1] = out[k][1] => out[j][2] < out[k][2]
                    /\ main = "end" => \A s \in Streams : buf[s] = <<>> /\ pos[Desc(s)] = N
  BY DEF ReadOnce, Passed, Descs
<1>1. ReadTypes /\ (\A s \in Streams : InOrder(s)) /\ AllThere
  BY DEF Reads, ReadersInv
<1>2. Printed \in Seq(Int) /\ buf[1] \in Seq(Int) /\ buf[2] \in Seq(Int)
  <2>1. Printed \in Seq(Int)
    BY <1>1, PrintedType DEF ReadTypes, Printed
  <2> QED
    BY <1>1, <2>1, HalfFacts DEF ReadTypes, Streams
<1>3. ASSUME NEW x \in 1 .. N
      PROVE  Count(x, Printed \o buf[1] \o buf[2]) = Passed(x)
  <2>1. Printed \o buf[1] \in Seq(Int)
    BY <1>2
  <2>2. Count(x, Printed \o buf[1]) = Count(x, Printed) + Count(x, buf[1])
    BY <1>2, CountConcat
  <2>3. Count(x, (Printed \o buf[1]) \o buf[2]) = Count(x, Printed \o buf[1]) + Count(x, buf[2])
    BY <1>2, <2>1, CountConcat
  <2> QED
    BY <1>1, <2>2, <2>3 DEF AllThere
<1>4. \A k \in DOMAIN out : out[k][1] \in Streams
  <2>1. \A k \in 1 .. Len(out) : out[k] \in Streams \X (1 .. N)
    BY <1>1, ElementOfSeq DEF ReadTypes
  <2> QED
    BY <1>1, <2>1 DEF ReadTypes
<1>5. \A j, k \in DOMAIN out : j < k /\ out[j][1] = out[k][1] => out[j][2] < out[k][2]
  BY <1>1, <1>4 DEF InOrder
<1>6. main = "end" => \A s \in Streams : buf[s] = <<>> /\ pos[Desc(s)] = N
  BY <1>1 DEF InOrder, ReadTypes
<1> QED
  BY <1>3, <1>5, <1>6

(* ReadOnce is an invariant: of what the readers of lab_12 take from the    *)
(* file nothing is lost or doubled, whatever the buffers and the threads,   *)
(* and each stream shows its letters in order; testCIO_thread1 keeps to it  *)
(* until main returns.                                                      *)
THEOREM LettersReadOnce == StreamsSpec => []ReadOnce
  BY ReadsInit, ReadsStep, ReadsSuffice, PTL DEF StreamsSpec

-----------------------------------------------------------------------------
(* Streams: the writers.                                                    *)

\* What a stream has been given, and the file after none, one or both of two
\* appending streams have been closed.
Given(s) == [k \in 1 .. sent[s] |-> 2 * (k - 1) + s]

Olds(n) == [k \in 1 .. n |-> Old]

OneClosed(n) == [k \in 1 .. n + Half |-> IF k <= n THEN Old ELSE 2 * (k - n - 1) + 1]

BothClosed(n) ==
  [k \in 1 .. n + N |-> IF k <= n THEN Old
                        ELSE IF k <= n + Half THEN 2 * (k - n - 1) + 1 ELSE 2 * (k - n - Half)]

ByTurns(n, m) == [k \in 1 .. n + m |-> IF k <= n THEN Old ELSE k - n]

WriteTypes ==
  /\ prog \in Programs /\ prog.mode = "write"
  /\ sent \in [Streams -> 0 .. Half] /\ going \in [Streams -> BOOLEAN]
  /\ \A s \in Streams : going[s] <=> sent[s] < Half
  /\ turn \in Streams
  /\ main # "run" => \A s \in Streams : sent[s] = Half
  /\ prog.by = "turns" => sent[1] = sent[2] + IF turn = 1 THEN 0 ELSE 1

\* Without buffers, what is in the file is old or was written by one of the two.
Directly ==
  /\ main \in {"run", "end"}
  /\ buf = [s \in Streams |-> <<>>]
  /\ prog.append => \E n \in Nat : file = ByTurns(n, sent[1] + sent[2])
  /\ ~prog.append =>
       /\ pos = sent
       /\ file \in Seq(Int) /\ \A s \in Streams : sent[s] <= Len(file)
       /\ \A k \in 1 .. Len(file) :
            \/ file[k] = Old /\ \A s \in Streams : sent[s] < k
            \/ \E s \in Streams : k <= sent[s] /\ file[k] = 2 * (k - 1) + s
       /\ prog.by = "turns" => \A k \in 1 .. sent[2] : file[k] = 2 * (k - 1) + 2

\* With buffers, the file has the letters of the streams that have been closed.
NoneClosed(n) ==
  /\ main \in {"run", "fclose1"} /\ buf = [s \in Streams |-> Given(s)]
  /\ pos = [s \in Streams |-> 0] /\ file = Olds(n)

FirstClosed(n) ==
  /\ main \in {"info1", "fclose2", "crashed"}
  /\ buf = [s \in Streams |-> IF s = 1 THEN <<>> ELSE Letters(2)]
  /\ pos \in [Streams -> Nat] /\ pos[2] = 0 /\ file = OneClosed(n)

AllClosed(n) ==
  /\ main \in {"info2", "end", "crashed"} /\ buf = [s \in Streams |-> <<>>]
  /\ file = IF prog.append THEN BothClosed(n) ELSE Letters(2)

Buffers ==
  \E n \in Nat : (~prog.append => n = 0) /\ (NoneClosed(n) \/ FirstClosed(n) \/ AllClosed(n))

WritersInv == WriteTypes /\ IF prog.buffered THEN Buffers ELSE Directly

Writes == prog \in Programs /\ (prog.mode = "write" => WritersInv)

(* The letters of a writer.                                                 *)
LEMMA LettersAre ==
  ASSUME NEW s \in Streams
  PROVE  /\ Letters(s) = [k \in 1 .. Half |-> 2 * (k - 1) + s]
         /\ Letters(s) \in Seq(Int) /\ Len(Letters(s)) = Half /\ s \in Int
         /\ \A k \in 1 .. Half : Letters(s)[k] = 2 * (k - 1) + s
<1>1. Letters(s) = [k \in 1 .. Half |-> 2 * (k - 1) + s]
  BY DEF Letters, Half
<1>2. \A k \in 1 .. Half : 2 * (k - 1) + s \in Int
  BY HalfFacts DEF Streams
<1>3. PICK l : l = Letters(s)
  OBVIOUS
<1>4. l \in Seq(Int) /\ Len(l) = Half /\ \A k \in 1 .. Half : l[k] = 2 * (k - 1) + s
  BY <1>1, <1>2, <1>3, HalfFacts
<1>5. s \in Int
  BY DEF Streams
<1> HIDE DEF Streams
<1> QED
  BY <1>1, <1>3, <1>4, <1>5

(* A write(2) of one letter at an offset within the file.                   *)
LEMMA WrittenLetter ==
  ASSUME file \in Seq(Int), NEW p \in 0 .. Len(file), NEW x \in Int,
         NEW f, f = Written(p, <<x>>)
  PROVE  /\ f \in Seq(Int) /\ Len(f) = IF p = Len(file) THEN p + 1 ELSE Len(file)
         /\ \A k \in 1 .. Len(f) : f[k] = IF k = p + 1 THEN x ELSE file[k]
<1> DEFINE n == IF p = Len(file) THEN p + 1 ELSE Len(file)
<1>1. Len(file) \in Nat /\ Len(<<x>>) = 1 /\ <<x>>[1] = x
  OBVIOUS
<1>2. (IF p + Len(<<x>>) > Len(file) THEN p + Len(<<x>>) ELSE Len(file)) = n
  BY <1>1
<1>3. f = [k \in 1 .. n |-> IF k \in p + 1 .. p + Len(<<x>>) THEN <<x>>[k - p] ELSE file[k]]
  BY <1>2 DEF Written
<1>4. \A k \in 1 .. n : (IF k \in p + 1 .. p + Len(<<x>>) THEN <<x>>[k - p] ELSE file[k]) = IF k = p + 1 THEN x ELSE file[k]
  BY <1>1
<1>5. f = [k \in 1 .. n |-> IF k = p + 1 THEN x ELSE file[k]]
  BY <1>3, <1>4
<1>6. n \in Nat /\ \A k \in 1 .. n : (IF k = p + 1 THEN x ELSE file[k]) \in Int
  BY <1>1
<1> HIDE DEF n
<1>7. f \in Seq(Int) /\ Len(f) = n /\ \A k \in 1 .. n : f[k] = IF k = p + 1 THEN x ELSE file[k]
  <2>1. f \in [1 .. n -> Int]
    BY <1>5, <1>6
  <2>2. f \in Seq(Int) /\ Len(f) = n
    BY SMTT(30), <1>6, <2>1
  <2> QED
    BY <1>5, <2>2
<1> QED
  BY <1>7 DEF n

(* In the programs that go by turns the one who may write has the turn.     *)
LEMMA WriteTypesKept ==
  ASSUME WriteTypes, NEW s \in Streams, Write(s)
  PROVE  /\ WriteTypes'
         /\ sent[s] < Half /\ sent' = [sent EXCEPT ![s] = @ + 1]
         /\ prog.by = "turns" => turn = s
         /\ Letters(s)[sent[s] + 1] = 2 * sent[s] + s
<1>1. /\ going[s] /\ main = "run" /\ (prog.by = "turns" => turn = s \/ ~going[Other(s)])
      /\ sent' = [sent EXCEPT ![s] = @ + 1] /\ going' = [going EXCEPT ![s] = sent'[s] < N \div 2]
      /\ turn' = Other(s) /\ UNCHANGED <<prog, main>>
  BY DEF Write, May
<1>2. /\ s = 1 \/ s = 2
      /\ Other(s) = (IF s = 1 THEN 2 ELSE 1)
  BY DEF Streams, Other
<1>3. sent[s] \in 0 .. Half /\ sent[s] < Half /\ \A t \in Streams : sent[t] \in 0 .. Half
  BY <1>1 DEF WriteTypes
<1>4. prog.by = "turns" => turn = s
  BY <1>1, <1>2, <1>3, HalfFacts DEF WriteTypes, Streams
<1>5. /\ sent' \in [Streams -> 0 .. Half] /\ sent'[s] = sent[s] + 1
      /\ \A t \in Streams \ {s} : sent'[t] = sent[t]
  BY <1>1, <1>3, HalfFacts DEF WriteTypes
<1>6. going' \in [Streams -> BOOLEAN] /\ \A t \in Streams : going'[t] <=> sent'[t] < Half
  <2>1. (sent'[s] < N \div 2) \in BOOLEAN
    BY <1>5
  <2>2. going'[s] = (sent'[s] < Half) /\ \A t \in Streams \ {s} : going'[t] = going[t]
    BY <1>1 DEF WriteTypes, Half
  <2>3. going' \in [Streams -> BOOLEAN]
    BY <1>1, <2>1 DEF WriteTypes
  <2> QED
    BY <1>5, <2>2, <2>3 DEF WriteTypes
<1>7. prog.by = "turns" => sent'[1] = sent'[2] + IF turn' = 1 THEN 0 ELSE 1
  BY <1>1, <1>2, <1>3, <1>4, <1>5 DEF WriteTypes, Streams
<1>8. WriteTypes'
  BY <1>1, <1>2, <1>5, <1>6, <1>7 DEF WriteTypes, Streams
<1>9. Letters(s)[sent[s] + 1] = 2 * sent[s] + s
  BY <1>3, LettersAre, HalfFacts
<1> QED
  BY <1>1, <1>3, <1>4, <1>8, <1>9

(* The file of two writers that take turns at its end.                      *)
LEMMA ByTurnsIs ==
  ASSUME NEW n \in Nat, NEW m \in Nat
  PROVE  /\ ByTurns(n, m) \in Seq(Int) /\ Len(ByTurns(n, m)) = n + m
         /\ DOMAIN ByTurns(n, m) = 1 .. n + m
         /\ \A k \in 1 .. n + m : ByTurns(n, m)[k] = IF k <= n THEN Old ELSE k - n
<1>1. ByTurns(n, m) = [k \in 1 .. n + m |-> IF k <= n THEN Old ELSE k - n]
  BY DEF ByTurns
<1>2. \A k \in 1 .. n + m : (IF k <= n THEN Old ELSE k - n) \in Int
  BY DEF Old
<1>3. PICK f : f = ByTurns(n, m)
  OBVIOUS
<1>4. /\ f \in Seq(Int) /\ Len(f) = n + m /\ DOMAIN f = 1 .. n + m
      /\ \A k \in 1 .. n + m : f[k] = IF k <= n THEN Old ELSE k - n
  BY <1>1, <1>2, <1>3
<1> QED
  BY <1>3, <1>4

(* A letter is written by a program without buffers.                        *)
LEMMA DirectlyKept ==
  ASSUME WriteTypes, Directly, ~prog.buffered, NEW s \in Streams, Write(s)
  PROVE  Directly'
<1> DEFINE x == 2 * sent[s] + s
           off == IF prog.append THEN Len(file) ELSE pos[s]
<1>1. /\ WriteTypes' /\ sent[s] < Half /\ sent' = [sent EXCEPT ![s] = @ + 1]
      /\ (prog.by = "turns" => turn = s)
      /\ Letters(s)[sent[s] + 1] = x
  BY WriteTypesKept
<1>2. /\ file' = Written(off, <<x>>) /\ pos' = [pos EXCEPT ![s] = off + Len(<<x>>)]
      /\ buf' = buf /\ prog' = prog /\ main' = main
  BY <1>1 DEF Write, WriteOut
<1>3. /\ prog.append \in BOOLEAN /\ (prog.append => prog.by = "turns")
      /\ sent \in [Streams -> 0 .. Half] /\ (s = 1 \/ s = 2) /\ x \in Int /\ Len(<<x>>) = 1
      /\ sent[1] \in Nat /\ sent[2] \in Nat
  BY ProgramFacts, HalfFacts DEF WriteTypes, Streams
<1> HIDE DEF off, x
<1>4. sent'[s] = sent[s] + 1 /\ \A t \in Streams \ {s} : sent'[t] = sent[t]
  BY <1>1, <1>3
<1>5. CASE prog.append
  <2>1. PICK n \in Nat : file = ByTurns(n, sent[1] + sent[2])
    BY <1>5 DEF Directly
  <2>2. PICK m \in Nat : m = sent[1] + sent[2]
    BY <1>3
  <2>3. x = m + 1 /\ sent'[1] + sent'[2] = m + 1
    BY <1>1, <1>3, <1>4, <1>5, <2>2 DEF WriteTypes, Streams, x
  <2>4. /\ file \in Seq(Int) /\ Len(file) = n + m
        /\ \A k \in 1 .. n + m : file[k] = IF k <= n THEN Old ELSE k - n
    BY <2>1, <2>2, ByTurnsIs
  <2>5. off = n + m /\ off \in 0 .. Len(file)
    BY <1>5, <2>4 DEF off
  <2>6. /\ file' \in Seq(Int) /\ Len(file') = n + m + 1
        /\ \A k \in 1 .. n + m + 1 : file'[k] = IF k = n + m + 1 THEN x ELSE file[k]
    <3>1. /\ file' \in Seq(Int) /\ Len(file') = IF off = Len(file) THEN off + 1 ELSE Len(file)
          /\ \A k \in 1 .. Len(file') : file'[k] = IF k = off + 1 THEN x ELSE file[k]
      BY <1>2, <1>3, <2>4, <2>5, WrittenLetter
    <3>2. off = Len(file) /\ Len(file') = n + m + 1
      BY <2>4, <2>5, <3>1
    <3> QED
      BY <2>5, <3>1, <3>2
  <2>7. ASSUME NEW k \in 1 .. n + m + 1
        PROVE  file'[k] = IF k <= n THEN Old ELSE k - n
    <3>1. CASE k = n + m + 1
      <4>1. file'[k] = k - n /\ ~(k <= n)
        BY <2>3, <2>6, <3>1
      <4> QED
        BY <4>1
    <3>2. CASE k # n + m + 1
      <4>1. k \in 1 .. n + m
        BY <3>2
      <4> QED
        BY <2>4, <2>6, <3>2, <4>1
    <3> QED
      BY <3>1, <3>2
  <2>8. file' = ByTurns(n, m + 1)
    <3>1. file' = [k \in 1 .. n + (m + 1) |-> IF k <= n THEN Old ELSE k - n]
      BY <2>6, <2>7
    <3> QED
      BY <3>1 DEF ByTurns
  <2> QED
    BY <1>2, <1>5, <2>3, <2>8 DEF Directly
<1>6. CASE ~prog.append
  <2>1. /\ pos = sent /\ file \in Seq(Int) /\ \A t \in Streams : sent[t] <= Len(file)
        /\ \A k \in 1 .. Len(file) :
             \/ file[k] = Old /\ \A t \in Streams : sent[t] < k
             \/ \E t \in Streams : k <= sent[t] /\ file[k] = 2 * (k - 1) + t
        /\ prog.by = "turns" => \A k \in 1 .. sent[2] : file[k] = 2 * (k - 1) + 2
    BY <1>6 DEF Directly
  <2>2. off = sent[s] /\ off \in 0 .. Len(file) /\ Len(file) \in Nat /\ sent[s] \in Nat
    BY <1>3, <1>6, <2>1 DEF off
  <2>3. pos' = sent'
    BY <1>1, <1>2, <1>3, <2>1, <2>2
  <2>4. /\ file' \in Seq(Int) /\ Len(file') = IF sent[s] = Len(file) THEN sent[s] + 1 ELSE Len(file)
        /\ \A k \in 1 .. Len(file') : file'[k] = IF k = sent[s] + 1 THEN x ELSE file[k]
    <3>1. /\ file' \in Seq(Int) /\ Len(file') = IF off = Len(file) THEN off + 1 ELSE Len(file)
          /\ \A k \in 1 .. Len(file') : file'[k] = IF k = off + 1 THEN x ELSE file[k]
      <4>1. file \in Seq(Int) /\ off \in 0 .. Len(file) /\ x \in Int /\ file' = Written(off, <<x>>)
        BY <1>2, <1>3, <2>1, <2>2
      <4>2. PICK w : w = file'
        OBVIOUS
      <4>3. w = Written(off, <<x>>)
        BY <4>1, <4>2
      <4> QED
        BY <4>1, <4>2, <4>3, WrittenLetter
    <3> QED
      BY <2>2, <3>1
  <2>5. /\ Len(file') \in Nat /\ Len(file) <= Len(file') /\ sent[s] + 1 <= Len(file')
        /\ \A k \in 1 .. Len(file') : k = sent[s] + 1 \/ k \in 1 .. Len(file)
    BY <2>2, <2>4
  <2>6. \A t \in Streams : sent'[t] <= Len(file') /\ sent[t] <= sent'[t] /\ sent[t] \in Nat /\ sent'[t] \in Nat
    BY <1>3, <1>4, <2>1, <2>2, <2>5 DEF Streams
  <2>7. ASSUME NEW k \in 1 .. Len(file')
        PROVE  \/ file'[k] = Old /\ \A t \in Streams : sent'[t] < k
               \/ \E t \in Streams : k <= sent'[t] /\ file'[k] = 2 * (k - 1) + t
    <3>1. CASE k = sent[s] + 1
      <4>1. k <= sent'[s] /\ file'[k] = 2 * (k - 1) + s
        BY <1>3, <1>4, <2>2, <2>4, <3>1 DEF x
      <4> QED
        BY <4>1
    <3>2. CASE k # sent[s] + 1
      <4>1. k \in 1 .. Len(file) /\ file'[k] = file[k]
        BY <2>4, <2>5, <3>2
      <4>2. CASE file[k] = Old /\ \A t \in Streams : sent[t] < k
        <5>1. sent'[s] < k
          BY <1>4, <2>2, <3>2, <4>2
        <5>2. \A t \in Streams : sent'[t] < k
          BY <1>4, <4>2, <5>1
        <5> QED
          BY <4>1, <4>2, <5>2
      <4>3. CASE \E t \in Streams : k <= sent[t] /\ file[k] = 2 * (k - 1) + t
        <5>1. PICK t \in Streams : k <= sent[t] /\ file[k] = 2 * (k - 1) + t
          BY <4>3
        <5>2. k <= sent'[t]
          BY <1>4, <2>2, <5>1
        <5> QED
          BY <4>1, <5>1, <5>2
      <4> QED
        BY <2>1, <4>1, <4>2, <4>3
    <3> QED
      BY <3>1, <3>2
  <2>8. prog.by = "turns" => \A k \in 1 .. sent'[2] : file'[k] = 2 * (k - 1) + 2
    <3> SUFFICES ASSUME prog.by = "turns", NEW k \in 1 .. sent'[2]
                 PROVE  file'[k] = 2 * (k - 1) + 2
      OBVIOUS
    <3>1. turn = s /\ sent[1] = sent[2] + IF turn = 1 THEN 0 ELSE 1
      BY <1>1 DEF WriteTypes
    <3>2. k \in 1 .. Len(file')
      BY <2>5, <2>6 DEF Streams
    <3>3. CASE s = 2
      <4>1. CASE k = sent[2] + 1
        BY <1>3, <2>4, <3>2, <3>3, <4>1 DEF x
      <4>2. CASE k # sent[2] + 1
        <5>1. k \in 1 .. sent[2]
          BY <1>3, <1>4, <3>3, <4>2
        <5> QED
          BY <2>1, <2>4, <3>2, <3>3, <4>2, <5>1
      <4> QED
        BY <4>1, <4>2
    <3>4. CASE s = 1
      BY SMTT(30), <1>3, <1>4, <2>1, <2>4, <3>1, <3>2, <3>4 DEF Streams
    <3> QED
      BY <1>3, <3>3, <3>4
  <2> QED
    BY <1>2, <1>6, <2>3, <2>4, <2>6, <2>7, <2>8 DEF Directly
<1> QED
  BY <1>3, <1>5, <1>6

(* A letter goes into the buffer of a stream.                               *)
LEMMA BuffersFill ==
  ASSUME WriteTypes, Buffers, prog.buffered, NEW s \in Streams, Write(s)
  PROVE  Buffers'
<1>1. /\ WriteTypes' /\ sent[s] < Half /\ sent' = [sent EXCEPT ![s] = @ + 1]
      /\ Letters(s)[sent[s] + 1] = 2 * sent[s] + s
  BY WriteTypesKept
<1>2. /\ buf' = [buf EXCEPT ![s] = Append(@, 2 * sent[s] + s)] /\ main = "run"
      /\ UNCHANGED <<prog, main, file, pos>>
  BY <1>1 DEF Write, May
<1>3. PICK n \in Nat : (~prog.append => n = 0) /\ NoneClosed(n)
  BY <1>2 DEF Buffers, FirstClosed, AllClosed
<1>4. sent \in [Streams -> 0 .. Half] /\ sent[s] \in Nat /\ s \in Int
      /\ sent'[s] = sent[s] + 1 /\ \A t \in Streams \ {s} : sent'[t] = sent[t]
  BY <1>1, HalfFacts DEF WriteTypes, Streams
<1>5. Append(Given(s), 2 * sent[s] + s) = Given(s)'
  <2>1. PICK g, m : g = Given(s) /\ m = sent[s]
    OBVIOUS
  <2>2. g = [k \in 1 .. m |-> 2 * (k - 1) + s] /\ m \in Nat
    BY <1>4, <2>1 DEF Given
  <2>3. g \in Seq(Int) /\ Len(g) = m
    BY <1>4, <2>2
  <2>4. PICK h : h = Append(g, 2 * m + s)
    OBVIOUS
  <2>5. /\ h \in Seq(Int) /\ Len(h) = m + 1
        /\ \A k \in 1 .. m + 1 : h[k] = IF k = m + 1 THEN 2 * m + s ELSE g[k]
    BY <1>4, <2>2, <2>3, <2>4, AppendProperties
  <2>6. \A k \in 1 .. m + 1 : h[k] = 2 * (k - 1) + s
    <3>1. \A k \in 1 .. m : g[k] = 2 * (k - 1) + s
      BY <2>2
    <3>2. \A k \in 1 .. m + 1 : k # m + 1 => k \in 1 .. m
      BY <2>2
    <3>3. \A k \in 1 .. m + 1 : k = m + 1 => 2 * (k - 1) + s = 2 * m + s
      BY <1>4, <2>2
    <3> HIDE DEF Streams
    <3> QED
      BY <2>5, <3>1, <3>2, <3>3
  <2>7. h = [k \in 1 .. m + 1 |-> 2 * (k - 1) + s]
    BY <2>2, <2>5, <2>6
  <2>8. Given(s)' = [k \in 1 .. m + 1 |-> 2 * (k - 1) + s]
    BY <1>4, <2>1 DEF Given
  <2> QED
    BY <2>1, <2>4, <2>7, <2>8
<1>6. \A t \in Streams \ {s} : Given(t)' = Given(t)
  BY <1>4 DEF Given
<1>7. buf' = [t \in Streams |-> Given(t)']
  <2>1. buf = [t \in Streams |-> Given(t)]
    BY <1>3 DEF NoneClosed
  <2>2. buf' = [t \in Streams |-> IF t = s THEN Append(Given(s), 2 * sent[s] + s) ELSE Given(t)]
    BY <1>2, <2>1
  <2> QED
    BY <1>5, <1>6, <2>2
<1>8. NoneClosed(n)'
  BY <1>2, <1>3, <1>7 DEF NoneClosed, Olds
<1> QED
  BY <1>2, <1>3, <1>8 DEF Buffers

(* What a stream that is done has been given.                               *)
LEMMA GivenAll ==
  ASSUME NEW s \in Streams, sent[s] = Half
  PROVE  Given(s) = Letters(s)
  BY LettersAre DEF Given

(* The file before a stream has been closed, and after one of two.          *)
LEMMA FilesAre ==
  ASSUME NEW n \in Nat
  PROVE  /\ Len(Olds(n)) = n /\ \A k \in 1 .. n : Olds(n)[k] = Old
         /\ Len(OneClosed(n)) = n + Half
         /\ \A k \in 1 .. n + Half :
              OneClosed(n)[k] = IF k <= n THEN Old ELSE 2 * (k - n - 1) + 1
<1>1. Olds(n) = [k \in 1 .. n |-> Old]
  BY DEF Olds
<1>2. OneClosed(n) = [k \in 1 .. n + Half |-> IF k <= n THEN Old ELSE 2 * (k - n - 1) + 1]
  BY DEF OneClosed
<1>3. n + Half \in Nat
  BY HalfFacts
<1> QED
  BY <1>1, <1>2, <1>3

(* fclose of the first stream writes its letters behind what there is.      *)
LEMMA FirstIsClosed ==
  ASSUME WriteTypes, NEW n \in Nat, ~prog.append => n = 0, NoneClosed(n),
         Close(1, "fclose1", "info1")
  PROVE  FirstClosed(n)'
<1>1. /\ main = "fclose1" /\ main' = "info1" /\ sent' = sent /\ prog' = prog
      /\ file' = Written(IF prog.append THEN Len(file) ELSE pos[1], buf[1])
      /\ pos' = [pos EXCEPT ![1] = (IF prog.append THEN Len(file) ELSE pos[1]) + Len(buf[1])]
      /\ buf' = [buf EXCEPT ![1] = <<>>]
  BY DEF Close, MainGoes, WriteOut
<1>2. /\ buf = [s \in Streams |-> Letters(s)]
      /\ pos = [s \in Streams |-> 0] /\ file = Olds(n)
  <2>1. \A s \in Streams : Given(s) = Letters(s)
    BY <1>1, GivenAll DEF WriteTypes
  <2> QED
    BY <2>1 DEF NoneClosed
<1>3. 1 \in Streams /\ 2 \in Streams /\ \A s \in Streams : s = 1 \/ s = 2
  BY DEF Streams
<1>4. PICK w : w = Letters(1)
  OBVIOUS
<1>5. /\ w \in Seq(Int) /\ Len(w) = Half
      /\ \A k \in 1 .. Half : w[k] = 2 * (k - 1) + 1
  BY <1>3, <1>4, LettersAre
<1>6. buf[1] = w /\ buf[2] = Letters(2) /\ pos[1] = 0 /\ Len(file) = n
  BY <1>2, <1>3, <1>4, FilesAre
<1>7. (IF prog.append THEN Len(file) ELSE pos[1]) = n
  BY <1>6
<1>8. file' = Written(n, w) /\ pos' = [pos EXCEPT ![1] = n + Half]
  BY <1>1, <1>5, <1>6, <1>7
<1>9. file' = OneClosed(n)
  <2>1. (IF n + Len(w) > Len(file) THEN n + Len(w) ELSE Len(file)) = n + Half
    BY <1>5, <1>6, HalfFacts
  <2>2. Written(n, w)
          = [k \in 1 .. n + Half |-> IF k \in n + 1 .. n + Len(w) THEN w[k - n] ELSE file[k]]
    BY <2>1 DEF Written
  <2>3. ASSUME NEW k \in 1 .. n + Half
        PROVE  (IF k \in n + 1 .. n + Len(w) THEN w[k - n] ELSE file[k])
                 = IF k <= n THEN Old ELSE 2 * (k - n - 1) + 1
    <3>1. CASE k <= n
      <4>1. k \notin n + 1 .. n + Len(w) /\ file[k] = Old
        <5>1. k \in 1 .. n /\ k \notin n + 1 .. n + Len(w)
          BY <1>5, <3>1, HalfFacts
        <5> QED
          BY <1>2, <5>1, FilesAre
      <4> QED
        BY <3>1, <4>1
    <3>2. CASE ~(k <= n)
      <4>1. k \in n + 1 .. n + Len(w) /\ k - n \in 1 .. Half
        BY <1>5, <3>2, HalfFacts
      <4>2. w[k - n] = 2 * (k - n - 1) + 1
        BY <1>5, <4>1
      <4> QED
        BY <3>2, <4>1, <4>2
    <3> QED
      BY <3>1, <3>2
  <2> QED
    BY <1>8, <2>2, <2>3 DEF OneClosed
<1>10. buf' = [s \in Streams |-> IF s = 1 THEN <<>> ELSE Letters(2)]
  BY <1>1, <1>2, <1>3
<1>11. pos' \in [Streams -> Nat] /\ pos'[2] = 0
  BY <1>2, <1>3, <1>8, HalfFacts
<1>12. Letters(2)' = Letters(2) /\ OneClosed(n)' = OneClosed(n)
  BY DEF Letters, OneClosed, Half, Old
<1> QED
  BY <1>1, <1>9, <1>10, <1>11, <1>12 DEF FirstClosed

(* fclose of the second writes behind those, or over them.                  *)
LEMMA SecondIsClosed ==
  ASSUME WriteTypes, NEW n \in Nat, ~prog.append => n = 0, FirstClosed(n),
         Close(2, "fclose2", "info2")
  PROVE  AllClosed(n)'
<1>1. /\ main' = "info2" /\ prog' = prog
      /\ file' = Written(IF prog.append THEN Len(file) ELSE pos[2], buf[2])
      /\ buf' = [buf EXCEPT ![2] = <<>>]
  BY DEF Close, MainGoes, WriteOut
<1>2. 1 \in Streams /\ 2 \in Streams /\ \A s \in Streams : s = 1 \/ s = 2
  BY DEF Streams
<1>3. PICK w : w = Letters(2)
  OBVIOUS
<1>4. /\ w \in Seq(Int) /\ Len(w) = Half /\ w = [k \in 1 .. Half |-> 2 * (k - 1) + 2]
      /\ \A k \in 1 .. Half : w[k] = 2 * (k - 1) + 2
  BY <1>2, <1>3, LettersAre
<1>5. /\ buf[2] = w /\ pos[2] = 0 /\ file = OneClosed(n)
      /\ Len(file) = n + Half
  BY <1>2, <1>3, FilesAre DEF FirstClosed
<1>6. buf' = [s \in Streams |-> <<>>]
  BY <1>1, <1>2 DEF FirstClosed
<1>7. CASE prog.append
  <2>1. file' = Written(n + Half, w)
    BY <1>1, <1>5, <1>7
  <2>2. (IF n + Half + Len(w) > Len(file) THEN n + Half + Len(w) ELSE Len(file)) = n + N
    BY <1>4, <1>5, HalfFacts
  <2>3. Written(n + Half, w)
          = [k \in 1 .. n + N |-> IF k \in n + Half + 1 .. n + Half + Len(w)
                                  THEN w[k - (n + Half)] ELSE file[k]]
    BY <2>2 DEF Written
  <2>4. ASSUME NEW k \in 1 .. n + N
        PROVE  (IF k \in n + Half + 1 .. n + Half + Len(w) THEN w[k - (n + Half)] ELSE file[k])
                 = IF k <= n THEN Old
                   ELSE IF k <= n + Half THEN 2 * (k - n - 1) + 1 ELSE 2 * (k - n - Half)
    <3>1. CASE k <= n + Half
      <4>1. k \notin n + Half + 1 .. n + Half + Len(w) /\ k \in 1 .. n + Half
        BY <3>1, HalfFacts
      <4>2. file[k] = IF k <= n THEN Old ELSE 2 * (k - n - 1) + 1
        BY <1>5, <4>1, FilesAre
      <4> QED
        BY <3>1, <4>1, <4>2
    <3>2. CASE ~(k <= n + Half)
      <4>1. k \in n + Half + 1 .. n + Half + Len(w) /\ k - (n + Half) \in 1 .. Half /\ ~(k <= n)
        BY <1>4, <3>2, HalfFacts
      <4>2. w[k - (n + Half)] = 2 * (k - (n + Half) - 1) + 2
        BY <1>4, <4>1
      <4>3. 2 * (k - (n + Half) - 1) + 2 = 2 * (k - n - Half)
        BY HalfFacts
      <4> QED
        BY <3>2, <4>1, <4>2, <4>3
    <3> QED
      BY <3>1, <3>2
  <2>5. file' = BothClosed(n)
    BY <2>1, <2>3, <2>4 DEF BothClosed
  <2>6. BothClosed(n)' = BothClosed(n)
    BY DEF BothClosed, Half, Old
  <2> QED
    BY <1>1, <1>6, <1>7, <2>5, <2>6 DEF AllClosed
<1>8. CASE ~prog.append
  <2>1. file' = Written(0, w) /\ Len(file) = Half
    BY <1>1, <1>5, <1>8, HalfFacts
  <2>2. (IF 0 + Len(w) > Len(file) THEN 0 + Len(w) ELSE Len(file)) = Half
    BY <1>4, <2>1, HalfFacts
  <2>3. Written(0, w)
          = [k \in 1 .. Half |-> IF k \in 0 + 1 .. 0 + Len(w) THEN w[k - 0] ELSE file[k]]
    BY <2>2 DEF Written
  <2>4. \A k \in 1 .. Half : (IF k \in 0 + 1 .. 0 + Len(w) THEN w[k - 0] ELSE file[k])
                               = 2 * (k - 1) + 2
    <3> SUFFICES ASSUME NEW k \in 1 .. Half
                 PROVE  k \in 0 + 1 .. 0 + Len(w) /\ w[k - 0] = 2 * (k - 1) + 2
      OBVIOUS
    <3>1. k - 0 = k /\ k \in 0 + 1 .. 0 + Len(w)
      BY <1>4, HalfFacts
    <3> QED
      BY <1>4, <3>1
  <2>5. file' = Letters(2)
    BY <1>3, <1>4, <2>1, <2>3, <2>4
  <2>6. Letters(2)' = Letters(2)
    BY DEF Letters
  <2> QED
    BY <1>1, <1>6, <1>8, <2>5, <2>6 DEF AllClosed
<1>9. prog.append \in BOOLEAN
  BY ProgramFacts DEF WriteTypes
<1> QED
  BY <1>7, <1>8, <1>9

(* The loops have ended, or main goes on.                                   *)
LEMMA WriteTypesStay ==
  ASSUME WriteTypes, UNCHANGED <<prog, turn, going, sent>>,
         main' # "run" => \A s \in Streams : sent[s] = Half
  PROVE  WriteTypes'
  BY DEF WriteTypes, Half

(* A program with buffers: the steps of main.                               *)
LEMMA BuffersStep ==
  ASSUME WriteTypes, Buffers, prog.buffered, Join \/ fcloses \/ file_info
  PROVE  WriteTypes' /\ Buffers'
<1>1. /\ prog \in Programs /\ prog.mode = "write"
      /\ \A s \in Streams : going[s] <=> sent[s] < Half
      /\ sent \in [Streams -> 0 .. Half]
      /\ main # "run" => \A s \in Streams : sent[s] = Half
  BY DEF WriteTypes
<1>2. PICK n \in Nat : (~prog.append => n = 0) /\ (NoneClosed(n) \/ FirstClosed(n) \/ AllClosed(n))
  BY DEF Buffers
<1>3. /\ Olds(n)' = Olds(n) /\ OneClosed(n)' = OneClosed(n) /\ BothClosed(n)' = BothClosed(n)
      /\ \A s \in Streams : Letters(s)' = Letters(s)
  BY DEF Olds, OneClosed, BothClosed, Letters, Old, Half
<1>4. CASE Join
  <2>1. /\ main = "run" /\ main' = "fclose1" /\ (\A s \in Streams : ~going[s])
        /\ UNCHANGED <<prog, turn, going, sent, pos, buf, file>>
    BY <1>1, <1>4 DEF Join, MainGoes, Fopened
  <2>2. \A s \in Streams : sent[s] = Half
    <3> SUFFICES ASSUME NEW s \in Streams
                 PROVE  sent[s] = Half
      OBVIOUS
    <3>1. sent[s] \in 0 .. Half /\ ~(sent[s] < Half)
      BY <1>1, <2>1
    <3> QED
      BY <3>1, HalfFacts
  <2>3. NoneClosed(n)
    BY <1>2, <2>1 DEF FirstClosed, AllClosed
  <2>4. NoneClosed(n)'
    <3>1. \A s \in Streams : Given(s)' = Given(s)
      BY <2>1 DEF Given
    <3>2. buf' = [s \in Streams |-> Given(s)']
      BY <2>1, <2>3, <3>1 DEF NoneClosed
    <3> QED
      BY <1>3, <2>1, <2>3, <3>2 DEF NoneClosed
  <2> QED
    BY <1>2, <2>1, <2>2, <2>4, WriteTypesStay DEF Buffers
<1>5. CASE Close(1, "fclose1", "info1")
  <2>1. main = "fclose1" /\ main' = "info1" /\ UNCHANGED <<prog, turn, going, sent>>
    BY <1>5 DEF Close, MainGoes
  <2>2. NoneClosed(n)
    BY <1>2, <2>1 DEF FirstClosed, AllClosed
  <2>3. FirstClosed(n)'
    BY <1>2, <1>5, <2>2, FirstIsClosed
  <2> QED
    BY <1>1, <1>2, <2>1, <2>3, WriteTypesStay DEF Buffers
<1>6. CASE Close(2, "fclose2", "info2")
  <2>1. main = "fclose2" /\ main' = "info2" /\ UNCHANGED <<prog, turn, going, sent>>
    BY <1>6 DEF Close, MainGoes
  <2>2. FirstClosed(n)
    BY <1>2, <2>1 DEF NoneClosed, AllClosed
  <2>3. AllClosed(n)'
    BY <1>2, <1>6, <2>2, SecondIsClosed
  <2> QED
    BY <1>1, <1>2, <2>1, <2>3, WriteTypesStay DEF Buffers
<1>7. CASE file_info
  <2>1. /\ \/ main = "info1" /\ main' \in {"fclose2", "crashed"}
           \/ main = "info2" /\ main' \in {"end", "crashed"}
        /\ UNCHANGED <<prog, turn, going, sent, pos, buf, file>>
    BY <1>7 DEF file_info, MainGoes
  <2>2. WriteTypes'
    BY <1>1, <2>1, WriteTypesStay
  <2>3. CASE main = "info1"
    <3>1. FirstClosed(n)
      BY <1>2, <2>3 DEF NoneClosed, AllClosed
    <3>2. FirstClosed(n)'
      BY <1>3, <2>1, <2>3, <3>1 DEF FirstClosed, Streams
    <3> QED
      BY <1>2, <2>1, <2>2, <3>2 DEF Buffers
  <2>4. CASE main = "info2"
    <3>1. AllClosed(n)
      BY <1>2, <2>4 DEF NoneClosed, FirstClosed
    <3>2. AllClosed(n)'
      BY <1>3, <2>1, <2>4, <3>1 DEF AllClosed, Streams
    <3> QED
      BY <1>2, <2>1, <2>2, <3>2 DEF Buffers
  <2> QED
    BY <2>1, <2>3, <2>4
<1> QED
  BY <1>4, <1>5, <1>6, <1>7 DEF fcloses

(* A program without: its loops end.                                        *)
LEMMA DirectlyStep ==
  ASSUME WriteTypes, Directly, ~prog.buffered, Join \/ fcloses \/ file_info
  PROVE  WriteTypes' /\ Directly'
<1>1. /\ \A s \in Streams : going[s] <=> sent[s] < Half
      /\ sent \in [Streams -> 0 .. Half] /\ main \in {"run", "end"}
  BY DEF WriteTypes, Directly
<1>2. Join
  BY <1>1 DEF fcloses, Close, file_info, MainGoes
<1>3. /\ main' = "end" /\ (\A s \in Streams : ~going[s])
      /\ UNCHANGED <<prog, turn, going, sent, pos, buf, file>>
  BY <1>2 DEF Join, MainGoes, Fopened
<1>4. \A s \in Streams : sent[s] = Half
  <2> SUFFICES ASSUME NEW s \in Streams
               PROVE  sent[s] = Half
    OBVIOUS
  <2>1. sent[s] \in 0 .. Half /\ ~(sent[s] < Half)
    BY <1>1, <1>3
  <2> QED
    BY <2>1, HalfFacts
<1>5. WriteTypes'
  BY <1>3, <1>4, WriteTypesStay
<1>6. Directly'
  BY <1>3 DEF Directly, ByTurns, Old
<1> QED
  BY <1>5, <1>6

(* What a program without buffers finds in its file.                        *)
LEMMA DirectlyInit ==
  ASSUME StreamsInit, prog.mode = "write", ~prog.buffered
  PROVE  Directly
<1>1. /\ main = "run" /\ pos = [s \in Streams |-> 0] /\ sent = [s \in Streams |-> 0]
      /\ buf = [s \in Streams |-> <<>>]
      /\ file \in {<<>>} \cup {[k \in 1 .. n |-> Old] : n \in {1, N}}
  BY DEF StreamsInit, Fopened
<1>2. PICK n \in Nat : file = [k \in 1 .. n |-> Old]
  <2>1. <<>> = [k \in 1 .. 0 |-> Old]
    OBVIOUS
  <2> QED
    BY <1>1, <2>1, HalfFacts
<1>3. sent[1] = 0 /\ sent[2] = 0 /\ \A s \in Streams : sent[s] = 0
  BY <1>1 DEF Streams
<1>4. file = ByTurns(n, sent[1] + sent[2])
  <2>1. n + (sent[1] + sent[2]) = n /\ \A k \in 1 .. n : k <= n
    BY <1>3
  <2> QED
    BY <1>2, <2>1 DEF ByTurns
<1>5. /\ file \in Seq(Int) /\ Len(file) = n /\ \A k \in 1 .. n : file[k] = Old
  <2>1. Old \in Int
    BY DEF Old
  <2> QED
    BY <1>2, <2>1
<1>6. \A k \in 1 .. Len(file) : file[k] = Old /\ \A s \in Streams : sent[s] < k
  BY <1>3, <1>5
<1>7. \A s \in Streams : sent[s] <= Len(file)
  BY <1>3, <1>5
<1>8. \A k \in 1 .. sent[2] : FALSE
  BY <1>3
<1>9. pos = sent
  BY <1>1
<1> QED
  BY <1>1, <1>4, <1>5, <1>6, <1>7, <1>8, <1>9 DEF Directly

(* What a program with buffers finds in it.                                 *)
LEMMA BuffersInit ==
  ASSUME StreamsInit, prog.mode = "write", prog.buffered
  PROVE  Buffers
<1>1. /\ main = "run" /\ pos = [s \in Streams |-> 0] /\ sent = [s \in Streams |-> 0]
      /\ buf = [s \in Streams |-> <<>>]
      /\ file \in {<<>>} \cup {[k \in 1 .. n |-> Old] : n \in IF ~prog.append THEN {} ELSE {1, N}}
  BY DEF StreamsInit, Fopened
<1>2. <<>> = Olds(0)
  BY DEF Olds
<1>3. PICK n \in Nat : (~prog.append => n = 0) /\ file = Olds(n)
  <2>1. CASE file = <<>>
    BY <1>2, <2>1
  <2>2. CASE file # <<>>
    <3>1. PICK n \in {1, N} : prog.append /\ file = [k \in 1 .. n |-> Old]
      BY <1>1, <2>2
    <3> QED
      BY <3>1, HalfFacts DEF Olds
  <2> QED
    BY <2>1, <2>2
<1>4. \A s \in Streams : Given(s) = <<>>
  <2> SUFFICES ASSUME NEW s \in Streams
               PROVE  Given(s) = <<>>
    OBVIOUS
  <2>1. sent[s] = 0
    BY <1>1
  <2>2. Given(s) = [k \in 1 .. 0 |-> 2 * (k - 1) + s]
    BY <2>1 DEF Given
  <2>3. 1 .. 0 = {}
    OBVIOUS
  <2> QED
    BY <2>2, <2>3
<1>5. NoneClosed(n)
  BY <1>1, <1>3, <1>4 DEF NoneClosed
<1> QED
  BY <1>3, <1>5 DEF Buffers

(* Nothing has been written when the program begins.                        *)
LEMMA WritesInit == StreamsInit => Writes
<1> SUFFICES ASSUME StreamsInit, prog.mode = "write"
             PROVE  WritersInv
  BY DEF Writes, StreamsInit
<1>1. WriteTypes
  BY HalfFacts DEF StreamsInit, WriteTypes, Streams
<1> QED
  BY <1>1, DirectlyInit, BuffersInit DEF WritersInv

(* Each step of a writer.                                                   *)
LEMMA WritesStep == Writes /\ [StreamsNext]_streamsVars => Writes'
<1> SUFFICES ASSUME Writes, [StreamsNext]_streamsVars
             PROVE  Writes'
  OBVIOUS
<1>1. prog' = prog /\ Programs' = Programs
  <2>1. ASSUME NEW s \in Streams, Fill(s) \/ Show(s) \/ Write(s) \/ Stray(s) \/ Cleanup(s)
        PROVE  prog' = prog
    BY <2>1 DEF Fill, Show, Write, Stray, Cleanup
  <2>2. CASE Join \/ MainReturns \/ fcloses \/ file_info \/ Exit
    BY <2>2 DEF Join, MainReturns, MainGoes, fcloses, Close, file_info, Exit
  <2>3. CASE UNCHANGED streamsVars
    BY <2>3 DEF streamsVars
  <2>4. Programs' = Programs
    BY DEF Programs, first, testCIO_thread, testCIO_thread1, testCIO_thread2,
       second, second_thr, second_thr2, second_append, third, third_thr, third_thr2,
       fopen, fopen_append, fopen_thr, fopen_thr2, Reader, Writer
  <2> QED
    BY <2>1, <2>2, <2>3, <2>4 DEF StreamsNext
<1> SUFFICES ASSUME prog.mode = "write"
             PROVE  WritersInv'
  BY <1>1 DEF Writes
<1>2. /\ WriteTypes /\ (prog.buffered => Buffers) /\ (~prog.buffered => Directly)
      /\ prog.mode = "write" /\ prog.by # "detached"
  <2>1. WriteTypes /\ (prog.buffered => Buffers) /\ (~prog.buffered => Directly)
    BY <1>1 DEF Writes, WritersInv
  <2>2. prog.by = "detached" => prog.mode = "read"
    BY <2>1, ProgramFacts DEF WriteTypes
  <2> QED
    BY <1>1, <2>1, <2>2
<1>3. main \in {"run", "fclose1", "info1", "fclose2", "info2", "end", "crashed"}
  BY <1>2 DEF Buffers, NoneClosed, FirstClosed, AllClosed, Directly
<1>4. ASSUME NEW s \in Streams, Write(s)
      PROVE  WritersInv'
  <2>1. WriteTypes'
    BY <1>2, <1>4, WriteTypesKept
  <2>2. CASE prog.buffered
    BY <1>1, <1>2, <1>4, <2>1, <2>2, BuffersFill DEF WritersInv
  <2>3. CASE ~prog.buffered
    BY <1>1, <1>2, <1>4, <2>1, <2>3, DirectlyKept DEF WritersInv
  <2> QED
    BY <2>2, <2>3
<1>5. ASSUME NEW s \in Streams, Fill(s) \/ Show(s) \/ Stray(s) \/ Cleanup(s)
      PROVE  FALSE
  BY <1>2, <1>3, <1>5 DEF Fill, Show, Stray, Cleanup
<1>6. CASE MainReturns \/ Exit
  BY <1>2, <1>3, <1>6 DEF MainReturns, Exit, MainGoes
<1>7. CASE Join \/ fcloses \/ file_info
  <2>1. CASE prog.buffered
    BY <1>1, <1>2, <1>7, <2>1, BuffersStep DEF WritersInv
  <2>2. CASE ~prog.buffered
    BY <1>1, <1>2, <1>7, <2>2, DirectlyStep DEF WritersInv
  <2> QED
    BY <2>1, <2>2
<1>8. CASE UNCHANGED streamsVars
  <2>1. WriteTypes'
    BY <1>2, <1>8, WriteTypesStay DEF streamsVars, WriteTypes
  <2>2. prog.buffered => Buffers'
    BY <1>2, <1>8 DEF streamsVars, Buffers, NoneClosed, FirstClosed, AllClosed, Given, Letters,
       Olds, OneClosed, BothClosed, Half, Old, Streams
  <2>3. ~prog.buffered => Directly'
    BY <1>2, <1>8 DEF streamsVars, Directly, ByTurns, Old, Streams
  <2> QED
    BY <1>1, <2>1, <2>2, <2>3 DEF WritersInv
<1> QED
  BY <1>4, <1>5, <1>6, <1>7, <1>8 DEF StreamsNext

(* Letters are even or odd.                                                 *)
LEMMA Parity ==
  ASSUME NEW x \in 1 .. N
  PROVE  \E m \in 1 .. Half : (x = 2 * m /\ x % 2 = 0) \/ (x = 2 * m - 1 /\ x % 2 = 1)
<1>1. CASE x % 2 = 0
  <2>1. x \div 2 \in 1 .. Half /\ x = 2 * (x \div 2)
    BY <1>1, HalfFacts
  <2> QED
    BY <1>1, <2>1
<1>2. CASE x % 2 # 0
  <2>1. x % 2 = 1 /\ (x + 1) \div 2 \in 1 .. Half /\ x = 2 * ((x + 1) \div 2) - 1
    BY <1>2, HalfFacts
  <2> QED
    BY <2>1
<1> QED
  BY <1>1, <1>2

(* An odd number and an even one.                                           *)
LEMMA OddAndEven ==
  ASSUME NEW a \in Int, NEW b \in Int
  PROVE  ((2 * a + 1) - 2 * b) % 2 # 0
  OBVIOUS

(* A letter that is somewhere and nowhere else, or nowhere.                 *)
LEMMA CountOnce ==
  ASSUME NEW f, NEW x
  PROVE  /\ (\E m \in DOMAIN f : f[m] = x /\ \A k \in DOMAIN f : f[k] = x => k = m)
              => Count(x, f) = 1
         /\ (\A k \in DOMAIN f : f[k] # x) => Count(x, f) = 0
<1>1. ASSUME NEW m \in DOMAIN f, f[m] = x, \A k \in DOMAIN f : f[k] = x => k = m
      PROVE  Count(x, f) = 1
  <2>1. {k \in DOMAIN f : f[k] = x} = {m}
    BY <1>1
  <2> QED
    BY <2>1, FS_Singleton DEF Count
<1>2. ASSUME \A k \in DOMAIN f : f[k] # x
      PROVE  Count(x, f) = 0
  <2>1. {k \in DOMAIN f : f[k] = x} = {}
    BY <1>2
  <2> QED
    BY <2>1, FS_EmptySet DEF Count
<1> QED
  BY <1>1, <1>2

(* The file of second_append.c at its end.                                  *)
LEMMA ByTurnsKeepsAll ==
  ASSUME NEW n \in Nat, file = ByTurns(n, N), buf[2] = <<>>
  PROVE  AppendKeepsAll
<1>1. n \in Int /\ N \in Nat
  BY HalfFacts
<1>2. PICK f : f = file
  OBVIOUS
<1>3. /\ f \in Seq(Int) /\ Len(f) = n + N /\ DOMAIN f = 1 .. n + N
      /\ \A k \in 1 .. n + N : f[k] = IF k <= n THEN Old ELSE k - n
  BY <1>1, <1>2, ByTurnsIs
<1>4. ASSUME NEW x \in 1 .. N
      PROVE  Count(x, f) = 1
  <2>1. n + x \in DOMAIN f /\ f[n + x] = x
    <3>1. n + x \in 1 .. n + N /\ ~ (n + x <= n) /\ n + x - n = x
      BY <1>1
    <3> QED
      BY <1>3, <3>1
  <2>2. ASSUME NEW k \in DOMAIN f, f[k] = x
        PROVE  k = n + x
    <3>1. k \in Int /\ x > 0 /\ f[k] = IF k <= n THEN 0 ELSE k - n
      BY <1>1, <1>3 DEF Old
    <3> QED
      BY <1>1, <2>2, <3>1
  <2> QED
    BY <2>1, <2>2, CountOnce
<1>5. ASSUME NEW j \in DOMAIN f, NEW k \in DOMAIN f, j < k
      PROVE  f[j] <= f[k] /\ (f[k] = Old => f[j] = Old)
  <2>1. /\ j \in Int /\ k \in Int
        /\ f[j] = (IF j <= n THEN 0 ELSE j - n) /\ f[k] = (IF k <= n THEN 0 ELSE k - n)
    BY <1>1, <1>3 DEF Old
  <2>2. CASE k <= n
    BY <1>1, <1>5, <2>1, <2>2 DEF Old
  <2>3. CASE k > n
    BY <1>1, <1>5, <2>1, <2>3 DEF Old
  <2> QED
    BY <1>1, <2>1, <2>2, <2>3
<1>6. /\ \A j, k \in DOMAIN f : j < k => f[j] <= f[k]
      /\ \A j, k \in DOMAIN f : j < k /\ f[k] = Old => f[j] = Old
  BY <1>5
<1>7. SubSeq(f, Len(f) - N + 1, Len(f)) = Alphabet
  <2>1. PICK q \in Nat : q = n + N
    BY <1>1
  <2>2. Len(f) - N + 1 = n + 1 /\ Len(f) = q /\ q - n = N
    BY <1>1, <1>3, <2>1
  <2>3. SubSeq(f, n + 1, q) = [k \in 1 .. q - n |-> f[n + k]]
    BY <1>1, <1>3, <2>2
  <2>4. \A k \in 1 .. N : f[n + k] = k
    BY <1>1, <1>3
  <2> QED
    BY <2>2, <2>3, <2>4 DEF Alphabet
<1> QED
  BY <1>2, <1>4, <1>6, <1>7 DEF AppendKeepsAll

(* The file of fopen_append.c when file_info has crashed between the two.   *)
LEMMA OneClosedKeeps ==
  ASSUME NEW n \in Nat, file = OneClosed(n), buf[2] # <<>>, prog.buffered
  PROVE  AppendKeepsAll
<1>1. n \in Int /\ Half \in Nat
  BY HalfFacts
<1>2. PICK f : f = file
  OBVIOUS
<1>3. /\ DOMAIN f = 1 .. n + Half
      /\ \A k \in 1 .. n + Half : f[k] = IF k <= n THEN Old ELSE 2 * (k - n - 1) + 1
  BY <1>1, <1>2 DEF OneClosed
<1>4. ASSUME NEW x \in 1 .. N
      PROVE  Count(x, f) = IF x % 2 = 0 THEN 0 ELSE 1
  <2>1. PICK m \in 1 .. Half : (x = 2 * m /\ x % 2 = 0) \/ (x = 2 * m - 1 /\ x % 2 = 1)
    BY Parity
  <2>2. CASE x = 2 * m /\ x % 2 = 0
    <3>1. \A k \in DOMAIN f : f[k] # x
      BY <1>1, <1>3, <2>2 DEF Old
    <3> QED
      BY <2>2, <3>1, CountOnce
  <2>3. CASE x = 2 * m - 1 /\ x % 2 = 1
    <3>1. n + m \in DOMAIN f /\ f[n + m] = x
      BY <1>1, <1>3, <2>3
    <3>2. ASSUME NEW k \in DOMAIN f, f[k] = x
          PROVE  k = n + m
      <4>1. k \in Int /\ x > 0 /\ f[k] = IF k <= n THEN 0 ELSE 2 * (k - n - 1) + 1
        BY <1>1, <1>3 DEF Old
      <4> QED
        BY <1>1, <2>3, <3>2, <4>1
    <3>3. Count(x, f) = 1
      BY <3>1, <3>2, CountOnce
    <3> QED
      BY <2>3, <3>3
  <2> QED
    BY <2>1, <2>2, <2>3
<1>5. \A j, k \in DOMAIN f : j < k => f[j] <= f[k]
  BY <1>1, <1>3 DEF Old
<1>6. \A j, k \in DOMAIN f : j < k /\ f[k] = Old => f[j] = Old
  BY <1>1, <1>3 DEF Old
<1> QED
  BY <1>2, <1>4, <1>5, <1>6 DEF AppendKeepsAll

(* The file of fopen_append.c when both have been closed.                   *)
LEMMA BothClosedKeeps ==
  ASSUME NEW n \in Nat, file = BothClosed(n), buf[2] = <<>>, prog.buffered
  PROVE  AppendKeepsAll
<1>1. n \in Int /\ Half \in Nat /\ N = 2 * Half
  BY HalfFacts
<1>2. PICK f : f = file
  OBVIOUS
<1>3. /\ DOMAIN f = 1 .. n + N
      /\ \A k \in 1 .. n + N :
           f[k] = IF k <= n THEN Old
                  ELSE IF k <= n + Half THEN 2 * (k - n - 1) + 1 ELSE 2 * (k - n - Half)
  BY <1>1, <1>2 DEF BothClosed
<1>4. ASSUME NEW x \in 1 .. N
      PROVE  Count(x, f) = 1
  <2>1. PICK m \in 1 .. Half : (x = 2 * m /\ x % 2 = 0) \/ (x = 2 * m - 1 /\ x % 2 = 1)
    BY Parity
  <2>2. CASE x = 2 * m
    <3>1. n + Half + m \in DOMAIN f /\ f[n + Half + m] = x
      BY <1>1, <1>3, <2>2
    <3>2. ASSUME NEW k \in DOMAIN f, f[k] = x
          PROVE  k = n + Half + m
      <4>1. k \in Int /\ x > 0
            /\ f[k] = IF k <= n THEN 0
                      ELSE IF k <= n + Half THEN 2 * (k - n - 1) + 1 ELSE 2 * (k - n - Half)
        BY <1>1, <1>3 DEF Old
      <4>2. CASE k <= n
        BY <1>1, <3>2, <4>1, <4>2
      <4>3. CASE k > n /\ k <= n + Half
        <5>1. f[k] = 2 * (k - n - 1) + 1
          BY <1>1, <4>1, <4>3
        <5> QED
          BY <1>1, <2>2, <3>2, <4>1, <5>1
      <4>4. CASE k > n + Half
        <5>1. f[k] = 2 * (k - n - Half)
          BY <1>1, <4>1, <4>4
        <5> QED
          BY <1>1, <2>2, <3>2, <4>1, <5>1
      <4> QED
        BY <1>1, <4>1, <4>2, <4>3, <4>4
    <3> QED
      BY <3>1, <3>2, CountOnce
  <2>3. CASE x = 2 * m - 1
    <3>1. n + m \in DOMAIN f /\ f[n + m] = x
      BY <1>1, <1>3, <2>3
    <3>2. ASSUME NEW k \in DOMAIN f, f[k] = x
          PROVE  k = n + m
      <4>1. k \in Int /\ x > 0
            /\ f[k] = IF k <= n THEN 0
                      ELSE IF k <= n + Half THEN 2 * (k - n - 1) + 1 ELSE 2 * (k - n - Half)
        BY <1>1, <1>3 DEF Old
      <4>2. CASE k <= n
        BY <1>1, <3>2, <4>1, <4>2
      <4>3. CASE k > n /\ k <= n + Half
        <5>1. f[k] = 2 * (k - n - 1) + 1
          BY <1>1, <4>1, <4>3
        <5> QED
          BY <1>1, <2>3, <3>2, <4>1, <5>1
      <4>4. CASE k > n + Half
        <5>1. f[k] = 2 * (k - n - Half)
          BY <1>1, <4>1, <4>4
        <5> QED
          BY <1>1, <2>3, <3>2, <4>1, <5>1
      <4> QED
        BY <1>1, <4>1, <4>2, <4>3, <4>4
    <3> QED
      BY <3>1, <3>2, CountOnce
  <2> QED
    BY <2>1, <2>2, <2>3
<1>5. ASSUME NEW j \in DOMAIN f, NEW k \in DOMAIN f, j < k, (f[j] - f[k]) % 2 = 0
      PROVE  f[j] <= f[k]
  <2>1. CASE j > n /\ j <= n + Half /\ k > n + Half
    <3>1. f[j] = 2 * (j - n - 1) + 1 /\ f[k] = 2 * (k - n - Half)
      BY <1>1, <1>3, <2>1
    <3>2. j - n - 1 \in Int /\ k - n - Half \in Int
      BY <1>1, <1>3
    <3> QED
      BY <1>5, <3>1, <3>2, OddAndEven
  <2>2. CASE ~(j > n /\ j <= n + Half /\ k > n + Half)
    BY <1>1, <1>3, <1>5, <2>2 DEF Old
  <2> QED
    BY <2>1, <2>2
<1>6. ASSUME NEW j \in DOMAIN f, NEW k \in DOMAIN f, j < k, f[k] = Old
      PROVE  f[j] = Old
  <2>1. j \in Int /\ k \in Int /\ j >= 1 /\ k <= n + N
    BY <1>1, <1>3
  <2>2. k <= n
    <3>1. CASE k > n /\ k <= n + Half
      BY <1>1, <1>3, <1>6, <2>1, <3>1 DEF Old
    <3>2. CASE k > n + Half
      BY <1>1, <1>3, <1>6, <2>1, <3>2 DEF Old
    <3> QED
      BY <1>1, <2>1, <3>1, <3>2
  <2>3. j \in 1 .. n + N /\ j <= n
    BY <1>1, <1>6, <2>1, <2>2
  <2> QED
    BY <1>1, <1>3, <2>3
<1> QED
  BY <1>2, <1>4, <1>5, <1>6 DEF AppendKeepsAll

(* The file of the writers that overwrite each other, without buffers.      *)
LEMMA DirectlyKeepsHalf ==
  ASSUME WriteTypes, Directly, main = "end", ~prog.buffered
  PROVE  OverwriteKeepsHalf
<1> SUFFICES ASSUME ~prog.append
             PROVE  OverwriteKeepsHalf
  BY DEF OverwriteKeepsHalf
<1>1. /\ sent[1] = Half /\ sent[2] = Half /\ \A s \in Streams : sent[s] = Half
      /\ buf[2] = <<>>
  BY DEF WriteTypes, Directly, Streams
<1>2. PICK f : f = file
  OBVIOUS
<1>3. /\ f \in Seq(Int) /\ Half <= Len(f) /\ Len(f) \in Nat
      /\ \A k \in 1 .. Len(f) :
           \/ f[k] = Old /\ ~(k <= Half)
           \/ \E s \in Streams : k <= Half /\ f[k] = 2 * (k - 1) + s
      /\ prog.by = "turns" => \A k \in 1 .. Half : f[k] = 2 * (k - 1) + 2
  <2>1. 1 \in Streams
    BY DEF Streams
  <2>2. f \in Seq(Int) /\ Half <= Len(f)
    BY <1>1, <1>2, <2>1 DEF Directly
  <2>3. prog.by = "turns" => \A k \in 1 .. Half : f[k] = 2 * (k - 1) + 2
    BY <1>1, <1>2 DEF Directly
  <2>4. ASSUME NEW k \in 1 .. Len(f)
        PROVE  \/ f[k] = Old /\ ~(k <= Half)
               \/ \E s \in Streams : k <= Half /\ f[k] = 2 * (k - 1) + s
    <3>1. \/ f[k] = Old /\ \A s \in Streams : sent[s] < k
          \/ \E s \in Streams : k <= sent[s] /\ f[k] = 2 * (k - 1) + s
      BY <1>2 DEF Directly
    <3>2. Half < k => ~(k <= Half)
      BY HalfFacts, <2>2
    <3> QED
      BY <1>1, <2>1, <3>1, <3>2
  <2> QED
    BY <2>2, <2>3, <2>4
<1>4. \A k \in 1 .. Half : f[k] \in {Letters(s)[k] : s \in Streams}
  <2> SUFFICES ASSUME NEW k \in 1 .. Half
               PROVE  \E s \in Streams : f[k] = Letters(s)[k]
    OBVIOUS
  <2>1. PICK s \in Streams : f[k] = 2 * (k - 1) + s
    BY <1>3, HalfFacts
  <2>2. Letters(s)[k] = 2 * (k - 1) + s
    BY LettersAre
  <2> QED
    BY <2>1, <2>2
<1>5. prog.by = "turns" => SubSeq(f, 1, Half) = Letters(2)
  <2> SUFFICES ASSUME prog.by = "turns"
               PROVE  SubSeq(f, 1, Half) = Letters(2)
    OBVIOUS
  <2>1. SubSeq(f, 1, Half) = [k \in 1 .. Half |-> f[k]]
    BY <1>3, HalfFacts
  <2>2. Letters(2) = [k \in 1 .. Half |-> 2 * (k - 1) + 2]
    BY LettersAre DEF Streams
  <2> QED
    BY <1>3, <2>1, <2>2
<1>6. \A k \in Half + 1 .. Len(f) : f[k] = Old
  BY <1>3, HalfFacts
<1> QED
  BY <1>1, <1>2, <1>3, <1>4, <1>5, <1>6 DEF OverwriteKeepsHalf, Half

(* The file of those with buffers: what was written last covers the rest.   *)
LEMMA BuffersKeepHalf ==
  ASSUME NEW s \in Streams, file = Letters(s), s = IF buf[2] = <<>> THEN 2 ELSE 1
  PROVE  OverwriteKeepsHalf
<1>1. PICK f : f = file
  OBVIOUS
<1>2. f = Letters(s) /\ f \in Seq(Int) /\ Len(f) = Half /\ f = [k \in 1 .. Half |-> 2 * (k - 1) + s]
  BY <1>1, LettersAre
<1>3. SubSeq(f, 1, Half) = f
  <2>1. SubSeq(f, 1, Half) = [k \in 1 .. Half |-> f[k]]
    BY <1>2, HalfFacts
  <2> QED
    BY <1>2, <2>1
<1>4. \A k \in Half + 1 .. Len(f) : FALSE
  BY <1>2, HalfFacts
<1>5. Len(f) >= Half
  BY <1>2, HalfFacts
<1> QED
  BY <1>1, <1>2, <1>3, <1>4, <1>5 DEF OverwriteKeepsHalf, Half

(* What the invariant says of the end is what was to be shown.              *)
LEMMA WritesSuffice == Writes => FileAtTheEnd
<1> SUFFICES ASSUME Writes, prog.mode = "write", main \in {"end", "crashed"}
             PROVE  FileAtTheEnd
  <2>1. Writes /\ prog.append => prog.mode = "write"
    BY ProgramFacts DEF Writes
  <2> QED
    BY <2>1 DEF FileAtTheEnd, AppendKeepsAll, OverwriteKeepsHalf
<1>1. /\ WriteTypes /\ (prog.buffered => Buffers) /\ (~prog.buffered => Directly)
  BY DEF Writes, WritersInv
<1>2. CASE ~prog.buffered
  <2>1. main = "end" /\ sent[1] + sent[2] = N
    BY <1>1, <1>2, HalfFacts DEF Directly, WriteTypes, Streams
  <2>2. OverwriteKeepsHalf
    BY <1>1, <1>2, <2>1, DirectlyKeepsHalf
  <2>3. buf[2] = <<>>
    BY <1>1, <1>2 DEF Directly, Streams
  <2>4. ASSUME prog.append
        PROVE  AppendKeepsAll
    <3>1. PICK n \in Nat : file = ByTurns(n, N)
      BY <1>1, <1>2, <2>1, <2>4 DEF Directly
    <3> QED
      BY <2>3, <3>1, ByTurnsKeepsAll
  <2> QED
    BY <2>2, <2>4 DEF FileAtTheEnd, AppendKeepsAll
<1>3. CASE prog.buffered
  <2>1. PICK n \in Nat : (~prog.append => n = 0) /\ (FirstClosed(n) \/ AllClosed(n))
    BY <1>1, <1>3 DEF Buffers, NoneClosed
  <2>2. 1 \in Streams /\ 2 \in Streams
    BY DEF Streams
  <2>3. CASE FirstClosed(n)
    <3>1. file = OneClosed(n) /\ buf[2] = Letters(2)
      BY <2>2, <2>3 DEF FirstClosed
    <3>2. buf[2] # <<>>
      <4>1. PICK w : w = Letters(2)
        OBVIOUS
      <4>2. w \in Seq(Int) /\ Len(w) > 0
        BY <2>2, <4>1, LettersAre, HalfFacts
      <4>3. w # <<>>
        BY <4>2
      <4> QED
        BY <3>1, <4>1, <4>3
    <3>3. AppendKeepsAll
      BY <1>3, <3>1, <3>2, OneClosedKeeps
    <3>4. ASSUME ~prog.append
          PROVE  file = Letters(1)
      <4>1. n = 0
        BY <2>1, <3>4
      <4>2. file = [k \in 1 .. 0 + Half |-> IF k <= 0 THEN Old ELSE 2 * (k - 0 - 1) + 1]
        BY <3>1, <4>1 DEF OneClosed
      <4>3. 0 + Half = Half /\ \A k \in 1 .. Half : ~(k <= 0) /\ k - 0 - 1 = k - 1
        BY HalfFacts
      <4>4. Letters(1) = [k \in 1 .. Half |-> 2 * (k - 1) + 1]
        BY <2>2, LettersAre
      <4> QED
        BY <4>2, <4>3, <4>4
    <3>5. OverwriteKeepsHalf
      <4>1. CASE prog.append
        BY <4>1 DEF OverwriteKeepsHalf
      <4>2. CASE ~prog.append
        BY <2>2, <3>2, <3>4, <4>2, BuffersKeepHalf
      <4> QED
        BY <4>1, <4>2
    <3> QED
      BY <3>3, <3>5 DEF FileAtTheEnd
  <2>4. CASE AllClosed(n)
    <3>1. buf[2] = <<>> /\ file = IF prog.append THEN BothClosed(n) ELSE Letters(2)
      BY <2>2, <2>4 DEF AllClosed
    <3>2. CASE prog.append
      BY <1>3, <3>1, <3>2, BothClosedKeeps DEF FileAtTheEnd, OverwriteKeepsHalf
    <3>3. CASE ~prog.append
      BY <2>2, <3>1, <3>3, BuffersKeepHalf DEF FileAtTheEnd, AppendKeepsAll
    <3> QED
      BY <3>2, <3>3
  <2> QED
    BY <2>1, <2>3, <2>4
<1> QED
  BY <1>2, <1>3

(* FileAtTheEnd is an invariant: what each of the eight writing programs of *)
(* lab_12 leaves in its file, all of the letters when it appends and half   *)
(* of them when the two descriptors write over each other, in every order   *)
(* of the threads and with a crash of file_info or without.                 *)
THEOREM FilesAsLeft == StreamsSpec => []FileAtTheEnd
  BY WritesInit, WritesStep, WritesSuffice, PTL DEF StreamsSpec
=============================================================================
