------------------------------- MODULE SlabFs -------------------------------
(***************************************************************************)
(* lab_13/my_md.c: a kernel module that registers a file system and fills  *)
(* an array of pointers with objects of a slab cache of its own, while the *)
(* file system may be mounted by other processes.                          *)
(*                                                                         *)
(* The kernel is external.  What is used of it: a mount holds a reference  *)
(* to the module, which it gets while the type is registered and the       *)
(* module is not on its way out; rmmod needs a module that is loaded and   *)
(* has no references; a module whose init has failed is freed all the      *)
(* same.  fill_sb changes nothing of the module's: it succeeds or fails.   *)
(***************************************************************************)
EXTENDS Integers, FiniteSets

CONSTANTS MY_VFS_CACHE_SIZE,  \* 129 in the code
          Objects,            \* the objects that the slab cache can give out
          Null,               \* no object
          Mounts              \* processes that mount the file system, or try to

ASSUME ConstantsAssumption ==
  /\ MY_VFS_CACHE_SIZE \in Nat \ {0}
  /\ IsFiniteSet(Objects) /\ Null \notin Objects

VARIABLES
  pc,          \* where myfs_init or myfs_exit is
  i,           \* index of the loop over line
  bound,       \* bound of the loop that frees
  line,        \* the array of pointers, <<>> while there is none
  cache,       \* the slab cache exists
  registered,  \* my_vfs_type is known to the kernel
  state,       \* of the module: "coming", "live", "going", "gone"
  failed,      \* myfs_init has returned an error
  used,        \* objects that the cache has given out and not got back
  mnt          \* where each mount stands

loops  == <<i, bound>>
memory == <<line, cache, used>>
module == <<state, failed>>
vars   == <<pc, loops, memory, registered, module, mnt>>

Indices == 0 .. MY_VFS_CACHE_SIZE - 1

Init ==
  /\ pc = "register"
  /\ i = 0 /\ bound = 0
  /\ line = <<>> /\ cache = FALSE /\ used = {}
  /\ registered = FALSE
  /\ state = "coming" /\ failed = FALSE
  /\ mnt = [m \in Mounts |-> "none"]
-----------------------------------------------------------------------------
(* myfs_init, and its way back when a step fails.                          *)

Goto(from, to) ==
  /\ pc = from
  /\ pc' = to
  /\ UNCHANGED mnt

Register ==
  /\ Goto("register", "kmalloc")
  /\ registered' = TRUE
  /\ UNCHANGED <<loops, memory, module>>

RegisterFails ==
  /\ Goto("register", "return")
  /\ failed' = TRUE
  /\ UNCHANGED <<loops, memory, registered, state>>

KmallocLine ==
  /\ Goto("kmalloc", "create")
  /\ line' = [j \in Indices |-> Null]
  /\ UNCHANGED <<loops, cache, used, registered, module>>

KmallocLineFails ==
  /\ Goto("kmalloc", "unregister")
  /\ failed' = TRUE
  /\ UNCHANGED <<loops, memory, registered, state>>

CreateCache ==
  /\ Goto("create", "alloc")
  /\ cache' = TRUE
  /\ UNCHANGED <<loops, line, used, registered, module>>

CreateCacheFails ==
  /\ Goto("create", "kfree")
  /\ failed' = TRUE
  /\ UNCHANGED <<loops, memory, registered, state>>

Alloc(o) ==
  /\ i < MY_VFS_CACHE_SIZE
  /\ Goto("alloc", "alloc")
  /\ o \in Objects \ used
  /\ used' = used \cup {o}
  /\ line' = [line EXCEPT ![i] = o]
  /\ i' = i + 1
  /\ UNCHANGED <<bound, cache, registered, module>>

\* j runs from 0 below the index that has failed.
AllocFails ==
  /\ i < MY_VFS_CACHE_SIZE
  /\ Goto("alloc", "free")
  /\ bound' = i
  /\ i' = 0
  /\ failed' = TRUE
  /\ UNCHANGED <<memory, registered, state>>

Loaded ==
  /\ i = MY_VFS_CACHE_SIZE
  /\ Goto("alloc", "loaded")
  /\ state' = "live"
  /\ UNCHANGED <<loops, memory, registered, failed>>

FreeObject ==
  /\ i < bound
  /\ Goto("free", "free")
  /\ used' = used \ {line[i]}
  /\ i' = i + 1
  /\ UNCHANGED <<bound, line, cache, registered, module>>

\* Fault: the last object stays, j < i - 1 for j < i.
DestroyEarly ==
  /\ i + 1 >= bound
  /\ Goto("free", "kfree")
  /\ cache' = FALSE
  /\ UNCHANGED <<loops, line, used, registered, module>>

DestroyCache ==
  /\ i = bound
  /\ Goto("free", "kfree")
  /\ cache' = FALSE
  /\ UNCHANGED <<loops, line, used, registered, module>>

KfreeLine ==
  /\ Goto("kfree", "unregister")
  /\ line' = <<>>
  /\ UNCHANGED <<loops, cache, used, registered, module>>

Unregister ==
  /\ Goto("unregister", "return")
  /\ registered' = FALSE
  /\ UNCHANGED <<loops, memory, module>>

\* The kernel frees the module, after an init that failed or after the exit.
Unload ==
  /\ Goto("return", "gone")
  /\ state' = "gone"
  /\ UNCHANGED <<loops, memory, registered, failed>>

Users == {m \in Mounts : mnt[m] # "none"}

\* Fault: the type has no owner, so a mount does not hold the module.
RmmodUnowned ==
  /\ Goto("loaded", "free")
  /\ state' = "going"
  /\ i' = 0 /\ bound' = MY_VFS_CACHE_SIZE
  /\ UNCHANGED <<memory, registered, failed>>

\* rmmod, and the start of myfs_exit: every element of line is freed.
Rmmod ==
  /\ Users = {}
  /\ Goto("loaded", "free")
  /\ state' = "going"
  /\ i' = 0 /\ bound' = MY_VFS_CACHE_SIZE
  /\ UNCHANGED <<memory, registered, failed>>

ModuleStep ==
  \/ Register \/ RegisterFails
  \/ KmallocLine \/ KmallocLineFails
  \/ CreateCache \/ CreateCacheFails
  \/ \E o \in Objects : Alloc(o)
  \/ AllocFails \/ Loaded
  \/ FreeObject \/ DestroyCache \/ KfreeLine \/ Unregister \/ Unload
  \/ Rmmod
-----------------------------------------------------------------------------
(* A mount.                                                                *)

Step(m, from, to) ==
  /\ mnt[m] = from
  /\ mnt' = [mnt EXCEPT ![m] = to]
  /\ UNCHANGED <<pc, loops, memory, registered, module>>

\* mount(2) finds the type and gets hold of the module that owns it.
GetFs(m) ==
  /\ registered /\ state \in {"coming", "live"}
  /\ Step(m, "none", "mount")

\* mount_nodev: a super block, which my_vfs_fill_sb is called to fill.
Sget(m) == Step(m, "mount", "fill")
SgetFails(m) == Step(m, "mount", "put")

\* my_vfs_fill_sb: an inode and a root.  When either is not to be had the
\* super block is given up, through kill_my_vfs.
FillSb(m) == Step(m, "fill", "mounted")
FillSbFails(m) == Step(m, "fill", "kill")

Umount(m) == Step(m, "mounted", "kill")
KillSb(m) == Step(m, "kill", "put")

\* The reference to the module is given back when all this is done.
PutFs(m) == Step(m, "put", "none")

Mount(m) ==
  \/ GetFs(m) \/ Sget(m) \/ SgetFails(m) \/ FillSb(m) \/ FillSbFails(m)
  \/ Umount(m) \/ KillSb(m) \/ PutFs(m)
-----------------------------------------------------------------------------
Next == ModuleStep \/ \E m \in Mounts : Mount(m)

Spec == Init /\ [][Next]_vars
-----------------------------------------------------------------------------
(* What is claimed of the module.                                          *)

\* Whatever step of myfs_init fails, and at whatever index, everything is given
\* back in an order that works: the loop that frees has ahead of it exactly the
\* objects that are still out, so none is freed twice, and the cache is empty
\* when it is destroyed, as kmem_cache_destroy requires; a module that is gone
\* leaves no object, cache, array or registered type behind.
GivenBack ==
  /\ pc = "free" => used = {line[j] : j \in i .. bound - 1}
  /\ ~ cache => used = {}
  /\ state = "gone" => ~ cache /\ line = <<>> /\ ~ registered

\* A mount keeps the module: once the module is on its way out nobody is inside
\* its code or has its super block.  The exception is an init that fails: the
\* type is registered first, so somebody may have mounted it by then, and the
\* module is freed under that mount.  This is a fault of the code, and failed
\* says that it is the only way there; it is not excluded.
MountsHoldModule ==
  Users # {} => state \in {"coming", "live"} \/ failed
=============================================================================
