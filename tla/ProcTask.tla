----------------------------- MODULE ProcTask ------------------------------
(* lab_07/my_md.c, lab_08/my_md.c, lab_09/my_md.c: three kernel modules that *)
(* tell about processes in a file of /proc/sdir.  One keeps the last number  *)
(* written to the file, two keep a list of them.                             *)
(*                                                                           *)
(* The kernel is external.  What is used of it: a name is registered in      *)
(* /proc once; removing a file waits for the calls in progress and closes    *)
(* what is open; a module whose init fails is freed, whatever it has left in *)
(* /proc; seq_read keeps the index between the read calls of an open file;   *)
(* a task that was looked up without a lock may be freed before it is used.  *)
EXTENDS Integers, Sequences, FiniteSets

CONSTANTS Users,      \* processes that write to and read from the file
          Pids,       \* numbers of processes that live at first
          Size,       \* of the array pids: 3 in lab_08, 32 in lab_09
          MaxWrites,  \* bound on the writes while a module is loaded
          MaxLoads    \* bound on the attempts to load a module

Lists == {"lab_08", "lab_09"}
Modules == Lists \cup {"lab_07"}
None == "none"
Unset == "unset"   \* a number that is no process: -1 in lab_07, 0 in the lists

ASSUME ConstantsAssumption ==
    /\ Size \in Nat \ {0} /\ MaxWrites \in Nat /\ MaxLoads \in Nat
    /\ Unset \notin Pids

VARIABLES
    at,       \* how far each module is loaded
    dir, file,  \* the module that made /proc/sdir and the file in it, or None
    links,    \* the modules whose symbolic link is there
    loads,    \* attempts to load, for MaxLoads
    pid,      \* lab_07: pid
    output_buf,  \* lab_07: output_buf, in two halves
    pids, pid_count,
    call,     \* what each user is doing with the file
    alive,    \* the processes that have not ended
    broken,   \* "oops", "overrun" once a list is written past its end, or "no"
    written,  \* history: the numbers written, in the order of the calls
    clean     \* history: no two writes have overlapped

entries == <<at, dir, file, links, loads>>
data == <<pid, output_buf, pids, pid_count>>
history == <<written, clean>>
vars == <<entries, data, call, alive, broken, history>>

(* pos is the slot of a writer and the position of a reader; left, what a    *)
(* writer has still to store; text, what a reader of lab_07 has to say; shown*)
(* what a reader has got; again, that single_open shows everything once more.*)
(* lone is history: nobody else has done anything since the call began.      *)
NoText == <<Unset, FALSE>>
Idle == [at |-> "idle", pid |-> Unset, pos |-> 0, left |-> {}, text |-> NoText,
         shown |-> <<>>, again |-> FALSE, lone |-> TRUE]
Resting(u) == call[u].at \in {"idle", "done"}
Lives == file # None /\ at[file] # "out"

Init ==
    /\ at = [m \in Modules |-> "out"]
    /\ dir = None /\ file = None /\ links = {} /\ loads = 0
    /\ pid = Unset /\ output_buf = <<NoText, NoText>>
    /\ pids = [i \in 0 .. Size - 1 |-> Unset] /\ pid_count = 0
    /\ call = [u \in Users |-> Idle]
    /\ alive = Pids /\ broken = "no"
    /\ written = <<>> /\ clean = TRUE

----------------------------------------------------------------------------
(* Loading and unloading *)

Load(m, from, to) ==
    /\ at[m] = from
    /\ at' = [at EXCEPT ![m] = to]
    /\ UNCHANGED <<alive, broken>>

Mkdir(m) ==
    /\ loads < MaxLoads /\ loads' = loads + 1
    /\ dir = None /\ dir' = m
    /\ Load(m, "out", "dir")
    /\ pid' = Unset /\ output_buf' = <<NoText, NoText>>
    /\ pids' = [i \in 0 .. Size - 1 |-> Unset] /\ pid_count' = 0
    /\ written' = <<>> /\ clean' = TRUE
    /\ UNCHANGED <<file, links, call>>

Create(m) ==
    /\ Load(m, "dir", "file")
    /\ file' = m
    /\ UNCHANGED <<dir, links, loads, data, call, history>>

Symlink(m) ==
    /\ Load(m, "file", "in")
    /\ links' = links \cup {m}
    /\ UNCHANGED <<dir, file, loads, data, call, history>>

\* Fault: lab_07 returns at once, too.
InitReturns(m) ==
    /\ at[m] \in {"dir", "file"} /\ Load(m, at[m], "out")
    /\ UNCHANGED <<dir, file, links, loads, data, call, history>>

(* proc_create or proc_symlink fails.  lab_07 goes back through what it has  *)
(* made, the others just return.                                             *)
InitFails(m) ==
    /\ \/ m = "lab_07" /\ Load(m, "dir", "rmdir")
       \/ m = "lab_07" /\ Load(m, "file", "unlinked")
       \/ m \in Lists /\ at[m] \in {"dir", "file"} /\ Load(m, at[m], "out")
    /\ UNCHANGED <<dir, file, links, loads, data, call, history>>

Unlink(m) ==
    /\ Load(m, "in", "unlinked")
    /\ links' = links \ {m}
    /\ UNCHANGED <<dir, file, loads, data, call, history>>

(* Between two read calls of lab_08 a reader has the file open and no call   *)
(* in progress.                                                              *)
RemoveFile(m) ==
    /\ \A u \in Users : Resting(u) \/ (m = "lab_08" /\ call[u].at = "loop")
    /\ Load(m, "unlinked", "rmdir")
    /\ file' = None
    /\ call' = [u \in Users |-> Idle]
    /\ UNCHANGED <<dir, links, loads, data, history>>

Rmdir(m) ==
    /\ Load(m, "rmdir", "out")
    /\ dir' = None
    /\ UNCHANGED <<file, links, loads, data, call, history>>

module_init == \E m \in Modules : Mkdir(m) \/ Create(m) \/ Symlink(m) \/ InitFails(m)
module_exit == \E m \in Modules : Unlink(m) \/ RemoveFile(m) \/ Rmdir(m)

----------------------------------------------------------------------------
(* Calls on the file *)

Break(how) == broken' = how /\ UNCHANGED <<entries, data, call, alive, history>>

Begin(u, new) ==
    /\ Resting(u) /\ Lives
    /\ call' = [v \in Users |->
                  IF v = u THEN [new EXCEPT !.lone = \A w \in Users \ {u} : Resting(w)]
                  ELSE [call[v] EXCEPT !.lone = FALSE]]
    /\ UNCHANGED <<entries, alive, broken>>

Step(u, from, new) ==
    /\ call[u].at = from /\ Lives
    /\ call' = [call EXCEPT ![u] = new]
    /\ UNCHANGED <<entries, alive, broken>>

(* The file, or the code of a call, of a module that has gone without it. *)
Dangling ==
    /\ file # None /\ ~Lives
    /\ Break("oops")

(* A number that cannot be parsed leaves everything as it is. *)
WritePid(u, p) ==
    /\ file = "lab_07" /\ Len(written) < MaxWrites
    /\ Begin(u, [Idle EXCEPT !.at = "done"])
    /\ pid' = p
    /\ written' = Append(written, p)
    /\ UNCHANGED <<output_buf, pids, pid_count, clean>>

(* pids[pid_count++] = new_pid: a load and two stores, in no given order. *)
LoadCount(u, p) ==
    /\ file \in Lists /\ Len(written) < MaxWrites
    /\ Begin(u, [Idle EXCEPT !.at = "store", !.pid = p, !.pos = pid_count,
                             !.left = {"count", "pid"}])
    /\ written' = Append(written, p)
    /\ clean' = (clean /\ \A v \in Users : call[v].at # "store")
    /\ UNCHANGED data

Stored(u, what) ==
    LET left == call[u].left \ {what}
    IN  /\ what \in call[u].left
        /\ Step(u, "store", IF left = {} THEN [Idle EXCEPT !.at = "done"]
                            ELSE [call[u] EXCEPT !.left = left])
        /\ UNCHANGED <<pid, output_buf, history>>

StoreCount(u) ==
    /\ Stored(u, "count")
    /\ pid_count' = call[u].pos + 1
    /\ UNCHANGED pids

StorePid(u) ==
    /\ Stored(u, "pid")
    /\ call[u].pos < Size
    /\ pids' = [pids EXCEPT ![call[u].pos] = call[u].pid]
    /\ UNCHANGED pid_count

(* The count is never compared with the size.  The model ends where a place  *)
(* past the end is written or read: what is there is up to the linker.       *)
Overrun(u) ==
    /\ \/ call[u].at = "store" /\ "pid" \in call[u].left
       \/ call[u].at = "lookup"
    /\ call[u].pos >= Size
    /\ Break("overrun")

----------------------------------------------------------------------------
(* Readers of a list: seq_start and seq_next of lab_08, the loop of lab_09. *)

Open(u) ==
    /\ file \in Lists
    /\ Begin(u, [Idle EXCEPT !.at = "loop"])
    /\ UNCHANGED <<data, history>>

\* Fault: the position of the last read is counted again.
MoreOverAgain(u) ==
    /\ call[u].pos < pid_count
    /\ Step(u, "loop", [call[u] EXCEPT !.at = "lookup", !.pos = IF @ = 0 THEN 0 ELSE @ - 1])
    /\ UNCHANGED <<data, history>>

More(u) ==
    /\ call[u].pos < pid_count
    /\ Step(u, "loop", [call[u] EXCEPT !.at = "lookup"])
    /\ UNCHANGED <<data, history>>

NoMore(u) ==
    /\ call[u].pos >= pid_count
    /\ Step(u, "loop", [call[u] EXCEPT !.at = "done"])
    /\ UNCHANGED <<data, history>>

(* The text did not fit in the buffer, and the loop is run once more. *)
Repeat(u) ==
    /\ file = "lab_09" /\ ~call[u].again /\ call[u].pos >= pid_count
    /\ Step(u, "loop", [call[u] EXCEPT !.again = TRUE, !.pos = 0, !.shown = <<>>])
    /\ UNCHANGED <<data, history>>

Lookup(u) ==
    LET p == pids[call[u].pos]
    IN  /\ call[u].pos < Size
        /\ Step(u, "lookup", [call[u] EXCEPT !.at = "print", !.pid = p,
                              !.text = <<p, p \in alive>>])
        /\ UNCHANGED <<data, history>>

\* Fault: lab_08 forgets, as lab_09 does, that the task is not there.
ForgetsMissingTask == file \in Lists

MissingTaskFollowed == file = "lab_09"

Found(u) == call[u].text[2]
TaskFreed(u) == Found(u) /\ call[u].pid \notin alive

Show(u) ==
    /\ Found(u) \/ ~MissingTaskFollowed
    /\ Step(u, "print", [call[u] EXCEPT !.at = "loop", !.pos = @ + 1, !.text = NoText,
                                        !.shown = Append(@, call[u].text)])
    /\ UNCHANGED <<data, history>>

ShowFaults(u) ==
    /\ call[u].at = "print"
    /\ TaskFreed(u) \/ (~Found(u) /\ MissingTaskFollowed)
    /\ Break("oops")

----------------------------------------------------------------------------
(* proc_read of lab_07: it reads pid up to three times. *)

Read07(u) ==
    /\ file = "lab_07"
    /\ Begin(u, IF pid = Unset THEN [Idle EXCEPT !.at = "first"]
                ELSE [Idle EXCEPT !.at = "lookup07"])
    /\ UNCHANGED <<data, history>>

Lookup07(u) ==
    /\ Step(u, "lookup07", [call[u] EXCEPT !.at = "fields", !.pid = pid,
                                            !.text = <<pid, pid \in alive>>])
    /\ UNCHANGED <<data, history>>

Fields07(u) ==
    /\ Step(u, "fields", [call[u] EXCEPT !.at = "first",
                          !.text = IF Found(u) THEN @ ELSE <<pid, FALSE>>])
    /\ UNCHANGED <<data, history>>

FieldsFault07(u) == call[u].at = "fields" /\ TaskFreed(u) /\ Break("oops")

\* Fault: the first half of the text is left as it was.
FormatHalf(u, half, from, to) ==
    /\ Step(u, from, [call[u] EXCEPT !.at = to])
    /\ output_buf' = IF half = 2 \/ output_buf[1] = NoText
                     THEN [output_buf EXCEPT ![half] = call[u].text] ELSE output_buf
    /\ UNCHANGED <<pid, pids, pid_count, history>>

Format(u, half, from, to) ==
    /\ Step(u, from, [call[u] EXCEPT !.at = to])
    /\ output_buf' = [output_buf EXCEPT ![half] = call[u].text]
    /\ UNCHANGED <<pid, pids, pid_count, history>>

Copy07(u) ==
    /\ Step(u, "copy", [call[u] EXCEPT !.at = "done", !.text = NoText, !.shown = output_buf])
    /\ UNCHANGED <<data, history>>

Reader07(u) ==
    \/ Read07(u) \/ Lookup07(u) \/ Fields07(u) \/ FieldsFault07(u)
    \/ Format(u, 1, "first", "second") \/ Format(u, 2, "second", "copy")
    \/ Copy07(u)
----------------------------------------------------------------------------
(* A process ends and its task is freed. *)
Die(p) ==
    /\ p \in alive
    /\ alive' = alive \ {p}
    /\ call' = [u \in Users |-> [call[u] EXCEPT !.lone = FALSE]]
    /\ UNCHANGED <<entries, data, broken, history>>

User(u) ==
    \/ \E p \in Pids : WritePid(u, p) \/ LoadCount(u, p)
    \/ StoreCount(u) \/ StorePid(u) \/ Overrun(u)
    \/ Open(u) \/ More(u) \/ NoMore(u) \/ Repeat(u)
    \/ Lookup(u) \/ Show(u) \/ ShowFaults(u)
    \/ Reader07(u)

Next ==
    /\ broken = "no"
    /\ \/ module_init \/ module_exit \/ Dangling
       \/ \E u \in Users : User(u)
       \/ \E p \in Pids : Die(p)

Spec == Init /\ [][Next]_vars
----------------------------------------------------------------------------
(* The three modules want one directory, so one at a time is loaded, and    *)
(* what a module has made goes with it; but for lab_08 and lab_09, whose    *)
(* init leaves the directory, or a file without code behind it, when a later*)
(* step fails: from then on no module loads at all.                         *)
EntriesOwned ==
    /\ \A m \in Modules : at[m] # "out" => dir = m
    /\ file # None => dir = file
    /\ \A m \in links : at[m] = "in" /\ file = m
    /\ dir # None /\ at[dir] = "out" => dir \in Lists /\ \A m \in Modules : at[m] = "out"

(* A reader that is not disturbed by another call or by the end of a process*)
(* is told the truth: of every number written, in that order, whether there *)
(* is such a process; of the last one written, in lab_07.  It rests on the  *)
(* writes, of which no two may have overlapped.                             *)
Truth(p) == <<p, p \in alive>>

ExactWhenUndisturbed ==
    \A u \in Users :
        call[u].at = "done" /\ call[u].lone /\ call[u].shown # <<>> /\ clean /\ broken = "no" =>
            IF file = "lab_07"
            THEN LET last == IF written = <<>> THEN Unset ELSE written[Len(written)]
                 IN  call[u].shown = <<Truth(last), Truth(last)>>
            ELSE call[u].shown = [k \in DOMAIN written |-> Truth(written[k])]

(* Writers and ends of processes do not make a reader of a list skip or     *)
(* repeat a number, however many read calls it takes; it may only come to a *)
(* place that is counted before its number is stored.                       *)
EachOnceInOrder ==
    clean /\ Lives /\ file \in Lists =>
        \A u \in Users : \A k \in DOMAIN call[u].shown :
            /\ k <= Len(written)
            /\ call[u].shown[k][1] \in {written[k], Unset}

(* As long as every process lives and no init has failed half way the       *)
(* modules crash in one case: lab_09 meets a place that is counted before   *)
(* its number is stored.  A list is overrun by one write too many.          *)
CrashHasCause ==
    /\ broken = "oops" =>
         \/ alive # Pids
         \/ file \in Lists /\ at[file] = "out"
         \/ file = "lab_09" /\ \E u \in Users : call[u].at = "print" /\ call[u].pid = Unset
    /\ broken = "overrun" => Len(written) > Size
=============================================================================
