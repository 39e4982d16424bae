# Verification of the programs of bmstu-os-sem6

The repository holds the laboratory works of a course on operating systems:
independent programs and kernel modules, each a few hundred lines of C. This
directory models those of them in which something really happens at the same
time as something else: servers with several processes or threads on shared
data, kernel modules between an interrupt and its bottom half or between a
reader and a writer of /proc, datagrams, streams on one file. It checks the
models with TLC on small instances, and proves every safety property that is
checked, refinements included, for all instances with TLAPS.

Contents: 1 inventory, 2 modules and how they correspond to the code, 3 runs,
4 fairness, deadlock and bounds, 5 proofs, 6 what the models show of the code,
7 what is not modelled and what could come next.

## 1. Inventory

| Component | Source | State it keeps | Operations | Model |
|---|---|---|---|---|
| fork server of the shared array | `lab_02/fork_serv.c`, `serv.h` | System V semaphore set, array in a shared segment, descriptors of parent and children, `flag` | accept, fork, READ, WRITE, SIGINT | `ForkServ` |
| thread server | `lab_02/thread.c` | the same semaphores, a global array, one descriptor table, `flag` | accept, pthread_create, READ, WRITE, SIGINT, exit/SIGPIPE of the whole process | `ThreadServ` |
| thread server with a counter | `lab_02/thr_serv.c` | the same and `array_counter` | the same; ends by itself after the last letter | `ThrServ` |
| client of these | `lab_02/clnt.c` | its copy of the array | READ, choose a free cell, WRITE, wait | `Clnt` |
| epoll server and clients | `lab_022/server.c`, `client.c` | `buf`, the interest list, the events of a batch, alarm | epoll_wait, accept, request_type, reader, writer; client loop | `EpollServ` |
| keyboard module, two works | `lab_11/workq.c`, `lab_ipq/workq.c` | two works with a scancode each, modifiers, `key_code`, `key_name` | interrupt_handler, work_fun1/2, init, exit | `KeyWork` |
| keyboard module, tasklet | `lab_ipq/tasklet.c`, `lab_10/tasklet.c` | tasklet with one data field (lab_10: the port itself), modifiers, `t_key_code`, `t_key_name` | interrupt_handler, my_tasklet_fun, init, exit | `KeyTasklet` |
| tasks in /proc | `lab_07`, `lab_08`, `lab_09` (`my_md.c`) | `pid` and `output_buf`; `pids` and `pid_count`; the entries in /proc | write of a number, read (one buffer, seq_file, single_open), init, exit | `ProcTask` |
| virtual file system with a slab | `lab_13/my_md.c` | registration, `line`, `cache` | init with rollback, exit; mount, unmount | `SlabFs` |
| file tree walk | `lab_03/dir.c` | current directory, `g_depth`, counters | dopath | `Ftw` |
| buffered and unbuffered files | `lab_12/src`, 15 programs | stdio buffers, file offsets | read, write, close | `Streams` |
| datagram calculator | `lab_01/part_3` | one socket, an address buffer and its length, the last result | request, reply, SIGINT | `Dgram` |
| datagram time server | `lab_01/part_2` | – | receive and print; alarm | no |
| socketpair demonstrations | `lab_01/part_1` | – | one fixed exchange | no |
| exported symbols | `lab_06` | – | print strings | no |
| /proc printer, task printer | `lab_04`, `lab_05` | – | read and format | no |

How they interact: the clients of lab_02 talk to any of its three servers over
TCP; the children or threads of a server share the array and the semaphores; a
child stops its parent with SIGINT; `lab_022/client.c` is the only client of
`lab_022/server.c`. In the keyboard modules the interrupt handler hands a
scancode to deferred work through one field per work or tasklet, and user
processes read the result in /proc. The modules of lab_07, lab_08 and lab_09
want the same name, `/proc/sdir`, and so can meet there. Otherwise the labs do
not depend on one another.

What is hard in them, and so what the properties are about (PROJECT.json lists
the hazards with their lines):

* readers and writers over several processes, where a cell is tested and marked
  in separate accesses, and where a process may die between the two;
* descriptors: `fork_serv.c` never closes them in the parent, `thr_serv.c`
  closes one and goes on using its number, `thread.c` hands them to detached
  threads;
* signals that come between the test of a flag and the call that sleeps;
* the end of a process under threads that stand anywhere;
* a client that chooses from a copy which others overtake, over a connection
  without frames;
* a conversation that must not be divided although events of many clients come
  in one batch, with reads that block and an alarm that ends the server;
* a single slot per bottom half that a second interrupt overwrites; an interrupt
  that is requested before, and freed after, what it uses;
* initialisation in steps, each of which may fail, of something that others can
  already use;
* lists and buffers in the kernel without a lock, read over several calls while
  they are written and while the processes they name end;
* a walk by relative names through a tree that others change;
* two buffers over one offset, and two offsets in one file;
* variables that keep the value of an earlier request.

## 2. Modules

    SysVSem -- Serv -- ForkServ -- ForkServProofs
                    |          \-- Clnt -- ForkServProofs too
                    |- ThreadServ -- ThreadServProofs
                    \- ThrServ ---- ThrServProofs
        SharedArray: abstract specification of the three servers
    Scancodes -- KeyWork ----- KeyWorkProofs
              \- KeyTasklet -- KeyTaskletProofs
    ProcTask -- ProcTaskProofs
    EpollServ -- EpollServProofs
    SlabFs, Ftw, Dgram, Streams -- SmallProofs

Each checked module `M` has a module `MCM` and a file `MCM.cfg`. `SmallProofs` extends
four modules that have nothing to do with each other, which is why the initial
states, steps and variables of three of them carry a prefix (`FtwNext`,
`dgramVars`, `StreamsSpec`).

### Shared array of lab_02: the servers

`SysVSem` is semop(2) as the servers use it: an array of operations on a set
blocks (`Blocks`) or is applied as a whole (`After`). It is external, and
written from the uses in the servers (no SEM_UNDO, no IPC_NOWAIT). `Serv` has
what the three files share: the numbers of `serv.h`, the semaphore numbers, and
the arrays `start_read`, `end_read`, `end_write`. Each server keeps its own
`start_write`, because `thread.c` orders it differently. Letters,
the busy mark and NUL are the codes of their characters, so that no letter is
also a response code.

`ForkServ`: one process per connection, named after it.

| Variable | Code |
|---|---|
| `sem` | the set of `semget` |
| `str` | the array in the segment |
| `pc[c]` | where the child of connection `c` is in `rw_func`, `reader`, `writer` |
| `arr`, `index`, `rc`, `result` | the locals of `reader` and `writer` |
| `mpc`, `flag`, `sigint` | the accept loop of `main`, its flag, a pending SIGINT |
| `intr` | children with a pending SIGINT of the terminal |
| `holders[c]` | which processes hold a descriptor of connection `c` |
| `died`, `taken`, `got`, `late` | auxiliary: they record what happened and guard nothing (`died` counts `MaxKills`) |

Actions follow the code: one semop, one system call on a socket or one access to
shared memory is one action (`StartRead`, `Copy` per cell, `EndRead`,
`SendArray`; `ReadIndex`, `StartWrite`, `Refuse`/`TestFree`, `Take`, `EndWrite`,
`SendCode`, `SendLetter`, `StopServer`); steps on private data are folded into
the action before. `Gone` is the end of a process, which closes all its
descriptors. Clients are arbitrary: at each read they send any request and any
index in or next to the range, or hang up. `Kill` is SIGKILL of a child
anywhere, `CtrlC` a SIGINT of the terminal to the whole group, after which a
sleeping semop fails (`SemInterrupted`) and a sleeping accept fails
(`AcceptInterrupted`).

`ThreadServ` has the same requests in threads: one descriptor table `table`, and
`fd[c]`, the number each thread holds in its own variable. The lowest free
number is given out. `ProcessExit` is the end of all threads at once: return
from `main`, `exit` in a failed write, SIGPIPE.

`ThrServ` adds `array_counter`, increased in a step of its own after the cell is
marked (`Count`); `reader`'s two writes; the path on which the thread closes its
socket, signals its own process and goes on in the loop with the closed number
(`CloseFull`, `KillSelf`, then `ReadType` on whatever `table[fd[c]]` is by
then); `strays` records the connections that were sent an answer of another
thread's request.

`SharedArray` is what a client is promised: READ gives the array of one instant,
WRITE takes the letter of a free cell or is refused, in one step. The three
servers implement it (`Linearizable`, an instance of `SharedArray` with `Phase`
and `Pending` as refinement mapping): a read takes effect where its copy is
complete and the semaphore is given back, a write where the cell is marked or
found busy or out of range. The end of a process maps to `Leave`, for all its
clients if it is the process of all.

### The client of lab_02

`Clnt` EXTENDS `ForkServ` and gives some connections a client that is
`clnt.c`. A connection is one turn of its loop, which opens a socket of its own:
`Connect` sends READ, `GetArray` takes the copy into `seen`, `Choose` (after the
sleep) finds the first free cell, or none, and sends WRITE and `freeindex` all
the same, `GetCode` and `GetLetter` take the answer. `up` and `down` are the
bytes on the way. The server's actions are those of `ForkServ`, tied to these
queues: `ChildReads` reads what is there or the end of file, `ChildRuns` writes
`Answer`. `Mixes` says which connections are opened by `clnt.c`; the others have
the arbitrary clients of `ForkServ`. `Cut` is the end of file at the client,
which comes when nobody holds the connection any more; a connection not yet
accepted is reset when the parent ends, since every child closes the listening
socket as soon as it runs (`Listening`), and a client that connects after that is
refused.

### Keyboard modules

`Scancodes` has the codes of the modifiers and the table size. `KeyWork` models
both `workq.c` from `insmod` to `rmmod`; `version` says which is loaded.
`Module` steps are those of `my_init` (`RequestIrq`, `AllocWorkqueue`,
`Kmalloc`, `InitWork`, `ProcCreate`, each with its failure and the rollback that
belongs to it) and of `my_exit`; `interrupt_handler` is two stores and two
`queue_work`; the two work functions are the read of the code, the switch on the
modifiers (the toggle of CapsLock is a read and a write), the sleep of the
second one, and what publishes a key: the store of the code (`SetCode`), the
tests of `should_use_uppercase`, one access each (`TestShift`, `TestCaps`), and
the store of the name in the case that came out (`StoreName`). The other work may
run between any two of these; `late` is history and says that it changed the case
before the name was last stored. The handler interrupts
one CPU; in `lab_11` queues, workers and running works are per CPU, as a bound
workqueue with `max_active = 1` has them, in `lab_ipq` there is one worker for an
unbound one, which stays at the CPU called `Home` in the model. `oops` stands for
a use of memory that is not there yet or no more: the behaviour ends there.
`Typed` gives the codes that each interrupt in turn may bring.

`KeyTasklet` models both `tasklet.c` the same way, with the SCHED bit and
tasklet_kill. In version `lab_ipq` the handler stores the code in `data`; in
`lab_10` it only schedules, and `data` is the byte in the port, which the
tasklet reads when it runs. `typed` and `lost` are history: what the codes lead
to, one by one, and whether one was overwritten. The kernel's side of both
modules is external and stated in their heads.

### Tasks in /proc

`ProcTask` has the three modules of lab_07, lab_08 and lab_09 beside each other,
because they make the same directory. `at[m]` is how far module `m` is loaded,
`dir`, `file` and `links` what is in /proc and whose it is. A call on the file is a
record `call[u]` per user. `pids[pid_count++] = new_pid` is a load and two stores
in either order (`LoadCount`, `StoreCount`, `StorePid`). A reader of a list is at a
position, looks up the task (`Lookup`) and prints it (`Show`); lab_09 may do it
all again in a larger buffer (`Repeat`); lab_08 may be between two read calls,
when the file can be removed under it. lab_07 looks up `pid`, reads it again for
the fields, formats into `output_buf` in two halves, and copies it. `Die` is the end
of a process, whose task may then be freed while it is printed. `broken`
ends a behaviour: `"oops"`, or `"overrun"` where a place past the end of the list
would be used. `written` and `clean` are history.

### epoll server

`EpollServ` has both programs of lab_022. The server is one thread: `spc`, the
connection in hand `cur`, the request of it `request`, and the events `batch`
that the last epoll_wait gave. A connection has a server's end (`link`) and
bytes on the way (`up`, `down`); types and indices are the same four bytes, so
that a misplaced index would be read as a type. The client's loop is followed
step by step, with what it does after an end of file. Faults are clients that
are killed, and an accept or epoll_ctl that fails. The loop of 10000 batches may
end after any batch (`LastBatch`): the number is abstracted, which adds
behaviours and takes none away.

### File system with a slab, file tree walk

`SlabFs` is `lab_13/my_md.c` from `insmod` to the end of the module: `pc` walks
through `myfs_init`, where each of `register_filesystem`, `kmalloc`,
`kmem_cache_create` and `kmem_cache_alloc` (at each index `i`) may fail and takes
its own part of the way back, and through `myfs_exit`, which goes the same
way back. `line` is the array of pointers, `used` the objects that are out of
the cache, `mnt[m]` where a mount stands between finding the type and giving the
module back. The counter of the slab constructor and the contents of inodes are
left out: nothing else depends on them.

`Ftw` is `lab_03/dir.c`: a call of `dopath` that has come to its loop is a frame
of `stack`; `cwd` is the current directory of the process, `arg` the name in
hand, `ret` the result on its way up. A name is found (`Found`) if the file is in
the current directory. Other programs move and remove files (`Move`, `Unlink`, at
most `MaxChanges`); readdir may or may not give what they moved in. Every
system call may also fail without a change of the tree; a failed readdir
(`ReaddirFails`) is taken for the end of the directory, as the code takes it.
`count` stands for the counters by type, kept per file, and `shown` for the
indentation printed; `denied` and `broken` record the directories in which
opendir and readdir have failed.

### Streams, datagrams

`Streams` has the fifteen programs of `lab_12/src` as records: they read or write,
share a description or not, append or not, buffer or not, and run their two
loops by turns, in threads, or in detached threads. `pos` is the offset of a
description, `buf` what a stream has read or not yet written; `Fill` is one
read(2), `WriteOut` one write(2). `testCIO_thread1.c` returns from `main` under its
threads (`MainReturns`): what they show from there (`Stray`) is junk of the stack.
`file_info` asks ftell about a stream that is closed, which may crash.

`Dgram` is the server and the clients of `lab_01/part_3`. Names are sequences of
characters, because the code mixes them up by their length: `client_addr` is
the buffer of recvfrom, `client_len` its length, which the server sets once and
the kernel overwrites with each sender's (`Fits`); `Addressed` reads back the
name that sendto then uses. `result` is the request whose result the
variable of that name holds, which a division by zero leaves alone. Local
datagrams are neither lost nor reordered. `grew`, `zeros` are history.

## 3. Runs

| Run | Instance | Shows |
|---|---|---|
| `fork_safety` | 3 connections, 2 descriptors, 2 cells, a terminal, 1 kill; connections interchangeable | `SemaphoresGuard` (a writer is alone, the semaphores count who is inside, dead children too), `CellsConsistent` (no torn read, no letter twice, none lost on its way), `LifetimeBound` (the server lives as long as its descriptors last), `AtMostOneAfterSignal`, `Linearizable` |
| `fork_clients` | 2 connections, 2 cells; both of `clnt.c`, or one | `LetterAsSeen` (the letter a client gets is the one it saw in its old copy, code and letter are never confused), `StoppedOnlyWhenEmpty`, `ClientsServed` (each turn ends), `StopHeeded` |
| `thread_server` | 2 connections, 2 numbers, 1 cell | `LettersGuarded`, `DescriptorsOwned`, `Linearizable`, `LateIsLast` for `thread.c` |
| `thr_server` | 2 connections, 2 numbers, 2 cells | `CounterExact`, `AnswersReachTheirClients` (also through a number that is closed and given out again), `Linearizable`, `FullStops` for `thr_serv.c` |
| `workq` | both versions, 2 CPUs, 3 interrupts of 7 codes | `LastCodeTakesEffect`, `OopsOnlyInWindows`, `WorkIsDone` (the last code is read, rmmod ends) |
| `tasklet` | both versions, 2 CPUs, 3 interrupts of 9 codes | `ExactWhenNoneLost`, `OopsOnlyInWindows`, `LatestDataRead`, `Unloads` |
| `epoll` | 2 clients, 3 cells, batches of up to 2 events, 1 fault | `InStep`, `ConversationAtomic`, `NoInnocentStop`, `ClientsServed` |
| `slab_fs` | array of 3, 4 objects, 2 mounts | `GivenBack` (whatever step fails), `MountsHoldModule` (which names a failed init as the one way to a mount without a module, and does not exclude it) |
| `ftw` | 4 directories, 2 files, 2 changes by others | `Placed`, `Complete` |
| `streams` | all 15 programs, 6 letters, buffers of 4, files that were there or not | `ReadOnce` (no letter is lost or doubled between two buffers on one offset), `FileAtTheEnd` (what appending keeps and what overwriting leaves) |
| `proc_task` | 2 users, 2 processes, lists of 2, 3 writes, 2 loads in any order | `EntriesOwned`, `ExactWhenUndisturbed`, `EachOnceInOrder`, `CrashHasCause` |
| `dgram` | 3 clients, one with a name that begins like a longer one; 4 requests | `OwnAnswers` and `Answered`: who gets which answer, and the two conditions under which not |

Properties that the code upholds only on a condition have that condition in
their statement (`grew`, `zeros`, `clean`, `lone`, `lost`, `late`, `broken`, the windows of `oops`),
and the models do reach the states outside it. `TypeOK` of `KeyWork` and of
`EpollServ` documents the ranges of their variables and is proved (`Types`).

Each checked property has a mutant: an operator whose comment begins with
`Fault:` or `Variant:` next to the definition it alters (a semop that is
forgotten, a swapped order, a test that is off by one). Replaced in the run, it
must break the property. No specification uses these operators. For
`LifetimeBound` it is the variant in which the parent does close its descriptor:
the property describes a restriction of the code.

## 4. Fairness, deadlock, bounds

Fairness. A process or thread that does not wait for its client runs: the
scheduler gives it the CPU. It is strong for the steps of lab_02 because of
semop: the kernel keeps the sleepers of a set in a queue and retries them,
oldest first, at every change, so that one which could go on again and again
does. It is strong for tasklet_kill, which polls the SCHED bit, and for the
events of epoll, which keeps ready descriptors in a queue. Everything else is
weak: handlers, softirqs, kworkers and rmmod go on (unless the kernel has
crashed), a signal that is pending is delivered, `main` goes on from an
accepted connection, the clients of lab_022 and of `Clnt` and the datagram server
and clients are processes that run; in `Clnt` accept returns when a client of
`clnt.c` waits, or fails when no descriptor is left. Nothing is assumed of
arbitrary clients of lab_02, of the terminal, of failures, of kills, of alarms
or of the keyboard.

`ClientsServed` of `Clnt` has a premise: all connections are those of `clnt.c`, and
no child is killed. Without the first readers may hold a writer off for ever;
without the second a client may wait as long as the parent lives, for the parent
and later children keep its connection open.

Deadlock. `CHECK_DEADLOCK FALSE` everywhere, because all these systems may stop:
a server ends and its clients leave; a module is unloaded or crashed; a program
of lab_03 or lab_12 ends; in the models all connections may have been used and
all interrupts, requests or loads spent. What must not block is stated as
liveness, and in `EpollServ` by `InStep`.

Bounds and why they are enough.

* Connections are the number ever opened, since a child or thread serves one and
  ends. Two suffice for two writers at one cell, for a writer against a reader,
  for a number closed by one and used by another, for one connection before and
  one after a signal; three with two descriptors are needed for accept to fail.
  For the safety of the three servers the theorems of section 5 hold for any
  number of them.
* Cells: two make a torn copy and an order of copying possible, and let the
  counter of `ThrServ` pass through a value below its end. Indices go one beyond
  either end.
* `MaxKills = 1`: one child killed inside is enough to leave the semaphores
  taken; the theorems hold for any number. `fork_clients` has none, by the premise
  of `ClientsServed`.
* Three interrupts: a work or tasklet running with the first code, queued with
  the second, and overwritten by the third. `MCKeyWork` brings a press of
  Shift or of a letter, or the release of an arrow or of a key beyond the table
  first, then the release of Shift or a press of CapsLock, then the release of a
  letter, which can be stored in a case that is late; `MCKeyTasklet` any of its nine codes each time.
* `EpollServ`: two clients suffice to divide a conversation; three cells let the
  array fill up and turn over; one fault hits every point of a conversation.
* `SlabFs`: an allocation fails at the first, a middle and the last index of
  three; the theorems hold for every size and any number of mounts.
* `Ftw`: the tree has a file beside directories, an empty directory, and one
  three levels down with a file, so that a return from a deeper level is
  followed by a sibling; two changes move a directory away and back, or a
  directory and what is in it. The theorems hold for every finite tree and any
  number of changes.
* `Streams`: six letters and buffers of four give a full buffer, one filled in
  part, and three letters to each writer. `MaxStrays` bounds what detached threads
  still show, which is junk in any number. A file that was there before has one
  letter or as many as will be written. The theorems hold for any even number of
  letters and any buffer.
* `ProcTask`: one user's writes against another's reads, three writes to a list of
  two places, two loads so that a module meets what another one left. The
  theorems hold for any number of each.
* `Dgram`: three names, so that a short one is followed by a longer one of which the
  rest in the buffer completes another; four requests let one answer be taken for
  another's twice. `Stack` is what an uninitialised buffer may hold: zero, or a
  character of a name.

## 5. Proofs

Everything below is proved for all values of the constants under the
assumption of the module, which is all that is assumed: any number of
connections, threads, users, interrupts, CPUs, descriptors, kills, and any array
size from 1 to 26 in lab_02. `TreeAssumption` of `Ftw` says that the files are
finitely many and form a tree under `Root`; `NamesAssumption` of `Dgram` that a
name is a string without `'\0'` in it that fits into `sa_data`, as the digits of
a pid do; `LettersAssumption` of `Streams` that the letters can be shared out evenly and
that a buffer holds something; the constants of `KeyWork` and `KeyTasklet` give bytes for scancodes and a CPU.

| Theorem | Statement | By |
|---|---|---|
| *ForkServProofs* | | |
| `TypeCorrect` | `TypeOK` | inductive as it stands |
| `ArrayGuarded` | `SemaphoresGuard` | `Exclusion`: the semaphore counts and exclusion together, with types and with `DeadStay` (a killed child stays killed, and the place where it died is on record). Neither is inductive alone: a writer enters because the semaphores are zero, which says that nobody is inside only if they count |
| `CellsAgree` | `CellsConsistent` | `CellsInv`: with `LettersInPlace` (a cell holds its letter or the mark) and `Frames` (what each program counter knows of its locals); uses `Exclusion`, since what a writer has tested and what a reader has copied stays true only while no other writer is inside |
| `LifetimeIsBounded` | `LifetimeBound` | `Descriptors`: as long as the parent lives it holds every connection it ever accepted |
| `OneAfterSignal` | `AtMostOneAfterSignal` | `LateInv`: nothing is late while the flag is set or the parent is in accept |
| `Refinement` | `Linearizable` | initial states map to `AInit`; each action maps to one of `SharedArray` or to a stutter, given both invariants |
| `ServerAmongClients` | `ClntSpec => Spec` | each step of the composition is a step of `ForkServ` or leaves its variables alone |
| `ArrayAmongClients`, `LinearAmongClients` | what is proved of `ForkServ` holds beside the clients | the former |
| `LettersAsSeen` | `LetterAsSeen` | `ClntInv`: for each place of a turn of `clnt.c` what is on its way, where the child can be then, and that the index it works on is the one the client chose; a client that will give up has seen no free cell, and a cell once taken stays taken |
| `StopMeansEmpty` | `StoppedOnlyWhenEmpty` | the same |
| *ThreadServProofs* | | |
| `EachOwnsItsNumber` | `DescriptorsOwned` | inductive together with the types (`Owned`) |
| `EveryLetterGuarded` | `LettersGuarded` | `Guarded` (counts and exclusion, with this file's order of `start_write`), then `LettersInv`, for which a letter's way from the cell to the client is followed by `taken`, `got` and the locals |
| `ThreadsRefine` | `Linearizable` | `AnswersInv` (a reader's copy agrees with the array while it is inside); the end of the process maps to the `Leave` of every client at once |
| *ThrServProofs* | | |
| `CounterIsExact` | `CounterExact` | `CounterInv`: with `DoneIsFull`, that a thread takes the array for used up only when it is; needs `OneWriter` inside |
| `AnswersComeHome` | `AnswersReachTheirClients` | `Numbers`: until the array is full every thread has its own number, whoever carries a letter keeps its own to the end, and until the signal a number leads to its own client; with `LettersInv`, `OneWriter` and `CounterInv` |
| `CountersRefine` | `Linearizable` | `ReadersApart` and `AnswersInv`, as in `ThreadServ` |
| *SmallProofs* | | |
| `AllGivenBack` | `GivenBack` | `MemInv`: at each place of init and exit, what is allocated; the elements of `line` from one index to another are all different and are exactly the objects that are out |
| `MountsAreSafe` | `MountsHoldModule` | `HoldInv`: rmmod begins only without users, and from there on no mount gets hold of the module unless init has failed |
| `WalkIsPlaced` | `Placed` | inductive with the types (`PlacedInv`): every step pushes, pops or keeps the stack together with the current directory and `g_depth` |
| `WalkIsComplete` | `Complete` | `CountInv`: the former and, while nobody changes the tree, what is known of the file in hand (`InHand`), of the directories being read (`Reading`: of the files in them, those that readdir has given are counted and nothing else is) and of all others (`Counted`: nothing is left out below a directory that was opened, read to its end and left) |
| `OwnAnswersOnly` | `OwnAnswers` | `AnswerInv`: while no name has been longer than the one before it, what is in the buffer is the sender's name and zeros (`BufferInv`); each client has one request under way, in the queue, in the server's hands, or answered (`TurnInv`) |
| `LettersReadOnce` | `ReadOnce` | `Reads`: what was shown and lies in the buffers, counted letter by letter, is what the offsets have passed (`AllThere`); what a stream has in its buffer comes after all it has shown, and it ends with the file (`InOrder`) |
| `FilesAsLeft` | `FileAtTheEnd` | `Writes`: without buffers, by turns or in threads, each place of the file is old or has the letter that one of the two has written there (`Directly`); with them, a stream holds all it was given until it is closed, and the file has the letters of those that have been (`NoneClosed`, `FirstClosed`, `AllClosed`) |
| *ProcTaskProofs* | | |
| `EntriesAreOwned` | `EntriesOwned` | inductive with the places of the modules (`EntryInv`) |
| `CrashesHaveCause` | `CrashHasCause` | `CallInv`: what a call at each place knows of the task it has looked up, of the number of writes and of the place it writes |
| `ReadersSeeEachOnce` | `EachOnceInOrder` | `OrderInv`: as long as writes do not overlap, the list is what was written (`NumbersInOrder`), one writer at most is between its two stores (`OneWriter`), and a reader has shown exactly the numbers up to its position (`Told`) |
| `UndisturbedReaderIsRight` | `ExactWhenUndisturbed` | `ReadInv` and `ExactInv`: a reader who is undisturbed is the only one under way (`Alone`), `pid` or the list is what was written, and each place of his call has told of it as much as the place says; other modules' reads, writes and ends of processes end the condition and not the agreement |
| *KeyTaskletProofs* | | |
| `StrayOnlyInWindows` | `OopsOnlyInWindows` | `WindowInv`: what the place of init and exit knows of the pointer (`PlaceKnows`), and what the handler and a scheduled tasklet know (`PointersKnow`) |
| `TypedIsShown` | `ExactWhenNoneLost` | `ShownInv`: where a code is on its way, in `data` or in the running call (`OnItsWay`), and that while none is lost these codes lead from what is shown to what was typed (`Expected`); what is shown has its own name (`Shows`) |
| *KeyWorkProofs* | | |
| `Types` | `TypeOK` | inductive with what a kworker has at each place (`RunInv`) |
| `StrayPointersInWindows` | `OopsOnlyInWindows` | `WindowInv`: what each place of init, rollback and exit knows of the interrupt, the queue and the two works (`PlaceInv`) |
| `LastScancodeWins` | `LastCodeTakesEffect` | `LastInv`: a work is queued at one place at most, however many CPUs have queues (`OnePlace`); both works hold the byte of the handler when it queues them, and the same byte when it is over (`StoresInv`); a kworker that still acts on an older code has its work due again, and when no work is due the last code has been applied or is in some kworker's hands (`EffectInv`); a name once stored is in the case that the modifiers give or was `late` (`CaseIsRight`), and with one worker at a time no modifier changes between the tests and the store (`CaseInv`) |
| *EpollServProofs* | | |
| `NobodyWaitsInVain` | `InStep` | `ConvInv`: for each place of the server in a conversation, what its client has sent and what it waits for (`Stage`); every other open or queued connection has said READ at most (`Linked`); the batch holds open connections other than the one in hand, and the listening socket only if somebody waits (`AtServer`, `Queue`) |
| `ConversationUndivided` | `ConversationAtomic` | the same: the index on the way is the first free one of the array as it still is |
| `OnlyTheKilledStopIt` | `NoInnocentStop` | the same: a client leaves after it has got all its answers |

The steps are laid out by action. Facts on the semop arrays are proved once per
server from `SysVSem` (`SemopFacts`: when each of the four may pass, and what the
set is after it; `start_write` has its own order in `thread.c`), and
`LetterFacts` says that letters, the mark and NUL are different. In
`ThrServProofs` the lemma `Steps` sorts the actions by what they do to numbers and
letters, so that each invariant is proved once per sort.

Two of these proofs reason about what looks like induction over data and is not.
`Complete` compares the walk with `Above`, a recursive function over the tree: the
lemmas `BeyondStep` and `AboveStep` show that the sets it denotes exist and satisfy
its equation (what is above a file is what lies in every set that contains its
directory and is closed under taking directories), and from there the invariant
relates each file to its own directory only. `ReadOnce` counts letters in sequences
that are cut and joined: `CountConcat`, `CountTail` and `CountChunk` say what the
cutting and joining does to a count, from bijections between the sets of places.

What stays with TLC is liveness, which with fairness and ENABLED is out of reach of
the proof system: `ClientsServed` of `Clnt` and of `EpollServ`, `StopHeeded`,
`LateIsLast`, `FullStops`, `WorkIsDone`, `LatestDataRead`, `Unloads`, `Answered`.

## 6. What the models show of the code

Where a document of the repository says otherwise:

* `lab_ipq/README.md:30` asks that the entry in /proc show the last character. The
  tasklet has one data field (`lab_ipq/tasklet.c:102`); a release that is followed by
  another scancode before the tasklet runs is never shown. What does hold is
  `LatestDataRead`, and `ExactWhenNoneLost` when nothing was overwritten.

Behaviour that no document denies, and that the models have:

* In lab_02 the queue semaphores are never seen raised, so readers are
  preferred. The parent of `fork_serv.c` runs out of descriptors, and a client
  sees no end of file while the parent or a later child keeps its connection. A
  child killed inside stops all writers for good. In both threaded servers a
  client that goes away at the wrong moment ends the process.
* `thr_serv.c` sends a code before the array (line 78), which `clnt.c` (line 63)
  takes for the beginning of the array: the two do not fit each other.
* The epoll server ends for everybody when one client is killed or slow.
* Both works of `lab_11/workq.c` run for every interrupt and both toggle
  `caps_lock_active` (lines 114 and 167): one press of CapsLock toggles it twice.
* The works of `lab_11/workq.c` test the modifiers and store the name in separate
  accesses (lines 131 to 138 and 191 to 198). With two CPUs one of them may be
  overtaken in between by the other, which toggles CapsLock or releases Shift, and
  then store a name in the old case, which stays in /proc when all is at rest.
  `LastCodeTakesEffect` says that nothing else of the last code can go wrong, and
  that this cannot happen with one CPU or with the unbound queue of `lab_ipq`.
* All keyboard modules can be hit by an interrupt while they load and while they
  unload; `OopsOnlyInWindows` says exactly when. A failed init of
  `lab_ipq/workq.c` frees the works before it destroys the queue and frees the
  interrupt.
* `lab_08` and `lab_09` return from a failed init without removing what they have
  made, so that the name `sdir` is taken for good and a file may be left without
  code. `lab_08` writes past its list of three; `lab_09` goes on with a task that it
  has just reported missing.
* `lab_13` registers its file system before the rest of its init, so that a mount
  may be in it when init fails and the module is freed.
* The walk of `lab_03` goes up by `..` and follows a directory that is moved under
  it. It takes a failed readdir for the end of the directory (`dir.c:135`): files are
  left out, and the walk may still end with 0.
* The calculator of `lab_01/part_3` never resets `client_len` and may answer a wrong
  client, answers a division by zero with an earlier result, and an unknown
  operation not at all.
* `file_info` in the fopen programs of `lab_12` is called with a stream that has been
  closed.

## 7. Not modelled, and what could come next

Left out everywhere: wording of output, timing measurements, set-up of sockets
and its failures (the process ends before any state exists), the content of
addresses except in `Dgram`.

Left out as a whole: `lab_04` reads and formats files of /proc one after the
other; `lab_05` prints the tasks in one pass; `lab_06` prints strings from three
modules, and the only state, their reference count, is the loader's;
`lab_01/part_1` is one fixed exchange over a socketpair; `lab_01/part_2` prints each
datagram it receives until an alarm stops it, and nothing outlives a round.

One hazard without a property is in PROJECT.json with the reason: `clnt.c` against
`thr_serv.c`.

Next: of the liveness properties the part that is safety, as invariants with proofs:
that whoever waits waits for something that can still come, as `InStep` says of
`lab_022`, for the semaphores of the three servers of lab_02 and for the places at
which rmmod waits in the keyboard modules.
