------------------------------ MODULE ForkServ ------------------------------
(***************************************************************************)
(* lab_02/fork_serv.c: a TCP server that forks one child per connection.   *)
(* The children answer READ and WRITE requests on an array in shared       *)
(* memory, guarded by a set of four System V semaphores.                   *)
(*                                                                         *)
(* A child is named after the connection it serves.  Clients are the       *)
(* environment: at each read they send a request, an index in or out of    *)
(* range, or hang up.                                                      *)
(***************************************************************************)
EXTENDS FiniteSets, Serv

CONSTANTS Conns,       \* the connections that clients ever open
          Main,        \* the parent process
          MaxFds,      \* descriptors the parent has left for connections
          MaxKills,    \* children the system or an operator kills (SIGKILL)
          Terminal     \* the server has a terminal, on which one may type Ctrl-C

ASSUME ConstantsAssumption ==
  /\ IsFiniteSet(Conns)
  /\ Main \notin Conns
  /\ ARRAY_SIZE \in 1 .. 26
  /\ MaxFds \in Nat
  /\ MaxKills \in Nat
  /\ Terminal \in BOOLEAN

VARIABLES
  sem,     \* the semaphore set
  str,     \* the array in the shared segment
  pc,      \* where the child of each connection stands
  arr,     \* reader: the part of its copy that memcpy has filled in
  index, rc, result,  \* writer's locals
  mpc,     \* where the parent stands
  flag,    \* the parent's loop condition
  sigint,  \* SIGINT is pending for the parent
  intr,    \* the children for which the terminal's SIGINT is pending
  holders, \* the processes that hold a descriptor of each connection
  died,    \* auxiliary: where a killed child stood, "no" for the others
  taken,   \* auxiliary: the connections whose child took each letter
  got,     \* auxiliary: the connections each letter was sent to
  late     \* auxiliary: connections accepted after the flag was cleared

shared == <<sem, str>>
locals == <<arr, index, rc, result>>
parent == <<mpc, flag, sigint, late>>
aux    == <<died, taken, got>>
vars   == <<shared, pc, locals, parent, intr, holders, aux>>

\* Fault: a writer does not wait for the active writer.
StartWriteBesideWriter == << Buf(WRITE_QUEUE, V), Buf(ACTIVE_READERS, 0),
                             Buf(WRITE_QUEUE, P), Buf(ACTIVE_WRITER, V) >>

\* thr_serv.c has the same array, thread.c another order.
start_write == << Buf(WRITE_QUEUE, V), Buf(ACTIVE_READERS, 0), Buf(ACTIVE_WRITER, 0),
                  Buf(WRITE_QUEUE, P), Buf(ACTIVE_WRITER, V) >>

Over == {"refused", "ended", "killed"}
Alive(c) == pc[c] \notin Over \cup {"none", "accepted"}

\* The connections the parent holds, for which it has a descriptor in use.
MainHolds == {c \in Conns : Main \in holders[c]}

Init ==
  /\ sem = [s \in Sems |-> 0]
  /\ str = [i \in Cells |-> Letter(i)]
  /\ pc = [c \in Conns |-> "none"]
  /\ arr = [c \in Conns |-> <<>>]
  /\ index = [c \in Conns |-> 0]
  /\ rc = [c \in Conns |-> OK]
  /\ result = [c \in Conns |-> NUL]
  /\ mpc = "test" /\ flag = TRUE /\ sigint = FALSE
  /\ intr = {}
  /\ holders = [c \in Conns |-> {}]
  /\ died = [c \in Conns |-> "no"]
  /\ taken = [i \in Cells |-> {}]
  /\ got = [i \in Cells |-> {}]
  /\ late = 0

-----------------------------------------------------------------------------
(* The child.                                                              *)

Goto(c, from, to) ==
  /\ pc[c] = from
  /\ pc' = [pc EXCEPT ![c] = to]

ForgetLocals(c) ==
  /\ arr' = [arr EXCEPT ![c] = <<>>]
  /\ index' = [index EXCEPT ![c] = 0]
  /\ rc' = [rc EXCEPT ![c] = OK]
  /\ result' = [result EXCEPT ![c] = NUL]

\* A process that ends closes every descriptor it has, those of earlier
\* connections that it inherited from the parent included.
Closed(p) == holders' = [d \in Conns |-> holders[d] \ {p}]

\* The child of c goes, by exit() or by a signal.
Gone(c, how) ==
  /\ pc' = [pc EXCEPT ![c] = how]
  /\ ForgetLocals(c)
  /\ Closed(c)
  /\ intr' = intr \ {c}

\* Where a step of the child leaves everybody else's state alone.
Quiet == UNCHANGED <<parent, intr, holders, died>>

\* rw_func: the type of the next request.
ReadType(c) ==
  /\ Goto(c, "idle", "rstart") \/ Goto(c, "idle", "windex")
  /\ UNCHANGED <<shared, locals, parent, intr, holders, aux>>

\* rw_func, writer: end of file, an error, an unknown type; a signal that
\* arrives while read() waits makes it fail with EINTR.
HangUp(c) ==
  /\ pc[c] \in {"idle", "windex"}
  /\ Gone(c, "ended")
  /\ UNCHANGED <<shared, parent, aux>>

\* reader: semop(start_read), all of it at once or not yet.
StartRead(c) ==
  /\ Goto(c, "rstart", "copy")
  /\ ~ Blocks(sem, start_read)
  /\ sem' = After(sem, start_read)
  /\ UNCHANGED <<str, locals, taken, got>> /\ Quiet

\* reader: memcpy, a cell at a time in whatever order.
Copy(c, i) ==
  /\ pc[c] = "copy"
  /\ i \in Cells \ DOMAIN arr[c]
  /\ arr' = [arr EXCEPT ![c] =
               [j \in DOMAIN arr[c] \cup {i} |->
                  IF j = i THEN str[i] ELSE arr[c][j]]]
  /\ UNCHANGED <<shared, pc, index, rc, result, taken, got>> /\ Quiet

EndRead(c) ==
  /\ Goto(c, "copy", "rsend")
  /\ DOMAIN arr[c] = Cells
  /\ ~ Blocks(sem, end_read)
  /\ sem' = After(sem, end_read)
  /\ UNCHANGED <<str, locals, taken, got>> /\ Quiet

\* reader: the copy is written to the socket.
SendArray(c) ==
  /\ Goto(c, "rsend", "idle")
  /\ arr' = [arr EXCEPT ![c] = <<>>]
  /\ UNCHANGED <<shared, index, rc, result, taken, got>> /\ Quiet

\* Fault: the letters are counted from 1.
ReadIndexFromOne(c, i) ==
  /\ Goto(c, "windex", "wstart")
  /\ index' = [index EXCEPT ![c] = i + 1]
  /\ UNCHANGED <<shared, arr, rc, result, taken, got>> /\ Quiet

ReadIndex(c, i) ==
  /\ Goto(c, "windex", "wstart")
  /\ index' = [index EXCEPT ![c] = i]
  /\ UNCHANGED <<shared, arr, rc, result, taken, got>> /\ Quiet

StartWrite(c) ==
  /\ Goto(c, "wstart", "wtest")
  /\ ~ Blocks(sem, start_write)
  /\ sem' = After(sem, start_write)
  /\ UNCHANGED <<str, locals, taken, got>> /\ Quiet

\* Fault: a refusal returns without the end_write.
RefuseAndReturn(c) ==
  /\ Goto(c, "wtest", "wrc")
  /\ index[c] \notin Cells
  /\ rc' = [rc EXCEPT ![c] = RANGE_ERROR]
  /\ UNCHANGED <<shared, arr, index, result, taken, got>> /\ Quiet

\* writer: the test of the cell and, if it is free, the read of its letter.
\* endF of the code is 1 exactly where rc is RANGE_ERROR.
Refuse(c) ==
  /\ Goto(c, "wtest", "wend")
  /\ \/ index[c] \notin Cells
        /\ rc' = [rc EXCEPT ![c] = RANGE_ERROR]
     \/ index[c] \in Cells
        /\ str[index[c]] = ARRAY_ELEMENT_BUSY
        /\ rc' = [rc EXCEPT ![c] = WRITE_BUSY_ERROR]
  /\ UNCHANGED <<shared, arr, index, result, taken, got>> /\ Quiet

TestFree(c) ==
  /\ Goto(c, "wtest", "wtake")
  /\ index[c] \in Cells
  /\ str[index[c]] # ARRAY_ELEMENT_BUSY
  /\ result' = [result EXCEPT ![c] = str[index[c]]]
  /\ UNCHANGED <<shared, arr, index, rc, taken, got>> /\ Quiet

\* writer: the store that marks the cell, a separate access to the segment.
Take(c) ==
  /\ Goto(c, "wtake", "wend")
  /\ str' = [str EXCEPT ![index[c]] = ARRAY_ELEMENT_BUSY]
  /\ taken' = [taken EXCEPT ![index[c]] = @ \cup {c}]
  /\ UNCHANGED <<sem, locals, got>> /\ Quiet

EndWrite(c) ==
  /\ Goto(c, "wend", "wrc")
  /\ ~ Blocks(sem, end_write)
  /\ sem' = After(sem, end_write)
  /\ UNCHANGED <<str, locals, taken, got>> /\ Quiet

\* writer: the response code is written; a failure is only reported, and the
\* code goes on to the letter, if there is one, or to the end.
SendCode(c) ==
  /\ pc[c] = "wrc"
  /\ \/ result[c] # NUL /\ Goto(c, "wrc", "wres")
     \/ result[c] = NUL /\ rc[c] = RANGE_ERROR /\ Goto(c, "wrc", "wfin")
     \/ result[c] = NUL /\ rc[c] # RANGE_ERROR /\ Goto(c, "wrc", "idle")
  /\ IF pc'[c] = "idle"
     THEN ForgetLocals(c)
     ELSE UNCHANGED locals
  /\ UNCHANGED <<shared, taken, got>> /\ Quiet

SendLetter(c) ==
  /\ Goto(c, "wres", "idle")
  /\ got' = [got EXCEPT ![index[c]] = @ \cup {c}]
  /\ ForgetLocals(c)
  /\ UNCHANGED <<shared, taken>> /\ Quiet

\* write() fails: the child exits, or dies of SIGPIPE, which it does not handle.
SendFails(c) ==
  /\ pc[c] \in {"rsend", "wrc", "wres"}
  /\ Gone(c, "ended")
  /\ UNCHANGED <<shared, parent, aux>>

\* Fault: the child ends without a signal to the parent.
StopChildOnly(c) ==
  /\ pc[c] = "wfin"
  /\ Gone(c, "ended")
  /\ UNCHANGED <<shared, parent, aux>>

\* writer: an index out of range makes the child signal the parent and exit.
StopServer(c) ==
  /\ pc[c] = "wfin"
  /\ sigint' = (mpc # "ended")
  /\ Gone(c, "ended")
  /\ UNCHANGED <<shared, mpc, flag, late, aux>>

\* The terminal's SIGINT reaches a child.  In the middle of its own code the
\* handler clears the child's flag, which nobody reads; a semop that sleeps
\* fails with EINTR, and the child exits.
ChildSignal(c) ==
  /\ c \in intr
  /\ intr' = intr \ {c}
  /\ UNCHANGED <<shared, pc, locals, parent, holders, aux>>

SemInterrupted(c) ==
  /\ c \in intr
  /\ \/ pc[c] = "rstart" /\ Blocks(sem, start_read)
     \/ pc[c] = "wstart" /\ Blocks(sem, start_write)
  /\ Gone(c, "ended")
  /\ UNCHANGED <<shared, parent, aux>>

\* SIGKILL.  The semaphores were taken without SEM_UNDO: they stay as they are.
Kill(c) ==
  /\ Alive(c)
  /\ Cardinality({d \in Conns : pc[d] = "killed"}) < MaxKills
  /\ died' = [died EXCEPT ![c] = pc[c]]
  /\ Gone(c, "killed")
  /\ UNCHANGED <<shared, parent, taken, got>>
-----------------------------------------------------------------------------
(* The parent and the terminal.                                            *)

MainExit ==
  /\ mpc' = "ended"
  /\ sigint' = FALSE
  /\ Closed(Main)

\* Fault: the flag is not looked at.
TestForEver ==
  /\ mpc = "test"
  /\ mpc' = "accept"
  /\ UNCHANGED <<shared, pc, locals, flag, sigint, late, intr, holders, aux>>

Test ==
  /\ mpc = "test"
  /\ IF flag
     THEN /\ mpc' = "accept"
          /\ UNCHANGED <<sigint, holders>>
     ELSE MainExit
  /\ UNCHANGED <<shared, pc, locals, flag, late, intr, aux>>

Accept(c) ==
  /\ mpc = "accept"
  /\ pc[c] = "none"
  /\ Cardinality(MainHolds) < MaxFds
  /\ mpc' = "fork"
  /\ pc' = [pc EXCEPT ![c] = "accepted"]
  /\ holders' = [holders EXCEPT ![c] = {Main}]
  /\ late' = IF flag THEN late ELSE late + 1
  /\ UNCHANGED <<shared, locals, flag, sigint, intr, aux>>

\* accept fails: no descriptor is left (EMFILE).
AcceptFails ==
  /\ mpc = "accept"
  /\ Cardinality(MainHolds) >= MaxFds
  /\ MainExit
  /\ UNCHANGED <<shared, pc, locals, flag, late, intr, aux>>

\* SIGINT while accept() sleeps: sigaction was given no SA_RESTART, so accept
\* fails with EINTR after the handler has run.
AcceptInterrupted ==
  /\ mpc = "accept" /\ sigint
  /\ flag' = FALSE
  /\ MainExit
  /\ UNCHANGED <<shared, pc, locals, late, intr, aux>>

\* SIGINT anywhere else: just before accept() is entered it does not keep the
\* parent from waiting for one more client.
SignalHandler ==
  /\ mpc # "ended" /\ sigint
  /\ flag' = FALSE
  /\ sigint' = FALSE
  /\ UNCHANGED <<shared, pc, locals, mpc, late, intr, holders, aux>>

\* Variant: the parent closes its descriptor of the connection, which the code
\* never does.
ForkAndClose(c) ==
  /\ mpc = "fork"
  /\ Goto(c, "accepted", "idle")
  /\ mpc' = "test"
  /\ holders' = [holders EXCEPT ![c] = {c}]
  /\ UNCHANGED <<shared, locals, flag, sigint, late, intr, aux>>

\* fork: the child has a copy of every descriptor of the parent, and the
\* parent does not close the one it accepted.
Fork(c) ==
  /\ mpc = "fork"
  /\ Goto(c, "accepted", "idle")
  /\ mpc' = "test"
  /\ holders' = [d \in Conns |->
                   IF d \in MainHolds THEN holders[d] \cup {c} ELSE holders[d]]
  /\ UNCHANGED <<shared, locals, flag, sigint, late, intr, aux>>

ForkFails(c) ==
  /\ mpc = "fork"
  /\ Goto(c, "accepted", "refused")
  /\ MainExit
  /\ UNCHANGED <<shared, locals, flag, late, intr, aux>>

\* Ctrl-C on the terminal signals the parent and every child.
CtrlC ==
  /\ Terminal
  /\ mpc # "ended"
  /\ sigint' = TRUE
  /\ intr' = {c \in Conns : Alive(c)}
  /\ UNCHANGED <<shared, pc, locals, mpc, flag, late, holders, aux>>
-----------------------------------------------------------------------------
\* The child's own steps.
Runs(c) ==
  \/ StartRead(c) \/ EndRead(c) \/ SendArray(c)
  \/ \E i \in Cells : Copy(c, i)
  \/ StartWrite(c) \/ Refuse(c) \/ TestFree(c) \/ Take(c) \/ EndWrite(c)
  \/ SendCode(c) \/ SendLetter(c) \/ StopServer(c)

\* What the client or the terminal makes of a child.
Outside(c) ==
  \/ ReadType(c) \/ HangUp(c) \/ SendFails(c)
  \/ ChildSignal(c) \/ SemInterrupted(c) \/ Kill(c)
  \/ \E i \in Indices : ReadIndex(c, i)

Child(c) == Runs(c) \/ Outside(c)

Parent ==
  \/ Test \/ AcceptFails \/ AcceptInterrupted \/ SignalHandler
  \/ \E c \in Conns : Accept(c) \/ Fork(c) \/ ForkFails(c)

Next == CtrlC \/ Parent \/ \E c \in Conns : Child(c)

Spec == Init /\ [][Next]_vars

\* A child that is not waiting for its client runs.  Fairness is strong for the
\* semops' sake: one that sleeps is retried, oldest first, at every change of
\* the set, and is not passed over for ever; no other step of Runs is ever
\* enabled and then disabled but by the death of the child.  Clients and the
\* terminal owe nothing; the parent runs, and handles its signals.
FairSpec ==
  /\ Spec
  /\ \A c \in Conns : SF_vars(Runs(c))
  /\ WF_vars(Test \/ \E c \in Conns : Fork(c) \/ ForkFails(c))
  /\ WF_vars(SignalHandler \/ AcceptInterrupted)
-----------------------------------------------------------------------------
(* What is claimed of the server.                                          *)

Reading == {"copy"}
Writing == {"wtest", "wtake", "wend"}
PCs == Over \cup Reading \cup Writing \cup
       {"none", "accepted", "idle", "rstart", "rsend", "windex", "wstart",
        "wrc", "wres", "wfin"}

\* Who counts on the semaphores: a killed child does where it stood.
Readers == {c \in Conns : pc[c] \in Reading \/ died[c] \in Reading}
Writers == {c \in Conns : pc[c] \in Writing \/ died[c] \in Writing}

\* Every variable holds a value of its kind; no semaphore is negative.
TypeOK ==
  /\ sem \in [Sems -> Nat]
  /\ str \in [Cells -> Contents]
  /\ pc \in [Conns -> PCs]
  /\ arr \in [Conns -> Copies]
  /\ index \in [Conns -> Indices]
  /\ rc \in [Conns -> {OK, WRITE_BUSY_ERROR, RANGE_ERROR}]
  /\ result \in [Conns -> Letters \cup {NUL}]
  /\ mpc \in {"test", "accept", "fork", "ended"}
  /\ flag \in BOOLEAN /\ sigint \in BOOLEAN
  /\ intr \subseteq Conns
  /\ holders \in [Conns -> SUBSET (Conns \cup {Main})]
  /\ died \in [Conns -> PCs \cup {"no"}]
  /\ taken \in [Cells -> SUBSET Conns]
  /\ got \in [Cells -> SUBSET Conns]
  /\ late \in Nat

\* start_write admits a writer when nobody else is inside, start_read a reader
\* when no writer is: a writer is alone with the array, and a child killed
\* inside keeps its place, since its semaphore is never given back.
MutualExclusion ==
  \A c \in Writers : Readers = {} /\ Writers = {c}

\* The semaphores count exactly the children between the start and the end of
\* a request: no exit, error or signal path of reader or writer skips its
\* release or releases twice, and the two queue semaphores, raised and lowered
\* by one semop, are never seen raised: a waiting writer holds no reader off.
SemAccounting ==
  /\ sem[ACTIVE_READERS] = Cardinality(Readers)
  /\ sem[ACTIVE_WRITER] = Cardinality(Writers)
  /\ sem[WRITE_QUEUE] = 0 /\ sem[READ_QUEUE] = 0

\* The semaphores admit whom they should and go on counting, whoever dies where.
SemaphoresGuard == MutualExclusion /\ SemAccounting

\* No torn read: what memcpy has copied so far is still what the array holds,
\* so the array that is sent existed as a whole at one moment.
SnapshotConsistent ==
  \A c \in Conns : pc[c] = "copy" =>
    \A i \in DOMAIN arr[c] : arr[c][i] = str[i]

\* The test of a cell and the store that marks it are two accesses, and no two
\* children ever take the same letter; a cell is busy exactly when one has.
AtMostOnce ==
  \A i \in Cells :
    /\ \A c, d \in taken[i] : c = d
    /\ str[i] = ARRAY_ELEMENT_BUSY <=> taken[i] # {}
    /\ got[i] \subseteq taken[i]

\* A letter that was taken and not yet sent is on its way, in the result of the
\* child that took it, or that child's conversation is over: writer goes on to
\* the letter even when the response code could not be written.
LetterNotLost ==
  \A i \in Cells : \A c \in taken[i] \ got[i] :
    \/ pc[c] \in {"wend", "wrc", "wres"} /\ index[c] = i /\ result[c] = Letter(i)
    \/ pc[c] \in Over

\* The array, the copies of readers and the hands of writers agree at every
\* moment: no torn read, no letter given twice, none lost on its way.
CellsConsistent == SnapshotConsistent /\ AtMostOnce /\ LetterNotLost

\* The parent keeps the descriptor of every connection it accepts: so many
\* connections and no more the server accepts in its whole life, however many
\* of them are over.
LifetimeBound == Cardinality({c \in Conns : pc[c] # "none"}) <= MaxFds

\* A handler that runs just before accept does not keep the parent from
\* accepting one more connection, but never a second one.
AtMostOneAfterSignal == late <= 1

\* An index out of range stops the server: the parent is told, and it is gone
\* once it has returned from the accept in which the signal may have left it.
StopHeeded ==
  \A c \in Conns :
    pc[c] = "wfin" ~> pc[c] = "killed" \/ mpc = "ended" \/ (mpc = "accept" /\ ~ flag)

\* The shared array as the clients see it: a read takes effect where the copy
\* is complete, a write where the cell is marked or found busy or out of range.
Phase(c) ==
  CASE pc[c] \in {"none", "accepted", "idle"} -> "idle"
    [] pc[c] \in {"rstart", "copy"} -> "read"
    [] pc[c] \in {"windex", "wstart", "wtest", "wtake"} -> "write"
    [] pc[c] \in {"rsend", "wend", "wrc", "wres", "wfin"} -> "answered"
    [] OTHER -> "gone"

Pending(c) ==
  CASE pc[c] = "rsend" -> [rc |-> OK, letter |-> NUL, array |-> arr[c]]
    [] pc[c] \in {"wend", "wrc", "wres", "wfin"} ->
         [rc |-> rc[c], letter |-> result[c], array |-> <<>>]
    [] OTHER -> [rc |-> OK, letter |-> NUL, array |-> <<>>]

Array == INSTANCE SharedArray WITH
           Clients <- Conns,
           cells   <- str,
           phase   <- [c \in Conns |-> Phase(c)],
           ans     <- [c \in Conns |-> Pending(c)]

\* Every execution of the server is one of the array on which each request
\* takes effect at once: the semaphores make the steps of reader and writer
\* atomic, whatever children do and wherever they are killed.
Linearizable == Array!ASpec
=============================================================================
