----------------------------- MODULE ThreadServ -----------------------------
(***************************************************************************)
(* lab_02/thread.c: the readers-writers server with one detached thread    *)
(* per connection.  All threads share one process: exit() or SIGPIPE in    *)
(* one of them, and the return of main, end every other one too, wherever  *)
(* it stands.  Descriptors are numbers of one table, the lowest free one   *)
(* being given out, so a number that one thread has closed is soon that of *)
(* another connection.                                                     *)
(*                                                                         *)
(* A thread is named after the connection it serves; clients are the       *)
(* environment.                                                            *)
(***************************************************************************)
EXTENDS FiniteSets, Serv

CONSTANTS Conns,   \* the connections that clients ever open
          NoConn,  \* the content of a free descriptor
          MaxFds   \* descriptors the process has left for connections

ASSUME ConstantsAssumption ==
  /\ IsFiniteSet(Conns)
  /\ NoConn \notin Conns
  /\ ARRAY_SIZE \in 1 .. 26
  /\ MaxFds \in Nat \ {0}

VARIABLES
  sem,     \* the semaphore set
  buf,     \* the global array
  pc,      \* where the thread of each connection stands
  arr,     \* reader: the part of its copy that memcpy has filled in
  index, rc, result,  \* writer's locals
  fd,      \* sockfd of each thread, 0 where there is none
  mpc,     \* where main stands; "ended" for the whole process
  flag,    \* main's loop condition
  sigint,  \* SIGINT is pending for the process
  table,   \* the descriptor table: the connection of each number
  taken,   \* auxiliary: the connections whose thread took each letter
  got,     \* auxiliary: the connections each letter was sent to
  late     \* auxiliary: connections accepted after the flag was cleared

shared  == <<sem, buf>>
locals  == <<arr, index, rc, result>>
process == <<mpc, flag, sigint, late>>
aux     == <<taken, got>>
vars    == <<shared, pc, locals, fd, process, table, aux>>

Fds == 1 .. MaxFds

\* The order of thread.c: the writer is counted before it leaves the queue.
start_write == << Buf(WRITE_QUEUE, V), Buf(ACTIVE_WRITER, 0), Buf(ACTIVE_READERS, 0),
                  Buf(ACTIVE_WRITER, V), Buf(WRITE_QUEUE, P) >>

Up == mpc # "ended"

Init ==
  /\ sem = [s \in Sems |-> 0]
  /\ buf = [i \in Cells |-> Letter(i)]
  /\ pc = [c \in Conns |-> "none"]
  /\ arr = [c \in Conns |-> <<>>]
  /\ index = [c \in Conns |-> 0]
  /\ rc = [c \in Conns |-> OK]
  /\ result = [c \in Conns |-> NUL]
  /\ fd = [c \in Conns |-> 0]
  /\ mpc = "test" /\ flag = TRUE /\ sigint = FALSE
  /\ table = [n \in Fds |-> NoConn]
  /\ taken = [i \in Cells |-> {}]
  /\ got = [i \in Cells |-> {}]
  /\ late = 0

-----------------------------------------------------------------------------
(* A thread.                                                               *)

Goto(c, from, to) ==
  /\ Up
  /\ pc[c] = from
  /\ pc' = [pc EXCEPT ![c] = to]

ForgetLocals(c) ==
  /\ arr' = [arr EXCEPT ![c] = <<>>]
  /\ index' = [index EXCEPT ![c] = 0]
  /\ rc' = [rc EXCEPT ![c] = OK]
  /\ result' = [result EXCEPT ![c] = NUL]

\* close(sockfd): whatever the number stands for now.
Close(c) ==
  /\ table' = [table EXCEPT ![fd[c]] = NoConn]
  /\ fd' = [fd EXCEPT ![c] = 0]

Quiet == UNCHANGED <<fd, process, table>>

\* childfunc: the type of the next request.
ReadType(c) ==
  /\ Goto(c, "idle", "rstart") \/ Goto(c, "idle", "windex")
  /\ UNCHANGED <<shared, locals, aux>> /\ Quiet

\* childfunc, writer: end of file, an error or an unknown type ends the
\* conversation: the socket is closed and the thread exits.
HangUp(c) ==
  /\ Goto(c, "idle", "ended") \/ Goto(c, "windex", "ended")
  /\ Close(c)
  /\ UNCHANGED <<shared, locals, process, aux>>

StartRead(c) ==
  /\ Goto(c, "rstart", "copy")
  /\ ~ Blocks(sem, start_read)
  /\ sem' = After(sem, start_read)
  /\ UNCHANGED <<buf, locals, aux>> /\ Quiet

Copy(c, i) ==
  /\ Up
  /\ pc[c] = "copy"
  /\ i \in Cells \ DOMAIN arr[c]
  /\ arr' = [arr EXCEPT ![c] =
               [j \in DOMAIN arr[c] \cup {i} |->
                  IF j = i THEN buf[i] ELSE arr[c][j]]]
  /\ UNCHANGED <<shared, pc, index, rc, result, aux>> /\ Quiet

EndRead(c) ==
  /\ Goto(c, "copy", "rsend")
  /\ DOMAIN arr[c] = Cells
  /\ ~ Blocks(sem, end_read)
  /\ sem' = After(sem, end_read)
  /\ UNCHANGED <<buf, locals, aux>> /\ Quiet

SendArray(c) ==
  /\ Goto(c, "rsend", "idle")
  /\ arr' = [arr EXCEPT ![c] = <<>>]
  /\ UNCHANGED <<shared, index, rc, result, aux>> /\ Quiet

ReadIndex(c, i) ==
  /\ Goto(c, "windex", "wstart")
  /\ index' = [index EXCEPT ![c] = i]
  /\ UNCHANGED <<shared, arr, rc, result, aux>> /\ Quiet

StartWrite(c) ==
  /\ Goto(c, "wstart", "wtest")
  /\ ~ Blocks(sem, start_write)
  /\ sem' = After(sem, start_write)
  /\ UNCHANGED <<buf, locals, aux>> /\ Quiet

\* Fault: a refusal returns without the end_write.
RefuseAndReturn(c) ==
  /\ Goto(c, "wtest", "wrc")
  /\ index[c] \notin Cells
  /\ rc' = [rc EXCEPT ![c] = RANGE_ERROR]
  /\ UNCHANGED <<shared, arr, index, result, aux>> /\ Quiet

Refuse(c) ==
  /\ Goto(c, "wtest", "wend")
  /\ \/ index[c] \notin Cells
        /\ rc' = [rc EXCEPT ![c] = RANGE_ERROR]
     \/ index[c] \in Cells
        /\ buf[index[c]] = ARRAY_ELEMENT_BUSY
        /\ rc' = [rc EXCEPT ![c] = WRITE_BUSY_ERROR]
  /\ UNCHANGED <<shared, arr, index, result, aux>> /\ Quiet

TestFree(c) ==
  /\ Goto(c, "wtest", "wtake")
  /\ index[c] \in Cells
  /\ buf[index[c]] # ARRAY_ELEMENT_BUSY
  /\ result' = [result EXCEPT ![c] = buf[index[c]]]
  /\ UNCHANGED <<shared, arr, index, rc, aux>> /\ Quiet

\* Fault: the cell is not marked.
TakeUnmarked(c) ==
  /\ Goto(c, "wtake", "wend")
  /\ taken' = [taken EXCEPT ![index[c]] = @ \cup {c}]
  /\ UNCHANGED <<shared, locals, got>> /\ Quiet

Take(c) ==
  /\ Goto(c, "wtake", "wend")
  /\ buf' = [buf EXCEPT ![index[c]] = ARRAY_ELEMENT_BUSY]
  /\ taken' = [taken EXCEPT ![index[c]] = @ \cup {c}]
  /\ UNCHANGED <<sem, locals, got>> /\ Quiet

EndWrite(c) ==
  /\ Goto(c, "wend", "wrc")
  /\ ~ Blocks(sem, end_write)
  /\ sem' = After(sem, end_write)
  /\ UNCHANGED <<buf, locals, aux>> /\ Quiet

\* writer: the code is written, a failure only reported; a letter follows, or
\* the end of the conversation if the index was out of range.
SendCode(c) ==
  /\ \/ /\ result[c] # NUL
        /\ Goto(c, "wrc", "wres")
        /\ UNCHANGED <<locals, fd, table>>
     \/ /\ result[c] = NUL /\ rc[c] # RANGE_ERROR
        /\ Goto(c, "wrc", "idle")
        /\ ForgetLocals(c)
        /\ UNCHANGED <<fd, table>>
     \/ /\ result[c] = NUL /\ rc[c] = RANGE_ERROR
        /\ Goto(c, "wrc", "ended")
        /\ ForgetLocals(c)
        /\ Close(c)
  /\ UNCHANGED <<shared, process, aux>>

\* The letter goes to the connection that the number stands for.
SendLetter(c) ==
  /\ Goto(c, "wres", "idle")
  /\ got' = [got EXCEPT ![index[c]] = @ \cup {table[fd[c]]}]
  /\ ForgetLocals(c)
  /\ UNCHANGED <<shared, taken>> /\ Quiet
-----------------------------------------------------------------------------
(* The process.                                                            *)

\* The process ends, and every thread of it where it stands.
ProcessExit ==
  /\ mpc' = "ended"
  /\ sigint' = FALSE
  /\ UNCHANGED <<pc, locals, fd>>

\* A failed write exits, or raises SIGPIPE, which nobody handles: either way
\* the client of one thread ends the service of all.
SendFails(c) ==
  /\ Up
  /\ pc[c] \in {"rsend", "wrc", "wres"}
  /\ ProcessExit
  /\ UNCHANGED <<shared, flag, late, table, aux>>

\* SIGINT is given to a thread that sleeps in semop: semop is never restarted,
\* fails with EINTR, and exit follows.
SemInterrupted(c) ==
  /\ Up /\ sigint
  /\ \/ pc[c] = "rstart" /\ Blocks(sem, start_read)
     \/ pc[c] = "wstart" /\ Blocks(sem, start_write)
  /\ flag' = FALSE
  /\ ProcessExit
  /\ UNCHANGED <<shared, late, table, aux>>

\* SIGINT is given to main or to any other thread.  signal() restarts accept
\* and read: main, asleep in accept, does not look at the flag.
SignalHandler ==
  /\ Up /\ sigint
  /\ flag' = FALSE
  /\ sigint' = FALSE
  /\ UNCHANGED <<shared, pc, locals, fd, mpc, late, table, aux>>

CtrlC ==
  /\ Up
  /\ sigint' = TRUE
  /\ UNCHANGED <<shared, pc, locals, fd, mpc, flag, late, table, aux>>

\* Fault: the flag is not looked at.
TestForEver ==
  /\ mpc = "test"
  /\ mpc' = "accept"
  /\ UNCHANGED <<shared, pc, locals, fd, flag, sigint, late, table, aux>>

\* main: the loop condition; return 0 ends the process.
Test ==
  /\ mpc = "test"
  /\ \/ /\ flag
        /\ mpc' = "accept"
        /\ UNCHANGED <<pc, locals, fd, sigint>>
     \/ /\ ~ flag
        /\ ProcessExit
  /\ UNCHANGED <<shared, flag, late, table, aux>>

FreeFds == {n \in Fds : table[n] = NoConn}

Accept(c, n) ==
  /\ mpc = "accept"
  /\ pc[c] = "none"
  /\ n \in FreeFds /\ \A m \in FreeFds : n <= m
  /\ mpc' = "create"
  /\ pc' = [pc EXCEPT ![c] = "accepted"]
  /\ fd' = [fd EXCEPT ![c] = n]
  /\ table' = [table EXCEPT ![n] = c]
  /\ late' = IF flag THEN late ELSE late + 1
  /\ UNCHANGED <<shared, locals, flag, sigint, aux>>

\* accept fails, for want of a descriptor or because the client has given up:
\* the code reports it and looks at the flag again.
AcceptFails ==
  /\ mpc = "accept"
  /\ mpc' = "test"
  /\ UNCHANGED <<shared, pc, locals, fd, flag, sigint, late, table, aux>>

\* Fault: main closes the socket that it has given to a thread.
CreateAndClose(c) ==
  /\ mpc = "create"
  /\ Goto(c, "accepted", "idle")
  /\ mpc' = "test"
  /\ table' = [table EXCEPT ![fd[c]] = NoConn]
  /\ UNCHANGED <<shared, locals, fd, flag, sigint, late, aux>>

Create(c) ==
  /\ mpc = "create"
  /\ Goto(c, "accepted", "idle")
  /\ mpc' = "test"
  /\ UNCHANGED <<shared, locals, fd, flag, sigint, late, table, aux>>

\* malloc or pthread_create fails: the connection is closed.
CreateFails(c) ==
  /\ mpc = "create"
  /\ Goto(c, "accepted", "ended")
  /\ mpc' = "test"
  /\ Close(c)
  /\ UNCHANGED <<shared, locals, flag, sigint, late, aux>>
-----------------------------------------------------------------------------
Runs(c) ==
  \/ StartRead(c) \/ EndRead(c) \/ SendArray(c)
  \/ \E i \in Cells : Copy(c, i)
  \/ StartWrite(c) \/ Refuse(c) \/ TestFree(c) \/ Take(c) \/ EndWrite(c)
  \/ SendCode(c) \/ SendLetter(c)

Outside(c) ==
  \/ ReadType(c) \/ HangUp(c) \/ SendFails(c) \/ SemInterrupted(c)
  \/ \E i \in Indices : ReadIndex(c, i)

MainStep ==
  \/ Test \/ AcceptFails
  \/ \E c \in Conns : Create(c) \/ CreateFails(c) \/ \E n \in Fds : Accept(c, n)

Next ==
  \/ CtrlC \/ SignalHandler \/ MainStep
  \/ \E c \in Conns : Runs(c) \/ Outside(c)

Spec == Init /\ [][Next]_vars

\* A thread that is not waiting for its client runs; semops that sleep are
\* retried oldest first, hence strong fairness.  Main runs, except that no
\* client need ever connect: accept, or its failure, may never come.
FairSpec ==
  /\ Spec
  /\ \A c \in Conns : SF_vars(Runs(c))
  /\ WF_vars(Test \/ \E c \in Conns : Create(c) \/ CreateFails(c))
  /\ WF_vars(SignalHandler)
-----------------------------------------------------------------------------
(* What is claimed of the server.                                          *)

Reading == {"copy"}
Writing == {"wtest", "wtake", "wend"}
Serving == Reading \cup Writing \cup
           {"accepted", "idle", "rstart", "rsend", "windex", "wstart", "wrc", "wres"}

Readers == {c \in Conns : pc[c] \in Reading}
Writers == {c \in Conns : pc[c] \in Writing}

\* A writer is alone with the array: the other order of start_write in this
\* file admits it under the same condition.  The semaphores count the threads
\* inside, and no writer is ever seen to queue.
SemaphoresGuard ==
  /\ sem[ACTIVE_READERS] = Cardinality(Readers)
  /\ sem[ACTIVE_WRITER] = Cardinality(Writers)
  /\ sem[WRITE_QUEUE] = 0 /\ sem[READ_QUEUE] = 0
  /\ \A c \in Writers : Readers = {} /\ Writers = {c}

\* A thread that serves a connection holds its descriptor and nobody else has
\* that number: every path that closes a socket, main's failures included,
\* closes it once and uses it no more, so a number given out again is never
\* used by two threads; and what nobody serves is closed.
DescriptorsOwned ==
  /\ \A c \in Conns : pc[c] \in Serving => fd[c] \in Fds /\ table[fd[c]] = c
  /\ \A n \in Fds : table[n] # NoConn => pc[table[n]] \in Serving /\ fd[table[n]] = n

\* A letter is taken by one thread and is sent to that thread's client only; as
\* long as the process lives, one that was taken and not yet sent is on its way.
LettersOnce ==
  \A i \in Cells :
    /\ \A c, d \in taken[i] : c = d
    /\ buf[i] = ARRAY_ELEMENT_BUSY <=> taken[i] # {}
    /\ got[i] \subseteq taken[i]
    /\ \A c \in taken[i] \ got[i] :
         pc[c] \in {"wend", "wrc", "wres"} /\ index[c] = i /\ result[c] = Letter(i)

\* What the semaphores are for: who is inside is counted, and no letter is given
\* twice or lost.
LettersGuarded == SemaphoresGuard /\ LettersOnce

\* The flag is looked at once per accept: the first connection accepted after
\* the signal is the last, and the process ends whatever its threads, the new
\* one too, are about.
LateIsLast == late = 1 ~> ~ Up

\* The shared array as the clients see it; when the process ends they all go.
Phase(c) ==
  CASE ~ Up \/ pc[c] = "ended" -> "gone"
    [] Up /\ pc[c] \in {"none", "accepted", "idle"} -> "idle"
    [] Up /\ pc[c] \in {"rstart", "copy"} -> "read"
    [] Up /\ pc[c] \in {"windex", "wstart", "wtest", "wtake"} -> "write"
    [] OTHER -> "answered"

Pending(c) ==
  CASE Up /\ pc[c] = "rsend" -> [rc |-> OK, letter |-> NUL, array |-> arr[c]]
    [] Up /\ pc[c] \in {"wend", "wrc", "wres"} ->
         [rc |-> rc[c], letter |-> result[c], array |-> <<>>]
    [] OTHER -> [rc |-> OK, letter |-> NUL, array |-> <<>>]

Array == INSTANCE SharedArray WITH
           Clients <- Conns,
           cells   <- buf,
           phase   <- [c \in Conns |-> Phase(c)],
           ans     <- [c \in Conns |-> Pending(c)]

\* Every execution of the server is one of the array on which each request
\* takes effect at once, up to the moment when the process ends.
Linearizable == Array!ASpec
=============================================================================
