------------------------------- MODULE ThrServ -------------------------------
(***************************************************************************)
(* lab_02/thr_serv.c: the other threaded readers-writers server.  It       *)
(* counts the letters taken; the thread that finds the array used up       *)
(* closes its socket, signals its own process and goes on with the number  *)
(* it has closed, until the signal handler ends the process.               *)
(***************************************************************************)
EXTENDS FiniteSets, Serv

CONSTANTS Conns,   \* the connections that clients ever open
          NoConn,  \* the content of a free descriptor
          MaxFds   \* descriptors the process has left for connections

ASSUME ConstantsAssumption ==
  /\ IsFiniteSet(Conns)
  /\ NoConn \notin Conns
  /\ ARRAY_SIZE \in 1 .. 26
  /\ MaxFds \in Nat \ {0}

VARIABLES
  sem,            \* the semaphore set
  array,          \* the global array
  array_counter,  \* the letters taken so far
  pc,             \* where the thread of each connection stands
  buffer,         \* reader: the part of its copy that memcpy has filled in
  index, rc, result,
  done,           \* writer found the array used up
  fd,             \* sockfd of each thread, 0 where there is none
  mpc,            \* where main stands; "ended" for the whole process
  sigint,         \* SIGINT is pending for the process
  table,          \* the descriptor table
  taken,          \* auxiliary: the connections whose thread took each letter
  got,            \* auxiliary: the connections each letter was sent to
  strays          \* auxiliary: connections that were sent another one's answer

shared  == <<sem, array, array_counter>>
locals  == <<buffer, index, rc, result, done>>
process == <<mpc, sigint>>
aux     == <<taken, got, strays>>
vars    == <<shared, pc, locals, fd, process, table, aux>>

Fds == 1 .. MaxFds

\* Fault: a writer does not wait for the active writer.
StartWriteBesideWriter == << Buf(WRITE_QUEUE, V), Buf(ACTIVE_READERS, 0),
                             Buf(WRITE_QUEUE, P), Buf(ACTIVE_WRITER, V) >>

start_write == << Buf(WRITE_QUEUE, V), Buf(ACTIVE_READERS, 0), Buf(ACTIVE_WRITER, 0),
                  Buf(WRITE_QUEUE, P), Buf(ACTIVE_WRITER, V) >>

Up == mpc # "ended"

\* The connection a thread's number stands for now, if any.
Peer(c) == IF fd[c] = 0 THEN NoConn ELSE table[fd[c]]

Init ==
  /\ sem = [s \in Sems |-> 0]
  /\ array = [i \in Cells |-> Letter(i)]
  /\ array_counter = 0
  /\ pc = [c \in Conns |-> "none"]
  /\ buffer = [c \in Conns |-> <<>>]
  /\ index = [c \in Conns |-> 0]
  /\ rc = [c \in Conns |-> OK]
  /\ result = [c \in Conns |-> NUL]
  /\ done = [c \in Conns |-> FALSE]
  /\ fd = [c \in Conns |-> 0]
  /\ mpc = "accept" /\ sigint = FALSE
  /\ table = [n \in Fds |-> NoConn]
  /\ taken = [i \in Cells |-> {}]
  /\ got = [i \in Cells |-> {}]
  /\ strays = {}

-----------------------------------------------------------------------------
(* A thread.                                                               *)

Goto(c, from, to) ==
  /\ Up
  /\ pc[c] = from
  /\ pc' = [pc EXCEPT ![c] = to]

ForgetLocals(c) ==
  /\ buffer' = [buffer EXCEPT ![c] = <<>>]
  /\ index' = [index EXCEPT ![c] = 0]
  /\ rc' = [rc EXCEPT ![c] = OK]
  /\ result' = [result EXCEPT ![c] = NUL]
  /\ done' = [done EXCEPT ![c] = FALSE]

Quiet == UNCHANGED <<fd, process, table>>

\* close(sockfd) and return: whatever the number stands for is closed.
CloseAndReturn(c) ==
  /\ Up
  /\ pc' = [pc EXCEPT ![c] = "ended"]
  /\ ForgetLocals(c)
  /\ table' = [table EXCEPT ![fd[c]] = NoConn]
  /\ fd' = [fd EXCEPT ![c] = 0]

\* write(sockfd): to the connection that the number stands for.
Sends(c) ==
  /\ Peer(c) # NoConn
  /\ strays' = IF Peer(c) = c THEN strays ELSE strays \cup {Peer(c)}

\* read() is entered on an open number, and then keeps to that connection even
\* if the number is closed meanwhile.
EnterRead(c) ==
  /\ Goto(c, "idle", "reading") \/ Goto(c, "windex", "wreading")
  /\ Peer(c) # NoConn
  /\ UNCHANGED <<shared, locals, aux>> /\ Quiet

\* read() on a closed number is EBADF; on an open one, end of file or an error.
ReadFails(c) ==
  /\ \/ pc[c] \in {"idle", "windex"} /\ Peer(c) = NoConn
     \/ pc[c] \in {"reading", "wreading"}
  /\ CloseAndReturn(c)
  /\ UNCHANGED <<shared, process, aux>>

\* threadfunc: the type of the request, unknown ones included.
ReadType(c) ==
  /\ \E to \in {"rstart", "windex", "unknown"} : Goto(c, "reading", to)
  /\ UNCHANGED <<shared, locals, aux>> /\ Quiet

\* An unknown request is answered with OP_ERROR, and the next one is awaited.
SendOpError(c) ==
  /\ Goto(c, "unknown", "idle")
  /\ Sends(c)
  /\ UNCHANGED <<shared, locals, taken, got>> /\ Quiet

StartRead(c) ==
  /\ Goto(c, "rstart", "copy")
  /\ ~ Blocks(sem, start_read)
  /\ sem' = After(sem, start_read)
  /\ UNCHANGED <<array, array_counter, locals, aux>> /\ Quiet

Copy(c, i) ==
  /\ Up
  /\ pc[c] = "copy"
  /\ i \in Cells \ DOMAIN buffer[c]
  /\ buffer' = [buffer EXCEPT ![c] =
                  [j \in DOMAIN buffer[c] \cup {i} |->
                     IF j = i THEN array[i] ELSE buffer[c][j]]]
  /\ UNCHANGED <<shared, pc, index, rc, result, done, aux>> /\ Quiet

EndRead(c) ==
  /\ Goto(c, "copy", "rrc")
  /\ DOMAIN buffer[c] = Cells
  /\ ~ Blocks(sem, end_read)
  /\ sem' = After(sem, end_read)
  /\ UNCHANGED <<array, array_counter, locals, aux>> /\ Quiet

\* reader: OK first, then the copy, by two writes.
SendReadCode(c) ==
  /\ Goto(c, "rrc", "rsend")
  /\ Sends(c)
  /\ UNCHANGED <<shared, locals, taken, got>> /\ Quiet

SendArray(c) ==
  /\ Goto(c, "rsend", "idle")
  /\ Sends(c)
  /\ ForgetLocals(c)
  /\ UNCHANGED <<shared, taken, got>> /\ Quiet

\* These writes fail: the number is closed, or the write itself fails.
SendFails(c) ==
  /\ pc[c] \in {"unknown", "rrc", "rsend"}
  /\ CloseAndReturn(c)
  /\ UNCHANGED <<shared, process, aux>>

ReadIndex(c, i) ==
  /\ Goto(c, "wreading", "wstart")
  /\ index' = [index EXCEPT ![c] = i]
  /\ UNCHANGED <<shared, buffer, rc, result, done, aux>> /\ Quiet

StartWrite(c) ==
  /\ Goto(c, "wstart", "wtest")
  /\ ~ Blocks(sem, start_write)
  /\ sem' = After(sem, start_write)
  /\ UNCHANGED <<array, array_counter, locals, aux>> /\ Quiet

Refuse(c) ==
  /\ Goto(c, "wtest", "wend")
  /\ \/ index[c] \notin Cells
        /\ rc' = [rc EXCEPT ![c] = RANGE_ERROR]
     \/ index[c] \in Cells
        /\ array[index[c]] = ARRAY_ELEMENT_BUSY
        /\ rc' = [rc EXCEPT ![c] = WRITE_BUSY_ERROR]
  /\ done' = [done EXCEPT ![c] = (array_counter = ARRAY_SIZE)]
  /\ UNCHANGED <<shared, buffer, index, result, aux>> /\ Quiet

TestFree(c) ==
  /\ Goto(c, "wtest", "wtake")
  /\ index[c] \in Cells
  /\ array[index[c]] # ARRAY_ELEMENT_BUSY
  /\ result' = [result EXCEPT ![c] = array[index[c]]]
  /\ UNCHANGED <<shared, buffer, index, rc, done, aux>> /\ Quiet

\* Fault: the cell is not marked.
TakeUnmarked(c) ==
  /\ Goto(c, "wtake", "wcount")
  /\ taken' = [taken EXCEPT ![index[c]] = @ \cup {c}]
  /\ UNCHANGED <<shared, locals, got, strays>> /\ Quiet

Take(c) ==
  /\ Goto(c, "wtake", "wcount")
  /\ array' = [array EXCEPT ![index[c]] = ARRAY_ELEMENT_BUSY]
  /\ taken' = [taken EXCEPT ![index[c]] = @ \cup {c}]
  /\ UNCHANGED <<sem, array_counter, locals, got, strays>> /\ Quiet

Count(c) ==
  /\ Goto(c, "wcount", "wend")
  /\ array_counter' = array_counter + 1
  /\ done' = [done EXCEPT ![c] = (array_counter' = ARRAY_SIZE)]
  /\ UNCHANGED <<sem, array, buffer, index, rc, result, aux>> /\ Quiet

EndWrite(c) ==
  /\ Goto(c, "wend", "wrc")
  /\ ~ Blocks(sem, end_write)
  /\ sem' = After(sem, end_write)
  /\ UNCHANGED <<array, array_counter, locals, aux>> /\ Quiet

\* writer: code and letter are written, a failure of either only reported.
SendCode(c) ==
  /\ Goto(c, "wrc", IF result[c] # NUL THEN "wres" ELSE "wdone")
  /\ Sends(c) \/ UNCHANGED strays
  /\ UNCHANGED <<shared, locals, taken, got>> /\ Quiet

SendLetter(c) ==
  /\ Goto(c, "wres", "wdone")
  /\ \/ Sends(c) /\ got' = [got EXCEPT ![index[c]] = @ \cup {Peer(c)}]
     \/ UNCHANGED <<strays, got>>
  /\ UNCHANGED <<shared, locals, taken>> /\ Quiet

NextRequest(c) ==
  /\ ~ done[c]
  /\ Goto(c, "wdone", "idle")
  /\ ForgetLocals(c)
  /\ UNCHANGED <<shared, aux>> /\ Quiet

\* threadfunc: the array is used up.  The socket is closed, and its number kept;
CloseFull(c) ==
  /\ done[c]
  /\ Goto(c, "wdone", "wkill")
  /\ table' = [table EXCEPT ![fd[c]] = NoConn]
  /\ UNCHANGED <<shared, locals, fd, process, aux>>

\* Fault: the process is not signalled.
KillNobody(c) ==
  /\ Goto(c, "wkill", "idle")
  /\ ForgetLocals(c)
  /\ UNCHANGED <<shared, process, fd, table, aux>>

\* the process is signalled, and the loop goes on to read from that number.
KillSelf(c) ==
  /\ Goto(c, "wkill", "idle")
  /\ sigint' = TRUE
  /\ ForgetLocals(c)
  /\ UNCHANGED <<shared, mpc, fd, table, aux>>
-----------------------------------------------------------------------------
(* The process.                                                            *)

ProcessExit ==
  /\ Up
  /\ mpc' = "ended"
  /\ UNCHANGED <<shared, pc, locals, fd, sigint, table, aux>>

\* sigint_handler, in whatever thread: it closes the listening socket and exits.
Handler == sigint /\ ProcessExit

CtrlC ==
  /\ Up
  /\ sigint' = TRUE
  /\ UNCHANGED <<shared, pc, locals, fd, mpc, table, aux>>

\* A write to a connection that its client has closed raises SIGPIPE.
SigPipe(c) ==
  /\ pc[c] \in {"unknown", "rrc", "rsend", "wrc", "wres"}
  /\ Peer(c) # NoConn
  /\ ProcessExit

FreeFds == {n \in Fds : table[n] = NoConn}

Accept(c, n) ==
  /\ mpc = "accept"
  /\ pc[c] = "none"
  /\ n \in FreeFds /\ \A m \in FreeFds : n <= m
  /\ mpc' = "create"
  /\ pc' = [pc EXCEPT ![c] = "accepted"]
  /\ fd' = [fd EXCEPT ![c] = n]
  /\ table' = [table EXCEPT ![n] = c]
  /\ UNCHANGED <<shared, locals, sigint, aux>>

\* accept fails for want of a descriptor, or malloc fails: the server exits.
MainFails ==
  /\ \/ mpc = "accept" /\ FreeFds = {}
     \/ mpc = "create"
  /\ ProcessExit

Create(c) ==
  /\ mpc = "create"
  /\ Goto(c, "accepted", "idle")
  /\ mpc' = "accept"
  /\ UNCHANGED <<shared, locals, fd, sigint, table, aux>>

\* pthread_create fails: the connection is closed.
CreateFails(c) ==
  /\ mpc = "create"
  /\ pc[c] = "accepted"
  /\ mpc' = "accept"
  /\ CloseAndReturn(c)
  /\ UNCHANGED <<shared, sigint, aux>>
-----------------------------------------------------------------------------
Runs(c) ==
  \/ EnterRead(c) \/ SendOpError(c)
  \/ StartRead(c) \/ EndRead(c) \/ SendReadCode(c) \/ SendArray(c)
  \/ \E i \in Cells : Copy(c, i)
  \/ StartWrite(c) \/ Refuse(c) \/ TestFree(c) \/ Take(c) \/ Count(c) \/ EndWrite(c)
  \/ SendCode(c) \/ SendLetter(c) \/ NextRequest(c) \/ CloseFull(c) \/ KillSelf(c)

Outside(c) ==
  \/ ReadType(c) \/ ReadFails(c) \/ SendFails(c) \/ SigPipe(c)
  \/ \E i \in Indices : ReadIndex(c, i)

MainStep ==
  \/ MainFails
  \/ \E c \in Conns : Create(c) \/ CreateFails(c) \/ \E n \in Fds : Accept(c, n)

Next ==
  \/ CtrlC \/ Handler \/ MainStep
  \/ \E c \in Conns : Runs(c) \/ Outside(c)

Spec == Init /\ [][Next]_vars

\* A thread that is not waiting for its client runs, its semops retried oldest
\* first; main goes on from an accepted connection; a pending signal is taken.
FairSpec ==
  /\ Spec
  /\ \A c \in Conns : SF_vars(Runs(c) \/ SendFails(c))
  /\ WF_vars(\E c \in Conns : Create(c) \/ CreateFails(c))
  /\ WF_vars(Handler)
-----------------------------------------------------------------------------
(* What is claimed of the server.                                          *)

Busy == {i \in Cells : array[i] = ARRAY_ELEMENT_BUSY}

\* The counter that stops the server is the number of busy cells, but for the
\* one that the thread between the two stores has marked and not yet counted.
CounterExact ==
  array_counter + Cardinality({c \in Conns : pc[c] = "wcount"}) = Cardinality(Busy)

\* A letter is taken by one thread and is sent to that thread's client only: the
\* numbers that are used after they were closed never carry a letter.
LettersOnce ==
  \A i \in Cells :
    /\ \A c, d \in taken[i] : c = d
    /\ i \in Busy <=> taken[i] # {}
    /\ got[i] \subseteq taken[i]

\* The thread that finds the array used up closes its number and goes on to read
\* from it: from there a number may be used by two threads.  But an answer
\* reaches a connection it was not meant for only when the process has been told
\* to end, and with every letter gone.
StraysOnlyAtTheEnd ==
  strays # {} => sigint /\ array_counter = ARRAY_SIZE

\* A letter reaches the client that asked for it or nobody, and so does every
\* other answer until the end.
AnswersReachTheirClients == LettersOnce /\ StraysOnlyAtTheEnd

\* When the last letter has been taken the process ends.
FullStops == array_counter = ARRAY_SIZE ~> ~ Up

\* The shared array as the threads serve it; what number an answer goes to is no
\* part of it.
Phase(c) ==
  CASE ~ Up \/ pc[c] = "ended" -> "gone"
    [] Up /\ pc[c] \in {"none", "accepted", "idle", "reading", "unknown"} -> "idle"
    [] Up /\ pc[c] \in {"rstart", "copy"} -> "read"
    [] Up /\ pc[c] \in {"windex", "wreading", "wstart", "wtest", "wtake"} -> "write"
    [] OTHER -> "answered"

Pending(c) ==
  CASE Up /\ pc[c] \in {"rrc", "rsend"} ->
         [rc |-> OK, letter |-> NUL, array |-> buffer[c]]
    [] Up /\ pc[c] \in {"wcount", "wend", "wrc", "wres", "wdone", "wkill"} ->
         [rc |-> rc[c], letter |-> result[c], array |-> <<>>]
    [] OTHER -> [rc |-> OK, letter |-> NUL, array |-> <<>>]

Array == INSTANCE SharedArray WITH
           Clients <- Conns,
           cells   <- array,
           phase   <- [c \in Conns |-> Phase(c)],
           ans     <- [c \in Conns |-> Pending(c)]

\* Every execution of the server is one of the array on which each request
\* takes effect at once, up to the moment when the process ends.
Linearizable == Array!ASpec
=============================================================================
