--------------------------- MODULE ThrServProofs ---------------------------
(***************************************************************************)
(* Machine-checked facts about ThrServ, for any number of connections,     *)
(* cells and descriptors: the counter that ends the server is exact, no    *)
(* answer goes astray before the end that it brings about, and the threads *)
(* implement the shared array.                                             *)
(***************************************************************************)
EXTENDS ThrServ, FiniteSetTheorems, TLAPS

Writing == {"wtest", "wtake", "wcount", "wend"}
Serving == Writing \cup {"accepted", "idle", "reading", "unknown", "rstart", "copy", "rrc",
                         "rsend", "windex", "wreading", "wstart", "wrc", "wres", "wdone", "wkill"}
PCs == Serving \cup {"none", "ended"}

TypeInv ==
  /\ sem \in [Sems -> Nat] /\ array \in [Cells -> Contents] /\ array_counter \in Nat
  /\ pc \in [Conns -> PCs]
  /\ index \in [Conns -> Indices] /\ result \in [Conns -> Letters \cup {NUL}]
  /\ done \in [Conns -> BOOLEAN] /\ sigint \in BOOLEAN
  /\ fd \in [Conns -> Fds \cup {0}] /\ table \in [Fds -> Conns \cup {NoConn}]
  /\ taken \in [Cells -> SUBSET Conns] /\ got \in [Cells -> SUBSET Conns]
\* What the four semop arrays wait for, and which count they change.
LEMMA SemopFacts ==
  ASSUME NEW v \in [Sems -> Nat]
  PROVE  /\ Blocks(v, start_read) <=> v[WRITE_QUEUE] # 0 \/ v[ACTIVE_WRITER] # 0
         /\ After(v, start_read) = [v EXCEPT ![ACTIVE_READERS] = @ + 1]
         /\ Blocks(v, end_read) <=> v[ACTIVE_READERS] = 0
         /\ After(v, end_read) = [v EXCEPT ![ACTIVE_READERS] = @ - 1]
         /\ Blocks(v, start_write) <=> v[ACTIVE_READERS] # 0 \/ v[ACTIVE_WRITER] # 0
         /\ After(v, start_write) = [v EXCEPT ![ACTIVE_WRITER] = @ + 1]
         /\ Blocks(v, end_write) <=> v[ACTIVE_WRITER] = 0
         /\ After(v, end_write) = [v EXCEPT ![ACTIVE_WRITER] = @ - 1]
<1> USE DEF Buf, V, P, Level, Term, MaxOps, Sems, WRITE_QUEUE, READ_QUEUE, ACTIVE_WRITER,
        ACTIVE_READERS
<1>1. /\ v[0] \in Nat /\ v[1] \in Nat /\ v[2] \in Nat /\ v[3] \in Nat
      /\ Len(start_read) = 5 /\ Len(end_read) = 1 /\ Len(start_write) = 5 /\ Len(end_write) = 1
  BY DEF start_read, end_read, start_write, end_write
<1>2. \A n \in Sems : /\ Level(v, start_read, n, 5) = IF n = 3 THEN v[n] + 1 ELSE v[n]
                      /\ Level(v, end_read, n, 1) = IF n = 3 THEN v[n] - 1 ELSE v[n]
  BY <1>1 DEF start_read, end_read
<1>3. \A n \in Sems : /\ Level(v, start_write, n, 5) = IF n = 2 THEN v[n] + 1 ELSE v[n]
                      /\ Level(v, end_write, n, 1) = IF n = 2 THEN v[n] - 1 ELSE v[n]
  BY <1>1 DEF start_write, end_write
<1>4. Blocks(v, start_read) <=> v[0] # 0 \/ v[2] # 0
  BY <1>1 DEF start_read, Blocks
<1>5. Blocks(v, start_write) <=> v[3] # 0 \/ v[2] # 0
  BY <1>1 DEF start_write, Blocks
<1>6. (Blocks(v, end_read) <=> v[3] = 0) /\ (Blocks(v, end_write) <=> v[2] = 0)
  BY <1>1 DEF end_read, end_write, Blocks
<1> HIDE DEF Level
<1>7. /\ After(v, start_read) = [v EXCEPT ![3] = @ + 1]
      /\ After(v, end_read) = [v EXCEPT ![3] = @ - 1]
      /\ After(v, start_write) = [v EXCEPT ![2] = @ + 1]
      /\ After(v, end_write) = [v EXCEPT ![2] = @ - 1]
  BY <1>1, <1>2, <1>3 DEF After
<1> QED
  BY <1>4, <1>5, <1>6, <1>7

\* A letter is neither '\0' nor the busy mark.
LEMMA LetterFacts ==
  \A i \in Cells : Letter(i) \in Nat /\ Letter(i) # NUL /\ Letter(i) # ARRAY_ELEMENT_BUSY
<1> SUFFICES ASSUME NEW i \in Cells
             PROVE  Letter(i) \in Nat /\ Letter(i) # NUL /\ Letter(i) # ARRAY_ELEMENT_BUSY
  OBVIOUS
<1>1. i \in Nat /\ i <= 25
  BY ConstantsAssumption DEF Cells
<1>2. i % 26 = i
  BY <1>1
<1>3. Letter(i) = 97 + i
  BY <1>2 DEF Letter
<1> QED
  BY <1>1, <1>3 DEF NUL, ARRAY_ELEMENT_BUSY

\* A copy begins empty.
LEMMA EmptyCopy == <<>> \in Copies
  BY DEF Copies

\* memcpy adds one cell to a copy.
LEMMA ExtendedCopy ==
  ASSUME NEW a \in Copies, NEW i \in Cells, NEW x \in Contents
  PROVE  [j \in DOMAIN a \cup {i} |-> IF j = i THEN x ELSE a[j]] \in Copies
<1>1. PICK D \in SUBSET Cells : a \in [D -> Contents]
  BY DEF Copies
<1>2. [j \in DOMAIN a \cup {i} |-> IF j = i THEN x ELSE a[j]] \in [D \cup {i} -> Contents]
  BY <1>1
<1>3. D \cup {i} \in SUBSET Cells
  OBVIOUS
<1> QED
  BY <1>2, <1>3 DEF Copies

\* What the four semops do, told by what is counted.
LEMMA Semops ==
  ASSUME TypeInv, NEW c \in Conns
  PROVE  /\ StartRead(c) \/ EndRead(c) => /\ sem' \in [Sems -> Nat]
                                          /\ sem'[ACTIVE_WRITER] = sem[ACTIVE_WRITER]
         /\ StartWrite(c) => /\ sem' \in [Sems -> Nat]
                             /\ sem[ACTIVE_WRITER] = 0 /\ sem'[ACTIVE_WRITER] = 1
         /\ EndWrite(c) => /\ sem' \in [Sems -> Nat]
                           /\ sem'[ACTIVE_WRITER] = sem[ACTIVE_WRITER] - 1
<1>1. /\ sem \in [Sems -> Nat] /\ ACTIVE_WRITER \in Sems /\ ACTIVE_READERS \in Sems
      /\ ACTIVE_READERS # ACTIVE_WRITER
  BY DEF TypeInv, Sems, ACTIVE_WRITER, ACTIVE_READERS
<1>2. StartRead(c) => sem' = [sem EXCEPT ![ACTIVE_READERS] = @ + 1]
  BY <1>1, SemopFacts DEF StartRead
<1>3. EndRead(c) => sem' = [sem EXCEPT ![ACTIVE_READERS] = @ - 1] /\ sem[ACTIVE_READERS] # 0
  BY <1>1, SemopFacts DEF EndRead
<1>4. StartWrite(c) => sem' = [sem EXCEPT ![ACTIVE_WRITER] = @ + 1] /\ sem[ACTIVE_WRITER] = 0
  BY <1>1, SemopFacts DEF StartWrite
<1>5. EndWrite(c) => sem' = [sem EXCEPT ![ACTIVE_WRITER] = @ - 1] /\ sem[ACTIVE_WRITER] # 0
  BY <1>1, SemopFacts DEF EndWrite
<1> QED
  BY <1>1, <1>2, <1>3, <1>4, <1>5

\* Letters are neither the busy mark nor NUL.
LEMMA LetterIsPlain ==
  \A i \in Cells : /\ Letter(i) \in Letters /\ Letter(i) # ARRAY_ELEMENT_BUSY /\ Letter(i) # NUL
BY LetterFacts DEF Letters

\* Letters, '\0' and the busy mark differ.
LEMMA PlainValues ==
  /\ 0 \in Indices /\ NUL \notin Letters /\ NUL # ARRAY_ELEMENT_BUSY
  /\ \A l \in Letters : l # ARRAY_ELEMENT_BUSY
BY ConstantsAssumption, LetterFacts DEF Indices, Letters, NUL, ARRAY_ELEMENT_BUSY
-----------------------------------------------------------------------------
(* Types.                                                                  *)

\* A thread that closes its descriptor keeps the types.
LEMMA CloseTypes ==
  ASSUME TypeInv, NEW c \in Conns, CloseAndReturn(c), UNCHANGED <<shared, sigint, aux>>
  PROVE  TypeInv'
<1>1. /\ index' \in [Conns -> Indices] /\ result' \in [Conns -> Letters \cup {NUL}]
      /\ done' \in [Conns -> BOOLEAN]
  BY PlainValues DEF TypeInv, CloseAndReturn, ForgetLocals
<1>2. /\ pc' \in [Conns -> PCs] /\ fd' \in [Conns -> Fds \cup {0}]
      /\ table' \in [Fds -> Conns \cup {NoConn}]
  BY DEF TypeInv, CloseAndReturn, PCs
<1> QED
  BY <1>1, <1>2 DEF TypeInv, shared, aux

\* Every step keeps the types.
LEMMA TypeStep ==
  ASSUME TypeInv, [Next]_vars
  PROVE  TypeInv'
<1> USE PlainValues DEF Goto, Quiet, shared, locals, process, aux, ForgetLocals, CloseAndReturn, Sends, Peer
<1> USE DEF TypeInv, PCs, Serving, Writing
<1>1. ASSUME UNCHANGED vars PROVE TypeInv'
  BY <1>1 DEF vars
<1>2. ASSUME NEW c \in Conns, Runs(c) PROVE TypeInv'
  <2>1. CASE EnterRead(c)
    BY <2>1 DEF EnterRead
  <2>2. CASE SendOpError(c) \/ SendReadCode(c)
    BY <2>2 DEF SendOpError, SendReadCode
  <2>3. CASE StartRead(c)
    BY <2>3, Semops DEF StartRead
  <2>4. CASE EndRead(c)
    BY <2>4, Semops DEF EndRead
  <2>5. CASE SendArray(c)
    BY <2>5 DEF SendArray
  <2>6. ASSUME NEW i \in Cells, Copy(c, i) PROVE TypeInv'
    BY <2>6 DEF Copy
  <2>7. CASE StartWrite(c)
    BY <2>7, Semops DEF StartWrite
  <2>8. CASE Refuse(c)
    BY <2>8 DEF Refuse
  <2>9. CASE TestFree(c)
    BY <2>9 DEF TestFree, Contents
  <2>10. CASE Take(c)
    BY <2>10 DEF Take, Contents
  <2>11. CASE Count(c)
    BY <2>11 DEF Count
  <2>12. CASE EndWrite(c)
    BY <2>12, Semops DEF EndWrite
  <2>13. CASE SendCode(c)
    BY <2>13 DEF SendCode
  <2>14. CASE SendLetter(c)
    BY <2>14 DEF SendLetter
  <2>15. CASE NextRequest(c)
    BY <2>15 DEF NextRequest
  <2>16. CASE CloseFull(c)
    BY <2>16 DEF CloseFull
  <2>17. CASE KillSelf(c)
    BY <2>17 DEF KillSelf
  <2> QED
    BY <1>2, <2>1, <2>2, <2>3, <2>4, <2>5, <2>6, <2>7, <2>8, <2>9, <2>10, <2>11, <2>12,
       <2>13, <2>14, <2>15, <2>16, <2>17 DEF Runs
<1>3. ASSUME NEW c \in Conns, Outside(c) PROVE TypeInv'
  <2>1. CASE ReadType(c)
    BY <2>1 DEF ReadType
  <2>2. CASE ReadFails(c) \/ SendFails(c)
    <3>1. CloseAndReturn(c) /\ UNCHANGED <<shared, sigint, aux>>
      BY <2>2 DEF ReadFails, SendFails
    <3> HIDE DEF CloseAndReturn, TypeInv, shared, aux
    <3> QED
      BY <3>1, CloseTypes
  <2>3. CASE SigPipe(c)
    BY <2>3 DEF SigPipe, ProcessExit
  <2>4. ASSUME NEW i \in Indices, ReadIndex(c, i) PROVE TypeInv'
    BY <2>4 DEF ReadIndex
  <2> QED
    BY <1>3, <2>1, <2>2, <2>3, <2>4 DEF Outside
<1>4. ASSUME CtrlC \/ Handler \/ MainFails PROVE TypeInv'
  BY <1>4 DEF CtrlC, Handler, MainFails, ProcessExit
<1>5. ASSUME NEW c \in Conns, Create(c) \/ CreateFails(c) PROVE TypeInv'
  <2>1. CASE Create(c)
    BY <2>1 DEF Create
  <2>2. CASE CreateFails(c)
    <3>1. CloseAndReturn(c) /\ UNCHANGED <<shared, sigint, aux>>
      BY <2>2 DEF CreateFails
    <3> HIDE DEF CloseAndReturn, TypeInv, shared, aux
    <3> QED
      BY <3>1, CloseTypes
  <2> QED
    BY <1>5, <2>1, <2>2
<1>6. ASSUME NEW c \in Conns, NEW n \in Fds, Accept(c, n) PROVE TypeInv'
  BY <1>6 DEF Accept
<1> QED
  BY <1>1, <1>2, <1>3, <1>4, <1>5, <1>6 DEF Next, MainStep

\* The types hold in the beginning.
LEMMA TypeInit == Init => TypeInv
<1> SUFFICES ASSUME Init PROVE TypeInv
  OBVIOUS
<1>1. array \in [Cells -> Contents]
  BY LetterIsPlain DEF Init, Contents
<1> QED
  BY <1>1, PlainValues DEF Init, TypeInv, PCs
-----------------------------------------------------------------------------
(* The steps, by what they do to the thread they are of.                   *)

Outer == Serving \ (Writing \cup {"wkill"})

\* What is known of the locals of a thread, and what it has of the array.
Holder(c) == pc[c] = "wcount" \/ (pc[c] \in {"wend", "wrc", "wres"} /\ result[c] # NUL)

Frame(c) ==
  /\ result[c] # NUL => pc[c] \in {"wtake", "wcount", "wend", "wrc", "wres", "wdone", "wkill"}
  /\ pc[c] = "wres" => result[c] # NUL
  /\ pc[c] = "wtake" => index[c] \in Cells /\ array[index[c]] # ARRAY_ELEMENT_BUSY
  /\ Holder(c) => index[c] \in Cells /\ c \in taken[index[c]]

\* Nobody moves: a copy, the end of the process, a signal.
Still ==
  /\ UNCHANGED <<sem, array, array_counter, pc, index, result, done, fd, table, taken, got, strays>>
  /\ sigint' \in {sigint, TRUE}

OnlyLocals(c) ==
  /\ UNCHANGED <<array, array_counter, fd, table, taken, got, sigint>>
  /\ \A d \in Conns \ {c} : index'[d] = index[d] /\ result'[d] = result[d] /\ done'[d] = done[d]

\* A thread that is not inside as a writer goes on, and may send.
Plain(c, to) ==
  /\ pc[c] \in Outer /\ to \in Outer /\ pc' = [pc EXCEPT ![c] = to]
  /\ sem'[ACTIVE_WRITER] = sem[ACTIVE_WRITER]
  /\ OnlyLocals(c)
  /\ done'[c] \in {FALSE, done[c]}
  /\ strays' = strays \/ Sends(c)
  /\ \/ result'[c] = NUL /\ to # "wres"
     \/ pc[c] = "wrc" /\ to = "wres" /\ UNCHANGED <<result, index>> /\ result[c] # NUL

Closes(c) ==
  /\ pc[c] \in Outer /\ CloseAndReturn(c)
  /\ UNCHANGED <<shared, sigint, aux>>

Inside(c) ==
  \/ StartWrite(c) \/ Refuse(c) \/ TestFree(c) \/ Take(c) \/ Count(c) \/ EndWrite(c)
  \/ SendLetter(c) \/ CloseFull(c) \/ KillSelf(c)

\* Every step is of one of a few shapes.
LEMMA Steps ==
  ASSUME TypeInv, \A c \in Conns : Frame(c), [Next]_vars
  PROVE  \/ Still
         \/ \E c \in Conns : \/ Closes(c) \/ Inside(c)
                             \/ \E to \in PCs : Plain(c, to)
                             \/ \E n \in Fds : Accept(c, n)
<1> USE DEF Goto, Quiet, shared, locals, process, aux
<1> USE DEF Outer, Serving, Writing
<1>1. ASSUME UNCHANGED vars PROVE Still
  BY <1>1 DEF vars, Still
<1>2. ASSUME CtrlC \/ Handler \/ MainFails PROVE Still
  BY <1>2 DEF CtrlC, Handler, MainFails, ProcessExit, Still
<1>3. ASSUME NEW c \in Conns, SigPipe(c) \/ \E i \in Cells : Copy(c, i) PROVE Still
  BY <1>3 DEF SigPipe, Copy, ProcessExit, Still
<1>4. ASSUME NEW c \in Conns, ReadFails(c) \/ SendFails(c) \/ CreateFails(c) PROVE Closes(c)
  BY <1>4 DEF ReadFails, SendFails, CreateFails, Closes, CloseAndReturn
<1>5. ASSUME NEW c \in Conns,
             \/ EnterRead(c) \/ SendOpError(c) \/ StartRead(c) \/ EndRead(c) \/ SendReadCode(c)
             \/ ReadType(c) \/ (\E i \in Indices : ReadIndex(c, i)) \/ Create(c)
      PROVE  \E to \in PCs : Plain(c, to)
  <2>1. sem'[ACTIVE_WRITER] = sem[ACTIVE_WRITER] /\ UNCHANGED <<result, done>>
    BY <1>5, Semops DEF EnterRead, SendOpError, StartRead, EndRead, SendReadCode, ReadType,
                        ReadIndex, Create
  <2>2. OnlyLocals(c) /\ (strays' = strays \/ Sends(c))
    BY <1>5 DEF EnterRead, SendOpError, StartRead, EndRead, SendReadCode, ReadType,
                ReadIndex, Create, OnlyLocals, TypeInv
  <2>3. PICK to \in Outer \ {"wres", "wrc", "wdone"} :
               pc' = [pc EXCEPT ![c] = to] /\ pc[c] \in Outer \ {"wres", "wrc", "wdone"}
    BY <1>5 DEF EnterRead, SendOpError, StartRead, EndRead, SendReadCode, ReadType,
                ReadIndex, Create
  <2>4. result[c] = NUL
    BY <2>3 DEF Frame
  <2> QED
    BY <2>1, <2>2, <2>3, <2>4 DEF Plain, PCs
<1>6. ASSUME NEW c \in Conns, SendArray(c) \/ NextRequest(c)
      PROVE  Plain(c, "idle")
  BY <1>6 DEF SendArray, NextRequest, ForgetLocals, OnlyLocals, Plain, TypeInv
<1>7. ASSUME NEW c \in Conns, SendCode(c)
      PROVE  \E to \in PCs : Plain(c, to)
  <2>1. CASE result[c] # NUL
    BY <1>7, <2>1 DEF SendCode, OnlyLocals, Plain, PCs
  <2>2. CASE result[c] = NUL
    BY <1>7, <2>2 DEF SendCode, OnlyLocals, Plain, PCs
  <2> QED
    BY <2>1, <2>2
<1> QED
  BY <1>1, <1>2, <1>3, <1>4, <1>5, <1>6, <1>7
     DEF Next, MainStep, Runs, Outside, Inside, PCs
-----------------------------------------------------------------------------
(* One writer at a time.                                                   *)

OneWriter ==
  /\ \A c, d \in Conns : pc[c] \in Writing /\ pc[d] \in Writing => c = d
  /\ (\E c \in Conns : pc[c] \in Writing) => sem[ACTIVE_WRITER] = 1

\* OneWriter is inductive.
LEMMA OneWriterStep ==
  ASSUME TypeInv, OneWriter, \A c \in Conns : Frame(c), [Next]_vars
  PROVE  OneWriter'
<1> USE DEF Goto, Quiet
<1>1. pc \in [Conns -> PCs]
  BY DEF TypeInv
<1>2. CASE Still
  BY <1>2 DEF Still, OneWriter
<1>3. ASSUME NEW c \in Conns, NEW to \in PCs \ Writing, pc' = [pc EXCEPT ![c] = to],
             sem'[ACTIVE_WRITER] = sem[ACTIVE_WRITER]
      PROVE  OneWriter'
  BY <1>1, <1>3 DEF OneWriter
<1>4. ASSUME NEW c \in Conns, NEW to \in PCs, Plain(c, to) PROVE OneWriter'
  BY <1>3, <1>4 DEF Plain, Outer
<1>5. ASSUME NEW c \in Conns, Closes(c) PROVE OneWriter'
  BY <1>3, <1>5 DEF Closes, CloseAndReturn, shared, PCs, Writing
<1>6. ASSUME NEW c \in Conns, NEW n \in Fds, Accept(c, n) PROVE OneWriter'
  BY <1>3, <1>6 DEF Accept, shared, PCs, Serving, Writing
<1>7. ASSUME NEW c \in Conns, Inside(c) PROVE OneWriter'
  <2>1. CASE StartWrite(c)
    <3>1. pc' = [pc EXCEPT ![c] = "wtest"] /\ sem[ACTIVE_WRITER] = 0 /\ sem'[ACTIVE_WRITER] = 1
      BY <2>1, Semops DEF StartWrite
    <3>2. \A d \in Conns : pc[d] \notin Writing
      BY <3>1 DEF OneWriter
    <3>3. \A d \in Conns : pc'[d] \in Writing => d = c
      BY <1>1, <3>1, <3>2
    <3> QED
      BY <3>1, <3>3 DEF OneWriter
  <2>2. CASE EndWrite(c)
    <3>1. pc[c] = "wend" /\ pc' = [pc EXCEPT ![c] = "wrc"]
      BY <2>2 DEF EndWrite
    <3>2. \A d \in Conns : pc'[d] \notin Writing
      BY <1>1, <3>1 DEF OneWriter, Writing
    <3> QED
      BY <3>2 DEF OneWriter
  <2>3. CASE SendLetter(c) \/ CloseFull(c) \/ KillSelf(c)
    BY <1>3, <2>3 DEF SendLetter, CloseFull, KillSelf, shared, PCs, Serving, Writing
  <2>4. CASE Refuse(c) \/ TestFree(c) \/ Take(c) \/ Count(c)
    <3>1. /\ sem' = sem /\ pc[c] \in Writing
          /\ \E to \in Writing : pc' = [pc EXCEPT ![c] = to]
      BY <2>4 DEF Refuse, TestFree, Take, Count, shared, Writing
    <3> QED
      BY <1>1, <3>1 DEF OneWriter
  <2> QED
    BY <1>7, <2>1, <2>2, <2>3, <2>4 DEF Inside
<1> QED
  BY <1>2, <1>4, <1>5, <1>6, <1>7, Steps
-----------------------------------------------------------------------------
(* Letters.                                                                *)

LettersInPlace == \A i \in Cells : array[i] \in {Letter(i), ARRAY_ELEMENT_BUSY}
LettersInv == LettersInPlace /\ LettersOnce /\ \A c \in Conns : Frame(c)

\* A step of one thread that leaves the array and the records alone.
LEMMA PrivateStep ==
  ASSUME LettersInv, NEW c \in Conns, Frame(c)',
         UNCHANGED <<array, taken, got>>,
         \A d \in Conns \ {c} : /\ pc'[d] = pc[d] /\ index'[d] = index[d]
                                /\ result'[d] = result[d]
  PROVE  LettersInv'
<1>1. ASSUME NEW d \in Conns PROVE Frame(d)'
  BY DEF LettersInv, Frame, Holder
<1>2. LettersInPlace' /\ LettersOnce'
  BY DEF LettersInv, LettersInPlace, LettersOnce, Busy
<1> QED
  BY <1>1, <1>2 DEF LettersInv

\* A thread whose letter is on its way, or about to be taken, has a number of
\* its own.
Keeper(c) == pc[c] = "wtake" \/ Holder(c)
Own(c) == table[fd[c]] = c /\ \A d \in Conns \ {c} : fd[d] # fd[c]

\* A letter is taken by who is alone with the array, and stays taken.
LEMMA LettersStep ==
  ASSUME TypeInv, OneWriter, LettersInv, \A c \in Conns : Keeper(c) => Own(c), [Next]_vars
  PROVE  LettersInv'
<1> USE DEF Goto, Quiet
<1>1. /\ pc \in [Conns -> PCs] /\ index \in [Conns -> Indices]
      /\ result \in [Conns -> Letters \cup {NUL}] /\ array \in [Cells -> Contents]
      /\ taken \in [Cells -> SUBSET Conns] /\ got \in [Cells -> SUBSET Conns]
  BY DEF TypeInv
<1>0. \A c \in Conns : Frame(c)
  BY DEF LettersInv
<1>2. CASE Still
  BY <1>2 DEF Still, LettersInv, LettersInPlace, LettersOnce, Busy, Frame, Holder
<1>3. ASSUME NEW c \in Conns, NEW to \in PCs, Plain(c, to), got' = got PROVE LettersInv'
  <2>1. pc'[c] = to /\ \A d \in Conns \ {c} : pc'[d] = pc[d]
    BY <1>1, <1>3 DEF Plain
  <2>2. Frame(c)'
    BY <1>0, <1>3, <2>1 DEF Plain, OnlyLocals, Frame, Holder, Outer, Serving, Writing
  <2> QED
    BY <1>3, <2>1, <2>2, PrivateStep DEF Plain, OnlyLocals
<1>4. ASSUME NEW c \in Conns, Closes(c) PROVE LettersInv'
  <2>1. /\ pc'[c] = "ended" /\ result'[c] = NUL
        /\ \A d \in Conns \ {c} : /\ pc'[d] = pc[d] /\ index'[d] = index[d]
                                   /\ result'[d] = result[d]
    BY <1>1, <1>4 DEF Closes, CloseAndReturn, ForgetLocals
  <2>2. Frame(c)'
    BY <2>1 DEF Frame, Holder
  <2> QED
    BY <1>4, <2>1, <2>2, PrivateStep DEF Closes, shared, aux
<1>5. ASSUME NEW c \in Conns, NEW n \in Fds, Accept(c, n) PROVE LettersInv'
  <2>1. /\ pc[c] = "none" /\ pc'[c] = "accepted" /\ \A d \in Conns \ {c} : pc'[d] = pc[d]
        /\ UNCHANGED <<array, taken, got, index, result>>
    BY <1>1, <1>5 DEF Accept, shared, locals, aux
  <2>2. Frame(c)'
    BY <1>0, <2>1 DEF Frame, Holder
  <2> QED
    BY <2>1, <2>2, PrivateStep
<1>6. ASSUME NEW c \in Conns,
             \/ StartWrite(c) \/ Refuse(c) \/ TestFree(c) \/ Count(c) \/ EndWrite(c)
             \/ CloseFull(c) \/ KillSelf(c)
      PROVE  LettersInv'
  <2> USE DEF shared, locals, aux
  <2>1. Frame(c)
    BY <1>0
  <2>2. CASE StartWrite(c) \/ Refuse(c) \/ CloseFull(c)
    <3>1. /\ UNCHANGED <<array, taken, got, index, result>>
          /\ \/ pc[c] = "wstart" /\ pc' = [pc EXCEPT ![c] = "wtest"]
             \/ pc[c] = "wtest" /\ pc' = [pc EXCEPT ![c] = "wend"]
             \/ pc[c] = "wdone" /\ pc' = [pc EXCEPT ![c] = "wkill"]
      BY <2>2 DEF StartWrite, Refuse, CloseFull
    <3>2. Frame(c)'
      BY <1>1, <2>1, <3>1 DEF Frame, Holder
    <3> QED
      BY <1>1, <3>1, <3>2, PrivateStep
  <2>3. CASE TestFree(c)
    <3>1. /\ index[c] \in Cells /\ array[index[c]] # ARRAY_ELEMENT_BUSY
          /\ pc' = [pc EXCEPT ![c] = "wtake"]
          /\ result' = [result EXCEPT ![c] = array[index[c]]]
          /\ UNCHANGED <<array, taken, got, index>>
      BY <2>3 DEF TestFree
    <3>2. Frame(c)'
      BY <1>1, <3>1 DEF Frame, Holder
    <3> QED
      BY <1>1, <3>1, <3>2, PrivateStep
  <2>4. CASE Count(c) \/ EndWrite(c)
    <3>1. /\ UNCHANGED <<array, taken, got, index, result>>
          /\ \/ pc[c] = "wcount" /\ pc' = [pc EXCEPT ![c] = "wend"]
             \/ pc[c] = "wend" /\ pc' = [pc EXCEPT ![c] = "wrc"]
      BY <2>4 DEF Count, EndWrite
    <3>2. Frame(c)'
      BY <1>1, <2>1, <3>1 DEF Frame, Holder
    <3> QED
      BY <1>1, <3>1, <3>2, PrivateStep
  <2>5. CASE KillSelf(c)
    <3>1. /\ UNCHANGED <<array, taken, got>> /\ pc'[c] = "idle" /\ result'[c] = NUL
          /\ \A d \in Conns \ {c} : /\ pc'[d] = pc[d] /\ index'[d] = index[d]
                                     /\ result'[d] = result[d]
      BY <1>1, <2>5 DEF KillSelf, ForgetLocals
    <3>2. Frame(c)'
      BY <3>1 DEF Frame, Holder
    <3> QED
      BY <3>1, <3>2, PrivateStep
  <2> QED
    BY <1>6, <2>2, <2>3, <2>4, <2>5
<1>7. ASSUME NEW c \in Conns, Take(c) PROVE LettersInv'
  <2> DEFINE i == index[c]
  <2>1. /\ pc[c] = "wtake" /\ pc' = [pc EXCEPT ![c] = "wcount"]
        /\ array' = [array EXCEPT ![i] = ARRAY_ELEMENT_BUSY]
        /\ taken' = [taken EXCEPT ![i] = @ \cup {c}]
        /\ UNCHANGED <<index, result, got>>
    BY <1>7 DEF Take, locals
  <2>2. i \in Cells /\ array[i] # ARRAY_ELEMENT_BUSY
    BY <1>0, <2>1 DEF Frame
  <2>3. taken[i] = {} /\ got[i] = {}
    BY <1>1, <2>2 DEF LettersInv, LettersOnce, Busy
  <2>4. /\ taken'[i] = {c} /\ array'[i] = ARRAY_ELEMENT_BUSY
        /\ \A j \in Cells \ {i} : taken'[j] = taken[j] /\ array'[j] = array[j]
    BY <1>1, <2>1, <2>2, <2>3
  <2>5. pc'[c] = "wcount" /\ \A d \in Conns \ {c} : pc'[d] = pc[d]
    BY <1>1, <2>1
  <2>6. \A d \in Conns \ {c} : pc[d] # "wtake"
    BY <2>1 DEF OneWriter, Writing
  <2>7. LettersInPlace' /\ LettersOnce'
    <3>1. LettersInPlace'
      BY <2>4 DEF LettersInv, LettersInPlace
    <3>2. LettersOnce'
      BY <2>1, <2>3, <2>4 DEF LettersInv, LettersOnce, Busy
    <3> QED
      BY <3>1, <3>2
  <2>8. ASSUME NEW d \in Conns PROVE Frame(d)'
    <3>1. CASE d = c
      BY <2>1, <2>2, <2>4, <2>5, <3>1 DEF Frame, Holder
    <3>2. CASE d # c
      <4>1. \A j \in Cells : taken[j] \subseteq taken'[j]
        BY <2>3, <2>4
      <4> QED
        BY <1>0, <2>1, <2>5, <2>6, <3>2, <4>1 DEF Frame, Holder
    <3> QED
      BY <3>1, <3>2
  <2> QED
    BY <2>7, <2>8 DEF LettersInv
<1>8. ASSUME NEW c \in Conns, SendLetter(c) PROVE LettersInv'
  <2> DEFINE i == index[c]
  <2>1. Keeper(c) /\ i \in Cells /\ c \in taken[i]
    BY <1>0, <1>8 DEF SendLetter, Frame, Keeper, Holder
  <2>2. /\ pc[c] = "wres" /\ pc' = [pc EXCEPT ![c] = "wdone"]
        /\ got' = got \/ got' = [got EXCEPT ![i] = @ \cup {c}]
        /\ UNCHANGED <<array, taken, index, result>>
    BY <1>8, <2>1 DEF SendLetter, Sends, shared, locals, Peer, Own
  <2>3. pc'[c] = "wdone" /\ \A d \in Conns \ {c} : pc'[d] = pc[d]
    BY <1>1, <2>2
  <2>4. LettersInPlace'
    BY <2>2 DEF LettersInv, LettersInPlace
  <2>5. \A j \in Cells : got'[j] \subseteq taken[j]
    BY <1>1, <2>1, <2>2 DEF LettersInv, LettersOnce
  <2>6. LettersOnce'
    BY <2>2, <2>5 DEF LettersInv, LettersOnce, Busy
  <2>7. \A d \in Conns : Frame(d)'
    BY <1>0, <2>2, <2>3 DEF Frame, Holder
  <2> QED
    BY <2>4, <2>6, <2>7 DEF LettersInv
<1>9. ASSUME NEW c \in Conns, NEW to \in PCs, Plain(c, to) PROVE LettersInv'
  BY <1>3, <1>9 DEF Plain, OnlyLocals
<1> QED
  BY <1>0, <1>2, <1>4, <1>5, <1>6, <1>7, <1>8, <1>9, Steps DEF Inside
-----------------------------------------------------------------------------
(* The counter.                                                            *)

Counting == {c \in Conns : pc[c] = "wcount"}

\* A thread knows that the array is used up only when it is.
DoneIsFull == \A c \in Conns : done[c] \/ pc[c] = "wkill" => array_counter = ARRAY_SIZE

CounterInv == CounterExact /\ DoneIsFull

\* The cells and who counts them are finitely many.
LEMMA Finite ==
  /\ IsFiniteSet(Cells) /\ Cardinality(Cells) = ARRAY_SIZE
  /\ IsFiniteSet(Busy) /\ IsFiniteSet(Counting)
  /\ Cardinality(Busy) \in Nat /\ Cardinality(Counting) \in Nat
  /\ Cardinality(Busy) <= ARRAY_SIZE
<1>1. IsFiniteSet(Cells) /\ Cardinality(Cells) = ARRAY_SIZE
  <2>1. 0 \in Int /\ ARRAY_SIZE - 1 \in Int /\ ARRAY_SIZE \in 1 .. 26
    BY ConstantsAssumption
  <2>2. Cardinality(0 .. (ARRAY_SIZE - 1)) = IF 0 > ARRAY_SIZE - 1 THEN 0 ELSE (ARRAY_SIZE - 1) - 0 + 1
    BY <2>1, FS_Interval
  <2>3. IsFiniteSet(0 .. (ARRAY_SIZE - 1))
    BY <2>1, FS_Interval
  <2> QED
    BY <2>1, <2>2, <2>3 DEF Cells
<1>2. Busy \subseteq Cells /\ Counting \subseteq Conns
  BY DEF Busy, Counting
<1>3. IsFiniteSet(Busy) /\ Cardinality(Busy) <= Cardinality(Cells)
  BY <1>1, <1>2, FS_Subset
<1>4. IsFiniteSet(Counting)
  BY <1>2, ConstantsAssumption, FS_Subset
<1> QED
  BY <1>1, <1>3, <1>4, FS_CardinalityType

\* While a cell is free, or marked and not counted, the counter is below its end.
LEMMA Room ==
  ASSUME TypeInv, CounterExact
  PROVE  /\ array_counter <= ARRAY_SIZE
         /\ \A i \in Cells : array[i] # ARRAY_ELEMENT_BUSY => array_counter < ARRAY_SIZE
         /\ \A c \in Conns : pc[c] = "wcount" => array_counter < ARRAY_SIZE
<1>1. /\ array_counter + Cardinality(Counting) = Cardinality(Busy)
      /\ array_counter \in Nat /\ ARRAY_SIZE \in Nat
  BY ConstantsAssumption DEF CounterExact, Counting, TypeInv
<1>2. array_counter <= ARRAY_SIZE
  BY <1>1, Finite
<1>3. ASSUME NEW i \in Cells, array[i] # ARRAY_ELEMENT_BUSY
      PROVE  array_counter < ARRAY_SIZE
  <2>1. Busy \subseteq Cells \ {i}
    BY <1>3 DEF Busy
  <2>2. IsFiniteSet(Cells \ {i}) /\ Cardinality(Cells \ {i}) = ARRAY_SIZE - 1
    BY Finite, FS_RemoveElement
  <2>3. Cardinality(Busy) <= ARRAY_SIZE - 1
    BY <2>1, <2>2, FS_Subset
  <2> QED
    BY <1>1, <2>3, Finite
<1>4. ASSUME NEW c \in Conns, pc[c] = "wcount"
      PROVE  array_counter < ARRAY_SIZE
  <2>1. Counting # {}
    BY <1>4 DEF Counting
  <2>2. Cardinality(Counting) # 0
    BY <2>1, Finite, FS_EmptySet
  <2> QED
    BY <1>1, <2>2, Finite
<1> QED
  BY <1>2, <1>3, <1>4

\* The counter is the number of busy cells, but for the one being counted.
LEMMA CounterStep ==
  ASSUME TypeInv, OneWriter, LettersInv, CounterInv, [Next]_vars
  PROVE  CounterInv'
<1> USE DEF Goto, Quiet
<1>1. /\ pc \in [Conns -> PCs] /\ array \in [Cells -> Contents] /\ array_counter \in Nat
      /\ done \in [Conns -> BOOLEAN]
  BY DEF TypeInv
<1>0. \A c \in Conns : Frame(c)
  BY DEF LettersInv
<1>2. ASSUME UNCHANGED <<array, array_counter>>,
             \A d \in Conns : /\ pc'[d] = "wcount" <=> pc[d] = "wcount"
                              /\ done'[d] \/ pc'[d] = "wkill" =>
                                   done[d] \/ pc[d] = "wkill" \/ array_counter = ARRAY_SIZE
      PROVE  CounterInv'
  <2>1. Counting' = Counting /\ Busy' = Busy
    BY <1>2 DEF Counting, Busy
  <2> QED
    BY <1>2, <2>1 DEF CounterInv, CounterExact, DoneIsFull, Counting
<1>3. CASE Still
  BY <1>2, <1>3 DEF Still
<1>4. ASSUME NEW c \in Conns, NEW to \in PCs, Plain(c, to) PROVE CounterInv'
  <2>1. /\ pc[c] # "wcount" /\ to \notin {"wcount", "wkill"} /\ pc'[c] = to
        /\ done'[c] = FALSE \/ done'[c] = done[c]
        /\ \A d \in Conns \ {c} : pc'[d] = pc[d] /\ done'[d] = done[d]
    BY <1>1, <1>4 DEF Plain, OnlyLocals, Outer, Serving, Writing
  <2> QED
    BY <1>2, <1>4, <2>1 DEF Plain, OnlyLocals
<1>5. ASSUME NEW c \in Conns, Closes(c) PROVE CounterInv'
  <2>1. /\ pc[c] # "wcount" /\ pc'[c] = "ended" /\ done'[c] = FALSE
        /\ \A d \in Conns \ {c} : pc'[d] = pc[d] /\ done'[d] = done[d]
    BY <1>1, <1>5 DEF Closes, CloseAndReturn, ForgetLocals, Outer, Writing
  <2> QED
    BY <1>2, <1>5, <2>1 DEF Closes, shared
<1>6. ASSUME NEW c \in Conns, NEW n \in Fds, Accept(c, n) PROVE CounterInv'
  <2>1. /\ pc[c] = "none" /\ pc'[c] = "accepted" /\ done' = done
        /\ \A d \in Conns \ {c} : pc'[d] = pc[d]
    BY <1>1, <1>6 DEF Accept, locals
  <2> QED
    BY <1>2, <1>6, <2>1 DEF Accept, shared
<1>7. ASSUME NEW c \in Conns,
             \/ StartWrite(c) \/ Refuse(c) \/ TestFree(c) \/ EndWrite(c)
             \/ SendLetter(c) \/ CloseFull(c) \/ KillSelf(c)
      PROVE  CounterInv'
  <2> USE DEF shared, locals, aux
  <2>1. CASE StartWrite(c) \/ TestFree(c) \/ EndWrite(c) \/ SendLetter(c)
    <3>1. /\ UNCHANGED <<array, array_counter, done>> /\ pc[c] # "wcount"
          /\ \E to \in {"wtest", "wtake", "wrc", "wdone"} : pc' = [pc EXCEPT ![c] = to]
      BY <2>1 DEF StartWrite, TestFree, EndWrite, SendLetter
    <3> QED
      BY <1>1, <1>2, <3>1
  <2>2. CASE Refuse(c)
    <3>1. /\ UNCHANGED <<array, array_counter>> /\ pc[c] = "wtest"
          /\ pc' = [pc EXCEPT ![c] = "wend"]
          /\ done' = [done EXCEPT ![c] = (array_counter = ARRAY_SIZE)]
      BY <2>2 DEF Refuse
    <3>2. /\ pc'[c] = "wend" /\ done'[c] = (array_counter = ARRAY_SIZE)
          /\ \A d \in Conns \ {c} : pc'[d] = pc[d] /\ done'[d] = done[d]
      BY <1>1, <3>1
    <3> QED
      BY <1>2, <3>1, <3>2
  <2>3. CASE CloseFull(c)
    <3>1. /\ UNCHANGED <<array, array_counter, done>> /\ pc[c] = "wdone" /\ done[c]
          /\ pc' = [pc EXCEPT ![c] = "wkill"]
      BY <2>3 DEF CloseFull
    <3> QED
      BY <1>1, <1>2, <3>1
  <2>4. CASE KillSelf(c)
    <3>1. /\ UNCHANGED <<array, array_counter>> /\ pc[c] = "wkill"
          /\ pc' = [pc EXCEPT ![c] = "idle"] /\ done' = [done EXCEPT ![c] = FALSE]
      BY <2>4 DEF KillSelf, ForgetLocals
    <3>2. /\ pc'[c] = "idle" /\ done'[c] = FALSE
          /\ \A d \in Conns \ {c} : pc'[d] = pc[d] /\ done'[d] = done[d]
      BY <1>1, <3>1
    <3> QED
      BY <1>2, <3>1, <3>2
  <2> QED
    BY <1>7, <2>1, <2>2, <2>3, <2>4
<1>8. ASSUME NEW c \in Conns, Take(c) PROVE CounterInv'
  <2> DEFINE i == index[c]
  <2>1. /\ pc[c] = "wtake" /\ pc' = [pc EXCEPT ![c] = "wcount"]
        /\ array' = [array EXCEPT ![i] = ARRAY_ELEMENT_BUSY]
        /\ UNCHANGED <<array_counter, done>>
    BY <1>8 DEF Take, locals
  <2>2. i \in Cells /\ array[i] # ARRAY_ELEMENT_BUSY
    BY <1>0, <2>1 DEF Frame
  <2>3. Busy' = Busy \cup {i} /\ i \notin Busy
    BY <1>1, <2>1, <2>2 DEF Busy
  <2>4. Counting = {}
    BY <2>1 DEF Counting, OneWriter, Writing
  <2>5. Counting' = {c}
    BY <1>1, <2>1, <2>4 DEF Counting
  <2>6. Cardinality(Busy') = Cardinality(Busy) + 1
    BY <2>3, Finite, FS_AddElement
  <2>7. Cardinality(Counting) = 0 /\ Cardinality(Counting') = 1
    BY <2>4, <2>5, FS_EmptySet, FS_Singleton
  <2>8. CounterExact'
    BY <1>1, <2>1, <2>6, <2>7, Finite DEF CounterInv, CounterExact, Counting
  <2>9. DoneIsFull'
    BY <1>1, <2>1 DEF CounterInv, DoneIsFull
  <2> QED
    BY <2>8, <2>9 DEF CounterInv
<1>9. ASSUME NEW c \in Conns, Count(c) PROVE CounterInv'
  <2>1. /\ pc[c] = "wcount" /\ pc' = [pc EXCEPT ![c] = "wend"]
        /\ array' = array /\ array_counter' = array_counter + 1
        /\ done' = [done EXCEPT ![c] = (array_counter' = ARRAY_SIZE)]
    BY <1>9 DEF Count
  <2>2. Counting = {c} /\ Counting' = {}
    BY <1>1, <2>1 DEF Counting, OneWriter, Writing
  <2>3. Cardinality(Counting) = 1 /\ Cardinality(Counting') = 0
    BY <2>2, FS_EmptySet, FS_Singleton
  <2>4. CounterExact'
    BY <1>1, <2>1, <2>3, Finite DEF CounterInv, CounterExact, Counting, Busy
  <2>5. array_counter < ARRAY_SIZE
    BY <2>1, Room DEF CounterInv
  <2>6. \A d \in Conns : ~done[d] /\ pc[d] # "wkill"
    BY <1>1, <2>5, ConstantsAssumption DEF CounterInv, DoneIsFull
  <2>7. /\ pc'[c] = "wend" /\ done'[c] = (array_counter' = ARRAY_SIZE)
        /\ \A d \in Conns \ {c} : pc'[d] = pc[d] /\ done'[d] = done[d]
    BY <1>1, <2>1
  <2>8. DoneIsFull'
    BY <2>6, <2>7 DEF DoneIsFull
  <2> QED
    BY <2>4, <2>8 DEF CounterInv
<1> QED
  BY <1>0, <1>3, <1>4, <1>5, <1>6, <1>7, <1>8, <1>9, Steps DEF Inside
-----------------------------------------------------------------------------
(* Numbers of descriptors.  A thread that closes its number and keeps it is *)
(* dangerous to whoever is given that number next; but then every letter is *)
(* taken, and those that were taken before have numbers of their own.       *)

Serves(c) == pc[c] \in Serving

Numbers ==
  /\ \A c \in Conns : Serves(c) => fd[c] \in Fds
  /\ \A c \in Conns : ~Serves(c) => fd[c] = 0
  /\ \A n \in Fds : table[n] # NoConn => fd[table[n]] = n
  /\ \A c \in Conns : Keeper(c) => Own(c)
  /\ array_counter < ARRAY_SIZE => \A c \in Conns : Serves(c) => Own(c)
  /\ ~sigint => \A c \in Conns : Serves(c) /\ pc[c] # "wkill" => table[fd[c]] = c

\* A thread that keeps its number goes on.
LEMMA NumbersMove ==
  ASSUME TypeInv, Numbers, NEW c \in Conns, NEW to \in Serving \ {"wkill"},
         Serves(c), pc[c] # "wkill", pc' = [pc EXCEPT ![c] = to],
         UNCHANGED <<fd, table, sigint>>,
         array_counter' \in Nat, array_counter' >= array_counter,
         \A d \in Conns \ {c} : result'[d] = result[d],
         Keeper(c)' => Keeper(c) \/ array_counter < ARRAY_SIZE
  PROVE  Numbers'
<1>1. pc'[c] = to /\ \A d \in Conns \ {c} : pc'[d] = pc[d]
  BY DEF TypeInv
<1>2. \A d \in Conns : Serves(d)' <=> Serves(d)
  BY <1>1 DEF Serves
<1>3. \A d \in Conns : Own(d)' <=> Own(d)
  BY DEF Own
<1>4. \A d \in Conns \ {c} : Keeper(d)' <=> Keeper(d)
  BY <1>1 DEF Keeper, Holder
<1>5. array_counter' < ARRAY_SIZE => array_counter < ARRAY_SIZE
  BY ConstantsAssumption DEF TypeInv
<1> QED
  BY <1>1, <1>2, <1>3, <1>4, <1>5 DEF Numbers

\* A thread that closes its number keeps what is known of the numbers.
LEMMA NumbersClose ==
  ASSUME TypeInv, Numbers, NEW c \in Conns, Closes(c)
  PROVE  Numbers'
<1>1. /\ Serves(c) /\ pc[c] # "wkill" /\ fd[c] \in Fds
      /\ pc' = [pc EXCEPT ![c] = "ended"] /\ table' = [table EXCEPT ![fd[c]] = NoConn]
      /\ fd' = [fd EXCEPT ![c] = 0] /\ UNCHANGED <<array_counter, sigint>>
      /\ result' = [result EXCEPT ![c] = NUL]
  BY DEF Closes, CloseAndReturn, ForgetLocals, shared, Outer, Serves, Numbers
<1>2. /\ pc'[c] = "ended" /\ fd'[c] = 0 /\ table'[fd[c]] = NoConn
      /\ \A d \in Conns \ {c} : pc'[d] = pc[d] /\ fd'[d] = fd[d] /\ result'[d] = result[d]
      /\ \A n \in Fds \ {fd[c]} : table'[n] = table[n]
  BY <1>1 DEF TypeInv
<1>3. ~Serves(c)' /\ ~Keeper(c)' /\ \A d \in Conns \ {c} : Serves(d)' = Serves(d)
  BY <1>2 DEF Serves, Serving, Writing, Keeper, Holder
<1>4. \A d \in Conns \ {c} : Keeper(d)' <=> Keeper(d)
  BY <1>2 DEF Keeper, Holder
<1>5. ASSUME NEW d \in Conns \ {c}, Own(d), Serves(d)
      PROVE  Own(d)'
  <2>1. fd[d] # fd[c] /\ fd[d] \in Fds
    BY <1>5 DEF Own, Numbers
  <2>2. fd'[d] = fd[d] /\ table'[fd[d]] = d
    BY <1>2, <1>5, <2>1 DEF Own
  <2>3. ASSUME NEW e \in Conns \ {d} PROVE fd'[e] # fd[d]
    BY <1>2, <1>5, <2>1, <2>3 DEF Own, Fds
  <2> QED
    BY <2>2, <2>3 DEF Own
<1>6. ASSUME NEW d \in Conns, Keeper(d) PROVE Serves(d)
  BY <1>6 DEF Keeper, Holder, Serves, Serving, Writing
<1>7. ASSUME NEW n \in Fds, table'[n] # NoConn PROVE fd'[table'[n]] = n
  <2>1. n # fd[c] /\ table'[n] = table[n]
    BY <1>2, <1>7
  <2>2. table[n] \in Conns /\ fd[table[n]] = n
    BY <1>7, <2>1 DEF TypeInv, Numbers
  <2> QED
    BY <1>2, <2>1, <2>2
<1>8. ASSUME ~sigint, NEW d \in Conns \ {c}, Serves(d), pc[d] # "wkill"
      PROVE  table'[fd[d]] = d
  <2>1. table[fd[d]] = d /\ table[fd[c]] = c /\ fd[d] \in Fds
    BY <1>1, <1>8 DEF Numbers
  <2> QED
    BY <1>2, <2>1
<1>9. /\ \A d \in Conns : Serves(d)' => fd'[d] \in Fds
      /\ \A d \in Conns : ~Serves(d)' => fd'[d] = 0
  BY <1>2, <1>3 DEF Numbers
<1>10. \A d \in Conns : Keeper(d)' => Own(d)'
  BY <1>3, <1>4, <1>5, <1>6 DEF Numbers
<1>11. array_counter' < ARRAY_SIZE => \A d \in Conns : Serves(d)' => Own(d)'
  BY <1>1, <1>3, <1>5 DEF Numbers
<1>12. ~sigint' => \A d \in Conns : Serves(d)' /\ pc'[d] # "wkill" => table'[fd'[d]] = d
  BY <1>1, <1>2, <1>3, <1>8
<1> QED
  BY <1>7, <1>9, <1>10, <1>11, <1>12 DEF Numbers

\* So does a connection that is given a number, an old one perhaps.
LEMMA NumbersAccept ==
  ASSUME TypeInv, Numbers, NEW c \in Conns, NEW n \in Fds, Accept(c, n)
  PROVE  Numbers'
<1>1. /\ pc[c] = "none" /\ table[n] = NoConn /\ pc' = [pc EXCEPT ![c] = "accepted"]
      /\ fd' = [fd EXCEPT ![c] = n] /\ table' = [table EXCEPT ![n] = c]
      /\ UNCHANGED <<array_counter, sigint, result>>
  BY DEF Accept, FreeFds, shared, locals
<1>2. /\ pc'[c] = "accepted" /\ fd'[c] = n /\ table'[n] = c
      /\ \A d \in Conns \ {c} : pc'[d] = pc[d] /\ fd'[d] = fd[d]
      /\ \A m \in Fds \ {n} : table'[m] = table[m]
  BY <1>1 DEF TypeInv
<1>3. Serves(c)' /\ ~Keeper(c)' /\ \A d \in Conns \ {c} : Serves(d)' = Serves(d)
  BY <1>2 DEF Serves, Serving, Keeper, Holder
<1>4. \A d \in Conns \ {c} : Keeper(d)' <=> Keeper(d)
  BY <1>1, <1>2 DEF Keeper, Holder
<1>5. ASSUME NEW d \in Conns \ {c}, Own(d), Serves(d)
      PROVE  Own(d)' /\ fd[d] # n
  <2>1. fd[d] \in Fds /\ table[fd[d]] = d /\ d # NoConn
    BY <1>5, ConstantsAssumption DEF Own, Numbers
  <2>2. fd[d] # n
    BY <1>1, <2>1
  <2> QED
    BY <1>2, <1>5, <2>1, <2>2 DEF Own
<1>6. ASSUME NEW d \in Conns, Keeper(d) PROVE Serves(d)
  BY <1>6 DEF Keeper, Holder, Serves, Serving, Writing
<1>7. ASSUME NEW m \in Fds, table'[m] # NoConn PROVE fd'[table'[m]] = m
  <2>1. CASE m = n
    BY <1>2, <2>1
  <2>2. CASE m # n
    <3>1. table'[m] = table[m] /\ table[m] \in Conns /\ fd[table[m]] = m
      BY <1>2, <1>7, <2>2 DEF TypeInv, Numbers
    <3>2. ~Serves(c) /\ fd[c] = 0 /\ 0 \notin Fds
      BY <1>1 DEF Numbers, Serves, Serving, Writing, Fds
    <3> QED
      BY <1>2, <3>1, <3>2
  <2> QED
    BY <2>1, <2>2
<1>8. /\ \A d \in Conns : Serves(d)' => fd'[d] \in Fds
      /\ \A d \in Conns : ~Serves(d)' => fd'[d] = 0
  BY <1>2, <1>3 DEF Numbers
<1>9. \A d \in Conns : Keeper(d)' => Own(d)'
  BY <1>3, <1>4, <1>5, <1>6 DEF Numbers
<1>10. ASSUME array_counter < ARRAY_SIZE, NEW d \in Conns, Serves(d)'
       PROVE  Own(d)'
  <2>1. CASE d # c
    BY <1>3, <1>5, <1>10, <2>1 DEF Numbers
  <2>2. CASE d = c
    <3>1. ASSUME NEW e \in Conns \ {c} PROVE fd[e] # n
      <4>1. CASE Serves(e)
        BY <1>5, <1>10, <4>1 DEF Numbers
      <4>2. CASE ~Serves(e)
        BY <4>2 DEF Numbers, Fds
      <4> QED
        BY <4>1, <4>2
    <3> QED
      BY <1>2, <2>2, <3>1 DEF Own
  <2> QED
    BY <2>1, <2>2
<1>11. ASSUME ~sigint, NEW d \in Conns, Serves(d)', pc'[d] # "wkill"
       PROVE  table'[fd'[d]] = d
  <2>1. CASE d = c
    BY <1>2, <2>1
  <2>2. CASE d # c
    <3>1. table[fd[d]] = d /\ fd[d] \in Fds /\ d # NoConn
      BY <1>2, <1>3, <1>11, <2>2, ConstantsAssumption DEF Numbers
    <3> QED
      BY <1>1, <1>2, <2>2, <3>1
  <2> QED
    BY <2>1, <2>2
<1> QED
  BY <1>1, <1>7, <1>8, <1>9, <1>10, <1>11 DEF Numbers

\* The thread that closes its number and keeps it.
LEMMA NumbersFull ==
  ASSUME TypeInv, Numbers, CounterInv, NEW c \in Conns, CloseFull(c) \/ KillSelf(c)
  PROVE  Numbers'
<1> USE DEF Goto, shared, locals
<1>1. CASE CloseFull(c)
  <2>1. /\ pc[c] = "wdone" /\ done[c] /\ pc' = [pc EXCEPT ![c] = "wkill"]
        /\ table' = [table EXCEPT ![fd[c]] = NoConn]
        /\ UNCHANGED <<fd, result, array_counter, sigint>>
    BY <1>1 DEF CloseFull, process
  <2>2. array_counter = ARRAY_SIZE /\ array_counter \in Nat
    BY <2>1 DEF CounterInv, DoneIsFull, TypeInv
  <2>3. Serves(c) /\ fd[c] \in Fds
    BY <2>1 DEF Serves, Serving, Numbers
  <2>4. /\ pc'[c] = "wkill" /\ table'[fd[c]] = NoConn
        /\ \A d \in Conns \ {c} : pc'[d] = pc[d]
        /\ \A n \in Fds \ {fd[c]} : table'[n] = table[n]
    BY <2>1, <2>3 DEF TypeInv
  <2>5. \A d \in Conns : Serves(d)' = Serves(d)
    BY <2>1, <2>4 DEF Serves, Serving
  <2>6. \A d \in Conns : Keeper(d)' => Keeper(d) /\ d # c
    BY <2>1, <2>4 DEF Keeper, Holder
  <2>7. ASSUME NEW d \in Conns, Keeper(d), d # c PROVE Own(d)'
    <3>1. Own(d) /\ Serves(d)
      BY <2>7 DEF Numbers, Keeper, Holder, Serves, Serving, Writing
    <3>2. fd[d] # fd[c] /\ fd[d] \in Fds
      BY <2>7, <3>1 DEF Own, Numbers
    <3> QED
      BY <2>1, <2>4, <3>1, <3>2 DEF Own
  <2>8. ASSUME ~sigint, NEW d \in Conns, Serves(d), pc'[d] # "wkill"
        PROVE  table'[fd[d]] = d
    <3>1. table[fd[d]] = d /\ table[fd[c]] = c /\ d # c /\ fd[d] \in Fds
      BY <2>1, <2>3, <2>4, <2>8 DEF Numbers
    <3> QED
      BY <2>4, <3>1
  <2>9. \A n \in Fds : table'[n] # NoConn => fd[table'[n]] = n
    BY <2>4 DEF Numbers
  <2> QED
    BY <2>1, <2>2, <2>5, <2>6, <2>7, <2>8, <2>9 DEF Numbers
<1>2. CASE KillSelf(c)
  <2>1. /\ pc[c] = "wkill" /\ pc' = [pc EXCEPT ![c] = "idle"] /\ sigint' = TRUE
        /\ UNCHANGED <<fd, table, array_counter>>
        /\ result' = [result EXCEPT ![c] = NUL]
    BY <1>2 DEF KillSelf, ForgetLocals
  <2>2. array_counter = ARRAY_SIZE /\ array_counter \in Nat
    BY <2>1 DEF CounterInv, DoneIsFull, TypeInv
  <2>3. /\ pc'[c] = "idle"
        /\ \A d \in Conns \ {c} : pc'[d] = pc[d] /\ result'[d] = result[d]
    BY <2>1 DEF TypeInv
  <2>4. \A d \in Conns : Serves(d)' = Serves(d)
    BY <2>1, <2>3 DEF Serves, Serving
  <2>5. \A d \in Conns : Keeper(d)' => Keeper(d)
    BY <2>3 DEF Keeper, Holder
  <2> QED
    BY <2>1, <2>2, <2>4, <2>5 DEF Numbers, Own
<1> QED
  BY <1>1, <1>2

\* Numbers is inductive.
LEMMA NumbersStep ==
  ASSUME TypeInv, LettersInv, CounterInv, Numbers, [Next]_vars
  PROVE  Numbers'
<1> USE DEF Goto, Quiet, shared, locals, process, aux
<1>0. (\A c \in Conns : Frame(c)) /\ array_counter \in Nat
  BY DEF LettersInv, TypeInv
<1>1. CASE Still
  <2>1. Numbers /\ UNCHANGED <<fd, table, pc, result, array_counter>> /\ (sigint' = sigint \/ sigint' = TRUE)
    BY <1>1 DEF Still
  <2> QED
    BY <2>1 DEF Numbers, Keeper, Holder, Own, Serves
<1>2. ASSUME NEW c \in Conns, NEW to \in PCs, Plain(c, to) PROVE Numbers'
  <2>1. Keeper(c)' => Keeper(c)
    BY <1>2 DEF Plain, Keeper, Holder, Outer, Serving, Writing, TypeInv
  <2>2. to \in Serving \ {"wkill"} /\ Serves(c) /\ pc[c] # "wkill" /\ pc' = [pc EXCEPT ![c] = to]
    BY <1>2 DEF Plain, Outer, Serves
  <2>3. /\ UNCHANGED <<fd, table, sigint>> /\ array_counter' \in Nat /\ array_counter' >= array_counter
        /\ \A d \in Conns \ {c} : result'[d] = result[d]
    BY <1>0, <1>2 DEF Plain, OnlyLocals
  <2> QED
    BY <2>1, <2>2, <2>3, NumbersMove
<1>3. ASSUME NEW c \in Conns,
             StartWrite(c) \/ Refuse(c) \/ TestFree(c) \/ Take(c) \/ EndWrite(c) \/ SendLetter(c)
      PROVE  Numbers'
  <2>1. /\ UNCHANGED <<fd, table, sigint, array_counter>>
        /\ \A d \in Conns \ {c} : result'[d] = result[d]
    BY <1>3 DEF StartWrite, Refuse, TestFree, Take, EndWrite, SendLetter, TypeInv
  <2>2. PICK to \in {"wtest", "wend", "wtake", "wcount", "wrc", "wdone"} :
               /\ pc' = [pc EXCEPT ![c] = to]
               /\ pc[c] \in {"wstart", "wtest", "wtake", "wend", "wres"}
    BY <1>3 DEF StartWrite, Refuse, TestFree, Take, EndWrite, SendLetter
  <2>3. pc'[c] = to
    BY <2>2 DEF TypeInv
  <2>4. Keeper(c)' => Keeper(c) \/ array_counter < ARRAY_SIZE
    <3>1. CASE StartWrite(c) \/ Refuse(c) \/ SendLetter(c)
      <4>1. pc'[c] \in {"wtest", "wdone"} \/ (pc[c] = "wtest" /\ pc'[c] = "wend" /\ result' = result)
        BY <3>1 DEF StartWrite, Refuse, SendLetter, TypeInv
      <4> QED
        BY <1>0, <4>1 DEF Keeper, Holder, Frame
    <3>2. CASE TestFree(c)
      BY <3>2, Room DEF TestFree, CounterInv
    <3>3. CASE Take(c) \/ EndWrite(c)
      BY <3>3, <2>3 DEF Take, EndWrite, Keeper, Holder, TypeInv
    <3> QED
      BY <1>3, <3>1, <3>2, <3>3
  <2>5. to \in Serving \ {"wkill"} /\ Serves(c) /\ pc[c] # "wkill"
    BY <2>2 DEF Serves, Serving, Writing
  <2>6. array_counter' \in Nat /\ array_counter' >= array_counter
    BY <1>0, <2>1
  <2> QED
    BY <2>1, <2>2, <2>4, <2>5, <2>6, NumbersMove
<1>4. ASSUME NEW c \in Conns, Count(c) PROVE Numbers'
  <2>1. /\ pc[c] = "wcount" /\ pc' = [pc EXCEPT ![c] = "wend"]
        /\ array_counter' = array_counter + 1
        /\ UNCHANGED <<fd, table, sigint, result>>
    BY <1>4 DEF Count
  <2>2. array_counter' \in Nat /\ array_counter' >= array_counter
    BY <1>0, <2>1
  <2>3. Keeper(c)
    BY <2>1 DEF Keeper, Holder
  <2> QED
    BY <2>1, <2>2, <2>3, NumbersMove DEF Serves, Serving, Writing
<1> QED
  BY <1>0, <1>1, <1>2, <1>3, <1>4, NumbersClose, NumbersAccept, NumbersFull, Steps DEF Inside
-----------------------------------------------------------------------------
(* Answers.                                                                *)

\* Who sends without being told to end sends to its own client.
LEMMA SendsHome ==
  ASSUME TypeInv, Numbers, CounterInv, NEW c \in Conns, Serves(c), pc[c] # "wkill",
         strays' = strays \/ Sends(c), StraysOnlyAtTheEnd
  PROVE  strays' # {} => sigint /\ array_counter = ARRAY_SIZE
<1>1. CASE sigint /\ array_counter = ARRAY_SIZE
  BY <1>1
<1>2. CASE ~(sigint /\ array_counter = ARRAY_SIZE)
  <2>1. array_counter < ARRAY_SIZE \/ ~sigint
    BY <1>2, Room, ConstantsAssumption DEF CounterInv, TypeInv
  <2>2. table[fd[c]] = c /\ fd[c] \in Fds
    BY <2>1 DEF Numbers, Own
  <2>3. Peer(c) = c
    BY <2>2 DEF Peer, Fds
  <2>4. strays' = strays
    BY <2>3 DEF Sends
  <2> QED
    BY <2>4 DEF StraysOnlyAtTheEnd
<1> QED
  BY <1>1, <1>2

\* No answer goes astray before the process is told to end.
LEMMA StraysStep ==
  ASSUME TypeInv, LettersInv, CounterInv, Numbers, StraysOnlyAtTheEnd, [Next]_vars
  PROVE  StraysOnlyAtTheEnd'
<1> USE DEF Goto, Quiet, shared, locals, process, aux
<1>0. \A c \in Conns : Frame(c)
  BY DEF LettersInv
<1>1. ASSUME strays' = strays, array_counter' = array_counter, sigint' = sigint \/ sigint' = TRUE
      PROVE  StraysOnlyAtTheEnd'
  BY <1>1 DEF StraysOnlyAtTheEnd
<1>2. CASE Still
  BY <1>1, <1>2 DEF Still
<1>3. ASSUME NEW c \in Conns, NEW to \in PCs, Plain(c, to) PROVE StraysOnlyAtTheEnd'
  BY <1>3, SendsHome DEF Plain, OnlyLocals, Outer, Serves, StraysOnlyAtTheEnd
<1>4. ASSUME NEW c \in Conns, Closes(c) PROVE StraysOnlyAtTheEnd'
  BY <1>1, <1>4 DEF Closes
<1>5. ASSUME NEW c \in Conns, NEW n \in Fds, Accept(c, n) PROVE StraysOnlyAtTheEnd'
  BY <1>1, <1>5 DEF Accept
<1>6. ASSUME NEW c \in Conns,
             \/ StartWrite(c) \/ Refuse(c) \/ TestFree(c) \/ Take(c) \/ EndWrite(c)
             \/ CloseFull(c) \/ KillSelf(c)
      PROVE  StraysOnlyAtTheEnd'
  BY <1>1, <1>6 DEF StartWrite, Refuse, TestFree, Take, EndWrite, CloseFull, KillSelf
<1>7. ASSUME NEW c \in Conns, SendLetter(c) PROVE StraysOnlyAtTheEnd'
  BY <1>7, SendsHome DEF SendLetter, Serves, Serving, StraysOnlyAtTheEnd
<1>8. ASSUME NEW c \in Conns, Count(c) PROVE StraysOnlyAtTheEnd'
  <2>1. pc[c] = "wcount" /\ strays' = strays
    BY <1>8 DEF Count
  <2>2. array_counter < ARRAY_SIZE
    BY <2>1, Room DEF CounterInv
  <2>3. strays = {}
    BY <2>2, ConstantsAssumption DEF StraysOnlyAtTheEnd, TypeInv
  <2> QED
    BY <2>1, <2>3 DEF StraysOnlyAtTheEnd
<1> QED
  BY <1>0, <1>2, <1>3, <1>4, <1>5, <1>6, <1>7, <1>8, Steps DEF Inside
-----------------------------------------------------------------------------

ServInv == TypeInv /\ OneWriter /\ LettersInv /\ CounterInv /\ Numbers /\ StraysOnlyAtTheEnd

\* The server begins without connections.
LEMMA ServInit == Init => ServInv
<1> SUFFICES ASSUME Init PROVE ServInv
  OBVIOUS
<1> USE DEF Init
<1>1. TypeInv
  BY TypeInit
<1>2. OneWriter
  BY DEF OneWriter, Writing
<1>3. LettersInv
  BY LetterIsPlain DEF LettersInv, LettersInPlace, LettersOnce, Busy, Frame, Holder
<1>4. CounterInv
  <2>1. Busy = {} /\ Counting = {}
    BY LetterIsPlain DEF Busy, Counting
  <2>2. Cardinality(Busy) = 0 /\ Cardinality(Counting) = 0
    BY <2>1, FS_EmptySet
  <2> QED
    BY <2>2 DEF CounterInv, CounterExact, DoneIsFull, Counting
<1>5. Numbers
  BY DEF Numbers, Serves, Serving, Writing, Keeper, Holder
<1>6. StraysOnlyAtTheEnd
  BY DEF StraysOnlyAtTheEnd
<1> QED
  BY <1>1, <1>2, <1>3, <1>4, <1>5, <1>6 DEF ServInv

\* ServInv is inductive.
LEMMA ServStep ==
  ASSUME ServInv, [Next]_vars
  PROVE  ServInv'
<1>1. /\ TypeInv /\ OneWriter /\ LettersInv /\ CounterInv /\ Numbers /\ StraysOnlyAtTheEnd
      /\ (\A c \in Conns : Frame(c)) /\ \A c \in Conns : Keeper(c) => Own(c)
  BY DEF ServInv, LettersInv, Numbers
<1> QED
  BY <1>1, TypeStep, OneWriterStep, LettersStep, CounterStep, NumbersStep, StraysStep DEF ServInv

\* ServInv holds in every reachable state.
LEMMA ServAlways == Spec => []ServInv
BY ServInit, ServStep, PTL DEF Spec

\* The counter that ends the server is exact, for any number of threads and of
\* cells: it is the number of busy cells, but for the one being counted.
THEOREM CounterIsExact == Spec => []CounterExact
<1>1. ServInv => CounterExact
  BY DEF ServInv, CounterInv
<1> QED
  BY <1>1, ServAlways, PTL

\* Whatever numbers are closed and used again, a letter goes to the client that
\* asked for it or to nobody, and so does every other answer until the process
\* is told to end with every letter gone.
THEOREM AnswersComeHome == Spec => []AnswersReachTheirClients
<1>1. ServInv => AnswersReachTheirClients
  BY DEF ServInv, LettersInv, AnswersReachTheirClients
<1> QED
  BY <1>1, ServAlways, PTL
-----------------------------------------------------------------------------
(* Readers.  They are counted, and none is inside with a writer.           *)

Readers == {c \in Conns : pc[c] = "copy"}

ReadersApart ==
  /\ sem[ACTIVE_READERS] = Cardinality(Readers)
  /\ (\E c \in Conns : pc[c] \in Writing) => Readers = {}

\* The readers are finitely many.
LEMMA FiniteReaders == IsFiniteSet(Readers) /\ Cardinality(Readers) \in Nat
BY FS_Subset, FS_CardinalityType, ConstantsAssumption DEF Readers

\* What the semops do to the count of the readers, and what they wait for.
LEMMA ReaderSemops ==
  ASSUME TypeInv, NEW c \in Conns
  PROVE  /\ StartRead(c) => /\ sem[ACTIVE_WRITER] = 0
                            /\ sem'[ACTIVE_READERS] = sem[ACTIVE_READERS] + 1
         /\ EndRead(c) => sem'[ACTIVE_READERS] = sem[ACTIVE_READERS] - 1
         /\ StartWrite(c) => /\ sem[ACTIVE_READERS] = 0
                             /\ sem'[ACTIVE_READERS] = sem[ACTIVE_READERS]
         /\ EndWrite(c) => sem'[ACTIVE_READERS] = sem[ACTIVE_READERS]
<1>1. /\ sem \in [Sems -> Nat] /\ ACTIVE_WRITER \in Sems /\ ACTIVE_READERS \in Sems
      /\ ACTIVE_READERS # ACTIVE_WRITER
  BY DEF TypeInv, Sems, ACTIVE_WRITER, ACTIVE_READERS
<1>2. StartRead(c) => sem[ACTIVE_WRITER] = 0 /\ sem' = [sem EXCEPT ![ACTIVE_READERS] = @ + 1]
  BY <1>1, SemopFacts DEF StartRead
<1>3. EndRead(c) => sem' = [sem EXCEPT ![ACTIVE_READERS] = @ - 1]
  BY <1>1, SemopFacts DEF EndRead
<1>4. StartWrite(c) => sem[ACTIVE_READERS] = 0 /\ sem' = [sem EXCEPT ![ACTIVE_WRITER] = @ + 1]
  BY <1>1, SemopFacts DEF StartWrite
<1>5. EndWrite(c) => sem' = [sem EXCEPT ![ACTIVE_WRITER] = @ - 1]
  BY <1>1, SemopFacts DEF EndWrite
<1> QED
  BY <1>1, <1>2, <1>3, <1>4, <1>5

\* A step that no reader makes and that lets no writer in.
LEMMA NoReaderMoves ==
  ASSUME ReadersApart, sem'[ACTIVE_READERS] = sem[ACTIVE_READERS],
         \A d \in Conns : /\ pc'[d] = "copy" <=> pc[d] = "copy"
                          /\ pc'[d] \in Writing => pc[d] \in Writing
  PROVE  ReadersApart'
<1>1. Readers' = Readers
  BY DEF Readers
<1> QED
  BY <1>1 DEF ReadersApart

\* The readers are counted and keep writers out.
LEMMA ReadersStep ==
  ASSUME TypeInv, OneWriter, ReadersApart, [Next]_vars
  PROVE  ReadersApart'
<1> USE DEF Goto, Quiet, shared, locals, process, aux
<1>1. pc \in [Conns -> PCs] /\ ACTIVE_READERS \in Sems /\ sem \in [Sems -> Nat]
  BY DEF TypeInv, Sems
<1>2. ASSUME UNCHANGED <<sem, pc>> PROVE ReadersApart'
  BY <1>2, NoReaderMoves
<1>3. ASSUME NEW c \in Conns, NEW to \in PCs \ (Writing \cup {"copy"}),
             sem'[ACTIVE_READERS] = sem[ACTIVE_READERS],
             pc[c] # "copy", pc' = [pc EXCEPT ![c] = to]
      PROVE  ReadersApart'
  BY <1>1, <1>3, NoReaderMoves
<1>4. ASSUME NEW c \in Conns, StartRead(c) PROVE ReadersApart'
  <2>1. /\ pc[c] = "rstart" /\ pc' = [pc EXCEPT ![c] = "copy"]
        /\ sem[ACTIVE_WRITER] = 0 /\ sem'[ACTIVE_READERS] = sem[ACTIVE_READERS] + 1
    BY <1>4, ReaderSemops DEF StartRead
  <2>2. Readers' = Readers \cup {c} /\ c \notin Readers
    BY <1>1, <2>1 DEF Readers
  <2>3. Cardinality(Readers') = Cardinality(Readers) + 1
    BY <2>2, FiniteReaders, FS_AddElement
  <2>4. \A d \in Conns : pc[d] \notin Writing
    BY <2>1 DEF OneWriter
  <2>5. \A d \in Conns : pc'[d] \notin Writing
    BY <1>1, <2>1, <2>4 DEF Writing
  <2> QED
    BY <2>1, <2>3, <2>5 DEF ReadersApart
<1>5. ASSUME NEW c \in Conns, EndRead(c) PROVE ReadersApart'
  <2>1. /\ pc[c] = "copy" /\ pc' = [pc EXCEPT ![c] = "rrc"]
        /\ sem'[ACTIVE_READERS] = sem[ACTIVE_READERS] - 1
    BY <1>5, ReaderSemops DEF EndRead
  <2>2. Readers' = Readers \ {c} /\ c \in Readers
    BY <1>1, <2>1 DEF Readers
  <2>3. Cardinality(Readers') = Cardinality(Readers) - 1
    BY <2>2, FiniteReaders, FS_RemoveElement
  <2>4. \A d \in Conns : pc[d] \notin Writing
    BY <2>2 DEF ReadersApart
  <2>5. \A d \in Conns : pc'[d] \notin Writing
    BY <1>1, <2>1, <2>4 DEF Writing
  <2> QED
    BY <2>1, <2>3, <2>5 DEF ReadersApart
<1>6. ASSUME NEW c \in Conns, StartWrite(c) PROVE ReadersApart'
  <2>1. /\ pc[c] = "wstart" /\ pc' = [pc EXCEPT ![c] = "wtest"]
        /\ sem[ACTIVE_READERS] = 0 /\ sem'[ACTIVE_READERS] = sem[ACTIVE_READERS]
    BY <1>6, ReaderSemops DEF StartWrite
  <2>2. Readers = {}
    BY <2>1, FiniteReaders, FS_EmptySet DEF ReadersApart
  <2>3. Readers' = Readers
    BY <1>1, <2>1 DEF Readers
  <2> QED
    BY <2>1, <2>2, <2>3 DEF ReadersApart
<1>7. ASSUME NEW c \in Conns, Refuse(c) \/ TestFree(c) \/ Take(c) \/ Count(c)
      PROVE  ReadersApart'
  <2>1. /\ sem' = sem /\ pc[c] \in Writing
        /\ \E to \in {"wtake", "wcount", "wend"} : pc' = [pc EXCEPT ![c] = to]
    BY <1>7 DEF Refuse, TestFree, Take, Count, Writing
  <2> QED
    BY <1>1, <2>1, NoReaderMoves DEF Writing
<1>8. ASSUME NEW c \in Conns, EndWrite(c) PROVE ReadersApart'
  <2>1. /\ pc[c] = "wend" /\ pc' = [pc EXCEPT ![c] = "wrc"]
        /\ sem'[ACTIVE_READERS] = sem[ACTIVE_READERS]
    BY <1>8, ReaderSemops DEF EndWrite
  <2> QED
    BY <1>3, <2>1 DEF PCs, Serving, Writing
<1>9. ASSUME NEW c \in Conns,
             \/ EnterRead(c) \/ SendOpError(c) \/ SendReadCode(c) \/ SendArray(c)
             \/ SendCode(c) \/ SendLetter(c) \/ NextRequest(c) \/ CloseFull(c) \/ KillSelf(c)
             \/ ReadType(c) \/ ReadFails(c) \/ SendFails(c) \/ (\E i \in Indices : ReadIndex(c, i))
             \/ Create(c) \/ CreateFails(c) \/ \E n \in Fds : Accept(c, n)
      PROVE  ReadersApart'
  <2>1. /\ sem' = sem /\ pc[c] # "copy"
        /\ \E to \in PCs \ (Writing \cup {"copy"}) : pc' = [pc EXCEPT ![c] = to]
    BY <1>9 DEF EnterRead, SendOpError, SendReadCode, SendArray, SendCode, SendLetter,
         NextRequest, CloseFull, KillSelf, ReadType, ReadFails, SendFails, ReadIndex, Create,
         CreateFails, Accept, CloseAndReturn, PCs, Serving, Writing
  <2> QED
    BY <1>3, <2>1
<1>10. ASSUME NEW c \in Conns, SigPipe(c) \/ \E i \in Cells : Copy(c, i)
       PROVE  ReadersApart'
  BY <1>2, <1>10 DEF SigPipe, Copy, ProcessExit
<1>11. ASSUME CtrlC \/ Handler \/ MainFails \/ UNCHANGED vars PROVE ReadersApart'
  BY <1>2, <1>11 DEF CtrlC, Handler, MainFails, ProcessExit, vars
<1> QED
  BY <1>4, <1>5, <1>6, <1>7, <1>8, <1>9, <1>10, <1>11 DEF Next, MainStep, Runs, Outside
-----------------------------------------------------------------------------
(* Answers: what the copies and the codes have to do with the array.       *)

Codes == {OK, WRITE_BUSY_ERROR, RANGE_ERROR}

\* A copy that is being made agrees with the array as far as it goes; before it
\* there is none; a code other than OK is set where the answer is decided.
AnswerFrame(c) ==
  /\ buffer[c] \in Copies /\ rc[c] \in Codes
  /\ pc[c] = "copy" => \A i \in DOMAIN buffer[c] : buffer[c][i] = array[i]
  /\ pc[c] \notin {"copy", "rrc", "rsend"} => buffer[c] = <<>>
  /\ pc[c] \notin {"wend", "wrc", "wres", "wdone", "wkill"} => rc[c] = OK
  /\ pc[c] = "wtake" => result[c] = Letter(index[c])

AnswersInv ==
  /\ buffer \in [Conns -> Copies] /\ rc \in [Conns -> Codes]
  /\ \A c \in Conns : AnswerFrame(c)

\* The locals of the other threads stay as they are.
Alike(c) ==
  \A d \in Conns \ {c} : /\ pc'[d] = pc[d] /\ buffer'[d] = buffer[d] /\ rc'[d] = rc[d]
                          /\ index'[d] = index[d] /\ result'[d] = result[d]

\* A step of one thread that leaves the array alone.
LEMMA OwnAnswer ==
  ASSUME AnswersInv, NEW c \in Conns, array' = array, Alike(c),
         buffer' = [buffer EXCEPT ![c] = buffer'[c]], rc' = [rc EXCEPT ![c] = rc'[c]],
         AnswerFrame(c)'
  PROVE  AnswersInv'
<1>1. buffer' \in [Conns -> Copies] /\ rc' \in [Conns -> Codes]
  BY DEF AnswersInv, AnswerFrame
<1>2. ASSUME NEW d \in Conns \ {c} PROVE AnswerFrame(d)'
  BY DEF AnswersInv, AnswerFrame, Alike
<1> QED
  BY <1>1, <1>2 DEF AnswersInv

\* Steps that touch neither copy nor code, or forget them.
Carries(c) ==
  \/ StartRead(c) \/ EndRead(c) \/ SendReadCode(c)
  \/ EnterRead(c) \/ SendOpError(c) \/ ReadType(c) \/ (\E i \in Indices : ReadIndex(c, i))
  \/ StartWrite(c) \/ Count(c) \/ EndWrite(c)
  \/ SendCode(c) \/ SendLetter(c) \/ CloseFull(c)
  \/ Create(c) \/ \E n \in Fds : Accept(c, n)

Forgets(c) ==
  \/ SendArray(c) \/ NextRequest(c) \/ KillSelf(c)
  \/ ReadFails(c) \/ SendFails(c) \/ CreateFails(c)

\* A step that neither reads nor writes the array, seen as one of the
\* abstract array.
LEMMA CarriesOn ==
  ASSUME TypeInv, AnswersInv, NEW c \in Conns, Carries(c)
  PROVE  /\ array' = array /\ Alike(c) /\ UNCHANGED <<buffer, rc, result>>
         /\ Up /\ Up'
         /\ \/ pc[c] \in {"none", "accepted", "idle", "reading", "unknown"} /\
               pc'[c] \in {"accepted", "idle", "reading", "unknown", "rstart", "windex"}
            \/ pc[c] = "windex" /\ pc'[c] = "wreading"
            \/ pc[c] = "wreading" /\ pc'[c] = "wstart"
            \/ pc[c] = "rstart" /\ pc'[c] = "copy"
            \/ pc[c] = "copy" /\ pc'[c] = "rrc" /\ DOMAIN buffer[c] = Cells
            \/ pc[c] = "rrc" /\ pc'[c] = "rsend"
            \/ pc[c] = "wstart" /\ pc'[c] = "wtest"
            \/ /\ pc[c] \in {"wcount", "wend", "wrc", "wres", "wdone"}
               /\ pc'[c] \in {"wend", "wrc", "wres", "wdone", "wkill"}
<1> USE DEF Goto, Quiet, shared, locals, process, aux
<1>1. pc \in [Conns -> PCs] /\ index \in [Conns -> Indices]
  BY DEF TypeInv
<1>2. CASE \/ StartRead(c) \/ EndRead(c) \/ SendReadCode(c) \/ EnterRead(c) \/ SendOpError(c)
           \/ ReadType(c) \/ \E i \in Indices : ReadIndex(c, i)
  BY <1>1, <1>2 DEF Alike, Up, StartRead, EndRead, SendReadCode, EnterRead, SendOpError,
                    ReadType, ReadIndex
<1>3. CASE \/ StartWrite(c) \/ Count(c) \/ EndWrite(c) \/ SendCode(c) \/ SendLetter(c)
           \/ CloseFull(c)
  BY <1>1, <1>3 DEF Alike, Up, StartWrite, Count, EndWrite, SendCode, SendLetter, CloseFull
<1>4. CASE Create(c) \/ \E n \in Fds : Accept(c, n)
  BY <1>1, <1>4 DEF Alike, Up, Create, Accept
<1> QED
  BY <1>2, <1>3, <1>4 DEF Carries

\* A thread that is through with a request has forgotten it.
LEMMA ForgetsAll ==
  ASSUME TypeInv, AnswersInv, NEW c \in Conns, Forgets(c)
  PROVE  /\ array' = array /\ Alike(c) /\ Up /\ Up'
         /\ buffer' = [buffer EXCEPT ![c] = <<>>] /\ rc' = [rc EXCEPT ![c] = OK]
         /\ pc[c] \in {"accepted", "idle", "reading", "unknown", "windex", "wreading",
                       "rrc", "rsend", "wdone", "wkill"}
         /\ \/ pc'[c] = "idle" /\ pc[c] \in {"rsend", "wdone", "wkill"}
            \/ pc'[c] = "ended"
<1> USE DEF Goto, Quiet, shared, locals, process, aux, ForgetLocals
<1>1. /\ pc \in [Conns -> PCs] /\ index \in [Conns -> Indices]
      /\ result \in [Conns -> Letters \cup {NUL}]
      /\ buffer \in [Conns -> Copies] /\ rc \in [Conns -> Codes]
  BY DEF TypeInv, AnswersInv
<1>2. CASE SendArray(c) \/ NextRequest(c) \/ KillSelf(c)
  BY <1>1, <1>2 DEF Alike, Up, SendArray, NextRequest, KillSelf
<1>3. CASE ReadFails(c) \/ SendFails(c) \/ CreateFails(c)
  BY <1>1, <1>3 DEF Alike, Up, ReadFails, SendFails, CreateFails, CloseAndReturn
<1> QED
  BY <1>2, <1>3 DEF Forgets

\* Every step is one of those, one inside, or the end.
LEMMA OtherSteps ==
  ASSUME [Next]_vars
  PROVE  \/ \E c \in Conns : \/ Carries(c) \/ Forgets(c)
                             \/ (\E i \in Cells : Copy(c, i))
                             \/ Refuse(c) \/ TestFree(c) \/ Take(c)
         \/ ProcessExit
         \/ UNCHANGED <<array, pc, buffer, rc, index, result, mpc>>
<1> USE DEF shared, locals
<1>1. CASE CtrlC \/ UNCHANGED vars
  BY <1>1 DEF CtrlC, vars, process
<1>2. CASE Handler \/ MainFails \/ \E c \in Conns : SigPipe(c)
  BY <1>2 DEF Handler, MainFails, SigPipe
<1>3. CASE \E c \in Conns : \/ Create(c) \/ CreateFails(c) \/ \E n \in Fds : Accept(c, n)
  BY <1>3 DEF Carries, Forgets
<1>4. CASE \E c \in Conns : Runs(c)
  BY <1>4 DEF Runs, Carries, Forgets
<1>5. CASE \E c \in Conns : Outside(c) /\ ~ SigPipe(c)
  BY <1>5 DEF Outside, Carries, Forgets
<1> QED
  BY <1>1, <1>2, <1>3, <1>4, <1>5 DEF Next, MainStep

\* AnswersInv is inductive.
LEMMA AnswersStep ==
  ASSUME ServInv, ReadersApart, AnswersInv, [Next]_vars
  PROVE  AnswersInv'
<1> USE DEF Goto, Quiet, shared, locals, process, aux
<1>0. TypeInv /\ LettersInPlace
  BY DEF ServInv, LettersInv
<1>1. /\ pc \in [Conns -> PCs] /\ array \in [Cells -> Contents] /\ index \in [Conns -> Indices]
      /\ buffer \in [Conns -> Copies] /\ rc \in [Conns -> Codes] /\ <<>> \in Copies
      /\ result \in [Conns -> Letters \cup {NUL}]
      /\ OK \in Codes /\ WRITE_BUSY_ERROR \in Codes /\ RANGE_ERROR \in Codes
  BY <1>0, EmptyCopy DEF TypeInv, AnswersInv, Codes
<1>2. ASSUME UNCHANGED <<array, pc, buffer, rc, index, result>> PROVE AnswersInv'
  BY <1>2 DEF AnswersInv, AnswerFrame
<1>3. ASSUME NEW c \in Conns, Carries(c) PROVE AnswersInv'
  <2>1. AnswerFrame(c)
    BY DEF AnswersInv
  <2>2. AnswerFrame(c)'
    BY <1>0, <1>3, <2>1, CarriesOn DEF AnswerFrame
  <2> QED
    BY <1>0, <1>1, <1>3, <2>2, CarriesOn, OwnAnswer
<1>4. ASSUME NEW c \in Conns, Forgets(c) PROVE AnswersInv'
  <2>1. /\ buffer'[c] = <<>> /\ rc'[c] = OK /\ pc'[c] \in {"idle", "ended"}
    BY <1>0, <1>1, <1>4, ForgetsAll
  <2>2. AnswerFrame(c)'
    BY <1>1, <2>1 DEF AnswerFrame
  <2> QED
    BY <1>0, <1>4, <2>1, <2>2, ForgetsAll, OwnAnswer
<1>5. ASSUME NEW c \in Conns, Refuse(c) \/ TestFree(c) PROVE AnswersInv'
  <2>0. AnswerFrame(c)
    BY DEF AnswersInv
  <2>1. /\ array' = array /\ Alike(c) /\ buffer' = buffer /\ pc[c] = "wtest"
        /\ rc' = [rc EXCEPT ![c] = rc'[c]] /\ rc'[c] \in Codes
        /\ \/ pc'[c] = "wend"
           \/ /\ pc'[c] = "wtake" /\ rc' = rc /\ index' = index
              /\ index[c] \in Cells /\ array[index[c]] # ARRAY_ELEMENT_BUSY
              /\ result'[c] = array[index[c]]
    BY <1>1, <1>5 DEF Refuse, TestFree, Alike
  <2>2. pc'[c] = "wtake" => result'[c] = Letter(index'[c])
    BY <1>0, <2>1 DEF LettersInPlace
  <2>3. AnswerFrame(c)'
    BY <2>0, <2>1, <2>2 DEF AnswerFrame
  <2> QED
    BY <1>1, <2>1, <2>3, OwnAnswer
<1>6. ASSUME NEW c \in Conns, NEW i \in Cells, Copy(c, i) PROVE AnswersInv'
  <2>0. AnswerFrame(c)
    BY DEF AnswersInv
  <2>1. /\ pc[c] = "copy" /\ pc' = pc /\ array' = array /\ rc' = rc /\ Alike(c)
        /\ buffer' = [buffer EXCEPT ![c] = [j \in DOMAIN buffer[c] \cup {i} |->
                                              IF j = i THEN array[i] ELSE buffer[c][j]]]
    BY <1>1, <1>6 DEF Copy, Alike
  <2>2. buffer'[c] = [j \in DOMAIN buffer[c] \cup {i} |->
                        IF j = i THEN array[i] ELSE buffer[c][j]]
    BY <1>1, <2>1
  <2>3. buffer'[c] \in Copies
    <3>1. buffer[c] \in Copies /\ array[i] \in Contents
      BY <1>1
    <3> QED
      BY <2>2, <3>1, ExtendedCopy
  <2>4. \A j \in DOMAIN buffer'[c] : buffer'[c][j] = array[j]
    BY <2>0, <2>1, <2>2 DEF AnswerFrame
  <2>5. AnswerFrame(c)'
    BY <2>0, <2>1, <2>3, <2>4 DEF AnswerFrame
  <2> QED
    BY <1>1, <2>1, <2>2, <2>5, OwnAnswer
<1>7. ASSUME NEW c \in Conns, Take(c) PROVE AnswersInv'
  <2>1. /\ pc[c] = "wtake" /\ pc' = [pc EXCEPT ![c] = "wcount"]
        /\ UNCHANGED <<buffer, rc, index, result>>
    BY <1>7 DEF Take
  <2>2. \A d \in Conns : pc[d] # "copy"
    BY <2>1 DEF ReadersApart, Readers, Writing
  <2>3. \A d \in Conns : pc'[d] # "copy"
    BY <1>1, <2>1, <2>2
  <2>4. ASSUME NEW d \in Conns PROVE AnswerFrame(d)'
    <3>1. AnswerFrame(d)
      BY DEF AnswersInv
    <3> QED
      BY <1>1, <2>1, <2>3, <3>1 DEF AnswerFrame
  <2> QED
    BY <1>1, <2>1, <2>4 DEF AnswersInv
<1>8. CASE ProcessExit
  BY <1>2, <1>8 DEF ProcessExit
<1> QED
  BY <1>2, <1>3, <1>4, <1>5, <1>6, <1>7, <1>8, OtherSteps

Implements == ServInv /\ ReadersApart /\ AnswersInv

\* The invariant that the refinement needs holds in every reachable state.
LEMMA ImplementsAlways == Spec => []Implements
<1>1. Init => ReadersApart /\ AnswersInv
  <2> SUFFICES ASSUME Init PROVE ReadersApart /\ AnswersInv
    OBVIOUS
  <2>1. Readers = {} /\ \A c \in Conns : pc[c] \notin Writing
    BY DEF Init, Readers, Writing
  <2>2. ReadersApart
    BY <2>1, FS_EmptySet DEF Init, ReadersApart, Sems
  <2>3. AnswersInv
    BY EmptyCopy DEF Init, AnswersInv, AnswerFrame, Codes
  <2> QED
    BY <2>2, <2>3
<1>2. Implements /\ [Next]_vars => Implements'
  <2> SUFFICES ASSUME Implements, [Next]_vars PROVE Implements'
    OBVIOUS
  <2>1. TypeInv /\ OneWriter
    BY DEF Implements, ServInv
  <2> QED
    BY <2>1, ServStep, ReadersStep, AnswersStep DEF Implements
<1> QED
  BY <1>1, <1>2, ServInit, PTL DEF Spec, Implements
-----------------------------------------------------------------------------
(* Refinement.                                                             *)

Nothing == [rc |-> OK, letter |-> NUL, array |-> <<>>]

\* The steps of the array, told by the phase and the answer of c.
LEMMA ArrayStep ==
  ASSUME NEW c \in Conns, Up, Up', Alike(c),
         \/ array' = array /\ Phase(c)' = Phase(c) /\ Pending(c)' = Pending(c)
         \/ /\ Phase(c) = "idle" /\ Phase(c)' \in {"read", "write"}
            /\ array' = array /\ Pending(c)' = Pending(c)
         \/ /\ Phase(c) = "read" /\ Phase(c)' = "answered" /\ array' = array
            /\ Pending(c)' = [rc |-> OK, letter |-> NUL, array |-> array]
         \/ /\ Phase(c) = "write" /\ Phase(c)' = "answered" /\ array' = array
            /\ Pending(c)' = [rc |-> RANGE_ERROR, letter |-> NUL, array |-> <<>>]
         \/ /\ Phase(c) = "answered" /\ Phase(c)' = "idle" /\ array' = array
            /\ Pending(c)' = Nothing
         \/ /\ Phase(c) # "gone" /\ Phase(c)' = "gone" /\ array' = array
            /\ Pending(c)' = Nothing
         \/ \E i \in Cells :
              /\ Phase(c) = "write" /\ Phase(c)' = "answered"
              /\ \/ /\ array[i] = ARRAY_ELEMENT_BUSY /\ array' = array
                    /\ Pending(c)' = [rc |-> WRITE_BUSY_ERROR, letter |-> NUL, array |-> <<>>]
                 \/ /\ array[i] # ARRAY_ELEMENT_BUSY
                    /\ array' = [array EXCEPT ![i] = ARRAY_ELEMENT_BUSY]
                    /\ Pending(c)' = [rc |-> OK, letter |-> array[i], array |-> <<>>]
  PROVE  [Array!ANext]_(Array!avars)
<1> DEFINE ph == [d \in Conns |-> Phase(d)]
           an == [d \in Conns |-> Pending(d)]
<1>0. \A d \in Conns \ {c} : Phase(d)' = Phase(d) /\ Pending(d)' = Pending(d)
  BY DEF Phase, Pending, Alike
<1>1. ph' = [ph EXCEPT ![c] = Phase(c)'] /\ an' = [an EXCEPT ![c] = Pending(c)']
  BY <1>0
<1>2. ph[c] = Phase(c) /\ an[c] = Pending(c)
  OBVIOUS
<1>3. ph = [d \in Conns |-> ph[d]] /\ an = [d \in Conns |-> an[d]]
  OBVIOUS
<1> HIDE DEF ph, an
<1>4. CASE array' = array /\ Phase(c)' = Phase(c) /\ Pending(c)' = Pending(c)
  <2>1. ph' = ph /\ an' = an
    BY <1>1, <1>2, <1>3, <1>4
  <2> QED
    BY <1>4, <2>1 DEF Array!avars, ph, an
<1>5. CASE /\ Phase(c) = "idle" /\ Phase(c)' \in {"read", "write"}
           /\ array' = array /\ Pending(c)' = Pending(c)
  <2>1. an' = an
    BY <1>1, <1>2, <1>3, <1>5
  <2>2. Array!Ask(c, "read") \/ Array!Ask(c, "write")
    BY <1>1, <1>2, <1>5, <2>1 DEF Array!Ask, ph, an
  <2> QED
    BY <2>2 DEF Array!ANext
<1>6. CASE /\ Phase(c) = "read" /\ Phase(c)' = "answered" /\ array' = array
           /\ Pending(c)' = [rc |-> OK, letter |-> NUL, array |-> array]
  <2>1. Array!Snapshot(c)
    BY <1>1, <1>2, <1>6 DEF Array!Snapshot, Array!Answered, Array!Answer, ph, an
  <2> QED
    BY <2>1 DEF Array!ANext
<1>7. CASE /\ Phase(c) = "write" /\ Phase(c)' = "answered" /\ array' = array
           /\ Pending(c)' = [rc |-> RANGE_ERROR, letter |-> NUL, array |-> <<>>]
  <2>1. Array!RefuseRange(c)
    BY <1>1, <1>2, <1>7 DEF Array!RefuseRange, Array!Answered, Array!Answer, ph, an
  <2> QED
    BY <2>1 DEF Array!ANext
<1>8. CASE /\ Phase(c) = "answered" /\ Phase(c)' = "idle" /\ array' = array
           /\ Pending(c)' = Nothing
  <2>1. Array!Deliver(c)
    BY <1>1, <1>2, <1>8 DEF Array!Deliver, Array!NoAnswer, Array!Answer, Nothing, ph, an
  <2> QED
    BY <2>1 DEF Array!ANext
<1>9. CASE /\ Phase(c) # "gone" /\ Phase(c)' = "gone" /\ array' = array
           /\ Pending(c)' = Nothing
  <2>1. /\ ph' = [d \in Conns |-> IF d \in {c} THEN "gone" ELSE ph[d]]
        /\ an' = [d \in Conns |-> IF d \in {c} THEN Nothing ELSE an[d]]
    BY <1>1, <1>3, <1>9
  <2>2. Array!Leave({c})
    BY <1>2, <1>9, <2>1 DEF Array!Leave, Array!NoAnswer, Array!Answer, Nothing, ph, an
  <2> QED
    BY <2>2 DEF Array!ANext
<1>10. ASSUME NEW i \in Cells, Phase(c) = "write", Phase(c)' = "answered",
              \/ /\ array[i] = ARRAY_ELEMENT_BUSY /\ array' = array
                 /\ Pending(c)' = [rc |-> WRITE_BUSY_ERROR, letter |-> NUL, array |-> <<>>]
              \/ /\ array[i] # ARRAY_ELEMENT_BUSY
                 /\ array' = [array EXCEPT ![i] = ARRAY_ELEMENT_BUSY]
                 /\ Pending(c)' = [rc |-> OK, letter |-> array[i], array |-> <<>>]
       PROVE  [Array!ANext]_(Array!avars)
  <2>1. Array!RefuseBusy(c, i) \/ Array!Take(c, i)
    BY <1>1, <1>2, <1>10
    DEF Array!RefuseBusy, Array!Take, Array!Answered, Array!Answer, ph, an
  <2>2. i \in Array!ACells
    BY DEF Array!ACells, Cells
  <2> QED
    BY <2>1, <2>2 DEF Array!ANext
<1> QED
  BY <1>4, <1>5, <1>6, <1>7, <1>8, <1>9, <1>10

\* The process ends, and whoever was there leaves.
LEMMA AllLeave ==
  ASSUME Up, ~ Up', array' = array
  PROVE  [Array!ANext]_(Array!avars)
<1> DEFINE S == {d \in Conns : Phase(d) # "gone"}
           ph == [d \in Conns |-> Phase(d)]
           an == [d \in Conns |-> Pending(d)]
<1>1. /\ ph' = [d \in Conns |-> IF d \in S THEN "gone" ELSE ph[d]]
      /\ an' = [d \in Conns |-> IF d \in S THEN Nothing ELSE an[d]]
      /\ \A d \in S : ph[d] # "gone"
  <2>1. ph' = [d \in Conns |-> "gone"] /\ an' = [d \in Conns |-> Nothing]
    BY DEF Phase, Pending, Nothing
  <2>2. ASSUME NEW d \in Conns, d \notin S PROVE ph[d] = "gone" /\ an[d] = Nothing
    <3>1. Phase(d) = "gone"
      BY <2>2
    <3>2. Pending(d) = Nothing
      BY <3>1 DEF Phase, Pending, Nothing
    <3>3. ph[d] = Phase(d) /\ an[d] = Pending(d)
      OBVIOUS
    <3> QED
      BY <3>1, <3>2, <3>3
  <2>3. \A d \in S : ph[d] # "gone"
    OBVIOUS
  <2> HIDE DEF ph, an, S
  <2> QED
    BY <2>1, <2>2, <2>3
<1> HIDE DEF ph, an, S
<1>2. S \in SUBSET Conns
  BY DEF S
<1>3. Array!Leave(S)
  BY <1>1 DEF Array!Leave, Array!NoAnswer, Array!Answer, Nothing, ph, an
<1> QED
  BY <1>2, <1>3 DEF Array!ANext

\* Every step is a step of the abstract array, or leaves it alone.
LEMMA StepsArray ==
  ASSUME Implements, [Next]_vars
  PROVE  [Array!ANext]_(Array!avars)
<1> USE DEF Goto, Quiet, shared, locals, process, aux
<1>0. TypeInv /\ AnswersInv
  BY DEF Implements, ServInv
<1>1. /\ pc \in [Conns -> PCs] /\ buffer \in [Conns -> Copies] /\ rc \in [Conns -> Codes]
      /\ result \in [Conns -> Letters \cup {NUL}] /\ array \in [Cells -> Contents]
      /\ LettersInPlace
  BY <1>0 DEF TypeInv, AnswersInv, Implements, ServInv, LettersInv
<1>2. ASSUME NEW c \in Conns PROVE Frame(c) /\ AnswerFrame(c)
  BY <1>0 DEF AnswersInv, Implements, ServInv, LettersInv
<1>3. ASSUME NEW c \in Conns, Carries(c) PROVE [Array!ANext]_(Array!avars)
  <2>1. /\ array' = array /\ Alike(c) /\ UNCHANGED <<buffer, rc, result>> /\ Up /\ Up'
    BY <1>0, <1>3, CarriesOn
  <2>2. CASE pc[c] = "copy" /\ pc'[c] = "rrc"
    <3>1. buffer[c] = array
      <4>1. DOMAIN buffer[c] = Cells /\ \A i \in Cells : buffer[c][i] = array[i]
        BY <1>0, <1>2, <1>3, <2>2, CarriesOn DEF AnswerFrame
      <4>2. PICK D \in SUBSET Cells : buffer[c] \in [D -> Contents]
        BY <1>1 DEF Copies
      <4> QED
        BY <1>1, <4>1, <4>2
    <3>2. /\ Phase(c) = "read" /\ Phase(c)' = "answered"
          /\ Pending(c)' = [rc |-> OK, letter |-> NUL, array |-> array]
      BY <2>1, <2>2, <3>1 DEF Phase, Pending
    <3> QED
      BY <2>1, <3>2, ArrayStep
  <2>3. CASE pc[c] \in {"none", "accepted", "idle", "reading", "unknown"}
    <3>1. pc'[c] \in {"accepted", "idle", "reading", "unknown", "rstart", "windex"}
      BY <1>0, <1>3, <2>3, CarriesOn
    <3>2. /\ Pending(c)' = Pending(c)
          /\ Phase(c) = "idle" /\ Phase(c)' \in {"idle", "read", "write"}
      BY <2>1, <2>3, <3>1 DEF Phase, Pending
    <3> QED
      BY <2>1, <3>2, ArrayStep
  <2>4. CASE pc[c] \notin {"copy", "none", "accepted", "idle", "reading", "unknown"}
    <3>1. \/ pc[c] = "windex" /\ pc'[c] = "wreading"
          \/ pc[c] = "wreading" /\ pc'[c] = "wstart"
          \/ pc[c] = "rstart" /\ pc'[c] = "copy"
          \/ pc[c] = "rrc" /\ pc'[c] = "rsend"
          \/ pc[c] = "wstart" /\ pc'[c] = "wtest"
          \/ /\ pc[c] \in {"wcount", "wend", "wrc", "wres", "wdone"}
             /\ pc'[c] \in {"wend", "wrc", "wres", "wdone", "wkill"}
      BY <1>0, <1>3, <2>4, CarriesOn
    <3>2. Phase(c)' = Phase(c) /\ Pending(c)' = Pending(c)
      BY <2>1, <3>1 DEF Phase, Pending
    <3> QED
      BY <2>1, <3>2, ArrayStep
  <2> QED
    BY <1>0, <1>3, <2>2, <2>3, <2>4, CarriesOn
<1>4. ASSUME NEW c \in Conns, Forgets(c) PROVE [Array!ANext]_(Array!avars)
  <2>1. /\ array' = array /\ Alike(c) /\ Up /\ Up'
        /\ pc[c] \in {"accepted", "idle", "reading", "unknown", "windex", "wreading",
                      "rrc", "rsend", "wdone", "wkill"}
        /\ \/ pc'[c] = "idle" /\ pc[c] \in {"rsend", "wdone", "wkill"}
           \/ pc'[c] = "ended"
    BY <1>0, <1>4, ForgetsAll
  <2>2. /\ Pending(c)' = Nothing /\ Phase(c) # "gone"
        /\ \/ Phase(c) = "answered" /\ Phase(c)' = "idle"
           \/ Phase(c)' = "gone"
    BY <2>1 DEF Phase, Pending, Nothing
  <2> QED
    BY <2>1, <2>2, ArrayStep
<1>5. ASSUME NEW c \in Conns, Refuse(c) PROVE [Array!ANext]_(Array!avars)
  <2>1. /\ pc[c] = "wtest" /\ pc'[c] = "wend" /\ array' = array /\ result'[c] = NUL /\ Alike(c)
        /\ Up /\ Up'
        /\ \/ rc'[c] = RANGE_ERROR
           \/ rc'[c] = WRITE_BUSY_ERROR /\ \E i \in Cells : array[i] = ARRAY_ELEMENT_BUSY
    BY <1>1, <1>2, <1>5 DEF Refuse, Frame, Alike, Up
  <2>2. /\ Phase(c) = "write" /\ Phase(c)' = "answered"
        /\ Pending(c)' = [rc |-> rc'[c], letter |-> NUL, array |-> <<>>]
    BY <2>1 DEF Phase, Pending
  <2> QED
    BY <2>1, <2>2, ArrayStep
<1>6. ASSUME NEW c \in Conns, Take(c) PROVE [Array!ANext]_(Array!avars)
  <2>1. /\ pc[c] = "wtake" /\ pc'[c] = "wcount" /\ rc'[c] = OK /\ index[c] \in Cells
        /\ array[index[c]] # ARRAY_ELEMENT_BUSY /\ Alike(c) /\ Up /\ Up'
        /\ result'[c] = Letter(index[c])
        /\ array' = [array EXCEPT ![index[c]] = ARRAY_ELEMENT_BUSY]
    BY <1>1, <1>2, <1>6 DEF Take, Frame, AnswerFrame, Alike, Up
  <2>2. array[index[c]] = Letter(index[c])
    BY <1>1, <2>1 DEF LettersInPlace
  <2>3. /\ Phase(c) = "write" /\ Phase(c)' = "answered"
        /\ Pending(c)' = [rc |-> OK, letter |-> array[index[c]], array |-> <<>>]
    BY <2>1, <2>2 DEF Phase, Pending
  <2> QED
    BY <2>1, <2>3, ArrayStep
<1>7. ASSUME NEW c \in Conns, TestFree(c) \/ \E i \in Cells : Copy(c, i)
      PROVE  [Array!ANext]_(Array!avars)
  <2>1. /\ array' = array /\ Alike(c) /\ Up /\ Up'
        /\ \/ pc[c] = "wtest" /\ pc'[c] = "wtake"
           \/ pc[c] = "copy" /\ pc'[c] = "copy"
    BY <1>1, <1>7 DEF TestFree, Copy, Alike, Up
  <2>2. Phase(c)' = Phase(c) /\ Pending(c)' = Pending(c)
    BY <2>1 DEF Phase, Pending
  <2> QED
    BY <2>1, <2>2, ArrayStep
<1>8. CASE ProcessExit
  BY <1>8, AllLeave DEF ProcessExit, Up
<1>9. CASE UNCHANGED <<array, pc, buffer, rc, index, result, mpc>>
  BY <1>9 DEF Array!avars, Phase, Pending, Up
<1> QED
  BY <1>3, <1>4, <1>5, <1>6, <1>7, <1>8, <1>9, OtherSteps

\* The threads together are the array on which every request takes effect at
\* once, whatever number an answer goes to, up to the end of the process.
THEOREM CountersRefine == Spec => Linearizable
<1>1. Init => Array!AInit
  BY DEF Init, Array!AInit, Array!ACells, Array!ALetter, Array!NoAnswer, Array!Answer,
         Cells, Letter, Phase, Pending, Up
<1>2. Implements /\ [Next]_vars => [Array!ANext]_(Array!avars)
  BY StepsArray
<1> QED
  BY <1>1, <1>2, ImplementsAlways, PTL DEF Spec, Array!ASpec, Linearizable
=============================================================================
