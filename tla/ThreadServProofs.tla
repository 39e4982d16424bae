-------------------------- MODULE ThreadServProofs --------------------------
(***************************************************************************)
(* Machine-checked facts about ThreadServ, for any number of connections,  *)
(* cells and descriptors: who owns a number of the descriptor table, that  *)
(* no letter is given twice or lost, and that the threads implement the    *)
(* shared array.                                                           *)
(***************************************************************************)
EXTENDS ThreadServ, FiniteSetTheorems, TLAPS

PCs == Serving \cup {"none", "ended"}

TypeInv ==
  /\ sem \in [Sems -> Nat] /\ buf \in [Cells -> Contents]
  /\ pc \in [Conns -> PCs]
  /\ index \in [Conns -> Indices] /\ result \in [Conns -> Letters \cup {NUL}]
  /\ fd \in [Conns -> Fds \cup {0}] /\ table \in [Fds -> Conns \cup {NoConn}]
  /\ taken \in [Cells -> SUBSET Conns]
  /\ got \in [Cells -> SUBSET (Conns \cup {NoConn})]

\* Letters are neither the busy mark nor NUL.
LEMMA LetterIsPlain ==
  \A i \in Cells : /\ Letter(i) \in Letters /\ Letter(i) # ARRAY_ELEMENT_BUSY /\ Letter(i) # NUL
<1> SUFFICES ASSUME NEW i \in Cells
             PROVE  /\ Letter(i) \in Letters
                    /\ Letter(i) # ARRAY_ELEMENT_BUSY /\ Letter(i) # NUL
  OBVIOUS
<1>1. i \in Nat /\ i <= 25
  BY ConstantsAssumption DEF Cells
<1>2. i % 26 = i
  BY <1>1
<1>3. Letter(i) = 97 + i
  BY <1>2 DEF Letter
<1> QED
  BY <1>1, <1>3 DEF Letters, ARRAY_ELEMENT_BUSY, NUL

\* What the four semop arrays wait for, and which count they change.
LEMMA SemopFacts ==
  ASSUME NEW v \in [Sems -> Nat]
  PROVE  /\ Blocks(v, start_read) <=> v[WRITE_QUEUE] # 0 \/ v[ACTIVE_WRITER] # 0
         /\ After(v, start_read) = [v EXCEPT ![ACTIVE_READERS] = @ + 1]
         /\ Blocks(v, end_read) <=> v[ACTIVE_READERS] = 0
         /\ After(v, end_read) = [v EXCEPT ![ACTIVE_READERS] = @ - 1]
         /\ Blocks(v, start_write) <=> v[ACTIVE_READERS] # 0 \/ v[ACTIVE_WRITER] # 0
         /\ After(v, start_write) = [v EXCEPT ![ACTIVE_WRITER] = @ + 1]
         /\ Blocks(v, end_write) <=> v[ACTIVE_WRITER] = 0
         /\ After(v, end_write) = [v EXCEPT ![ACTIVE_WRITER] = @ - 1]
<1> USE DEF Buf, V, P, Level, Term, MaxOps, Sems, WRITE_QUEUE, READ_QUEUE, ACTIVE_WRITER,
        ACTIVE_READERS
<1>1. /\ v[0] \in Nat /\ v[1] \in Nat /\ v[2] \in Nat /\ v[3] \in Nat
      /\ Len(start_read) = 5 /\ Len(end_read) = 1 /\ Len(start_write) = 5 /\ Len(end_write) = 1
  BY DEF start_read, end_read, start_write, end_write
<1>2. \A n \in Sems : /\ Level(v, start_read, n, 5) = IF n = 3 THEN v[n] + 1 ELSE v[n]
                      /\ Level(v, end_read, n, 1) = IF n = 3 THEN v[n] - 1 ELSE v[n]
  BY <1>1 DEF start_read, end_read
<1>3. \A n \in Sems : /\ Level(v, start_write, n, 5) = IF n = 2 THEN v[n] + 1 ELSE v[n]
                      /\ Level(v, end_write, n, 1) = IF n = 2 THEN v[n] - 1 ELSE v[n]
  BY <1>1 DEF start_write, end_write
<1>4. Blocks(v, start_read) <=> v[0] # 0 \/ v[2] # 0
  BY <1>1 DEF start_read, Blocks
<1>5. Blocks(v, start_write) <=> v[3] # 0 \/ v[2] # 0
  BY <1>1 DEF start_write, Blocks
<1>6. (Blocks(v, end_read) <=> v[3] = 0) /\ (Blocks(v, end_write) <=> v[2] = 0)
  BY <1>1 DEF end_read, end_write, Blocks
<1> HIDE DEF Level
<1>7. /\ After(v, start_read) = [v EXCEPT ![3] = @ + 1]
      /\ After(v, end_read) = [v EXCEPT ![3] = @ - 1]
      /\ After(v, start_write) = [v EXCEPT ![2] = @ + 1]
      /\ After(v, end_write) = [v EXCEPT ![2] = @ - 1]
  BY <1>1, <1>2, <1>3 DEF After
<1> QED
  BY <1>4, <1>5, <1>6, <1>7

\* A copy begins empty.
LEMMA EmptyCopy == <<>> \in Copies
  BY DEF Copies

\* memcpy adds one cell to a copy.
LEMMA ExtendedCopy ==
  ASSUME NEW a \in Copies, NEW i \in Cells, NEW x \in Contents
  PROVE  [j \in DOMAIN a \cup {i} |-> IF j = i THEN x ELSE a[j]] \in Copies
<1>1. PICK D \in SUBSET Cells : a \in [D -> Contents]
  BY DEF Copies
<1>2. [j \in DOMAIN a \cup {i} |-> IF j = i THEN x ELSE a[j]] \in [D \cup {i} -> Contents]
  BY <1>1
<1>3. D \cup {i} \in SUBSET Cells
  OBVIOUS
<1> QED
  BY <1>2, <1>3 DEF Copies

-----------------------------------------------------------------------------
(* Descriptors.  The types are proved on the way.                          *)

Owned == TypeInv /\ DescriptorsOwned

\* What a step of a thread that closes nothing does to the descriptors.
LEMMA KeepsNumber ==
  ASSUME DescriptorsOwned, TypeInv, NEW c \in Conns, NEW to \in Serving,
         pc[c] \in Serving, pc' = [pc EXCEPT ![c] = to], UNCHANGED <<fd, table>>
  PROVE  DescriptorsOwned' /\ pc' \in [Conns -> PCs]
BY DEF DescriptorsOwned, TypeInv, PCs

\* A thread that closes its socket ends, and its number is free.
LEMMA ClosesNumber ==
  ASSUME DescriptorsOwned, TypeInv, NEW c \in Conns,
         pc[c] \in Serving, pc' = [pc EXCEPT ![c] = "ended"], Close(c)
  PROVE  /\ DescriptorsOwned' /\ pc' \in [Conns -> PCs]
         /\ fd' \in [Conns -> Fds \cup {0}] /\ table' \in [Fds -> Conns \cup {NoConn}]
<1>1. fd[c] \in Fds /\ table[fd[c]] = c
  BY DEF DescriptorsOwned
<1>2. "ended" \notin Serving
  BY DEF Serving, Reading, Writing
<1>3. /\ pc' \in [Conns -> PCs]
      /\ fd' \in [Conns -> Fds \cup {0}] /\ table' \in [Fds -> Conns \cup {NoConn}]
  BY DEF TypeInv, PCs, Close
<1>4. ASSUME NEW d \in Conns, pc'[d] \in Serving
      PROVE  fd'[d] \in Fds /\ table'[fd'[d]] = d
  BY <1>1, <1>2, <1>4 DEF TypeInv, DescriptorsOwned, Close
<1>5. ASSUME NEW n \in Fds, table'[n] # NoConn
      PROVE  pc'[table'[n]] \in Serving /\ fd'[table'[n]] = n
  BY <1>1, <1>2, <1>5, ConstantsAssumption DEF TypeInv, DescriptorsOwned, Close
<1> QED
  BY <1>3, <1>4, <1>5 DEF DescriptorsOwned

\* No semop takes a semaphore below zero.
LEMMA SemaphoresNatural ==
  ASSUME TypeInv, NEW c \in Conns,
         StartRead(c) \/ EndRead(c) \/ StartWrite(c) \/ EndWrite(c)
  PROVE  sem' \in [Sems -> Nat]
<1>1. sem \in [Sems -> Nat]
  BY DEF TypeInv
<1>2. CASE StartRead(c)
  BY <1>1, <1>2, SemopFacts DEF StartRead
<1>3. CASE EndRead(c)
  BY <1>1, <1>3, SemopFacts DEF EndRead
<1>4. CASE StartWrite(c)
  BY <1>1, <1>4, SemopFacts DEF StartWrite
<1>5. CASE EndWrite(c)
  BY <1>1, <1>5, SemopFacts DEF EndWrite
<1> QED
  BY <1>2, <1>3, <1>4, <1>5

\* Owned is inductive.
LEMMA OwnedStep ==
  ASSUME Owned, [Next]_vars
  PROVE  Owned'
<1> USE DEF Owned, Goto, Quiet, shared, locals, process, aux
<1>0. 0 \in Indices /\ OK \in {OK, WRITE_BUSY_ERROR, RANGE_ERROR}
  BY ConstantsAssumption DEF Indices
<1>1. ASSUME UNCHANGED vars PROVE Owned'
  BY <1>1 DEF vars, TypeInv, DescriptorsOwned
<1>2. ASSUME NEW c \in Conns, Runs(c) PROVE Owned'
  <2> USE DEF Serving, Reading, Writing
  <2>1. CASE StartRead(c)
    BY <2>1, SemaphoresNatural, KeepsNumber DEF StartRead, TypeInv
  <2>2. CASE EndRead(c)
    BY <2>2, SemaphoresNatural, KeepsNumber DEF EndRead, TypeInv
  <2>3. CASE SendArray(c)
    BY <2>3, KeepsNumber DEF SendArray, TypeInv
  <2>4. ASSUME NEW i \in Cells, Copy(c, i) PROVE Owned'
    BY <2>4 DEF Copy, TypeInv, DescriptorsOwned
  <2>5. CASE StartWrite(c)
    BY <2>5, SemaphoresNatural, KeepsNumber DEF StartWrite, TypeInv
  <2>6. CASE Refuse(c)
    BY <2>6, KeepsNumber DEF Refuse, TypeInv
  <2>7. CASE TestFree(c)
    BY <2>7, KeepsNumber DEF TestFree, TypeInv, Contents
  <2>8. CASE Take(c)
    BY <2>8, KeepsNumber DEF Take, TypeInv, Contents
  <2>9. CASE EndWrite(c)
    BY <2>9, SemaphoresNatural, KeepsNumber DEF EndWrite, TypeInv
  <2>10. CASE SendCode(c)
    <3>1. CASE pc'[c] = "wres"
      BY <2>10, <3>1, KeepsNumber DEF SendCode, TypeInv
    <3>2. CASE pc'[c] = "idle"
      BY <1>0, <2>10, <3>2, KeepsNumber DEF SendCode, ForgetLocals, TypeInv
    <3>3. CASE pc'[c] = "ended"
      <4>1. /\ pc[c] = "wrc" /\ pc' = [pc EXCEPT ![c] = "ended"] /\ Close(c) /\ ForgetLocals(c)
            /\ UNCHANGED <<shared, process, aux>>
        BY <2>10, <3>3 DEF SendCode, TypeInv
      <4>2. index' \in [Conns -> Indices] /\ result' \in [Conns -> Letters \cup {NUL}]
        BY <1>0, <4>1 DEF ForgetLocals, TypeInv
      <4> QED
        BY <4>1, <4>2, ClosesNumber DEF TypeInv
    <3> QED
      BY <2>10, <3>1, <3>2, <3>3 DEF SendCode, TypeInv
  <2>11. CASE SendLetter(c)
    <3>1. index' \in [Conns -> Indices] /\ result' \in [Conns -> Letters \cup {NUL}]
      BY <1>0, <2>11 DEF SendLetter, ForgetLocals, TypeInv
    <3>2. fd[c] \in Fds /\ table[fd[c]] = c
      BY <2>11 DEF SendLetter, DescriptorsOwned
    <3>3. got' \in [Cells -> SUBSET (Conns \cup {NoConn})]
      BY <2>11, <3>2 DEF SendLetter, TypeInv
    <3> QED
      BY <2>11, <3>1, <3>3, KeepsNumber DEF SendLetter, TypeInv
  <2> QED
    BY <1>2, <2>1, <2>2, <2>3, <2>4, <2>5, <2>6, <2>7, <2>8, <2>9, <2>10, <2>11 DEF Runs
<1>3. ASSUME NEW c \in Conns, Outside(c) PROVE Owned'
  <2> USE DEF Serving, Reading, Writing
  <2>1. CASE ReadType(c)
    BY <2>1, KeepsNumber DEF ReadType, TypeInv
  <2>2. CASE HangUp(c)
    BY <2>2, ClosesNumber DEF HangUp, TypeInv
  <2>3. CASE SendFails(c) \/ SemInterrupted(c)
    BY <2>3 DEF SendFails, SemInterrupted, ProcessExit, TypeInv, DescriptorsOwned
  <2>4. ASSUME NEW i \in Indices, ReadIndex(c, i) PROVE Owned'
    BY <2>4, KeepsNumber DEF ReadIndex, TypeInv
  <2> QED
    BY <1>3, <2>1, <2>2, <2>3, <2>4 DEF Outside
<1>4. ASSUME SignalHandler \/ CtrlC \/ Test \/ AcceptFails PROVE Owned'
  BY <1>4 DEF SignalHandler, CtrlC, Test, AcceptFails, ProcessExit, TypeInv, DescriptorsOwned
<1>5. ASSUME NEW c \in Conns, Create(c) PROVE Owned'
  BY <1>5, KeepsNumber DEF Create, TypeInv, Serving
<1>6. ASSUME NEW c \in Conns, CreateFails(c) PROVE Owned'
  BY <1>6, ClosesNumber DEF CreateFails, TypeInv, Serving
<1>7. ASSUME NEW c \in Conns, NEW n \in Fds, Accept(c, n) PROVE Owned'
  <2>1. /\ pc[c] = "none" /\ table[n] = NoConn
        /\ pc' = [pc EXCEPT ![c] = "accepted"] /\ fd' = [fd EXCEPT ![c] = n]
        /\ table' = [table EXCEPT ![n] = c]
        /\ UNCHANGED <<shared, locals, aux>>
    BY <1>7 DEF Accept, FreeFds
  <2>2. TypeInv'
    BY <2>1 DEF TypeInv, PCs, Serving
  <2>3. "none" \notin Serving /\ "accepted" \in Serving
    BY DEF Serving, Reading, Writing
  <2>4. ASSUME NEW d \in Conns, pc'[d] \in Serving
        PROVE  fd'[d] \in Fds /\ table'[fd'[d]] = d
    BY <2>1, <2>3, <2>4, ConstantsAssumption DEF TypeInv, DescriptorsOwned
  <2>5. ASSUME NEW m \in Fds, table'[m] # NoConn
        PROVE  pc'[table'[m]] \in Serving /\ fd'[table'[m]] = m
    BY <2>1, <2>3, <2>5, ConstantsAssumption DEF TypeInv, DescriptorsOwned
  <2> QED
    BY <2>2, <2>4, <2>5 DEF DescriptorsOwned
<1> QED
  BY <1>1, <1>2, <1>3, <1>4, <1>5, <1>6, <1>7 DEF Next, MainStep

\* No number has been given out.
LEMMA OwnedInit == Init => Owned
<1> SUFFICES ASSUME Init PROVE Owned
  OBVIOUS
<1>1. 0 \in Indices /\ buf \in [Cells -> Contents]
  <2>1. 0 \in Indices
    BY ConstantsAssumption DEF Indices
  <2>2. buf = [i \in Cells |-> Letter(i)]
    BY DEF Init
  <2>3. \A i \in Cells : Letter(i) \in Contents
    BY LetterIsPlain DEF Contents
  <2> QED
    BY <2>1, <2>2, <2>3
<1>2. TypeInv
  BY <1>1 DEF Init, TypeInv, PCs
<1>3. DescriptorsOwned
  BY DEF Init, DescriptorsOwned, Serving, Reading, Writing
<1> QED
  BY <1>2, <1>3 DEF Owned

\* Owned holds in every reachable state.
LEMMA OwnedAlways == Spec => []Owned
BY OwnedInit, OwnedStep, PTL DEF Spec

\* A thread holds the descriptor of its connection and nobody else has the
\* number, for any number of threads and of descriptors.
THEOREM EachOwnsItsNumber == Spec => []DescriptorsOwned
<1>1. Owned => DescriptorsOwned
  BY DEF Owned
<1> QED
  BY <1>1, OwnedAlways, PTL
-----------------------------------------------------------------------------
(* Mutual exclusion.  Who is inside is counted by the semaphores, and the   *)
(* semaphores let in by the count: neither is inductive without the other.  *)

Guarded == Owned /\ SemaphoresGuard

\* Who is inside is finitely many.
LEMMA FiniteInside == IsFiniteSet(Readers) /\ IsFiniteSet(Writers)
BY FS_Subset, ConstantsAssumption DEF Readers, Writers

\* A thread that comes in or goes out, or moves elsewhere.
LEMMA NobodyMoves ==
  ASSUME SemaphoresGuard, sem' = sem,
         \A d \in Conns : /\ pc'[d] \in Reading <=> pc[d] \in Reading
                          /\ pc'[d] \in Writing <=> pc[d] \in Writing
  PROVE  SemaphoresGuard'
<1>1. Readers' = Readers /\ Writers' = Writers
  BY DEF Readers, Writers
<1> QED
  BY <1>1 DEF SemaphoresGuard

\* The semaphores go up and down with who is inside.
LEMMA InAndOut ==
  ASSUME Guarded, NEW c \in Conns,
         StartRead(c) \/ EndRead(c) \/ StartWrite(c) \/ EndWrite(c)
  PROVE  SemaphoresGuard'
<1> USE DEF Goto
<1>1. /\ sem \in [Sems -> Nat] /\ pc \in [Conns -> PCs] /\ SemaphoresGuard
      /\ sem[ACTIVE_READERS] \in Nat /\ sem[ACTIVE_WRITER] \in Nat
  BY DEF Guarded, Owned, TypeInv, Sems
<1>2. Cardinality(Readers) \in Nat /\ Cardinality(Writers) \in Nat
  BY FiniteInside, FS_CardinalityType
<1>3. CASE StartRead(c)
  <2>1. /\ pc' = [pc EXCEPT ![c] = "copy"] /\ pc[c] = "rstart"
        /\ sem[ACTIVE_WRITER] = 0 /\ sem' = [sem EXCEPT ![ACTIVE_READERS] = @ + 1]
    BY <1>1, <1>3, SemopFacts DEF StartRead
  <2>2. Readers' = Readers \cup {c} /\ c \notin Readers /\ Writers' = Writers
    BY <1>1, <2>1 DEF Readers, Writers, Reading, Writing
  <2>3. Writers = {}
    BY <1>1, <2>1, FiniteInside, FS_EmptySet DEF SemaphoresGuard
  <2>4. Cardinality(Readers') = Cardinality(Readers) + 1
    BY <2>2, FiniteInside, FS_AddElement
  <2>5. /\ sem'[ACTIVE_READERS] = sem[ACTIVE_READERS] + 1 /\ sem'[ACTIVE_WRITER] = sem[ACTIVE_WRITER]
        /\ sem'[WRITE_QUEUE] = sem[WRITE_QUEUE] /\ sem'[READ_QUEUE] = sem[READ_QUEUE]
    BY <1>1, <2>1 DEF Sems, ACTIVE_READERS, ACTIVE_WRITER, READ_QUEUE, WRITE_QUEUE
  <2> QED
    BY <1>1, <2>2, <2>3, <2>4, <2>5 DEF SemaphoresGuard
<1>4. CASE EndRead(c)
  <2>1. /\ pc' = [pc EXCEPT ![c] = "rsend"] /\ pc[c] = "copy"
        /\ sem' = [sem EXCEPT ![ACTIVE_READERS] = @ - 1]
    BY <1>1, <1>4, SemopFacts DEF EndRead
  <2>2. Readers' = Readers \ {c} /\ c \in Readers /\ Writers' = Writers
    BY <1>1, <2>1 DEF Readers, Writers, Reading, Writing
  <2>3. Cardinality(Readers') = Cardinality(Readers) - 1
    BY <2>2, FiniteInside, FS_RemoveElement
  <2>4. /\ sem'[ACTIVE_READERS] = sem[ACTIVE_READERS] - 1 /\ sem'[ACTIVE_WRITER] = sem[ACTIVE_WRITER]
        /\ sem'[WRITE_QUEUE] = sem[WRITE_QUEUE] /\ sem'[READ_QUEUE] = sem[READ_QUEUE]
    BY <1>1, <2>1 DEF Sems, ACTIVE_READERS, ACTIVE_WRITER, READ_QUEUE, WRITE_QUEUE
  <2> QED
    BY <1>1, <2>2, <2>3, <2>4 DEF SemaphoresGuard
<1>5. CASE StartWrite(c)
  <2>1. /\ pc' = [pc EXCEPT ![c] = "wtest"] /\ pc[c] = "wstart"
        /\ sem[ACTIVE_READERS] = 0 /\ sem[ACTIVE_WRITER] = 0
        /\ sem' = [sem EXCEPT ![ACTIVE_WRITER] = @ + 1]
    BY <1>1, <1>5, SemopFacts DEF StartWrite
  <2>2. Writers' = Writers \cup {c} /\ c \notin Writers /\ Readers' = Readers
    BY <1>1, <2>1 DEF Readers, Writers, Reading, Writing
  <2>3. Readers = {} /\ Writers = {}
    BY <1>1, <2>1, FiniteInside, FS_EmptySet DEF SemaphoresGuard
  <2>4. Cardinality(Writers') = Cardinality(Writers) + 1
    BY <2>2, FiniteInside, FS_AddElement
  <2>5. /\ sem'[ACTIVE_WRITER] = sem[ACTIVE_WRITER] + 1 /\ sem'[ACTIVE_READERS] = sem[ACTIVE_READERS]
        /\ sem'[WRITE_QUEUE] = sem[WRITE_QUEUE] /\ sem'[READ_QUEUE] = sem[READ_QUEUE]
    BY <1>1, <2>1 DEF Sems, ACTIVE_READERS, ACTIVE_WRITER, READ_QUEUE, WRITE_QUEUE
  <2> QED
    BY <1>1, <2>2, <2>3, <2>4, <2>5 DEF SemaphoresGuard
<1>6. CASE EndWrite(c)
  <2>1. /\ pc' = [pc EXCEPT ![c] = "wrc"] /\ pc[c] = "wend"
        /\ sem' = [sem EXCEPT ![ACTIVE_WRITER] = @ - 1]
    BY <1>1, <1>6, SemopFacts DEF EndWrite
  <2>2. Writers' = Writers \ {c} /\ c \in Writers /\ Readers' = Readers
    BY <1>1, <2>1 DEF Readers, Writers, Reading, Writing
  <2>3. Cardinality(Writers') = Cardinality(Writers) - 1
    BY <2>2, FiniteInside, FS_RemoveElement
  <2>4. /\ sem'[ACTIVE_WRITER] = sem[ACTIVE_WRITER] - 1 /\ sem'[ACTIVE_READERS] = sem[ACTIVE_READERS]
        /\ sem'[WRITE_QUEUE] = sem[WRITE_QUEUE] /\ sem'[READ_QUEUE] = sem[READ_QUEUE]
    BY <1>1, <2>1 DEF Sems, ACTIVE_READERS, ACTIVE_WRITER, READ_QUEUE, WRITE_QUEUE
  <2> QED
    BY <1>1, <2>2, <2>3, <2>4 DEF SemaphoresGuard
<1> QED
  BY <1>3, <1>4, <1>5, <1>6

\* SemaphoresGuard is kept.
LEMMA GuardedStep ==
  ASSUME Guarded, [Next]_vars
  PROVE  SemaphoresGuard'
<1> USE DEF Goto, Quiet, shared, locals, process, aux
<1>1. SemaphoresGuard /\ pc \in [Conns -> PCs]
  BY DEF Guarded, Owned, TypeInv
<1>2. ASSUME sem' = sem, pc' = pc PROVE SemaphoresGuard'
  BY <1>1, <1>2, NobodyMoves
<1>3. ASSUME NEW c \in Conns, NEW to \in PCs \ (Reading \cup Writing), sem' = sem,
             pc' = [pc EXCEPT ![c] = to], pc[c] \notin Reading \cup Writing
      PROVE  SemaphoresGuard'
  BY <1>1, <1>3, NobodyMoves
<1>4. ASSUME NEW c \in Conns, Runs(c) PROVE SemaphoresGuard'
  <2>1. CASE StartRead(c) \/ EndRead(c) \/ StartWrite(c) \/ EndWrite(c)
    BY <2>1, InAndOut
  <2>2. CASE \E i \in Cells : Copy(c, i)
    BY <1>2, <2>2 DEF Copy
  <2>3. CASE Refuse(c) \/ TestFree(c) \/ Take(c)
    <3>1. /\ sem' = sem /\ pc[c] \in Writing
          /\ \E to \in {"wtake", "wend"} : pc' = [pc EXCEPT ![c] = to]
      BY <2>3 DEF Refuse, TestFree, Take, Writing
    <3> QED
      BY <1>1, <3>1, NobodyMoves DEF Reading, Writing
  <2>4. CASE SendArray(c) \/ SendCode(c) \/ SendLetter(c)
    <3>1. /\ sem' = sem /\ pc[c] \in {"rsend", "wrc", "wres"}
          /\ \E to \in {"idle", "wres", "ended"} : pc' = [pc EXCEPT ![c] = to]
      BY <2>4 DEF SendArray, SendCode, SendLetter
    <3> QED
      BY <1>3, <3>1 DEF PCs, Serving, Reading, Writing
  <2> QED
    BY <1>4, <2>1, <2>2, <2>3, <2>4 DEF Runs
<1>5. ASSUME NEW c \in Conns, Outside(c) PROVE SemaphoresGuard'
  <2>1. CASE SendFails(c) \/ SemInterrupted(c)
    BY <1>2, <2>1 DEF SendFails, SemInterrupted, ProcessExit
  <2>2. CASE ReadType(c) \/ HangUp(c) \/ \E i \in Indices : ReadIndex(c, i)
    <3>1. /\ sem' = sem /\ pc[c] \in {"idle", "windex"}
          /\ \E to \in {"rstart", "windex", "ended", "wstart"} : pc' = [pc EXCEPT ![c] = to]
      BY <2>2 DEF ReadType, HangUp, ReadIndex
    <3> QED
      BY <1>3, <3>1 DEF PCs, Serving, Reading, Writing
  <2> QED
    BY <1>5, <2>1, <2>2 DEF Outside
<1>6. ASSUME SignalHandler \/ CtrlC \/ Test \/ AcceptFails PROVE SemaphoresGuard'
  BY <1>2, <1>6 DEF SignalHandler, CtrlC, Test, AcceptFails, ProcessExit
<1>7. ASSUME NEW c \in Conns,
             Create(c) \/ CreateFails(c) \/ \E n \in Fds : Accept(c, n)
      PROVE  SemaphoresGuard'
  <2>1. /\ sem' = sem /\ pc[c] \in {"none", "accepted"}
        /\ \E to \in {"idle", "accepted", "ended"} : pc' = [pc EXCEPT ![c] = to]
    BY <1>7 DEF Create, CreateFails, Accept
  <2> QED
    BY <1>3, <2>1 DEF PCs, Serving, Reading, Writing
<1>8. ASSUME UNCHANGED vars PROVE SemaphoresGuard'
  BY <1>2, <1>8 DEF vars
<1> QED
  BY <1>4, <1>5, <1>6, <1>7, <1>8 DEF Next, MainStep

\* Nobody is inside.
LEMMA GuardedInit == Init => Guarded
<1> SUFFICES ASSUME Init PROVE Guarded
  OBVIOUS
<1>1. Readers = {} /\ Writers = {}
  BY DEF Init, Readers, Writers, Reading, Writing
<1>2. \A s \in Sems : sem[s] = 0
  BY DEF Init
<1> QED
  BY <1>1, <1>2, OwnedInit, FS_EmptySet
  DEF Guarded, SemaphoresGuard, Sems, ACTIVE_READERS, ACTIVE_WRITER, READ_QUEUE, WRITE_QUEUE

\* Guarded holds in every reachable state.
LEMMA GuardedAlways == Spec => []Guarded
<1>1. Guarded /\ [Next]_vars => Guarded'
  BY OwnedStep, GuardedStep DEF Guarded
<1> QED
  BY <1>1, GuardedInit, PTL DEF Spec
-----------------------------------------------------------------------------
(* The letters: what a thread knows of its locals between two steps, and,   *)
(* for the step that stores the mark, mutual exclusion.                     *)

LettersInPlace == \A i \in Cells : buf[i] \in {ARRAY_ELEMENT_BUSY, Letter(i)}

Frame(c) ==
  /\ pc[c] \notin {"wtake", "wend", "wrc", "wres"} => result[c] = NUL
  /\ result[c] # NUL => index[c] \in Cells /\ result[c] = Letter(index[c])
  /\ pc[c] = "wtake" => /\ index[c] \in Cells
                        /\ buf[index[c]] # ARRAY_ELEMENT_BUSY /\ result[c] = buf[index[c]]
  /\ pc[c] \in {"wend", "wrc", "wres"} /\ result[c] # NUL => c \in taken[index[c]]
  /\ pc[c] = "wres" => result[c] # NUL

LettersInv == LettersInPlace /\ (\A c \in Conns : Frame(c)) /\ LettersOnce

\* A step of one thread that takes and sends no letter, and loses none.
LEMMA PrivateStep ==
  ASSUME Owned, LettersInv, NEW c \in Conns, UNCHANGED <<buf, taken, got>>,
         \A d \in Conns \ {c} : pc'[d] = pc[d] /\ index'[d] = index[d] /\ result'[d] = result[d],
         Frame(c)',
         pc[c] \in {"wend", "wrc", "wres"} /\ result[c] # NUL =>
            pc'[c] \in {"wend", "wrc", "wres"} /\ index'[c] = index[c] /\ result'[c] = result[c]
  PROVE  LettersInv'
<1>1. LettersInPlace'
  BY DEF LettersInv, LettersInPlace
<1>2. \A d \in Conns : Frame(d)'
  BY DEF LettersInv, Frame
<1>3. taken \in [Cells -> SUBSET Conns]
  BY DEF Owned, TypeInv
<1>4. LettersOnce'
  BY <1>3, LetterIsPlain DEF LettersInv, LettersOnce
<1> QED
  BY <1>1, <1>2, <1>4 DEF LettersInv

\* A thread that goes on takes a letter once.
LEMMA LettersRuns ==
  ASSUME Guarded, LettersInv, NEW c \in Conns, Runs(c)
  PROVE  LettersInv'
<1> USE DEF Goto, Quiet, shared, locals, process, aux
<1>0. Owned
  BY DEF Guarded
<1>1. /\ pc \in [Conns -> PCs] /\ index \in [Conns -> Indices]
      /\ result \in [Conns -> Letters \cup {NUL}] /\ buf \in [Cells -> Contents]
      /\ taken \in [Cells -> SUBSET Conns] /\ got \in [Cells -> SUBSET (Conns \cup {NoConn})]
  BY <1>0 DEF Owned, TypeInv
<1>2. Frame(c)
  BY DEF LettersInv
<1>3. CASE StartRead(c) \/ EndRead(c) \/ SendArray(c) \/ StartWrite(c) \/ EndWrite(c) \/ Refuse(c)
  <2>1. /\ UNCHANGED <<buf, taken, got, index, result>>
        /\ \/ /\ pc[c] = "wend" /\ pc' = [pc EXCEPT ![c] = "wrc"]
           \/ /\ pc[c] \in {"rstart", "copy", "rsend", "wstart"}
              /\ \E to \in {"copy", "rsend", "idle", "wtest"} : pc' = [pc EXCEPT ![c] = to]
           \/ /\ pc[c] = "wtest" /\ pc' = [pc EXCEPT ![c] = "wend"]
    BY <1>3 DEF StartRead, EndRead, SendArray, StartWrite, EndWrite, Refuse
  <2> QED
    BY <1>0, <1>1, <1>2, <2>1, PrivateStep DEF Frame
<1>4. CASE \E i \in Cells : Copy(c, i)
  <2>1. UNCHANGED <<buf, taken, got, index, result, pc>>
    BY <1>4 DEF Copy
  <2> QED
    BY <1>0, <1>2, <2>1, PrivateStep DEF Frame
<1>5. CASE TestFree(c)
  <2>1. /\ pc[c] = "wtest" /\ pc' = [pc EXCEPT ![c] = "wtake"]
        /\ result' = [result EXCEPT ![c] = buf[index[c]]]
        /\ index[c] \in Cells /\ buf[index[c]] # ARRAY_ELEMENT_BUSY
        /\ UNCHANGED <<buf, index, taken, got>>
    BY <1>5 DEF TestFree
  <2>2. buf[index[c]] = Letter(index[c])
    BY <2>1 DEF LettersInv, LettersInPlace
  <2>3. pc'[c] = "wtake" /\ result'[c] = buf[index[c]]
    BY <1>1, <2>1
  <2>4. Frame(c)'
    BY <2>1, <2>2, <2>3 DEF Frame
  <2> QED
    BY <1>0, <1>1, <2>1, <2>4, PrivateStep
<1>6. CASE Take(c)
  <2> DEFINE i == index[c]
  <2>1. /\ pc[c] = "wtake" /\ pc' = [pc EXCEPT ![c] = "wend"]
        /\ buf' = [buf EXCEPT ![i] = ARRAY_ELEMENT_BUSY]
        /\ taken' = [taken EXCEPT ![i] = @ \cup {c}]
        /\ UNCHANGED <<index, result, got>>
    BY <1>6 DEF Take
  <2>2. i \in Cells /\ buf[i] # ARRAY_ELEMENT_BUSY /\ result[c] = Letter(i) /\ result[c] # NUL
    BY <1>2, <2>1, LetterIsPlain DEF Frame, LettersInv, LettersInPlace
  <2>3. taken[i] = {} /\ got[i] = {}
    BY <1>1, <2>2 DEF LettersInv, LettersOnce
  <2>4. \A d \in Conns : pc[d] \in Writing => d = c
    BY <2>1 DEF Guarded, SemaphoresGuard, Writers, Writing
  <2>5. LettersInPlace'
    BY <1>1, <2>1, <2>2 DEF LettersInv, LettersInPlace
  <2>6. pc'[c] = "wend" /\ \A d \in Conns \ {c} : pc'[d] = pc[d]
    BY <1>1, <2>1
  <2>7. /\ taken'[i] = {c} /\ buf'[i] = ARRAY_ELEMENT_BUSY
        /\ \A j \in Cells \ {i} : taken'[j] = taken[j] /\ buf'[j] = buf[j]
    BY <1>1, <2>1, <2>2, <2>3
  <2>8. LettersOnce'
    <3> SUFFICES ASSUME NEW j \in Cells
                 PROVE  /\ \A d, e \in taken'[j] : d = e
                        /\ buf'[j] = ARRAY_ELEMENT_BUSY <=> taken'[j] # {}
                        /\ got[j] \subseteq taken'[j]
                        /\ \A d \in taken'[j] \ got[j] :
                             /\ pc'[d] \in {"wend", "wrc", "wres"}
                             /\ index[d] = j /\ result[d] = Letter(j)
      BY <2>1 DEF LettersOnce
    <3>1. CASE j = i
      BY <2>2, <2>3, <2>6, <2>7, <3>1
    <3>2. CASE j # i
      BY <1>1, <2>1, <2>6, <2>7, <3>2 DEF LettersInv, LettersOnce
    <3> QED
      BY <3>1, <3>2
  <2>9. ASSUME NEW d \in Conns PROVE Frame(d)'
    <3>1. Frame(d)
      BY DEF LettersInv
    <3>2. CASE d = c
      BY <2>1, <2>2, <2>6, <2>7, <3>2 DEF Frame
    <3>3. CASE d # c
      BY <1>1, <2>1, <2>2, <2>4, <2>6, <2>7, <3>1, <3>3 DEF Frame, Writing
    <3> QED
      BY <3>2, <3>3
  <2> QED
    BY <2>5, <2>8, <2>9 DEF LettersInv
<1>7. CASE SendCode(c)
  <2>1. CASE pc'[c] = "wres"
    BY <1>0, <1>1, <1>2, <1>7, <2>1, PrivateStep DEF SendCode, Frame
  <2>2. CASE pc'[c] # "wres"
    <3>1. /\ result[c] = NUL /\ ForgetLocals(c) /\ UNCHANGED <<buf, taken, got>>
          /\ \E to \in {"idle", "ended"} : pc' = [pc EXCEPT ![c] = to]
      BY <1>1, <1>7, <2>2 DEF SendCode
    <3>2. /\ result'[c] = NUL /\ pc'[c] \in {"idle", "ended"}
          /\ \A d \in Conns \ {c} : pc'[d] = pc[d] /\ index'[d] = index[d] /\ result'[d] = result[d]
      BY <1>1, <3>1 DEF ForgetLocals
    <3>3. Frame(c)'
      BY <3>2 DEF Frame
    <3> QED
      BY <1>0, <3>1, <3>2, <3>3, PrivateStep
  <2> QED
    BY <2>1, <2>2
<1>8. CASE SendLetter(c)
  <2> DEFINE i == index[c]
  <2>1. table[fd[c]] = c
    BY <1>0, <1>8 DEF SendLetter, Owned, DescriptorsOwned, Serving
  <2>2. /\ pc[c] = "wres" /\ pc' = [pc EXCEPT ![c] = "idle"]
        /\ got' = [got EXCEPT ![i] = @ \cup {c}] /\ ForgetLocals(c)
        /\ UNCHANGED <<buf, taken>>
    BY <1>8, <2>1 DEF SendLetter
  <2>3. i \in Cells /\ c \in taken[i]
    BY <1>2, <2>2 DEF Frame
  <2>4. /\ pc'[c] = "idle" /\ result'[c] = NUL
        /\ \A d \in Conns \ {c} : pc'[d] = pc[d] /\ index'[d] = index[d] /\ result'[d] = result[d]
    BY <1>1, <2>2 DEF ForgetLocals
  <2>5. got'[i] = got[i] \cup {c} /\ \A j \in Cells \ {i} : got'[j] = got[j]
    BY <1>1, <2>2, <2>3
  <2>6. LettersInPlace'
    BY <2>2 DEF LettersInv, LettersInPlace
  <2>7. ASSUME NEW d \in Conns PROVE Frame(d)'
    BY <2>2, <2>4 DEF LettersInv, Frame
  <2>8. LettersOnce'
    <3> SUFFICES ASSUME NEW j \in Cells
                 PROVE  /\ got'[j] \subseteq taken[j]
                        /\ \A d \in taken[j] \ got'[j] :
                             /\ pc'[d] \in {"wend", "wrc", "wres"}
                             /\ index'[d] = j /\ result'[d] = Letter(j)
      BY <2>2 DEF LettersInv, LettersOnce
    <3>1. /\ got[j] \subseteq taken[j] /\ taken[j] \subseteq Conns
          /\ \A d \in taken[j] \ got[j] :
               /\ pc[d] \in {"wend", "wrc", "wres"} /\ index[d] = j /\ result[d] = Letter(j)
      BY <1>1 DEF LettersInv, LettersOnce
    <3>2. c \notin taken[j] \ got'[j]
      <4>1. CASE j = i
        BY <2>5, <4>1
      <4>2. CASE j # i
        BY <2>5, <3>1, <4>2
      <4> QED
        BY <4>1, <4>2
    <3>3. got[j] \subseteq got'[j] /\ got'[j] \subseteq taken[j]
      BY <2>3, <2>5, <3>1
    <3> QED
      BY <2>4, <3>1, <3>2, <3>3
  <2> QED
    BY <2>6, <2>7, <2>8 DEF LettersInv
<1> QED
  BY <1>3, <1>4, <1>5, <1>6, <1>7, <1>8 DEF Runs

\* LettersInv is inductive.
LEMMA LettersStep ==
  ASSUME Guarded, LettersInv, [Next]_vars
  PROVE  LettersInv'
<1> USE DEF Goto, Quiet, shared, locals, process, aux
<1>0. Owned
  BY DEF Guarded
<1>1. pc \in [Conns -> PCs] /\ index \in [Conns -> Indices]
  BY <1>0 DEF Owned, TypeInv
<1>2. ASSUME UNCHANGED <<buf, pc, index, result, taken, got>> PROVE LettersInv'
  BY <1>2 DEF LettersInv, LettersInPlace, Frame, LettersOnce
<1>3. ASSUME NEW c \in Conns, Outside(c) PROVE LettersInv'
  <2>1. CASE SendFails(c) \/ SemInterrupted(c)
    BY <1>2, <2>1 DEF SendFails, SemInterrupted, ProcessExit
  <2>2. CASE ReadType(c) \/ HangUp(c) \/ \E i \in Indices : ReadIndex(c, i)
    <3>1. /\ pc[c] \in {"idle", "windex"} /\ UNCHANGED <<buf, taken, got, result>>
          /\ \E to \in {"rstart", "windex", "ended", "wstart"} : pc' = [pc EXCEPT ![c] = to]
          /\ \A d \in Conns \ {c} : index'[d] = index[d]
      BY <1>1, <2>2 DEF ReadType, HangUp, ReadIndex
    <3>2. Frame(c)
      BY DEF LettersInv
    <3>3. result[c] = NUL /\ pc'[c] \in {"rstart", "windex", "ended", "wstart"}
      BY <1>1, <3>1, <3>2 DEF Frame
    <3>4. Frame(c)'
      BY <3>1, <3>3 DEF Frame
    <3> QED
      BY <1>0, <1>1, <3>1, <3>3, <3>4, PrivateStep
  <2> QED
    BY <1>3, <2>1, <2>2 DEF Outside
<1>4. ASSUME SignalHandler \/ CtrlC \/ Test \/ AcceptFails PROVE LettersInv'
  BY <1>2, <1>4 DEF SignalHandler, CtrlC, Test, AcceptFails, ProcessExit
<1>5. ASSUME NEW c \in Conns,
             Create(c) \/ CreateFails(c) \/ \E n \in Fds : Accept(c, n)
      PROVE  LettersInv'
  <2>1. /\ pc[c] \in {"none", "accepted"} /\ UNCHANGED <<buf, taken, got, index, result>>
        /\ \E to \in {"idle", "accepted", "ended"} : pc' = [pc EXCEPT ![c] = to]
    BY <1>5 DEF Create, CreateFails, Accept
  <2>2. Frame(c)
    BY DEF LettersInv
  <2> QED
    BY <1>0, <1>1, <2>1, <2>2, PrivateStep DEF Frame
<1>6. ASSUME UNCHANGED vars PROVE LettersInv'
  BY <1>2, <1>6 DEF vars
<1> QED
  BY <1>3, <1>4, <1>5, <1>6, LettersRuns DEF Next, MainStep

\* No letter has been taken.
LEMMA LettersInit == Init => LettersInv
<1> SUFFICES ASSUME Init PROVE LettersInv
  OBVIOUS
<1>1. LettersInPlace /\ LettersOnce
  BY LetterIsPlain DEF Init, LettersInPlace, LettersOnce
<1>2. \A c \in Conns : Frame(c)
  BY DEF Init, Frame
<1> QED
  BY <1>1, <1>2 DEF LettersInv

\* The threads inside are counted, a writer is alone, and no letter is given
\* twice or lost, for any number of threads and cells.
THEOREM EveryLetterGuarded == Spec => []LettersGuarded
<1>1. LettersInv /\ Guarded /\ [Next]_vars => LettersInv'
  BY LettersStep
<1>2. LettersInv /\ Guarded => LettersGuarded
  BY DEF LettersInv, Guarded, LettersGuarded
<1> QED
  BY <1>1, <1>2, LettersInit, GuardedAlways, PTL DEF Spec
-----------------------------------------------------------------------------
(* Refinement.  What the copies and the codes have to do with the array.   *)

Codes == {OK, WRITE_BUSY_ERROR, RANGE_ERROR}

\* A copy that is being made agrees with the array as far as it goes; before it
\* there is none; a code other than OK is set where the answer is decided.
AnswerFrame(c) ==
  /\ arr[c] \in Copies /\ rc[c] \in Codes
  /\ pc[c] = "copy" => \A i \in DOMAIN arr[c] : arr[c][i] = buf[i]
  /\ pc[c] \notin {"copy", "rsend"} => arr[c] = <<>>
  /\ pc[c] \notin {"wend", "wrc", "wres"} => rc[c] = OK

AnswersInv ==
  /\ arr \in [Conns -> Copies] /\ rc \in [Conns -> Codes]
  /\ \A c \in Conns : AnswerFrame(c)

\* A step of one thread that leaves the array alone.
LEMMA OwnAnswer ==
  ASSUME AnswersInv, NEW c \in Conns, buf' = buf,
         arr' = [arr EXCEPT ![c] = arr'[c]], rc' = [rc EXCEPT ![c] = rc'[c]],
         \A d \in Conns \ {c} : pc'[d] = pc[d],
         AnswerFrame(c)'
  PROVE  AnswersInv'
<1>1. /\ arr' \in [Conns -> Copies] /\ rc' \in [Conns -> Codes]
      /\ \A d \in Conns \ {c} : arr'[d] = arr[d] /\ rc'[d] = rc[d]
  BY DEF AnswersInv, AnswerFrame
<1>2. ASSUME NEW d \in Conns \ {c} PROVE AnswerFrame(d)'
  BY <1>1 DEF AnswersInv, AnswerFrame
<1> QED
  BY <1>1, <1>2 DEF AnswersInv

\* A thread that goes on makes its answer of what it has found in the
\* array.
LEMMA AnswersRuns ==
  ASSUME Guarded, LettersInv, AnswersInv, NEW c \in Conns, Runs(c)
  PROVE  AnswersInv'
<1> USE DEF Goto, Quiet, shared, locals, process, aux
<1>1. /\ pc \in [Conns -> PCs] /\ buf \in [Cells -> Contents]
      /\ arr \in [Conns -> Copies] /\ rc \in [Conns -> Codes] /\ <<>> \in Copies
      /\ OK \in Codes /\ WRITE_BUSY_ERROR \in Codes /\ RANGE_ERROR \in Codes
  BY EmptyCopy DEF Guarded, Owned, TypeInv, AnswersInv, Codes
<1>2. AnswerFrame(c)
  BY DEF AnswersInv
<1>3. CASE StartRead(c) \/ EndRead(c) \/ StartWrite(c) \/ EndWrite(c) \/ TestFree(c)
  <2>1. /\ buf' = buf /\ arr' = arr /\ rc' = rc /\ \A d \in Conns \ {c} : pc'[d] = pc[d]
        /\ \/ pc[c] = "rstart" /\ pc'[c] = "copy"
           \/ pc[c] = "copy" /\ pc'[c] = "rsend"
           \/ pc[c] \in {"wstart", "wtest"} /\ pc'[c] \in {"wtest", "wtake"}
           \/ pc[c] = "wend" /\ pc'[c] = "wrc"
    BY <1>1, <1>3 DEF StartRead, EndRead, StartWrite, EndWrite, TestFree
  <2>2. AnswerFrame(c)'
    BY <1>2, <2>1 DEF AnswerFrame
  <2> QED
    BY <1>1, <2>1, <2>2, OwnAnswer
<1>4. CASE SendArray(c) \/ SendLetter(c) \/ SendCode(c)
  <2>1. /\ buf' = buf /\ \A d \in Conns \ {c} : pc'[d] = pc[d]
        /\ arr' = [arr EXCEPT ![c] = arr'[c]] /\ rc' = [rc EXCEPT ![c] = rc'[c]]
        /\ \/ pc[c] = "wrc" /\ pc'[c] = "wres" /\ arr' = arr /\ rc' = rc
           \/ pc[c] = "rsend" /\ pc'[c] = "idle" /\ arr'[c] = <<>> /\ rc' = rc
           \/ pc'[c] \in {"idle", "ended"} /\ arr'[c] = <<>> /\ rc'[c] = OK
    BY <1>1, <1>4 DEF SendArray, SendLetter, SendCode, ForgetLocals
  <2>2. AnswerFrame(c)'
    BY <1>1, <1>2, <2>1 DEF AnswerFrame
  <2> QED
    BY <2>1, <2>2, OwnAnswer
<1>5. CASE Refuse(c)
  <2>1. /\ buf' = buf /\ arr' = arr /\ pc[c] = "wtest" /\ pc'[c] = "wend"
        /\ \A d \in Conns \ {c} : pc'[d] = pc[d]
        /\ rc' = [rc EXCEPT ![c] = rc'[c]] /\ rc'[c] \in Codes
    BY <1>1, <1>5 DEF Refuse
  <2>2. AnswerFrame(c)'
    BY <1>2, <2>1 DEF AnswerFrame
  <2> QED
    BY <1>1, <2>1, <2>2, OwnAnswer
<1>6. ASSUME NEW i \in Cells, Copy(c, i) PROVE AnswersInv'
  <2>1. /\ pc[c] = "copy" /\ pc' = pc /\ buf' = buf /\ rc' = rc
        /\ arr' = [arr EXCEPT ![c] = [j \in DOMAIN arr[c] \cup {i} |->
                                        IF j = i THEN buf[i] ELSE arr[c][j]]]
    BY <1>6 DEF Copy
  <2>2. arr'[c] = [j \in DOMAIN arr[c] \cup {i} |-> IF j = i THEN buf[i] ELSE arr[c][j]]
    BY <1>1, <2>1
  <2>3. arr'[c] \in Copies
    <3>1. arr[c] \in Copies /\ buf[i] \in Contents
      BY <1>1
    <3> QED
      BY <2>2, <3>1, ExtendedCopy
  <2>4. \A j \in DOMAIN arr'[c] : arr'[c][j] = buf[j]
    BY <1>2, <2>1, <2>2 DEF AnswerFrame
  <2>5. AnswerFrame(c)'
    BY <1>2, <2>1, <2>3, <2>4 DEF AnswerFrame
  <2> QED
    BY <1>1, <2>1, <2>2, <2>5, OwnAnswer
<1>7. CASE Take(c)
  <2>1. /\ pc[c] = "wtake" /\ pc' = [pc EXCEPT ![c] = "wend"] /\ arr' = arr /\ rc' = rc
    BY <1>7 DEF Take
  <2>2. \A d \in Conns : pc[d] # "copy"
    BY <2>1 DEF Guarded, SemaphoresGuard, Writers, Readers, Writing, Reading
  <2>3. \A d \in Conns : pc'[d] # "copy"
    BY <1>1, <2>1, <2>2
  <2>4. ASSUME NEW d \in Conns PROVE AnswerFrame(d)'
    <3>1. AnswerFrame(d)
      BY DEF AnswersInv
    <3> QED
      BY <1>1, <2>1, <2>3, <3>1 DEF AnswerFrame
  <2> QED
    BY <1>1, <2>1, <2>4 DEF AnswersInv
<1> QED
  BY <1>3, <1>4, <1>5, <1>6, <1>7 DEF Runs

\* AnswersInv is inductive.
LEMMA AnswersStep ==
  ASSUME Guarded, LettersInv, AnswersInv, [Next]_vars
  PROVE  AnswersInv'
<1> USE DEF Goto, Quiet, shared, locals, process, aux
<1>1. /\ pc \in [Conns -> PCs] /\ arr \in [Conns -> Copies] /\ rc \in [Conns -> Codes]
  BY DEF Guarded, Owned, TypeInv, AnswersInv
<1>2. ASSUME UNCHANGED <<buf, pc, arr, rc>> PROVE AnswersInv'
  BY <1>2 DEF AnswersInv, AnswerFrame
<1>3. ASSUME NEW c \in Conns, UNCHANGED <<buf, arr, rc>>,
             pc[c] \in {"none", "accepted", "idle", "windex"},
             \E to \in {"idle", "accepted", "ended", "rstart", "windex", "wstart"} :
                pc' = [pc EXCEPT ![c] = to]
      PROVE  AnswersInv'
  <2>1. AnswerFrame(c)'
    BY <1>1, <1>3 DEF AnswersInv, AnswerFrame
  <2> QED
    BY <1>1, <1>3, <2>1, OwnAnswer
<1>4. ASSUME NEW c \in Conns, Outside(c) PROVE AnswersInv'
  <2>1. CASE SendFails(c) \/ SemInterrupted(c)
    BY <1>2, <2>1 DEF SendFails, SemInterrupted, ProcessExit
  <2>2. CASE ReadType(c) \/ HangUp(c) \/ \E i \in Indices : ReadIndex(c, i)
    BY <1>3, <2>2 DEF ReadType, HangUp, ReadIndex
  <2> QED
    BY <1>4, <2>1, <2>2 DEF Outside
<1>5. ASSUME SignalHandler \/ CtrlC \/ Test \/ AcceptFails PROVE AnswersInv'
  BY <1>2, <1>5 DEF SignalHandler, CtrlC, Test, AcceptFails, ProcessExit
<1>6. ASSUME NEW c \in Conns,
             Create(c) \/ CreateFails(c) \/ \E n \in Fds : Accept(c, n)
      PROVE  AnswersInv'
  BY <1>3, <1>6 DEF Create, CreateFails, Accept
<1>7. ASSUME UNCHANGED vars PROVE AnswersInv'
  BY <1>2, <1>7 DEF vars
<1> QED
  BY <1>4, <1>5, <1>6, <1>7, AnswersRuns DEF Next, MainStep

\* What the refinement needs holds in every reachable state.
LEMMA AnswersAlways == Spec => [](Guarded /\ LettersInv /\ AnswersInv)
<1>1. Init => AnswersInv
  BY EmptyCopy DEF Init, AnswersInv, AnswerFrame, Codes
<1>2. Guarded /\ LettersInv /\ AnswersInv /\ [Next]_vars => LettersInv' /\ AnswersInv'
  BY LettersStep, AnswersStep
<1> QED
  BY <1>1, <1>2, LettersInit, GuardedAlways, PTL DEF Spec
-----------------------------------------------------------------------------
(* Every step of a thread is a step of the shared array or changes nothing  *)
(* of it, and the end of the process is the departure of all its clients.   *)

Nothing == [rc |-> OK, letter |-> NUL, array |-> <<>>]

Alike(c) ==
  \A d \in Conns \ {c} : /\ pc'[d] = pc[d] /\ arr'[d] = arr[d]
                          /\ rc'[d] = rc[d] /\ result'[d] = result[d]

\* The steps of the array, told by the phase and the answer of c.
LEMMA ArrayStep ==
  ASSUME NEW c \in Conns, Up, Up', Alike(c),
         \/ buf' = buf /\ Phase(c)' = Phase(c) /\ Pending(c)' = Pending(c)
         \/ /\ Phase(c) = "idle" /\ Phase(c)' \in {"read", "write"}
            /\ buf' = buf /\ Pending(c)' = Pending(c)
         \/ /\ Phase(c) = "read" /\ Phase(c)' = "answered" /\ buf' = buf
            /\ Pending(c)' = [rc |-> OK, letter |-> NUL, array |-> buf]
         \/ /\ Phase(c) = "write" /\ Phase(c)' = "answered" /\ buf' = buf
            /\ Pending(c)' = [rc |-> RANGE_ERROR, letter |-> NUL, array |-> <<>>]
         \/ /\ Phase(c) = "answered" /\ Phase(c)' = "idle" /\ buf' = buf
            /\ Pending(c)' = Nothing
         \/ /\ Phase(c) # "gone" /\ Phase(c)' = "gone" /\ buf' = buf
            /\ Pending(c)' = Nothing
         \/ \E i \in Cells :
              /\ Phase(c) = "write" /\ Phase(c)' = "answered"
              /\ \/ /\ buf[i] = ARRAY_ELEMENT_BUSY /\ buf' = buf
                    /\ Pending(c)' = [rc |-> WRITE_BUSY_ERROR, letter |-> NUL, array |-> <<>>]
                 \/ /\ buf[i] # ARRAY_ELEMENT_BUSY
                    /\ buf' = [buf EXCEPT ![i] = ARRAY_ELEMENT_BUSY]
                    /\ Pending(c)' = [rc |-> OK, letter |-> buf[i], array |-> <<>>]
  PROVE  [Array!ANext]_(Array!avars)
<1> DEFINE ph == [d \in Conns |-> Phase(d)]
           an == [d \in Conns |-> Pending(d)]
<1>0. \A d \in Conns \ {c} : Phase(d)' = Phase(d) /\ Pending(d)' = Pending(d)
  BY DEF Phase, Pending, Alike
<1>1. ph' = [ph EXCEPT ![c] = Phase(c)'] /\ an' = [an EXCEPT ![c] = Pending(c)']
  BY <1>0
<1>2. ph[c] = Phase(c) /\ an[c] = Pending(c)
  OBVIOUS
<1>3. ph = [d \in Conns |-> ph[d]] /\ an = [d \in Conns |-> an[d]]
  OBVIOUS
<1> HIDE DEF ph, an
<1>4. CASE buf' = buf /\ Phase(c)' = Phase(c) /\ Pending(c)' = Pending(c)
  <2>1. ph' = ph /\ an' = an
    BY <1>1, <1>2, <1>3, <1>4
  <2> QED
    BY <1>4, <2>1 DEF Array!avars, ph, an
<1>5. CASE /\ Phase(c) = "idle" /\ Phase(c)' \in {"read", "write"}
           /\ buf' = buf /\ Pending(c)' = Pending(c)
  <2>1. an' = an
    BY <1>1, <1>2, <1>3, <1>5
  <2>2. Array!Ask(c, "read") \/ Array!Ask(c, "write")
    BY <1>1, <1>2, <1>5, <2>1 DEF Array!Ask, ph, an
  <2> QED
    BY <2>2 DEF Array!ANext
<1>6. CASE /\ Phase(c) = "read" /\ Phase(c)' = "answered" /\ buf' = buf
           /\ Pending(c)' = [rc |-> OK, letter |-> NUL, array |-> buf]
  <2>1. Array!Snapshot(c)
    BY <1>1, <1>2, <1>6 DEF Array!Snapshot, Array!Answered, Array!Answer, ph, an
  <2> QED
    BY <2>1 DEF Array!ANext
<1>7. CASE /\ Phase(c) = "write" /\ Phase(c)' = "answered" /\ buf' = buf
           /\ Pending(c)' = [rc |-> RANGE_ERROR, letter |-> NUL, array |-> <<>>]
  <2>1. Array!RefuseRange(c)
    BY <1>1, <1>2, <1>7 DEF Array!RefuseRange, Array!Answered, Array!Answer, ph, an
  <2> QED
    BY <2>1 DEF Array!ANext
<1>8. CASE /\ Phase(c) = "answered" /\ Phase(c)' = "idle" /\ buf' = buf
           /\ Pending(c)' = Nothing
  <2>1. Array!Deliver(c)
    BY <1>1, <1>2, <1>8 DEF Array!Deliver, Array!NoAnswer, Array!Answer, Nothing, ph, an
  <2> QED
    BY <2>1 DEF Array!ANext
<1>9. CASE /\ Phase(c) # "gone" /\ Phase(c)' = "gone" /\ buf' = buf
           /\ Pending(c)' = Nothing
  <2>1. /\ ph' = [d \in Conns |-> IF d \in {c} THEN "gone" ELSE ph[d]]
        /\ an' = [d \in Conns |-> IF d \in {c} THEN Nothing ELSE an[d]]
    BY <1>1, <1>3, <1>9
  <2>2. Array!Leave({c})
    BY <1>2, <1>9, <2>1 DEF Array!Leave, Array!NoAnswer, Array!Answer, Nothing, ph, an
  <2> QED
    BY <2>2 DEF Array!ANext
<1>10. ASSUME NEW i \in Cells, Phase(c) = "write", Phase(c)' = "answered",
              \/ /\ buf[i] = ARRAY_ELEMENT_BUSY /\ buf' = buf
                 /\ Pending(c)' = [rc |-> WRITE_BUSY_ERROR, letter |-> NUL, array |-> <<>>]
              \/ /\ buf[i] # ARRAY_ELEMENT_BUSY
                 /\ buf' = [buf EXCEPT ![i] = ARRAY_ELEMENT_BUSY]
                 /\ Pending(c)' = [rc |-> OK, letter |-> buf[i], array |-> <<>>]
       PROVE  [Array!ANext]_(Array!avars)
  <2>1. Array!RefuseBusy(c, i) \/ Array!Take(c, i)
    BY <1>1, <1>2, <1>10
    DEF Array!RefuseBusy, Array!Take, Array!Answered, Array!Answer, ph, an
  <2>2. i \in Array!ACells
    BY DEF Array!ACells, Cells
  <2> QED
    BY <2>1, <2>2 DEF Array!ANext
<1> QED
  BY <1>4, <1>5, <1>6, <1>7, <1>8, <1>9, <1>10

\* The process ends, and whoever was there leaves.
LEMMA AllLeave ==
  ASSUME Up, ~ Up', buf' = buf
  PROVE  [Array!ANext]_(Array!avars)
<1> DEFINE S == {d \in Conns : Phase(d) # "gone"}
           ph == [d \in Conns |-> Phase(d)]
           an == [d \in Conns |-> Pending(d)]
<1>1. /\ ph' = [d \in Conns |-> IF d \in S THEN "gone" ELSE ph[d]]
      /\ an' = [d \in Conns |-> IF d \in S THEN Nothing ELSE an[d]]
      /\ \A d \in S : ph[d] # "gone"
  <2>1. ph' = [d \in Conns |-> "gone"] /\ an' = [d \in Conns |-> Nothing]
    BY DEF Phase, Pending, Nothing
  <2>2. ASSUME NEW d \in Conns, d \notin S PROVE ph[d] = "gone" /\ an[d] = Nothing
    <3>1. Phase(d) = "gone"
      BY <2>2
    <3>2. Pending(d) = Nothing
      BY <3>1 DEF Phase, Pending, Nothing
    <3>3. ph[d] = Phase(d) /\ an[d] = Pending(d)
      OBVIOUS
    <3> QED
      BY <3>1, <3>2, <3>3
  <2>3. \A d \in S : ph[d] # "gone"
    OBVIOUS
  <2> HIDE DEF ph, an, S
  <2> QED
    BY <2>1, <2>2, <2>3
<1> HIDE DEF ph, an, S
<1>2. S \in SUBSET Conns
  BY DEF S
<1>3. Array!Leave(S)
  BY <1>1 DEF Array!Leave, Array!NoAnswer, Array!Answer, Nothing, ph, an
<1> QED
  BY <1>2, <1>3 DEF Array!ANext

\* A thread that goes on takes a step of the abstract array, or none.
LEMMA RunsArray ==
  ASSUME Guarded, LettersInv, AnswersInv, NEW c \in Conns, Runs(c)
  PROVE  [Array!ANext]_(Array!avars)
<1> USE DEF Goto, Quiet, shared, locals, process, aux, Alike
<1>1. /\ pc \in [Conns -> PCs] /\ arr \in [Conns -> Copies] /\ rc \in [Conns -> Codes]
      /\ result \in [Conns -> Letters \cup {NUL}] /\ buf \in [Cells -> Contents]
  BY DEF Guarded, Owned, TypeInv, AnswersInv
<1>2. Frame(c) /\ AnswerFrame(c)
  BY DEF LettersInv, AnswersInv
<1>3. Up /\ Up'
  BY DEF Runs, StartRead, EndRead, SendArray, Copy, StartWrite, Refuse, TestFree, Take,
         EndWrite, SendCode, SendLetter, Up
<1>4. CASE StartRead(c) \/ \E i \in Cells : Copy(c, i)
  <2>1. /\ pc[c] \in {"rstart", "copy"} /\ pc'[c] = "copy" /\ buf' = buf /\ Alike(c)
    BY <1>1, <1>4 DEF StartRead, Copy
  <2>2. /\ Phase(c) = "read" /\ Pending(c) = Nothing
        /\ Phase(c)' = "read" /\ Pending(c)' = Nothing
    BY <1>3, <2>1 DEF Phase, Pending, Nothing
  <2> QED
    BY <1>3, <2>1, <2>2, ArrayStep
<1>5. CASE EndRead(c)
  <2>1. /\ pc[c] = "copy" /\ pc'[c] = "rsend" /\ buf' = buf /\ arr' = arr /\ Alike(c)
    BY <1>1, <1>5 DEF EndRead
  <2>2. arr[c] = buf
    <3>1. DOMAIN arr[c] = Cells /\ \A i \in Cells : arr[c][i] = buf[i]
      BY <1>2, <1>5 DEF EndRead, AnswerFrame
    <3>2. PICK D \in SUBSET Cells : arr[c] \in [D -> Contents]
      BY <1>1 DEF Copies
    <3> QED
      BY <1>1, <3>1, <3>2
  <2>3. /\ Phase(c) = "read" /\ Phase(c)' = "answered"
        /\ Pending(c)' = [rc |-> OK, letter |-> NUL, array |-> buf]
    BY <1>3, <2>1, <2>2 DEF Phase, Pending
  <2> QED
    BY <1>3, <2>1, <2>3, ArrayStep
<1>6. CASE StartWrite(c) \/ TestFree(c)
  <2>1. /\ pc[c] \in {"wstart", "wtest"} /\ pc'[c] \in {"wtest", "wtake"} /\ buf' = buf
        /\ Alike(c)
    BY <1>1, <1>6 DEF StartWrite, TestFree
  <2>2. /\ Phase(c) = "write" /\ Pending(c) = Nothing
        /\ Phase(c)' = "write" /\ Pending(c)' = Nothing
    BY <1>3, <2>1 DEF Phase, Pending, Nothing
  <2> QED
    BY <1>3, <2>1, <2>2, ArrayStep
<1>7. CASE Refuse(c)
  <2>1. /\ pc[c] = "wtest" /\ pc'[c] = "wend" /\ buf' = buf /\ result'[c] = NUL /\ Alike(c)
        /\ \/ rc'[c] = RANGE_ERROR
           \/ rc'[c] = WRITE_BUSY_ERROR /\ \E i \in Cells : buf[i] = ARRAY_ELEMENT_BUSY
    BY <1>1, <1>2, <1>7 DEF Refuse, Frame
  <2>2. /\ Phase(c) = "write" /\ Phase(c)' = "answered"
        /\ Pending(c)' = [rc |-> rc'[c], letter |-> NUL, array |-> <<>>]
    BY <1>3, <2>1 DEF Phase, Pending
  <2> QED
    BY <1>3, <2>1, <2>2, ArrayStep
<1>8. CASE Take(c)
  <2>1. /\ pc[c] = "wtake" /\ pc'[c] = "wend" /\ rc'[c] = OK /\ result'[c] = buf[index[c]]
        /\ index[c] \in Cells /\ buf[index[c]] # ARRAY_ELEMENT_BUSY /\ Alike(c)
        /\ buf' = [buf EXCEPT ![index[c]] = ARRAY_ELEMENT_BUSY]
    BY <1>1, <1>2, <1>8 DEF Take, Frame, AnswerFrame
  <2>2. /\ Phase(c) = "write" /\ Phase(c)' = "answered"
        /\ Pending(c)' = [rc |-> OK, letter |-> buf[index[c]], array |-> <<>>]
    BY <1>3, <2>1 DEF Phase, Pending
  <2> QED
    BY <1>3, <2>1, <2>2, ArrayStep
<1>9. CASE EndWrite(c) \/ (SendCode(c) /\ pc'[c] = "wres")
  <2>1. /\ pc[c] \in {"wend", "wrc"} /\ pc'[c] \in {"wrc", "wres"} /\ buf' = buf
        /\ rc' = rc /\ result' = result /\ Alike(c)
    BY <1>1, <1>9 DEF EndWrite, SendCode, ForgetLocals
  <2>2. /\ Phase(c)' = Phase(c) /\ Pending(c)' = Pending(c)
    BY <1>3, <2>1 DEF Phase, Pending
  <2> QED
    BY <1>3, <2>1, <2>2, ArrayStep
<1>10. CASE SendArray(c) \/ SendLetter(c) \/ (SendCode(c) /\ pc'[c] # "wres")
  <2>1. /\ pc[c] \in {"rsend", "wrc", "wres"} /\ pc'[c] \in {"idle", "ended"} /\ buf' = buf
        /\ Alike(c)
    BY <1>1, <1>10 DEF SendArray, SendLetter, SendCode, ForgetLocals
  <2>2. /\ Phase(c) = "answered" /\ Phase(c)' \in {"idle", "gone"} /\ Pending(c)' = Nothing
    BY <1>3, <2>1 DEF Phase, Pending, Nothing
  <2> QED
    BY <1>3, <2>1, <2>2, ArrayStep
<1> QED
  BY <1>4, <1>5, <1>6, <1>7, <1>8, <1>9, <1>10 DEF Runs

\* Whoever else steps takes a step of the abstract array, or none.
LEMMA OthersArray ==
  ASSUME Guarded, LettersInv, AnswersInv,
         \/ CtrlC \/ SignalHandler \/ MainStep \/ UNCHANGED vars
         \/ \E c \in Conns : Outside(c)
  PROVE  [Array!ANext]_(Array!avars)
<1> USE DEF Goto, Quiet, shared, locals, process, aux, Alike
<1>1. pc \in [Conns -> PCs]
  BY DEF Guarded, Owned, TypeInv
<1>2. ASSUME UNCHANGED <<buf, pc, arr, rc, result>>, Up' = Up PROVE UNCHANGED Array!avars
  BY <1>2 DEF Array!avars, Phase, Pending
<1>3. ASSUME NEW c \in Conns, SendFails(c) \/ SemInterrupted(c)
      PROVE  [Array!ANext]_(Array!avars)
  BY <1>3, AllLeave DEF SendFails, SemInterrupted, ProcessExit, Up
<1>4. ASSUME NEW c \in Conns,
             \/ ReadType(c) \/ HangUp(c) \/ \E i \in Indices : ReadIndex(c, i)
             \/ Create(c) \/ CreateFails(c) \/ \E n \in Fds : Accept(c, n)
      PROVE  [Array!ANext]_(Array!avars)
  <2>1. /\ pc[c] \in {"none", "accepted", "idle", "windex"}
        /\ \/ pc[c] \in {"none", "accepted"} /\ pc'[c] \in {"accepted", "idle"}
           \/ pc[c] = "idle" /\ pc'[c] \in {"rstart", "windex"}
           \/ pc[c] = "windex" /\ pc'[c] = "wstart"
           \/ pc'[c] = "ended"
        /\ buf' = buf /\ Alike(c) /\ Up /\ Up'
    BY <1>1, <1>4 DEF ReadType, HangUp, ReadIndex, Create, CreateFails, Accept, Up
  <2>2. /\ Pending(c)' = Pending(c) /\ Pending(c) = Nothing
        /\ \/ Phase(c) = "idle" /\ Phase(c)' \in {"read", "write"}
           \/ Phase(c)' = Phase(c)
           \/ Phase(c) # "gone" /\ Phase(c)' = "gone"
    BY <2>1 DEF Phase, Pending, Nothing
  <2> QED
    BY <2>1, <2>2, ArrayStep
<1>5. CASE Test
  <2>1. CASE mpc' = "ended"
    BY <1>5, <2>1, AllLeave DEF Test, ProcessExit, Up
  <2>2. CASE mpc' # "ended"
    BY <1>2, <1>5, <2>2 DEF Test, ProcessExit, Up
  <2> QED
    BY <2>1, <2>2
<1>6. CASE AcceptFails \/ SignalHandler \/ CtrlC \/ UNCHANGED vars
  BY <1>2, <1>6 DEF AcceptFails, SignalHandler, CtrlC, vars, Up
<1> QED
  BY <1>3, <1>4, <1>5, <1>6 DEF MainStep, Outside

\* The threads together are the array on which every request takes effect at
\* once, up to the moment when the process ends under them.
THEOREM ThreadsRefine == Spec => Linearizable
<1>1. Init => Array!AInit
  BY DEF Init, Array!AInit, Array!ACells, Array!ALetter, Array!NoAnswer, Array!Answer,
         Cells, Letter, Phase, Pending, Up
<1>2. Guarded /\ LettersInv /\ AnswersInv /\ [Next]_vars => [Array!ANext]_(Array!avars)
  BY RunsArray, OthersArray DEF Next
<1> QED
  BY <1>1, <1>2, AnswersAlways, PTL DEF Spec, Array!ASpec, Linearizable
=============================================================================
