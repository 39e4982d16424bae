--------------------------- MODULE ForkServProofs ---------------------------
(***************************************************************************)
(* Machine-checked facts about ForkServ, for any number of connections,    *)
(* cells, descriptors and killed children, and about its composition with  *)
(* clnt.c, for any choice of the connections that clnt.c opens.            *)
(***************************************************************************)
EXTENDS Clnt, FiniteSetTheorems, SequenceTheorems, WellFoundedInduction, TLAPS

-----------------------------------------------------------------------------
(* What the four semop arrays do.                                          *)

\* What the four semop arrays wait for, and which count they change.
LEMMA SemopFacts ==
  ASSUME NEW v \in [Sems -> Nat]
  PROVE  /\ Blocks(v, start_read) <=> v[WRITE_QUEUE] # 0 \/ v[ACTIVE_WRITER] # 0
         /\ After(v, start_read) = [v EXCEPT ![ACTIVE_READERS] = @ + 1]
         /\ Blocks(v, end_read) <=> v[ACTIVE_READERS] = 0
         /\ After(v, end_read) = [v EXCEPT ![ACTIVE_READERS] = @ - 1]
         /\ Blocks(v, start_write) <=> v[ACTIVE_READERS] # 0 \/ v[ACTIVE_WRITER] # 0
         /\ After(v, start_write) = [v EXCEPT ![ACTIVE_WRITER] = @ + 1]
         /\ Blocks(v, end_write) <=> v[ACTIVE_WRITER] = 0
         /\ After(v, end_write) = [v EXCEPT ![ACTIVE_WRITER] = @ - 1]
<1> USE DEF Buf, V, P, Level, Term, MaxOps, Sems, WRITE_QUEUE, READ_QUEUE, ACTIVE_WRITER,
        ACTIVE_READERS
<1>1. /\ v[0] \in Nat /\ v[1] \in Nat /\ v[2] \in Nat /\ v[3] \in Nat
      /\ Len(start_read) = 5 /\ Len(end_read) = 1 /\ Len(start_write) = 5 /\ Len(end_write) = 1
  BY DEF start_read, end_read, start_write, end_write
<1>2. \A n \in Sems : /\ Level(v, start_read, n, 5) = IF n = 3 THEN v[n] + 1 ELSE v[n]
                      /\ Level(v, end_read, n, 1) = IF n = 3 THEN v[n] - 1 ELSE v[n]
  BY <1>1 DEF start_read, end_read
<1>3. \A n \in Sems : /\ Level(v, start_write, n, 5) = IF n = 2 THEN v[n] + 1 ELSE v[n]
                      /\ Level(v, end_write, n, 1) = IF n = 2 THEN v[n] - 1 ELSE v[n]
  BY <1>1 DEF start_write, end_write
<1>4. Blocks(v, start_read) <=> v[0] # 0 \/ v[2] # 0
  BY <1>1 DEF start_read, Blocks
<1>5. Blocks(v, start_write) <=> v[3] # 0 \/ v[2] # 0
  BY <1>1 DEF start_write, Blocks
<1>6. (Blocks(v, end_read) <=> v[3] = 0) /\ (Blocks(v, end_write) <=> v[2] = 0)
  BY <1>1 DEF end_read, end_write, Blocks
<1> HIDE DEF Level
<1>7. /\ After(v, start_read) = [v EXCEPT ![3] = @ + 1]
      /\ After(v, end_read) = [v EXCEPT ![3] = @ - 1]
      /\ After(v, start_write) = [v EXCEPT ![2] = @ + 1]
      /\ After(v, end_write) = [v EXCEPT ![2] = @ - 1]
  BY <1>1, <1>2, <1>3 DEF After
<1> QED
  BY <1>4, <1>5, <1>6, <1>7

\* A letter is neither '\0' nor the busy mark.
LEMMA LetterFacts ==
  \A i \in Cells : Letter(i) \in Nat /\ Letter(i) # NUL /\ Letter(i) # ARRAY_ELEMENT_BUSY
<1> SUFFICES ASSUME NEW i \in Cells
             PROVE  Letter(i) \in Nat /\ Letter(i) # NUL /\ Letter(i) # ARRAY_ELEMENT_BUSY
  OBVIOUS
<1>1. i \in Nat /\ i <= 25
  BY ConstantsAssumption DEF Cells
<1>2. i % 26 = i
  BY <1>1
<1>3. Letter(i) = 97 + i
  BY <1>2 DEF Letter
<1> QED
  BY <1>1, <1>3 DEF NUL, ARRAY_ELEMENT_BUSY

\* A copy begins empty.
LEMMA EmptyCopy == <<>> \in Copies
  BY DEF Copies

\* memcpy adds one cell to a copy.
LEMMA ExtendedCopy ==
  ASSUME NEW a \in Copies, NEW i \in Cells, NEW x \in Contents
  PROVE  [j \in DOMAIN a \cup {i} |-> IF j = i THEN x ELSE a[j]] \in Copies
<1>1. PICK D \in SUBSET Cells : a \in [D -> Contents]
  BY DEF Copies
<1>2. [j \in DOMAIN a \cup {i} |-> IF j = i THEN x ELSE a[j]] \in [D \cup {i} -> Contents]
  BY <1>1
<1>3. D \cup {i} \in SUBSET Cells
  OBVIOUS
<1> QED
  BY <1>2, <1>3 DEF Copies

-----------------------------------------------------------------------------
(* Types.                                                                  *)

\* The first state is well typed: every letter is in its place, nothing is held.
LEMMA TypeInit == Init => TypeOK
<1> SUFFICES ASSUME Init PROVE TypeOK
  OBVIOUS
<1>1. str \in [Cells -> Contents]
  BY DEF Init, Contents, Letters
<1>2. 0 \in Indices /\ arr \in [Conns -> Copies] /\ index \in [Conns -> Indices]
  BY EmptyCopy, ConstantsAssumption DEF Init, Indices
<1>3. sem \in [Sems -> Nat] /\ pc \in [Conns -> PCs]
  BY DEF Init, PCs
<1> QED
  BY <1>1, <1>2, <1>3 DEF Init, TypeOK

\* The end of a child, which resets its locals, keeps every type.
LEMMA TypeGone ==
  ASSUME TypeOK, NEW c \in Conns, NEW how \in Over, Gone(c, how)
  PROVE  /\ pc' \in [Conns -> PCs]
         /\ arr' \in [Conns -> Copies]
         /\ index' \in [Conns -> Indices]
         /\ rc' \in [Conns -> {OK, WRITE_BUSY_ERROR, RANGE_ERROR}]
         /\ result' \in [Conns -> Letters \cup {NUL}]
         /\ holders' \in [Conns -> SUBSET (Conns \cup {Main})]
         /\ intr' \subseteq Conns
<1>1. 0 \in Indices
  BY ConstantsAssumption DEF Indices
<1> QED
  BY <1>1, EmptyCopy DEF TypeOK, Gone, ForgetLocals, Closed, PCs

\* Every step of the server, its children and the terminal keeps every type.
LEMMA TypeNext == TypeOK /\ [Next]_vars => TypeOK'
<1> SUFFICES ASSUME TypeOK, [Next]_vars PROVE TypeOK'
  OBVIOUS
<1> USE DEF Goto, Quiet, shared, locals, parent, aux
<1>0. 0 \in Indices
  BY ConstantsAssumption DEF Indices
<1>1. ASSUME UNCHANGED vars PROVE TypeOK'
  BY <1>1 DEF vars, TypeOK
<1>2. ASSUME NEW c \in Conns, Runs(c) PROVE TypeOK'
  <2>1. CASE StartRead(c)
    BY <2>1, SemopFacts DEF StartRead, TypeOK, PCs, Reading
  <2>2. CASE EndRead(c)
    BY <2>2, SemopFacts DEF EndRead, TypeOK, PCs
  <2>3. CASE SendArray(c)
    BY <2>3, EmptyCopy DEF SendArray, TypeOK, PCs
  <2>4. ASSUME NEW i \in Cells, Copy(c, i) PROVE TypeOK'
    <3>1. str[i] \in Contents /\ arr[c] \in Copies
      BY DEF TypeOK
    <3>2. [j \in DOMAIN arr[c] \cup {i} |-> IF j = i THEN str[i] ELSE arr[c][j]] \in Copies
      BY <3>1, ExtendedCopy
    <3>3. arr' \in [Conns -> Copies]
      BY <2>4, <3>2 DEF Copy, TypeOK
    <3> QED
      BY <2>4, <3>3 DEF Copy, TypeOK
  <2>5. CASE StartWrite(c)
    BY <2>5, SemopFacts DEF StartWrite, TypeOK, PCs, Writing
  <2>6. CASE Refuse(c)
    BY <2>6 DEF Refuse, TypeOK, PCs, Writing
  <2>7. CASE TestFree(c)
    BY <2>7 DEF TestFree, TypeOK, PCs, Writing, Contents
  <2>8. CASE Take(c)
    BY <2>8 DEF Take, TypeOK, PCs, Writing, Contents
  <2>9. CASE EndWrite(c)
    BY <2>9, SemopFacts DEF EndWrite, TypeOK, PCs
  <2>10. CASE SendCode(c)
    <3>1. pc' \in [Conns -> PCs]
      BY <2>10 DEF SendCode, TypeOK, PCs
    <3>2. CASE pc'[c] = "idle"
      BY <2>10, <1>0, <3>1, <3>2, EmptyCopy DEF SendCode, ForgetLocals, TypeOK
    <3>3. CASE pc'[c] # "idle"
      BY <2>10, <3>1, <3>3 DEF SendCode, TypeOK
    <3> QED
      BY <3>2, <3>3
  <2>11. CASE SendLetter(c)
    BY <2>11, <1>0, EmptyCopy DEF SendLetter, ForgetLocals, TypeOK, PCs
  <2>12. CASE StopServer(c)
    BY <2>12, TypeGone DEF StopServer, TypeOK, Over
  <2> QED
    BY <1>2, <2>1, <2>2, <2>3, <2>4, <2>5, <2>6, <2>7, <2>8, <2>9, <2>10, <2>11, <2>12
    DEF Runs
<1>3. ASSUME NEW c \in Conns, Outside(c) PROVE TypeOK'
  <2>1. CASE ReadType(c)
    BY <2>1 DEF ReadType, TypeOK, PCs
  <2>2. CASE HangUp(c)
    BY <2>2, TypeGone DEF HangUp, TypeOK, Over
  <2>3. CASE SendFails(c)
    BY <2>3, TypeGone DEF SendFails, TypeOK, Over
  <2>4. CASE ChildSignal(c)
    BY <2>4 DEF ChildSignal, TypeOK
  <2>5. CASE SemInterrupted(c)
    BY <2>5, TypeGone DEF SemInterrupted, TypeOK, Over
  <2>6. CASE Kill(c)
    BY <2>6, TypeGone DEF Kill, TypeOK, Over
  <2>7. ASSUME NEW i \in Indices, ReadIndex(c, i) PROVE TypeOK'
    BY <2>7 DEF ReadIndex, TypeOK, PCs
  <2> QED
    BY <1>3, <2>1, <2>2, <2>3, <2>4, <2>5, <2>6, <2>7 DEF Outside
<1>4. CASE Parent
  <2>1. CASE Test
    <3>1. CASE flag
      BY <2>1, <3>1 DEF Test, TypeOK
    <3>2. CASE ~ flag
      <4>1. MainExit /\ UNCHANGED <<shared, pc, locals, flag, late, intr, aux>>
        BY <2>1, <3>2 DEF Test
      <4> QED
        BY <4>1 DEF MainExit, Closed, TypeOK
    <3> QED
      BY <3>1, <3>2
  <2>2. CASE AcceptFails
    BY <2>2 DEF AcceptFails, MainExit, Closed, TypeOK
  <2>3. CASE AcceptInterrupted
    BY <2>3 DEF AcceptInterrupted, MainExit, Closed, TypeOK
  <2>4. CASE SignalHandler
    BY <2>4 DEF SignalHandler, TypeOK
  <2>5. ASSUME NEW c \in Conns, Accept(c) PROVE TypeOK'
    BY <2>5 DEF Accept, TypeOK, PCs
  <2>6. ASSUME NEW c \in Conns, Fork(c) PROVE TypeOK'
    BY <2>6 DEF Fork, TypeOK, PCs
  <2>7. ASSUME NEW c \in Conns, ForkFails(c) PROVE TypeOK'
    BY <2>7 DEF ForkFails, MainExit, Closed, TypeOK, PCs, Over
  <2> QED
    BY <1>4, <2>1, <2>2, <2>3, <2>4, <2>5, <2>6, <2>7 DEF Parent
<1>5. CASE CtrlC
  BY <1>5 DEF CtrlC, TypeOK
<1> QED
  BY <1>1, <1>2, <1>3, <1>4, <1>5 DEF Next, Child

\* Every variable of the server keeps to its type: no index leaves the array,
\* no semaphore goes below zero.
THEOREM TypeCorrect == Spec => []TypeOK
<1>1. Init => TypeOK
  BY TypeInit
<1>2. TypeOK /\ [Next]_vars => TypeOK'
  BY TypeNext
<1> QED
  BY <1>1, <1>2, PTL DEF Spec
-----------------------------------------------------------------------------
(* Mutual exclusion.  It is not inductive alone: that start_write finds no  *)
(* reader and no writer says something of the children only because the     *)
(* semaphores count them, the killed ones where they died.                  *)

DeadStay == \A c \in Conns : died[c] # "no" => pc[c] = "killed"

Exclusion == TypeOK /\ DeadStay /\ SemAccounting /\ MutualExclusion

\* The children inside are finitely many, so that semaphores can count them.
LEMMA FiniteInside ==
  IsFiniteSet(Readers) /\ IsFiniteSet(Writers)
BY FS_Subset, ConstantsAssumption DEF Readers, Writers

\* A step that moves nobody in or out and leaves the semaphores alone.
LEMMA NobodyMoves ==
  ASSUME Exclusion, TypeOK', DeadStay', sem' = sem,
         \A d \in Conns : /\ pc'[d] \in Reading \/ died'[d] \in Reading
                              <=> pc[d] \in Reading \/ died[d] \in Reading
                          /\ pc'[d] \in Writing \/ died'[d] \in Writing
                              <=> pc[d] \in Writing \/ died[d] \in Writing
  PROVE  Exclusion'
<1>1. Readers' = Readers /\ Writers' = Writers
  BY DEF Readers, Writers
<1> QED
  BY <1>1 DEF Exclusion, SemAccounting, MutualExclusion

\* The steps of a child keep the count and the exclusion: entering waits for
\* those inside, leaving gives back what was taken.
LEMMA ExclusionRuns ==
  ASSUME Exclusion, TypeOK', NEW c \in Conns, Runs(c)
  PROVE  Exclusion'
<1> USE DEF Goto, Quiet, shared, locals, parent, aux
<1>1. /\ sem \in [Sems -> Nat] /\ pc \in [Conns -> PCs] /\ died \in [Conns -> PCs \cup {"no"}]
      /\ sem[ACTIVE_READERS] \in Nat /\ sem[ACTIVE_WRITER] \in Nat
  BY DEF Exclusion, TypeOK, Sems
<1>2. pc[c] # "killed" /\ died[c] = "no"
  BY DEF Exclusion, DeadStay, Runs, StartRead, EndRead, SendArray, Copy, StartWrite,
         Refuse, TestFree, Take, EndWrite, SendCode, SendLetter, StopServer
<1>3. CASE StartRead(c)
  <2>1. /\ pc' = [pc EXCEPT ![c] = "copy"] /\ died' = died /\ pc[c] = "rstart"
        /\ sem[ACTIVE_WRITER] = 0 /\ sem' = [sem EXCEPT ![ACTIVE_READERS] = @ + 1]
    BY <1>1, <1>3, SemopFacts DEF StartRead
  <2>2. Readers' = Readers \cup {c} /\ c \notin Readers /\ Writers' = Writers
    BY <1>1, <1>2, <2>1 DEF Readers, Writers, Reading, Writing
  <2>3. Writers = {}
    BY <2>1, FiniteInside, FS_EmptySet DEF Exclusion, SemAccounting
  <2>4. Cardinality(Readers') = Cardinality(Readers) + 1 /\ Cardinality(Writers') = Cardinality(Writers)
    BY <2>2, FiniteInside, FS_AddElement
  <2>5. DeadStay'
    BY <1>1, <1>2, <2>1 DEF Exclusion, DeadStay
  <2>6. SemAccounting'
    <3>1. /\ sem'[ACTIVE_READERS] = sem[ACTIVE_READERS] + 1 /\ sem'[ACTIVE_WRITER] = sem[ACTIVE_WRITER]
          /\ sem'[WRITE_QUEUE] = sem[WRITE_QUEUE] /\ sem'[READ_QUEUE] = sem[READ_QUEUE]
      BY <1>1, <2>1 DEF Sems, ACTIVE_READERS, ACTIVE_WRITER, READ_QUEUE, WRITE_QUEUE
    <3> QED
      BY <2>4, <3>1 DEF Exclusion, SemAccounting
  <2> QED
    BY <2>2, <2>3, <2>5, <2>6 DEF Exclusion, MutualExclusion
<1>4. CASE EndRead(c)
  <2>1. /\ pc' = [pc EXCEPT ![c] = "rsend"] /\ died' = died /\ pc[c] = "copy"
        /\ sem' = [sem EXCEPT ![ACTIVE_READERS] = @ - 1]
    BY <1>1, <1>4, SemopFacts DEF EndRead
  <2>2. Readers' = Readers \ {c} /\ c \in Readers /\ Writers' = Writers
    BY <1>1, <1>2, <2>1 DEF Readers, Writers, Reading, Writing
  <2>3. Cardinality(Readers') = Cardinality(Readers) - 1
    BY <2>2, FiniteInside, FS_RemoveElement
  <2>4. DeadStay'
    BY <1>1, <1>2, <2>1 DEF Exclusion, DeadStay
  <2>5. SemAccounting'
    BY <1>1, <2>1, <2>2, <2>3
    DEF Exclusion, SemAccounting, Sems, ACTIVE_READERS, ACTIVE_WRITER, READ_QUEUE, WRITE_QUEUE
  <2> QED
    BY <2>2, <2>4, <2>5 DEF Exclusion, MutualExclusion
<1>5. CASE StartWrite(c)
  <2>1. /\ pc' = [pc EXCEPT ![c] = "wtest"] /\ died' = died /\ pc[c] = "wstart"
        /\ sem[ACTIVE_READERS] = 0 /\ sem[ACTIVE_WRITER] = 0
        /\ sem' = [sem EXCEPT ![ACTIVE_WRITER] = @ + 1]
    BY <1>1, <1>5, SemopFacts DEF StartWrite
  <2>2. Writers' = Writers \cup {c} /\ c \notin Writers /\ Readers' = Readers
    BY <1>1, <1>2, <2>1 DEF Readers, Writers, Reading, Writing
  <2>3. Readers = {} /\ Writers = {}
    BY <2>1, FiniteInside, FS_EmptySet DEF Exclusion, SemAccounting
  <2>4. Cardinality(Writers') = Cardinality(Writers) + 1 /\ Cardinality(Readers') = Cardinality(Readers)
    BY <2>2, FiniteInside, FS_AddElement
  <2>5. DeadStay'
    BY <1>1, <1>2, <2>1 DEF Exclusion, DeadStay
  <2>6. SemAccounting'
    <3>1. /\ sem'[ACTIVE_WRITER] = sem[ACTIVE_WRITER] + 1 /\ sem'[ACTIVE_READERS] = sem[ACTIVE_READERS]
          /\ sem'[WRITE_QUEUE] = sem[WRITE_QUEUE] /\ sem'[READ_QUEUE] = sem[READ_QUEUE]
      BY <1>1, <2>1 DEF Sems, ACTIVE_READERS, ACTIVE_WRITER, READ_QUEUE, WRITE_QUEUE
    <3> QED
      BY <2>4, <3>1 DEF Exclusion, SemAccounting
  <2> QED
    BY <2>2, <2>3, <2>5, <2>6 DEF Exclusion, MutualExclusion
<1>6. CASE EndWrite(c)
  <2>1. /\ pc' = [pc EXCEPT ![c] = "wrc"] /\ died' = died /\ pc[c] = "wend"
        /\ sem' = [sem EXCEPT ![ACTIVE_WRITER] = @ - 1]
    BY <1>1, <1>6, SemopFacts DEF EndWrite
  <2>2. Writers' = Writers \ {c} /\ c \in Writers /\ Readers' = Readers
    BY <1>1, <1>2, <2>1 DEF Readers, Writers, Reading, Writing
  <2>3. Cardinality(Writers') = Cardinality(Writers) - 1
    BY <2>2, FiniteInside, FS_RemoveElement
  <2>4. DeadStay'
    BY <1>1, <1>2, <2>1 DEF Exclusion, DeadStay
  <2>5. SemAccounting'
    BY <1>1, <2>1, <2>2, <2>3
    DEF Exclusion, SemAccounting, Sems, ACTIVE_READERS, ACTIVE_WRITER, READ_QUEUE, WRITE_QUEUE
  <2> QED
    BY <2>2, <2>4, <2>5 DEF Exclusion, MutualExclusion
<1>7. CASE \E i \in Cells : Copy(c, i)
  <2>1. pc' = pc /\ died' = died /\ sem' = sem
    BY <1>7 DEF Copy
  <2> QED
    BY <2>1, NobodyMoves DEF Exclusion, DeadStay
<1>8. CASE Refuse(c) \/ TestFree(c) \/ Take(c)
  <2>1. /\ died' = died /\ sem' = sem
        /\ \E s \in {"wtake", "wend"} : pc' = [pc EXCEPT ![c] = s]
        /\ pc[c] \in {"wtest", "wtake"}
    BY <1>8 DEF Refuse, TestFree, Take
  <2>2. DeadStay'
    BY <1>1, <1>2, <2>1 DEF Exclusion, DeadStay
  <2> QED
    BY <1>1, <2>1, <2>2, NobodyMoves DEF Reading, Writing
<1>9. CASE SendArray(c) \/ SendCode(c) \/ SendLetter(c) \/ StopServer(c)
  <2>1. /\ died' = died /\ sem' = sem
        /\ \E s \in {"idle", "wres", "wfin", "ended"} : pc' = [pc EXCEPT ![c] = s]
        /\ pc[c] \in {"rsend", "wrc", "wres", "wfin"}
    BY <1>9 DEF SendArray, SendCode, SendLetter, StopServer, Gone
  <2>2. DeadStay'
    BY <1>1, <1>2, <2>1 DEF Exclusion, DeadStay
  <2> QED
    BY <1>1, <2>1, <2>2, NobodyMoves DEF Reading, Writing
<1> QED
  BY <1>3, <1>4, <1>5, <1>6, <1>7, <1>8, <1>9 DEF Runs

\* So does every other step; a child that is killed inside stays counted.
LEMMA ExclusionNext == Exclusion /\ [Next]_vars => Exclusion'
<1> SUFFICES ASSUME Exclusion, [Next]_vars PROVE Exclusion'
  OBVIOUS
<1> USE DEF Goto, shared, locals, parent, aux
<1>1. /\ TypeOK'
      /\ pc \in [Conns -> PCs] /\ died \in [Conns -> PCs \cup {"no"}]
  BY TypeNext DEF Exclusion, TypeOK
<1>2. ASSUME UNCHANGED vars PROVE Exclusion'
  BY <1>1, <1>2, NobodyMoves DEF vars, Exclusion, DeadStay
<1>3. ASSUME NEW c \in Conns, Runs(c) PROVE Exclusion'
  BY <1>1, <1>3, ExclusionRuns
<1>4. ASSUME NEW c \in Conns, Outside(c) PROVE Exclusion'
  <2>1. ASSUME Kill(c) PROVE Exclusion'
    <3>1. /\ died' = [died EXCEPT ![c] = pc[c]] /\ pc' = [pc EXCEPT ![c] = "killed"]
          /\ pc[c] # "killed" /\ sem' = sem
      BY <2>1 DEF Kill, Gone, Alive, Over
    <3>2. died[c] = "no" /\ DeadStay'
      BY <1>1, <3>1 DEF Exclusion, DeadStay
    <3> QED
      BY <1>1, <3>1, <3>2, NobodyMoves DEF Reading, Writing
  <2>2. ASSUME ~ Kill(c) PROVE Exclusion'
    <3>1. /\ died' = died /\ sem' = sem
          /\ \/ pc' = pc
             \/ /\ \E s \in {"rstart", "windex", "wstart", "ended"} : pc' = [pc EXCEPT ![c] = s]
                /\ pc[c] \in {"idle", "windex", "rstart", "rsend", "wstart", "wrc", "wres"}
      BY <1>4, <2>2
      DEF Outside, ReadType, HangUp, SendFails, ChildSignal, SemInterrupted, ReadIndex, Gone, Quiet
    <3>2. DeadStay'
      BY <1>1, <3>1 DEF Exclusion, DeadStay
    <3> QED
      BY <1>1, <3>1, <3>2, NobodyMoves DEF Reading, Writing
  <2> QED
    BY <2>1, <2>2
<1>5. ASSUME Parent \/ CtrlC PROVE Exclusion'
  <2>1. /\ died' = died /\ sem' = sem
        /\ \/ pc' = pc
           \/ \E c \in Conns, s \in {"accepted", "idle", "refused"} :
                 pc' = [pc EXCEPT ![c] = s] /\ pc[c] \in {"none", "accepted"}
    BY <1>5 DEF Parent, CtrlC, Test, AcceptFails, AcceptInterrupted, SignalHandler,
                Accept, Fork, ForkFails
  <2>2. DeadStay'
    BY <1>1, <2>1 DEF Exclusion, DeadStay
  <2> QED
    BY <1>1, <2>1, <2>2, NobodyMoves DEF Reading, Writing
<1> QED
  BY <1>2, <1>3, <1>4, <1>5 DEF Next, Child

\* At first nobody is inside and all semaphores are zero.
LEMMA ExclusionInit == Init => Exclusion
<1> SUFFICES ASSUME Init PROVE Exclusion
  OBVIOUS
<1>1. TypeOK /\ DeadStay
  BY TypeInit DEF Init, DeadStay
<1>2. Readers = {} /\ Writers = {}
  BY DEF Init, Readers, Writers, Reading, Writing
<1>3. \A s \in Sems : sem[s] = 0
  BY DEF Init
<1> QED
  BY <1>1, <1>2, <1>3, FS_EmptySet
  DEF Exclusion, SemAccounting, MutualExclusion, Sems, ACTIVE_READERS, ACTIVE_WRITER,
      READ_QUEUE, WRITE_QUEUE

\* The count and the exclusion hold for ever.
LEMMA ExclusionAlways == Spec => []Exclusion
BY ExclusionInit, ExclusionNext, PTL DEF Spec

\* A writer is alone with the array, for any number of clients.
THEOREM WritersAlone == Spec => []MutualExclusion
<1>1. Exclusion => MutualExclusion
  BY DEF Exclusion
<1> QED
  BY <1>1, ExclusionAlways, PTL

\* The semaphores count the children inside, and no queue is ever seen.
THEOREM SemaphoresCount == Spec => []SemAccounting
<1>1. Exclusion => SemAccounting
  BY DEF Exclusion
<1> QED
  BY <1>1, ExclusionAlways, PTL
-----------------------------------------------------------------------------
(* The letters.  That no letter is taken twice rests on what each child     *)
(* knows of its locals between two steps, and on mutual exclusion for the   *)
(* step that stores the mark and for the copies of the readers.             *)

\* Both together, as the run states them.
THEOREM ArrayGuarded == Spec => []SemaphoresGuard
<1>1. MutualExclusion /\ SemAccounting => SemaphoresGuard
  BY DEF SemaphoresGuard
<1> QED
  BY <1>1, WritersAlone, SemaphoresCount, PTL

LettersInPlace == \A i \in Cells : str[i] \in {ARRAY_ELEMENT_BUSY, Letter(i)}

Frame(c) ==
  /\ pc[c] \notin {"copy", "rsend"} => arr[c] = <<>>
  /\ pc[c] \notin {"wtake", "wend", "wrc", "wres"} => result[c] = NUL
  /\ pc[c] \notin {"wend", "wrc", "wfin"} => rc[c] = OK
  /\ pc[c] = "wres" => result[c] # NUL
  /\ result[c] # NUL => rc[c] = OK /\ index[c] \in Cells /\ result[c] = Letter(index[c])
  /\ pc[c] = "wtake" => /\ index[c] \in Cells
                        /\ str[index[c]] # ARRAY_ELEMENT_BUSY
                        /\ result[c] = str[index[c]]
  /\ pc[c] \in {"wend", "wrc", "wres"} /\ result[c] # NUL => c \in taken[index[c]]

Frames == \A c \in Conns : Frame(c)

CellsInv ==
  /\ LettersInPlace /\ Frames /\ AtMostOnce /\ LetterNotLost /\ SnapshotConsistent

\* A step of one child that leaves the array and its letters alone.
LEMMA PrivateStep ==
  ASSUME Exclusion, CellsInv, NEW c \in Conns,
         str' = str, taken' = taken, got' = got,
         \A d \in Conns \ {c} : /\ pc'[d] = pc[d] /\ arr'[d] = arr[d] /\ index'[d] = index[d]
                                /\ rc'[d] = rc[d] /\ result'[d] = result[d],
         Frame(c)',
         pc'[c] = "copy" => \A i \in DOMAIN arr'[c] : arr'[c][i] = str[i],
         pc[c] \in {"wend", "wrc", "wres"} /\ result[c] # NUL =>
           \/ pc'[c] \in {"wend", "wrc", "wres"} /\ index'[c] = index[c] /\ result'[c] = result[c]
           \/ pc'[c] \in Over,
         pc[c] \in Over => pc'[c] \in Over
  PROVE  CellsInv'
<1>1. LettersInPlace' /\ AtMostOnce'
  BY DEF CellsInv, LettersInPlace, AtMostOnce
<1>2. Frames'
  BY DEF CellsInv, Frames, Frame
<1>3. LetterNotLost'
  <2>1. \A i \in Cells : Letter(i) # NUL
    BY LetterFacts
  <2>2. taken \in [Cells -> SUBSET Conns]
    BY DEF Exclusion, TypeOK
  <2> QED
    BY <2>1, <2>2 DEF CellsInv, LetterNotLost
<1>4. SnapshotConsistent'
  BY DEF CellsInv, SnapshotConsistent
<1> QED
  BY <1>1, <1>2, <1>3, <1>4 DEF CellsInv

\* The child of c ends.
LEMMA GoneStep ==
  ASSUME Exclusion, CellsInv, NEW c \in Conns, NEW how \in Over, Gone(c, how),
         str' = str, taken' = taken, got' = got
  PROVE  CellsInv'
<1>1. /\ pc' = [pc EXCEPT ![c] = how] /\ arr' = [arr EXCEPT ![c] = <<>>]
      /\ index' = [index EXCEPT ![c] = 0] /\ rc' = [rc EXCEPT ![c] = OK]
      /\ result' = [result EXCEPT ![c] = NUL]
  BY DEF Gone, ForgetLocals
<1>2. /\ pc'[c] = how /\ arr'[c] = <<>> /\ rc'[c] = OK /\ result'[c] = NUL
      /\ \A d \in Conns \ {c} : /\ pc'[d] = pc[d] /\ arr'[d] = arr[d] /\ index'[d] = index[d]
                                 /\ rc'[d] = rc[d] /\ result'[d] = result[d]
  BY <1>1 DEF Exclusion, TypeOK
<1>3. Frame(c)'
  BY <1>2 DEF Frame, Over
<1> QED
  BY <1>2, <1>3, PrivateStep DEF Over

\* The steps of a child keep the array, the letters and the copies in accord:
\* while it writes nobody else tests, marks or copies.
LEMMA CellsRuns ==
  ASSUME Exclusion, CellsInv, NEW c \in Conns, Runs(c)
  PROVE  CellsInv'
<1> USE DEF Goto, Quiet, shared, locals, parent, aux
<1>1. /\ pc \in [Conns -> PCs] /\ arr \in [Conns -> Copies] /\ index \in [Conns -> Indices]
      /\ rc \in [Conns -> {OK, WRITE_BUSY_ERROR, RANGE_ERROR}]
      /\ result \in [Conns -> Letters \cup {NUL}]
      /\ str \in [Cells -> Contents]
      /\ taken \in [Cells -> SUBSET Conns] /\ got \in [Cells -> SUBSET Conns]
  BY DEF Exclusion, TypeOK
<1>2. Frame(c)
  BY DEF CellsInv, Frames
<1>3. CASE StartRead(c)
  BY <1>1, <1>2, <1>3, PrivateStep DEF StartRead, Frame, Over
<1>4. ASSUME NEW i \in Cells, Copy(c, i) PROVE CellsInv'
  <2>1. \A j \in DOMAIN arr'[c] : arr'[c][j] = str[j]
    BY <1>1, <1>4 DEF Copy, CellsInv, SnapshotConsistent
  <2> QED
    BY <1>1, <1>2, <1>4, <2>1, PrivateStep DEF Copy, Frame, Over
<1>5. CASE EndRead(c)
  BY <1>1, <1>2, <1>5, PrivateStep DEF EndRead, Frame, Over
<1>6. CASE SendArray(c)
  BY <1>1, <1>2, <1>6, PrivateStep DEF SendArray, Frame, Over
<1>7. CASE StartWrite(c)
  BY <1>1, <1>2, <1>7, PrivateStep DEF StartWrite, Frame, Over
<1>8. CASE Refuse(c)
  BY <1>1, <1>2, <1>8, PrivateStep DEF Refuse, Frame, Over
<1>9. CASE TestFree(c)
  <2>1. str[index[c]] = Letter(index[c]) /\ Letter(index[c]) # NUL
    BY <1>9, LetterFacts DEF TestFree, CellsInv, LettersInPlace
  <2> QED
    BY <1>1, <1>2, <1>9, <2>1, PrivateStep DEF TestFree, Frame, Over
<1>10. CASE Take(c)
  <2> DEFINE i == index[c]
  <2>1. /\ pc[c] = "wtake" /\ pc' = [pc EXCEPT ![c] = "wend"]
        /\ str' = [str EXCEPT ![i] = ARRAY_ELEMENT_BUSY]
        /\ taken' = [taken EXCEPT ![i] = @ \cup {c}]
        /\ UNCHANGED <<arr, index, rc, result, got>>
    BY <1>10 DEF Take
  <2>2. i \in Cells /\ str[i] # ARRAY_ELEMENT_BUSY /\ result[c] = Letter(i) /\ result[c] # NUL
    BY <1>2, <2>1, LetterFacts DEF Frame, CellsInv, LettersInPlace
  <2>3. taken[i] = {} /\ got[i] = {}
    BY <2>2 DEF CellsInv, AtMostOnce
  <2>4. Readers = {} /\ Writers = {c}
    BY <2>1 DEF Exclusion, MutualExclusion, Writers, Writing
  <2>5. \A d \in Conns : pc[d] # "copy" /\ (pc[d] \in Writing => d = c)
    BY <2>4 DEF Readers, Writers, Reading
  <2>6. LettersInPlace'
    BY <1>1, <2>1, <2>2 DEF CellsInv, LettersInPlace
  <2>7. AtMostOnce'
    BY <1>1, <2>1, <2>2, <2>3 DEF CellsInv, AtMostOnce
  <2>8. SnapshotConsistent'
    BY <1>1, <2>1, <2>5 DEF SnapshotConsistent
  <2>9. LetterNotLost'
    BY <1>1, <2>1, <2>2 DEF CellsInv, LetterNotLost, Over
  <2>10. ASSUME NEW d \in Conns PROVE Frame(d)'
    <3>1. Frame(d)
      BY DEF CellsInv, Frames
    <3>2. CASE d = c
      BY <1>1, <1>2, <2>1, <2>2, <3>2 DEF Frame
    <3>3. CASE d # c
      BY <1>1, <2>1, <2>2, <2>5, <3>1, <3>3 DEF Frame, Writing
    <3> QED
      BY <3>2, <3>3
  <2> QED
    BY <2>6, <2>7, <2>8, <2>9, <2>10 DEF CellsInv, Frames
<1>11. CASE EndWrite(c)
  BY <1>1, <1>2, <1>11, PrivateStep DEF EndWrite, Frame, Over
<1>12. CASE SendCode(c)
  <2>1. CASE pc'[c] = "idle"
    BY <1>1, <1>2, <1>12, <2>1, PrivateStep DEF SendCode, ForgetLocals, Frame, Over
  <2>2. CASE pc'[c] # "idle"
    BY <1>1, <1>2, <1>12, <2>2, PrivateStep DEF SendCode, Frame, Over
  <2> QED
    BY <2>1, <2>2
<1>13. CASE SendLetter(c)
  <2> DEFINE i == index[c]
  <2>1. /\ pc[c] = "wres" /\ pc' = [pc EXCEPT ![c] = "idle"]
        /\ got' = [got EXCEPT ![i] = @ \cup {c}]
        /\ arr' = [arr EXCEPT ![c] = <<>>] /\ index' = [index EXCEPT ![c] = 0]
        /\ rc' = [rc EXCEPT ![c] = OK] /\ result' = [result EXCEPT ![c] = NUL]
        /\ str' = str /\ taken' = taken
    BY <1>13 DEF SendLetter, ForgetLocals
  <2>2. i \in Cells /\ c \in taken[i]
    BY <1>2, <2>1 DEF Frame
  <2>3. LettersInPlace' /\ SnapshotConsistent'
    BY <1>1, <2>1 DEF CellsInv, LettersInPlace, SnapshotConsistent
  <2>4. AtMostOnce'
    BY <1>1, <2>1, <2>2 DEF CellsInv, AtMostOnce
  <2>5. LetterNotLost'
    BY <1>1, <2>1, <2>2 DEF CellsInv, LetterNotLost, Over
  <2>6. ASSUME NEW d \in Conns PROVE Frame(d)'
    BY <1>1, <2>1 DEF CellsInv, Frames, Frame
  <2> QED
    BY <2>3, <2>4, <2>5, <2>6 DEF CellsInv, Frames
<1>14. CASE StopServer(c)
  BY <1>14, GoneStep DEF StopServer, Over
<1> QED
  BY <1>3, <1>4, <1>5, <1>6, <1>7, <1>8, <1>9, <1>10, <1>11, <1>12, <1>13, <1>14 DEF Runs

\* So does every other step: none of them touches the array.
LEMMA CellsNext == Exclusion /\ CellsInv /\ [Next]_vars => CellsInv'
<1> SUFFICES ASSUME Exclusion, CellsInv, [Next]_vars PROVE CellsInv'
  OBVIOUS
<1> USE DEF Goto, Quiet, shared, locals, parent, aux
<1>1. /\ pc \in [Conns -> PCs] /\ index \in [Conns -> Indices]
  BY DEF Exclusion, TypeOK
<1>2. ASSUME UNCHANGED <<str, pc, locals, taken, got>> PROVE CellsInv'
  BY <1>2
  DEF CellsInv, LettersInPlace, Frames, Frame, AtMostOnce, LetterNotLost, SnapshotConsistent
<1>3. ASSUME NEW c \in Conns, Outside(c) PROVE CellsInv'
  <2>0. Frame(c)
    BY DEF CellsInv, Frames
  <2>1. CASE ReadType(c)
    BY <1>1, <2>0, <2>1, PrivateStep DEF ReadType, Frame, Over
  <2>2. CASE HangUp(c)
    BY <2>2, GoneStep DEF HangUp, Over
  <2>3. CASE SendFails(c)
    BY <2>3, GoneStep DEF SendFails, Over
  <2>4. CASE ChildSignal(c)
    BY <1>2, <2>4 DEF ChildSignal
  <2>5. CASE SemInterrupted(c)
    BY <2>5, GoneStep DEF SemInterrupted, Over
  <2>6. CASE Kill(c)
    BY <2>6, GoneStep DEF Kill, Over
  <2>7. ASSUME NEW i \in Indices, ReadIndex(c, i) PROVE CellsInv'
    BY <1>1, <2>0, <2>7, PrivateStep DEF ReadIndex, Frame, Over
  <2> QED
    BY <1>3, <2>1, <2>2, <2>3, <2>4, <2>5, <2>6, <2>7 DEF Outside
<1>4. ASSUME Parent \/ CtrlC PROVE CellsInv'
  <2>1. ASSUME NEW c \in Conns, Accept(c) \/ Fork(c) \/ ForkFails(c) PROVE CellsInv'
    <3>1. Frame(c) /\ pc[c] \in {"none", "accepted"}
      BY <2>1 DEF CellsInv, Frames, Accept, Fork, ForkFails
    <3>2. /\ UNCHANGED <<shared, locals, taken, got>>
          /\ \E s \in {"accepted", "idle", "refused"} : pc' = [pc EXCEPT ![c] = s]
      BY <2>1 DEF Accept, Fork, ForkFails
    <3> QED
      BY <1>1, <3>1, <3>2, PrivateStep DEF Frame, Over
  <2>2. CASE Test \/ AcceptFails \/ AcceptInterrupted \/ SignalHandler \/ CtrlC
    BY <1>2, <2>2 DEF Test, AcceptFails, AcceptInterrupted, SignalHandler, CtrlC
  <2> QED
    BY <1>4, <2>1, <2>2 DEF Parent
<1> QED
  BY <1>2, <1>3, <1>4, CellsRuns DEF Next, Child, vars

\* At first every letter is in its place and nobody has taken or copied any.
LEMMA CellsInit == Init => CellsInv
<1> SUFFICES ASSUME Init PROVE CellsInv
  OBVIOUS
<1>1. LettersInPlace /\ AtMostOnce /\ LetterNotLost /\ SnapshotConsistent
  BY LetterFacts DEF Init, LettersInPlace, AtMostOnce, LetterNotLost, SnapshotConsistent
<1>2. Frames
  BY DEF Init, Frames, Frame
<1> QED
  BY <1>1, <1>2 DEF CellsInv

\* The accord of array, letters and copies holds for ever.
LEMMA CellsAlways == Spec => []CellsInv
BY ExclusionAlways, CellsInit, CellsNext, PTL DEF Spec

\* No two children ever take the same letter, though they test and mark in two
\* steps.
THEOREM LettersTakenOnce == Spec => []AtMostOnce
<1>1. CellsInv => AtMostOnce
  BY DEF CellsInv
<1> QED
  BY <1>1, CellsAlways, PTL

\* A letter taken is sent, unless the conversation ends first.
THEOREM LettersKept == Spec => []LetterNotLost
<1>1. CellsInv => LetterNotLost
  BY DEF CellsInv
<1> QED
  BY <1>1, CellsAlways, PTL

\* No reader ever sends a mixture of two states of the array.
THEOREM NoTornRead == Spec => []SnapshotConsistent
<1>1. CellsInv => SnapshotConsistent
  BY DEF CellsInv
<1> QED
  BY <1>1, CellsAlways, PTL

\* The three together: the array, the copies and what was taken always agree.
THEOREM CellsAgree == Spec => []CellsConsistent
<1>1. AtMostOnce /\ LetterNotLost /\ SnapshotConsistent => CellsConsistent
  BY DEF CellsConsistent
<1> QED
  BY <1>1, LettersTakenOnce, LettersKept, NoTornRead, PTL

-----------------------------------------------------------------------------
(* Descriptors.  The parent holds every connection it ever accepted until it *)
(* ends, so those it accepted are those its descriptor table has room for.   *)

Kept == \A c \in Conns : IF pc[c] = "none" THEN holders[c] = {}
                                         ELSE mpc # "ended" => Main \in holders[c]

Descriptors == TypeOK /\ Kept /\ LifetimeBound

\* Every step keeps the descriptors of the parent: fork shares them, nothing
\* but the end of the parent closes them.
LEMMA DescriptorsNext == Descriptors /\ [Next]_vars => Descriptors'
<1> SUFFICES ASSUME Descriptors, [Next]_vars PROVE Descriptors'
  OBVIOUS
<1> USE DEF Goto, Quiet, shared, locals, parent, aux
<1> DEFINE Accepted == {c \in Conns : pc[c] # "none"}
<1>1. /\ TypeOK' /\ pc \in [Conns -> PCs] /\ Main \notin Conns
      /\ holders \in [Conns -> SUBSET (Conns \cup {Main})]
  BY TypeNext, ConstantsAssumption DEF Descriptors, TypeOK
<1>2. ASSUME NEW c \in Conns, Accept(c) PROVE Descriptors'
  <2>1. /\ mpc = "accept" /\ mpc' = "fork" /\ pc[c] = "none"
        /\ pc' = [pc EXCEPT ![c] = "accepted"] /\ holders' = [holders EXCEPT ![c] = {Main}]
        /\ Cardinality(MainHolds) < MaxFds
    BY <1>2 DEF Accept
  <2>2. Kept'
    BY <1>1, <2>1 DEF Descriptors, Kept
  <2>3. Accepted \subseteq MainHolds /\ IsFiniteSet(MainHolds)
    BY <2>1, FS_Subset, ConstantsAssumption DEF Descriptors, Kept, MainHolds
  <2>4. Cardinality(Accepted) <= Cardinality(MainHolds) /\ IsFiniteSet(Accepted)
    BY <2>3, FS_Subset
  <2>5. Accepted' = Accepted \cup {c} /\ c \notin Accepted
    BY <1>1, <2>1
  <2>6. Cardinality(Accepted') = Cardinality(Accepted) + 1
    BY <2>4, <2>5, FS_AddElement
  <2>7. Cardinality(Accepted) \in Nat /\ Cardinality(MainHolds) \in Nat /\ MaxFds \in Nat
    BY <2>3, <2>4, FS_CardinalityType, ConstantsAssumption
  <2>8. Cardinality(Accepted') <= MaxFds
    BY <2>1, <2>4, <2>6, <2>7
  <2> QED
    BY <1>1, <2>2, <2>8 DEF Descriptors, LifetimeBound
<1>3. ASSUME \A c \in Conns : ~ Accept(c) PROVE Descriptors'
  <2>1. \A c \in Conns : pc'[c] = "none" <=> pc[c] = "none"
    <3> DEFINE Moved(c) == pc[c] # "none" /\ \E s \in PCs \ {"none"} : pc' = [pc EXCEPT ![c] = s]
    <3>1. ASSUME NEW c \in Conns, Runs(c) PROVE Moved(c) \/ pc' = pc
      BY <3>1
      DEF Runs, StartRead, EndRead, SendArray, Copy, StartWrite, Refuse, TestFree, Take,
          EndWrite, SendCode, SendLetter, StopServer, Gone, PCs, Over, Reading, Writing
    <3>2. ASSUME NEW c \in Conns, Outside(c) PROVE Moved(c) \/ pc' = pc
      BY <3>2
      DEF Outside, ReadType, HangUp, SendFails, ChildSignal, SemInterrupted, Kill, ReadIndex,
          Gone, Alive, PCs, Over
    <3>3. ASSUME Parent \/ CtrlC \/ UNCHANGED vars
          PROVE  pc' = pc \/ \E c \in Conns : Moved(c)
      BY <1>3, <3>3
      DEF vars, Parent, CtrlC, Test, AcceptFails, AcceptInterrupted, SignalHandler, Fork,
          ForkFails, PCs, Over
    <3>4. pc' = pc \/ \E c \in Conns : Moved(c)
      BY <3>1, <3>2, <3>3 DEF Next, Child
    <3> QED
      BY <1>1, <3>4
  <2>2. Kept'
    <3>1. ASSUME NEW p \in Conns, Closed(p), mpc' = mpc PROVE Kept'
      BY <1>1, <2>1, <3>1 DEF Closed, Descriptors, Kept
    <3>2. ASSUME NEW c \in Conns, Fork(c) PROVE Kept'
      BY <1>1, <2>1, <3>2 DEF Fork, MainHolds, Descriptors, Kept
    <3>3. ASSUME Closed(Main), mpc' = "ended" PROVE Kept'
      BY <1>1, <2>1, <3>3 DEF Closed, Descriptors, Kept
    <3>4. ASSUME holders' = holders, mpc' = mpc \/ mpc # "ended" PROVE Kept'
      BY <1>1, <2>1, <3>4 DEF Descriptors, Kept
    <3>5. \/ \E p \in Conns : Closed(p) /\ mpc' = mpc
          \/ \E c \in Conns : Fork(c)
          \/ Closed(Main) /\ mpc' = "ended"
          \/ holders' = holders /\ (mpc' = mpc \/ mpc # "ended")
      BY ZenonT(60), <1>3
      DEF Next, vars, Child, Runs, Outside, Parent, CtrlC, Test, AcceptFails, AcceptInterrupted,
          SignalHandler, ForkFails, StartRead, EndRead, SendArray, Copy, StartWrite, Refuse,
          TestFree, Take, EndWrite, SendCode, SendLetter, StopServer, ReadType, HangUp, SendFails,
          ChildSignal, SemInterrupted, Kill, ReadIndex, Gone, MainExit
    <3> QED
      BY <3>1, <3>2, <3>3, <3>4, <3>5
  <2>3. Accepted' = Accepted
    BY <2>1
  <2> QED
    BY <1>1, <2>2, <2>3 DEF Descriptors, LifetimeBound
<1> QED
  BY <1>2, <1>3

\* The parent holds a descriptor of every connection it ever accepted, for ever.
LEMMA DescriptorsAlways == Spec => []Descriptors
<1>1. Init => Descriptors
  <2> SUFFICES ASSUME Init PROVE Descriptors
    OBVIOUS
  <2>1. TypeOK /\ Kept
    BY TypeInit DEF Init, Kept
  <2>2. {c \in Conns : pc[c] # "none"} = {}
    BY DEF Init
  <2> QED
    BY <2>1, <2>2, FS_EmptySet, ConstantsAssumption DEF Descriptors, LifetimeBound
<1> QED
  BY <1>1, DescriptorsNext, PTL DEF Spec

\* The server accepts no more connections in its life than it has descriptors,
\* because the parent never closes one.
THEOREM LifetimeIsBounded == Spec => []LifetimeBound
<1>1. Descriptors => LifetimeBound
  BY DEF Descriptors
<1> QED
  BY <1>1, DescriptorsAlways, PTL

-----------------------------------------------------------------------------
(* The signal.  The flag is tested once per connection, so only the accept  *)
(* that the parent has entered, or is about to enter, can come after it.    *)

LateInv ==
  /\ late \in {0, 1}
  /\ flag \in BOOLEAN
  /\ flag \/ mpc = "accept" => late = 0

\* Every step keeps the count of late connections: the one accept that may be
\* late is followed by the test of the flag.
LEMMA LateNext == LateInv /\ [Next]_vars => LateInv'
<1> SUFFICES ASSUME LateInv, [Next]_vars PROVE LateInv'
  OBVIOUS
<1> USE DEF Goto, Quiet, shared, locals, parent, aux
<1>1. ASSUME UNCHANGED <<mpc, flag, late>> PROVE LateInv'
  BY <1>1 DEF LateInv
<1>2. ASSUME NEW c \in Conns, Child(c) PROVE LateInv'
  BY <1>1, <1>2
  DEF Child, Runs, Outside, StartRead, EndRead, SendArray, Copy, StartWrite, Refuse, TestFree,
      Take, EndWrite, SendCode, SendLetter, StopServer, ReadType, HangUp, SendFails,
      ChildSignal, SemInterrupted, Kill, ReadIndex
<1>3. CASE Test
  BY <1>3 DEF Test, MainExit, LateInv
<1>4. CASE AcceptFails
  BY <1>4 DEF AcceptFails, MainExit, LateInv
<1>5. CASE AcceptInterrupted
  BY <1>5 DEF AcceptInterrupted, MainExit, LateInv
<1>6. CASE SignalHandler
  BY <1>6 DEF SignalHandler, LateInv
<1>7. ASSUME NEW c \in Conns, Accept(c) \/ Fork(c) \/ ForkFails(c) PROVE LateInv'
  BY <1>7 DEF Accept, Fork, ForkFails, MainExit, LateInv
<1>8. CASE CtrlC
  BY <1>1, <1>8 DEF CtrlC
<1>9. CASE UNCHANGED vars
  BY <1>1, <1>9 DEF vars
<1> QED
  BY <1>2, <1>3, <1>4, <1>5, <1>6, <1>7, <1>8, <1>9 DEF Next, Parent

\* After the flag is cleared the server accepts one connection more at most.
THEOREM OneAfterSignal == Spec => []AtMostOneAfterSignal
<1>1. Init => LateInv
  BY DEF Init, LateInv
<1>2. LateInv => AtMostOneAfterSignal
  BY DEF LateInv, AtMostOneAfterSignal
<1> QED
  BY <1>1, <1>2, LateNext, PTL DEF Spec
-----------------------------------------------------------------------------
(* Refinement: every step of the server is a step of the shared array, or   *)
(* changes nothing of it.                                                   *)

Nothing == [rc |-> OK, letter |-> NUL, array |-> <<>>]

\* Where each point of a child stands in the array's protocol.
LEMMA PhaseOf ==
  ASSUME NEW c \in Conns
  PROVE  /\ pc[c] \in {"none", "accepted", "idle"} => Phase(c) = "idle" /\ Pending(c) = Nothing
         /\ pc[c] \in {"rstart", "copy"} => Phase(c) = "read" /\ Pending(c) = Nothing
         /\ pc[c] \in {"windex", "wstart", "wtest", "wtake"} =>
              Phase(c) = "write" /\ Pending(c) = Nothing
         /\ pc[c] = "rsend" =>
              /\ Phase(c) = "answered"
              /\ Pending(c) = [rc |-> OK, letter |-> NUL, array |-> arr[c]]
         /\ pc[c] \in {"wend", "wrc", "wres", "wfin"} =>
              /\ Phase(c) = "answered"
              /\ Pending(c) = [rc |-> rc[c], letter |-> result[c], array |-> <<>>]
         /\ pc[c] \in Over => Phase(c) = "gone" /\ Pending(c) = Nothing
BY DEF Phase, Pending, Nothing, Over

\* When nobody but c moves, the array's view changes at c only.
LEMMA OnlyOne ==
  ASSUME NEW c \in Conns,
         \A d \in Conns \ {c} : /\ pc'[d] = pc[d] /\ arr'[d] = arr[d]
                                /\ rc'[d] = rc[d] /\ result'[d] = result[d]
  PROVE  /\ [d \in Conns |-> Phase(d)]' = [[d \in Conns |-> Phase(d)] EXCEPT ![c] = Phase(c)']
         /\ [d \in Conns |-> Pending(d)]' = [[d \in Conns |-> Pending(d)] EXCEPT ![c] = Pending(c)']
<1>1. \A d \in Conns \ {c} : Phase(d)' = Phase(d) /\ Pending(d)' = Pending(d)
  BY DEF Phase, Pending
<1> QED
  BY <1>1

\* The steps of the array, told by the phase and the answer of c.
LEMMA ArrayStep ==
  ASSUME NEW c \in Conns,
         \A d \in Conns \ {c} : /\ pc'[d] = pc[d] /\ arr'[d] = arr[d]
                                /\ rc'[d] = rc[d] /\ result'[d] = result[d],
         \/ str' = str /\ Phase(c)' = Phase(c) /\ Pending(c)' = Pending(c)
         \/ /\ Phase(c) = "idle" /\ Phase(c)' \in {"read", "write"}
            /\ str' = str /\ Pending(c)' = Pending(c)
         \/ /\ Phase(c) = "read" /\ Phase(c)' = "answered" /\ str' = str
            /\ Pending(c)' = [rc |-> OK, letter |-> NUL, array |-> str]
         \/ /\ Phase(c) = "write" /\ Phase(c)' = "answered" /\ str' = str
            /\ Pending(c)' = [rc |-> RANGE_ERROR, letter |-> NUL, array |-> <<>>]
         \/ /\ Phase(c) = "answered" /\ Phase(c)' = "idle" /\ str' = str
            /\ Pending(c)' = Nothing
         \/ /\ Phase(c) # "gone" /\ Phase(c)' = "gone" /\ str' = str
            /\ Pending(c)' = Nothing
         \/ \E i \in Cells :
              /\ Phase(c) = "write" /\ Phase(c)' = "answered"
              /\ \/ /\ str[i] = ARRAY_ELEMENT_BUSY /\ str' = str
                    /\ Pending(c)' = [rc |-> WRITE_BUSY_ERROR, letter |-> NUL, array |-> <<>>]
                 \/ /\ str[i] # ARRAY_ELEMENT_BUSY
                    /\ str' = [str EXCEPT ![i] = ARRAY_ELEMENT_BUSY]
                    /\ Pending(c)' = [rc |-> OK, letter |-> str[i], array |-> <<>>]
  PROVE  [Array!ANext]_(Array!avars)
<1> DEFINE ph == [d \in Conns |-> Phase(d)]
           an == [d \in Conns |-> Pending(d)]
<1>1. ph' = [ph EXCEPT ![c] = Phase(c)'] /\ an' = [an EXCEPT ![c] = Pending(c)']
  BY OnlyOne
<1>2. ph[c] = Phase(c) /\ an[c] = Pending(c)
  OBVIOUS
<1>3. ph = [d \in Conns |-> ph[d]] /\ an = [d \in Conns |-> an[d]]
  OBVIOUS
<1> HIDE DEF ph, an
<1>4. CASE str' = str /\ Phase(c)' = Phase(c) /\ Pending(c)' = Pending(c)
  <2>1. ph' = ph /\ an' = an
    BY <1>1, <1>2, <1>3, <1>4
  <2> QED
    BY <1>4, <2>1 DEF Array!avars, ph, an
<1>5. CASE /\ Phase(c) = "idle" /\ Phase(c)' \in {"read", "write"}
           /\ str' = str /\ Pending(c)' = Pending(c)
  <2>1. an' = an
    BY <1>1, <1>2, <1>3, <1>5
  <2>2. Array!Ask(c, "read") \/ Array!Ask(c, "write")
    BY <1>1, <1>2, <1>5, <2>1 DEF Array!Ask, ph, an
  <2> QED
    BY <2>2 DEF Array!ANext
<1>6. CASE /\ Phase(c) = "read" /\ Phase(c)' = "answered" /\ str' = str
           /\ Pending(c)' = [rc |-> OK, letter |-> NUL, array |-> str]
  <2>1. Array!Snapshot(c)
    BY <1>1, <1>2, <1>6 DEF Array!Snapshot, Array!Answered, Array!Answer, ph, an
  <2> QED
    BY <2>1 DEF Array!ANext
<1>7. CASE /\ Phase(c) = "write" /\ Phase(c)' = "answered" /\ str' = str
           /\ Pending(c)' = [rc |-> RANGE_ERROR, letter |-> NUL, array |-> <<>>]
  <2>1. Array!RefuseRange(c)
    BY <1>1, <1>2, <1>7 DEF Array!RefuseRange, Array!Answered, Array!Answer, ph, an
  <2> QED
    BY <2>1 DEF Array!ANext
<1>8. CASE /\ Phase(c) = "answered" /\ Phase(c)' = "idle" /\ str' = str
           /\ Pending(c)' = Nothing
  <2>1. Array!Deliver(c)
    BY <1>1, <1>2, <1>8 DEF Array!Deliver, Array!NoAnswer, Array!Answer, Nothing, ph, an
  <2> QED
    BY <2>1 DEF Array!ANext
<1>9. CASE /\ Phase(c) # "gone" /\ Phase(c)' = "gone" /\ str' = str
           /\ Pending(c)' = Nothing
  <2>1. /\ ph' = [d \in Conns |-> IF d \in {c} THEN "gone" ELSE ph[d]]
        /\ an' = [d \in Conns |-> IF d \in {c} THEN Nothing ELSE an[d]]
    BY <1>1, <1>3, <1>9
  <2>2. Array!Leave({c})
    BY <1>2, <1>9, <2>1 DEF Array!Leave, Array!NoAnswer, Array!Answer, Nothing, ph, an
  <2> QED
    BY <2>2 DEF Array!ANext
<1>10. ASSUME NEW i \in Cells, Phase(c) = "write", Phase(c)' = "answered",
              \/ /\ str[i] = ARRAY_ELEMENT_BUSY /\ str' = str
                 /\ Pending(c)' = [rc |-> WRITE_BUSY_ERROR, letter |-> NUL, array |-> <<>>]
              \/ /\ str[i] # ARRAY_ELEMENT_BUSY
                 /\ str' = [str EXCEPT ![i] = ARRAY_ELEMENT_BUSY]
                 /\ Pending(c)' = [rc |-> OK, letter |-> str[i], array |-> <<>>]
       PROVE  [Array!ANext]_(Array!avars)
  <2>1. Array!RefuseBusy(c, i) \/ Array!Take(c, i)
    BY <1>1, <1>2, <1>10
    DEF Array!RefuseBusy, Array!Take, Array!Answered, Array!Answer, ph, an
  <2>2. i \in Array!ACells
    BY DEF Array!ACells, Cells
  <2> QED
    BY <2>1, <2>2 DEF Array!ANext
<1> QED
  BY <1>4, <1>5, <1>6, <1>7, <1>8, <1>9, <1>10

\* The child of c ends: its client leaves, if it was there.
LEMMA GoneArray ==
  ASSUME Exclusion, NEW c \in Conns, NEW how \in Over, Gone(c, how), pc[c] \notin Over,
         str' = str
  PROVE  [Array!ANext]_(Array!avars)
<1>1. /\ pc' = [pc EXCEPT ![c] = how] /\ arr' = [arr EXCEPT ![c] = <<>>]
      /\ rc' = [rc EXCEPT ![c] = OK] /\ result' = [result EXCEPT ![c] = NUL]
  BY DEF Gone, ForgetLocals
<1>2. /\ pc'[c] = how
      /\ \A d \in Conns \ {c} : /\ pc'[d] = pc[d] /\ arr'[d] = arr[d]
                                 /\ rc'[d] = rc[d] /\ result'[d] = result[d]
  BY <1>1 DEF Exclusion, TypeOK
<1>3. Phase(c)' = "gone" /\ Pending(c)' = Nothing
  BY <1>2 DEF Phase, Pending, Nothing, Over
<1>4. Phase(c) # "gone"
  BY DEF Exclusion, TypeOK, PCs, Reading, Writing, Phase, Over
<1> QED
  BY <1>2, <1>3, <1>4, ArrayStep

\* The steps of a child are steps of the array or leave what clients see alone.
LEMMA RunsArray ==
  ASSUME Exclusion, CellsInv, NEW c \in Conns, Runs(c)
  PROVE  [Array!ANext]_(Array!avars)
<1> USE DEF Goto, Quiet, shared, locals, parent, aux
<1>1. /\ pc \in [Conns -> PCs] /\ arr \in [Conns -> Copies]
      /\ rc \in [Conns -> {OK, WRITE_BUSY_ERROR, RANGE_ERROR}]
      /\ result \in [Conns -> Letters \cup {NUL}] /\ str \in [Cells -> Contents]
  BY DEF Exclusion, TypeOK
<1>2. Frame(c)
  BY DEF CellsInv, Frames
<1>3. CASE StartRead(c) \/ \E i \in Cells : Copy(c, i)
  <2>1. /\ pc[c] \in {"rstart", "copy"} /\ pc'[c] = "copy" /\ str' = str
        /\ \A d \in Conns \ {c} : /\ pc'[d] = pc[d] /\ arr'[d] = arr[d]
                                   /\ rc'[d] = rc[d] /\ result'[d] = result[d]
    BY <1>1, <1>3 DEF StartRead, Copy
  <2>2. /\ Phase(c) = "read" /\ Pending(c) = Nothing
        /\ Phase(c)' = "read" /\ Pending(c)' = Nothing
    BY <2>1 DEF Phase, Pending, Nothing
  <2> QED
    BY <2>1, <2>2, ArrayStep
<1>4. CASE EndRead(c)
  <2>1. /\ pc[c] = "copy" /\ pc'[c] = "rsend" /\ str' = str /\ arr' = arr
        /\ \A d \in Conns \ {c} : /\ pc'[d] = pc[d] /\ arr'[d] = arr[d]
                                   /\ rc'[d] = rc[d] /\ result'[d] = result[d]
    BY <1>1, <1>4 DEF EndRead
  <2>2. arr[c] = str
    <3>1. DOMAIN arr[c] = Cells /\ \A i \in Cells : arr[c][i] = str[i]
      BY <1>4 DEF EndRead, CellsInv, SnapshotConsistent
    <3>2. PICK D \in SUBSET Cells : arr[c] \in [D -> Contents]
      BY <1>1 DEF Copies
    <3> QED
      BY <1>1, <3>1, <3>2
  <2>3. /\ Phase(c) = "read" /\ Phase(c)' = "answered"
        /\ Pending(c)' = [rc |-> OK, letter |-> NUL, array |-> str]
    BY <2>1, <2>2 DEF Phase, Pending
  <2> QED
    BY <2>1, <2>3, ArrayStep
<1>5. CASE SendArray(c)
  <2>1. /\ pc[c] = "rsend" /\ pc'[c] = "idle" /\ str' = str
        /\ \A d \in Conns \ {c} : /\ pc'[d] = pc[d] /\ arr'[d] = arr[d]
                                   /\ rc'[d] = rc[d] /\ result'[d] = result[d]
    BY <1>1, <1>5 DEF SendArray
  <2>2. Phase(c) = "answered" /\ Phase(c)' = "idle" /\ Pending(c)' = Nothing
    BY <2>1 DEF Phase, Pending, Nothing
  <2> QED
    BY <2>1, <2>2, ArrayStep
<1>6. CASE StartWrite(c) \/ TestFree(c)
  <2>1. /\ pc[c] \in {"wstart", "wtest"} /\ pc'[c] \in {"wtest", "wtake"} /\ str' = str
        /\ \A d \in Conns \ {c} : /\ pc'[d] = pc[d] /\ arr'[d] = arr[d]
                                   /\ rc'[d] = rc[d] /\ result'[d] = result[d]
    BY <1>1, <1>6 DEF StartWrite, TestFree
  <2>2. /\ Phase(c) = "write" /\ Pending(c) = Nothing
        /\ Phase(c)' = "write" /\ Pending(c)' = Nothing
    BY <2>1 DEF Phase, Pending, Nothing
  <2> QED
    BY <2>1, <2>2, ArrayStep
<1>7. CASE Refuse(c)
  <2>1. /\ pc[c] = "wtest" /\ pc'[c] = "wend" /\ str' = str /\ result'[c] = NUL
        /\ \/ rc'[c] = RANGE_ERROR
           \/ rc'[c] = WRITE_BUSY_ERROR /\ \E i \in Cells : str[i] = ARRAY_ELEMENT_BUSY
        /\ \A d \in Conns \ {c} : /\ pc'[d] = pc[d] /\ arr'[d] = arr[d]
                                   /\ rc'[d] = rc[d] /\ result'[d] = result[d]
    BY <1>1, <1>2, <1>7 DEF Refuse, Frame
  <2>2. /\ Phase(c) = "write" /\ Phase(c)' = "answered"
        /\ Pending(c)' = [rc |-> rc'[c], letter |-> NUL, array |-> <<>>]
    BY <2>1 DEF Phase, Pending
  <2> QED
    BY <2>1, <2>2, ArrayStep
<1>8. CASE Take(c)
  <2>1. /\ pc[c] = "wtake" /\ pc'[c] = "wend" /\ rc'[c] = OK /\ result'[c] = str[index[c]]
        /\ index[c] \in Cells /\ str[index[c]] # ARRAY_ELEMENT_BUSY
        /\ str' = [str EXCEPT ![index[c]] = ARRAY_ELEMENT_BUSY]
        /\ \A d \in Conns \ {c} : /\ pc'[d] = pc[d] /\ arr'[d] = arr[d]
                                   /\ rc'[d] = rc[d] /\ result'[d] = result[d]
    BY <1>1, <1>2, <1>8 DEF Take, Frame
  <2>2. /\ Phase(c) = "write" /\ Phase(c)' = "answered"
        /\ Pending(c)' = [rc |-> OK, letter |-> str[index[c]], array |-> <<>>]
    BY <2>1 DEF Phase, Pending
  <2> QED
    BY <2>1, <2>2, ArrayStep
<1>9. CASE EndWrite(c) \/ (SendCode(c) /\ pc'[c] # "idle")
  <2>1. /\ pc[c] \in {"wend", "wrc"} /\ pc'[c] \in {"wrc", "wres", "wfin"} /\ str' = str
        /\ rc' = rc /\ result' = result
        /\ \A d \in Conns \ {c} : /\ pc'[d] = pc[d] /\ arr'[d] = arr[d]
                                   /\ rc'[d] = rc[d] /\ result'[d] = result[d]
    BY <1>1, <1>9 DEF EndWrite, SendCode
  <2>2. /\ Phase(c)' = Phase(c) /\ Pending(c)' = Pending(c)
    BY <2>1 DEF Phase, Pending
  <2> QED
    BY <2>1, <2>2, ArrayStep
<1>10. CASE SendLetter(c) \/ (SendCode(c) /\ pc'[c] = "idle")
  <2>1. /\ pc[c] \in {"wrc", "wres"} /\ pc'[c] = "idle" /\ str' = str
        /\ \A d \in Conns \ {c} : /\ pc'[d] = pc[d] /\ arr'[d] = arr[d]
                                   /\ rc'[d] = rc[d] /\ result'[d] = result[d]
    BY <1>1, <1>10 DEF SendLetter, SendCode, ForgetLocals
  <2>2. Phase(c) = "answered" /\ Phase(c)' = "idle" /\ Pending(c)' = Nothing
    BY <2>1 DEF Phase, Pending, Nothing
  <2> QED
    BY <2>1, <2>2, ArrayStep
<1>11. CASE StopServer(c)
  BY <1>11, GoneArray DEF StopServer, Over
<1> QED
  BY <1>3, <1>4, <1>5, <1>6, <1>7, <1>8, <1>9, <1>10, <1>11 DEF Runs

\* So are the steps of the parent, of the clients and of the terminal.
LEMMA OthersArray ==
  ASSUME Exclusion, CellsInv,
         \/ Parent \/ CtrlC \/ UNCHANGED vars
         \/ \E c \in Conns : Outside(c)
  PROVE  [Array!ANext]_(Array!avars)
<1> USE DEF Goto, Quiet, shared, locals, parent, aux
<1>1. pc \in [Conns -> PCs]
  BY DEF Exclusion, TypeOK
<1>2. ASSUME UNCHANGED <<str, pc, arr, rc, result>> PROVE UNCHANGED Array!avars
  BY <1>2 DEF Array!avars, Phase, Pending
<1>3. ASSUME NEW c \in Conns, HangUp(c) \/ SendFails(c) \/ SemInterrupted(c) \/ Kill(c)
      PROVE  [Array!ANext]_(Array!avars)
  BY <1>3, GoneArray DEF HangUp, SendFails, SemInterrupted, Kill, Alive, Over
<1>4. ASSUME NEW c \in Conns, ReadType(c) \/ \E i \in Indices : ReadIndex(c, i)
      PROVE  [Array!ANext]_(Array!avars)
  <2>1. /\ \/ pc[c] = "idle" /\ pc'[c] \in {"rstart", "windex"}
           \/ pc[c] = "windex" /\ pc'[c] = "wstart"
        /\ str' = str
        /\ \A d \in Conns \ {c} : /\ pc'[d] = pc[d] /\ arr'[d] = arr[d]
                                   /\ rc'[d] = rc[d] /\ result'[d] = result[d]
    BY <1>1, <1>4 DEF ReadType, ReadIndex
  <2>2. /\ Pending(c)' = Pending(c)
        /\ \/ Phase(c) = "idle" /\ Phase(c)' \in {"read", "write"}
           \/ Phase(c)' = Phase(c)
    BY <2>1 DEF Phase, Pending
  <2> QED
    BY <2>1, <2>2, ArrayStep
<1>5. ASSUME NEW c \in Conns, Accept(c) \/ Fork(c) PROVE [Array!ANext]_(Array!avars)
  <2>1. /\ pc[c] \in {"none", "accepted"} /\ pc'[c] \in {"accepted", "idle"} /\ str' = str
        /\ \A d \in Conns \ {c} : /\ pc'[d] = pc[d] /\ arr'[d] = arr[d]
                                   /\ rc'[d] = rc[d] /\ result'[d] = result[d]
    BY <1>1, <1>5 DEF Accept, Fork
  <2>2. Phase(c)' = Phase(c) /\ Pending(c)' = Pending(c)
    BY <2>1 DEF Phase, Pending
  <2> QED
    BY <2>1, <2>2, ArrayStep
<1>6. ASSUME NEW c \in Conns, ForkFails(c) PROVE [Array!ANext]_(Array!avars)
  <2>1. /\ pc[c] = "accepted" /\ pc'[c] = "refused" /\ str' = str
        /\ \A d \in Conns \ {c} : /\ pc'[d] = pc[d] /\ arr'[d] = arr[d]
                                   /\ rc'[d] = rc[d] /\ result'[d] = result[d]
    BY <1>1, <1>6 DEF ForkFails
  <2>2. Phase(c) # "gone" /\ Phase(c)' = "gone" /\ Pending(c)' = Nothing
    BY <2>1 DEF Phase, Pending, Nothing
  <2> QED
    BY <2>1, <2>2, ArrayStep
<1>7. CASE \/ Test \/ AcceptFails \/ AcceptInterrupted \/ SignalHandler \/ CtrlC
           \/ UNCHANGED vars \/ \E c \in Conns : ChildSignal(c)
  BY <1>2, <1>7
  DEF Test, AcceptFails, AcceptInterrupted, SignalHandler, CtrlC, vars, ChildSignal
<1> QED
  BY <1>3, <1>4, <1>5, <1>6, <1>7 DEF Parent, Outside

\* The server implements the array on which every request takes effect at once.
THEOREM Refinement == Spec => Linearizable
<1>1. Init => Array!AInit
  BY DEF Init, Array!AInit, Array!ACells, Array!ALetter, Array!NoAnswer, Array!Answer,
         Cells, Letter, Phase, Pending
<1>2. Exclusion /\ CellsInv /\ [Next]_vars => [Array!ANext]_(Array!avars)
  BY RunsArray, OthersArray DEF Next, Child
<1> QED
  BY <1>1, <1>2, ExclusionAlways, CellsAlways, PTL DEF Spec, Array!ASpec, Linearizable
-----------------------------------------------------------------------------
(* The composition of clnt.c with the server takes no step that the server  *)
(* alone, among arbitrary clients, does not take: what is proved above of   *)
(* the server holds of it beside these clients, too.                        *)

\* A client only moves itself and the bytes on the way.
LEMMA ClientLeavesServer ==
  ASSUME NEW c \in Conns, Connect(c) \/ ClientRuns(c) \/ Leave(c)
  PROVE  UNCHANGED vars
BY DEF Connect, ClientRuns, Leave, GetArray, Choose, GetCode, GetLetter, Cut, Turn

\* A child takes a step of ForkServ, with what its client has sent.
LEMMA ChildIsChild ==
  ASSUME NEW c \in Conns, ChildRuns(c) \/ ChildReads(c) \/ ChildMeets(c)
  PROVE  Child(c)
BY DEF ChildRuns, ChildReads, ChildMeets, Child, Outside

\* Every step of the composition is one of the server or leaves it as it is.
LEMMA StepIsServerStep == ClntNext => Next \/ UNCHANGED vars
<1> SUFFICES ASSUME ClntNext
             PROVE  Next \/ UNCHANGED vars
  OBVIOUS
<1>1. ASSUME ParentRuns
      PROVE  Next
  BY <1>1 DEF ParentRuns, Next, Parent
<1>2. ASSUME NEW c \in Conns, AcceptClient(c)
      PROVE  Next
  BY <1>2 DEF AcceptClient, Next, Parent
<1> QED
  BY <1>1, <1>2, ClientLeavesServer, ChildIsChild DEF ClntNext, Next

\* The server of the composition is the server of ForkServ: its clients choose
\* among what arbitrary clients do, and add nothing.
THEOREM ServerAmongClients == ClntSpec => Spec
<1>1. ClntInit => Init
  BY DEF ClntInit
<1>2. [ClntNext]_allvars => [Next]_vars
  BY StepIsServerStep DEF allvars
<1> QED
  BY <1>1, <1>2, PTL DEF ClntSpec, Spec

\* So a writer is alone with the array, and what readers send and writers take
\* agrees with it, whichever of the connections clnt.c has opened.
THEOREM ArrayAmongClients == ClntSpec => [](SemaphoresGuard /\ CellsConsistent)
BY ServerAmongClients, ArrayGuarded, CellsAgree, PTL

\* And what clnt.c sees is the array on which every request takes effect at
\* once.
THEOREM LinearAmongClients == ClntSpec => Linearizable
BY ServerAmongClients, Refinement, PTL
-----------------------------------------------------------------------------
(* What a client knows.  Between two of its steps others may take letters,  *)
(* so that the copy it chose from is old; but a busy cell stays busy.       *)

\* The copy a of the whole array was true once: by now, when the array is s, it
\* is still true of what was busy then.
Snapshot(a, s) ==
  /\ a \in [Cells -> Contents]
  /\ \A i \in Cells :
       /\ a[i] \in {ARRAY_ELEMENT_BUSY, Letter(i)}
       /\ a[i] = ARRAY_ELEMENT_BUSY => s[i] = ARRAY_ELEMENT_BUSY

AllBusy == \A i \in Cells : str[i] = ARRAY_ELEMENT_BUSY

Answering == {"wstart", "wtest", "wtake", "wend", "wrc", "wres", "wfin"}

\* The letter that the client of c asked for.
Asked(c) == Letter(freeindex[c])

\* The client's choice, once it has sent it.
Chosen(c) == Snapshot(seen[c], str) /\ freeindex[c] = FirstFree(seen[c])

\* What is on the way to the child, by where the child stands.
UpInv(c) ==
  /\ pc[c] \in {"none", "accepted"} => up[c] \in {<<>>, <<READ>>}
  /\ pc[c] = "idle" =>
       \/ up[c] \in {<<>>, <<READ>>}
       \/ up[c] = <<WRITE, freeindex[c]>> /\ Chosen(c)
  /\ pc[c] \in {"rstart", "copy", "rsend"} => up[c] = <<>>
  /\ pc[c] = "windex" => up[c] = <<freeindex[c]>> /\ Chosen(c)
  /\ pc[c] \in Answering => up[c] = <<>> /\ index[c] = freeindex[c] /\ Chosen(c)
  /\ pc[c] = "rsend" => Snapshot(arr[c], str)

\* What is on the way to the client, by where the client stands.
DownInv(c) ==
  /\ cpc[c] = "out" => pc[c] = "none" /\ up[c] = <<>> /\ down[c] = <<>>
  /\ cpc[c] = "array" =>
       \/ /\ down[c] = <<>>
          /\ pc[c] \in {"none", "accepted", "idle", "rstart", "copy", "rsend"} \cup Over
          /\ pc[c] \in {"none", "accepted", "idle"} => up[c] = <<READ>>
       \/ /\ \E a \in [Cells -> Contents] : down[c] = <<a>> /\ Snapshot(a, str)
          /\ pc[c] \in {"idle"} \cup Over
          /\ pc[c] = "idle" => up[c] = <<>>
  /\ cpc[c] = "choose" =>
       /\ Snapshot(seen[c], str)
       /\ down[c] = <<>>
       /\ pc[c] \in {"idle"} \cup Over
       /\ pc[c] = "idle" => up[c] = <<>>
  /\ cpc[c] = "code" =>
       /\ \/ down[c] = <<>>
          \/ \E r \in {OK, WRITE_BUSY_ERROR, RANGE_ERROR} : down[c] = <<r>>
          \/ down[c] = <<OK, Asked(c)>> /\ freeindex[c] \in Cells
       /\ pc[c] \in {"idle", "windex"} \cup Answering \cup Over
       /\ pc[c] = "idle" => up[c] # <<READ>> /\ (up[c] = <<>> <=> down[c] # <<>>)
       /\ pc[c] = "wres" => down[c] = <<OK>>
       /\ pc[c] \in {"windex"} \cup (Answering \ {"wres", "wfin"}) => down[c] = <<>>
  /\ cpc[c] = "letter" =>
       /\ down[c] = <<>> \/ (down[c] = <<Asked(c)>> /\ freeindex[c] \in Cells)
       /\ pc[c] \in {"idle", "wres", "wfin"} \cup Over
       /\ pc[c] = "idle" => up[c] = <<>>
       /\ pc[c] = "wres" => down[c] = <<>>

\* What the client keeps of its turn.
TurnInv(c) ==
  /\ cpc[c] \in {"code", "letter"} => Chosen(c)
  /\ letter[c] # NUL =>
       cpc[c] = "gone" /\ letter[c] = Asked(c) /\ freeindex[c] \in Cells /\ Chosen(c)

\* An index that is refused as out of range is the -1 of a client that found
\* nothing free, and then nothing is free any more.
Refused(c) == rc[c] = RANGE_ERROR \/ pc[c] = "wfin" => AllBusy

ClntTypes ==
  /\ ours \subseteq Conns
  /\ cpc \in [Conns -> {"out", "array", "choose", "code", "letter", "gone"}]
  /\ up \in [Conns -> Seq(Int)]
  /\ down \in [Conns -> Seq(Copies \cup Int)]
  /\ seen \in [Conns -> Copies]
  /\ freeindex \in [Conns -> Int]
  /\ letter \in [Conns -> Int]

TurnOf(c) == UpInv(c) /\ DownInv(c) /\ TurnInv(c) /\ Refused(c)

ClntInv == ClntTypes /\ (\A c \in ours : TurnOf(c)) /\ StoppedOnlyWhenEmpty
-----------------------------------------------------------------------------
(* The choice, and what is true of copies and short sequences.              *)

\* A set of natural numbers that is not empty has a least element.
LEMMA LeastNatural ==
  ASSUME NEW T \in SUBSET Nat, T # {}
  PROVE  \E i \in T : \A j \in T : i <= j
<1> DEFINE Upto(i) == {j \in T : j <= i}
           Sets == {Upto(i) : i \in T}
           R == StrictSubsetOrdering(Nat)
<1>0. \A j \in T : j \in Nat
  OBVIOUS
<1>1. IsWellFoundedOn(R, FiniteSubsetsOf(Nat))
  BY FS_StrictSubsetOrderingWellFounded
<1>2. Sets \subseteq FiniteSubsetsOf(Nat) /\ Sets # {}
  <2>1. ASSUME NEW i \in T PROVE Upto(i) \in FiniteSubsetsOf(Nat)
    <3>1. IsFiniteSet(0 .. i) BY FS_Interval
    <3>2. ASSUME NEW k \in Upto(i) PROVE k \in 0 .. i
      <4>1. k \in T /\ k <= i OBVIOUS
      <4> QED BY <1>0, <4>1
    <3>3. IsFiniteSet(Upto(i)) BY <3>1, <3>2, FS_Subset
    <3> QED BY <3>3 DEF FiniteSubsetsOf
  <2> QED BY <2>1
<1>3. PICK x \in Sets : \A y \in Sets : ~ (<<y, x>> \in R)
  <2> HIDE DEF R, Sets
  <2> QED BY <1>1, <1>2, WFMin
<1>4. PICK i \in T : x = Upto(i)
  OBVIOUS
<1>5. ASSUME NEW j \in T, j < i PROVE FALSE
  <2>1. ASSUME NEW k \in Upto(j) PROVE k \in Upto(i)
    <3>1. k \in T /\ k <= j OBVIOUS
    <3> QED BY <1>0, <1>5, <3>1
  <2>2. i \in Upto(i) /\ i \notin Upto(j) BY <1>0, <1>5
  <2>3. <<Upto(j), x>> \in R
    BY <1>4, <2>1, <2>2 DEF StrictSubsetOrdering
  <2> QED BY <1>3, <2>3
<1> QED BY <1>0, <1>5

\* The client finds a cell that its copy shows free, or -1 when there is none.
LEMMA FirstFreeChoice ==
  ASSUME NEW a
  PROVE  \/ FirstFree(a) \in Cells /\ a[FirstFree(a)] # ARRAY_ELEMENT_BUSY
         \/ FirstFree(a) = -1 /\ \A i \in Cells : a[i] = ARRAY_ELEMENT_BUSY
<1> DEFINE free == {i \in Cells : a[i] # ARRAY_ELEMENT_BUSY}
<1>1. CASE free = {}
  BY <1>1 DEF FirstFree
<1>2. CASE free # {}
  <2>1. free \in SUBSET Nat
    <3>1. \A i \in Cells : i \in Nat
      BY ConstantsAssumption DEF Cells
    <3> QED BY <3>1
  <2>2. \E i \in free : \A j \in free : i <= j
    <3> HIDE DEF free
    <3> QED BY <1>2, <2>1, LeastNatural
  <2>3. FirstFree(a) \in free
    BY <1>2, <2>2 DEF FirstFree
  <2> QED BY <2>3
<1> QED BY <1>1, <1>2

\* What was true of the array stays true as long as busy cells stay busy.
LEMMA SnapshotLater ==
  ASSUME NEW a, NEW s, NEW t, Snapshot(a, s),
         \A i \in Cells : s[i] = ARRAY_ELEMENT_BUSY => t[i] = ARRAY_ELEMENT_BUSY
  PROVE  Snapshot(a, t)
BY DEF Snapshot

\* A message alone on its way.
LEMMA One ==
  ASSUME NEW x
  PROVE  /\ Head(<<x>>) = x /\ Tail(<<x>>) = <<>> /\ <<x>> # <<>>
         /\ <<x>> \o <<>> = <<x>> /\ <<>> \o <<x>> = <<x>>
<1>1. <<x>> \in Seq({x}) /\ <<>> \in Seq({x})
  OBVIOUS
<1>2. <<x>> \o <<>> = <<x>> /\ <<>> \o <<x>> = <<x>>
  BY <1>1, ConcatEmptySeq
<1>3. Len(Tail(<<x>>)) = 0 /\ Tail(<<x>>) \in Seq({x})
  BY <1>1
<1> QED BY <1>1, <1>2, <1>3

\* Two messages on their way.
LEMMA Two ==
  ASSUME NEW x, NEW y
  PROVE  /\ Head(<<x, y>>) = x /\ Tail(<<x, y>>) = <<y>> /\ <<x, y>> # <<>>
         /\ <<x>> \o <<y>> = <<x, y>> /\ <<>> \o <<x, y>> = <<x, y>>
<1> DEFINE S == {x, y}
<1>1. <<x, y>> \in Seq(S) /\ <<x>> \in Seq(S) /\ <<y>> \in Seq(S)
  OBVIOUS
<1>2. Tail(<<x, y>>) \in Seq(S) /\ Len(Tail(<<x, y>>)) = 1 /\ Tail(<<x, y>>)[1] = y
  BY <1>1
<1>3. <<x>> \o <<y>> \in Seq(S) /\ Len(<<x>> \o <<y>>) = 2
      /\ (<<x>> \o <<y>>)[1] = x /\ (<<x>> \o <<y>>)[2] = y
  BY <1>1
<1>4. Tail(<<x, y>>) = <<y>>
  <2>1. \A i \in 1 .. 1 : Tail(<<x, y>>)[i] = <<y>>[i]
    BY <1>2
  <2> HIDE DEF S
  <2> QED BY <1>1, <1>2, <2>1, SeqEqual
<1>5. <<x>> \o <<y>> = <<x, y>>
  <2>1. \A i \in 1 .. 2 : (<<x>> \o <<y>>)[i] = <<x, y>>[i]
    BY <1>3
  <2> HIDE DEF S
  <2> QED BY <1>1, <1>3, <2>1, SeqEqual
<1>6. <<>> \o <<x, y>> = <<x, y>>
  BY <1>1, ConcatEmptySeq
<1> QED BY <1>1, <1>4, <1>5, <1>6
-----------------------------------------------------------------------------
(* The clients' steps.                                                      *)

Same(d) ==
  UNCHANGED <<pc[d], arr[d], index[d], rc[d], result[d],
              cpc[d], up[d], down[d], seen[d], freeindex[d], letter[d]>>

BusyStays == \A i \in Cells : str[i] = ARRAY_ELEMENT_BUSY => str'[i] = ARRAY_ELEMENT_BUSY

\* What others do to the array leaves true what a client and its child know.
LEMMA OthersTurn ==
  ASSUME NEW d \in Conns, Same(d), BusyStays, TurnOf(d)
  PROVE  TurnOf(d)'
<1>1. \A a : Snapshot(a, str) => Snapshot(a, str')
  BY SnapshotLater DEF BusyStays
<1>2. AllBusy => AllBusy'
  BY DEF AllBusy, BusyStays
<1>3. Chosen(d) => Chosen(d)'
  BY <1>1 DEF Chosen, Same
<1>4. UpInv(d)'
  BY <1>1, <1>3 DEF UpInv, TurnOf, Same
<1>5. DownInv(d)'
  BY <1>1, <1>3 DEF DownInv, TurnOf, Same, Asked
<1>6. TurnInv(d)' /\ Refused(d)'
  BY <1>2, <1>3 DEF TurnInv, Refused, TurnOf, Same, Asked
<1> QED BY <1>4, <1>5, <1>6 DEF TurnOf

\* A step of one connection need only be looked at there.
LEMMA OneTurn ==
  ASSUME ClntInv, ClntTypes', NEW c \in Conns, \A d \in Conns \ {c} : Same(d), BusyStays,
         ours' = ours, c \in ours => TurnOf(c)', StoppedOnlyWhenEmpty'
  PROVE  ClntInv'
<1>1. \A d \in ours : TurnOf(d)'
  BY OthersTurn DEF ClntInv, ClntTypes
<1> QED BY <1>1 DEF ClntInv

\* As long as no signal comes and none is heard, nothing more is to be shown of
\* the stop.
LEMMA NotStoppedYet ==
  ASSUME StoppedOnlyWhenEmpty, BusyStays, UNCHANGED <<ours, sigint, flag>>
  PROVE  StoppedOnlyWhenEmpty'
BY DEF StoppedOnlyWhenEmpty, BusyStays

\* No client has connected.
LEMMA ClntInitInv == ClntInit => ClntInv
<1> SUFFICES ASSUME ClntInit PROVE ClntInv
  OBVIOUS
<1> USE DEF ClntInit, Init
<1>1. ClntTypes
  BY EmptyCopy, MixesAssumption DEF ClntTypes, NUL
<1>2. \A c \in ours : TurnOf(c)
  <2> SUFFICES ASSUME NEW c \in ours PROVE TurnOf(c)
    OBVIOUS
  <2>1. c \in Conns
    BY <1>1 DEF ClntTypes
  <2> QED BY <2>1 DEF TurnOf, UpInv, DownInv, TurnInv, Refused, OK, RANGE_ERROR, Answering
<1>3. StoppedOnlyWhenEmpty
  BY DEF StoppedOnlyWhenEmpty
<1> QED BY <1>1, <1>2, <1>3 DEF ClntInv

\* A client connects, goes on or leaves.
LEMMA ClientStep ==
  ASSUME TypeOK, ClntInv, NEW c \in Conns, Connect(c) \/ ClientRuns(c) \/ Leave(c)
  PROVE  ClntInv'
<1>0. /\ UNCHANGED <<vars, ours>> /\ c \in ours
      /\ ClntTypes /\ TurnOf(c) /\ StoppedOnlyWhenEmpty
  BY DEF ClntInv, Connect, ClientRuns, Leave, GetArray, Choose, GetCode, GetLetter, Cut, Turn
<1>1. BusyStays /\ UNCHANGED <<pc, arr, index, rc, result, str>>
  BY <1>0 DEF BusyStays, vars, shared, locals
<1>2. StoppedOnlyWhenEmpty'
  BY <1>0, <1>1, NotStoppedYet DEF vars, parent
<1>3. UpInv(c) /\ DownInv(c) /\ TurnInv(c) /\ Refused(c)
  BY <1>0 DEF TurnOf
<1>4. Refused(c)'
  BY <1>1, <1>3 DEF Refused, AllBusy
<1>5. ASSUME ClntTypes', \A d \in Conns \ {c} : Same(d), UpInv(c)', DownInv(c)', TurnInv(c)'
      PROVE  ClntInv'
  BY <1>0, <1>1, <1>2, <1>4, <1>5, OneTurn DEF TurnOf
<1>6. CASE Connect(c)
  <2>1. CASE Listening
    <3>1. /\ cpc[c] = "out" /\ cpc' = [cpc EXCEPT ![c] = "array"]
          /\ up' = [up EXCEPT ![c] = <<READ>>] /\ UNCHANGED <<down, seen, freeindex, letter>>
      BY <1>6, <2>1 DEF Connect, Turn
    <3>2. ClntTypes' /\ \A d \in Conns \ {c} : Same(d)
      BY <1>0, <1>1, <3>1 DEF ClntTypes, Same, READ
    <3>3. cpc'[c] = "array" /\ up'[c] = <<READ>>
      BY <1>0, <3>1 DEF ClntTypes
    <3>4. pc[c] = "none" /\ down[c] = <<>> /\ letter[c] = NUL
      BY <1>3, <3>1 DEF DownInv, TurnInv
    <3>5. UpInv(c)' /\ DownInv(c)' /\ TurnInv(c)'
      BY <1>1, <3>1, <3>3, <3>4 DEF UpInv, DownInv, TurnInv, Answering
    <3> QED BY <1>5, <3>2, <3>5
  <2>2. CASE ~ Listening
    <3>1. /\ cpc[c] = "out" /\ cpc' = [cpc EXCEPT ![c] = "gone"]
          /\ UNCHANGED <<up, down, seen, freeindex, letter>>
      BY <1>6, <2>2 DEF Connect, Turn
    <3>2. ClntTypes' /\ (\A d \in Conns \ {c} : Same(d)) /\ cpc'[c] = "gone"
      BY <1>0, <1>1, <3>1 DEF ClntTypes, Same
    <3>3. UpInv(c)' /\ DownInv(c)' /\ TurnInv(c)'
      BY <1>1, <1>3, <3>1, <3>2 DEF UpInv, DownInv, TurnInv, Chosen, Asked
    <3> QED BY <1>5, <3>2, <3>3
  <2> QED BY <2>1, <2>2
<1>7. CASE Leave(c) \/ Cut(c)
  <2>1. cpc' = [cpc EXCEPT ![c] = "gone"] /\ UNCHANGED <<up, down, seen, freeindex, letter>>
    BY <1>7 DEF Leave, Cut, Turn
  <2>2. ClntTypes' /\ (\A d \in Conns \ {c} : Same(d)) /\ cpc'[c] = "gone"
    BY <1>0, <1>1, <2>1 DEF ClntTypes, Same
  <2>3. UpInv(c)' /\ DownInv(c)' /\ TurnInv(c)'
    BY <1>1, <1>3, <2>1, <2>2 DEF UpInv, DownInv, TurnInv, Chosen, Asked
  <2> QED BY <1>5, <2>2, <2>3
<1>8. CASE GetArray(c)
  <2>1. /\ cpc[c] = "array" /\ cpc' = [cpc EXCEPT ![c] = "choose"] /\ down[c] # <<>>
        /\ down' = [down EXCEPT ![c] = Tail(@)] /\ seen' = [seen EXCEPT ![c] = Head(down[c])]
        /\ UNCHANGED <<up, freeindex, letter>>
    BY <1>8 DEF GetArray, Receive, Turn
  <2>2. PICK a \in [Cells -> Contents] : down[c] = <<a>> /\ Snapshot(a, str)
    BY <1>3, <2>1 DEF DownInv
  <2>3. pc[c] \in {"idle"} \cup Over /\ (pc[c] = "idle" => up[c] = <<>>) /\ letter[c] = NUL
    BY <1>3, <2>1 DEF DownInv, TurnInv
  <2>4. Head(down[c]) = a /\ Tail(down[c]) = <<>> /\ a \in Copies
    BY <2>2, One DEF Copies
  <2>5. cpc'[c] = "choose" /\ down'[c] = <<>> /\ seen'[c] = a
    BY <1>0, <2>1, <2>4 DEF ClntTypes
  <2>6. ClntTypes' /\ \A d \in Conns \ {c} : Same(d)
    BY <1>0, <1>1, <2>1, <2>4 DEF ClntTypes, Same
  <2>7. UpInv(c)' /\ DownInv(c)' /\ TurnInv(c)'
    BY <1>1, <2>1, <2>2, <2>3, <2>5 DEF UpInv, DownInv, TurnInv, Answering, Over
  <2> QED BY <1>5, <2>6, <2>7
<1>9. CASE Choose(c)
  <2> DEFINE f == FirstFree(seen[c])
  <2>1. /\ cpc[c] = "choose" /\ cpc' = [cpc EXCEPT ![c] = "code"]
        /\ freeindex' = [freeindex EXCEPT ![c] = f]
        /\ up' = [up EXCEPT ![c] = @ \o <<WRITE, freeindex'[c]>>]
        /\ UNCHANGED <<down, seen, letter>>
    BY <1>9 DEF Choose, Turn
  <2>2. /\ Snapshot(seen[c], str) /\ down[c] = <<>> /\ letter[c] = NUL
        /\ pc[c] \in {"idle"} \cup Over /\ (pc[c] = "idle" => up[c] = <<>>)
    BY <1>3, <2>1 DEF DownInv, TurnInv
  <2>3. f \in Int
    BY FirstFreeChoice DEF Cells
  <2> HIDE DEF f
  <2>4. cpc'[c] = "code" /\ freeindex'[c] = f /\ up'[c] = up[c] \o <<WRITE, f>>
    BY <1>0, <2>1 DEF ClntTypes
  <2>5. <<WRITE, f>> \in Seq(Int) /\ up[c] \in Seq(Int)
    BY <1>0, <2>3 DEF ClntTypes, WRITE
  <2>6. pc[c] = "idle" => up'[c] = <<WRITE, f>>
    BY <2>2, <2>4, Two
  <2>7. ClntTypes' /\ \A d \in Conns \ {c} : Same(d)
    <3>1. up'[c] \in Seq(Int)
      BY <2>4, <2>5, ConcatProperties
    <3> QED BY <1>0, <1>1, <2>1, <2>3, <2>4, <3>1 DEF ClntTypes, Same
  <2>8. Chosen(c)'
    BY <1>1, <2>1, <2>2, <2>4 DEF Chosen, f
  <2>9. <<WRITE, f>> # <<READ>> /\ <<WRITE, f>> # <<>>
    BY Two, One DEF WRITE, READ
  <2>10. UpInv(c)' /\ DownInv(c)' /\ TurnInv(c)'
    <3>1. UpInv(c)'
      BY <1>1, <2>2, <2>4, <2>6, <2>8 DEF UpInv, Answering, Over
    <3>2. DownInv(c)'
      BY <1>1, <2>1, <2>2, <2>4, <2>6, <2>9 DEF DownInv, Answering, Over
    <3>3. TurnInv(c)'
      BY <2>1, <2>2, <2>8 DEF TurnInv
    <3> QED BY <3>1, <3>2, <3>3
  <2> QED BY <1>5, <2>7, <2>10
<1>10. CASE GetCode(c)
  <2>1. /\ cpc[c] = "code" /\ down[c] # <<>> /\ down' = [down EXCEPT ![c] = Tail(@)]
        /\ cpc' = [cpc EXCEPT ![c] = IF Head(down[c]) = OK THEN "letter" ELSE "gone"]
        /\ UNCHANGED <<up, seen, freeindex, letter>>
    BY <1>10 DEF GetCode, Receive, Turn
  <2>2. /\ cpc'[c] = IF Head(down[c]) = OK THEN "letter" ELSE "gone"
        /\ down'[c] = Tail(down[c])
    BY <1>0, <2>1 DEF ClntTypes
  <2>3. ClntTypes' /\ \A d \in Conns \ {c} : Same(d)
    BY <1>0, <1>1, <2>1 DEF ClntTypes, Same
  <2>4. \/ \E r \in {OK, WRITE_BUSY_ERROR, RANGE_ERROR} : down[c] = <<r>>
        \/ down[c] = <<OK, Asked(c)>> /\ freeindex[c] \in Cells
    BY <1>3, <2>1 DEF DownInv
  <2>5. down'[c] = <<>> \/ (down'[c] = <<Asked(c)>> /\ freeindex[c] \in Cells)
    BY <2>2, <2>4, One, Two
  <2>6. pc[c] = "wres" => down'[c] = <<>>
    BY <1>3, <2>1, <2>2, One DEF DownInv
  <2>7. Chosen(c)' /\ letter[c] = NUL /\ Asked(c)' = Asked(c)
    BY <1>1, <1>3, <2>1 DEF TurnInv, Chosen, Asked
  <2>8. /\ pc[c] \in {"idle", "wres", "wfin"} \cup Over
        /\ pc[c] = "idle" => up[c] = <<>>
    BY <1>3, <2>1 DEF DownInv, Answering
  <2>9. UpInv(c)' /\ DownInv(c)' /\ TurnInv(c)'
    <3>1. UpInv(c)'
      BY <1>1, <1>3, <2>1 DEF UpInv, Chosen
    <3>2. DownInv(c)'
      BY <1>1, <2>1, <2>2, <2>5, <2>6, <2>7, <2>8 DEF DownInv
    <3>3. TurnInv(c)'
      BY <2>1, <2>7 DEF TurnInv
    <3> QED BY <3>1, <3>2, <3>3
  <2> QED BY <1>5, <2>3, <2>9
<1>11. CASE GetLetter(c)
  <2>1. /\ cpc[c] = "letter" /\ down[c] # <<>> /\ down' = [down EXCEPT ![c] = Tail(@)]
        /\ cpc' = [cpc EXCEPT ![c] = "gone"] /\ letter' = [letter EXCEPT ![c] = Head(down[c])]
        /\ UNCHANGED <<up, seen, freeindex>>
    BY <1>11 DEF GetLetter, Receive, Turn
  <2>2. down[c] = <<Asked(c)>> /\ freeindex[c] \in Cells /\ Chosen(c)
    BY <1>3, <2>1 DEF DownInv, TurnInv
  <2>3. Head(down[c]) = Asked(c) /\ Asked(c) \in Int
    BY <2>2, One, LetterFacts DEF Asked
  <2>4. cpc'[c] = "gone" /\ letter'[c] = Asked(c) /\ Asked(c)' = Asked(c)
    BY <1>0, <2>1, <2>3 DEF ClntTypes, Asked
  <2>5. ClntTypes' /\ \A d \in Conns \ {c} : Same(d)
    BY <1>0, <1>1, <2>1, <2>3 DEF ClntTypes, Same
  <2>6. Chosen(c)'
    BY <1>1, <2>1, <2>2 DEF Chosen
  <2>7. UpInv(c)' /\ DownInv(c)' /\ TurnInv(c)'
    BY <1>1, <1>3, <2>1, <2>2, <2>4, <2>6 DEF UpInv, DownInv, TurnInv, Chosen
  <2> QED BY <1>5, <2>5, <2>7
<1> QED BY <1>6, <1>7, <1>8, <1>9, <1>10, <1>11 DEF ClientRuns
-----------------------------------------------------------------------------
(* The server's steps.                                                      *)

Untouched(d) == UNCHANGED <<pc[d], arr[d], index[d], rc[d], result[d]>>

\* A child moves itself alone, never frees a cell, and never touches the flag;
\* it signals the parent only after a refusal.
LEMMA ChildAlone ==
  ASSUME TypeOK, NEW c \in Conns, Child(c)
  PROVE  /\ \A d \in Conns \ {c} : Untouched(d)
         /\ BusyStays
         /\ flag' = flag /\ (sigint' = sigint \/ pc[c] = "wfin")
<1> USE DEF TypeOK, Goto, Quiet, shared, locals, parent, aux, Untouched, BusyStays
<1>1. CASE Runs(c)
  <2>1. CASE StartRead(c) \/ EndRead(c) \/ SendArray(c) \/ \E i \in Cells : Copy(c, i)
    BY <2>1 DEF StartRead, EndRead, SendArray, Copy
  <2>2. CASE StartWrite(c) \/ Refuse(c) \/ TestFree(c) \/ EndWrite(c)
    BY <2>2 DEF StartWrite, Refuse, TestFree, EndWrite
  <2>3. CASE Take(c)
    BY <2>3 DEF Take
  <2>4. CASE SendCode(c) \/ SendLetter(c)
    BY <2>4 DEF SendCode, SendLetter, ForgetLocals
  <2>5. CASE StopServer(c)
    BY <2>5 DEF StopServer, Gone, ForgetLocals
  <2> QED BY <1>1, <2>1, <2>2, <2>3, <2>4, <2>5 DEF Runs
<1>2. CASE Outside(c)
  <2>1. CASE ReadType(c) \/ ChildSignal(c) \/ \E i \in Indices : ReadIndex(c, i)
    BY <2>1 DEF ReadType, ChildSignal, ReadIndex
  <2>2. CASE HangUp(c) \/ SendFails(c) \/ SemInterrupted(c) \/ Kill(c)
    BY <2>2 DEF HangUp, SendFails, SemInterrupted, Kill, Gone, ForgetLocals
  <2> QED BY <1>2, <2>1, <2>2 DEF Outside
<1> QED BY <1>1, <1>2 DEF Child

\* So the steps of a child need only be looked at in its own connection.
LEMMA ChildTurn ==
  ASSUME TypeOK, ClntInv, ClntTypes', NEW c \in Conns, Child(c),
         UNCHANGED <<ours, cpc, seen, freeindex, letter>>,
         \A d \in Conns \ {c} : up'[d] = up[d] /\ down'[d] = down[d],
         c \in ours => TurnOf(c)'
  PROVE  ClntInv'
<1>1. /\ \A d \in Conns \ {c} : Untouched(d)
      /\ BusyStays
      /\ flag' = flag /\ (sigint' = sigint \/ pc[c] = "wfin")
  BY ChildAlone
<1>2. \A d \in Conns \ {c} : Same(d)
  BY <1>1 DEF Untouched, Same
<1>3. StoppedOnlyWhenEmpty'
  <2>1. CASE sigint' = sigint
    BY <1>1, <2>1, NotStoppedYet DEF ClntInv
  <2>2. CASE pc[c] = "wfin" /\ c \in ours
    BY <1>1, <2>2 DEF ClntInv, TurnOf, Refused, AllBusy, BusyStays, StoppedOnlyWhenEmpty
  <2>3. CASE c \notin ours
    BY <2>3 DEF StoppedOnlyWhenEmpty
  <2> QED BY <1>1, <2>1, <2>2, <2>3
<1> QED BY <1>1, <1>2, <1>3, OneTurn

\* A child of a client of ours that ends, however it does.
LEMMA GoneTurn ==
  ASSUME TypeOK, ClntInv, NEW c \in ours, Gone(c, "ended") \/ Gone(c, "killed"), pc[c] # "none",
         UNCHANGED <<str, ours, cpc, up, down, seen, freeindex, letter>>
  PROVE  TurnOf(c)'
<1>1. c \in Conns /\ TurnOf(c)
  BY DEF ClntInv, ClntTypes
<1>2. pc'[c] \in Over /\ rc'[c] = OK
  BY <1>1 DEF Gone, ForgetLocals, TypeOK, Over
<1>3. cpc[c] # "out"
  BY <1>1 DEF TurnOf, DownInv
<1>4. Chosen(c) => Chosen(c)'
  BY DEF Chosen
<1>5. UpInv(c)'
  BY <1>2 DEF UpInv, Over, Answering
<1>6. DownInv(c)'
  BY <1>1, <1>2, <1>3 DEF TurnOf, DownInv, Over, Answering, Asked
<1>7. TurnInv(c)' /\ Refused(c)'
  BY <1>1, <1>2, <1>4 DEF TurnOf, TurnInv, Refused, Over, OK, RANGE_ERROR, Asked
<1> QED BY <1>5, <1>6, <1>7 DEF TurnOf

\* An answer is a copy of the array or a number.
LEMMA AnswerType ==
  ASSUME TypeOK, NEW c \in Conns
  PROVE  Answer(c) \in Seq(Copies \cup Int)
<1>1. arr[c] \in Copies /\ rc[c] \in Int
  BY DEF TypeOK, OK, WRITE_BUSY_ERROR, RANGE_ERROR
<1>2. result[c] \in Int
  BY LetterFacts DEF TypeOK, Letters, NUL
<1>3. /\ <<arr[c]>> \in Seq(Copies \cup Int) /\ <<rc[c]>> \in Seq(Copies \cup Int)
      /\ <<result[c]>> \in Seq(Copies \cup Int) /\ <<>> \in Seq(Copies \cup Int)
  BY <1>1, <1>2
<1> QED BY <1>3 DEF Answer

\* A child works on a request and sends its answer.
LEMMA ChildRunsStep ==
  ASSUME Exclusion, CellsInv, ClntInv, NEW c \in Conns, ChildRuns(c)
  PROVE  ClntInv'
<1>0. /\ TypeOK /\ Frame(c) /\ ClntTypes /\ Runs(c) /\ Child(c)
      /\ UNCHANGED <<up, ours, cpc, seen, freeindex, letter>>
  BY DEF Exclusion, CellsInv, Frames, ClntInv, ChildRuns, ClientStays, Child
<1>1. ClntTypes' /\ \A d \in Conns \ {c} : up'[d] = up[d] /\ down'[d] = down[d]
  <2>1. down[c] \o Answer(c) \in Seq(Copies \cup Int)
    BY <1>0, AnswerType, ConcatProperties DEF ClntTypes
  <2> QED BY <1>0, <2>1 DEF ChildRuns, ClntTypes
<1>2. SUFFICES ASSUME c \in ours PROVE TurnOf(c)'
  BY <1>0, <1>1, ChildTurn
<1>3. /\ UpInv(c) /\ DownInv(c) /\ TurnInv(c) /\ Refused(c)
  BY <1>2 DEF ClntInv, TurnOf
<1>4. /\ \A a : Snapshot(a, str) => Snapshot(a, str')
      /\ AllBusy => AllBusy'
      /\ Chosen(c) => Chosen(c)'
      /\ Asked(c)' = Asked(c)
  <2>1. BusyStays
    BY <1>0, ChildAlone
  <2>2. \A a : Snapshot(a, str) => Snapshot(a, str')
    BY <2>1, SnapshotLater DEF BusyStays
  <2> QED BY <1>0, <2>1, <2>2 DEF BusyStays, AllBusy, Chosen, Asked
<1>5. TurnInv(c)'
  BY <1>0, <1>3, <1>4 DEF TurnInv
<1>6. /\ cpc[c] = "gone" => down'[c] = down[c]
      /\ cpc[c] # "gone" => down'[c] = down[c] \o Answer(c)
  BY <1>0, <1>2 DEF ChildRuns, ClntTypes
<1>7. (cpc[c] # "gone" => DownInv(c)') => DownInv(c)'
  BY <1>0 DEF DownInv
<1> USE DEF Goto
<1>8. CASE StartRead(c) \/ EndRead(c) \/ \E i \in Cells : Copy(c, i)
  <2>1. /\ pc[c] \in {"rstart", "copy"} /\ pc'[c] \in {"copy", "rsend"} /\ rc' = rc
        /\ Answer(c) = <<>>
    BY <1>0, <1>8 DEF StartRead, EndRead, Copy, TypeOK, locals, Answer
  <2>2. pc'[c] = "rsend" => Snapshot(arr'[c], str')
    <3>1. CASE EndRead(c)
      <4>1. DOMAIN arr[c] = Cells /\ arr[c] \in Copies /\ arr' = arr /\ str' = str /\ pc[c] = "copy"
        BY <1>0, <3>1 DEF EndRead, TypeOK, locals
      <4>2. arr[c] \in [Cells -> Contents]
        BY <4>1 DEF Copies
      <4>3. \A i \in Cells : arr[c][i] = str[i] /\ str[i] \in {ARRAY_ELEMENT_BUSY, Letter(i)}
        BY <4>1 DEF CellsInv, SnapshotConsistent, LettersInPlace
      <4> QED BY <4>1, <4>2, <4>3 DEF Snapshot
    <3>2. CASE ~ EndRead(c)
      BY <1>0, <1>8, <3>2 DEF StartRead, Copy, TypeOK
    <3> QED BY <3>1, <3>2
  <2>3. up[c] = <<>> /\ (cpc[c] # "gone" => cpc[c] = "array" /\ down[c] = <<>>)
    BY <1>0, <1>3, <2>1 DEF UpInv, DownInv, Answering, Over, ClntTypes
  <2>4. cpc[c] # "gone" => down'[c] = <<>>
    BY <1>6, <2>1, <2>3
  <2>5. UpInv(c)'
    BY <1>0, <2>1, <2>2, <2>3 DEF UpInv, Answering
  <2>6. DownInv(c)'
    BY <1>0, <1>7, <2>1, <2>3, <2>4 DEF DownInv
  <2>7. Refused(c)'
    BY <1>3, <1>4, <2>1 DEF Refused
  <2> QED BY <1>5, <2>5, <2>6, <2>7 DEF TurnOf
<1>9. CASE SendArray(c)
  <2>1. pc[c] = "rsend" /\ pc'[c] = "idle" /\ rc' = rc /\ str' = str /\ Answer(c) = <<arr[c]>>
    BY <1>0, <1>9 DEF SendArray, TypeOK, shared, Answer
  <2>2. /\ up[c] = <<>> /\ Snapshot(arr[c], str) /\ arr[c] \in [Cells -> Contents]
        /\ cpc[c] # "gone" => cpc[c] = "array" /\ down[c] = <<>>
    BY <1>0, <1>3, <2>1 DEF UpInv, DownInv, Answering, Over, ClntTypes, Snapshot
  <2>3. cpc[c] # "gone" => down'[c] = <<arr[c]>>
    BY <1>6, <2>1, <2>2, One
  <2>4. UpInv(c)'
    BY <1>0, <2>1, <2>2 DEF UpInv, Answering
  <2>5. DownInv(c)'
    BY <1>0, <1>7, <2>1, <2>2, <2>3 DEF DownInv
  <2>6. Refused(c)'
    BY <1>3, <1>4, <2>1 DEF Refused
  <2> QED BY <1>5, <2>4, <2>5, <2>6 DEF TurnOf
<1>10. CASE StartWrite(c) \/ Refuse(c) \/ TestFree(c) \/ Take(c) \/ EndWrite(c)
  <2>1. /\ pc[c] \in {"wstart", "wtest", "wtake", "wend"}
        /\ pc'[c] \in {"wtest", "wtake", "wend", "wrc"} /\ index' = index
        /\ Answer(c) = <<>>
    BY <1>0, <1>10 DEF StartWrite, Refuse, TestFree, Take, EndWrite, TypeOK, locals, Answer
  <2>2. /\ up[c] = <<>> /\ index[c] = freeindex[c] /\ Chosen(c)
        /\ cpc[c] # "gone" => cpc[c] = "code" /\ down[c] = <<>>
    BY <1>0, <1>3, <2>1 DEF UpInv, DownInv, Answering, Over, ClntTypes
  <2>3. cpc[c] # "gone" => down'[c] = <<>>
    BY <1>6, <2>1, <2>2
  <2>4. UpInv(c)'
    BY <1>0, <1>4, <2>1, <2>2 DEF UpInv, Answering
  <2>5. DownInv(c)'
    BY <1>0, <1>7, <2>1, <2>2, <2>3 DEF DownInv, Answering
  <2>6. Refused(c)'
    <3>1. CASE rc'[c] = rc[c]
      BY <1>3, <1>4, <2>1, <3>1 DEF Refused
    <3>2. CASE Refuse(c)
      <4>1. CASE index[c] \in Cells
        BY <1>0, <2>1, <3>2, <4>1 DEF Refuse, TypeOK, Refused, WRITE_BUSY_ERROR, RANGE_ERROR
      <4>2. CASE index[c] \notin Cells
        <5>1. \A i \in Cells : seen[c][i] = ARRAY_ELEMENT_BUSY
          BY <2>2, <4>2, FirstFreeChoice DEF Chosen
        <5>2. AllBusy
          BY <2>2, <5>1 DEF Chosen, Snapshot, AllBusy
        <5> QED BY <1>4, <5>2 DEF Refused
      <4> QED BY <4>1, <4>2
    <3> QED BY <1>0, <1>10, <3>1, <3>2 DEF StartWrite, TestFree, Take, EndWrite, locals
  <2> QED BY <1>5, <2>4, <2>5, <2>6 DEF TurnOf
<1>11. CASE SendCode(c)
  <2>1. /\ pc[c] = "wrc" /\ Answer(c) = <<rc[c]>> /\ str' = str
        /\ \/ /\ pc'[c] = "wres" /\ result[c] # NUL /\ rc' = rc /\ index' = index
           \/ /\ pc'[c] = "wfin" /\ rc[c] = RANGE_ERROR /\ rc' = rc /\ index' = index
           \/ /\ pc'[c] = "idle" /\ rc'[c] = OK
    <3>1. \/ pc'[c] = "wres" /\ result[c] # NUL
          \/ pc'[c] = "wfin" /\ rc[c] = RANGE_ERROR
          \/ pc'[c] = "idle"
      BY <1>0, <1>11 DEF SendCode, TypeOK
    <3>2. pc'[c] # "idle" => rc' = rc /\ index' = index
      BY <1>11 DEF SendCode, locals
    <3>3. pc'[c] = "idle" => rc'[c] = OK
      BY <1>0, <1>11 DEF SendCode, ForgetLocals, TypeOK
    <3>4. pc[c] = "wrc" /\ str' = str
      BY <1>11 DEF SendCode, shared
    <3> QED BY <3>1, <3>2, <3>3, <3>4 DEF Answer
  <2>2. /\ up[c] = <<>> /\ index[c] = freeindex[c] /\ Chosen(c)
        /\ cpc[c] # "gone" => cpc[c] = "code" /\ down[c] = <<>>
    BY <1>0, <1>3, <2>1 DEF UpInv, DownInv, Answering, Over, ClntTypes
  <2>3. cpc[c] # "gone" => down'[c] = <<rc[c]>> /\ down'[c] # <<>>
    BY <1>6, <2>1, <2>2, One
  <2>4. rc[c] \in {OK, WRITE_BUSY_ERROR, RANGE_ERROR} /\ (pc'[c] = "wres" => rc[c] = OK)
    BY <1>0, <2>1 DEF TypeOK, Frame
  <2>5. UpInv(c)'
    BY <1>0, <1>4, <2>1, <2>2 DEF UpInv, Answering
  <2>6. DownInv(c)'
    <3>1. <<>> # <<READ>>
      BY One
    <3> QED BY <1>0, <1>7, <2>1, <2>2, <2>3, <2>4, <3>1 DEF DownInv, Answering
  <2>7. Refused(c)'
    BY <1>3, <1>4, <2>1 DEF Refused, OK, RANGE_ERROR
  <2> QED BY <1>5, <2>5, <2>6, <2>7 DEF TurnOf
<1>12. CASE SendLetter(c)
  <2>1. pc[c] = "wres" /\ pc'[c] = "idle" /\ rc'[c] = OK /\ Answer(c) = <<result[c]>>
    BY <1>0, <1>12 DEF SendLetter, ForgetLocals, TypeOK, Answer
  <2>2. /\ up[c] = <<>> /\ index[c] = freeindex[c]
        /\ result[c] = Asked(c) /\ freeindex[c] \in Cells
        /\ cpc[c] # "gone" => \/ cpc[c] = "code" /\ down[c] = <<OK>>
                              \/ cpc[c] = "letter" /\ down[c] = <<>>
    BY <1>0, <1>3, <2>1 DEF UpInv, DownInv, Answering, Over, ClntTypes, Frame, Asked
  <2>3. cpc[c] # "gone" => \/ cpc[c] = "code" /\ down'[c] = <<OK, Asked(c)>> /\ down'[c] # <<>>
                           \/ cpc[c] = "letter" /\ down'[c] = <<Asked(c)>>
    <3>1. CASE cpc[c] = "code" /\ down[c] = <<OK>>
      <4>1. down'[c] = <<OK>> \o <<Asked(c)>>
        BY <1>6, <2>1, <2>2, <3>1
      <4> HIDE DEF OK, Asked
      <4> QED BY <3>1, <4>1, Two
    <3>2. CASE cpc[c] = "letter" /\ down[c] = <<>>
      <4>1. down'[c] = <<>> \o <<Asked(c)>>
        BY <1>6, <2>1, <2>2, <3>2
      <4> QED BY <3>2, <4>1, One
    <3> QED BY <2>2, <3>1, <3>2
  <2>4. UpInv(c)'
    BY <1>0, <2>1, <2>2 DEF UpInv, Answering
  <2>5. DownInv(c)'
    <3>1. <<>> # <<READ>>
      BY One
    <3> QED BY <1>0, <1>4, <1>7, <2>1, <2>2, <2>3, <3>1 DEF DownInv, Answering
  <2>6. Refused(c)'
    BY <2>1 DEF Refused, OK, RANGE_ERROR
  <2> QED BY <1>5, <2>4, <2>5, <2>6 DEF TurnOf
<1>13. CASE StopServer(c)
  <2>1. pc[c] = "wfin" /\ pc'[c] = "ended" /\ rc'[c] = OK /\ Answer(c) = <<>>
    BY <1>0, <1>13 DEF StopServer, Gone, ForgetLocals, TypeOK, Answer
  <2>2. cpc[c] # "gone" => down'[c] = down[c]
    BY <1>0, <1>6, <2>1, ConcatEmptySeq DEF ClntTypes
  <2>3. cpc[c] \notin {"out", "array", "choose"}
    BY <1>3, <2>1 DEF DownInv, Over
  <2>4. UpInv(c)'
    BY <2>1 DEF UpInv, Answering
  <2>5. DownInv(c)'
    BY <1>0, <1>3, <1>4, <1>7, <2>1, <2>2, <2>3 DEF DownInv, Answering, Over
  <2>6. Refused(c)'
    BY <2>1 DEF Refused, OK, RANGE_ERROR
  <2> QED BY <1>5, <2>4, <2>5, <2>6 DEF TurnOf
<1> QED BY <1>0, <1>8, <1>9, <1>10, <1>11, <1>12, <1>13 DEF Runs

\* A child takes its client's message.
LEMMA ChildReadsStep ==
  ASSUME TypeOK, ClntInv, NEW c \in Conns, ChildReads(c)
  PROVE  ClntInv'
<1>0. /\ ClntTypes /\ Child(c) /\ c \in ours
      /\ UNCHANGED <<down, ours, cpc, seen, freeindex, letter>>
      /\ UpInv(c) /\ DownInv(c) /\ TurnInv(c) /\ Refused(c)
  BY DEF ClntInv, TurnOf, ChildReads, ClientStays, Child, Outside
<1> USE DEF Goto, Quiet
<1>1. CASE HangUp(c) /\ cpc[c] = "gone" /\ UNCHANGED up
  <2>1. Gone(c, "ended") /\ pc[c] # "none" /\ str' = str
    BY <1>1 DEF HangUp, shared
  <2>2. TurnOf(c)' /\ ClntTypes'
    BY <1>0, <1>1, <2>1, GoneTurn DEF ClntTypes
  <2> QED BY <1>0, <1>1, <2>2, ChildTurn
<1>2. ASSUME up[c] # <<>>, up' = [up EXCEPT ![c] = Tail(@)], str' = str, UpInv(c)', DownInv(c)',
             rc' = rc, pc'[c] # "wfin"
      PROVE  ClntInv'
  <2>1. ClntTypes' /\ \A d \in Conns \ {c} : up'[d] = up[d]
    <3>1. Tail(up[c]) \in Seq(Int)
      BY <1>0, <1>2, HeadTailProperties DEF ClntTypes
    <3> QED BY <1>0, <1>2, <3>1 DEF ClntTypes
  <2>2. TurnInv(c)' /\ Refused(c)'
    BY <1>0, <1>2 DEF TurnInv, Chosen, Asked, Refused, AllBusy
  <2> QED BY <1>0, <1>2, <2>1, <2>2, ChildTurn DEF TurnOf
<1>3. CASE /\ ReadType(c) /\ pc'[c] = IF Head(up[c]) = READ THEN "rstart" ELSE "windex"
           /\ up[c] # <<>> /\ up' = [up EXCEPT ![c] = Tail(@)]
  <2>1. pc[c] = "idle" /\ str' = str /\ rc' = rc /\ up'[c] = Tail(up[c])
    BY <1>0, <1>3 DEF ReadType, shared, locals, ClntTypes
  <2>2. CASE up[c] = <<READ>>
    <3>1. pc'[c] = "rstart" /\ up'[c] = <<>>
      BY <1>3, <2>1, <2>2, One
    <3>2. cpc[c] \in {"array", "gone"} /\ (cpc[c] = "array" => down[c] = <<>>)
      BY <1>0, <2>1, <2>2, <1>3 DEF DownInv, ClntTypes
    <3>3. UpInv(c)' /\ DownInv(c)'
      BY <1>0, <3>1, <3>2 DEF UpInv, DownInv, Answering
    <3> QED BY <1>2, <1>3, <2>1, <3>1, <3>3
  <2>3. CASE up[c] = <<WRITE, freeindex[c]>> /\ Chosen(c)
    <3>1. pc'[c] = "windex" /\ up'[c] = <<freeindex[c]>>
      BY <1>3, <2>1, <2>3, Two DEF READ, WRITE
    <3>2. up[c] # <<READ>> /\ up[c] # <<>>
      BY <2>3, One, Two DEF READ, WRITE
    <3>3. cpc[c] \in {"code", "gone"} /\ (cpc[c] = "code" => down[c] = <<>>)
      BY <1>0, <2>1, <3>2 DEF DownInv, ClntTypes
    <3>4. UpInv(c)' /\ DownInv(c)'
      BY <1>0, <2>1, <2>3, <3>1, <3>3 DEF UpInv, DownInv, Answering, Chosen
    <3> QED BY <1>2, <1>3, <2>1, <3>1, <3>4
  <2> QED BY <1>0, <1>3, <2>1, <2>2, <2>3 DEF UpInv
<1>4. ASSUME NEW i \in Indices, i = Head(up[c]), ReadIndex(c, i),
             up[c] # <<>>, up' = [up EXCEPT ![c] = Tail(@)]
      PROVE  ClntInv'
  <2>1. /\ pc[c] = "windex" /\ pc'[c] = "wstart" /\ str' = str /\ rc' = rc
        /\ index'[c] = i /\ up'[c] = Tail(up[c])
    BY <1>0, <1>4 DEF ReadIndex, shared, TypeOK, ClntTypes
  <2>2. up'[c] = <<>> /\ i = freeindex[c] /\ Chosen(c)
    BY <1>0, <1>4, <2>1, One DEF UpInv
  <2>3. cpc[c] \in {"code", "gone"} /\ (cpc[c] = "code" => down[c] = <<>>)
    BY <1>0, <2>1 DEF DownInv, ClntTypes, Over
  <2>4. UpInv(c)' /\ DownInv(c)'
    BY <1>0, <2>1, <2>2, <2>3 DEF UpInv, DownInv, Answering, Chosen
  <2> QED BY <1>2, <1>4, <2>1, <2>4
<1> QED BY <1>1, <1>3, <1>4 DEF ChildReads

\* What else becomes of a child: a signal, a client that has gone.
LEMMA ChildMeetsStep ==
  ASSUME TypeOK, ClntInv, NEW c \in Conns, ChildMeets(c)
  PROVE  ClntInv'
<1>0. /\ ClntTypes' /\ Child(c) /\ UNCHANGED <<up, down, ours, cpc, seen, freeindex, letter>>
  BY DEF ClntInv, ClntTypes, ChildMeets, ClientStays, Child, Outside
<1>1. SUFFICES ASSUME c \in ours PROVE TurnOf(c)'
  BY <1>0, ChildTurn
<1>2. CASE ChildSignal(c)
  <2>1. Same(c) /\ BusyStays
    BY <1>0, <1>2 DEF Same, BusyStays, ChildSignal, shared, locals
  <2> QED BY <1>1, <2>1, OthersTurn DEF ClntInv
<1>3. CASE HangUp(c) \/ SendFails(c) \/ SemInterrupted(c) \/ Kill(c)
  <2>1. /\ Gone(c, "ended") \/ Gone(c, "killed")
        /\ pc[c] # "none" /\ str' = str
    BY <1>3 DEF HangUp, SendFails, SemInterrupted, Kill, Alive, shared
  <2> QED BY <1>0, <1>1, <2>1, GoneTurn
<1> QED BY <1>1, <1>2, <1>3 DEF ChildMeets

\* A connection is accepted and a child forked for it.
LEMMA AcceptStep ==
  ASSUME TypeOK, ClntInv, NEW c \in Conns, AcceptClient(c)
  PROVE  ClntInv'
<1>0. /\ ClntTypes' /\ pc[c] = "none" /\ pc'[c] = "accepted" /\ (c \in ours => up[c] # <<>>)
      /\ UNCHANGED <<str, rc, flag, sigint, ours, cpc, up, down, seen, freeindex, letter>>
  BY DEF TypeOK, ClntInv, ClntTypes, AcceptClient, Accept, shared, locals, client
<1>1. BusyStays /\ \A d \in Conns \ {c} : Same(d)
  BY <1>0 DEF TypeOK, BusyStays, Same, AcceptClient, Accept, locals
<1>2. StoppedOnlyWhenEmpty'
  BY <1>0, <1>1, NotStoppedYet DEF ClntInv
<1>3. ASSUME c \in ours PROVE TurnOf(c)'
  <2>1. TurnOf(c) /\ cpc[c] \in {"array", "gone"} /\ up[c] = <<READ>>
    BY <1>0, <1>3 DEF ClntInv, TurnOf, DownInv, UpInv, ClntTypes, Over, Answering
  <2>2. UpInv(c)' /\ DownInv(c)'
    BY <1>0, <2>1 DEF TurnOf, UpInv, DownInv, Over, Answering
  <2>3. TurnInv(c)' /\ Refused(c)'
    BY <1>0, <2>1 DEF TurnOf, TurnInv, Refused, AllBusy, Chosen, Asked
  <2> QED BY <2>2, <2>3 DEF TurnOf
<1> QED BY <1>0, <1>1, <1>2, <1>3, OneTurn

\* fork gives the connection a child, or ends everything.
LEMMA ForkStep ==
  ASSUME TypeOK, ClntInv, NEW c \in Conns, Fork(c) \/ ForkFails(c), UNCHANGED client
  PROVE  ClntInv'
<1>0. /\ ClntTypes' /\ pc[c] = "accepted" /\ pc'[c] \in {"idle", "refused"}
      /\ UNCHANGED <<str, rc, flag, ours, cpc, up, down, seen, freeindex, letter>>
      /\ sigint' => sigint
  BY DEF TypeOK, ClntInv, ClntTypes, Fork, ForkFails, MainExit, Goto, shared, locals, client
<1>1. BusyStays /\ \A d \in Conns \ {c} : Same(d)
  BY <1>0 DEF TypeOK, BusyStays, Same, Fork, ForkFails, Goto, locals
<1>2. StoppedOnlyWhenEmpty'
  BY <1>0 DEF ClntInv, StoppedOnlyWhenEmpty
<1>3. ASSUME c \in ours PROVE TurnOf(c)'
  <2>1. /\ TurnOf(c) /\ cpc[c] \in {"array", "gone"} /\ up[c] \in {<<>>, <<READ>>}
        /\ cpc[c] = "array" => up[c] = <<READ>> /\ down[c] = <<>>
    BY <1>0, <1>3 DEF ClntInv, TurnOf, DownInv, UpInv, ClntTypes, Over, Answering
  <2>2. UpInv(c)' /\ DownInv(c)'
    BY <1>0, <2>1 DEF TurnOf, UpInv, DownInv, Over, Answering
  <2>3. TurnInv(c)' /\ Refused(c)'
    BY <1>0, <2>1 DEF TurnOf, TurnInv, Refused, AllBusy, Chosen, Asked
  <2> QED BY <2>2, <2>3 DEF TurnOf
<1> QED BY <1>0, <1>1, <1>2, <1>3, OneTurn

\* The parent and the terminal otherwise leave every connection as it is.
LEMMA ParentStep ==
  ASSUME TypeOK, ClntInv, ParentRuns \/ UNCHANGED allvars
  PROVE  ClntInv'
<1>1. ASSUME NEW c \in Conns, Fork(c) \/ ForkFails(c), UNCHANGED client PROVE ClntInv'
  BY <1>1, ForkStep
<1>2. CASE \/ UNCHANGED allvars
           \/ (Test \/ AcceptFails \/ AcceptInterrupted \/ SignalHandler \/ CtrlC) /\ UNCHANGED client
  <2>1. UNCHANGED <<str, pc, locals, client>>
    BY <1>2 DEF Test, AcceptFails, AcceptInterrupted, SignalHandler, CtrlC, shared, locals,
       client, allvars, vars
  <2>2. ours' = ours /\ BusyStays /\ ClntTypes' /\ \A d \in Conns : Same(d)
    BY <2>1 DEF BusyStays, Same, locals, client, ClntInv, ClntTypes
  <2>3. \A d \in ours : TurnOf(d)'
    BY <2>2, OthersTurn DEF ClntInv, ClntTypes
  <2>4. ~ Terminal /\ (sigint' \/ ~ flag') => sigint \/ ~ flag
    BY <1>2 DEF Test, AcceptFails, AcceptInterrupted, SignalHandler, CtrlC, MainExit,
       allvars, vars, parent, TypeOK
  <2>5. StoppedOnlyWhenEmpty'
    BY <2>1, <2>2, <2>4 DEF ClntInv, StoppedOnlyWhenEmpty
  <2> QED BY <2>2, <2>3, <2>5 DEF ClntInv
<1> QED BY <1>1, <1>2 DEF ParentRuns
-----------------------------------------------------------------------------
(* The invariant and what it says of the client.                            *)

\* ClntInv is inductive for the server among its clients.
LEMMA ClntNextInv ==
  Exclusion /\ CellsInv /\ ClntInv /\ [ClntNext]_allvars => ClntInv'
<1> SUFFICES ASSUME Exclusion, CellsInv, ClntInv, [ClntNext]_allvars PROVE ClntInv'
  OBVIOUS
<1>0. TypeOK
  BY DEF Exclusion
<1>1. CASE ParentRuns \/ UNCHANGED allvars
  BY <1>0, <1>1, ParentStep
<1>2. ASSUME NEW c \in Conns, AcceptClient(c) PROVE ClntInv'
  BY <1>0, <1>2, AcceptStep
<1>3. ASSUME NEW c \in Conns, ChildRuns(c) PROVE ClntInv'
  BY <1>3, ChildRunsStep
<1>4. ASSUME NEW c \in Conns, ChildReads(c) PROVE ClntInv'
  BY <1>0, <1>4, ChildReadsStep
<1>5. ASSUME NEW c \in Conns, ChildMeets(c) PROVE ClntInv'
  BY <1>0, <1>5, ChildMeetsStep
<1>6. ASSUME NEW c \in Conns, Connect(c) \/ ClientRuns(c) \/ Leave(c) PROVE ClntInv'
  BY <1>0, <1>6, ClientStep
<1> QED BY <1>1, <1>2, <1>3, <1>4, <1>5, <1>6 DEF ClntNext

\* ClntInv holds in every reachable state.
LEMMA ClntAlways == ClntSpec => []ClntInv
<1>1. ClntSpec => [](Exclusion /\ CellsInv)
  BY ServerAmongClients, ExclusionAlways, CellsAlways, PTL
<1> QED BY <1>1, ClntInitInv, ClntNextInv, PTL DEF ClntSpec

\* The letter that a client gets is the one it saw, however many took letters
\* between its two requests, and it never takes a code for a letter or a letter
\* for a code (the reads of clnt.c).
THEOREM LettersAsSeen == ClntSpec => []LetterAsSeen
<1>1. ClntInv => LetterAsSeen
  <2> SUFFICES ASSUME ClntInv, NEW c \in ours
               PROVE  /\ letter[c] # NUL => letter[c] = seen[c][freeindex[c]]
                      /\ down[c] # <<>> =>
                           /\ cpc[c] = "code" => Head(down[c]) \in {OK, WRITE_BUSY_ERROR, RANGE_ERROR}
                           /\ cpc[c] = "letter" => Head(down[c]) = seen[c][freeindex[c]]
    BY DEF LetterAsSeen
  <2>1. UpInv(c) /\ DownInv(c) /\ TurnInv(c)
    BY DEF ClntInv, TurnOf
  <2>2. Chosen(c) /\ freeindex[c] \in Cells => seen[c][freeindex[c]] = Asked(c)
    <3>1. -1 \notin Cells
      BY ConstantsAssumption DEF Cells
    <3> QED BY <3>1, FirstFreeChoice DEF Chosen, Snapshot, Asked
  <2>3. letter[c] # NUL => letter[c] = seen[c][freeindex[c]]
    BY <2>1, <2>2 DEF TurnInv
  <2>4. ASSUME down[c] # <<>>, cpc[c] = "code"
        PROVE  Head(down[c]) \in {OK, WRITE_BUSY_ERROR, RANGE_ERROR}
    BY <2>1, <2>4, One, Two DEF DownInv
  <2>5. ASSUME down[c] # <<>>, cpc[c] = "letter"
        PROVE  Head(down[c]) = seen[c][freeindex[c]]
    BY <2>1, <2>2, <2>5, One DEF DownInv, TurnInv
  <2> QED BY <2>3, <2>4, <2>5
<1> QED BY <1>1, ClntAlways, PTL

\* When clnt.c alone speaks to the server, the server stops only after the last
\* letter was taken (the exit of writer in fork_serv.c, which an index out of
\* range brings about).
THEOREM StopMeansEmpty == ClntSpec => []StoppedOnlyWhenEmpty
<1>1. ClntInv => StoppedOnlyWhenEmpty
  BY DEF ClntInv
<1> QED BY <1>1, ClntAlways, PTL
=============================================================================
