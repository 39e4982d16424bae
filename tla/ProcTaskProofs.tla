--------------------------- MODULE ProcTaskProofs ---------------------------
(* Proofs about ProcTask, for every set of users and of processes and every *)
(* size of the array: who owns the entries in /proc, what a crash comes from*)
(* and that a reader of a list skips and repeats nothing.                    *)
EXTENDS ProcTask, SequenceTheorems, TLAPS

Numbers == Pids \cup {Unset}
Text == Numbers \X BOOLEAN
Places == {"out", "dir", "file", "in", "unlinked", "rmdir"}
Doing == {"idle", "done", "store", "loop", "lookup", "print", "lookup07", "fields",
          "first", "second", "copy"}
Calls == [at : Doing, pid : Numbers, pos : Nat, left : SUBSET {"count", "pid"},
          text : Text, shown : Seq(Text), again : BOOLEAN, lone : BOOLEAN]

EntryType ==
    /\ at \in [Modules -> Places]
    /\ dir \in Modules \cup {None} /\ file \in Modules \cup {None}
    /\ links \subseteq Modules

(* What an entry has to do with the place its module has come to. *)
EntryInv ==
    /\ EntryType
    /\ \A m \in Modules : at[m] \in {"dir", "rmdir"} => file = None
    /\ \A m \in Modules : at[m] \in {"file", "in", "unlinked"} => file = m
    /\ EntriesOwned

DataType ==
    /\ pid \in Numbers /\ output_buf \in [1 .. 2 -> Text]
    /\ pids \in [0 .. Size - 1 -> Numbers] /\ pid_count \in Nat
    /\ call \in [Users -> Calls]
    /\ alive \subseteq Pids
    /\ written \in Seq(Pids) /\ clean \in BOOLEAN

(* Counts and positions stay below the number of writes, and what has been   *)
(* looked up tells of a process that lived then.                             *)
CallInv ==
    /\ DataType
    /\ file = None => \A u \in Users : Resting(u) /\ call[u].shown = <<>>
    /\ pid_count <= Len(written)
    /\ \A u \in Users :
         /\ call[u].at \in {"store", "lookup", "print"} => call[u].pos < Len(written)
         /\ call[u].at \in {"print", "fields"} =>
              IF Found(u) THEN call[u].pid \in Pids
              ELSE call[u].pid = Unset \/ alive # Pids

CrashInv == EntryInv /\ CallInv /\ CrashHasCause

----------------------------------------------------------------------------
\* EntryInv is inductive.
LEMMA EntryStep ==
    ASSUME EntryInv, [Next]_vars
    PROVE  EntryInv'
<1> USE DEF EntryInv, EntryType, EntriesOwned, Modules, Lists, None, Places
<1>1. ASSUME UNCHANGED entries
      PROVE  EntryInv'
  BY <1>1 DEF entries
<1>2. ASSUME NEW m \in Modules, Mkdir(m)
      PROVE  EntryInv'
  BY <1>2 DEF Mkdir, Load
<1>3. ASSUME NEW m \in Modules, Create(m)
      PROVE  EntryInv'
  BY <1>3 DEF Create, Load
<1>4. ASSUME NEW m \in Modules, Symlink(m)
      PROVE  EntryInv'
  BY <1>4 DEF Symlink, Load
<1>5. ASSUME NEW m \in Modules, InitFails(m)
      PROVE  EntryInv'
  BY <1>5 DEF InitFails, Load
<1>6. ASSUME NEW m \in Modules, Unlink(m)
      PROVE  EntryInv'
  BY <1>6 DEF Unlink, Load
<1>7. ASSUME NEW m \in Modules, RemoveFile(m)
      PROVE  EntryInv'
  BY <1>7 DEF RemoveFile, Load
<1>8. ASSUME NEW m \in Modules, Rmdir(m)
      PROVE  EntryInv'
  BY <1>8 DEF Rmdir, Load
<1>9. ASSUME NEW u \in Users, User(u)
      PROVE  UNCHANGED entries
  BY <1>9 DEF User, WritePid, LoadCount, Stored, StoreCount, StorePid, Overrun, Open, More,
     NoMore, Repeat, Lookup, Show, ShowFaults, Reader07, Read07, Lookup07, Fields07,
     FieldsFault07, Format, Copy07, Begin, Step, Break
<1>10. ASSUME NEW p \in Pids, Die(p)
       PROVE  UNCHANGED entries
  BY <1>10 DEF Die
<1>11. Dangling => UNCHANGED entries
  BY DEF Dangling, Break
<1>12. UNCHANGED vars => UNCHANGED entries
  BY DEF vars
<1> QED
  BY <1>1, <1>2, <1>3, <1>4, <1>5, <1>6, <1>7, <1>8, <1>9, <1>10, <1>11, <1>12
     DEF Next, module_init, module_exit

\* The two lines of output_buf are a sequence.
LEMMA PairIsSeq == [1 .. 2 -> Text] \subseteq Seq(Text)
  BY SeqDef

\* A user who calls nothing has a call that is idle.
LEMMA IdleIsCall ==
    /\ NoText \in Text /\ Idle \in Calls
    /\ Idle.at = "idle" /\ Idle.shown = <<>>
<1>1. NoText \in Text
  BY DEF NoText, Text, Numbers
<1>2. <<>> \in Seq(Text)
  OBVIOUS
<1>3. Unset \in Numbers /\ {} \in SUBSET {"count", "pid"}
  BY DEF Numbers
<1>4. "idle" \in Doing
  BY DEF Doing
<1>5. Idle \in Calls
  BY <1>1, <1>2, <1>3, <1>4 DEF Idle, Calls
<1> QED
  BY <1>1, <1>5 DEF Idle

\* No module is loaded and nobody calls.
LEMMA InitHolds == Init => CrashInv
<1> SUFFICES ASSUME Init
             PROVE  CrashInv
  OBVIOUS
<1>1. EntryInv
  BY DEF Init, EntryInv, EntryType, EntriesOwned, Modules, Lists, Places, None
<1>3. DataType
  BY IdleIsCall DEF Init, DataType, Numbers
<1>4. CallInv
  BY IdleIsCall, <1>3 DEF Init, CallInv, Resting
<1>5. CrashHasCause
  BY DEF Init, CrashHasCause
<1> QED
  BY <1>1, <1>4, <1>5 DEF CrashInv

(* The steps of loading and unloading. *)
LEMMA EntryCallStep ==
    ASSUME EntryInv, CallInv, module_init \/ module_exit
    PROVE  CallInv'
<1> USE DEF CallInv, DataType, Resting, Found
<1>1. ASSUME NEW m \in Modules, Mkdir(m)
      PROVE  CallInv'
  <2>1. file = None /\ UNCHANGED <<file, call, alive>>
    BY <1>1 DEF Mkdir, Load, EntryInv, EntryType, EntriesOwned
  <2>2. DataType'
    BY IdleIsCall, <1>1, <2>1 DEF Mkdir, Numbers
  <2>3. pid_count' = 0 /\ written' = <<>>
    BY <1>1 DEF Mkdir
  <2>4. \A u \in Users : call'[u].at \in {"idle", "done"}
    BY <2>1
  <2> QED
    BY <2>1, <2>2, <2>3, <2>4
<1>2. ASSUME NEW m \in Modules, Create(m) \/ Symlink(m) \/ InitFails(m) \/ Unlink(m) \/ Rmdir(m)
      PROVE  CallInv'
  <2>1. UNCHANGED <<data, call, history, alive>>
    BY <1>2 DEF Create, Symlink, InitFails, Unlink, Rmdir, Load
  <2>2. file' = None => file = None
    BY <1>2 DEF Create, Symlink, InitFails, Unlink, Rmdir, Modules, Lists, None
  <2> QED
    BY <2>1, <2>2 DEF data, history
<1>3. ASSUME NEW m \in Modules, RemoveFile(m)
      PROVE  CallInv'
  <2>1. call' = [u \in Users |-> Idle] /\ UNCHANGED <<data, history, alive>>
    BY <1>3 DEF RemoveFile, Load
  <2>2. DataType'
    BY IdleIsCall, <2>1 DEF data, history
  <2> QED
    BY IdleIsCall, <2>1, <2>2 DEF data, history
<1> QED
  BY <1>1, <1>2, <1>3 DEF module_init, module_exit

----------------------------------------------------------------------------
(* The steps of a user.  Nothing depends on lone but ExactWhenUndisturbed.   *)
Same(c, d) ==
    /\ c.at = d.at /\ c.pid = d.pid /\ c.pos = d.pos /\ c.left = d.left
    /\ c.text = d.text /\ c.shown = d.shown

Moved(u, new) ==
    /\ call' \in [Users -> Calls]
    /\ Same(call'[u], new)
    /\ \A v \in Users \ {u} : Same(call'[v], call[v])
    /\ UNCHANGED <<entries, alive, broken>>
    /\ file # None

\* A user begins a call.
LEMMA BeginMoves ==
    ASSUME CallInv, NEW u \in Users, NEW new \in Calls, Begin(u, new)
    PROVE  Moved(u, new)
<1>1. \A b \in BOOLEAN : [new EXCEPT !.lone = b] \in Calls
  BY DEF Calls
<1>2. \A b \in BOOLEAN : Same([new EXCEPT !.lone = b], new)
  BY DEF Calls, Same
<1>3. \A v \in Users : [call[v] EXCEPT !.lone = FALSE] \in Calls
  BY DEF CallInv, DataType, Calls
<1>4. \A v \in Users : Same([call[v] EXCEPT !.lone = FALSE], call[v])
  BY DEF CallInv, DataType, Calls, Same
<1>5. PICK b \in BOOLEAN : call' = [v \in Users |->
                  IF v = u THEN [new EXCEPT !.lone = b] ELSE [call[v] EXCEPT !.lone = FALSE]]
  BY DEF Begin
<1>6. call' \in [Users -> Calls]
  BY <1>1, <1>3, <1>5
<1>7. call'[u] = [new EXCEPT !.lone = b]
  BY <1>5
<1>8. \A v \in Users \ {u} : call'[v] = [call[v] EXCEPT !.lone = FALSE]
  BY <1>5
<1>9. Same(call'[u], new) /\ \A v \in Users \ {u} : Same(call'[v], call[v])
  BY <1>2, <1>4, <1>7, <1>8
<1> QED
  BY <1>6, <1>9 DEF Moved, Begin, Lives

\* A user goes on with a call.
LEMMA StepMoves ==
    ASSUME CallInv, NEW u \in Users, NEW new \in Calls, NEW from, Step(u, from, new)
    PROVE  Moved(u, new)
  BY DEF CallInv, DataType, Moved, Step, Same, Lives

\* What a call that moves has to show for CallInv.
LEMMA CallMoves ==
    ASSUME CallInv, NEW u \in Users, NEW new \in Calls, Moved(u, new),
           pid' \in Numbers, output_buf' \in [1 .. 2 -> Text],
           pids' \in [0 .. Size - 1 -> Numbers], pid_count' \in Nat,
           written' \in Seq(Pids), clean' \in BOOLEAN,
           Len(written) <= Len(written'), pid_count' <= Len(written'),
           new.at \in {"store", "lookup", "print"} => new.pos < Len(written'),
           new.at \in {"print", "fields"} =>
              IF new.text[2] THEN new.pid \in Pids ELSE new.pid = Unset \/ alive # Pids
    PROVE  CallInv'
<1>1. UNCHANGED <<file, alive>> /\ file # None
  BY DEF Moved, entries
<1>2. DataType'
  BY <1>1 DEF CallInv, DataType, Moved
<1>3. ASSUME NEW v \in Users
      PROVE  /\ call'[v].at \in {"store", "lookup", "print"} => call'[v].pos < Len(written')
             /\ call'[v].at \in {"print", "fields"} =>
                  IF call'[v].text[2] THEN call'[v].pid \in Pids
                  ELSE call'[v].pid = Unset \/ alive # Pids
  <2>1. CASE v = u
    BY <2>1 DEF Moved, Same
  <2>2. CASE v # u
    <3>1. Same(call'[v], call[v])
      BY <2>2 DEF Moved
    <3>2. call[v].pos \in Nat /\ Len(written) \in Nat /\ Len(written') \in Nat
      BY DEF CallInv, DataType, Calls
    <3> QED
      BY <3>1, <3>2 DEF Same, CallInv, Found
  <2> QED
    BY <2>1, <2>2
<1> QED
  BY <1>1, <1>2, <1>3 DEF CallInv, Found

\* A write keeps positions below the number of writes.
LEMMA WriterStep ==
    ASSUME CallInv, NEW u \in Users,
           \/ \E p \in Pids : WritePid(u, p) \/ LoadCount(u, p)
           \/ StoreCount(u) \/ StorePid(u)
    PROVE  CallInv'
<1>1. /\ written \in Seq(Pids) /\ Len(written) \in Nat
      /\ pid_count \in Nat /\ pid_count <= Len(written)
      /\ \A p \in Pids : /\ p \in Numbers /\ Append(written, p) \in Seq(Pids)
                         /\ Len(Append(written, p)) = Len(written) + 1
  BY DEF CallInv, DataType, Numbers
<1>2. [Idle EXCEPT !.at = "done"] \in Calls /\ [Idle EXCEPT !.at = "done"].at = "done"
  BY IdleIsCall DEF Calls, Doing
<1>3. ASSUME NEW p \in Pids, WritePid(u, p)
      PROVE  CallInv'
  <2>1. Moved(u, [Idle EXCEPT !.at = "done"])
    BY <1>2, <1>3, BeginMoves DEF WritePid
  <2>2. /\ pid' = p /\ written' = Append(written, p)
        /\ UNCHANGED <<output_buf, pids, pid_count, clean>>
    BY <1>3 DEF WritePid
  <2> DEFINE new == [Idle EXCEPT !.at = "done"]
  <2> HIDE DEF new
  <2>3. Moved(u, new) /\ new \in Calls /\ new.at = "done"
    BY <1>2, <2>1 DEF new
  <2> QED
    BY <1>1, <2>2, <2>3, CallMoves DEF CallInv, DataType
<1>4. ASSUME NEW p \in Pids, LoadCount(u, p)
      PROVE  CallInv'
  <2> DEFINE new == [Idle EXCEPT !.at = "store", !.pid = p, !.pos = pid_count,
                                 !.left = {"count", "pid"}]
  <2>1. new \in Calls /\ new.at = "store" /\ new.pos = pid_count
    BY <1>1, IdleIsCall DEF Calls, Doing
  <2>2. Moved(u, new)
    BY <1>4, <2>1, BeginMoves DEF LoadCount
  <2>3. written' = Append(written, p) /\ UNCHANGED data /\ clean' \in BOOLEAN
    BY <1>4 DEF LoadCount, CallInv, DataType
  <2> HIDE DEF new
  <2> QED
    BY <1>1, <2>1, <2>2, <2>3, CallMoves DEF CallInv, DataType, data
<1>5. CASE StoreCount(u) \/ StorePid(u)
  <2>1. PICK what \in {"count", "pid"} : Stored(u, what)
    BY <1>5 DEF StoreCount, StorePid
  <2> DEFINE left == call[u].left \ {what}
             new == IF left = {} THEN [Idle EXCEPT !.at = "done"] ELSE [call[u] EXCEPT !.left = left]
  <2>2. /\ call[u] \in Calls /\ call[u].at = "store"
        /\ call[u].pos \in Nat /\ call[u].pid \in Numbers /\ call[u].pos < Len(written)
    BY <2>1 DEF Stored, Step, CallInv, DataType, Calls
  <2>3. new \in Calls /\ (new.at = "done" \/ (new.at = "store" /\ new.pos = call[u].pos))
    BY <1>2, <2>2 DEF Calls
  <2>4. Moved(u, new)
    BY <2>1, <2>3, StepMoves DEF Stored
  <2>5. /\ UNCHANGED <<pid, output_buf, history>>
        /\ pids' \in [0 .. Size - 1 -> Numbers]
        /\ pid_count' \in Nat /\ pid_count' <= Len(written)
    <3>1. CASE StoreCount(u)
      BY <1>1, <2>2, <3>1 DEF StoreCount, Stored, CallInv, DataType
    <3>2. CASE StorePid(u)
      BY <1>1, <2>2, <3>2 DEF StorePid, Stored, CallInv, DataType
    <3> QED
      BY <1>5, <3>1, <3>2
  <2> HIDE DEF new
  <2> QED
    BY <1>1, <2>2, <2>3, <2>4, <2>5, CallMoves DEF CallInv, DataType, history
<1> QED
  BY <1>3, <1>4, <1>5

(* The steps of a reader leave the lists and the numbers written alone, and  *)
(* do not come to a position that is not counted.                           *)
LEMMA ReaderMoves ==
    ASSUME CallInv, NEW u \in Users, NEW new \in Calls, Moved(u, new),
           UNCHANGED <<pid, pids, pid_count, history>>, output_buf' \in [1 .. 2 -> Text],
           new.at # "store",
           new.at \in {"lookup", "print"} => new.pos < Len(written),
           new.at \in {"print", "fields"} =>
              IF new.text[2] THEN new.pid \in Pids ELSE new.pid = Unset \/ alive # Pids
    PROVE  CallInv'
<1>1. Len(written) \in Nat
  BY DEF CallInv, DataType
<1> QED
  BY <1>1, CallMoves DEF CallInv, DataType, history

\* A read begins.
LEMMA OpenStep ==
    ASSUME CallInv, NEW u \in Users, Open(u) \/ Read07(u)
    PROVE  CallInv'
<1>1. PICK place \in {"loop", "first", "lookup07"} : Begin(u, [Idle EXCEPT !.at = place])
  BY DEF Open, Read07
<1> DEFINE new == [Idle EXCEPT !.at = place]
<1>2. new \in Calls /\ new.at = place
  BY IdleIsCall DEF Calls, Doing
<1>3. UNCHANGED <<data, history>>
  BY DEF Open, Read07
<1>4. Moved(u, new)
  BY <1>1, <1>2, BeginMoves
<1> HIDE DEF new
<1> QED
  BY <1>2, <1>3, <1>4, ReaderMoves DEF data, CallInv, DataType

\* A read goes on.
LEMMA ReaderStep ==
    ASSUME CallInv, NEW u \in Users,
           \/ More(u) \/ NoMore(u) \/ Repeat(u) \/ Lookup(u) \/ Show(u)
           \/ Lookup07(u) \/ Fields07(u) \/ Copy07(u)
           \/ Format(u, 1, "first", "second") \/ Format(u, 2, "second", "copy")
    PROVE  CallInv'
<1>0. DataType /\ pid_count <= Len(written)
  BY DEF CallInv
<1>1. /\ call[u] \in Calls /\ NoText \in Text
      /\ <<>> \in Seq(Text) /\ output_buf \in Seq(Text)
  <2>1. output_buf \in [1 .. 2 -> Text]
    BY <1>0 DEF DataType
  <2> QED
    BY <1>0, <2>1, IdleIsCall, PairIsSeq DEF DataType
<1>2. /\ pid \in Numbers /\ output_buf \in [1 .. 2 -> Text]
      /\ pids \in [0 .. Size - 1 -> Numbers] /\ pid_count \in Nat /\ alive \subseteq Pids
      /\ Len(written) \in Nat /\ pid_count <= Len(written)
  BY <1>0 DEF DataType
<1>3. ASSUME NEW p \in Numbers
      PROVE  /\ <<p, p \in alive>> \in Text /\ <<p, FALSE>> \in Text
             /\ IF <<p, p \in alive>>[2] THEN p \in Pids ELSE p = Unset \/ alive # Pids
  <2>1. (p \in alive) \in BOOLEAN
    OBVIOUS
  <2>2. <<p, p \in alive>> \in Text /\ <<p, FALSE>> \in Text
    BY <2>1 DEF Text
  <2>3. <<p, p \in alive>>[2] = (p \in alive)
    OBVIOUS
  <2> QED
    BY <1>2, <2>2, <2>3 DEF Numbers
<1>4. CASE More(u)
  <2> DEFINE new == [call[u] EXCEPT !.at = "lookup"]
  <2>1. new \in Calls /\ new.at = "lookup" /\ new.pos = call[u].pos /\ call[u].pos \in Nat
    BY <1>1 DEF Calls, Doing
  <2>2. Moved(u, new) /\ UNCHANGED <<data, history>> /\ call[u].pos < pid_count
    BY <1>4, <2>1, StepMoves DEF More
  <2> HIDE DEF new
  <2> QED
    BY <1>2, <2>1, <2>2, ReaderMoves DEF data
<1>5. CASE NoMore(u)
  <2> DEFINE new == [call[u] EXCEPT !.at = "done"]
  <2>1. new \in Calls /\ new.at = "done"
    BY <1>1 DEF Calls, Doing
  <2>2. Moved(u, new) /\ UNCHANGED <<data, history>>
    BY <1>5, <2>1, StepMoves DEF NoMore
  <2> HIDE DEF new
  <2> QED
    BY <1>2, <2>1, <2>2, ReaderMoves DEF data
<1>6. CASE Repeat(u)
  <2> DEFINE new == [call[u] EXCEPT !.again = TRUE, !.pos = 0, !.shown = <<>>]
  <2>1. new \in Calls /\ new.at = call[u].at
    BY <1>1 DEF Calls
  <2>2. Moved(u, new) /\ UNCHANGED <<data, history>> /\ call[u].at = "loop"
    BY <1>6, <2>1, StepMoves DEF Repeat, Step
  <2> HIDE DEF new
  <2> QED
    BY <1>2, <2>1, <2>2, ReaderMoves DEF data
<1>7. CASE Lookup(u)
  <2> DEFINE p == pids[call[u].pos]
             new == [call[u] EXCEPT !.at = "print", !.pid = p, !.text = <<p, p \in alive>>]
  <2>1. call[u].pos \in Nat /\ call[u].pos < Size /\ p \in Numbers
    BY <1>1, <1>2, <1>7, ConstantsAssumption DEF Lookup, Calls
  <2> HIDE DEF p
  <2>2. /\ new \in Calls /\ new.at = "print" /\ new.pos = call[u].pos
        /\ new.pid = p /\ new.text = <<p, p \in alive>>
    BY <1>1, <1>3, <2>1 DEF Calls, Doing
  <2>3. Moved(u, new) /\ UNCHANGED <<data, history>> /\ call[u].at = "lookup"
    BY <1>7, <2>2, StepMoves DEF Lookup, Step, p
  <2>4. call[u].pos < Len(written)
    BY <2>3 DEF CallInv
  <2>5. IF new.text[2] THEN new.pid \in Pids ELSE new.pid = Unset \/ alive # Pids
    BY <1>3, <2>1, <2>2
  <2> HIDE DEF new
  <2> QED
    BY <1>2, <2>2, <2>3, <2>4, <2>5, ReaderMoves DEF data
<1>8. CASE Show(u)
  <2> DEFINE new == [call[u] EXCEPT !.at = "loop", !.pos = @ + 1, !.text = NoText,
                                    !.shown = Append(@, call[u].text)]
  <2>1. Append(call[u].shown, call[u].text) \in Seq(Text) /\ call[u].pos + 1 \in Nat
    BY <1>1 DEF Calls
  <2>2. new \in Calls /\ new.at = "loop"
    BY <1>1, <2>1 DEF Calls, Doing
  <2>3. Moved(u, new) /\ UNCHANGED <<data, history>>
    BY <1>8, <2>2, StepMoves DEF Show
  <2> HIDE DEF new
  <2> QED
    BY <1>2, <2>2, <2>3, ReaderMoves DEF data
<1>9. CASE Lookup07(u)
  <2> DEFINE new == [call[u] EXCEPT !.at = "fields", !.pid = pid, !.text = <<pid, pid \in alive>>]
  <2>1. new \in Calls /\ new.at = "fields" /\ new.pid = pid /\ new.text = <<pid, pid \in alive>>
    BY <1>1, <1>2, <1>3 DEF Calls, Doing
  <2>2. Moved(u, new) /\ UNCHANGED <<data, history>>
    BY <1>9, <2>1, StepMoves DEF Lookup07
  <2>3. IF new.text[2] THEN new.pid \in Pids ELSE new.pid = Unset \/ alive # Pids
    BY <1>2, <1>3, <2>1
  <2> HIDE DEF new
  <2> QED
    BY <1>2, <2>1, <2>2, <2>3, ReaderMoves DEF data
<1>10. CASE Fields07(u)
  <2> DEFINE text == IF Found(u) THEN call[u].text ELSE <<pid, FALSE>>
             new == [call[u] EXCEPT !.at = "first", !.text = text]
  <2>1. text \in Text
    BY <1>1, <1>2, <1>3 DEF Calls
  <2> HIDE DEF text
  <2>2. new \in Calls /\ new.at = "first"
    BY <1>1, <2>1 DEF Calls, Doing
  <2>3. Moved(u, new) /\ UNCHANGED <<data, history>>
    BY <1>10, <2>2, StepMoves DEF Fields07, text
  <2> HIDE DEF new
  <2> QED
    BY <1>2, <2>2, <2>3, ReaderMoves DEF data
<1>11. CASE Copy07(u)
  <2> DEFINE new == [call[u] EXCEPT !.at = "done", !.text = NoText, !.shown = output_buf]
  <2>1. new \in Calls /\ new.at = "done"
    BY <1>1 DEF Calls, Doing
  <2>2. Moved(u, new) /\ UNCHANGED <<data, history>>
    BY <1>11, <2>1, StepMoves DEF Copy07
  <2> HIDE DEF new
  <2> QED
    BY <1>2, <2>1, <2>2, ReaderMoves DEF data
<1>12. ASSUME NEW half \in 1 .. 2, NEW from, NEW to \in {"second", "copy"},
              Format(u, half, from, to)
       PROVE  CallInv'
  <2> DEFINE new == [call[u] EXCEPT !.at = to]
  <2>1. new \in Calls /\ new.at = to
    BY <1>1 DEF Calls, Doing
  <2>2. Moved(u, new) /\ UNCHANGED <<pid, pids, pid_count, history>>
    BY <1>12, <2>1, StepMoves DEF Format
  <2>3. output_buf' \in [1 .. 2 -> Text]
    BY <1>1, <1>2, <1>12 DEF Format, Calls
  <2> HIDE DEF new
  <2> QED
    BY <2>1, <2>2, <2>3, ReaderMoves
<1> QED
  BY <1>4, <1>5, <1>6, <1>7, <1>8, <1>9, <1>10, <1>11, <1>12

\* A process ends.
LEMMA DieStep ==
    ASSUME CallInv, NEW p \in Pids, Die(p)
    PROVE  CallInv'
<1>1. alive' \subseteq Pids /\ alive' # Pids /\ UNCHANGED <<file, data, history>>
  BY DEF Die, CallInv, DataType, entries
<1>2. \A u \in Users : /\ call'[u] = [call[u] EXCEPT !.lone = FALSE]
                       /\ call'[u] \in Calls /\ Same(call'[u], call[u])
  BY DEF Die, CallInv, DataType, Calls, Same
<1>3. call' \in [Users -> Calls]
  BY <1>2 DEF Die
<1>4. DataType'
  BY <1>1, <1>3 DEF CallInv, DataType, data, history
<1>5. ASSUME NEW u \in Users
      PROVE  /\ Resting(u)' = Resting(u) /\ call'[u].shown = call[u].shown
             /\ call'[u].at = call[u].at /\ call'[u].pos = call[u].pos
             /\ call'[u].pid = call[u].pid /\ Found(u)' = Found(u)
  BY <1>2 DEF Same, Resting, Found
<1>6. UNCHANGED <<file, pid_count, written>>
  BY <1>1 DEF data, history
<1> QED
  BY <1>1, <1>4, <1>5, <1>6 DEF CallInv

(* A crash: nothing else changes, and the invariants say where it came from. *)
LEMMA CrashStays ==
    ASSUME CallInv, NEW how, Break(how)
    PROVE  /\ CallInv'
           /\ UNCHANGED <<at, dir, file, links, call, alive, written, pids, pid_count, clean>>
<1>1. UNCHANGED <<file, pid, output_buf, pids, pid_count, call, alive, written, clean>>
  BY DEF Break, entries, data, history
<1> QED
  BY <1>1 DEF Break, entries, CallInv, DataType, Resting, Found

\* A step that crashes has a cause.
LEMMA CrashStep ==
    ASSUME CrashInv, [Next]_vars
    PROVE  CallInv' /\ CrashHasCause'
<1>1. EntryInv /\ CallInv /\ CrashHasCause
  BY DEF CrashInv
<1>2. ASSUME UNCHANGED vars
      PROVE  CallInv' /\ CrashHasCause'
  <2>1. UNCHANGED <<at, file, pid, output_buf, pids, pid_count, call, alive, broken, written, clean>>
    BY <1>2 DEF vars, entries, data, history
  <2> QED
    BY <1>1, <2>1 DEF CallInv, DataType, Resting, Found, CrashHasCause
<1>3. ASSUME broken' = "no"
      PROVE  CrashHasCause'
  BY <1>3 DEF CrashHasCause
<1>4. ASSUME broken = "no", module_init \/ module_exit
      PROVE  CallInv' /\ CrashHasCause'
  <2>1. broken' = "no"
    BY <1>4 DEF module_init, module_exit, Mkdir, Create, Symlink, InitFails, Unlink, RemoveFile,
       Rmdir, Load
  <2> QED
    BY <1>1, <1>3, <1>4, <2>1, EntryCallStep
<1>5. ASSUME Dangling
      PROVE  CallInv' /\ CrashHasCause'
  <2>1. Break("oops") /\ file # None /\ at[file] = "out"
    BY <1>5 DEF Dangling, Lives
  <2>2. file \in Lists
    BY <1>1, <2>1 DEF EntryInv, EntriesOwned
  <2> QED
    BY <1>1, <2>1, <2>2, CrashStays DEF CrashHasCause, Break
<1>6. ASSUME NEW u \in Users, Overrun(u)
      PROVE  CallInv' /\ CrashHasCause'
  <2>1. Break("overrun") /\ call[u].at \in {"store", "lookup"} /\ call[u].pos >= Size
    BY <1>6 DEF Overrun
  <2>2. call[u].pos < Len(written) /\ call[u].pos \in Nat /\ Len(written) \in Nat
    BY <1>1, <2>1 DEF CallInv, DataType, Calls
  <2> QED
    BY <1>1, <2>1, <2>2, CrashStays, ConstantsAssumption DEF CrashHasCause, Break
<1>7. ASSUME NEW u \in Users, ShowFaults(u) \/ FieldsFault07(u)
      PROVE  CallInv' /\ CrashHasCause'
  <2>1. /\ Break("oops") /\ call[u].at \in {"print", "fields"}
        /\ TaskFreed(u) \/ (call[u].at = "print" /\ ~Found(u) /\ file = "lab_09")
    BY <1>7 DEF ShowFaults, FieldsFault07, MissingTaskFollowed
  <2>2. IF Found(u) THEN call[u].pid \in Pids ELSE call[u].pid = Unset \/ alive # Pids
    BY <1>1, <2>1 DEF CallInv
  <2>3. \/ alive # Pids
        \/ file = "lab_09" /\ call[u].at = "print" /\ call[u].pid = Unset
    BY <2>1, <2>2 DEF TaskFreed
  <2>4. CallInv' /\ broken' = "oops" /\ UNCHANGED <<at, file, call, alive>>
    BY <1>1, <2>1, CrashStays DEF Break
  <2> QED
    BY <2>3, <2>4 DEF CrashHasCause
<1>8. ASSUME broken = "no", NEW u \in Users,
             \/ \E p \in Pids : WritePid(u, p) \/ LoadCount(u, p)
             \/ StoreCount(u) \/ StorePid(u)
      PROVE  CallInv' /\ CrashHasCause'
  <2>1. CallInv'
    BY <1>1, <1>8, WriterStep
  <2>2. broken' = "no"
    BY <1>8 DEF WritePid, LoadCount, StoreCount, StorePid, Stored, Begin, Step
  <2> QED
    BY <1>3, <2>1, <2>2
<1>9. ASSUME broken = "no", NEW u \in Users,
             \/ Open(u) \/ Read07(u)
             \/ More(u) \/ NoMore(u) \/ Repeat(u) \/ Lookup(u) \/ Show(u)
             \/ Lookup07(u) \/ Fields07(u) \/ Copy07(u)
             \/ Format(u, 1, "first", "second") \/ Format(u, 2, "second", "copy")
      PROVE  CallInv' /\ CrashHasCause'
  <2>1. CallInv'
    BY <1>1, <1>9, OpenStep, ReaderStep
  <2>2. broken' = "no"
    BY <1>9 DEF Open, Read07, More, NoMore, Repeat, Lookup, Show, Lookup07, Fields07, Copy07,
       Format, Begin, Step
  <2> QED
    BY <1>3, <2>1, <2>2
<1>10. ASSUME broken = "no", NEW p \in Pids, Die(p)
       PROVE  CallInv' /\ CrashHasCause'
  <2>1. CallInv' /\ broken' = "no"
    BY <1>1, <1>10, DieStep DEF Die
  <2> QED
    BY <1>3, <2>1
<1>11. ASSUME broken = "no", NEW u \in Users, User(u)
       PROVE  CallInv' /\ CrashHasCause'
  BY <1>6, <1>7, <1>8, <1>9, <1>11 DEF User, Reader07
<1> QED
  BY <1>2, <1>4, <1>5, <1>10, <1>11 DEF Next

\* CrashInv is inductive.
LEMMA CrashInvStep == CrashInv /\ [Next]_vars => CrashInv'
  BY EntryStep, CrashStep DEF CrashInv

(* EntriesOwned: see there.  The invariant adds what of the entries is there *)
(* at each place of loading and unloading.                                  *)
THEOREM EntriesAreOwned == Spec => []EntriesOwned
<1>1. CrashInv => EntriesOwned
  BY DEF CrashInv, EntryInv
<1> QED
  BY <1>1, InitHolds, CrashInvStep, PTL DEF Spec

(* CrashHasCause: see there.  The invariant adds that positions stay below   *)
(* the number of writes, and whom a lookup can have found.                   *)
THEOREM CrashesHaveCause == Spec => []CrashHasCause
<1>1. CrashInv => CrashHasCause
  BY DEF CrashInv
<1> QED
  BY <1>1, InitHolds, CrashInvStep, PTL DEF Spec
----------------------------------------------------------------------------
(* What a reader is shown.  While the writes do not overlap one of them at   *)
(* most is going on, of the last number written; pids holds the numbers in   *)
(* their order, or nothing yet; and a reader's position is what it has shown.*)
NumbersInOrder ==
    \A i \in 0 .. Size - 1 :
        pids[i] = Unset \/ (i < Len(written) /\ pids[i] = written[i + 1])

OneWriter ==
    /\ \A u, v \in Users : call[u].at = "store" /\ call[v].at = "store" => u = v
    /\ (\A u \in Users : call[u].at # "store") => pid_count = Len(written)
    /\ \A u \in Users : call[u].at = "store" =>
         /\ call[u].pos = Len(written) - 1 /\ call[u].pid = written[Len(written)]
         /\ pid_count = IF "count" \in call[u].left THEN Len(written) - 1 ELSE Len(written)

Told(c, w) ==
    /\ c.at \in {"loop", "lookup", "print"} => Len(c.shown) = c.pos
    /\ c.at = "print" => c.text[1] \in {w[c.pos + 1], Unset}
    /\ \A k \in DOMAIN c.shown : k <= Len(w) /\ c.shown[k][1] \in {w[k], Unset}

OrderInv ==
    clean =>
        /\ \A m \in Modules : at[m] = "dir" =>
             written = <<>> /\ pid_count = 0 /\ \A i \in 0 .. Size - 1 : pids[i] = Unset
        /\ file \in Lists =>
             NumbersInOrder /\ OneWriter /\ \A u \in Users : Told(call[u], written)

\* What a reader has been told stays true of a longer list.
LEMMA ToldAfterWrite ==
    ASSUME NEW c \in Calls, NEW w \in Seq(Pids), NEW p \in Pids, Told(c, w),
           c.at = "print" => c.pos < Len(w)
    PROVE  Told(c, Append(w, p))
<1>1. \A k \in 1 .. Len(w) : Append(w, p)[k] = w[k]
  OBVIOUS
<1>2. Len(Append(w, p)) = Len(w) + 1 /\ Len(w) \in Nat /\ c.pos \in Nat
  BY DEF Calls
<1>3. c.at = "print" => Append(w, p)[c.pos + 1] = w[c.pos + 1]
  BY <1>1, <1>2
<1>4. c.shown \in Seq(Text) /\ DOMAIN c.shown = 1 .. Len(c.shown) /\ Len(c.shown) \in Nat
  BY DEF Calls
<1>5. \A k \in DOMAIN c.shown : k \in 1 .. Len(w)
  BY <1>2, <1>4 DEF Told
<1> QED
  BY <1>1, <1>2, <1>3, <1>5 DEF Told

\* Told speaks of what Same compares, and of nothing else.
LEMMA ToldAsSame ==
    ASSUME NEW c, NEW d, Same(c, d), NEW w, Told(d, w)
    PROVE  Told(c, w)
  BY DEF Same, Told

(* Loading and unloading. *)
LEMMA EntryOrderStep ==
    ASSUME CrashInv, OrderInv, module_init \/ module_exit
    PROVE  OrderInv'
<1>1. EntryInv /\ CallInv
  BY DEF CrashInv
<1>2. ASSUME NEW m \in Modules, Mkdir(m)
      PROVE  OrderInv'
  <2>1. file' = None /\ written' = <<>> /\ pid_count' = 0 /\ pids' = [i \in 0 .. Size - 1 |-> Unset]
    BY <1>1, <1>2 DEF Mkdir, EntryInv, EntryType, EntriesOwned
  <2> QED
    BY <2>1 DEF OrderInv, Lists, None
<1>3. ASSUME NEW m \in Modules, Create(m)
      PROVE  OrderInv'
  <2>1. /\ at[m] = "dir" /\ at' = [at EXCEPT ![m] = "file"] /\ file' = m /\ file = None
        /\ UNCHANGED <<call, written, pid_count, pids, clean>>
    BY <1>1, <1>3 DEF Create, Load, EntryInv, data, history
  <2>2. ASSUME clean
        PROVE  NumbersInOrder' /\ OneWriter' /\ \A u \in Users : Told(call[u], written)
    <3>1. written = <<>> /\ pid_count = 0 /\ \A i \in 0 .. Size - 1 : pids[i] = Unset
      BY <2>1, <2>2 DEF OrderInv
    <3>2. \A u \in Users : call[u].at \in {"idle", "done"} /\ call[u].shown = <<>>
      BY <1>1, <2>1 DEF CallInv, Resting
    <3>3. NumbersInOrder'
      BY <2>1, <3>1 DEF NumbersInOrder
    <3>4. OneWriter'
      BY <2>1, <3>1, <3>2 DEF OneWriter
    <3>5. \A u \in Users : Told(call[u], written)
      BY <3>2 DEF Told
    <3> QED
      BY <3>3, <3>4, <3>5
  <2>3. \A n \in Modules : at'[n] = "dir" => at[n] = "dir"
    BY <1>1, <2>1 DEF EntryInv, EntryType
  <2> QED
    BY <2>1, <2>2, <2>3 DEF OrderInv
<1>4. ASSUME NEW m \in Modules, Symlink(m) \/ InitFails(m) \/ Unlink(m) \/ Rmdir(m)
      PROVE  OrderInv'
  <2>1. /\ UNCHANGED <<file, call, written, pid_count, pids, clean>>
        /\ \E to \in Places \ {"dir"} : at' = [at EXCEPT ![m] = to]
    BY <1>4 DEF Symlink, InitFails, Unlink, Rmdir, Load, data, history, Places
  <2>2. \A n \in Modules : at'[n] = "dir" => at[n] = "dir"
    BY <1>1, <2>1 DEF EntryInv, EntryType
  <2> QED
    BY <2>1, <2>2 DEF OrderInv, NumbersInOrder, OneWriter
<1>5. ASSUME NEW m \in Modules, RemoveFile(m)
      PROVE  OrderInv'
  <2>1. file' = None /\ at' = [at EXCEPT ![m] = "rmdir"]
        /\ UNCHANGED <<written, pid_count, pids, clean>>
    BY <1>5 DEF RemoveFile, Load, data, history
  <2>2. \A n \in Modules : at'[n] = "dir" => at[n] = "dir"
    BY <1>1, <2>1 DEF EntryInv, EntryType
  <2> QED
    BY <2>1, <2>2 DEF OrderInv, Lists, None
<1> QED
  BY <1>2, <1>3, <1>4, <1>5 DEF module_init, module_exit

(* A step of a user leaves the other users' calls alone. *)
LEMMA ReaderOrderStep ==
    ASSUME CrashInv, OrderInv, NEW u \in Users, NEW new \in Calls, Moved(u, new),
           UNCHANGED <<pids, pid_count, written, clean>>,
           call[u].at # "store", new.at # "store",
           file \in Lists => Told(new, written)
    PROVE  OrderInv'
<1>1. UNCHANGED <<at, file>>
  BY DEF Moved, entries
<1>2. ASSUME clean, file \in Lists
      PROVE  NumbersInOrder' /\ OneWriter' /\ \A v \in Users : Told(call'[v], written')
  <2>1. NumbersInOrder /\ OneWriter /\ \A v \in Users : Told(call[v], written)
    BY <1>2 DEF OrderInv
  <2>2. \A v \in Users : Told(call'[v], written')
    BY <1>2, <2>1, ToldAsSame DEF Moved
  <2>3. \A v \in Users : /\ call'[v].at = "store" <=> call[v].at = "store"
                         /\ call'[v].at = "store" => Same(call'[v], call[v])
    BY DEF Moved, Same
  <2>4. OneWriter'
    BY <2>1, <2>3 DEF OneWriter, Same
  <2>5. NumbersInOrder'
    BY <2>1 DEF NumbersInOrder
  <2> QED
    BY <2>2, <2>4, <2>5
<1> QED
  BY <1>1, <1>2 DEF OrderInv

\* A write that overlaps no other adds to the end of the list.
LEMMA WriterOrderStep ==
    ASSUME CrashInv, OrderInv, NEW u \in Users,
           \/ \E p \in Pids : WritePid(u, p) \/ LoadCount(u, p)
           \/ StoreCount(u) \/ StorePid(u)
    PROVE  OrderInv'
<1>1. EntryInv /\ CallInv
  BY DEF CrashInv
<1>2. /\ written \in Seq(Pids) /\ Len(written) \in Nat /\ pid_count \in Nat
      /\ pids \in [0 .. Size - 1 -> Numbers] /\ Size \in Nat
      /\ call \in [Users -> Calls]
  BY <1>1, ConstantsAssumption DEF CallInv, DataType
<1>3. [Idle EXCEPT !.at = "done"] \in Calls
  BY IdleIsCall DEF Calls, Doing
<1>4. ASSUME UNCHANGED <<at, file>>, file # None
      PROVE  \A m \in Modules : at'[m] # "dir"
  BY <1>1, <1>4 DEF EntryInv
<1>5. ASSUME NEW p \in Pids, WritePid(u, p)
      PROVE  OrderInv'
  <2>1. UNCHANGED <<at, file>> /\ file = "lab_07"
    BY <1>5 DEF WritePid, Begin, entries
  <2> QED
    BY <1>4, <2>1 DEF OrderInv, Lists, None
<1>6. ASSUME NEW p \in Pids, LoadCount(u, p), clean'
      PROVE  OrderInv'
  <2> DEFINE new == [Idle EXCEPT !.at = "store", !.pid = p, !.pos = pid_count,
                                 !.left = {"count", "pid"}]
  <2>1. /\ new \in Calls /\ new.at = "store" /\ new.pos = pid_count /\ new.pid = p
        /\ new.left = {"count", "pid"} /\ new.shown = <<>>
    BY <1>2, IdleIsCall DEF Calls, Doing, Numbers
  <2>2. Moved(u, new)
    BY <1>1, <1>6, <2>1, BeginMoves DEF LoadCount
  <2>3. /\ file \in Lists /\ written' = Append(written, p) /\ UNCHANGED <<pids, pid_count>>
        /\ clean /\ \A v \in Users : call[v].at # "store"
    BY <1>6 DEF LoadCount, data
  <2>4. UNCHANGED <<at, file>> /\ file # None
    BY <2>2 DEF Moved, entries
  <2>5. NumbersInOrder /\ OneWriter /\ \A v \in Users : Told(call[v], written)
    BY <2>3 DEF OrderInv
  <2>6. /\ Len(written') = Len(written) + 1 /\ written'[Len(written')] = p
        /\ \A k \in 1 .. Len(written) : written'[k] = written[k]
    BY <1>2, <2>3
  <2>7. NumbersInOrder'
    BY <1>2, <2>3, <2>5, <2>6 DEF NumbersInOrder
  <2> HIDE DEF new
  <2>8. \A v \in Users : call'[v].at = "store" => v = u
    BY <2>2, <2>3 DEF Moved, Same
  <2>9. pid_count = Len(written)
    BY <2>3, <2>5 DEF OneWriter
  <2>10. OneWriter'
    <3>1. Same(call'[u], new)
      BY <2>2 DEF Moved
    <3> QED
      BY <1>2, <2>1, <2>3, <2>6, <2>8, <2>9, <3>1 DEF OneWriter, Same
  <2>11. ASSUME NEW v \in Users
         PROVE  Told(call'[v], written')
    <3>1. CASE v = u
      <4>1. Told(new, written')
        BY <2>1 DEF Told
      <4> QED
        BY <2>2, <3>1, <4>1, ToldAsSame DEF Moved
    <3>2. CASE v # u
      <4>1. call[v].at = "print" => call[v].pos < Len(written)
        BY <1>1 DEF CallInv
      <4>2. Told(call[v], written')
        BY <1>2, <2>3, <2>5, <4>1, ToldAfterWrite
      <4> QED
        BY <2>2, <3>2, <4>2, ToldAsSame DEF Moved
    <3> QED
      BY <3>1, <3>2
  <2> QED
    BY <1>4, <2>4, <2>7, <2>10, <2>11 DEF OrderInv
<1>7. ASSUME StoreCount(u) \/ StorePid(u), clean'
      PROVE  OrderInv'
  <2>1. PICK what \in {"count", "pid"} :
             /\ Stored(u, what)
             /\ IF what = "count" THEN StoreCount(u) ELSE StorePid(u)
    BY <1>7 DEF StoreCount, StorePid
  <2> DEFINE left == call[u].left \ {what}
             new == IF left = {} THEN [Idle EXCEPT !.at = "done"] ELSE [call[u] EXCEPT !.left = left]
  <2>2. /\ call[u] \in Calls /\ call[u].at = "store" /\ call[u].left \subseteq {"count", "pid"}
        /\ call[u].pos \in Nat /\ what \in call[u].left
    BY <1>2, <2>1 DEF Stored, Step, Calls
  <2>3. /\ new \in Calls
        /\ IF left = {} THEN new.at = "done" /\ new.shown = <<>>
           ELSE /\ new.at = "store" /\ new.pos = call[u].pos /\ new.pid = call[u].pid
                /\ new.left = left /\ new.shown = call[u].shown
    BY <1>3, <2>2, IdleIsCall DEF Calls
  <2>4. Moved(u, new)
    BY <1>1, <2>1, <2>3, StepMoves DEF Stored
  <2>5. UNCHANGED <<at, file, written, clean>> /\ file # None
    BY <2>1, <2>4 DEF Moved, entries, Stored, history
  <2>6. ASSUME file \in Lists
        PROVE  NumbersInOrder' /\ OneWriter' /\ \A v \in Users : Told(call'[v], written')
    <3>1. NumbersInOrder /\ OneWriter /\ \A v \in Users : Told(call[v], written)
      BY <1>7, <2>5, <2>6 DEF OrderInv
    <3>2. /\ call[u].pos = Len(written) - 1 /\ call[u].pid = written[Len(written)]
          /\ pid_count = IF "count" \in call[u].left THEN Len(written) - 1 ELSE Len(written)
          /\ \A v \in Users : call[v].at = "store" => v = u
      BY <2>2, <3>1 DEF OneWriter
    <3>3. IF what = "count" THEN pid_count' = call[u].pos + 1 /\ pids' = pids
          ELSE pids' = [pids EXCEPT ![call[u].pos] = call[u].pid] /\ pid_count' = pid_count
      BY <2>1 DEF StoreCount, StorePid
    <3>4. NumbersInOrder'
      BY <1>2, <2>2, <2>5, <3>1, <3>2, <3>3 DEF NumbersInOrder
    <3>5. pid_count' = IF "count" \in left THEN Len(written) - 1 ELSE Len(written)
      BY <1>2, <2>1, <2>2, <3>2, <3>3
    <3> HIDE DEF new
    <3>6. Same(call'[u], new) /\ \A v \in Users \ {u} : call'[v].at # "store"
      BY <2>4, <3>2 DEF Moved, Same
    <3>7. OneWriter'
      <4>1. CASE left = {}
        BY <2>3, <2>5, <3>5, <3>6, <4>1 DEF OneWriter, Same
      <4>2. CASE left # {}
        BY <2>3, <2>5, <3>2, <3>5, <3>6, <4>2 DEF OneWriter, Same
      <4> QED
        BY <4>1, <4>2
    <3>8. Told(new, written)
      <4>1. CASE left = {}
        BY <2>3, <4>1 DEF Told
      <4>2. CASE left # {}
        BY <2>2, <2>3, <3>1, <4>2 DEF Told
      <4> QED
        BY <4>1, <4>2
    <3>9. \A v \in Users : Told(call'[v], written')
      BY <2>4, <2>5, <3>1, <3>8, ToldAsSame DEF Moved
    <3> QED
      BY <3>4, <3>7, <3>9
  <2> QED
    BY <1>4, <2>5, <2>6 DEF OrderInv
<1>8. ASSUME ~clean'
      PROVE  OrderInv'
  BY <1>8 DEF OrderInv
<1> QED
  BY <1>5, <1>6, <1>7, <1>8

\* A reader of a list goes from each place to the next.
LEMMA ListReaderOrderStep ==
    ASSUME CrashInv, OrderInv, clean, NEW u \in Users,
           More(u) \/ NoMore(u) \/ Repeat(u) \/ Lookup(u) \/ Show(u)
    PROVE  OrderInv'
<1>1. CallInv
  BY DEF CrashInv
<1>2. /\ call[u] \in Calls /\ NoText \in Text /\ <<>> \in Seq(Text)
      /\ call[u].pos \in Nat /\ call[u].shown \in Seq(Text) /\ call[u].text \in Text
      /\ Len(written) \in Nat /\ pids \in [0 .. Size - 1 -> Numbers] /\ Size \in Nat
  BY <1>1, IdleIsCall, ConstantsAssumption DEF CallInv, DataType, Calls
<1>3. file \in Lists => NumbersInOrder /\ Told(call[u], written)
  BY DEF OrderInv
<1>4. UNCHANGED <<pids, pid_count, written, clean>>
  BY DEF More, NoMore, Repeat, Lookup, Show, data, history
<1>5. ASSUME NEW new \in Calls, Moved(u, new), call[u].at # "store", new.at # "store",
             file \in Lists => Told(new, written)
      PROVE  OrderInv'
  BY <1>4, <1>5, ReaderOrderStep
<1>6. CASE More(u) \/ NoMore(u)
  <2>1. PICK to \in {"lookup", "done"} : Step(u, "loop", [call[u] EXCEPT !.at = to])
    BY <1>6 DEF More, NoMore
  <2> DEFINE new == [call[u] EXCEPT !.at = to]
  <2>2. new \in Calls /\ new.at = to /\ new.shown = call[u].shown /\ new.pos = call[u].pos
    BY <1>2 DEF Calls, Doing
  <2>3. Moved(u, new) /\ call[u].at = "loop"
    BY <1>1, <2>1, <2>2, StepMoves DEF Step
  <2> HIDE DEF new
  <2>4. file \in Lists => Told(new, written)
    BY <1>3, <2>2, <2>3 DEF Told
  <2> QED
    BY <1>5, <2>2, <2>3, <2>4
<1>7. CASE Repeat(u)
  <2> DEFINE new == [call[u] EXCEPT !.again = TRUE, !.pos = 0, !.shown = <<>>]
  <2>1. call[u].at = "loop"
    BY <1>7 DEF Repeat, Step
  <2>2. new \in Calls /\ new.at = "loop" /\ new.shown = <<>> /\ new.pos = 0
    BY <1>2, <2>1 DEF Calls
  <2>3. Moved(u, new)
    BY <1>1, <1>7, <2>2, StepMoves DEF Repeat
  <2> HIDE DEF new
  <2>4. Told(new, written)
    BY <2>2 DEF Told
  <2> QED
    BY <1>5, <2>1, <2>2, <2>3, <2>4
<1>8. CASE Lookup(u)
  <2> DEFINE p == pids[call[u].pos]
             new == [call[u] EXCEPT !.at = "print", !.pid = p, !.text = <<p, p \in alive>>]
  <2>1. call[u].at = "lookup" /\ call[u].pos \in 0 .. Size - 1 /\ p \in Numbers
    BY <1>2, <1>8 DEF Lookup, Step
  <2> HIDE DEF p
  <2>2. <<p, p \in alive>> \in Text
    <3>1. (p \in alive) \in BOOLEAN
      OBVIOUS
    <3> QED
      BY <2>1, <3>1 DEF Text
  <2>3. /\ new \in Calls /\ new.at = "print" /\ new.shown = call[u].shown
        /\ new.pos = call[u].pos /\ new.text = <<p, p \in alive>>
    BY <1>2, <2>1, <2>2 DEF Calls, Doing
  <2>4. Moved(u, new)
    BY <1>1, <1>8, <2>3, StepMoves DEF Lookup, p
  <2> HIDE DEF new
  <2>5. file \in Lists => p \in {written[call[u].pos + 1], Unset}
    BY <1>3, <2>1 DEF NumbersInOrder, p
  <2>6. new.text[1] = p
    BY <2>3
  <2>7. file \in Lists => Told(new, written)
    BY <1>3, <2>1, <2>3, <2>5, <2>6 DEF Told
  <2> QED
    BY <1>5, <2>1, <2>3, <2>4, <2>7
<1>9. CASE Show(u)
  <2> DEFINE shown == Append(call[u].shown, call[u].text)
             new == [call[u] EXCEPT !.at = "loop", !.pos = @ + 1, !.text = NoText,
                                    !.shown = Append(@, call[u].text)]
  <2>1. call[u].at = "print" /\ call[u].pos < Len(written)
    BY <1>1, <1>9 DEF Show, Step, CallInv
  <2>2. shown \in Seq(Text) /\ call[u].pos + 1 \in Nat
    BY <1>2
  <2>3. new \in Calls /\ new.at = "loop" /\ new.shown = shown /\ new.pos = call[u].pos + 1
    BY <1>2, <2>2 DEF Calls, Doing
  <2>4. Moved(u, new)
    BY <1>1, <1>9, <2>3, StepMoves DEF Show
  <2> HIDE DEF new
  <2>5. /\ Len(shown) = Len(call[u].shown) + 1 /\ shown[Len(shown)] = call[u].text
        /\ DOMAIN shown = 1 .. Len(shown) /\ Len(call[u].shown) \in Nat
        /\ \A k \in 1 .. Len(call[u].shown) : shown[k] = call[u].shown[k]
        /\ DOMAIN call[u].shown = 1 .. Len(call[u].shown)
    BY <1>2
  <2> HIDE DEF shown
  <2>6. ASSUME file \in Lists
        PROVE  Told(new, written)
    <3>1. /\ Len(call[u].shown) = call[u].pos
          /\ call[u].text[1] \in {written[call[u].pos + 1], Unset}
          /\ \A k \in 1 .. Len(call[u].shown) :
               k <= Len(written) /\ call[u].shown[k][1] \in {written[k], Unset}
      BY <1>3, <2>1, <2>5, <2>6 DEF Told
    <3>2. ASSUME NEW k \in 1 .. Len(shown)
          PROVE  k <= Len(written) /\ shown[k][1] \in {written[k], Unset}
      <4>1. CASE k \in 1 .. Len(call[u].shown)
        BY <2>5, <3>1, <4>1
      <4>2. CASE k = Len(shown)
        BY <1>2, <2>1, <2>5, <3>1, <4>2
      <4> QED
        BY <2>5, <4>1, <4>2
    <3> QED
      BY <2>3, <2>5, <3>1, <3>2 DEF Told
  <2> QED
    BY <1>5, <2>1, <2>3, <2>4, <2>6
<1> QED
  BY <1>6, <1>7, <1>8, <1>9

\* A reader begins with the first place.
LEMMA OpenOrderStep ==
    ASSUME CrashInv, OrderInv, NEW u \in Users, Open(u) \/ Read07(u)
    PROVE  OrderInv'
<1>1. PICK place \in {"loop", "first", "lookup07"} : Begin(u, [Idle EXCEPT !.at = place])
  BY DEF Open, Read07
<1> DEFINE new == [Idle EXCEPT !.at = place]
<1>2. new \in Calls /\ new.at = place /\ new.shown = <<>> /\ new.pos = 0
  BY IdleIsCall DEF Calls, Doing, Idle
<1>3. UNCHANGED <<pids, pid_count, written, clean>> /\ call[u].at # "store"
  BY DEF Open, Read07, data, history, Begin, Resting
<1>4. Moved(u, new)
  BY <1>1, <1>2, BeginMoves DEF CrashInv
<1> HIDE DEF new
<1>5. Told(new, written)
  BY <1>2 DEF Told
<1> QED
  BY <1>2, <1>3, <1>4, <1>5, ReaderOrderStep

(* A call is one of lab_07 or of a list, as the file is. *)
Reading07 == {"lookup07", "fields", "first", "second", "copy"}
Own07 == \A u \in Users : call[u].at \in Reading07 => file = "lab_07"

\* Calls of lab_07 and calls of the lists keep to their own places.
LEMMA Own07Step ==
    ASSUME CrashInv, Own07, [Next]_vars
    PROVE  Own07'
<1>1. CallInv /\ EntryInv /\ call \in [Users -> Calls]
  BY DEF CrashInv, CallInv, DataType
<1>2. ASSUME file' = "lab_07"
      PROVE  Own07'
  BY <1>2 DEF Own07
<1>3. ASSUME UNCHANGED file, NEW u \in Users,
             \A v \in Users \ {u} : call'[v].at = call[v].at, call'[u].at \notin Reading07
      PROVE  Own07'
  BY <1>3 DEF Own07
<1>4. ASSUME UNCHANGED file, \A v \in Users : call'[v].at = call[v].at
      PROVE  Own07'
  BY <1>4 DEF Own07
<1>5. ASSUME NEW m \in Modules, Create(m) \/ RemoveFile(m)
      PROVE  Own07'
  <2>1. \A u \in Users : call'[u].at \in {"idle", "done"}
    BY <1>1, <1>5, IdleIsCall DEF Create, RemoveFile, Load, EntryInv, CallInv, Resting
  <2> QED
    BY <2>1 DEF Own07, Reading07
<1>6. ASSUME NEW m \in Modules, Mkdir(m) \/ Symlink(m) \/ InitFails(m) \/ Unlink(m) \/ Rmdir(m)
      PROVE  Own07'
  BY <1>4, <1>6 DEF Mkdir, Symlink, InitFails, Unlink, Rmdir
<1>7. ASSUME NEW how, Break(how)
      PROVE  Own07'
  BY <1>4, <1>7 DEF Break, entries
<1>8. ASSUME NEW p \in Pids, Die(p)
      PROVE  Own07'
  <2>1. \A v \in Users : call'[v].at = call[v].at
    BY <1>1, <1>8 DEF Die, Calls
  <2> QED
    BY <1>4, <1>8, <2>1 DEF Die, entries
<1>9. ASSUME NEW u \in Users, NEW new \in Calls, Moved(u, new), new.at \notin Reading07
      PROVE  Own07'
  BY <1>3, <1>9 DEF Moved, Same, entries
<1>10. ASSUME NEW u \in Users, User(u)
       PROVE  Own07'
  <2>0. /\ call[u] \in Calls /\ Idle \in Calls /\ NoText \in Text
        /\ [Idle EXCEPT !.at = "done"] \in Calls
    BY <1>1, IdleIsCall DEF Calls, Doing
  <2>1. CASE Overrun(u) \/ ShowFaults(u) \/ FieldsFault07(u)
    BY <1>7, <2>1 DEF Overrun, ShowFaults, FieldsFault07
  <2>2. CASE Reader07(u) \/ \E p \in Pids : WritePid(u, p)
    <3>1. CASE FieldsFault07(u)
      BY <2>1, <3>1
    <3>2. CASE ~FieldsFault07(u)
      <4>1. file = "lab_07" \/ call[u].at \in Reading07
        BY <2>2, <3>2 DEF Reader07, WritePid, Read07, Lookup07, Fields07, Format, Copy07, Step,
           Reading07
      <4>2. UNCHANGED file
        BY <2>2, <3>2 DEF Reader07, WritePid, Read07, Lookup07, Fields07, Format, Copy07, Step,
           Begin, entries
      <4> QED
        BY <1>2, <4>1, <4>2 DEF Own07
    <3> QED
      BY <3>1, <3>2
  <2>3. ASSUME NEW p \in Pids, LoadCount(u, p)
        PROVE  Own07'
    <3> DEFINE new == [Idle EXCEPT !.at = "store", !.pid = p, !.pos = pid_count,
                                   !.left = {"count", "pid"}]
    <3>1. pid_count \in Nat /\ p \in Numbers
      BY <1>1 DEF CallInv, DataType, Numbers
    <3>2. new \in Calls /\ new.at = "store"
      BY <2>0, <3>1 DEF Calls, Doing
    <3>3. Moved(u, new)
      BY <1>1, <2>3, <3>2, BeginMoves DEF LoadCount
    <3> HIDE DEF new
    <3> QED
      BY <1>9, <3>2, <3>3 DEF Reading07
  <2>4. CASE Open(u)
    <3> DEFINE new == [Idle EXCEPT !.at = "loop"]
    <3>1. new \in Calls /\ new.at = "loop"
      BY <2>0 DEF Calls, Doing
    <3>2. Moved(u, new)
      BY <1>1, <2>4, <3>1, BeginMoves DEF Open
    <3> HIDE DEF new
    <3> QED
      BY <1>9, <3>1, <3>2 DEF Reading07
  <2>5. CASE StoreCount(u) \/ StorePid(u) \/ More(u) \/ NoMore(u) \/ Repeat(u) \/ Lookup(u) \/ Show(u)
    <3>1. UNCHANGED file /\ \A v \in Users \ {u} : call'[v] = call[v]
      BY <1>1, <2>5 DEF StoreCount, StorePid, Stored, More, NoMore, Repeat, Lookup, Show, Step,
         entries
    <3>2. call'[u].at \in {"store", "done", "lookup", "loop", "print"}
      <4>1. CASE StoreCount(u) \/ StorePid(u)
        BY <1>1, <2>0, <4>1 DEF StoreCount, StorePid, Stored, Step, Calls
      <4>2. CASE More(u) \/ NoMore(u)
        BY <1>1, <2>0, <4>2 DEF More, NoMore, Step, Calls
      <4>3. CASE Repeat(u)
        BY <1>1, <2>0, <4>3 DEF Repeat, Step, Calls
      <4>4. CASE Lookup(u)
        BY <1>1, <2>0, <4>4 DEF Lookup, Step, Calls
      <4>5. CASE Show(u)
        BY <1>1, <2>0, <4>5 DEF Show, Step, Calls
      <4> QED
        BY <2>5, <4>1, <4>2, <4>3, <4>4, <4>5
    <3> QED
      BY <1>3, <3>1, <3>2 DEF Reading07
  <2> QED
    BY <1>10, <2>1, <2>2, <2>3, <2>4, <2>5 DEF User
<1>11. ASSUME UNCHANGED vars
       PROVE  Own07'
  BY <1>4, <1>11 DEF vars, entries
<1> QED
  BY <1>5, <1>6, <1>7, <1>8, <1>10, <1>11 DEF Next, module_init, module_exit, Dangling

(* A reader of lab_07 does not touch what the lists have. *)
LEMMA Reader07OrderStep ==
    ASSUME CrashInv, OrderInv, Own07, clean, NEW u \in Users,
           \/ Lookup07(u) \/ Fields07(u) \/ Copy07(u)
           \/ Format(u, 1, "first", "second") \/ Format(u, 2, "second", "copy")
    PROVE  OrderInv'
<1>1. /\ call[u].at \in Reading07
      /\ UNCHANGED <<at, file, written, clean>>
  BY DEF Lookup07, Fields07, Copy07, Format, Step, Reading07, entries, data, history
<1>2. file = "lab_07" /\ file # None
  BY <1>1 DEF Own07, None
<1>3. \A m \in Modules : at'[m] # "dir"
  BY <1>1, <1>2 DEF CrashInv, EntryInv
<1> QED
  BY <1>1, <1>2, <1>3 DEF OrderInv, Lists

(* Nothing but the ends of processes and the crash. *)
LEMMA OtherOrderStep ==
    ASSUME CrashInv, OrderInv, UNCHANGED <<at, file, pids, pid_count, written, clean>>,
           \A v \in Users : Same(call'[v], call[v])
    PROVE  OrderInv'
<1>1. ASSUME clean, file \in Lists
      PROVE  NumbersInOrder' /\ OneWriter' /\ \A v \in Users : Told(call'[v], written')
  <2>1. NumbersInOrder /\ OneWriter /\ \A v \in Users : Told(call[v], written)
    BY <1>1 DEF OrderInv
  <2>2. \A v \in Users : Told(call'[v], written')
    BY <2>1, ToldAsSame
  <2>3. OneWriter'
    BY <2>1 DEF OneWriter, Same
  <2> QED
    BY <2>1, <2>2, <2>3 DEF NumbersInOrder
<1> QED
  BY <1>1 DEF OrderInv

\* OrderInv is inductive.
LEMMA OrderStep ==
    ASSUME CrashInv, OrderInv, Own07, [Next]_vars
    PROVE  OrderInv'
<1>1. CASE ~clean /\ UNCHANGED clean
  BY <1>1 DEF OrderInv
<1>2. ASSUME UNCHANGED vars
      PROVE  OrderInv'
  <2>1. /\ UNCHANGED <<at, file, pids, pid_count, written, clean>>
        /\ \A v \in Users : Same(call'[v], call[v])
    BY <1>2 DEF vars, entries, data, history, Same
  <2> QED
    BY <2>1, OtherOrderStep
<1>3. ASSUME NEW how, Break(how)
      PROVE  OrderInv'
  <2>1. UNCHANGED call
    BY <1>3 DEF Break
  <2>2. \A v \in Users : Same(call'[v], call[v])
    BY <2>1 DEF Same
  <2> QED
    BY <1>3, <2>2, OtherOrderStep DEF Break, entries, data, history
<1>4. ASSUME NEW p \in Pids, Die(p)
      PROVE  OrderInv'
  <2>1. \A v \in Users : Same(call'[v], call[v])
    BY <1>4 DEF Die, CrashInv, CallInv, DataType, Calls, Same
  <2>2. UNCHANGED <<at, file, pids, pid_count, written, clean>>
    BY <1>4 DEF Die, entries, data, history
  <2> QED
    BY <2>1, <2>2, OtherOrderStep
<1>5. ASSUME NEW u \in Users, User(u)
      PROVE  OrderInv'
  <2>1. CASE Overrun(u) \/ ShowFaults(u) \/ FieldsFault07(u)
    BY <1>3, <2>1 DEF Overrun, ShowFaults, FieldsFault07
  <2>2. CASE \/ \E p \in Pids : WritePid(u, p) \/ LoadCount(u, p)
             \/ StoreCount(u) \/ StorePid(u)
    BY <2>2, WriterOrderStep
  <2>3. CASE More(u) \/ NoMore(u) \/ Repeat(u) \/ Lookup(u) \/ Show(u)
    <3>1. UNCHANGED clean
      BY <2>3 DEF More, NoMore, Repeat, Lookup, Show, history
    <3> QED
      BY <1>1, <2>3, <3>1, ListReaderOrderStep DEF CrashInv, CallInv, DataType
  <2>4. CASE Open(u) \/ Read07(u)
    BY <2>4, OpenOrderStep
  <2>5. CASE \/ Lookup07(u) \/ Fields07(u) \/ Copy07(u)
             \/ Format(u, 1, "first", "second") \/ Format(u, 2, "second", "copy")
    <3>1. UNCHANGED clean
      BY <2>5 DEF Lookup07, Fields07, Copy07, Format, history
    <3> QED
      BY <1>1, <2>5, <3>1, Reader07OrderStep
  <2> QED
    BY <1>5, <2>1, <2>2, <2>3, <2>4, <2>5 DEF User, Reader07
<1> QED
  BY <1>2, <1>3, <1>4, <1>5, EntryOrderStep DEF Next, Dangling

(* EachOnceInOrder: see there. *)
THEOREM ReadersSeeEachOnce == Spec => []EachOnceInOrder
<1>1. Init => OrderInv /\ Own07
  <2> SUFFICES ASSUME Init
               PROVE  OrderInv /\ Own07
    OBVIOUS
  <2>1. Idle.at = "idle"
    BY DEF Idle
  <2> QED
    BY <2>1 DEF Init, OrderInv, Own07, Reading07, Lists, None
<1>2. CrashInv /\ OrderInv /\ Own07 /\ [Next]_vars => (OrderInv /\ Own07)'
  BY OrderStep, Own07Step
<1>3. OrderInv => EachOnceInOrder
  BY DEF OrderInv, EachOnceInOrder, Told
<1> QED
  BY <1>1, <1>2, <1>3, InitHolds, CrashInvStep, PTL DEF Spec
----------------------------------------------------------------------------
(* What an undisturbed reader is shown.  While it reads the others rest, so  *)
(* that no number is counted that is not stored; what it has shown, is about *)
(* to show and has looked up is the truth at this moment.                    *)
Undisturbed(c) ==
    /\ c.lone /\ c.at \notin {"idle", "store"}
    /\ c.at = "done" => c.shown # <<>>

Alone == \A u \in Users : Undisturbed(call[u]) => \A v \in Users \ {u} : Resting(v)

Last == IF written = <<>> THEN Unset ELSE written[Len(written)]

AllStored ==
    \A i \in 0 .. Size - 1 : i < Len(written) =>
        \/ pids[i] = written[i + 1]
        \/ \E u \in Users : call[u].at = "store" /\ "pid" \in call[u].left /\ call[u].pos = i

ListCall == {"store", "loop", "lookup", "print"}

ExactList(c) ==
    /\ \A k \in DOMAIN c.shown : c.shown[k] = Truth(written[k])
    /\ c.at = "print" => c.text = Truth(written[c.pos + 1])
    /\ c.at = "done" => Len(c.shown) = Len(written)

Exact07(c) ==
    /\ c.at \in {"fields", "first", "second"} => c.text = Truth(pid)
    /\ c.at \in {"second", "copy"} => output_buf[1] = Truth(pid)
    /\ c.at = "copy" => output_buf[2] = Truth(pid)
    /\ c.at = "done" => c.shown = <<Truth(pid), Truth(pid)>>

Right07 ==
    /\ pid = Last
    /\ \A u \in Users : /\ call[u].at \notin ListCall
                        /\ Undisturbed(call[u]) => Exact07(call[u])

RightList == AllStored /\ \A u \in Users : Undisturbed(call[u]) => ExactList(call[u])

ExactInv ==
    /\ Alone
    /\ \A m \in Modules : at[m] = "dir" => written = <<>> /\ pid = Unset
    /\ file = "lab_07" => Right07
    /\ clean /\ file \in Lists => RightList

ReadInv == CrashInv /\ OrderInv /\ Own07

(* A call that begins disturbs all the others. *)
LEMMA BeginAlone ==
    ASSUME CallInv, NEW u \in Users, NEW new \in Calls, Begin(u, new)
    PROVE  /\ \A v \in Users \ {u} : ~Undisturbed(call'[v])
           /\ Alone'
<1>1. Moved(u, new)
  BY BeginMoves
<1>2. \A v \in Users \ {u} : call'[v].lone = FALSE
  <2>1. \A v \in Users \ {u} : call'[v] = [call[v] EXCEPT !.lone = FALSE]
    BY DEF Begin
  <2> QED
    BY <2>1 DEF CallInv, DataType, Calls
<1>3. call'[u].lone = (\A w \in Users \ {u} : Resting(w))
  <2>1. call'[u] = [new EXCEPT !.lone = \A w \in Users \ {u} : Resting(w)]
    BY DEF Begin
  <2> QED
    BY <2>1 DEF Calls
<1>4. \A v \in Users \ {u} : call'[v].at = call[v].at
  BY <1>1 DEF Moved, Same
<1> QED
  BY <1>2, <1>3, <1>4 DEF Undisturbed, Alone, Resting

(* A call that goes on has been disturbed, or the others rest. *)
LEMMA StepAlone ==
    ASSUME CallInv, Alone, NEW u \in Users, NEW new \in Calls, NEW from,
           Step(u, from, new), from \notin {"idle", "done"},
           Undisturbed(new) => Undisturbed(call[u])
    PROVE  /\ \A v \in Users \ {u} : ~Undisturbed(call'[v])
           /\ call'[u] = new
           /\ Alone'
<1>1. call' = [call EXCEPT ![u] = new] /\ ~Resting(u)
  BY DEF Step, Resting
<1>2. \A v \in Users \ {u} : call'[v] = call[v] /\ ~Undisturbed(call[v])
  BY <1>1 DEF CallInv, DataType, Alone
<1>3. call'[u] = new
  BY <1>1 DEF CallInv, DataType
<1> QED
  BY <1>2, <1>3 DEF Alone, Resting

(* What a step of a user has to keep. *)
LEMMA ExactMoves ==
    ASSUME ReadInv, ExactInv, NEW u \in Users, NEW new \in Calls, Moved(u, new), Alone',
           \A v \in Users \ {u} : ~Undisturbed(call'[v]),
           file = "lab_07" =>
               /\ pid' = Last' /\ new.at \notin ListCall
               /\ Undisturbed(call'[u]) => Exact07(call[u])',
           clean' /\ file \in Lists =>
               AllStored' /\ (Undisturbed(call'[u]) => ExactList(call[u])')
    PROVE  ExactInv'
<1>1. UNCHANGED <<at, file>> /\ file # None
  BY DEF Moved, entries
<1>2. \A m \in Modules : at'[m] # "dir"
  BY <1>1 DEF ReadInv, CrashInv, EntryInv
<1>3. ASSUME file = "lab_07"
      PROVE  Right07'
  <2>1. \A v \in Users : call'[v].at \notin ListCall
    BY <1>3 DEF ExactInv, Right07, Moved, Same
  <2> QED
    BY <1>3, <2>1 DEF Right07
<1>4. ASSUME clean', file \in Lists
      PROVE  RightList'
  BY <1>4 DEF RightList
<1> QED
  BY <1>1, <1>2, <1>3, <1>4 DEF ExactInv

(* A reader of a list, as long as no number is to be stored by it. *)
LEMMA AllStoredByReader ==
    ASSUME AllStored, NEW u \in Users, NEW new \in Calls, Moved(u, new),
           call[u].at # "store", UNCHANGED <<pids, written>>
    PROVE  AllStored'
<1>1. \A v \in Users : call[v].at = "store" => Same(call'[v], call[v])
  BY DEF Moved
<1> QED
  BY <1>1 DEF AllStored, Same

\* A write disturbs every reader that is under way.
LEMMA WriterExactStep ==
    ASSUME ReadInv, ExactInv, NEW u \in Users,
           \/ \E p \in Pids : WritePid(u, p) \/ LoadCount(u, p)
           \/ StoreCount(u) \/ StorePid(u)
    PROVE  ExactInv'
<1>1. CallInv /\ EntryInv /\ Alone /\ OrderInv
  BY DEF ReadInv, CrashInv, ExactInv
<1>2. /\ written \in Seq(Pids) /\ Len(written) \in Nat /\ pid_count \in Nat
      /\ pids \in [0 .. Size - 1 -> Numbers] /\ Size \in Nat
      /\ call \in [Users -> Calls]
  BY <1>1, ConstantsAssumption DEF CallInv, DataType
<1>3. /\ [Idle EXCEPT !.at = "done"] \in Calls
      /\ [Idle EXCEPT !.at = "done"].at = "done" /\ [Idle EXCEPT !.at = "done"].shown = <<>>
  BY IdleIsCall DEF Calls, Doing
<1>4. ASSUME NEW p \in Pids, WritePid(u, p)
      PROVE  ExactInv'
  <2> DEFINE new == [Idle EXCEPT !.at = "done"]
  <2>1. Moved(u, new) /\ Alone' /\ \A v \in Users \ {u} : ~Undisturbed(call'[v])
    BY <1>1, <1>3, <1>4, BeginMoves, BeginAlone DEF WritePid
  <2>2. new \in Calls /\ new.at = "done" /\ new.shown = <<>>
    BY <1>3
  <2> HIDE DEF new
  <2>3. ~Undisturbed(call'[u])
    BY <2>1, <2>2 DEF Moved, Same, Undisturbed
  <2>4. file = "lab_07" /\ pid' = p /\ written' = Append(written, p)
    BY <1>4 DEF WritePid
  <2>5. written' # <<>> /\ written'[Len(written')] = p
    BY <1>2, <2>4
  <2>6. pid' = Last'
    BY <2>4, <2>5 DEF Last
  <2> QED
    BY <2>1, <2>2, <2>3, <2>4, <2>6, ExactMoves DEF ListCall, Lists
<1>5. ASSUME NEW p \in Pids, LoadCount(u, p)
      PROVE  ExactInv'
  <2> DEFINE new == [Idle EXCEPT !.at = "store", !.pid = p, !.pos = pid_count,
                                 !.left = {"count", "pid"}]
  <2>1. /\ new \in Calls /\ new.at = "store" /\ new.pos = pid_count
        /\ new.left = {"count", "pid"}
    BY <1>2, IdleIsCall DEF Calls, Doing, Numbers
  <2>2. Moved(u, new) /\ Alone' /\ \A v \in Users \ {u} : ~Undisturbed(call'[v])
    BY <1>1, <1>5, <2>1, BeginMoves, BeginAlone DEF LoadCount
  <2>3. file \in Lists /\ written' = Append(written, p) /\ UNCHANGED <<pids, pid_count>>
    BY <1>5 DEF LoadCount, data
  <2>4. clean' => clean /\ \A v \in Users : call[v].at # "store"
    BY <1>5 DEF LoadCount
  <2> HIDE DEF new
  <2>5. Same(call'[u], new)
    BY <2>2 DEF Moved
  <2>6. ASSUME clean'
        PROVE  AllStored'
    <3>1. pid_count = Len(written) /\ AllStored
      BY <1>1, <2>3, <2>4, <2>6 DEF OrderInv, OneWriter, ExactInv, RightList
    <3>2. \A i \in 0 .. Size - 1 : i < Len(written) => pids[i] = written[i + 1]
      BY <2>4, <2>6, <3>1 DEF AllStored
    <3>3. Len(written') = Len(written) + 1 /\ \A k \in 1 .. Len(written) : written'[k] = written[k]
      BY <1>2, <2>3
    <3>4. /\ call'[u].at = "store" /\ "pid" \in call'[u].left /\ call'[u].pos = Len(written)
      BY <2>1, <2>5, <3>1 DEF Same
    <3>5. ASSUME NEW i \in 0 .. Size - 1, i < Len(written')
          PROVE  \/ pids'[i] = written'[i + 1]
                 \/ call'[u].pos = i
      <4>1. CASE i < Len(written)
        <5>1. i + 1 \in 1 .. Len(written)
          BY <1>2, <4>1
        <5> QED
          BY <2>3, <3>2, <3>3, <4>1, <5>1
      <4>2. CASE i = Len(written)
        BY <3>4, <4>2
      <4> QED
        BY <1>2, <3>3, <3>5, <4>1, <4>2
    <3> QED
      BY <3>4, <3>5 DEF AllStored
  <2>7. ~Undisturbed(call'[u])
    BY <2>1, <2>5 DEF Same, Undisturbed
  <2>8. file # "lab_07"
    BY <2>3 DEF Lists
  <2> QED
    BY <2>1, <2>2, <2>6, <2>7, <2>8, ExactMoves
<1>6. ASSUME StoreCount(u) \/ StorePid(u)
      PROVE  ExactInv'
  <2>1. PICK what \in {"count", "pid"} :
             /\ Stored(u, what)
             /\ IF what = "count" THEN StoreCount(u) ELSE StorePid(u)
    BY <1>6 DEF StoreCount, StorePid
  <2> DEFINE left == call[u].left \ {what}
             new == IF left = {} THEN [Idle EXCEPT !.at = "done"] ELSE [call[u] EXCEPT !.left = left]
  <2>2. /\ call[u] \in Calls /\ call[u].at = "store" /\ call[u].left \subseteq {"count", "pid"}
        /\ call[u].pos \in Nat /\ what \in call[u].left
    BY <1>2, <2>1 DEF Stored, Step, Calls
  <2>3. /\ new \in Calls
        /\ IF left = {} THEN new.at = "done" /\ new.shown = <<>>
           ELSE new.at = "store" /\ new.pos = call[u].pos /\ new.left = left
    BY <1>3, <2>2 DEF Calls
  <2>4. ~Undisturbed(new)
    BY <2>3 DEF Undisturbed
  <2>5. Step(u, "store", new)
    BY <2>1 DEF Stored
  <2>6. /\ Moved(u, new) /\ Alone' /\ call'[u] = new
        /\ \A v \in Users \ {u} : ~Undisturbed(call'[v])
    BY <1>1, <2>3, <2>4, <2>5, StepMoves, StepAlone
  <2> HIDE DEF new
  <2>7. file # "lab_07"
    BY <2>2 DEF ExactInv, Right07, ListCall
  <2>8. UNCHANGED <<written, clean>>
    BY <2>1 DEF Stored, history
  <2>9. ASSUME clean', file \in Lists
        PROVE  AllStored'
    <3>1. /\ AllStored
          /\ \A v \in Users : call[v].at = "store" => v = u
          /\ call[u].pos = Len(written) - 1 /\ call[u].pid = written[Len(written)]
      BY <1>1, <2>2, <2>8, <2>9 DEF ExactInv, RightList, OrderInv, OneWriter
    <3>2. CASE what = "count"
      <4>1. UNCHANGED pids
        BY <2>1, <3>2 DEF StoreCount
      <4>2. "pid" \in call[u].left =>
              call'[u].at = "store" /\ "pid" \in call'[u].left /\ call'[u].pos = call[u].pos
        BY <2>3, <2>6, <3>2
      <4> QED
        BY <2>8, <3>1, <4>1, <4>2 DEF AllStored
    <3>3. CASE what = "pid"
      <4>1. pids' = [pids EXCEPT ![call[u].pos] = call[u].pid]
        BY <2>1, <3>3 DEF StorePid
      <4>2. ASSUME NEW i \in 0 .. Size - 1, i < Len(written)
            PROVE  pids'[i] = written[i + 1]
        <5>1. CASE i = call[u].pos
          BY <1>2, <3>1, <4>1, <5>1
        <5>2. CASE i # call[u].pos
          BY <1>2, <3>1, <4>1, <4>2, <5>2 DEF AllStored
        <5> QED
          BY <5>1, <5>2
      <4> QED
        BY <2>8, <4>2 DEF AllStored
    <3> QED
      BY <3>2, <3>3
  <2> QED
    BY <2>3, <2>4, <2>6, <2>7, <2>9, ExactMoves
<1> QED
  BY <1>4, <1>5, <1>6

\* A reader who is alone need only be looked at himself.
LEMMA ReaderExact ==
    ASSUME ReadInv, ExactInv, NEW u \in Users, NEW new \in Calls, Moved(u, new), Alone',
           \A v \in Users \ {u} : ~Undisturbed(call'[v]),
           UNCHANGED <<pid, pids, history>>, call[u].at # "store",
           file = "lab_07" =>
               new.at \notin ListCall /\ (Undisturbed(call'[u]) => Exact07(call[u])'),
           clean /\ file \in Lists => (Undisturbed(call'[u]) => ExactList(call[u])')
    PROVE  ExactInv'
<1>1. UNCHANGED <<written, clean>>
  BY DEF history
<1>2. file = "lab_07" => pid' = Last'
  BY <1>1 DEF ExactInv, Right07, Last
<1>3. clean' /\ file \in Lists => AllStored'
  BY <1>1, AllStoredByReader DEF ExactInv, RightList
<1> QED
  BY <1>1, <1>2, <1>3, ExactMoves

\* A reader who begins has shown nothing yet.
LEMMA OpenExactStep ==
    ASSUME ReadInv, ExactInv, NEW u \in Users, Open(u) \/ Read07(u)
    PROVE  ExactInv'
<1>1. CallInv /\ Alone
  BY DEF ReadInv, CrashInv, ExactInv
<1>2. PICK place \in {"loop", "first", "lookup07"} :
           /\ Begin(u, [Idle EXCEPT !.at = place])
           /\ place = "loop" => file \in Lists
           /\ place = "first" => pid = Unset
  BY DEF Open, Read07
<1> DEFINE new == [Idle EXCEPT !.at = place]
<1>3. new \in Calls /\ new.at = place /\ new.shown = <<>> /\ new.text = NoText
  BY IdleIsCall DEF Calls, Doing, Idle
<1>4. UNCHANGED <<pid, pids, history>> /\ call[u].at # "store"
  BY DEF Open, Read07, data, Begin, Resting
<1>5. Moved(u, new) /\ Alone' /\ \A v \in Users \ {u} : ~Undisturbed(call'[v])
  BY <1>1, <1>2, <1>3, BeginMoves, BeginAlone
<1> HIDE DEF new
<1>6. call'[u].at = place /\ call'[u].shown = <<>> /\ call'[u].text = NoText
  BY <1>3, <1>5 DEF Moved, Same
<1>7. ExactList(call[u])'
  BY <1>6 DEF ExactList
<1>8. place = "first" => NoText = Truth(pid)'
  <2>1. ASSUME place = "first"
        PROVE  pid' = Unset /\ (pid' \in alive') = FALSE
    BY <1>1, <1>2, <1>4, <1>5, <2>1, ConstantsAssumption DEF Moved, CallInv, DataType
  <2> QED
    BY <2>1 DEF Truth, NoText
<1>9. file = "lab_07" => place # "loop" /\ Exact07(call[u])'
  BY <1>2, <1>6, <1>8 DEF Exact07, Lists
<1> QED
  BY <1>3, <1>4, <1>5, <1>7, <1>9, ReaderExact DEF ListCall

(* A step within a call of a reader. *)
LEMMA ReadStepExact ==
    ASSUME ReadInv, ExactInv, NEW u \in Users, NEW new \in Calls, NEW from,
           Step(u, from, new), from \notin {"idle", "done", "store"},
           UNCHANGED <<pid, pids, history>>,
           Undisturbed(new) => Undisturbed(call[u]),
           Undisturbed(new) /\ file = "lab_07" => Exact07(call[u])',
           Undisturbed(new) /\ clean /\ file \in Lists => ExactList(call[u])',
           file = "lab_07" => new.at \notin ListCall
    PROVE  ExactInv'
<1>1. CallInv /\ Alone
  BY DEF ReadInv, CrashInv, ExactInv
<1>2. Moved(u, new) /\ call[u].at # "store"
  BY <1>1, StepMoves DEF Step
<1>3. /\ \A v \in Users \ {u} : ~Undisturbed(call'[v])
      /\ call'[u] = new /\ Alone'
  BY <1>1, StepAlone
<1> QED
  BY <1>2, <1>3, ReaderExact

\* A reader of a list shows what is stored in it.
LEMMA ListReaderExactStep ==
    ASSUME ReadInv, ExactInv, NEW u \in Users,
           More(u) \/ NoMore(u) \/ Repeat(u) \/ Lookup(u) \/ Show(u)
    PROVE  ExactInv'
<1> DEFINE c == call[u]
<1>1. CallInv /\ OrderInv /\ Alone
  BY DEF ReadInv, CrashInv, ExactInv
<1>2. /\ c \in Calls /\ c.pos \in Nat /\ c.shown \in Seq(Text) /\ c.text \in Text
      /\ written \in Seq(Pids) /\ Len(written) \in Nat /\ pid_count \in Nat
      /\ pids \in [0 .. Size - 1 -> Numbers] /\ Size \in Nat
      /\ NoText \in Text /\ <<>> \in Seq(Text)
  BY <1>1, IdleIsCall, ConstantsAssumption DEF CallInv, DataType, Calls
<1>3. c.at \in {"loop", "lookup", "print"} /\ UNCHANGED <<data, history, alive>>
  BY DEF More, NoMore, Repeat, Lookup, Show, Step
<1>4. file # "lab_07" /\ Resting(u) = FALSE
  BY <1>3 DEF ExactInv, Right07, ListCall, Resting
<1>5. \A v \in Users \ {u} : Undisturbed(c) => call[v].at # "store"
  BY <1>1 DEF Alone, Resting
<1>6. UNCHANGED <<pid, pids, written>> /\ UNCHANGED history
  BY <1>3 DEF data, history
<1>7. ASSUME clean, file \in Lists
      PROVE  /\ AllStored /\ Len(c.shown) = c.pos
             /\ \A k \in DOMAIN c.shown : k <= Len(written)
             /\ Undisturbed(c) => ExactList(c) /\ pid_count = Len(written)
  <2>1. AllStored /\ OneWriter /\ Told(c, written) /\ (Undisturbed(c) => ExactList(c))
    BY <1>1, <1>7 DEF OrderInv, ExactInv, RightList
  <2>2. Undisturbed(c) => pid_count = Len(written)
    BY <1>3, <1>5, <2>1 DEF OneWriter
  <2> QED
    BY <1>3, <2>1, <2>2 DEF Told
<1>8. ASSUME NEW new \in Calls, NEW from, Step(u, from, new),
             new.at \in {"loop", "lookup", "print", "done"}, new.lone = c.lone,
             Undisturbed(c) /\ clean /\ file \in Lists => ExactList(new)
      PROVE  ExactInv'
  <2>1. from \notin {"idle", "done", "store"} /\ call'[u] = new
    BY <1>1, <1>3, <1>8 DEF Step, CallInv, DataType
  <2>2. Undisturbed(new) => Undisturbed(c)
    BY <1>3, <1>8 DEF Undisturbed
  <2>3. ExactList(new) => ExactList(call[u])'
    BY <1>3, <1>6, <2>1 DEF ExactList, Truth
  <2> QED
    BY <1>4, <1>6, <1>8, <2>1, <2>2, <2>3, ReadStepExact
<1>9. CASE More(u) \/ Repeat(u)
  <2>1. PICK new : /\ Step(u, "loop", new)
                   /\ \/ new = [c EXCEPT !.at = "lookup"]
                      \/ new = [c EXCEPT !.again = TRUE, !.pos = 0, !.shown = <<>>]
    BY <1>9 DEF More, Repeat
  <2>2. c.at = "loop"
    BY <2>1 DEF Step
  <2>3. /\ new \in Calls /\ new.at \in {"loop", "lookup"} /\ new.lone = c.lone
        /\ new.shown = c.shown \/ new.shown = <<>>
    <3>1. CASE new = [c EXCEPT !.at = "lookup"]
      BY <1>2, <3>1 DEF Calls, Doing
    <3>2. CASE new = [c EXCEPT !.again = TRUE, !.pos = 0, !.shown = <<>>]
      BY <1>2, <2>2, <3>2 DEF Calls, Doing
    <3> QED
      BY <2>1, <3>1, <3>2
  <2>4. ExactList(c) => ExactList(new)
    BY <2>3 DEF ExactList
  <2> QED
    BY <1>7, <1>8, <2>1, <2>3, <2>4
<1>10. CASE NoMore(u)
  <2> DEFINE new == [c EXCEPT !.at = "done"]
  <2>1. new \in Calls /\ new.at = "done" /\ new.lone = c.lone /\ new.shown = c.shown
    BY <1>2 DEF Calls, Doing
  <2>2. Step(u, "loop", new) /\ c.pos >= pid_count
    BY <1>10 DEF NoMore
  <2> HIDE DEF new
  <2>3. ASSUME clean, file \in Lists, Undisturbed(c)
        PROVE  ExactList(new)
    <3>1. Len(c.shown) >= Len(written)
      BY <1>7, <2>2, <2>3
    <3>2. Len(c.shown) <= Len(written)
      <4>1. CASE Len(c.shown) = 0
        BY <1>2, <4>1
      <4>2. CASE Len(c.shown) # 0
        <5>1. Len(c.shown) \in DOMAIN c.shown
          BY <1>2, <4>2
        <5> QED
          BY <1>7, <2>3, <5>1
      <4> QED
        BY <4>1, <4>2
    <3>3. Len(c.shown) = Len(written)
      BY <1>2, <3>1, <3>2
    <3> QED
      BY <1>7, <2>1, <2>3, <3>3 DEF ExactList
  <2> QED
    BY <1>8, <2>1, <2>2, <2>3
<1>11. CASE Lookup(u)
  <2> DEFINE p == pids[c.pos]
             new == [c EXCEPT !.at = "print", !.pid = p, !.text = <<p, p \in alive>>]
  <2>1. c.at = "lookup" /\ c.pos \in 0 .. Size - 1 /\ p \in Numbers /\ c.pos < Len(written)
    BY <1>1, <1>2, <1>11 DEF Lookup, Step, CallInv
  <2>2. <<p, p \in alive>> \in Text
    <3>1. (p \in alive) \in BOOLEAN
      OBVIOUS
    <3> QED
      BY <2>1, <3>1 DEF Text
  <2>3. /\ new \in Calls /\ new.at = "print" /\ new.shown = c.shown /\ new.lone = c.lone
        /\ new.pos = c.pos /\ new.text = <<p, p \in alive>>
    BY <1>2, <2>1, <2>2 DEF Calls, Doing
  <2>4. Step(u, "lookup", new)
    BY <1>11 DEF Lookup
  <2> HIDE DEF new
  <2>5. ASSUME clean, file \in Lists, Undisturbed(c)
        PROVE  ExactList(new)
    <3>1. \A v \in Users : call[v].at # "store"
      BY <1>3, <1>5, <2>5
    <3>2. p = written[c.pos + 1]
      BY <1>7, <2>1, <2>5, <3>1 DEF AllStored
    <3>3. new.text = Truth(written[new.pos + 1])
      BY <2>3, <3>2 DEF Truth
    <3>4. ExactList(c)
      BY <1>7, <2>5
    <3> QED
      BY <2>3, <3>3, <3>4 DEF ExactList
  <2> QED
    BY <1>8, <2>3, <2>4, <2>5
<1>12. CASE Show(u)
  <2> DEFINE shown == Append(c.shown, c.text)
             new == [c EXCEPT !.at = "loop", !.pos = @ + 1, !.text = NoText,
                              !.shown = Append(@, c.text)]
  <2>1. shown \in Seq(Text) /\ c.pos + 1 \in Nat
    BY <1>2
  <2>2. new \in Calls /\ new.at = "loop" /\ new.shown = shown /\ new.lone = c.lone
    BY <1>2, <2>1 DEF Calls, Doing
  <2>3. Step(u, "print", new) /\ c.at = "print"
    BY <1>12 DEF Show, Step
  <2> HIDE DEF new
  <2>4. /\ DOMAIN shown = 1 .. Len(c.shown) + 1 /\ shown[Len(c.shown) + 1] = c.text
        /\ \A k \in 1 .. Len(c.shown) : shown[k] = c.shown[k]
        /\ DOMAIN c.shown = 1 .. Len(c.shown) /\ Len(c.shown) \in Nat
    BY <1>2
  <2> HIDE DEF shown
  <2>5. ASSUME clean, file \in Lists, Undisturbed(c)
        PROVE  ExactList(new)
    <3>1. /\ \A k \in DOMAIN c.shown : c.shown[k] = Truth(written[k])
          /\ c.text = Truth(written[Len(c.shown) + 1])
      BY <1>7, <2>3, <2>5 DEF ExactList
    <3>2. ASSUME NEW k \in DOMAIN shown
          PROVE  shown[k] = Truth(written[k])
      <4>1. CASE k \in 1 .. Len(c.shown)
        BY <2>4, <3>1, <4>1
      <4>2. CASE k = Len(c.shown) + 1
        BY <2>4, <3>1, <4>2
      <4> QED
        BY <2>4, <4>1, <4>2
    <3> QED
      BY <2>2, <3>2 DEF ExactList
  <2> QED
    BY <1>8, <2>2, <2>3, <2>5
<1> QED
  BY <1>9, <1>10, <1>11, <1>12

\* A reader of lab_07 shows the two lines of the process asked for.
LEMMA Reader07ExactStep ==
    ASSUME ReadInv, ExactInv, NEW u \in Users,
           \/ Lookup07(u) \/ Fields07(u) \/ Copy07(u)
           \/ Format(u, 1, "first", "second") \/ Format(u, 2, "second", "copy")
    PROVE  ExactInv'
<1> DEFINE c == call[u]
<1>1. CallInv /\ Alone
  BY DEF ReadInv, CrashInv, ExactInv
<1>2. /\ c \in Calls /\ c.text \in Text /\ NoText \in Text /\ pid \in Numbers
      /\ output_buf \in [1 .. 2 -> Text]
  BY <1>1, IdleIsCall DEF CallInv, DataType, Calls
<1>3. c.at \in Reading07 /\ UNCHANGED <<pid, pids, history, alive, file>>
  BY DEF Lookup07, Fields07, Copy07, Format, Step, data, Reading07, entries
<1>4. file = "lab_07" /\ file \notin Lists
  BY <1>3 DEF ReadInv, Own07, Lists
<1>5. Undisturbed(c) => Exact07(c)
  BY <1>4 DEF ExactInv, Right07
<1>6. ASSUME NEW new \in Calls, NEW from, Step(u, from, new),
             new.at \in Reading07 \cup {"done"}, new.lone = c.lone,
             Undisturbed(c) => Exact07(call[u])'
      PROVE  ExactInv'
  <2>1. from = c.at /\ from \notin {"idle", "done", "store"}
    BY <1>3, <1>6 DEF Step, Reading07
  <2>2. Undisturbed(new) => Undisturbed(c)
    BY <1>3, <1>6 DEF Undisturbed, Reading07
  <2>3. new.at \notin ListCall
    BY <1>6 DEF ListCall, Reading07
  <2> QED
    BY <1>3, <1>4, <1>6, <2>1, <2>2, <2>3, ReadStepExact
<1>7. ASSUME NEW new, NEW from, Step(u, from, new)
      PROVE  call'[u] = new
  BY <1>1, <1>7 DEF Step, CallInv, DataType
<1>8. CASE Lookup07(u)
  <2> DEFINE new == [c EXCEPT !.at = "fields", !.pid = pid, !.text = <<pid, pid \in alive>>]
  <2>1. <<pid, pid \in alive>> \in Text
    <3>1. (pid \in alive) \in BOOLEAN
      OBVIOUS
    <3> QED
      BY <1>2, <3>1 DEF Text
  <2>2. /\ new \in Calls /\ new.at = "fields" /\ new.lone = c.lone
        /\ new.text = <<pid, pid \in alive>>
    BY <1>2, <2>1 DEF Calls, Doing
  <2>3. Step(u, "lookup07", new)
    BY <1>8 DEF Lookup07
  <2> HIDE DEF new
  <2>4. call'[u] = new
    BY <1>7, <2>3
  <2>5. Exact07(call[u])'
    BY <1>3, <2>2, <2>4 DEF Exact07, Truth
  <2> QED
    BY <1>6, <2>2, <2>3, <2>5 DEF Reading07
<1>9. CASE Fields07(u)
  <2> DEFINE text == IF Found(u) THEN c.text ELSE <<pid, FALSE>>
             new == [c EXCEPT !.at = "first", !.text = text]
  <2>1. text \in Text
    BY <1>2 DEF Text
  <2> HIDE DEF text
  <2>2. new \in Calls /\ new.at = "first" /\ new.lone = c.lone /\ new.text = text
    BY <1>2, <2>1 DEF Calls, Doing
  <2>3. Step(u, "fields", new) /\ c.at = "fields"
    BY <1>9 DEF Fields07, Step, text
  <2> HIDE DEF new
  <2>4. call'[u] = new
    BY <1>7, <2>3
  <2>5. ASSUME Undisturbed(c)
        PROVE  text = Truth(pid)
    <3>1. c.text = Truth(pid)
      BY <1>5, <2>3, <2>5 DEF Exact07
    <3>2. CASE ~Found(u)
      <4>1. ASSUME pid \in alive
            PROVE  FALSE
        <5>1. (pid \in alive) = TRUE
          BY <4>1
        <5>2. c.text = <<pid, TRUE>>
          BY <3>1, <5>1 DEF Truth
        <5> QED
          BY <3>2, <5>2 DEF Found
      <4>2. (pid \in alive) = FALSE
        BY <4>1
      <4>3. text = <<pid, FALSE>>
        BY <3>2 DEF text
      <4> QED
        BY <4>2, <4>3 DEF Truth
    <3> QED
      BY <3>1, <3>2 DEF text
  <2>6. Undisturbed(c) => Exact07(call[u])'
    BY <1>3, <2>2, <2>4, <2>5 DEF Exact07, Truth
  <2> QED
    BY <1>6, <2>2, <2>3, <2>6 DEF Reading07
<1>10. ASSUME NEW half \in 1 .. 2, NEW from, NEW to,
              Format(u, half, from, to),
              \/ half = 1 /\ from = "first" /\ to = "second"
              \/ half = 2 /\ from = "second" /\ to = "copy"
       PROVE  ExactInv'
  <2> DEFINE new == [c EXCEPT !.at = to]
  <2>1. new \in Calls /\ new.at = to /\ new.lone = c.lone /\ new.text = c.text
    BY <1>2, <1>10 DEF Calls, Doing
  <2>2. Step(u, from, new) /\ c.at = from /\ output_buf' = [output_buf EXCEPT ![half] = c.text]
    BY <1>10 DEF Format, Step
  <2> HIDE DEF new
  <2>3. call'[u] = new
    BY <1>7, <2>2
  <2>4. /\ output_buf'[half] = c.text
        /\ half = 2 => output_buf'[1] = output_buf[1]
    BY <1>2, <1>10, <2>2
  <2>5. Undisturbed(c) => Exact07(call[u])'
    BY <1>3, <1>5, <1>10, <2>1, <2>2, <2>3, <2>4 DEF Exact07, Truth
  <2>6. new.at \in Reading07
    BY <1>10, <2>1 DEF Reading07
  <2> QED
    BY <1>6, <2>1, <2>2, <2>5, <2>6
<1>11. CASE Copy07(u)
  <2> DEFINE new == [c EXCEPT !.at = "done", !.text = NoText, !.shown = output_buf]
  <2>1. new \in Calls /\ new.at = "done" /\ new.lone = c.lone /\ new.shown = output_buf
    BY <1>2, PairIsSeq DEF Calls, Doing
  <2>2. Step(u, "copy", new) /\ c.at = "copy"
    BY <1>11 DEF Copy07, Step
  <2> HIDE DEF new
  <2>3. call'[u] = new
    BY <1>7, <2>2
  <2>4. ASSUME Undisturbed(c)
        PROVE  output_buf = <<Truth(pid), Truth(pid)>>
    <3>1. output_buf[1] = Truth(pid) /\ output_buf[2] = Truth(pid)
      BY <1>5, <2>2, <2>4 DEF Exact07
    <3> QED
      BY <1>2, <3>1
  <2>5. Undisturbed(c) => Exact07(call[u])'
    BY <1>3, <2>1, <2>3, <2>4 DEF Exact07, Truth
  <2> QED
    BY <1>6, <2>1, <2>2, <2>5
<1> QED
  BY <1>8, <1>9, <1>10, <1>11

(* Loading and unloading: nobody has been shown anything while there is no  *)
(* file.                                                                     *)
LEMMA EntryExactStep ==
    ASSUME ReadInv, ExactInv, module_init \/ module_exit
    PROVE  ExactInv'
<1>1. EntryInv /\ CallInv
  BY DEF ReadInv, CrashInv
<1>2. ASSUME file = None
      PROVE  \A u \in Users : Resting(u) /\ ~Undisturbed(call[u]) /\ call[u].at \notin ListCall
  BY <1>1, <1>2 DEF CallInv, Resting, Undisturbed, ListCall
<1>3. ASSUME NEW m \in Modules, Mkdir(m)
      PROVE  ExactInv'
  <2>1. /\ file = None /\ file' = None /\ call' = call
        /\ written' = <<>> /\ pid' = Unset
    BY <1>1, <1>3 DEF Mkdir, EntryInv, EntryType, EntriesOwned
  <2> QED
    BY <1>2, <2>1 DEF ExactInv, Alone, Lists, None
<1>4. ASSUME NEW m \in Modules, Create(m)
      PROVE  ExactInv'
  <2>1. /\ at[m] = "dir" /\ at' = [at EXCEPT ![m] = "file"] /\ file = None
        /\ UNCHANGED <<call, written, pid, clean>>
    BY <1>1, <1>4 DEF Create, Load, EntryInv, data, history
  <2>2. written = <<>> /\ pid = Unset
    BY <2>1 DEF ExactInv
  <2>3. Right07' /\ RightList' /\ Alone'
    BY <1>2, <2>1, <2>2 DEF Right07, RightList, AllStored, Alone, Last, Resting
  <2>4. \A n \in Modules : at'[n] = "dir" => at[n] = "dir"
    BY <1>1, <2>1 DEF EntryInv, EntryType
  <2> QED
    BY <2>1, <2>2, <2>3, <2>4 DEF ExactInv
<1>5. ASSUME NEW m \in Modules, Symlink(m) \/ InitFails(m) \/ Unlink(m) \/ Rmdir(m)
      PROVE  ExactInv'
  <2>1. /\ UNCHANGED <<file, call, data, history, alive>>
        /\ \E to \in Places \ {"dir"} : at' = [at EXCEPT ![m] = to]
    BY <1>5 DEF Symlink, InitFails, Unlink, Rmdir, Load, Places
  <2>2. \A n \in Modules : at'[n] = "dir" => at[n] = "dir"
    BY <1>1, <2>1 DEF EntryInv, EntryType
  <2>3. UNCHANGED <<pid, output_buf, pids, pid_count, written, clean>>
    BY <2>1 DEF data, history
  <2>4. (Right07 => Right07') /\ (RightList => RightList') /\ (Alone => Alone')
    BY <2>1, <2>3 DEF Right07, RightList, AllStored, Alone, Last, Resting, Exact07, ExactList, Truth
  <2> QED
    BY <2>1, <2>2, <2>3, <2>4 DEF ExactInv
<1>6. ASSUME NEW m \in Modules, RemoveFile(m)
      PROVE  ExactInv'
  <2>1. /\ file' = None /\ at' = [at EXCEPT ![m] = "rmdir"]
        /\ call' = [u \in Users |-> Idle] /\ UNCHANGED <<written, pid>>
    BY <1>6 DEF RemoveFile, Load, data, history
  <2>2. \A n \in Modules : at'[n] = "dir" => at[n] = "dir"
    BY <1>1, <2>1 DEF EntryInv, EntryType
  <2>3. Alone'
    BY <2>1, IdleIsCall DEF Alone, Resting
  <2> QED
    BY <2>1, <2>2, <2>3 DEF ExactInv, Lists, None
<1> QED
  BY <1>3, <1>4, <1>5, <1>6 DEF module_init, module_exit

\* ExactInv is inductive.
LEMMA ExactStep ==
    ASSUME ReadInv, ExactInv, [Next]_vars
    PROVE  ExactInv'
<1>1. ASSUME UNCHANGED <<entries, data, call, alive, history>>
      PROVE  ExactInv'
  <2>1. UNCHANGED <<at, file, pid, output_buf, pids, pid_count, call, alive, written, clean>>
    BY <1>1 DEF entries, data, history
  <2>2. (Right07 => Right07') /\ (RightList => RightList') /\ (Alone => Alone')
    BY <2>1 DEF Right07, RightList, AllStored, Alone, Last, Resting, Exact07, ExactList, Truth
  <2> QED
    BY <2>1, <2>2 DEF ExactInv
<1>2. ASSUME NEW p \in Pids, Die(p)
      PROVE  ExactInv'
  <2>1. UNCHANGED <<at, file, pid, pids, written, clean>>
    BY <1>2 DEF Die, entries, data, history
  <2>2. ASSUME NEW u \in Users
        PROVE  /\ call'[u].lone = FALSE /\ call'[u].at = call[u].at
               /\ call'[u].left = call[u].left /\ call'[u].pos = call[u].pos
    BY <1>2 DEF Die, ReadInv, CrashInv, CallInv, DataType, Calls
  <2>3. \A u \in Users : ~Undisturbed(call'[u])
    BY <2>2 DEF Undisturbed
  <2>4. Right07 => Right07'
    BY <2>1, <2>2, <2>3 DEF Right07, Last
  <2>5. AllStored => AllStored'
    <3> SUFFICES ASSUME AllStored, NEW i \in 0 .. Size - 1, i < Len(written),
                        pids[i] # written[i + 1]
                 PROVE  \E u \in Users : /\ call'[u].at = "store" /\ "pid" \in call'[u].left
                                         /\ call'[u].pos = i
      BY <2>1 DEF AllStored
    <3>1. PICK u \in Users : call[u].at = "store" /\ "pid" \in call[u].left /\ call[u].pos = i
      BY DEF AllStored
    <3> QED
      BY <2>2, <3>1
  <2> QED
    BY <2>1, <2>3, <2>4, <2>5 DEF ExactInv, RightList, Alone
<1>3. ASSUME NEW u \in Users, User(u)
      PROVE  ExactInv'
  <2>1. CASE Overrun(u) \/ ShowFaults(u) \/ FieldsFault07(u)
    BY <1>1, <2>1 DEF Overrun, ShowFaults, FieldsFault07, Break
  <2> QED
    BY <1>3, <2>1, WriterExactStep, OpenExactStep, ListReaderExactStep, Reader07ExactStep
       DEF User, Reader07
<1>4. Dangling => ExactInv'
  BY <1>1 DEF Dangling, Break
<1>5. UNCHANGED vars => ExactInv'
  BY <1>1 DEF vars
<1> QED
  BY <1>2, <1>3, <1>4, <1>5, EntryExactStep DEF Next

(* ExactWhenUndisturbed: see there.                                          *)
THEOREM UndisturbedReaderIsRight == Spec => []ExactWhenUndisturbed
<1>1. Init => ReadInv /\ ExactInv
  <2> SUFFICES ASSUME Init
               PROVE  ReadInv /\ ExactInv
    OBVIOUS
  <2>1. Idle.at = "idle"
    BY DEF Idle
  <2>2. OrderInv /\ Own07 /\ ExactInv
    BY <2>1 DEF Init, OrderInv, Own07, ExactInv, Alone, Resting, Reading07, Lists, None
  <2> QED
    BY <2>2, InitHolds DEF ReadInv
<1>2. ReadInv /\ ExactInv /\ [Next]_vars => (ReadInv /\ ExactInv)'
  BY ExactStep, CrashInvStep, OrderStep, Own07Step DEF ReadInv
<1>3. ReadInv /\ ExactInv => ExactWhenUndisturbed
  <2> SUFFICES ASSUME ReadInv, ExactInv, NEW u \in Users, clean,
                      call[u].at = "done", call[u].lone, call[u].shown # <<>>
               PROVE  IF file = "lab_07"
                      THEN call[u].shown = <<Truth(Last), Truth(Last)>>
                      ELSE call[u].shown = [k \in DOMAIN written |-> Truth(written[k])]
    BY DEF ExactWhenUndisturbed, Last
  <2>1. Undisturbed(call[u])
    BY DEF Undisturbed
  <2>2. CASE file = "lab_07"
    BY <2>1, <2>2 DEF ExactInv, Right07, Exact07
  <2>3. CASE file # "lab_07"
    <3>1. CallInv /\ EntryInv
      BY DEF ReadInv, CrashInv
    <3>2. file \in Lists
      BY <2>3, <3>1 DEF CallInv, EntryInv, EntryType, Modules
    <3>3. ExactList(call[u])
      BY <2>1, <3>2 DEF ExactInv, RightList
    <3>4. call[u].shown \in Seq(Text) /\ written \in Seq(Pids)
      BY <3>1 DEF CallInv, DataType, Calls
    <3>5. DOMAIN call[u].shown = DOMAIN written
      BY <3>3, <3>4 DEF ExactList
    <3>6. call[u].shown = [k \in DOMAIN call[u].shown |-> call[u].shown[k]]
      BY <3>4
    <3> QED
      BY <2>3, <3>3, <3>5, <3>6 DEF ExactList
  <2> QED
    BY <2>2, <2>3
<1> QED
  BY <1>1, <1>2, <1>3, PTL DEF Spec
=============================================================================
