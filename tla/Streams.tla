------------------------------ MODULE Streams ------------------------------
(* lab_12/src: fifteen programs in which two streams, or two descriptors,   *)
(* read or write one file of the letters a .. z, by turns or in two threads.*)
(*                                                                          *)
(* A program is the record of what tells it from the others: whether the    *)
(* two share one open file description, whether it is opened to append,     *)
(* whether stdio buffers it, and who runs the two loops.  Letters are       *)
(* numbered from 1; read(2) and write(2) move the offset atomically.        *)
EXTENDS Integers, Sequences, FiniteSets

CONSTANTS N,         \* the letters, 26 in the code
          BufSize,   \* what a buffered stream reads at a time, 20 in the code
          MaxStrays  \* bound on what is shown once main has returned

ASSUME LettersAssumption ==
    /\ N \in Nat \ {0} /\ N % 2 = 0
    /\ BufSize \in Nat \ {0}
    /\ MaxStrays \in Nat

Reader(shared, buffered, by) ==
    [mode |-> "read", shared |-> shared, append |-> FALSE, buffered |-> buffered, by |-> by]
Writer(append, buffered, by) ==
    [mode |-> "write", shared |-> FALSE, append |-> append, buffered |-> buffered, by |-> by]

(* testCIO_thread1.c detaches its threads and returns from main; in the     *)
(* programs without a 2 in the name the main thread runs one of the loops.  *)
first           == Reader(TRUE, TRUE, "turns")
testCIO_thread  == Reader(TRUE, TRUE, "threads")
testCIO_thread1 == Reader(TRUE, TRUE, "detached")
testCIO_thread2 == Reader(TRUE, TRUE, "threads")
second          == Reader(FALSE, FALSE, "turns")
second_thr      == Reader(FALSE, FALSE, "threads")
second_thr2     == Reader(FALSE, FALSE, "threads")
second_append   == Writer(TRUE, FALSE, "turns")
third           == Writer(FALSE, FALSE, "turns")
third_thr       == Writer(FALSE, FALSE, "threads")
third_thr2      == Writer(FALSE, FALSE, "threads")
fopen           == Writer(FALSE, TRUE, "turns")
fopen_append    == Writer(TRUE, TRUE, "turns")
fopen_thr       == Writer(FALSE, TRUE, "threads")
fopen_thr2      == Writer(FALSE, TRUE, "threads")

Programs == {first, testCIO_thread, testCIO_thread1, testCIO_thread2, second,
             second_thr, second_thr2, second_append, third, third_thr, third_thr2,
             fopen, fopen_append, fopen_thr, fopen_thr2}

VARIABLES
    prog,    \* the program
    main,    \* where main is: "run" until its loops are over; then it closes the streams
    turn,    \* whose turn it is, in the programs without threads
    going,   \* the loop of each stream has not ended
    pos,     \* the offset of each open file description
    buf,     \* the buffer of each stream; the variable c of a descriptor
    sent,    \* letters each writer has handed over
    file,    \* what the file holds
    out      \* standard output: which stream each letter came from, and the letter

streamsVars == <<prog, main, turn, going, pos, buf, sent, file, out>>

Streams == {1, 2}
Other(s) == 3 - s
Desc(s) == IF prog.shared THEN 1 ELSE s
Alphabet == [i \in 1 .. N |-> i]
Old == 0
Junk == -1  \* any character
Fopened == prog.mode = "write" /\ prog.buffered

(* abc2.txt is not truncated and may be there already; fopen "w" truncates. *)
StreamsInit ==
    /\ prog \in Programs
    /\ main = "run" /\ turn = 1
    /\ going = [s \in Streams |-> TRUE]
    /\ pos = [s \in Streams |-> 0]
    /\ buf = [s \in Streams |-> <<>>]
    /\ sent = [s \in Streams |-> 0]
    /\ file \in IF prog.mode = "read" THEN {Alphabet}
                ELSE {<<>>} \cup {[i \in 1 .. n |-> Old] :
                                  n \in IF Fopened /\ ~prog.append THEN {} ELSE {1, N}}
    /\ out = <<>>

(* By turns, one stream goes on alone when the other is at its end. *)
May(s) == /\ going[s] /\ main = "run"
          /\ prog.by = "turns" => turn = s \/ ~going[Other(s)]

----------------------------------------------------------------------------
(* The readers: fscanf or read, then fprintf. *)

\* Fault: the offset is read and moved in two steps of two threads.
FillRacing(s) ==
    LET d == Desc(s)
        n == IF prog.buffered THEN BufSize ELSE 1
        chunk == SubSeq(file, pos[d] + 1, IF pos[d] + n < N THEN pos[d] + n ELSE N)
    IN  /\ prog.mode = "read" /\ May(s) /\ buf[s] = <<>>
        /\ buf' = [buf EXCEPT ![s] = chunk]
        /\ \E m \in {0, Len(chunk)} : pos' = [pos EXCEPT ![d] = @ + m]
        /\ going' = [going EXCEPT ![s] = chunk # <<>>]
        /\ UNCHANGED <<prog, main, turn, sent, file, out>>

Fill(s) ==
    LET d == Desc(s)
        n == IF prog.buffered THEN BufSize ELSE 1
        chunk == SubSeq(file, pos[d] + 1, IF pos[d] + n < N THEN pos[d] + n ELSE N)
    IN  /\ prog.mode = "read" /\ May(s) /\ buf[s] = <<>>
        /\ buf' = [buf EXCEPT ![s] = chunk]
        /\ pos' = [pos EXCEPT ![d] = @ + Len(chunk)]
        /\ going' = [going EXCEPT ![s] = chunk # <<>>]
        /\ UNCHANGED <<prog, main, turn, sent, file, out>>

Show(s) ==
    /\ prog.mode = "read" /\ May(s) /\ buf[s] # <<>>
    /\ out' = Append(out, <<s, Head(buf[s])>>)
    /\ buf' = [buf EXCEPT ![s] = Tail(@)]
    /\ turn' = Other(s)
    /\ UNCHANGED <<prog, main, going, pos, sent, file>>

----------------------------------------------------------------------------
(* The writers: stream 1 has the letters a, c, e ..., stream 2 b, d, f ...  *)

Letters(s) == [k \in 1 .. N \div 2 |-> 2 * (k - 1) + s]

\* The file after a write of w at offset at.
Written(at, w) ==
    [i \in 1 .. IF at + Len(w) > Len(file) THEN at + Len(w) ELSE Len(file) |->
        IF i \in at + 1 .. at + Len(w) THEN w[i - at] ELSE file[i]]

\* Fault: O_APPEND is taken for a seek to the end when the file is opened.
WriteOutAtOffset(s, w) ==
    /\ file' = Written(pos[s], w)
    /\ pos' = [pos EXCEPT ![s] = @ + Len(w)]

WriteOut(s, w) ==
    LET at == IF prog.append THEN Len(file) ELSE pos[s]
    IN  /\ file' = Written(at, w)
        /\ pos' = [pos EXCEPT ![s] = at + Len(w)]

Write(s) ==
    LET letter == Letters(s)[sent[s] + 1]
    IN  /\ prog.mode = "write" /\ May(s)
        /\ IF prog.buffered
           THEN buf' = [buf EXCEPT ![s] = Append(@, letter)] /\ UNCHANGED <<file, pos>>
           ELSE WriteOut(s, <<letter>>) /\ UNCHANGED buf
        /\ sent' = [sent EXCEPT ![s] = @ + 1]
        /\ going' = [going EXCEPT ![s] = sent'[s] < N \div 2]
        /\ turn' = Other(s)
        /\ UNCHANGED <<prog, main, out>>

----------------------------------------------------------------------------
(* main *)

MainGoes(from, to) == main = from /\ main' = to /\ UNCHANGED <<prog, turn, going, sent>>

(* The loops are over, in the threads' case joined; closing a descriptor or *)
(* a stream at the end of its file leaves the file as it is.                *)
Join ==
    /\ prog.by # "detached" /\ \A s \in Streams : ~going[s]
    /\ MainGoes("run", IF Fopened THEN "fclose1" ELSE "end")
    /\ UNCHANGED <<pos, buf, file, out>>

Close(s, from, to) ==
    /\ MainGoes(from, to)
    /\ WriteOut(s, buf[s])
    /\ buf' = [buf EXCEPT ![s] = <<>>]
    /\ UNCHANGED out

fcloses == Close(1, "fclose1", "info1") \/ Close(2, "fclose2", "info2")

(* file_info asks ftell about a stream that has just been closed and freed: *)
(* a number or a crash, which leaves a stream that is still open unwritten. *)
file_info ==
    /\ \/ MainGoes("info1", "fclose2") \/ MainGoes("info2", "end")
       \/ MainGoes("info1", "crashed") \/ MainGoes("info2", "crashed")
    /\ UNCHANGED <<pos, buf, file, out>>

(* The detached threads have their buffers and arguments on the stack of    *)
(* main: what they print once it has returned is anything, if they do not   *)
(* crash; exit puts back the offset of what a stream has not consumed.      *)
MainReturns ==
    /\ prog.by = "detached"
    /\ MainGoes("run", "returned")
    /\ UNCHANGED <<pos, buf, file, out>>

Stray(s) ==
    /\ main = "returned" /\ going[s]
    /\ Cardinality({k \in DOMAIN out : out[k][2] = Junk}) < MaxStrays
    /\ out' = Append(out, <<s, Junk>>)
    /\ UNCHANGED <<prog, main, turn, going, pos, buf, sent, file>>

Cleanup(s) ==
    /\ main = "returned"
    /\ pos' = [pos EXCEPT ![1] = @ - Len(buf[s])]
    /\ buf' = [buf EXCEPT ![s] = <<>>]
    /\ UNCHANGED <<prog, main, turn, going, sent, file, out>>

Exit ==
    /\ MainGoes("returned", "end") \/ MainGoes("returned", "crashed")
    /\ UNCHANGED <<pos, buf, file, out>>

StreamsNext ==
    \/ \E s \in Streams : Fill(s) \/ Show(s) \/ Write(s) \/ Stray(s) \/ Cleanup(s)
    \/ Join \/ fcloses \/ file_info \/ MainReturns \/ Exit

StreamsSpec == StreamsInit /\ [][StreamsNext]_streamsVars
----------------------------------------------------------------------------
Count(i, seq) == Cardinality({k \in DOMAIN seq : seq[k] = i})
Printed == [k \in DOMAIN out |-> out[k][2]]

(* Streams that share a description divide the letters between them and     *)
(* descriptors of their own show each letter twice: what was shown or still *)
(* lies in a buffer is what the offsets have passed, neither lost nor       *)
(* doubled, and each stream shows its letters in order.  The threads of     *)
(* testCIO_thread1 keep to it until main returns.                           *)
Trustworthy == prog.by = "detached" => main = "run"

ReadOnce ==
    prog.mode = "read" /\ Trustworthy =>
        /\ \A i \in 1 .. N :
             Count(i, Printed \o buf[1] \o buf[2])
               = Cardinality({d \in {Desc(s) : s \in Streams} : i <= pos[d]})
        /\ \A j, k \in DOMAIN out : j < k /\ out[j][1] = out[k][1] => out[j][2] < out[k][2]
        /\ main = "end" => \A s \in Streams : buf[s] = <<>> /\ pos[Desc(s)] = N

(* Opened to append, the file keeps what it held and gains every letter     *)
(* once, unless a crash in file_info leaves out those of the second stream. *)
AppendKeepsAll ==
    prog.append /\ main \in {"end", "crashed"} =>
        /\ \A i \in 1 .. N : Count(i, file) = IF i % 2 = 0 /\ buf[2] # <<>> THEN 0 ELSE 1
        /\ \A j, k \in DOMAIN file :
             j < k /\ (file[j] - file[k]) % 2 = 0 => file[j] <= file[k]
        /\ \A j, k \in DOMAIN file : j < k /\ file[k] = Old => file[j] = Old
        /\ prog.by = "turns" /\ ~prog.buffered =>
             SubSeq(file, Len(file) - N + 1, Len(file)) = Alphabet

(* Otherwise the two overwrite each other: half of the letters are lost.    *)
(* Each place has the letter of one of them that belongs there; it is the   *)
(* second's where it writes last, by turns or from a buffer that is written *)
(* when it is closed; and what the file held beyond that stays.             *)
OverwriteKeepsHalf ==
    prog.mode = "write" /\ ~prog.append /\ main \in {"end", "crashed"} =>
        /\ Len(file) >= N \div 2
        /\ \A k \in 1 .. N \div 2 : file[k] \in {Letters(s)[k] : s \in Streams}
        /\ prog.by = "turns" \/ prog.buffered =>
             SubSeq(file, 1, N \div 2) = Letters(IF buf[2] = <<>> THEN 2 ELSE 1)
        /\ \A k \in N \div 2 + 1 .. Len(file) : file[k] = Old

(* What each of the eight writing programs leaves in the file. *)
FileAtTheEnd == AppendKeepsAll /\ OverwriteKeepsHalf
=============================================================================
