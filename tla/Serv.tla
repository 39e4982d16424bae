-------------------------------- MODULE Serv --------------------------------
(***************************************************************************)
(* lab_02/serv.h, and the definitions that the servers of lab_02 each      *)
(* repeat: the semaphores, the semop arrays, the array of letters.         *)
(*                                                                         *)
(* Letters, the busy mark and '\0' are the codes of these characters, so   *)
(* that a letter is no response code and '\0' is OK, as in the code.       *)
(***************************************************************************)
EXTENDS Integers, SysVSem

CONSTANT ARRAY_SIZE  \* 26 in serv.h

WRITE_QUEUE    == 0
READ_QUEUE     == 1
ACTIVE_WRITER  == 2
ACTIVE_READERS == 3
Sems == {WRITE_QUEUE, READ_QUEUE, ACTIVE_WRITER, ACTIVE_READERS}

V == 1
P == -1

\* Fault: a reader does not wait for the active writer.
StartReadBesideWriter == << Buf(READ_QUEUE, V), Buf(WRITE_QUEUE, 0),
                            Buf(ACTIVE_READERS, V), Buf(READ_QUEUE, P) >>

start_read  == << Buf(READ_QUEUE, V), Buf(WRITE_QUEUE, 0), Buf(ACTIVE_WRITER, 0),
                  Buf(ACTIVE_READERS, V), Buf(READ_QUEUE, P) >>
end_read    == << Buf(ACTIVE_READERS, P) >>
end_write   == << Buf(ACTIVE_WRITER, P) >>

OK == 0
WRITE_BUSY_ERROR == 1
RANGE_ERROR == 4

ARRAY_ELEMENT_BUSY == 35   \* '#'
NUL == 0                   \* '\0'
Cells == 0 .. ARRAY_SIZE - 1
Letter(i) == 97 + (i % 26)  \* 'a' + i % 26
Letters == {Letter(i) : i \in Cells}

\* The indices a client may send: those of the array and one beyond each end.
Indices == -1 .. ARRAY_SIZE

\* What a cell may hold, and a copy of some of the cells.
Contents == Letters \cup {ARRAY_ELEMENT_BUSY}
Copies == UNION {[D -> Contents] : D \in SUBSET Cells}
=============================================================================
