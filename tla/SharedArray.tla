---------------------------- MODULE SharedArray ----------------------------
(***************************************************************************)
(* What the readers-writers servers of lab_02 promise their clients: an    *)
(* array of letters on which every request takes effect at one instant.    *)
(* A READ request is answered with the whole array as it is at that        *)
(* instant.  A WRITE request takes the letter of a cell and marks the cell *)
(* busy, or is refused because the cell is busy already, or because there  *)
(* is no such cell.  Clients may go away at any time.  Nothing here        *)
(* speaks of processes, threads, semaphores or sockets.                    *)
(***************************************************************************)
EXTENDS Integers

CONSTANTS Clients,      \* who sends requests
          ARRAY_SIZE,   \* number of cells (serv.h)
          ARRAY_ELEMENT_BUSY, \* the mark of a taken cell (serv.h)
          NUL,          \* no letter
          OK, WRITE_BUSY_ERROR, RANGE_ERROR  \* response codes (serv.h)

VARIABLES cells,  \* the array
          phase,  \* where each client stands
          ans     \* the answer computed for it and not yet sent

avars == <<cells, phase, ans>>

ACells == 0 .. ARRAY_SIZE - 1

\* The array starts as 'a' + i % 26.
ALetter(i) == 97 + (i % 26)

Answer(rc, letter, array) == [rc |-> rc, letter |-> letter, array |-> array]
NoAnswer == Answer(OK, NUL, <<>>)

AInit ==
  /\ cells = [i \in ACells |-> ALetter(i)]
  /\ phase = [c \in Clients |-> "idle"]
  /\ ans = [c \in Clients |-> NoAnswer]

Ask(c, what) ==
  /\ phase[c] = "idle"
  /\ phase' = [phase EXCEPT ![c] = what]
  /\ UNCHANGED <<cells, ans>>

Answered(c, a) ==
  /\ phase' = [phase EXCEPT ![c] = "answered"]
  /\ ans' = [ans EXCEPT ![c] = a]

Snapshot(c) ==
  /\ phase[c] = "read"
  /\ Answered(c, Answer(OK, NUL, cells))
  /\ UNCHANGED cells

Take(c, i) ==
  /\ phase[c] = "write"
  /\ cells[i] # ARRAY_ELEMENT_BUSY
  /\ Answered(c, Answer(OK, cells[i], <<>>))
  /\ cells' = [cells EXCEPT ![i] = ARRAY_ELEMENT_BUSY]

RefuseBusy(c, i) ==
  /\ phase[c] = "write"
  /\ cells[i] = ARRAY_ELEMENT_BUSY
  /\ Answered(c, Answer(WRITE_BUSY_ERROR, NUL, <<>>))
  /\ UNCHANGED cells

RefuseRange(c) ==
  /\ phase[c] = "write"
  /\ Answered(c, Answer(RANGE_ERROR, NUL, <<>>))
  /\ UNCHANGED cells

\* The answer is sent and the client may ask again.
Deliver(c) ==
  /\ phase[c] = "answered"
  /\ phase' = [phase EXCEPT ![c] = "idle"]
  /\ ans' = [ans EXCEPT ![c] = NoAnswer]
  /\ UNCHANGED cells

\* Conversations end, whatever their state: one by one, or all at once when the
\* server stops; answers not sent are lost.
Leave(S) ==
  /\ \A c \in S : phase[c] # "gone"
  /\ phase' = [c \in Clients |-> IF c \in S THEN "gone" ELSE phase[c]]
  /\ ans' = [c \in Clients |-> IF c \in S THEN NoAnswer ELSE ans[c]]
  /\ UNCHANGED cells

ANext ==
  \/ \E c \in Clients :
       \/ Ask(c, "read") \/ Ask(c, "write")
       \/ Snapshot(c) \/ RefuseRange(c) \/ Deliver(c)
       \/ \E i \in ACells : Take(c, i) \/ RefuseBusy(c, i)
  \/ \E S \in SUBSET Clients : Leave(S)

ASpec == AInit /\ [][ANext]_avars
=============================================================================
