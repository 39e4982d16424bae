------------------------------ MODULE KeyWork ------------------------------
(* lab_11/workq.c: a kernel module whose handler of interrupt 1 stores the  *)
(* scancode in two work items and queues both; the works keep the state of  *)
(* the Shift and CapsLock keys and publish the last released key in /proc.  *)
(* lab_ipq/workq.c is the same module with an unbound queue, more keys that *)
(* are not shown, a sleep for the shown keys only, and a my_init that undoes*)
(* its steps in the opposite order; version says which one is loaded.       *)
(*                                                                          *)
(* The kernel is external.  What is used of it: the handler of a line never *)
(* runs on two CPUs at once, and nothing else runs on the CPU it interrupts;*)
(* free_irq waits for a running handler; queue_work does nothing for a work *)
(* that is queued already, and queues a work that is running somewhere on   *)
(* the CPU where it runs; a worker takes a work off the queue before it     *)
(* calls its function, and does not touch the work after the call; a bound  *)
(* queue with max_active = 1 runs one work at a time on each CPU, an unbound*)
(* one runs one at a time altogether, on any CPU; a queue being destroyed   *)
(* takes no more works.                                                     *)
EXTENDS Scancodes, Sequences, FiniteSets, SequencesExt

CONSTANTS
    Cpus,       \* the CPUs that may take the interrupt
    Typed       \* for each interrupt in turn the scancodes it may bring; its
                \* length bounds the interrupts of a behaviour

ASSUME ConstantsAssumption ==
    /\ Cpus # {} /\ IsFiniteSet(Cpus)
    /\ Typed \in Seq(SUBSET Bytes)

Codes == UNION Range(Typed)

Works == {"work1", "work2"}
Nobody == "nobody"

VARIABLES
    version,    \* the file that is loaded: "lab_11" or "lab_ipq"
    pc,         \* where my_init or my_exit is
    irq,        \* whether interrupt_handler is registered
    wq,         \* key_wq: "none", "up", "draining" or "gone"
    mem,        \* what work1 and work2 point to: "null", "raw", "ready" or "freed"
    handler,    \* the running interrupt_handler: step, CPU and byte read from the port
    code,       \* the field code of each work
    queue,      \* the works queued on each CPU
    worker,     \* the kworker of each CPU: step, work, local variables
    shift,      \* left_shift_pressed and right_shift_pressed
    caps,       \* caps_lock_active
    key_code, key_name,
    oops,       \* a stray pointer has been followed
    irqs,       \* interrupts so far, an index of Typed
    flush,      \* what flush_workqueue still waits for: runs of each work
    fresh,      \* history: the works whose code is newer than their last read
    late        \* history: when key_name was last stored, the modifiers no
                \* more gave the case it was stored in

module == <<version, pc, irq, wq, mem, flush>>
keys   == <<shift, caps, key_code, key_name, late>>
vars   == <<module, handler, code, queue, worker, keys, oops, irqs, fresh>>

NoCode == -1
Idle == [at |-> "idle", work |-> Nobody, code |-> NoCode,
         caps |-> FALSE, upper |-> FALSE]
NoHandler == [at |-> "none", cpu |-> Nobody, code |-> NoCode]

Locations == {"request_irq", "alloc_workqueue", "kmalloc1", "init1", "kmalloc2",
              "init2", "proc_create", "loaded", "flush", "free_irq", "destroy",
              "kfree", "gone"}

Init ==
    /\ version \in {"lab_11", "lab_ipq"}
    /\ pc = "request_irq" /\ irq = FALSE /\ wq = "none"
    /\ mem = [w \in Works |-> "null"]
    /\ handler = NoHandler
    /\ code = [w \in Works |-> NoCode]
    /\ queue = [c \in Cpus |-> <<>>]
    /\ worker = [c \in Cpus |-> Idle]
    /\ shift = {} /\ caps = FALSE
    /\ key_code = NoCode /\ key_name = <<NoCode, FALSE>>
    /\ oops = FALSE /\ irqs = 0
    /\ flush = [w \in Works |-> 0]
    /\ fresh = {} /\ late = FALSE

Queued(w)  == \E c \in Cpus : Contains(queue[c], w)
Running(w) == \E c \in Cpus : worker[c].work = w
Pointers(states) == \A w \in Works : mem[w] \in states

(* A thread runs on CPU c unless the handler has interrupted it there; the  *)
(* thread of my_init and my_exit may run on any CPU.                        *)
Uninterrupted(c) == handler.cpu # c
SomeCpu == \E c \in Cpus : Uninterrupted(c)

(* The CPU whose entries of queue and worker stand for the unbound queue    *)
(* and the one worker that serves it, on whatever CPU it runs.              *)
Home == CHOOSE c \in Cpus : TRUE

Arrows == {72, 75, 77, 80}

(* The releases that the works publish. *)
Displayed(k) == Shown(k) /\ (version = "lab_ipq" => PressCode(k) \notin Arrows)

should_use_uppercase == (shift # {}) # caps

----------------------------------------------------------------------------
(* interrupt_handler *)

Crash == oops' = TRUE /\ UNCHANGED <<module, handler, code, queue, worker, keys, irqs, fresh>>

Interrupt(c, k) ==
    /\ irq /\ handler = NoHandler /\ irqs < Len(Typed) /\ k \in Typed[irqs + 1]
    /\ handler' = [at |-> "work1", cpu |-> c, code |-> k]
    /\ irqs' = irqs + 1
    /\ UNCHANGED <<module, code, queue, worker, keys, oops, fresh>>

(* The two stores, then the two calls of queue_work. *)
HandlerNext == [work1 |-> "work2", work2 |-> "queue1", queue1 |-> "queue2", queue2 |-> "none"]

Advance == handler' = IF HandlerNext[handler.at] = "none" THEN NoHandler
                      ELSE [handler EXCEPT !.at = HandlerNext[handler.at]]

Store(w) ==
    /\ handler.at = w
    /\ mem[w] \notin {"null", "freed"}
    /\ code' = [code EXCEPT ![w] = handler.code]
    /\ fresh' = fresh \cup {w}
    /\ Advance
    /\ UNCHANGED <<module, queue, worker, keys, oops, irqs>>

StoreFaults(w) ==
    /\ handler.at = w
    /\ mem[w] \in {"null", "freed"}
    /\ Crash

(* queue_work, called on CPU c *)
queue_work(w, c) ==
    LET runsOn == {d \in Cpus : worker[d].work = w}
        target == IF version = "lab_ipq" THEN Home
                  ELSE IF runsOn = {} THEN c ELSE CHOOSE d \in runsOn : TRUE
    IN  queue' = IF Queued(w) \/ wq = "draining" THEN queue
                 ELSE [queue EXCEPT ![target] = Append(@, w)]

CanQueue(w) == mem[w] = "ready" /\ wq \in {"up", "draining"}

Queue(at, w) ==
    /\ handler.at = at
    /\ CanQueue(w)
    /\ queue_work(w, handler.cpu)
    /\ Advance
    /\ UNCHANGED <<module, code, worker, keys, oops, irqs, fresh>>

QueueFaults(at, w) ==
    /\ handler.at = at
    /\ ~CanQueue(w)
    /\ Crash

interrupt_handler ==
    \/ \E w \in Works : Store(w) \/ StoreFaults(w)
    \/ Queue("queue1", "work1") \/ QueueFaults("queue1", "work1")
    \/ Queue("queue2", "work2") \/ QueueFaults("queue2", "work2")

----------------------------------------------------------------------------
(* The kworker of CPU c takes a work and runs its function. *)

At(c, at) == /\ worker[c].at = at
             /\ IF version = "lab_ipq" THEN SomeCpu ELSE Uninterrupted(c)

Take(c) ==
    /\ At(c, "idle") /\ queue[c] # <<>> /\ mem[Head(queue[c])] # "freed"
    /\ worker' = [worker EXCEPT ![c].at = "read", ![c].work = Head(queue[c])]
    /\ queue' = [queue EXCEPT ![c] = Tail(@)]
    /\ UNCHANGED <<module, handler, code, keys, oops, irqs, fresh>>

Read(c) ==
    /\ At(c, "read") /\ mem[worker[c].work] # "freed"
    /\ worker' = [worker EXCEPT ![c].at = "switch", ![c].code = code[worker[c].work]]
    /\ fresh' = fresh \ {worker[c].work}
    /\ UNCHANGED <<module, handler, code, queue, keys, oops, irqs>>

(* A work that is freed while it is queued, or before its function has read *)
(* its code.                                                                *)
WorkFaults(c) ==
    /\ \/ At(c, "idle") /\ queue[c] # <<>> /\ mem[Head(queue[c])] = "freed"
       \/ At(c, "read") /\ mem[worker[c].work] = "freed"
    /\ Crash

Return(c) ==
    /\ worker' = [worker EXCEPT ![c] = Idle]
    /\ flush' = [flush EXCEPT ![worker[c].work] = IF @ > 0 THEN @ - 1 ELSE 0]
    /\ UNCHANGED <<version, pc, irq, wq, mem, handler, code, queue, oops, irqs, fresh>>

\* Fault: the release of the right key clears the left one.
ShiftAfterMixedUp(k) == CASE k = LeftShiftDown  -> shift \cup {"left"}
                          [] k = LeftShiftUp    -> shift \ {"left"}
                          [] k = RightShiftDown -> shift \cup {"right"}
                          [] k = RightShiftUp   -> shift \ {"left"}

ShiftAfter(k) == CASE k = LeftShiftDown  -> shift \cup {"left"}
                   [] k = LeftShiftUp    -> shift \ {"left"}
                   [] k = RightShiftDown -> shift \cup {"right"}
                   [] k = RightShiftUp   -> shift \ {"right"}

SwitchShift(c) ==
    /\ At(c, "switch") /\ worker[c].code \in Modifiers \ {CapsLockDown}
    /\ shift' = ShiftAfter(worker[c].code)
    /\ Return(c)
    /\ UNCHANGED <<caps, key_code, key_name, late>>

(* caps_lock_active = !caps_lock_active is a read and then a write *)
SwitchCaps(c) ==
    /\ At(c, "switch") /\ worker[c].code = CapsLockDown
    /\ worker' = [worker EXCEPT ![c].at = "toggle", ![c].caps = caps]
    /\ UNCHANGED <<module, handler, code, queue, keys, oops, irqs, fresh>>

Toggle(c) ==
    /\ At(c, "toggle")
    /\ caps' = ~worker[c].caps
    /\ Return(c)
    /\ UNCHANGED <<shift, key_code, key_name, late>>

(* fsleep or msleep: only work_fun1 (work_fun_slow), and only for a release, *)
(* in lab_ipq for one that is shown                                         *)
Sleep(c) ==
    /\ At(c, "switch")
    /\ worker[c].code \notin Modifiers /\ IsRelease(worker[c].code)
    /\ version = "lab_ipq" => Displayed(worker[c].code)
    /\ worker' = [worker EXCEPT ![c].at = "awake"]
    /\ UNCHANGED <<module, handler, code, queue, keys, oops, irqs, fresh>>

\* Fault: a work function waits for the release of the key it saw pressed.
IgnorePressForEver(c) ==
    /\ At(c, "switch")
    /\ worker[c].code \notin Modifiers /\ ~IsRelease(worker[c].code)
    /\ UNCHANGED vars

IgnorePress(c) ==
    /\ At(c, "switch")
    /\ worker[c].code \notin Modifiers /\ ~IsRelease(worker[c].code)
    /\ Return(c)
    /\ UNCHANGED keys

(* What publishes a key: the store of its code; should_use_uppercase, which *)
(* reads the keys one by one, the right Shift only if the left is up; and   *)
(* the store of its name, in the case that came out, even if the other work *)
(* has changed a key since.                                                 *)
SetCode(c, at) ==
    /\ At(c, at) /\ Displayed(worker[c].code)
    /\ key_code' = PressCode(worker[c].code)
    /\ worker' = [worker EXCEPT ![c].at = "left"]
    /\ UNCHANGED <<module, handler, code, queue, shift, caps, key_name, late, oops, irqs, fresh>>

TestShift(c, side, otherwise) ==
    /\ At(c, side)
    /\ worker' = [worker EXCEPT ![c].at = IF side \in shift THEN "caps" ELSE otherwise,
                                ![c].upper = side \in shift]
    /\ UNCHANGED <<module, handler, code, queue, keys, oops, irqs, fresh>>

TestCaps(c) ==
    /\ At(c, "caps")
    /\ worker' = [worker EXCEPT ![c].at = "store", ![c].upper = @ # caps]
    /\ UNCHANGED <<module, handler, code, queue, keys, oops, irqs, fresh>>

StoreName(c) ==
    /\ At(c, "store")
    /\ key_name' = <<PressCode(worker[c].code), worker[c].upper>>
    /\ late' = (worker[c].upper # should_use_uppercase)
    /\ Return(c)
    /\ UNCHANGED <<shift, caps, key_code>>

SetName(c) ==
    \/ TestShift(c, "left", "right") \/ TestShift(c, "right", "caps") \/ TestCaps(c)
    \/ StoreName(c)

(* The release that is not shown. *)
IgnoreRelease(c, at) ==
    /\ At(c, at) /\ worker[c].code \notin Modifiers
    /\ IsRelease(worker[c].code) /\ ~Displayed(worker[c].code)
    /\ Return(c)
    /\ UNCHANGED keys

work_fun2(c) ==
    /\ worker[c].work = "work1"
    /\ \/ Read(c) \/ SwitchShift(c) \/ SwitchCaps(c) \/ Toggle(c) \/ IgnorePress(c)
       \/ SetCode(c, "switch") \/ SetName(c) \/ IgnoreRelease(c, "switch")

work_fun1(c) ==
    /\ worker[c].work = "work2"
    /\ \/ Read(c) \/ SwitchShift(c) \/ SwitchCaps(c) \/ Toggle(c) \/ IgnorePress(c)
       \/ Sleep(c)
       \/ SetCode(c, "awake") \/ SetName(c)
       \/ IgnoreRelease(c, IF version = "lab_ipq" THEN "switch" ELSE "awake")

Kworker(c) == Take(c) \/ WorkFaults(c) \/ work_fun1(c) \/ work_fun2(c)

----------------------------------------------------------------------------
(* my_init and my_exit, with the way out of my_init when a step fails *)

Module(from, to) ==
    /\ pc = from /\ SomeCpu
    /\ pc' = to
    /\ UNCHANGED <<version, handler, code, queue, worker, keys, oops, irqs, fresh>>

RequestIrq ==
    /\ Module("request_irq", "alloc_workqueue")
    /\ irq' = TRUE
    /\ UNCHANGED <<wq, mem, flush>>

RequestIrqFails == Module("request_irq", "gone") /\ UNCHANGED <<irq, wq, mem, flush>>

AllocWorkqueue ==
    /\ Module("alloc_workqueue", "kmalloc1")
    /\ wq' = "up"
    /\ UNCHANGED <<irq, mem, flush>>

Kmalloc(w, from, to) ==
    /\ Module(from, to)
    /\ mem' = [mem EXCEPT ![w] = "raw"]
    /\ UNCHANGED <<irq, wq, flush>>

\* Fault: INIT_WORK is forgotten.
InitWorkForgotten(w, from, to) == Module(from, to) /\ UNCHANGED <<irq, wq, mem, flush>>

InitWork(w, from, to) ==
    /\ Module(from, to)
    /\ mem' = [mem EXCEPT ![w] = "ready"]
    /\ UNCHANGED <<irq, wq, flush>>

ProcCreate == Module("proc_create", "loaded") /\ UNCHANGED <<irq, wq, mem, flush>>

(* A failed allocation undoes what was done: lab_11 begins with free_irq,   *)
(* lab_ipq ends with it, and frees the works first.                         *)
UndoFrom(from) == IF version = "lab_11" \/ from = "alloc_workqueue" THEN "free_irq"
                  ELSE IF from = "kmalloc1" THEN "destroy" ELSE "kfree"

InitFails ==
    \E from \in {"alloc_workqueue", "kmalloc1", "kmalloc2", "proc_create"} :
        Module(from, UndoFrom(from)) /\ UNCHANGED <<irq, wq, mem, flush>>

my_init ==
    \/ RequestIrq \/ RequestIrqFails
    \/ AllocWorkqueue
    \/ Kmalloc("work1", "kmalloc1", "init1") \/ InitWork("work1", "init1", "kmalloc2")
    \/ Kmalloc("work2", "kmalloc2", "init2") \/ InitWork("work2", "init2", "proc_create")
    \/ ProcCreate
    \/ InitFails

Bit(b) == IF b THEN 1 ELSE 0

(* proc_remove, and the start of flush_workqueue: it waits for the run in   *)
(* progress and for the queued run of each work, not for later ones.        *)
my_exit ==
    /\ Module("loaded", "flush")
    /\ flush' = [w \in Works |-> Bit(Queued(w)) + Bit(Running(w))]
    /\ UNCHANGED <<irq, wq, mem>>

Flushed ==
    /\ \A w \in Works : flush[w] = 0
    /\ Module("flush", "destroy")
    /\ UNCHANGED <<irq, wq, mem, flush>>

DrainWorkqueue ==
    /\ wq = "up"
    /\ Module("destroy", "destroy")
    /\ wq' = "draining"
    /\ UNCHANGED <<irq, mem, flush>>

(* my_exit goes on to free_irq, and so does a failed my_init of lab_ipq;    *)
(* that of lab_11 has been there.                                           *)
DestroyWorkqueue ==
    /\ wq = "draining"
    /\ \A w \in Works : ~Queued(w) /\ ~Running(w)
    /\ Module("destroy", IF irq THEN "free_irq" ELSE "kfree")
    /\ wq' = "gone"
    /\ UNCHANGED <<irq, mem, flush>>

FreeIrq ==
    /\ handler = NoHandler
    /\ Module("free_irq", IF wq = "up" THEN "destroy"
                          ELSE IF Pointers({"null", "freed"}) THEN "gone" ELSE "kfree")
    /\ irq' = FALSE
    /\ UNCHANGED <<wq, mem, flush>>

Kfree ==
    /\ Module("kfree", IF irq THEN "destroy" ELSE "gone")
    /\ mem' = [w \in Works |-> IF mem[w] = "null" THEN "null" ELSE "freed"]
    /\ UNCHANGED <<irq, wq, flush>>

Unload == Flushed \/ DrainWorkqueue \/ DestroyWorkqueue \/ FreeIrq \/ Kfree

----------------------------------------------------------------------------
Next == /\ ~oops
        /\ \/ \E c \in Cpus, k \in Codes : Interrupt(c, k)
           \/ interrupt_handler
           \/ \E c \in Cpus : Kworker(c)
           \/ my_init
           \/ my_exit
           \/ Unload

Spec == Init /\ [][Next]_vars

(* The kernel lets a handler finish, gives every kworker the CPU, and runs  *)
(* the thread that unloads the module.                                      *)
FairSpec == /\ Spec
            /\ WF_vars(~oops /\ interrupt_handler)
            /\ \A c \in Cpus : WF_vars(~oops /\ Kworker(c))
            /\ WF_vars(~oops /\ Unload)

----------------------------------------------------------------------------
(* Types of the variables; at most one work runs on a CPU by its type. *)
TypeOK ==
    /\ version \in {"lab_11", "lab_ipq"} /\ pc \in Locations /\ irq \in BOOLEAN
    /\ wq \in {"none", "up", "draining", "gone"}
    /\ mem \in [Works -> {"null", "raw", "ready", "freed"}]
    /\ handler = NoHandler \/
       handler \in [at : Works \cup {"queue1", "queue2"}, cpu : Cpus, code : Codes]
    /\ code \in [Works -> Codes \cup {NoCode}]
    /\ queue \in [Cpus -> Seq(Works)]
    /\ worker \in [Cpus -> [at : {"idle", "read", "switch", "toggle", "awake", "left", "right",
                                  "caps", "store"},
                            work : Works \cup {Nobody}, code : Codes \cup {NoCode},
                            caps : BOOLEAN, upper : BOOLEAN]]
    /\ shift \subseteq {"left", "right"} /\ caps \in BOOLEAN
    /\ key_code \in -1 .. TableSize - 1
    /\ key_name \in (-1 .. TableSize - 1) \X BOOLEAN
    /\ oops \in BOOLEAN /\ irqs \in 0 .. Len(Typed)
    /\ flush \in [Works -> 0 .. 2]
    /\ fresh \subseteq Works /\ late \in BOOLEAN

(* When everything has come to rest, the last scancode has had its effect   *)
(* whatever the two works did before with older ones, on whatever CPUs: a   *)
(* Shift key is as it was left, and a shown key is the one in /proc, code   *)
(* and name.  The name is in the case that the modifiers give it, unless the*)
(* work that stored it last had been overtaken by the other, after it had   *)
(* tested the modifiers; nothing of this is put right afterwards, but it    *)
(* takes two works that run at a time: the bound queue, and two CPUs.       *)
AtRest == /\ handler = NoHandler
          /\ \A w \in Works : ~Queued(w) /\ ~Running(w)

OneAtATime == version = "lab_ipq" \/ Cpus = {Home}

LastCodeTakesEffect ==
    AtRest /\ wq = "up" /\ ~oops =>
        LET k == code["work2"]
        IN  /\ k = LeftShiftDown  => "left" \in shift
            /\ k = LeftShiftUp    => "left" \notin shift
            /\ k = RightShiftDown => "right" \in shift
            /\ k = RightShiftUp   => "right" \notin shift
            /\ Displayed(k) => /\ key_code = PressCode(k)
                               /\ key_name[1] = PressCode(k)
                               /\ \/ key_name[2] = should_use_uppercase
                                  \/ late /\ ~OneAtATime

(* A stray pointer is followed only while the module loads, before both     *)
(* works are initialised, or while it unloads, after the queue is destroyed *)
(* and before the handler is removed, or, in lab_ipq, while a my_init that  *)
(* failed has freed the works of a queue and a handler that still run;      *)
(* never once the module is loaded, whatever is queued when it is unloaded. *)
OopsOnlyInWindows ==
    oops => \/ pc \in {"alloc_workqueue", "kmalloc1", "init1", "kmalloc2", "init2"}
            \/ pc = "free_irq" /\ (wq = "gone" \/ ~Pointers({"ready"}))
            \/ version = "lab_ipq" /\ pc \in {"kfree", "destroy"} /\ ~Pointers({"ready"})

(* A scancode may be overwritten before a work reads it, the last one never *)
(* is: each work that has not read its latest code reads it, unless the     *)
(* module is unloading or has crashed.  It rests on the order of the        *)
(* handler, which stores and then queues, and on the worker, which takes    *)
(* the work off the queue before it reads.                                  *)
LatestCodeRead ==
    \A w \in Works : w \in fresh ~> (w \notin fresh \/ wq # "up" \/ oops)

(* rmmod ends: my_exit, which waits for the queue to drain while keys may   *)
(* still be pressed, returns, and so does a my_init that undoes its work.   *)
Unloads == pc \in {"flush", "kfree", "destroy", "free_irq"} ~> (pc = "gone" \/ oops)

(* Neither the last scancode nor the module waits for ever. *)
WorkIsDone == LatestCodeRead /\ Unloads
=============================================================================
