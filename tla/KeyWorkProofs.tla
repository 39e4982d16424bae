---------------------------- MODULE KeyWorkProofs ---------------------------
(* Proofs about KeyWork, for any number of CPUs and any scancodes in either *)
(* version of the module: the types, when a stray pointer may be followed,  *)
(* and that the last scancode has its effect.                               *)
EXTENDS KeyWork, TLAPS

Kworkers == [at : {"idle", "read", "switch", "toggle", "awake", "left", "right", "caps",
                   "store"},
             work : Works \cup {Nobody}, code : Codes \cup {NoCode},
             caps : BOOLEAN, upper : BOOLEAN]

(* From the store of a key's code to the store of its name.                 *)
Naming == {"left", "right", "caps", "store"}

(* A kworker has a work while it is not idle; what it has read when it sets *)
(* CapsLock or is about to set the name of a key.                           *)
RunInv ==
    /\ \A c \in Cpus : worker[c].at = "idle" <=> worker[c].work = Nobody
    /\ \A c \in Cpus : worker[c].at = "toggle" => worker[c].code = CapsLockDown
    /\ \A c \in Cpus : worker[c].at \in Naming => Displayed(worker[c].code)

BaseInv == TypeOK /\ RunInv

(* The port gives bytes.                                                    *)
LEMMA CodesAreBytes == Codes \subseteq 0 .. 255
<1>1. \A i \in DOMAIN Typed : Typed[i] \subseteq Bytes
  BY ConstantsAssumption
<1> QED
  BY <1>1 DEF Codes, Range, Bytes

(* The unbound queue has a place.                                           *)
LEMMA HomeIsCpu == Home \in Cpus
  BY ConstantsAssumption DEF Home

(* The module is not loaded, nothing runs.                                  *)
LEMMA BaseInit == Init => BaseInv
<1> SUFFICES ASSUME Init
             PROVE  BaseInv
  OBVIOUS
<1>1. Len(Typed) \in Nat
  BY ConstantsAssumption
<1>2. worker \in [Cpus -> Kworkers]
  BY DEF Init, Idle, Kworkers
<1>3. queue \in [Cpus -> Seq(Works)] /\ code \in [Works -> Codes \cup {NoCode}]
  BY DEF Init
<1>4. NoCode \in -1 .. TableSize - 1
  BY DEF NoCode, TableSize
<1>5. key_name \in (-1 .. TableSize - 1) \X BOOLEAN
  BY <1>4 DEF Init
<1>6. flush \in [Works -> 0 .. 2] /\ mem \in [Works -> {"null", "raw", "ready", "freed"}]
  BY DEF Init
<1>7. shift \subseteq {"left", "right"} /\ fresh \subseteq Works /\ caps \in BOOLEAN /\ late \in BOOLEAN
  BY DEF Init
<1>8. version \in {"lab_11", "lab_ipq"} /\ pc \in Locations /\ irq \in BOOLEAN
  BY DEF Init, Locations
<1>9. /\ wq \in {"none", "up", "draining", "gone"} /\ handler = NoHandler
      /\ oops \in BOOLEAN /\ irqs = 0 /\ key_code = NoCode
  BY DEF Init
<1>10. irqs \in 0 .. Len(Typed)
  BY <1>1, <1>9
<1>11. TypeOK
  BY <1>2, <1>3, <1>4, <1>5, <1>6, <1>7, <1>8, <1>9, <1>10 DEF TypeOK, Kworkers
<1> QED
  BY <1>11 DEF Init, BaseInv, RunInv, Idle, Nobody, Naming

(* A kworker's step replaces its record, and is one of these.               *)
Goes(c, new) == new \in Kworkers /\ worker' = [worker EXCEPT ![c] = new]

(* A kworker whose new record makes sense by itself keeps RunInv.           *)
LEMMA GoesOn ==
    ASSUME BaseInv, NEW c \in Cpus, NEW new, Goes(c, new),
           new.at = "idle" <=> new.work = Nobody,
           new.at = "toggle" => new.code = CapsLockDown,
           new.at \in Naming => Displayed(new.code), UNCHANGED version
    PROVE  RunInv' /\ worker' \in [Cpus -> Kworkers]
<1>1. worker \in [Cpus -> Kworkers]
  BY DEF BaseInv, TypeOK, Kworkers
<1>2. worker' \in [Cpus -> Kworkers]
  BY <1>1 DEF Goes
<1>3. worker'[c] = new /\ \A d \in Cpus \ {c} : worker'[d] = worker[d]
  BY <1>1 DEF Goes
<1> QED
  BY <1>2, <1>3 DEF BaseInv, RunInv, Displayed

Returns(c) ==
    /\ Goes(c, Idle)
    /\ flush' \in [Works -> 0 .. 2]
    /\ UNCHANGED <<version, pc, irq, wq, mem, handler, code, queue, oops, irqs, fresh>>

(* A work that ends leaves its kworker idle.                                *)
LEMMA ReturnGoes ==
    ASSUME BaseInv, NEW c \in Cpus, Return(c)
    PROVE  Returns(c)
<1>1. flush \in [Works -> 0 .. 2]
  BY DEF BaseInv, TypeOK
<1>2. \A n \in 0 .. 2 : (IF n > 0 THEN n - 1 ELSE 0) \in 0 .. 2
  OBVIOUS
<1>3. flush' \in [Works -> 0 .. 2]
  BY <1>1, <1>2 DEF Return
<1>4. Idle \in Kworkers
  BY DEF Idle, Kworkers, NoCode
<1> QED
  BY <1>3, <1>4 DEF Return, Returns, Goes

(* A crash changes nothing else.                                            *)
LEMMA CrashBase == ASSUME BaseInv, Crash PROVE BaseInv'
  BY DEF BaseInv, TypeOK, RunInv, Crash, module, keys, Displayed

(* The interrupt and its handler.                                           *)
Handlers == [at : Works \cup {"queue1", "queue2"}, cpu : Cpus, code : Codes]

(* The handler goes to its next statement or ends.                          *)
LEMMA AdvanceType ==
    ASSUME BaseInv, handler \in Handlers, Advance
    PROVE  handler' = NoHandler \/ handler' \in Handlers
  BY DEF Advance, HandlerNext, Handlers, Works

(* A handler that is somewhere has a CPU and a byte.                        *)
LEMMA HandlerIsRunning ==
    ASSUME BaseInv, handler.at # "none"
    PROVE  handler \in Handlers
  BY DEF BaseInv, TypeOK, NoHandler, Handlers

(* queue_work puts a work on the queue of some CPU, or does nothing.        *)
LEMMA QueueType ==
    ASSUME BaseInv, NEW w \in Works, NEW c \in Cpus, queue_work(w, c)
    PROVE  queue' \in [Cpus -> Seq(Works)]
<1> DEFINE runsOn == {d \in Cpus : worker[d].work = w}
           target == IF version = "lab_ipq" THEN Home
                     ELSE IF runsOn = {} THEN c ELSE CHOOSE d \in runsOn : TRUE
<1>1. target \in Cpus
  BY HomeIsCpu
<1>2. queue \in [Cpus -> Seq(Works)]
  BY DEF BaseInv, TypeOK
<1>3. queue' = IF Queued(w) \/ wq = "draining" THEN queue
               ELSE [queue EXCEPT ![target] = Append(@, w)]
  BY DEF queue_work
<1> HIDE DEF target
<1>4. \A s \in Seq(Works) : Append(s, w) \in Seq(Works)
  OBVIOUS
<1> QED
  BY <1>1, <1>2, <1>3, <1>4

(* The interrupt and its handler keep types and RunInv.                     *)
LEMMA HandlerBase ==
    ASSUME BaseInv, interrupt_handler \/ \E c \in Cpus, k \in Codes : Interrupt(c, k)
    PROVE  BaseInv'
<1>1. ASSUME NEW c \in Cpus, NEW k \in Codes, Interrupt(c, k)
      PROVE  BaseInv'
  <2>1. handler' \in Handlers
    BY <1>1 DEF Interrupt, Handlers, Works
  <2>2. irqs' \in 0 .. Len(Typed)
    <3>1. Len(Typed) \in Nat
      BY ConstantsAssumption
    <3> QED
      BY <1>1, <3>1 DEF Interrupt, BaseInv, TypeOK
  <2> QED
    BY <1>1, <2>1, <2>2
       DEF Interrupt, BaseInv, TypeOK, RunInv, module, keys, Displayed, Handlers
<1>2. ASSUME NEW w \in Works, Store(w)
      PROVE  BaseInv'
  <2>1. handler \in Handlers
    BY <1>2, HandlerIsRunning DEF Store, Works
  <2>2. handler' = NoHandler \/ handler' \in Handlers
    BY <1>2, <2>1, AdvanceType DEF Store
  <2>3. code' \in [Works -> Codes \cup {NoCode}] /\ fresh' \subseteq Works
    BY <1>2, <2>1 DEF Store, BaseInv, TypeOK, Handlers
  <2> QED
    BY <1>2, <2>2, <2>3
       DEF Store, BaseInv, TypeOK, RunInv, module, keys, Displayed, Handlers
<1>3. ASSUME NEW w \in Works, NEW place \in {"queue1", "queue2"}, Queue(place, w)
      PROVE  BaseInv'
  <2>1. handler \in Handlers
    BY <1>3, HandlerIsRunning DEF Queue
  <2>2. handler' = NoHandler \/ handler' \in Handlers
    BY <1>3, <2>1, AdvanceType DEF Queue
  <2>3. queue' \in [Cpus -> Seq(Works)]
    BY <1>3, <2>1, QueueType DEF Queue, Handlers
  <2> QED
    BY <1>3, <2>2, <2>3
       DEF Queue, BaseInv, TypeOK, RunInv, module, keys, Displayed, Handlers
<1> QED
  BY <1>1, <1>2, <1>3, CrashBase DEF interrupt_handler, StoreFaults, QueueFaults, Works

(* A kworker that begins, goes on with and ends its work.                   *)
LEMMA ShiftType ==
    ASSUME BaseInv, NEW k \in Modifiers \ {CapsLockDown}
    PROVE  ShiftAfter(k) \subseteq {"left", "right"}
  BY DEF BaseInv, TypeOK, ShiftAfter, Modifiers, LeftShiftDown, LeftShiftUp, RightShiftDown,
     RightShiftUp, CapsLockDown

(* A key that is shown has a name in the tables.                            *)
LEMMA PressedKey ==
    ASSUME BaseInv, NEW c \in Cpus, Displayed(worker[c].code)
    PROVE  PressCode(worker[c].code) \in -1 .. TableSize - 1
<1>1. worker[c].code \in Int
  <2>1. worker[c].code \in Codes \cup {NoCode}
    BY DEF BaseInv, TypeOK
  <2>2. \A k \in Codes : k \in 0 .. 255
    BY CodesAreBytes
  <2>3. \A k \in 0 .. 255 : k \in Int
    OBVIOUS
  <2> QED
    BY <2>1, <2>2, <2>3 DEF NoCode
<1>2. PressCode(worker[c].code) \in 0 .. 127
  BY <1>1 DEF PressCode
<1> QED
  BY <1>2 DEF Displayed, Shown, TableSize

(* Every step of a kworker keeps types and RunInv.                          *)
LEMMA KworkerBase ==
    ASSUME BaseInv, NEW c \in Cpus, Kworker(c)
    PROVE  BaseInv'
<1> DEFINE r == worker[c]
<1>1. /\ worker \in [Cpus -> Kworkers] /\ r \in Kworkers
      /\ queue \in [Cpus -> Seq(Works)] /\ code \in [Works -> Codes \cup {NoCode}]
      /\ caps \in BOOLEAN /\ late \in BOOLEAN
  BY DEF BaseInv, TypeOK, Kworkers
<1>2. CASE WorkFaults(c)
  BY <1>2, CrashBase DEF WorkFaults
<1>3. CASE Take(c)
  <2>1. Head(queue[c]) \in Works /\ Tail(queue[c]) \in Seq(Works)
    BY <1>1, <1>3 DEF Take
  <2> DEFINE new == [r EXCEPT !.at = "read", !.work = Head(queue[c])]
  <2>2. new \in Kworkers /\ new.at = "read" /\ new.work \in Works
    BY <1>1, <2>1 DEF Kworkers
  <2>3. worker' = [worker EXCEPT ![c] = new]
    BY <1>1, <1>3 DEF Take
  <2> HIDE DEF new
  <2>4. RunInv' /\ worker' \in [Cpus -> Kworkers]
    BY <1>3, <2>2, <2>3, GoesOn DEF Goes, Take, module, Works, Nobody, Naming
  <2>5. queue' \in [Cpus -> Seq(Works)]
    BY <1>1, <1>3, <2>1 DEF Take
  <2> QED
    BY <1>3, <2>4, <2>5 DEF Take, BaseInv, TypeOK, Kworkers, module, keys
<1>4. ASSUME Return(c), caps' \in BOOLEAN, shift' \subseteq {"left", "right"},
             key_code' \in -1 .. TableSize - 1,
             key_name' \in (-1 .. TableSize - 1) \X BOOLEAN, late' \in BOOLEAN
      PROVE  BaseInv'
  <2>1. Returns(c)
    BY <1>4, ReturnGoes
  <2>2. RunInv' /\ worker' \in [Cpus -> Kworkers]
    BY <2>1, GoesOn DEF Returns, Idle, Naming
  <2> QED
    BY <1>4, <2>1, <2>2 DEF Returns, BaseInv, TypeOK, Kworkers
<1>5. /\ caps \in BOOLEAN /\ shift \subseteq {"left", "right"}
      /\ key_code \in -1 .. TableSize - 1
      /\ key_name \in (-1 .. TableSize - 1) \X BOOLEAN
  BY DEF BaseInv, TypeOK
<1>6. CASE SwitchShift(c)
  BY <1>1, <1>4, <1>5, <1>6, ShiftType DEF SwitchShift
<1>7. CASE Toggle(c)
  BY <1>1, <1>4, <1>5, <1>7 DEF Toggle
<1>8. CASE IgnorePress(c) \/ \E place : IgnoreRelease(c, place)
  BY <1>1, <1>4, <1>5, <1>8 DEF IgnorePress, IgnoreRelease, keys
<1>9. CASE StoreName(c)
  <2>1. PressCode(r.code) \in -1 .. TableSize - 1
    BY <1>9, PressedKey DEF StoreName, At, BaseInv, RunInv, Naming
  <2>2. r.upper \in BOOLEAN
    BY <1>1 DEF Kworkers
  <2>3. late' \in BOOLEAN
    BY <1>9 DEF StoreName
  <2> QED
    BY <1>4, <1>5, <1>9, <2>1, <2>2, <2>3 DEF StoreName
<1>10. ASSUME r.work \in Works, UNCHANGED <<module, handler, code, queue, oops, irqs>>,
              fresh' \subseteq Works,
              key_code' \in -1 .. TableSize - 1, UNCHANGED <<shift, caps, key_name, late>>,
              NEW new \in Kworkers, worker' = [worker EXCEPT ![c] = new],
              new.work = r.work, new.at # "idle",
              new.at = "toggle" => new.code = CapsLockDown,
              new.at \in Naming => Displayed(new.code)
       PROVE  BaseInv'
  <2>1. RunInv' /\ worker' \in [Cpus -> Kworkers]
    BY <1>10, GoesOn DEF Goes, module, Works, Nobody
  <2> QED
    BY <1>10, <2>1 DEF BaseInv, TypeOK, Kworkers, module
<1>11. r.work \in Works => code[r.work] \in Codes \cup {NoCode}
  BY <1>1
<1>12. ASSUME Read(c), r.work \in Works
       PROVE  BaseInv'
  <2> DEFINE new == [r EXCEPT !.at = "switch", !.code = code[r.work]]
  <2>1. new \in Kworkers /\ new.at = "switch" /\ new.work = r.work
    BY <1>1, <1>11, <1>12 DEF Kworkers
  <2>2. worker' = [worker EXCEPT ![c] = new]
    BY <1>1, <1>12 DEF Read
  <2>3. fresh' \subseteq Works
    BY <1>12 DEF Read, BaseInv, TypeOK
  <2> HIDE DEF new
  <2> QED
    BY <1>5, <1>10, <1>12, <2>1, <2>2, <2>3 DEF Read, keys, Naming
<1>13. ASSUME SwitchCaps(c), r.work \in Works
       PROVE  BaseInv'
  <2> DEFINE new == [r EXCEPT !.at = "toggle", !.caps = caps]
  <2>1. new \in Kworkers /\ new.at = "toggle" /\ new.work = r.work /\ new.code = r.code
    BY <1>1, <1>13 DEF Kworkers
  <2>2. worker' = [worker EXCEPT ![c] = new]
    BY <1>1, <1>13 DEF SwitchCaps
  <2> HIDE DEF new
  <2> QED
    BY <1>5, <1>10, <1>13, <2>1, <2>2 DEF SwitchCaps, keys, Naming, BaseInv, TypeOK
<1>14. ASSUME Sleep(c), r.work \in Works
       PROVE  BaseInv'
  <2> DEFINE new == [r EXCEPT !.at = "awake"]
  <2>1. new \in Kworkers /\ new.at = "awake" /\ new.work = r.work
    BY <1>1 DEF Kworkers
  <2>2. worker' = [worker EXCEPT ![c] = new]
    BY <1>1, <1>14 DEF Sleep
  <2> HIDE DEF new
  <2> QED
    BY <1>5, <1>10, <1>14, <2>1, <2>2 DEF Sleep, keys, Naming, BaseInv, TypeOK
<1>15. ASSUME NEW place, SetCode(c, place), r.work \in Works
       PROVE  BaseInv'
  <2> DEFINE new == [r EXCEPT !.at = "left"]
  <2>1. new \in Kworkers /\ new.at = "left" /\ new.work = r.work /\ new.code = r.code
    BY <1>1 DEF Kworkers
  <2>2. worker' = [worker EXCEPT ![c] = new]
    BY <1>1, <1>15 DEF SetCode
  <2>3. key_code' \in -1 .. TableSize - 1 /\ Displayed(r.code)
    BY <1>15, PressedKey DEF SetCode
  <2> HIDE DEF new
  <2> QED
    BY <1>5, <1>10, <1>15, <2>1, <2>2, <2>3 DEF SetCode, BaseInv, TypeOK
<1>16. ASSUME NEW side, NEW otherwise \in {"right", "caps"}, TestShift(c, side, otherwise),
              side \in Naming, r.work \in Works
       PROVE  BaseInv'
  <2> DEFINE to == IF side \in shift THEN "caps" ELSE otherwise
             held == side \in shift
             new == [r EXCEPT !.at = to, !.upper = held]
  <2>1. to \in {"right", "caps"} /\ held \in BOOLEAN
    BY <1>16
  <2>2. worker' = [worker EXCEPT ![c].at = to, ![c].upper = held]
    BY <1>16 DEF TestShift
  <2> HIDE DEF to, held
  <2>3. /\ new \in Kworkers /\ new.at \in {"right", "caps"} /\ new.work = r.work
        /\ new.code = r.code
    BY <1>1, <2>1 DEF Kworkers
  <2>4. worker' = [worker EXCEPT ![c] = new]
    BY <1>1, <2>2
  <2>5. Displayed(r.code)
    BY <1>16 DEF TestShift, At, BaseInv, RunInv
  <2> HIDE DEF new
  <2> QED
    BY <1>5, <1>10, <1>16, <2>3, <2>4, <2>5 DEF TestShift, keys, BaseInv, TypeOK
<1>17. ASSUME TestCaps(c), r.work \in Works
       PROVE  BaseInv'
  <2> DEFINE new == [r EXCEPT !.at = "store", !.upper = @ # caps]
  <2>1. /\ new \in Kworkers /\ new.at = "store" /\ new.work = r.work
        /\ new.code = r.code
    BY <1>1, <1>17 DEF Kworkers
  <2>2. worker' = [worker EXCEPT ![c] = new]
    BY <1>1, <1>17 DEF TestCaps
  <2>3. Displayed(r.code)
    BY <1>17 DEF TestCaps, At, Naming, BaseInv, RunInv
  <2> HIDE DEF new
  <2> QED
    BY <1>5, <1>10, <1>17, <2>1, <2>2, <2>3 DEF TestCaps, keys, BaseInv, TypeOK
<1>18. CASE SetName(c) /\ r.work \in Works
  BY <1>9, <1>16, <1>17, <1>18 DEF SetName, Naming
<1> QED
  BY <1>2, <1>3, <1>6, <1>7, <1>8, <1>12, <1>13, <1>14, <1>15, <1>18
     DEF Kworker, work_fun1, work_fun2, Works

(* my_init, my_exit and what they wait for.                                 *)
LEMMA ModuleBase ==
    ASSUME BaseInv, my_init \/ my_exit \/ Unload
    PROVE  BaseInv'
<1>1. UNCHANGED <<version, handler, code, queue, worker, keys, oops, irqs, fresh>>
  BY DEF my_init, my_exit, Unload, Module, RequestIrq, RequestIrqFails, AllocWorkqueue, Kmalloc,
     InitWork, ProcCreate, InitFails, Flushed, DrainWorkqueue, DestroyWorkqueue, FreeIrq, Kfree
<1>2. pc' \in Locations
  BY DEF my_init, my_exit, Unload, Module, RequestIrq, RequestIrqFails, AllocWorkqueue, Kmalloc,
     InitWork, ProcCreate, InitFails, UndoFrom, Flushed, DrainWorkqueue, DestroyWorkqueue,
     FreeIrq, Kfree, Locations
<1>3. irq' \in BOOLEAN /\ wq' \in {"none", "up", "draining", "gone"}
  BY DEF my_init, my_exit, Unload, RequestIrq, RequestIrqFails, AllocWorkqueue, Kmalloc,
     InitWork, ProcCreate, InitFails, Flushed, DrainWorkqueue, DestroyWorkqueue,
     FreeIrq, Kfree, BaseInv, TypeOK
<1>4. mem' \in [Works -> {"null", "raw", "ready", "freed"}]
  BY DEF my_init, my_exit, Unload, RequestIrq, RequestIrqFails, AllocWorkqueue, Kmalloc,
     InitWork, ProcCreate, InitFails, Flushed, DrainWorkqueue, DestroyWorkqueue,
     FreeIrq, Kfree, BaseInv, TypeOK
<1>5. flush' \in [Works -> 0 .. 2]
  <2>1. \A a, b : Bit(a) + Bit(b) \in 0 .. 2
    BY DEF Bit
  <2>2. CASE my_exit
    BY <2>1, <2>2 DEF my_exit
  <2>3. CASE ~my_exit
    BY <2>3 DEF my_init, Unload, RequestIrq, RequestIrqFails, AllocWorkqueue, Kmalloc,
       InitWork, ProcCreate, InitFails, Flushed, DrainWorkqueue, DestroyWorkqueue,
       FreeIrq, Kfree, BaseInv, TypeOK
  <2> QED
    BY <2>2, <2>3
<1> QED
  BY <1>1, <1>2, <1>3, <1>4, <1>5 DEF BaseInv, TypeOK, RunInv, keys, Displayed

(* BaseInv is inductive.                                                    *)
LEMMA BaseStep == BaseInv /\ [Next]_vars => BaseInv'
<1>1. BaseInv /\ UNCHANGED vars => BaseInv'
  BY DEF BaseInv, TypeOK, RunInv, vars, module, keys, Displayed
<1> QED
  BY <1>1, HandlerBase, KworkerBase, ModuleBase DEF Next

(* Types: TypeOK is an invariant.                                           *)
THEOREM Types == Spec => []TypeOK
<1>1. BaseInv => TypeOK
  BY DEF BaseInv
<1> QED
  BY <1>1, BaseInit, BaseStep, PTL DEF Spec
----------------------------------------------------------------------------
(* Stray pointers.  What each place of my_init and my_exit knows of the     *)
(* queue, the works and the handler.                                        *)
Empty == \A w \in Works : ~Queued(w) /\ ~Running(w)

LoadKnows ==
    /\ pc = "request_irq" => ~irq /\ wq = "none" /\ Pointers({"null"})
    /\ pc = "alloc_workqueue" => wq = "none" /\ Pointers({"null"})
    /\ pc = "kmalloc1" => wq = "up" /\ Pointers({"null"})
    /\ pc = "init1" => wq = "up" /\ mem["work2"] = "null"
    /\ pc = "kmalloc2" => wq = "up" /\ mem["work1"] = "ready" /\ mem["work2"] = "null"
    /\ pc = "init2" => wq = "up" /\ mem["work1"] = "ready"
    /\ pc \in {"proc_create", "loaded", "flush"} => wq = "up" /\ Pointers({"ready"})
    /\ pc \in {"alloc_workqueue", "kmalloc1", "init1", "kmalloc2", "init2", "proc_create"} => irq

UnloadKnows ==
    /\ pc = "destroy" => /\ wq \in {"up", "draining"}
                         /\ version = "lab_11" /\ irq => Pointers({"ready"})
    /\ pc = "free_irq" => wq \in {"none", "up", "gone"} /\ (wq = "none" => Pointers({"null"}))
    /\ pc = "kfree" => IF irq THEN version = "lab_ipq" /\ wq = "up" ELSE wq = "gone"
    /\ pc = "gone" => ~irq /\ wq \in {"none", "gone"}

PlaceInv ==
    /\ LoadKnows /\ UnloadKnows
    /\ ~irq => handler = NoHandler
    /\ wq \in {"none", "gone"} => Empty
    /\ version = "lab_11" /\ pc # "gone" => Pointers({"null", "raw", "ready"})

WindowInv == BaseInv /\ PlaceInv /\ OopsOnlyInWindows

(* Before my_init nothing is there to be followed.                          *)
LEMMA WindowInit == Init => WindowInv
<1> SUFFICES ASSUME Init
             PROVE  WindowInv
  OBVIOUS
<1>1. \A c \in Cpus : queue[c] = <<>> /\ worker[c].work = Nobody
  BY DEF Init, Idle
<1>2. Empty
  BY <1>1 DEF Empty, Queued, Running, Contains, Works, Nobody
<1>3. PlaceInv
  BY <1>2 DEF Init, PlaceInv, LoadKnows, UnloadKnows, Pointers
<1> QED
  BY <1>3, BaseInit DEF WindowInv, Init, OopsOnlyInWindows

(* A step that leaves the module, the handler and the queues as they are.   *)
LEMMA WindowKept ==
    ASSUME WindowInv, UNCHANGED <<version, pc, irq, wq, mem>>, Empty => Empty',
           handler' = NoHandler \/ irq,
           wq \in {"none", "gone"} => Empty'
    PROVE  PlaceInv'
  BY DEF WindowInv, PlaceInv, LoadKnows, UnloadKnows, Pointers

(* Where nothing can be followed astray.                                    *)
LEMMA NoStrayPointer ==
    ASSUME WindowInv, ~oops,
           \/ handler # NoHandler /\ \E w \in Works : mem[w] \in {"null", "freed"} \/ ~CanQueue(w)
           \/ \E w \in Works : (Queued(w) \/ Running(w)) /\ mem[w] = "freed"
    PROVE  \/ pc \in {"alloc_workqueue", "kmalloc1", "init1", "kmalloc2", "init2"}
           \/ pc = "free_irq" /\ (wq = "gone" \/ ~Pointers({"ready"}))
           \/ version = "lab_ipq" /\ pc \in {"kfree", "destroy"} /\ ~Pointers({"ready"})
<1> USE DEF WindowInv, PlaceInv, LoadKnows, UnloadKnows
<1>1. pc \in Locations /\ wq \in {"none", "up", "draining", "gone"}
      /\ version \in {"lab_11", "lab_ipq"}
  BY DEF BaseInv, TypeOK
<1>2. Pointers({"ready"}) /\ wq \in {"up", "draining"} => FALSE
  BY DEF Pointers, CanQueue
<1>3. Empty => handler # NoHandler
  BY DEF Empty
<1>4. pc = "request_irq" => FALSE
  BY <1>3
<1>5. pc \in {"proc_create", "loaded", "flush"} => FALSE
  BY <1>2
<1>6. pc = "gone" => FALSE
  BY <1>3
<1>7. ASSUME pc = "destroy"
      PROVE  version = "lab_ipq" /\ ~Pointers({"ready"})
  <2>1. wq \in {"up", "draining"} /\ ~Pointers({"ready"})
    BY <1>2, <1>7
  <2>2. ASSUME version = "lab_11"
        PROVE  FALSE
    <3>1. handler = NoHandler
      BY <1>7, <2>1, <2>2
    <3>2. \A w \in Works : mem[w] # "freed"
      BY <1>7, <2>2 DEF Pointers
    <3> QED
      BY <3>1, <3>2
  <2> QED
    BY <1>1, <2>1, <2>2
<1>8. ASSUME pc = "kfree"
      PROVE  version = "lab_ipq" /\ ~Pointers({"ready"})
  BY <1>2, <1>3, <1>8
<1>9. ASSUME pc = "free_irq", wq # "gone"
      PROVE  ~Pointers({"ready"})
  <2>1. CASE wq = "none"
    BY <1>9, <2>1 DEF Pointers, Works
  <2>2. CASE wq = "up"
    BY <1>2, <2>2
  <2> QED
    BY <1>9, <2>1, <2>2
<1> QED
  BY <1>1, <1>4, <1>5, <1>6, <1>7, <1>8, <1>9 DEF Locations

(* A crash comes where NoStrayPointer lets it come.                         *)
LEMMA CrashWindow ==
    ASSUME WindowInv, ~oops, Crash,
           \/ handler # NoHandler /\ \E w \in Works : mem[w] \in {"null", "freed"} \/ ~CanQueue(w)
           \/ \E w \in Works : (Queued(w) \/ Running(w)) /\ mem[w] = "freed"
    PROVE  WindowInv'
<1>1. PlaceInv'
  BY DEF Crash, module, WindowInv, PlaceInv, LoadKnows, UnloadKnows, Pointers, Empty, Queued,
     Running
<1>2. OopsOnlyInWindows'
  BY NoStrayPointer DEF OopsOnlyInWindows, Crash, module, Pointers
<1> QED
  BY <1>1, <1>2, CrashBase DEF WindowInv

(* The handler finds memory gone only inside the windows.                   *)
LEMMA WindowHandler ==
    ASSUME WindowInv, ~oops, interrupt_handler \/ \E c \in Cpus, k \in Codes : Interrupt(c, k)
    PROVE  WindowInv'
<1>1. BaseInv'
  BY HandlerBase DEF WindowInv
<1>2. ASSUME NEW w \in Works, StoreFaults(w)
      PROVE  WindowInv'
  <2>1. handler # NoHandler
    BY <1>2 DEF StoreFaults, NoHandler, Works
  <2> QED
    BY <1>2, <2>1, CrashWindow DEF StoreFaults
<1>3. ASSUME NEW w \in Works, NEW place \in {"queue1", "queue2"}, QueueFaults(place, w)
      PROVE  WindowInv'
  <2>1. handler # NoHandler
    BY <1>3 DEF QueueFaults, NoHandler
  <2> QED
    BY <1>3, <2>1, CrashWindow DEF QueueFaults
<1>4. ASSUME UNCHANGED <<version, pc, irq, wq, mem, queue, worker, oops>>, irq
      PROVE  WindowInv'
  <2>1. Empty => Empty'
    BY <1>4 DEF Empty, Queued, Running
  <2>2. PlaceInv'
    BY <1>4, <2>1, WindowKept DEF WindowInv, PlaceInv
  <2> QED
    BY <1>1, <1>4, <2>2 DEF WindowInv, OopsOnlyInWindows
<1>5. ASSUME NEW c \in Cpus, NEW k \in Codes, Interrupt(c, k)
      PROVE  WindowInv'
  BY <1>4, <1>5 DEF Interrupt, module
<1>6. handler # NoHandler => irq
  BY DEF WindowInv, PlaceInv
<1>7. ASSUME NEW w \in Works, Store(w)
      PROVE  WindowInv'
  <2>1. handler # NoHandler
    BY <1>7 DEF Store, NoHandler, Works
  <2> QED
    BY <1>4, <1>6, <1>7, <2>1 DEF Store, module
<1>8. ASSUME NEW w \in Works, NEW place \in {"queue1", "queue2"}, Queue(place, w)
      PROVE  WindowInv'
  <2>1. handler # NoHandler /\ wq \in {"up", "draining"}
    BY <1>8 DEF Queue, NoHandler, CanQueue
  <2>2. UNCHANGED <<version, pc, irq, wq, mem, oops>>
    BY <1>8 DEF Queue, module
  <2>3. PlaceInv'
    BY <1>6, <2>1, <2>2 DEF WindowInv, PlaceInv, LoadKnows, UnloadKnows, Pointers
  <2> QED
    BY <1>1, <2>2, <2>3 DEF WindowInv, OopsOnlyInWindows, Pointers
<1> QED
  BY <1>2, <1>3, <1>5, <1>7, <1>8 DEF interrupt_handler, Works

(* A kworker finds its work freed only inside the windows.                  *)
LEMMA WindowKworker ==
    ASSUME WindowInv, ~oops, NEW c \in Cpus, Kworker(c)
    PROVE  WindowInv'
<1>1. BaseInv'
  BY KworkerBase DEF WindowInv
<1>2. worker \in [Cpus -> Kworkers] /\ queue \in [Cpus -> Seq(Works)]
  BY DEF WindowInv, BaseInv, TypeOK, Kworkers
<1>3. queue[c] # <<>> => Head(queue[c]) \in Works /\ Queued(Head(queue[c]))
  <2>1. ASSUME queue[c] # <<>>
        PROVE  Head(queue[c]) \in Works /\ queue[c][1] = Head(queue[c]) /\ 1 \in 1 .. Len(queue[c])
    BY <1>2, <2>1
  <2> QED
    BY <2>1 DEF Queued, Contains
<1>4. CASE WorkFaults(c)
  <2>1. \E w \in Works : (Queued(w) \/ Running(w)) /\ mem[w] = "freed"
    <3>1. CASE queue[c] # <<>> /\ mem[Head(queue[c])] = "freed"
      BY <1>3, <3>1
    <3>2. CASE At(c, "read") /\ mem[worker[c].work] = "freed"
      <4>1. worker[c].work # Nobody /\ worker[c].work \in Works \cup {Nobody}
        BY <1>2, <3>2 DEF At, WindowInv, BaseInv, RunInv, Kworkers
      <4> QED
        BY <3>2, <4>1 DEF Running
    <3> QED
      BY <1>4, <3>1, <3>2 DEF WorkFaults
  <2> QED
    BY <1>4, <2>1, CrashWindow DEF WorkFaults
<1>5. CASE ~WorkFaults(c)
  <2>1. UNCHANGED <<version, pc, irq, wq, mem, handler, oops>>
    BY <1>5 DEF Kworker, Take, work_fun1, work_fun2, Read, SwitchShift, SwitchCaps, Toggle,
       IgnorePress, SetCode, SetName, TestShift, TestCaps, StoreName, IgnoreRelease, Sleep, Return,
       module
  <2>2. ~Empty
    <3>1. CASE Take(c)
      BY <1>3, <3>1 DEF Take, Empty
    <3>2. CASE worker[c].work \in Works
      BY <3>2 DEF Empty, Running
    <3> QED
      BY <1>5, <3>1, <3>2 DEF Kworker, work_fun1, work_fun2, Works
  <2>3. PlaceInv'
    BY <2>1, <2>2, WindowKept DEF WindowInv, PlaceInv
  <2> QED
    BY <1>1, <2>1, <2>3 DEF WindowInv, OopsOnlyInWindows, Pointers
<1> QED
  BY <1>4, <1>5

(* Each step of my_init and my_exit knows what it leaves behind.            *)
LEMMA WindowModule ==
    ASSUME WindowInv, ~oops, my_init \/ my_exit \/ Unload
    PROVE  WindowInv'
<1>1. BaseInv'
  BY ModuleBase DEF WindowInv
<1>2. UNCHANGED <<version, handler, queue, worker, oops>>
  BY DEF my_init, my_exit, Unload, Module, RequestIrq, RequestIrqFails, AllocWorkqueue, Kmalloc,
     InitWork, ProcCreate, InitFails, Flushed, DrainWorkqueue, DestroyWorkqueue, FreeIrq, Kfree
<1>3. Empty => Empty'
  BY <1>2 DEF Empty, Queued, Running
<1>4. OopsOnlyInWindows'
  BY <1>2 DEF OopsOnlyInWindows
<1>5. mem \in [Works -> {"null", "raw", "ready", "freed"}] /\ version \in {"lab_11", "lab_ipq"}
      /\ irq \in BOOLEAN
  BY DEF WindowInv, BaseInv, TypeOK
<1> USE DEF WindowInv, PlaceInv, LoadKnows, UnloadKnows, Module, Pointers, Works
<1>6. CASE RequestIrq \/ RequestIrqFails \/ AllocWorkqueue \/ ProcCreate
  BY <1>1, <1>2, <1>3, <1>4, <1>6 DEF RequestIrq, RequestIrqFails, AllocWorkqueue, ProcCreate
<1>7. CASE \/ Kmalloc("work1", "kmalloc1", "init1") \/ InitWork("work1", "init1", "kmalloc2")
           \/ Kmalloc("work2", "kmalloc2", "init2") \/ InitWork("work2", "init2", "proc_create")
  BY <1>1, <1>2, <1>3, <1>4, <1>5, <1>7 DEF Kmalloc, InitWork
<1>8. CASE InitFails
  <2>1. PICK from \in {"alloc_workqueue", "kmalloc1", "kmalloc2", "proc_create"} :
             Module(from, UndoFrom(from)) /\ UNCHANGED <<irq, wq, mem, flush>>
    BY <1>8 DEF InitFails
  <2>2. CASE from = "alloc_workqueue"
    BY <1>1, <1>2, <1>3, <1>4, <1>5, <2>1, <2>2 DEF UndoFrom
  <2>3. CASE from = "kmalloc1"
    BY <1>1, <1>2, <1>3, <1>4, <1>5, <2>1, <2>3 DEF UndoFrom
  <2>4. CASE from \in {"kmalloc2", "proc_create"}
    <3>1. CASE version = "lab_11"
      BY <1>1, <1>2, <1>3, <1>4, <1>5, <2>1, <2>4, <3>1 DEF UndoFrom
    <3>2. CASE version = "lab_ipq"
      BY <1>1, <1>2, <1>3, <1>4, <1>5, <2>1, <2>4, <3>2 DEF UndoFrom
    <3> QED
      BY <1>5, <3>1, <3>2
  <2> QED
    BY <2>1, <2>2, <2>3, <2>4
<1>9. CASE my_exit \/ Flushed \/ DrainWorkqueue
  BY <1>1, <1>2, <1>3, <1>4, <1>5, <1>9 DEF my_exit, Flushed, DrainWorkqueue
<1>10. CASE DestroyWorkqueue
  BY <1>1, <1>2, <1>3, <1>4, <1>5, <1>10 DEF DestroyWorkqueue, Empty
<1>11. CASE FreeIrq
  BY <1>1, <1>2, <1>3, <1>4, <1>5, <1>11 DEF FreeIrq
<1>12. CASE Kfree
  BY <1>1, <1>2, <1>3, <1>4, <1>5, <1>12 DEF Kfree
<1> QED
  BY <1>6, <1>7, <1>8, <1>9, <1>10, <1>11, <1>12 DEF my_init, Unload

(* WindowInv is inductive.                                                  *)
LEMMA WindowStep == WindowInv /\ [Next]_vars => WindowInv'
<1>1. ASSUME WindowInv, UNCHANGED vars
      PROVE  WindowInv'
  <2>1. UNCHANGED <<version, pc, irq, wq, mem, handler, queue, worker, oops>>
    BY <1>1 DEF vars, module
  <2>2. BaseInv'
    BY <1>1, BaseStep DEF WindowInv
  <2> QED
    BY <1>1, <2>1, <2>2 DEF WindowInv, PlaceInv, LoadKnows, UnloadKnows, Pointers, Empty,
       Queued, Running, OopsOnlyInWindows
<1> QED
  BY <1>1, WindowHandler, WindowKworker, WindowModule DEF Next

(* OopsOnlyInWindows: see there.  The invariant adds what each place of     *)
(* my_init and my_exit knows of the queue, the works and the handler.       *)
THEOREM StrayPointersInWindows == Spec => []OopsOnlyInWindows
<1>1. WindowInv => OopsOnlyInWindows
  BY DEF WindowInv
<1> QED
  BY <1>1, WindowInit, WindowStep, PTL DEF Spec
----------------------------------------------------------------------------
(* The last scancode.  A work is in one place: it runs on one CPU at most,  *)
(* and while it runs it is queued, once, on that CPU only.                  *)
Distinct(s) == \A i, j \in 1 .. Len(s) : s[i] = s[j] => i = j
InPlace(c, w) == worker[c].work = w \/ Contains(queue[c], w)

OnePlace ==
    /\ \A w \in Works, c, d \in Cpus : InPlace(c, w) /\ InPlace(d, w) => c = d
    /\ \A c \in Cpus : Distinct(queue[c])
    /\ version = "lab_ipq" => \A w \in Works, c \in Cpus : InPlace(c, w) => c = Home

(* Who is in a queue when a work has been put on its end.                   *)
LEMMA InQueueAfterAppend ==
    ASSUME NEW s \in Seq(Works), NEW w \in Works
    PROVE  /\ \A v : Contains(Append(s, w), v) <=> Contains(s, v) \/ v = w
           /\ Distinct(s) /\ ~Contains(s, w) => Distinct(Append(s, w))
<1> DEFINE t == Append(s, w)
<1>1. /\ Len(s) \in Nat /\ Len(t) = Len(s) + 1 /\ t[Len(s) + 1] = w
      /\ \A i \in 1 .. Len(s) : t[i] = s[i]
  OBVIOUS
<1>2. \A i \in 1 .. Len(t) : i \in 1 .. Len(s) \/ i = Len(s) + 1
  BY <1>1
<1>3. \A i \in 1 .. Len(s) : i \in 1 .. Len(t)
  BY <1>1
<1>4. Len(s) + 1 \in 1 .. Len(t)
  BY <1>1
<1> HIDE DEF t
<1> QED
  BY <1>1, <1>2, <1>3, <1>4 DEF Contains, Distinct, t

(* Who is in a queue when its first work has been taken off.                *)
LEMMA InQueueAfterTail ==
    ASSUME NEW s \in Seq(Works), s # <<>>, Distinct(s)
    PROVE  /\ \A v : Contains(Tail(s), v) => Contains(s, v) /\ v # Head(s)
           /\ \A v : Contains(s, v) => v = Head(s) \/ Contains(Tail(s), v)
           /\ Contains(s, Head(s))
           /\ Distinct(Tail(s))
<1>1. /\ Len(s) \in Nat \ {0} /\ Len(Tail(s)) = Len(s) - 1 /\ Head(s) = s[1]
      /\ \A i \in 1 .. Len(Tail(s)) : Tail(s)[i] = s[i + 1]
  OBVIOUS
<1>2. \A i \in 1 .. Len(Tail(s)) : i + 1 \in 1 .. Len(s) /\ i + 1 # 1
  BY <1>1
<1>3. \A i \in 1 .. Len(s) : i = 1 \/ (i - 1 \in 1 .. Len(Tail(s)) /\ (i - 1) + 1 = i)
  BY <1>1
<1>4. 1 \in 1 .. Len(s)
  BY <1>1
<1>5. ASSUME NEW v, Contains(Tail(s), v)
      PROVE  Contains(s, v) /\ v # Head(s)
  <2>1. PICK i \in 1 .. Len(Tail(s)) : s[i + 1] = v
    BY <1>1, <1>5 DEF Contains
  <2> QED
    BY <1>1, <1>2, <1>4, <2>1 DEF Contains, Distinct
<1>6. ASSUME NEW v, Contains(s, v)
      PROVE  v = Head(s) \/ Contains(Tail(s), v)
  <2>1. PICK i \in 1 .. Len(s) : s[i] = v
    BY <1>6 DEF Contains
  <2>2. CASE i # 1
    <3>1. i - 1 \in 1 .. Len(Tail(s)) /\ Tail(s)[i - 1] = v
      BY <1>1, <1>3, <2>1, <2>2
    <3> QED
      BY <3>1 DEF Contains
  <2> QED
    BY <1>1, <2>1, <2>2
<1>7. Distinct(Tail(s))
  <2> SUFFICES ASSUME NEW i \in 1 .. Len(Tail(s)), NEW j \in 1 .. Len(Tail(s)),
                      s[i + 1] = s[j + 1]
               PROVE  i = j
    BY <1>1 DEF Distinct
  <2>1. i + 1 = j + 1
    BY <1>2 DEF Distinct
  <2> QED
    BY <2>1
<1>8. Contains(s, Head(s))
  BY <1>1, <1>4 DEF Contains
<1> QED
  BY <1>5, <1>6, <1>7, <1>8

(* queue_work leaves a work queued, and no other.                           *)
LEMMA QueueWork ==
    ASSUME BaseInv, OnePlace, NEW w \in Works, NEW c \in Cpus, queue_work(w, c),
           UNCHANGED <<worker, version>>, wq \in {"up", "draining"}
    PROVE  /\ OnePlace'
           /\ \A v \in Works : Queued(v) => Queued(v)'
           /\ wq = "up" => Queued(w)'
<1> DEFINE runsOn == {d \in Cpus : worker[d].work = w}
           target == IF version = "lab_ipq" THEN Home
                     ELSE IF runsOn = {} THEN c ELSE CHOOSE d \in runsOn : TRUE
<1>1. target \in Cpus /\ \A d \in Cpus : worker[d].work = w => target = d
  <2>1. CASE version = "lab_ipq"
    BY <2>1, HomeIsCpu DEF OnePlace, InPlace
  <2>2. CASE version # "lab_ipq"
    BY <2>2 DEF OnePlace, InPlace
  <2> QED
    BY <2>1, <2>2
<1>2. version = "lab_ipq" => target = Home
  OBVIOUS
<1>3. queue \in [Cpus -> Seq(Works)]
  BY DEF BaseInv, TypeOK
<1>4. queue' = IF Queued(w) \/ wq = "draining" THEN queue
               ELSE [queue EXCEPT ![target] = Append(@, w)]
  BY DEF queue_work
<1> HIDE DEF target
<1>5. CASE Queued(w) \/ wq = "draining"
  BY <1>4, <1>5 DEF OnePlace, InPlace, Queued, Distinct
<1>6. CASE ~Queued(w) /\ wq = "up"
  <2>1. /\ queue'[target] = Append(queue[target], w)
        /\ \A d \in Cpus \ {target} : queue'[d] = queue[d]
    BY <1>1, <1>3, <1>4, <1>6
  <2>2. queue[target] \in Seq(Works) /\ ~Contains(queue[target], w) /\ Distinct(queue[target])
    BY <1>1, <1>3, <1>6 DEF Queued, OnePlace
  <2>3. /\ \A v : Contains(queue'[target], v) <=> Contains(queue[target], v) \/ v = w
        /\ Distinct(queue'[target])
    BY <2>1, <2>2, InQueueAfterAppend
  <2>4. \A v \in Works, d \in Cpus : InPlace(d, v)' <=> InPlace(d, v) \/ (v = w /\ d = target)
    BY <2>1, <2>3 DEF InPlace
  <2>5. \A d \in Cpus : InPlace(d, w) => d = target
    BY <1>1, <1>6 DEF InPlace, Queued
  <2>6. \A d \in Cpus : Distinct(queue'[d])
    BY <2>1, <2>3 DEF OnePlace
  <2>7. OnePlace'
    BY <1>2, <2>4, <2>5, <2>6 DEF OnePlace
  <2>8. \A v \in Works : Queued(v) => Queued(v)'
    BY <2>1, <2>3 DEF Queued
  <2>9. Queued(w)'
    BY <1>1, <2>3 DEF Queued
  <2> QED
    BY <2>7, <2>8, <2>9
<1> QED
  BY <1>5, <1>6

(* A step after which no work is in a place where it was not.               *)
LEMMA NoNewPlace ==
    ASSUME OnePlace, \A w \in Works, c \in Cpus : InPlace(c, w)' => InPlace(c, w),
           \A c \in Cpus : Distinct(queue'[c]), UNCHANGED version
    PROVE  OnePlace'
  BY DEF OnePlace

(* What a kworker's step does to its record and to the others'.             *)
LEMMA OnlyItsRecord ==
    ASSUME BaseInv, NEW c \in Cpus, Kworker(c)
    PROVE  /\ \A d \in Cpus \ {c} : worker'[d] = worker[d] /\ queue'[d] = queue[d]
           /\ UNCHANGED <<version, pc, wq, handler, code>>
           /\ ~Take(c) => UNCHANGED queue /\ worker'[c].work \in {worker[c].work, Nobody}
<1>1. worker \in [Cpus -> Kworkers] /\ queue \in [Cpus -> Seq(Works)] /\ worker[c] \in Kworkers
  BY DEF BaseInv, TypeOK, Kworkers
<1> USE DEF module
<1>2. CASE Take(c)
  BY <1>1, <1>2 DEF Take
<1>3. CASE WorkFaults(c)
  BY <1>3 DEF WorkFaults, Crash
<1>4. ASSUME Return(c)
      PROVE  /\ worker' = [worker EXCEPT ![c] = Idle] /\ Idle.work = Nobody
             /\ UNCHANGED <<version, pc, wq, handler, code, queue>>
  BY <1>4 DEF Return, Idle
<1>5. CASE \/ SwitchShift(c) \/ Toggle(c) \/ IgnorePress(c) \/ StoreName(c)
           \/ \E place \in {"switch", "awake"} : IgnoreRelease(c, place)
  <2>1. Return(c)
    BY <1>5 DEF SwitchShift, Toggle, IgnorePress, StoreName, IgnoreRelease
  <2>2. ~Take(c)
    BY <1>5 DEF SwitchShift, Toggle, IgnorePress, StoreName, IgnoreRelease, Take, At
  <2> QED
    BY <1>1, <1>4, <2>1, <2>2
<1>6. CASE Read(c)
  BY <1>1, <1>6 DEF Read, Kworkers
<1>7. CASE SwitchCaps(c)
  BY <1>1, <1>7 DEF SwitchCaps, Kworkers
<1>8. CASE Sleep(c) \/ \E place : SetCode(c, place)
  BY <1>1, <1>8 DEF Sleep, SetCode, Kworkers
<1>9. CASE SetName(c) /\ ~StoreName(c)
  <2>1. ASSUME NEW to, NEW held, UNCHANGED <<module, handler, code, queue>>,
               worker' = [worker EXCEPT ![c].at = to, ![c].upper = held]
        PROVE  /\ \A d \in Cpus \ {c} : worker'[d] = worker[d] /\ queue'[d] = queue[d]
               /\ UNCHANGED <<version, pc, wq, handler, code, queue>>
               /\ worker'[c].work = worker[c].work
    BY <1>1, <2>1 DEF Kworkers
  <2>2. ASSUME NEW side, NEW otherwise, TestShift(c, side, otherwise)
        PROVE  \E to, held : worker' = [worker EXCEPT ![c].at = to, ![c].upper = held]
    BY <2>2 DEF TestShift
  <2>3. ASSUME TestCaps(c)
        PROVE  \E to, held : worker' = [worker EXCEPT ![c].at = to, ![c].upper = held]
    BY <2>3, <1>1 DEF TestCaps
  <2>4. UNCHANGED <<module, handler, code, queue>>
    BY <1>9 DEF SetName, TestCaps, TestShift
  <2> QED
    BY <1>9, <2>1, <2>2, <2>3, <2>4 DEF SetName
<1> QED
  BY <1>2, <1>3, <1>5, <1>6, <1>7, <1>8, <1>9 DEF SetName, Kworker, work_fun1, work_fun2

(* queue_work never gives a work a second place.                            *)
LEMMA OnePlaceStep ==
    ASSUME BaseInv, OnePlace, [Next]_vars
    PROVE  OnePlace'
<1>1. ASSUME UNCHANGED <<version, queue, worker>>
      PROVE  OnePlace'
  BY <1>1 DEF OnePlace, InPlace, Distinct
<1>2. CASE interrupt_handler \/ \E c \in Cpus, k \in Codes : Interrupt(c, k)
  <2>1. ASSUME NEW w \in Works, NEW place \in {"queue1", "queue2"}, Queue(place, w)
        PROVE  OnePlace'
    <3>1. handler.cpu \in Cpus
      BY <2>1, HandlerIsRunning DEF Queue, Handlers
    <3> QED
      BY <2>1, <3>1, QueueWork DEF Queue, CanQueue, module
  <2> QED
    BY <1>1, <1>2, <2>1 DEF interrupt_handler, Interrupt, Store, StoreFaults, QueueFaults, Crash,
       module, Works
<1>3. ASSUME NEW c \in Cpus, Kworker(c)
      PROVE  OnePlace'
  <2>1. queue \in [Cpus -> Seq(Works)] /\ worker \in [Cpus -> Kworkers] /\ Distinct(queue[c])
    BY DEF BaseInv, TypeOK, Kworkers, OnePlace
  <2>2. /\ \A d \in Cpus \ {c} : worker'[d] = worker[d] /\ queue'[d] = queue[d]
        /\ UNCHANGED version
    BY <1>3, OnlyItsRecord
  <2>3. ASSUME NEW w \in Works, InPlace(c, w)'
        PROVE  InPlace(c, w)
    <3>1. CASE Take(c)
      <4>1. /\ queue'[c] = Tail(queue[c]) /\ queue[c] # <<>> /\ worker'[c].work = Head(queue[c])
        BY <2>1, <3>1 DEF Take, Kworkers
      <4> QED
        BY <2>1, <2>3, <4>1, InQueueAfterTail DEF InPlace
    <3>2. CASE ~Take(c)
      <4>1. UNCHANGED queue /\ worker'[c].work \in {worker[c].work, Nobody}
        BY <1>3, <3>2, OnlyItsRecord
      <4>2. w # Nobody
        BY DEF Works, Nobody
      <4> QED
        BY <2>3, <4>1, <4>2 DEF InPlace
    <3> QED
      BY <3>1, <3>2
  <2>4. Distinct(queue'[c])
    <3>1. CASE Take(c)
      BY <2>1, <3>1, InQueueAfterTail DEF Take
    <3>2. CASE ~Take(c)
      BY <1>3, <2>1, <3>2, OnlyItsRecord
    <3> QED
      BY <3>1, <3>2
  <2>5. \A d \in Cpus : Distinct(queue'[d])
    BY <2>2, <2>4 DEF OnePlace
  <2>6. \A w \in Works, d \in Cpus : InPlace(d, w)' => InPlace(d, w)
    BY <2>2, <2>3 DEF InPlace
  <2> QED
    BY <2>2, <2>5, <2>6, NoNewPlace
<1>4. CASE my_init \/ my_exit \/ Unload
  BY <1>1, <1>4 DEF my_init, my_exit, Unload, Module, RequestIrq, RequestIrqFails, AllocWorkqueue,
     Kmalloc, InitWork, ProcCreate, InitFails, Flushed, DrainWorkqueue, DestroyWorkqueue,
     FreeIrq, Kfree
<1>5. UNCHANGED vars => OnePlace'
  BY <1>1 DEF vars, module
<1> QED
  BY <1>2, <1>3, <1>4, <1>5 DEF Next

(* What the handler has stored and what it has still to queue.              *)
StoresInv ==
    /\ handler.at \in {"work2", "queue1", "queue2"} => code["work1"] = handler.code
    /\ handler.at \in {"queue1", "queue2"} => code["work2"] = handler.code
    /\ handler = NoHandler => code["work1"] = code["work2"]

(* Both works hold the byte of the handler when it queues them, and the     *)
(* same byte when it is over.                                               *)
LEMMA StoresStep ==
    ASSUME BaseInv, StoresInv, [Next]_vars
    PROVE  StoresInv'
<1>1. ASSUME UNCHANGED <<handler, code>>
      PROVE  StoresInv'
  BY <1>1 DEF StoresInv
<1>2. code \in [Works -> Codes \cup {NoCode}]
  BY DEF BaseInv, TypeOK
<1>3. ASSUME NEW c \in Cpus, NEW k \in Codes, Interrupt(c, k)
      PROVE  StoresInv'
  BY <1>3 DEF Interrupt, StoresInv, NoHandler
<1>4. ASSUME NEW w \in Works, Store(w)
      PROVE  StoresInv'
  <2>1. handler \in Handlers /\ handler.at = w
    BY <1>4, HandlerIsRunning DEF Store, Works
  <2>2. handler' = [handler EXCEPT !.at = HandlerNext[w]]
    BY <1>4, <2>1 DEF Store, Advance, HandlerNext, Works
  <2>3. /\ handler'.at = IF w = "work1" THEN "work2" ELSE "queue1"
        /\ handler'.code = handler.code /\ handler' # NoHandler
    BY <2>1, <2>2 DEF HandlerNext, Works, Handlers, NoHandler
  <2>4. code' = [code EXCEPT ![w] = handler.code]
    BY <1>4 DEF Store
  <2>5. CASE w = "work1"
    BY <1>2, <2>3, <2>4, <2>5 DEF StoresInv, Works
  <2>6. CASE w = "work2"
    BY <1>2, <2>1, <2>3, <2>4, <2>6 DEF StoresInv, Works
  <2> QED
    BY <2>5, <2>6 DEF Works
<1>5. ASSUME NEW w \in Works, NEW place \in {"queue1", "queue2"}, Queue(place, w)
      PROVE  StoresInv'
  <2>1. handler \in Handlers /\ handler.at = place
    BY <1>5, HandlerIsRunning DEF Queue
  <2>2. UNCHANGED code /\ Advance /\ code["work1"] = handler.code /\ code["work2"] = handler.code
    BY <1>5, <2>1 DEF Queue, StoresInv
  <2>3. CASE place = "queue1"
    <3>1. handler'.at = "queue2" /\ handler'.code = handler.code /\ handler' # NoHandler
      BY <2>1, <2>2, <2>3 DEF Advance, HandlerNext, Handlers, NoHandler
    <3> QED
      BY <2>2, <3>1 DEF StoresInv
  <2>4. CASE place = "queue2"
    <3>1. handler' = NoHandler
      BY <2>1, <2>2, <2>4 DEF Advance, HandlerNext
    <3> QED
      BY <2>2, <3>1 DEF StoresInv, NoHandler
  <2> QED
    BY <2>3, <2>4
<1>6. ASSUME NEW c \in Cpus, Kworker(c)
      PROVE  StoresInv'
  BY <1>1, <1>6, OnlyItsRecord
<1>7. CASE my_init \/ my_exit \/ Unload
  BY <1>1, <1>7 DEF my_init, my_exit, Unload, Module, RequestIrq, RequestIrqFails, AllocWorkqueue,
     Kmalloc, InitWork, ProcCreate, InitFails, Flushed, DrainWorkqueue, DestroyWorkqueue,
     FreeIrq, Kfree
<1>8. UNCHANGED vars => StoresInv'
  BY <1>1 DEF vars
<1>9. Crash => StoresInv'
  BY <1>1 DEF Crash
<1> QED
  BY <1>3, <1>4, <1>5, <1>6, <1>7, <1>8, <1>9
     DEF Next, interrupt_handler, StoreFaults, QueueFaults, Works

(* A work is due while a run of it will still read its code.  A run with    *)
(* another code than the newest is followed by a run that is due; when none *)
(* is due, what was to be done is done or is about to be done.              *)
ToQueue(w) ==
    \/ handler.at \in {"work1", "work2", "queue1"}
    \/ w = "work2" /\ handler.at = "queue2"

Due(w) ==
    \/ Queued(w) \/ ToQueue(w)
    \/ \E c \in Cpus : worker[c].work = w /\ worker[c].at = "read"

SomeDue == \E w \in Works : Due(w)

Newest == IF handler = NoHandler THEN code["work2"] ELSE handler.code

Acts(c) == worker[c].at \notin {"idle", "read"}

StaleIsDue == \A c \in Cpus : Acts(c) /\ worker[c].code # Newest => Due(worker[c].work)

ToApply(k) == \E c \in Cpus : worker[c].code = k /\ worker[c].at \in {"switch", "awake"}
ToName(k) == \E c \in Cpus : worker[c].code = k /\ worker[c].at \in Naming

CaseIsRight == key_name[2] = should_use_uppercase \/ late

ShiftIs(k) ==
    /\ k = LeftShiftDown  => "left" \in shift
    /\ k = LeftShiftUp    => "left" \notin shift
    /\ k = RightShiftDown => "right" \in shift
    /\ k = RightShiftUp   => "right" \notin shift

Applied(k) ==
    /\ ShiftIs(k)
    /\ Displayed(k) => /\ key_code = PressCode(k)
                       /\ ToName(k) \/ (key_name[1] = PressCode(k) /\ CaseIsRight)

EffectInv ==
    wq \in {"none", "up"} =>
        StaleIsDue /\ (SomeDue \/ ToApply(Newest) \/ Applied(Newest))

(* Where one work runs at a time nobody changes a key between its test and   *)
(* the store of the name.                                                   *)
CaseInv ==
    OneAtATime =>
        /\ ~late
        /\ \A c \in Cpus :
             /\ worker[c].at = "right" => "left" \notin shift
             /\ worker[c].at = "caps" => worker[c].upper = (shift # {})
             /\ worker[c].at = "store" => worker[c].upper = should_use_uppercase

LastInv == WindowInv /\ OnePlace /\ StoresInv /\ EffectInv /\ CaseInv

(* A kworker that is not idle has a work.                                   *)
LEMMA ActsForWork ==
    ASSUME BaseInv, NEW c \in Cpus, worker[c].at # "idle"
    PROVE  worker[c].work \in Works
<1>1. worker[c] \in Kworkers /\ worker[c].work # Nobody
  BY DEF BaseInv, TypeOK, RunInv, Kworkers
<1> QED
  BY <1>1 DEF Kworkers

(* What touches neither keys nor works takes no effect away.                *)
LEMMA EffectKept ==
    ASSUME EffectInv, UNCHANGED <<version, handler, code, queue, worker, shift, caps, key_code, key_name,
                                late>>,
           wq' \in {"none", "up"} => wq \in {"none", "up"}
    PROVE  EffectInv'
<1>1. \A w : Due(w) <=> Due(w)'
  BY DEF Due, ToQueue, Queued
<1>2. \A k : (ToApply(k) <=> ToApply(k)') /\ (Applied(k) <=> Applied(k)')
  BY DEF ToApply, Applied, ShiftIs, Displayed, ToName, CaseIsRight, should_use_uppercase
<1>3. Newest' = Newest
  BY DEF Newest
<1> QED
  BY <1>1, <1>2, <1>3 DEF EffectInv, StaleIsDue, SomeDue, Acts

(* The handler makes both works due, and they stay so till they are queued. *)
LEMMA AllDue ==
    ASSUME BaseInv', \A w \in Works : Due(w)'
    PROVE  EffectInv'
<1>1. ASSUME NEW c \in Cpus, worker'[c].at # "idle"
      PROVE  worker'[c].work \in Works
  <2>1. worker'[c] \in Kworkers /\ worker'[c].work # Nobody
    BY <1>1 DEF BaseInv, TypeOK, RunInv, Kworkers
  <2> QED
    BY <2>1 DEF Kworkers
<1>2. StaleIsDue'
  BY <1>1 DEF StaleIsDue, Acts
<1> QED
  BY <1>2 DEF EffectInv, SomeDue, Works

(* The handler makes both works due with each byte it stores.               *)
LEMMA HandlerEffect ==
    ASSUME LastInv, interrupt_handler \/ \E c \in Cpus, k \in Codes : Interrupt(c, k)
    PROVE  EffectInv'
<1>1. BaseInv /\ OnePlace /\ StoresInv /\ EffectInv /\ BaseInv'
  BY HandlerBase DEF LastInv, WindowInv
<1>2. ASSUME NEW c \in Cpus, NEW k \in Codes, Interrupt(c, k)
      PROVE  EffectInv'
  <2>1. handler'.at = "work1"
    BY <1>2 DEF Interrupt
  <2> QED
    BY <1>1, <2>1, AllDue DEF Due, ToQueue
<1>3. ASSUME NEW w \in Works, Store(w)
      PROVE  EffectInv'
  <2>1. handler \in Handlers /\ handler.at = w
    BY <1>1, <1>3, HandlerIsRunning DEF Store, Works
  <2>2. handler'.at \in {"work2", "queue1"}
    BY <1>3, <2>1 DEF Store, Advance, HandlerNext, Works, Handlers
  <2> QED
    BY <1>1, <2>2, AllDue DEF Due, ToQueue
<1>4. ASSUME NEW w \in Works, NEW place \in {"queue1", "queue2"}, Queue(place, w),
             wq \in {"none", "up"},
             \/ place = "queue1" /\ w = "work1"
             \/ place = "queue2" /\ w = "work2"
      PROVE  EffectInv'
  <2>1. handler \in Handlers /\ handler.at = place /\ wq = "up"
    BY <1>1, <1>4, HandlerIsRunning DEF Queue, CanQueue
  <2>2. UNCHANGED <<worker, code, wq, version>> /\ Advance
    BY <1>4 DEF Queue, module
  <2>3. /\ \A v \in Works : Queued(v) => Queued(v)'
        /\ Queued(w)'
    BY <1>1, <1>4, <2>1, <2>2, QueueWork DEF Queue, Handlers
  <2>4. CASE place = "queue1"
    <3>1. handler'.at = "queue2"
      BY <2>1, <2>2, <2>4 DEF Advance, HandlerNext, Handlers
    <3> QED
      BY <1>1, <1>4, <2>3, <2>4, <3>1, AllDue DEF Due, ToQueue, Works
  <2>5. CASE place = "queue2"
    <3>1. handler' = NoHandler
      BY <2>1, <2>2, <2>5 DEF Advance, HandlerNext
    <3>2. Newest' = Newest
      BY <1>1, <2>1, <2>2, <2>5, <3>1 DEF Newest, StoresInv, Handlers, NoHandler
    <3>3. ASSUME NEW v \in Works, Due(v)
          PROVE  Due(v)'
      <4>1. ToQueue(v) => v = w
        BY <1>4, <2>1, <2>5 DEF ToQueue
      <4> QED
        BY <2>2, <2>3, <3>3, <4>1 DEF Due
    <3>4. StaleIsDue
      BY <1>1, <1>4 DEF EffectInv
    <3>5. StaleIsDue'
      BY <1>1, <2>2, <3>2, <3>3, <3>4, ActsForWork DEF StaleIsDue, Acts
    <3>6. SomeDue'
      BY <2>3 DEF SomeDue, Due
    <3> QED
      BY <3>5, <3>6 DEF EffectInv
  <2> QED
    BY <2>4, <2>5
<1>5. ASSUME NEW w \in Works, NEW place \in {"queue1", "queue2"}, Queue(place, w),
             wq \notin {"none", "up"}
      PROVE  EffectInv'
  BY <1>5 DEF Queue, module, EffectInv
<1>6. Crash => EffectInv'
  BY <1>1, EffectKept DEF Crash, module, keys
<1> QED
  BY <1>2, <1>3, <1>4, <1>5, <1>6 DEF interrupt_handler, StoreFaults, QueueFaults, Works

(* A kworker keeps what is due, but for the work whose code it reads.       *)
LEMMA EffectGoes ==
    ASSUME LastInv, NEW c \in Cpus, Kworker(c), \A w \in Works : Due(w) => Due(w)',
           Acts(c)' /\ worker'[c].code # Newest => Due(worker[c].work)',
           wq \in {"none", "up"} /\ ~SomeDue =>
               ToApply(Newest)' \/ Applied(Newest)' \/ SomeDue'
    PROVE  EffectInv'
<1>1. /\ \A d \in Cpus \ {c} : worker'[d] = worker[d]
      /\ UNCHANGED <<wq, handler, code>>
  BY OnlyItsRecord DEF LastInv, WindowInv
<1>2. Newest' = Newest
  BY <1>1 DEF Newest
<1>3. ASSUME wq \in {"none", "up"}
      PROVE  StaleIsDue'
  <2>1. StaleIsDue
    BY <1>3 DEF LastInv, EffectInv
  <2>2. \A d \in Cpus : worker[d].at # "idle" => worker[d].work \in Works
    BY ActsForWork DEF LastInv, WindowInv
  <2>3. ASSUME NEW d \in Cpus \ {c}, Acts(d)', worker'[d].code # Newest
        PROVE  Due(worker[d].work)'
    BY <1>1, <2>1, <2>2, <2>3 DEF StaleIsDue, Acts
  <2> QED
    BY <1>2, <2>3 DEF StaleIsDue
<1>4. SomeDue => SomeDue'
  BY DEF SomeDue
<1> QED
  BY <1>1, <1>2, <1>3, <1>4 DEF EffectInv

(* A work off the queue is about to read its code.                          *)
LEMMA TakeEffect ==
    ASSUME LastInv, NEW c \in Cpus, Take(c)
    PROVE  EffectInv'
<1>1. /\ queue[c] # <<>> /\ queue' = [queue EXCEPT ![c] = Tail(@)]
      /\ worker' = [worker EXCEPT ![c].at = "read", ![c].work = Head(queue[c])]
      /\ UNCHANGED handler /\ worker[c].at = "idle"
  BY DEF Take, At
<1>2. /\ queue[c] \in Seq(Works) /\ Distinct(queue[c])
      /\ queue \in [Cpus -> Seq(Works)] /\ worker \in [Cpus -> Kworkers]
  BY DEF LastInv, WindowInv, BaseInv, TypeOK, OnePlace, Kworkers
<1>3. worker'[c].at = "read" /\ worker'[c].work = Head(queue[c]) /\ queue'[c] = Tail(queue[c])
  BY <1>1, <1>2 DEF Kworkers
<1>4. \A d \in Cpus \ {c} : worker'[d] = worker[d] /\ queue'[d] = queue[d]
  BY <1>1, <1>2
<1>5. \A v \in Works : Contains(queue[c], v) => v = Head(queue[c]) \/ Contains(Tail(queue[c]), v)
  BY <1>1, <1>2, InQueueAfterTail
<1>6. Head(queue[c]) \in Works
  BY <1>1, <1>2
<1>7. ASSUME NEW v \in Works, Queued(v)
      PROVE  Due(v)'
  <2>1. PICK d \in Cpus : Contains(queue[d], v)
    BY <1>7 DEF Queued
  <2>2. CASE d = c
    BY <1>3, <1>5, <2>1, <2>2 DEF Due, Queued
  <2>3. CASE d # c
    BY <1>4, <2>1, <2>3 DEF Due, Queued
  <2> QED
    BY <2>2, <2>3
<1>8. ASSUME NEW v \in Works, Due(v)
      PROVE  Due(v)'
  <2>1. ToQueue(v) => ToQueue(v)'
    BY <1>1 DEF ToQueue
  <2>2. \A d \in Cpus : worker[d].at = "read" => worker'[d] = worker[d]
    BY <1>1, <1>4
  <2> QED
    BY <1>7, <1>8, <2>1, <2>2 DEF Due
<1>9. SomeDue'
  BY <1>3, <1>6 DEF SomeDue, Due
<1>10. ~Acts(c)'
  BY <1>3 DEF Acts
<1> QED
  BY <1>8, <1>9, <1>10, EffectGoes DEF Kworker

(* A work reads the newest code, or is queued again after it.               *)
LEMMA ReadEffect ==
    ASSUME LastInv, NEW c \in Cpus, Kworker(c), Read(c)
    PROVE  EffectInv'
<1>1. /\ worker' = [worker EXCEPT ![c].at = "switch", ![c].code = code[worker[c].work]]
      /\ UNCHANGED <<handler, code, queue, wq>> /\ worker[c].at = "read"
  BY DEF Read, At, module
<1>2. /\ worker \in [Cpus -> Kworkers] /\ BaseInv /\ OnePlace /\ StoresInv
  BY DEF LastInv, WindowInv, BaseInv, TypeOK, Kworkers
<1>3. PICK w \in Works : w = worker[c].work
  BY <1>1, <1>2, ActsForWork
<1>4. worker'[c].at = "switch" /\ worker'[c].work = w /\ worker'[c].code = code[w]
  BY <1>1, <1>2, <1>3 DEF Kworkers
<1>5. \A d \in Cpus \ {c} : worker'[d] = worker[d] /\ worker[d].work # w
  BY <1>1, <1>2, <1>3 DEF OnePlace, InPlace
<1>6. ASSUME NEW v \in Works, Due(v), v # w
      PROVE  Due(v)'
  <2>1. \A d \in Cpus : worker[d].work = v => worker'[d] = worker[d]
    BY <1>3, <1>5, <1>6
  <2>2. (ToQueue(v) => ToQueue(v)') /\ (Queued(v) => Queued(v)')
    BY <1>1 DEF ToQueue, Queued
  <2> QED
    BY <1>6, <2>1, <2>2 DEF Due
<1>7. ASSUME code[w] # Newest
      PROVE  ToQueue(w)
  <2>1. handler # NoHandler
    BY <1>2, <1>3, <1>7 DEF StoresInv, Newest, Works
  <2>2. handler \in Handlers
    BY <1>2, <2>1 DEF BaseInv, TypeOK, Handlers
  <2>3. handler.at \in {"work1", "work2", "queue1", "queue2"}
    BY <2>2 DEF Handlers, Works
  <2>4. code[w] # handler.code
    BY <1>7, <2>1 DEF Newest
  <2>5. handler.at \notin {"queue1", "queue2"}
    BY <1>2, <1>3, <2>4 DEF StoresInv, Works
  <2> QED
    BY <2>3, <2>5 DEF ToQueue
<1>8. ToQueue(w) => Due(w)'
  BY <1>1 DEF ToQueue, Due
<1>9. Newest' = Newest
  BY <1>1 DEF Newest
<1>10. wq \in {"none", "up"} => StaleIsDue'
  <2>1. ASSUME NEW d \in Cpus, StaleIsDue, Acts(d)', worker'[d].code # Newest
        PROVE  Due(worker[d].work)'
    <3>1. CASE d = c
      BY <1>4, <1>7, <1>8, <2>1, <3>1
    <3>2. CASE d # c
      <4>1. worker'[d] = worker[d] /\ worker[d].work # w
        BY <1>5, <3>2
      <4>2. Due(worker[d].work) /\ worker[d].at # "idle"
        BY <2>1, <4>1 DEF StaleIsDue, Acts
      <4>3. worker[d].work \in Works
        BY <1>2, <4>2, ActsForWork
      <4> QED
        BY <1>6, <4>1, <4>2, <4>3
    <3> QED
      BY <3>1, <3>2
  <2> QED
    BY <1>9, <2>1 DEF LastInv, EffectInv, StaleIsDue
<1>11. SomeDue' \/ ToApply(Newest)'
  <2>1. CASE code[w] = Newest
    BY <1>4, <1>9, <2>1 DEF ToApply
  <2>2. CASE code[w] # Newest
    BY <1>3, <1>7, <1>8, <2>2 DEF SomeDue
  <2> QED
    BY <2>1, <2>2
<1> QED
  BY <1>1, <1>9, <1>10, <1>11 DEF EffectInv

(* A step of a function that has read its code: when nothing is due, it is  *)
(* the newest.                                                              *)
LEMMA ActEffect ==
    ASSUME LastInv, NEW c \in Cpus, Kworker(c), Acts(c), ~Take(c), ~Read(c),
           \/ worker'[c] = Idle
           \/ worker'[c].code = worker[c].code /\ worker'[c].work = worker[c].work,
           \A k : worker[c].code = k /\ (ToApply(k) \/ Applied(k)) => ToApply(k)' \/ Applied(k)'
    PROVE  EffectInv'
<1>1. /\ \A d \in Cpus \ {c} : worker'[d] = worker[d]
      /\ UNCHANGED <<version, handler, code, queue>>
  BY OnlyItsRecord DEF LastInv, WindowInv
<1>2. \A v \in Works : Due(v) => Due(v)'
  <2>1. \A d \in Cpus : worker[d].at = "read" => worker'[d] = worker[d]
    BY <1>1 DEF Acts
  <2> QED
    BY <1>1, <2>1 DEF Due, ToQueue, Queued
<1>3. worker[c].work \in Works
  BY ActsForWork DEF LastInv, WindowInv, Acts
<1>4. CASE wq \notin {"none", "up"}
  <2>1. UNCHANGED wq
    BY OnlyItsRecord DEF LastInv, WindowInv
  <2> QED
    BY <1>4, <2>1 DEF EffectInv
<1>5. CASE wq \in {"none", "up"}
  <2>1. StaleIsDue /\ (SomeDue \/ ToApply(Newest) \/ Applied(Newest))
    BY <1>5 DEF LastInv, EffectInv
  <2>2. ASSUME Acts(c)', worker'[c].code # Newest
        PROVE  Due(worker[c].work)'
    <3>1. worker'[c].code = worker[c].code /\ worker'[c].work = worker[c].work
      BY <2>2 DEF Acts, Idle
    <3>2. Due(worker[c].work)
      BY <2>1, <2>2, <3>1 DEF StaleIsDue
    <3>3. PICK v \in Works : v = worker[c].work
      BY <1>3
    <3>4. Due(v)'
      BY <1>2, <3>2, <3>3
    <3> QED
      BY <3>1, <3>3, <3>4
  <2>3. ASSUME ~SomeDue
        PROVE  ToApply(Newest)' \/ Applied(Newest)'
    <3>1. worker[c].code = Newest
      BY <1>3, <2>1, <2>3 DEF StaleIsDue, SomeDue
    <3>2. Newest' = Newest
      BY <1>1 DEF Newest
    <3>3. PICK k : k = Newest
      OBVIOUS
    <3>4. ToApply(k)' \/ Applied(k)'
      BY <2>1, <2>3, <3>1, <3>3
    <3> QED
      BY <3>2, <3>3, <3>4
  <2> QED
    BY <1>2, <2>2, <2>3, EffectGoes
<1> QED
  BY <1>4, <1>5

(* Every step of a kworker leaves the newest code due, to be applied, or    *)
(* applied.                                                                 *)
LEMMA KworkerEffect ==
    ASSUME LastInv, NEW c \in Cpus, Kworker(c)
    PROVE  EffectInv'
<1>1. /\ worker \in [Cpus -> Kworkers] /\ worker[c] \in Kworkers
      /\ RunInv /\ UNCHANGED <<version, wq>>
  BY OnlyItsRecord DEF LastInv, WindowInv, BaseInv, TypeOK, Kworkers
<1>2. \A k : Displayed(k)' = Displayed(k)
  BY <1>1 DEF Displayed
<1>3. CASE WorkFaults(c)
  BY <1>3, EffectKept DEF WorkFaults, Crash, module, keys, LastInv
<1>4. CASE Take(c)
  BY <1>4, TakeEffect
<1>5. CASE Read(c)
  BY <1>5, ReadEffect
<1>6. ASSUME Acts(c)
      PROVE  ~Take(c) /\ ~Read(c)
  BY <1>6 DEF Acts, Take, Read, At
<1>7. ASSUME Return(c)
      PROVE  worker'[c] = Idle
  BY <1>1, <1>7 DEF Return
<1>8. ASSUME Acts(c),
             \/ worker'[c] = Idle
             \/ worker'[c].code = worker[c].code /\ worker'[c].work = worker[c].work,
             \A k : worker[c].code = k => ToApply(k)' \/ Applied(k)'
      PROVE  EffectInv'
  BY <1>6, <1>8, ActEffect
<1>9. ASSUME NEW k, k \in Modifiers \/ ~IsRelease(k)
      PROVE  ~Displayed(k)'
  BY <1>2, <1>9 DEF Displayed, Shown
<1>10. CASE SwitchShift(c)
  <2>1. Acts(c) /\ worker'[c] = Idle
    BY <1>7, <1>10 DEF SwitchShift, At, Acts
  <2>2. ASSUME NEW k, worker[c].code = k
        PROVE  Applied(k)'
    <3>1. k \in Modifiers \ {CapsLockDown} /\ shift' = ShiftAfter(k)
      BY <1>10, <2>2 DEF SwitchShift
    <3>2. ShiftIs(k)'
      BY <3>1 DEF ShiftIs, ShiftAfter, Modifiers, LeftShiftDown, LeftShiftUp, RightShiftDown,
         RightShiftUp, CapsLockDown
    <3> QED
      BY <1>9, <3>1, <3>2 DEF Applied
  <2> QED
    BY <1>8, <2>1, <2>2
<1>11. ASSUME NEW k, k \notin Modifiers \/ k = CapsLockDown
       PROVE  ShiftIs(k)'
  BY <1>11 DEF ShiftIs, Modifiers, LeftShiftDown, LeftShiftUp, RightShiftDown, RightShiftUp,
     CapsLockDown
<1>12. CASE SwitchCaps(c) \/ Toggle(c)
  <2>1. Acts(c) /\ worker[c].code = CapsLockDown
    BY <1>1, <1>12 DEF SwitchCaps, Toggle, At, Acts, RunInv
  <2>2. \/ worker'[c] = Idle
        \/ worker'[c].code = worker[c].code /\ worker'[c].work = worker[c].work
    <3>1. CASE SwitchCaps(c)
      BY <1>1, <3>1 DEF SwitchCaps, Kworkers
    <3>2. CASE Toggle(c)
      BY <1>7, <3>2 DEF Toggle
    <3> QED
      BY <1>12, <3>1, <3>2
  <2>3. \A k : worker[c].code = k => Applied(k)'
    BY <1>9, <1>11, <2>1 DEF Applied, Modifiers
  <2> QED
    BY <1>8, <2>1, <2>2, <2>3
<1>13. CASE IgnorePress(c) \/ \E place \in {"switch", "awake"} : IgnoreRelease(c, place)
  <2>1. /\ Acts(c) /\ worker'[c] = Idle
        /\ worker[c].code \notin Modifiers /\ ~Displayed(worker[c].code)
    BY <1>7, <1>13 DEF IgnorePress, IgnoreRelease, At, Acts, Displayed, Shown
  <2>2. \A k : worker[c].code = k => Applied(k)'
    BY <1>2, <1>11, <2>1 DEF Applied
  <2> QED
    BY <1>8, <2>1, <2>2
<1>14. CASE Sleep(c)
  <2>1. /\ Acts(c) /\ worker'[c].at = "awake"
        /\ worker'[c].code = worker[c].code /\ worker'[c].work = worker[c].work
    BY <1>1, <1>14 DEF Sleep, At, Acts, Kworkers
  <2>2. \A k : worker[c].code = k => ToApply(k)'
    BY <2>1 DEF ToApply
  <2> QED
    BY <1>8, <2>1, <2>2
<1>15. ASSUME NEW place \in {"switch", "awake"}, SetCode(c, place)
       PROVE  EffectInv'
  <2>1. /\ Acts(c) /\ worker'[c].at = "left" /\ Displayed(worker[c].code)
        /\ worker'[c].code = worker[c].code /\ worker'[c].work = worker[c].work
        /\ key_code' = PressCode(worker[c].code)
    BY <1>1, <1>15 DEF SetCode, At, Acts, Kworkers
  <2>2. ASSUME NEW k, worker[c].code = k
        PROVE  Applied(k)'
    <3>1. ToName(k)' /\ key_code' = PressCode(k) /\ k \notin Modifiers
      BY <2>1, <2>2 DEF ToName, Naming, Displayed, Shown
    <3> QED
      BY <1>11, <3>1 DEF Applied
  <2> QED
    BY <1>8, <2>1, <2>2
<1>16. ASSUME worker[c].at \in Naming, UNCHANGED keys, worker'[c].at \in Naming,
              worker'[c].code = worker[c].code, worker'[c].work = worker[c].work
       PROVE  EffectInv'
  <2>1. Acts(c)
    BY <1>16 DEF Acts, Naming
  <2>2. \A d \in Cpus \ {c} : worker'[d] = worker[d]
    BY OnlyItsRecord DEF LastInv, WindowInv
  <2>3. ASSUME NEW k, worker[c].code = k, ToApply(k)
        PROVE  ToApply(k)'
    BY <1>16, <2>2, <2>3 DEF ToApply, Naming
  <2>4. ASSUME NEW k, worker[c].code = k, Applied(k)
        PROVE  Applied(k)'
    <3>1. ToName(k)'
      BY <1>16, <2>4 DEF ToName
    <3>2. ShiftIs(k)'
      BY <1>16, <2>4 DEF Applied, ShiftIs, keys
    <3> QED
      BY <1>2, <1>16, <2>4, <3>1, <3>2 DEF Applied, keys
  <2> QED
    BY <1>6, <1>16, <2>1, <2>3, <2>4, ActEffect
<1>17. CASE TestCaps(c) \/ TestShift(c, "left", "right") \/ TestShift(c, "right", "caps")
  <2>1. /\ worker[c].at \in Naming /\ UNCHANGED keys /\ worker'[c].at \in Naming
        /\ worker'[c].code = worker[c].code /\ worker'[c].work = worker[c].work
    BY <1>1, <1>17 DEF TestCaps, TestShift, At, Naming, Kworkers
  <2> QED
    BY <1>16, <2>1
<1>18. CASE StoreName(c)
  <2>1. /\ Acts(c) /\ worker'[c] = Idle /\ Displayed(worker[c].code) /\ worker[c].at = "store"
        /\ key_name' = <<PressCode(worker[c].code), worker[c].upper>>
        /\ late' = (worker[c].upper # should_use_uppercase)
        /\ UNCHANGED <<shift, caps, key_code>>
    BY <1>1, <1>7, <1>18 DEF StoreName, At, Acts, RunInv, Naming
  <2>2. \A d \in Cpus \ {c} : worker'[d] = worker[d]
    BY OnlyItsRecord DEF LastInv, WindowInv
  <2>3. ASSUME NEW k, worker[c].code = k, ToApply(k)
        PROVE  ToApply(k)'
    BY <2>1, <2>2, <2>3 DEF ToApply
  <2>4. ASSUME NEW k, worker[c].code = k, Applied(k)
        PROVE  Applied(k)'
    <3>1. k \notin Modifiers /\ key_code' = PressCode(k)
      BY <2>1, <2>4 DEF Applied, Displayed, Shown
    <3>2. key_name'[1] = PressCode(k) /\ key_name'[2] = worker[c].upper
      BY <2>1, <2>4
    <3>3. should_use_uppercase' = should_use_uppercase
      BY <2>1 DEF should_use_uppercase
    <3>4. CaseIsRight'
      BY <2>1, <3>2, <3>3 DEF CaseIsRight
    <3> QED
      BY <1>11, <3>1, <3>2, <3>4 DEF Applied
  <2> QED
    BY <1>6, <2>1, <2>3, <2>4, ActEffect
<1> QED
  BY <1>3, <1>4, <1>5, <1>10, <1>12, <1>13, <1>14, <1>15, <1>17, <1>18
     DEF Kworker, work_fun1, work_fun2, SetName

(* Loading and unloading leave the keys alone; where the queue is not up    *)
(* yet or no more, nothing is claimed.                                      *)
LEMMA ModuleEffect ==
    ASSUME LastInv, my_init \/ my_exit \/ Unload
    PROVE  EffectInv'
<1>1. UNCHANGED <<version, handler, code, queue, worker, keys>>
  BY DEF my_init, my_exit, Unload, Module, RequestIrq, RequestIrqFails, AllocWorkqueue, Kmalloc,
     InitWork, ProcCreate, InitFails, Flushed, DrainWorkqueue, DestroyWorkqueue, FreeIrq, Kfree
<1>2. wq' \in {"none", "up"} => wq \in {"none", "up"}
  <2>1. CASE AllocWorkqueue
    BY <2>1 DEF AllocWorkqueue, Module, LastInv, WindowInv, PlaceInv, LoadKnows
  <2>2. CASE ~AllocWorkqueue
    BY <2>2 DEF my_init, my_exit, Unload, RequestIrq, RequestIrqFails, Kmalloc,
       InitWork, ProcCreate, InitFails, Flushed, DrainWorkqueue, DestroyWorkqueue, FreeIrq, Kfree
  <2> QED
    BY <2>1, <2>2
<1> QED
  BY <1>1, <1>2, EffectKept DEF LastInv, keys

(* Where one work runs at a time, the running one is Home's.                *)
LEMMA OnlyHomeRuns ==
    ASSUME BaseInv, OnePlace, OneAtATime, NEW c \in Cpus, worker[c].at # "idle"
    PROVE  c = Home
<1>1. PICK w \in Works : worker[c].work = w
  BY ActsForWork
<1> QED
  BY <1>1 DEF OneAtATime, OnePlace, InPlace

(* A kworker that tests the modifiers and stores a name is alone with them. *)
LEMMA KworkerCase ==
    ASSUME LastInv, NEW c \in Cpus, Kworker(c)
    PROVE  CaseInv'
<1> SUFFICES ASSUME OneAtATime
             PROVE  CaseInv'
  BY OnlyItsRecord DEF LastInv, WindowInv, CaseInv, OneAtATime
<1> DEFINE Knows(r) ==
      /\ r.at = "right" => "left" \notin shift
      /\ r.at = "caps" => r.upper = (shift # {})
      /\ r.at = "store" => r.upper = should_use_uppercase
<1>1. /\ worker \in [Cpus -> Kworkers] /\ worker[c] \in Kworkers /\ BaseInv /\ OnePlace
      /\ shift \subseteq {"left", "right"}
  BY DEF LastInv, WindowInv, BaseInv, TypeOK, Kworkers
<1>2. ~late /\ \A d \in Cpus : Knows(worker[d])
  BY DEF LastInv, CaseInv
<1>3. \A d \in Cpus \ {c} : worker'[d] = worker[d]
  BY <1>1, OnlyItsRecord
<1>4. ASSUME UNCHANGED <<shift, caps, late>>, Knows(worker'[c])
      PROVE  CaseInv'
  <2>1. should_use_uppercase' = should_use_uppercase
    BY <1>4 DEF should_use_uppercase
  <2>2. \A d \in Cpus : Knows(worker'[d])
    BY <1>2, <1>3, <1>4
  <2> QED
    BY <1>2, <1>4, <2>1, <2>2 DEF CaseInv
<1>5. ASSUME worker[c].at # "idle", Return(c), ~late'
      PROVE  CaseInv'
  <2>1. worker'[c] = Idle
    BY <1>1, <1>5 DEF Return
  <2>2. \A d \in Cpus \ {c} : worker[d].at = "idle"
    BY <1>1, <1>5, OnlyHomeRuns
  <2>3. \A d \in Cpus : worker'[d].at = "idle"
    BY <1>3, <2>1, <2>2 DEF Idle
  <2> QED
    BY <1>5, <2>3 DEF CaseInv
<1>6. CASE Take(c) \/ Read(c) \/ SwitchCaps(c) \/ Sleep(c) \/ \E place : SetCode(c, place)
  <2>1. worker'[c].at \in {"read", "switch", "toggle", "awake", "left"}
    BY <1>1, <1>6 DEF Take, Read, SwitchCaps, Sleep, SetCode, Kworkers
  <2>2. UNCHANGED <<shift, caps, late>>
    BY <1>6 DEF Take, Read, SwitchCaps, Sleep, SetCode, keys
  <2> QED
    BY <1>4, <2>1, <2>2
<1>7. CASE WorkFaults(c)
  <2>1. UNCHANGED <<shift, caps, late, worker>>
    BY <1>7 DEF WorkFaults, Crash, keys
  <2> QED
    BY <1>2, <1>4, <2>1
<1>8. CASE \/ SwitchShift(c) \/ Toggle(c) \/ IgnorePress(c) \/ \E place \in {"switch", "awake"} :
              IgnoreRelease(c, place)
  <2>1. worker[c].at # "idle" /\ Return(c) /\ UNCHANGED late
    BY <1>8 DEF SwitchShift, Toggle, IgnorePress, IgnoreRelease, At, keys
  <2> QED
    BY <1>2, <1>5, <2>1
<1>9. CASE TestShift(c, "left", "right")
  <2>1. /\ UNCHANGED <<shift, caps, late>> /\ worker'[c].upper = ("left" \in shift)
        /\ worker'[c].at = IF "left" \in shift THEN "caps" ELSE "right"
    BY <1>1, <1>9 DEF TestShift, keys, Kworkers
  <2>2. Knows(worker'[c])
    BY <2>1
  <2> QED
    BY <1>4, <2>1, <2>2
<1>10. CASE TestShift(c, "right", "caps")
  <2>1. /\ UNCHANGED <<shift, caps, late>> /\ worker'[c].upper = ("right" \in shift)
        /\ worker'[c].at = "caps" /\ worker[c].at = "right"
    BY <1>1, <1>10 DEF TestShift, At, keys, Kworkers
  <2>2. "left" \notin shift
    BY <1>2, <2>1
  <2>3. ("right" \in shift) = (shift # {})
    <3>1. shift # {} => \E side \in shift : side = "right"
      BY <1>1, <2>2
    <3> QED
      BY <3>1
  <2>4. Knows(worker'[c])
    BY <2>1, <2>3
  <2> QED
    BY <1>4, <2>1, <2>4
<1>11. CASE TestCaps(c)
  <2>1. /\ UNCHANGED <<shift, caps, late>> /\ worker'[c].upper = (worker[c].upper # caps)
        /\ worker'[c].at = "store" /\ worker[c].at = "caps"
    BY <1>1, <1>11 DEF TestCaps, At, keys, Kworkers
  <2>2. Knows(worker'[c])
    BY <1>2, <2>1 DEF should_use_uppercase
  <2> QED
    BY <1>4, <2>1, <2>2
<1>12. CASE StoreName(c)
  <2>1. /\ worker[c].at = "store" /\ Return(c)
        /\ late' = (worker[c].upper # should_use_uppercase)
    BY <1>12 DEF StoreName, At
  <2> QED
    BY <1>2, <1>5, <2>1
<1> QED
  BY <1>6, <1>7, <1>8, <1>9, <1>10, <1>11, <1>12
     DEF Kworker, work_fun1, work_fun2, SetName

(* Nobody but the kworkers touches the modifiers.                           *)
LEMMA CaseStep ==
    ASSUME LastInv, [Next]_vars
    PROVE  CaseInv'
<1>1. ASSUME UNCHANGED <<version, worker, keys>>
      PROVE  CaseInv'
  BY <1>1 DEF LastInv, CaseInv, OneAtATime, should_use_uppercase, keys
<1>2. CASE interrupt_handler \/ \E c \in Cpus, k \in Codes : Interrupt(c, k)
  BY <1>1, <1>2 DEF interrupt_handler, Interrupt, Store, StoreFaults, Queue, QueueFaults, Crash,
     module
<1>3. CASE my_init \/ my_exit \/ Unload
  BY <1>1, <1>3 DEF my_init, my_exit, Unload, Module, RequestIrq, RequestIrqFails, AllocWorkqueue,
     Kmalloc, InitWork, ProcCreate, InitFails, Flushed, DrainWorkqueue, DestroyWorkqueue,
     FreeIrq, Kfree
<1>4. UNCHANGED vars => CaseInv'
  BY <1>1 DEF vars, module
<1> QED
  BY <1>2, <1>3, <1>4, KworkerCase DEF Next

(* Before the first interrupt there is no code to apply.                    *)
LEMMA LastInit == Init => LastInv
<1> SUFFICES ASSUME Init
             PROVE  LastInv
  OBVIOUS
<1>1. /\ code["work1"] = NoCode /\ code["work2"] = NoCode /\ handler = NoHandler
      /\ \A c \in Cpus : queue[c] = <<>> /\ worker[c] = Idle
  BY DEF Init, Works
<1>2. OnePlace
  BY <1>1 DEF OnePlace, InPlace, Distinct, Contains, Idle, Works, Nobody
<1>3. StoresInv
  BY <1>1 DEF StoresInv, NoHandler
<1>4. Newest = NoCode
  BY <1>1 DEF Newest
<1>5. Applied(NoCode)
  BY DEF Applied, ShiftIs, Displayed, Shown, IsRelease, NoCode, LeftShiftDown, LeftShiftUp,
     RightShiftDown, RightShiftUp
<1>6. StaleIsDue
  BY <1>1 DEF StaleIsDue, Acts, Idle
<1>7. CaseInv
  BY <1>1 DEF CaseInv, Idle, Init
<1> QED
  BY <1>2, <1>3, <1>4, <1>5, <1>6, <1>7, WindowInit DEF LastInv, EffectInv

(* LastInv is inductive.                                                    *)
LEMMA LastStep == LastInv /\ [Next]_vars => LastInv'
<1> SUFFICES ASSUME LastInv, [Next]_vars
             PROVE  LastInv'
  OBVIOUS
<1>1. WindowInv' /\ OnePlace' /\ StoresInv'
  BY WindowStep, OnePlaceStep, StoresStep DEF LastInv, WindowInv
<1>2. UNCHANGED vars => EffectInv'
  BY EffectKept DEF LastInv, vars, module, keys
<1>3. EffectInv'
  BY <1>2, HandlerEffect, KworkerEffect, ModuleEffect DEF Next
<1>4. CaseInv'
  BY CaseStep
<1> QED
  BY <1>1, <1>3, <1>4 DEF LastInv

(* When the works have come to rest, nothing is due and nothing is left to  *)
(* apply, so that the newest scancode has had its effect.                   *)
LEMMA RestIsApplied == LastInv => LastCodeTakesEffect
<1> SUFFICES ASSUME LastInv, AtRest, wq = "up"
             PROVE  /\ Applied(code["work2"]) /\ ~ToName(code["work2"])
                    /\ late => ~OneAtATime
  BY DEF LastCodeTakesEffect, Applied, ShiftIs, CaseIsRight
<1>1. handler = NoHandler /\ \A w \in Works : ~Queued(w) /\ ~Running(w)
  BY DEF AtRest
<1>2. \A w \in Works : ~Due(w)
  BY <1>1 DEF Due, ToQueue, Running, NoHandler
<1>3. \A c \in Cpus : worker[c].at = "idle"
  BY <1>1, ActsForWork DEF LastInv, WindowInv, Running
<1> QED
  BY <1>1, <1>2, <1>3 DEF LastInv, EffectInv, CaseInv, SomeDue, Newest, ToApply, ToName,
     Naming

(* LastCodeTakesEffect is an invariant: whatever the two works have done    *)
(* with older scancodes, on whatever CPUs, the last one wins, but for the   *)
(* case of a name whose work was overtaken by the other between its test of *)
(* the modifiers and its store, which takes two works at a time.            *)
THEOREM LastScancodeWins == Spec => []LastCodeTakesEffect
<1> QED
  BY LastInit, LastStep, RestIsApplied, PTL DEF Spec
=============================================================================
