---------------------------- MODULE KeyTasklet -----------------------------
(* lab_ipq/tasklet.c: a kernel module whose handler of interrupt 1 stores   *)
(* the scancode in the one data field of a tasklet and schedules it; the    *)
(* tasklet keeps the state of the modifiers and publishes the last released *)
(* key in /proc/ts.  lab_10/tasklet.c, its first version, only schedules the*)
(* tasklet, which reads the scancode from the port when it runs, and        *)
(* publishes the last key pressed in /proc/keyboard.                        *)
(*                                                                          *)
(* The kernel is external.  What is used of it: the handler of a line never *)
(* runs on two CPUs at once, and neither a softirq nor a thread runs on the *)
(* CPU it interrupts; free_irq waits for a running handler; tasklet_schedule*)
(* does nothing when the SCHED bit is set; a tasklet runs on one CPU at a   *)
(* time, and the kernel clears SCHED before it reads data and calls it;     *)
(* tasklet_kill sets SCHED itself, so that nothing schedules the tasklet,   *)
(* waits for a running call, and clears it again.                           *)
EXTENDS Scancodes, FiniteSets

CONSTANTS
    Cpus,       \* the CPUs that may take the interrupt
    Codes,      \* the scancodes the keyboard sends
    MaxIrqs     \* bound on the interrupts of a behaviour

Nowhere == "nowhere"
Killed  == "killed"

ASSUME ConstantsAssumption ==
    /\ Cpus # {} /\ IsFiniteSet(Cpus)
    /\ Nowhere \notin Cpus /\ Killed \notin Cpus
    /\ Codes \subseteq Bytes
    /\ MaxIrqs \in Nat

VARIABLES
    version,    \* which of the two modules this is
    pc,         \* where my_init or my_exit is
    irq,        \* whether interrupt_handler is registered
    tasklet,    \* what the pointer holds: "null", "raw", "ready" or "freed"
    handler,    \* the running interrupt_handler: step, CPU and byte read
    data,       \* tasklet->data; in lab_10, the byte that the port holds
    sched,      \* TASKLET_STATE_SCHED, with the CPU that will run it
    call,       \* the running my_tasklet_fun: step, CPU and code
    shift,      \* left_shift_pressed and right_shift_pressed
    caps,       \* caps_lock_active
    t_key_code, t_key_name,
    oops,       \* a stray pointer has been followed
    irqs,       \* interrupts so far, for MaxIrqs
    fresh,      \* history: data is newer than the last call
    typed,      \* history: what every scancode stored for the tasklet leads to
    lost        \* history: a scancode has been overwritten or not taken

module == <<version, pc, irq, tasklet>>
keys   == <<shift, caps, t_key_code, t_key_name>>
history == <<fresh, typed, lost>>
vars   == <<module, handler, data, sched, call, keys, oops, irqs, history>>

NoCode  == -1
NoHandler == [at |-> "none", cpu |-> Nowhere, code |-> NoCode]
NoCall    == [at |-> "none", cpu |-> Nowhere, code |-> NoCode]

(* Keys with a name in lowercase and uppercase; the test of the code lets   *)
(* 84 through.  The arrows and Enter are never shown.                       *)
Named == 69
Arrows == {72, 75, 77, 80}

(* lab_10: keys pressed, of which CapsLock is one like the others, but for  *)
(* those of the keypad and Enter.                                           *)
Pressed(k) == k < Named /\ k \notin (71 .. 83) \cup {28}

ModifiersOf(v) == IF v = "lab_10" THEN Modifiers \ {CapsLockDown} ELSE Modifiers

Published(k) ==
    /\ k \notin ModifiersOf(version)
    /\ IF version = "lab_10" THEN Pressed(k) ELSE Shown(k) /\ PressCode(k) \notin Arrows
Stray == <<NoCode, TRUE>>
Name(press, upper) == IF press < Named THEN <<press, upper>> ELSE Stray

Init ==
    /\ version \in {"lab_ipq", "lab_10"}
    /\ pc = "request_irq" /\ irq = FALSE /\ tasklet = "null"
    /\ handler = NoHandler /\ call = NoCall
    /\ data = NoCode /\ sched = Nowhere
    /\ shift = {} /\ caps = FALSE
    /\ t_key_code = NoCode /\ t_key_name = <<NoCode, FALSE>>
    /\ oops = FALSE /\ irqs = 0
    /\ fresh = FALSE /\ lost = FALSE
    /\ typed = [shift |-> {}, caps |-> FALSE, key |-> NoCode]

Uninterrupted(c) == handler.cpu # c
SomeCpu == \E c \in Cpus : Uninterrupted(c)

should_use_uppercase == (shift # {}) # caps

ShiftCodes == Modifiers \ {CapsLockDown}

ShiftAfter(s, k) == CASE k = LeftShiftDown  -> s \cup {"left"}
                      [] k = LeftShiftUp    -> s \ {"left"}
                      [] k = RightShiftDown -> s \cup {"right"}
                      [] k = RightShiftUp   -> s \ {"right"}
                      [] OTHER -> s

Typed(t, k) == [shift |-> ShiftAfter(t.shift, k),
                caps  |-> IF k \in ModifiersOf(version) \ ShiftCodes THEN ~t.caps ELSE t.caps,
                key   |-> IF Published(k) THEN PressCode(k) ELSE t.key]

----------------------------------------------------------------------------
(* interrupt_handler *)

\* Code k is on its way to the tasklet.
Sent(k) ==
    /\ data' = k
    /\ fresh' = TRUE
    /\ typed' = IF tasklet = "ready" THEN Typed(typed, k) ELSE typed
    /\ lost' = (lost \/ fresh \/ tasklet # "ready")

Interrupt(c, k) ==
    /\ irq /\ handler = NoHandler /\ irqs < MaxIrqs
    /\ irqs' = irqs + 1
    /\ \/ /\ version = "lab_ipq"
          /\ handler' = [at |-> "data", cpu |-> c, code |-> k]
          /\ UNCHANGED <<data, history>>
       \/ /\ version = "lab_10"
          /\ handler' = [at |-> "schedule", cpu |-> c, code |-> k]
          /\ Sent(k)
    /\ UNCHANGED <<module, sched, call, keys, oops>>

(* if (tasklet) *)
NoTasklet ==
    /\ handler.at = "data" /\ tasklet = "null"
    /\ handler' = NoHandler
    /\ lost' = TRUE
    /\ UNCHANGED <<module, data, sched, call, keys, oops, irqs, fresh, typed>>

StoreData ==
    /\ handler.at = "data" /\ tasklet \in {"raw", "ready"}
    /\ handler' = [handler EXCEPT !.at = "schedule"]
    /\ Sent(handler.code)
    /\ UNCHANGED <<module, sched, call, keys, oops, irqs>>

\* Fault: the tasklet is not scheduled while it runs.
ScheduleUnlessRunning ==
    /\ handler.at = "schedule" /\ tasklet = "ready"
    /\ sched' = IF sched = Nowhere /\ call = NoCall THEN handler.cpu ELSE sched
    /\ lost' = (lost \/ sched = Killed)
    /\ handler' = NoHandler
    /\ UNCHANGED <<module, data, call, keys, oops, irqs, fresh, typed>>

tasklet_schedule ==
    /\ handler.at = "schedule" /\ tasklet = "ready"
    /\ sched' = IF sched = Nowhere THEN handler.cpu ELSE sched
    /\ lost' = (lost \/ sched = Killed)
    /\ handler' = NoHandler
    /\ UNCHANGED <<module, data, call, keys, oops, irqs, fresh, typed>>

Crash == oops' = TRUE
         /\ UNCHANGED <<module, handler, data, sched, call, keys, irqs, history>>

HandlerFaults ==
    /\ \/ handler.at = "data" /\ tasklet = "freed"
       \/ handler.at = "schedule" /\ tasklet # "ready"
    /\ Crash

interrupt_handler == NoTasklet \/ StoreData \/ tasklet_schedule \/ HandlerFaults

----------------------------------------------------------------------------
(* The softirq of CPU c and my_tasklet_fun *)

Start(c) ==
    /\ sched = c /\ Uninterrupted(c) /\ call = NoCall /\ tasklet = "ready"
    /\ sched' = Nowhere
    /\ call' = [at |-> "data", cpu |-> c, code |-> NoCode]
    /\ UNCHANGED <<module, handler, data, keys, oops, irqs, history>>

StartFaults(c) ==
    /\ sched = c /\ Uninterrupted(c) /\ call = NoCall /\ tasklet # "ready"
    /\ Crash

At(at) == call.at = at /\ Uninterrupted(call.cpu)

ReadData ==
    /\ At("data")
    /\ call' = [call EXCEPT !.at = "switch", !.code = data]
    /\ fresh' = FALSE
    /\ UNCHANGED <<module, handler, data, sched, keys, oops, irqs, typed, lost>>

\* Fault: CapsLock is set and not toggled.
ModifySettingCaps ==
    /\ At("switch") /\ call.code \in ModifiersOf(version)
    /\ shift' = ShiftAfter(shift, call.code)
    /\ caps' = (caps \/ call.code = CapsLockDown)
    /\ call' = NoCall
    /\ UNCHANGED <<module, handler, data, sched, t_key_code, t_key_name, oops, irqs, history>>

Modify ==
    /\ At("switch") /\ call.code \in ModifiersOf(version)
    /\ shift' = ShiftAfter(shift, call.code)
    /\ caps' = IF call.code = CapsLockDown THEN ~caps ELSE caps
    /\ call' = NoCall
    /\ UNCHANGED <<module, handler, data, sched, t_key_code, t_key_name, oops, irqs, history>>

\* Fault: the tasklet waits for a code that it knows.
IgnoreForEver ==
    /\ At("switch") /\ call.code \notin ModifiersOf(version) /\ ~Published(call.code)
    /\ UNCHANGED vars

Ignore ==
    /\ At("switch") /\ call.code \notin ModifiersOf(version) /\ ~Published(call.code)
    /\ call' = NoCall
    /\ UNCHANGED <<module, handler, data, sched, keys, oops, irqs, history>>

SetCode ==
    /\ At("switch") /\ Published(call.code)
    /\ t_key_code' = PressCode(call.code)
    /\ call' = [call EXCEPT !.at = "name"]
    /\ UNCHANGED <<module, handler, data, sched, shift, caps, t_key_name, oops, irqs, history>>

SetName ==
    /\ At("name")
    /\ t_key_name' = Name(PressCode(call.code), should_use_uppercase)
    /\ call' = NoCall
    /\ UNCHANGED <<module, handler, data, sched, shift, caps, t_key_code, oops, irqs, history>>

my_tasklet_fun == ReadData \/ Modify \/ Ignore \/ SetCode \/ SetName
Softirq == (\E c \in Cpus : Start(c) \/ StartFaults(c)) \/ my_tasklet_fun

----------------------------------------------------------------------------
(* my_init and my_exit *)

Module(from, to) ==
    /\ pc = from /\ SomeCpu
    /\ pc' = to /\ version' = version
    /\ UNCHANGED <<handler, call, keys, oops, irqs, history>>

RequestIrq ==
    /\ Module("request_irq", "kmalloc")
    /\ irq' = TRUE
    /\ UNCHANGED <<tasklet, data, sched>>

RequestIrqFails == Module("request_irq", "gone") /\ UNCHANGED <<irq, tasklet, data, sched>>

Kmalloc ==
    /\ Module("kmalloc", "tasklet_init")
    /\ tasklet' = "raw"
    /\ UNCHANGED <<irq, data, sched>>

KmallocFails == Module("kmalloc", "free_irq") /\ UNCHANGED <<irq, tasklet, data, sched>>

\* Fault: tasklet_init is forgotten.
TaskletInitForgotten ==
    /\ Module("tasklet_init", "loaded")
    /\ UNCHANGED <<irq, tasklet, data, sched>>

(* tasklet_init also stores its own data, 0, which lab_10 does not use. *)
tasklet_init ==
    /\ Module("tasklet_init", "loaded")
    /\ tasklet' = "ready"
    /\ data' = IF version = "lab_10" THEN data ELSE 0
    /\ UNCHANGED <<irq, sched>>

my_init == RequestIrq \/ RequestIrqFails \/ Kmalloc \/ KmallocFails \/ tasklet_init

RemoveProc == Module("loaded", "kill") /\ UNCHANGED <<irq, tasklet, data, sched>>

KillBegins ==
    /\ sched = Nowhere
    /\ Module("kill", "killing")
    /\ sched' = Killed
    /\ UNCHANGED <<irq, tasklet, data>>

KillEnds ==
    /\ call = NoCall
    /\ Module("killing", "kfree")
    /\ sched' = Nowhere
    /\ UNCHANGED <<irq, tasklet, data>>

Kfree ==
    /\ Module("kfree", "free_irq")
    /\ tasklet' = "freed"
    /\ UNCHANGED <<irq, data, sched>>

FreeIrq ==
    /\ handler = NoHandler
    /\ Module("free_irq", "gone")
    /\ irq' = FALSE
    /\ UNCHANGED <<tasklet, data, sched>>

Unload == KillBegins \/ KillEnds \/ Kfree \/ FreeIrq

----------------------------------------------------------------------------
Next == /\ ~oops
        /\ \/ \E c \in Cpus, k \in Codes : Interrupt(c, k)
           \/ interrupt_handler
           \/ Softirq
           \/ my_init
           \/ RemoveProc
           \/ Unload

Spec == Init /\ [][Next]_vars

(* Handlers and softirqs finish, a scheduled tasklet runs, and rmmod goes   *)
(* on.  tasklet_kill polls for the SCHED bit, so it gets it only if it is   *)
(* clear again and again: strong fairness.                                  *)
FairSpec == /\ Spec
            /\ WF_vars(~oops /\ interrupt_handler)
            /\ WF_vars(~oops /\ Softirq)
            /\ WF_vars(~oops /\ Unload)
            /\ SF_vars(~oops /\ KillBegins)

----------------------------------------------------------------------------
(* When every scancode has been read before the next came, the module shows *)
(* what was typed: the Shift keys and CapsLock as they were left, and the   *)
(* last key that is shown at all, under its own name if the tables have it. *)
AtRest == handler = NoHandler /\ call = NoCall /\ sched = Nowhere

ExactWhenNoneLost ==
    AtRest /\ ~lost /\ ~oops =>
        /\ shift = typed.shift /\ caps = typed.caps
        /\ t_key_code = typed.key
        /\ typed.key < Named => t_key_name[1] = typed.key

(* An interrupt follows a stray pointer only between kmalloc and            *)
(* tasklet_init, or once my_exit has freed the tasklet; the test of the     *)
(* pointer, which lab_10 does not make, covers the rest of my_init, and a   *)
(* loaded module is safe.                                                   *)
OopsOnlyInWindows ==
    oops => \/ pc = "tasklet_init"
            \/ version = "lab_10" /\ pc \in {"kmalloc", "free_irq"} /\ tasklet = "null"
            \/ pc \in {"free_irq", "gone"} /\ tasklet = "freed"

(* A scancode may be overwritten before the tasklet reads it, the last one  *)
(* is read, unless the module is unloading or crashed: SCHED is cleared     *)
(* before data is read.                                                     *)
LatestDataRead == fresh ~> (~fresh \/ oops \/ pc \in {"kill", "killing", "kfree", "free_irq", "gone"})

(* rmmod ends: tasklet_kill gets hold of the tasklet between two scancodes. *)
Unloads == pc = "kill" ~> (pc = "gone" \/ oops)
=============================================================================
