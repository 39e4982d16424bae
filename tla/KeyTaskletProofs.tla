-------------------------- MODULE KeyTaskletProofs -------------------------
(* Proofs about KeyTasklet, for any number of CPUs and interrupts and in    *)
(* either version of the module: when an interrupt may follow a stray       *)
(* pointer, and that what was typed is what is shown.                       *)
EXTENDS KeyTasklet, TLAPS

(* What each place of my_init and my_exit knows of the handler and of the   *)
(* tasklet; a tasklet that has never been ready is scheduled nowhere; and   *)
(* the handler of lab_ipq has tested the pointer before it schedules.       *)
PlaceKnows ==
    /\ version \in {"lab_ipq", "lab_10"}
    /\ pc \in {"request_irq", "kmalloc", "tasklet_init", "loaded", "kill", "killing",
               "kfree", "free_irq", "gone"}
    /\ pc = "request_irq" => tasklet = "null"
    /\ pc = "kmalloc" => tasklet = "null"
    /\ pc = "tasklet_init" => tasklet = "raw"
    /\ pc \in {"loaded", "kill", "killing", "kfree"} => tasklet = "ready"
    /\ pc \in {"free_irq", "gone"} => tasklet \in {"null", "freed"}
    /\ pc \in {"request_irq", "gone"} => irq = FALSE /\ handler = NoHandler

PointersKnow ==
    /\ tasklet \in {"null", "raw"} => sched = Nowhere
    /\ handler.at = "schedule" /\ tasklet = "null" => version = "lab_10"

WindowInv == PlaceKnows /\ PointersKnow /\ OopsOnlyInWindows

(* Before request_irq nothing of the module runs.                           *)
LEMMA WindowInit == Init => WindowInv
  BY DEF Init, WindowInv, PlaceKnows, PointersKnow, OopsOnlyInWindows, NoHandler

(* A step of the handler: it stores and schedules through the pointer it has*)
(* tested, or follows it in one of the windows.                             *)
LEMMA WindowHandler ==
  ASSUME WindowInv, ~oops, interrupt_handler
  PROVE  WindowInv'
<1> USE DEF WindowInv, PlaceKnows, PointersKnow, OopsOnlyInWindows, module, NoHandler
<1>1. CASE NoTasklet
  BY <1>1 DEF NoTasklet
<1>2. CASE StoreData
  BY <1>2 DEF StoreData
<1>3. CASE tasklet_schedule
  BY <1>3 DEF tasklet_schedule
<1>4. CASE HandlerFaults
  BY <1>4 DEF HandlerFaults, Crash
<1> QED
  BY <1>1, <1>2, <1>3, <1>4 DEF interrupt_handler

(* A step of the softirq or of the tasklet's function.                      *)
LEMMA WindowSoftirq ==
  ASSUME WindowInv, ~oops, Softirq
  PROVE  WindowInv'
<1> USE DEF WindowInv, PlaceKnows, PointersKnow, OopsOnlyInWindows, module
<1>1. ASSUME NEW c \in Cpus, Start(c)
      PROVE  WindowInv'
  BY <1>1 DEF Start
<1>2. ASSUME NEW c \in Cpus, StartFaults(c)
      PROVE  WindowInv'
  BY <1>2, ConstantsAssumption DEF StartFaults, Crash
<1>3. CASE my_tasklet_fun
  BY <1>3 DEF my_tasklet_fun, ReadData, Modify, Ignore, SetCode, SetName
<1> QED
  BY <1>1, <1>2, <1>3 DEF Softirq

(* A step of my_init or my_exit.                                            *)
LEMMA WindowModule ==
  ASSUME WindowInv, ~oops, my_init \/ RemoveProc \/ Unload
  PROVE  WindowInv'
<1> USE DEF WindowInv, PlaceKnows, PointersKnow, OopsOnlyInWindows, Module, NoHandler
<1>1. CASE my_init
  BY <1>1 DEF my_init, RequestIrq, RequestIrqFails, Kmalloc, KmallocFails, tasklet_init
<1>2. CASE RemoveProc
  BY <1>2 DEF RemoveProc
<1>3. CASE Unload
  BY <1>3 DEF Unload, KillBegins, KillEnds, Kfree, FreeIrq
<1> QED
  BY <1>1, <1>2, <1>3

\* WindowInv is inductive.
LEMMA WindowStep ==
  ASSUME WindowInv, [Next]_vars
  PROVE  WindowInv'
<1>1. CASE UNCHANGED vars
  BY <1>1 DEF WindowInv, PlaceKnows, PointersKnow, OopsOnlyInWindows, vars, module
<1>2. ASSUME NEW c \in Cpus, NEW k \in Codes, ~oops, Interrupt(c, k)
      PROVE  WindowInv'
  BY <1>2 DEF WindowInv, PlaceKnows, PointersKnow, OopsOnlyInWindows, Interrupt, Sent, module
<1> QED
  BY <1>1, <1>2, WindowHandler, WindowSoftirq, WindowModule DEF Next

(* On any number of CPUs and for any interrupts, a stray pointer is followed*)
(* only between kmalloc and tasklet_init, once my_exit has freed the        *)
(* tasklet, or, by the handler of lab_10, while there is none.              *)
THEOREM StrayOnlyInWindows == Spec => []OopsOnlyInWindows
<1>1. Init => WindowInv
  BY WindowInit
<1>2. WindowInv /\ [Next]_vars => WindowInv'
  BY WindowStep
<1>3. WindowInv => OopsOnlyInWindows
  BY DEF WindowInv
<1> QED
  BY <1>1, <1>2, <1>3, PTL DEF Spec

----------------------------------------------------------------------------
(* What was typed is what is shown.                                         *)

Bytes0 == Codes \cup {NoCode, 0}

Shapes ==
    /\ version \in {"lab_ipq", "lab_10"}
    /\ handler = NoHandler \/ handler \in [at : {"data", "schedule"}, cpu : Cpus, code : Codes]
    /\ call = NoCall \/ call \in [at : {"data", "switch", "name"}, cpu : Cpus, code : Bytes0]
    /\ data \in Bytes0
    /\ sched \in Cpus \cup {Nowhere, Killed}
    /\ fresh \in BOOLEAN /\ lost \in BOOLEAN

(* As long as nothing is lost, the byte in data that has not been read is   *)
(* on its way at exactly one place: in the handler that is about to schedule*)
(* the tasklet, with the tasklet that is scheduled, or with its function    *)
(* that is about to read.                                                   *)
OnItsWay ==
    /\ pc = "killing" => sched = Killed
    /\ ~lost =>
        /\ fresh <=> \/ handler.at = "schedule"
                     \/ sched \in Cpus
                     \/ call.at = "data"
        /\ sched \in Cpus => call.at # "data"
        /\ handler.at = "schedule" => sched \notin Cpus /\ call.at # "data"
        /\ tasklet \in {"null", "raw"} => ~fresh

Now == [shift |-> shift, caps |-> caps, key |-> t_key_code]
AfterCall == IF call.at = "switch" THEN Typed(Now, call.code) ELSE Now

(* What was typed is what is shown once the call and the byte on its way    *)
(* have had their effect.                                                   *)
Expected == ~lost => typed = IF fresh THEN Typed(AfterCall, data) ELSE AfterCall

Shows ==
    IF call.at = "name" THEN t_key_code = PressCode(call.code)
    ELSE t_key_code < Named => t_key_name[1] = t_key_code

ShownInv == WindowInv /\ Shapes /\ OnItsWay /\ Expected /\ Shows

(* What Typed makes of a key that is a modifier, is shown, or is neither.   *)
LEMMA TypedModifier ==
  ASSUME NEW k, k \in ModifiersOf(version)
  PROVE  Typed(Now, k) = [shift |-> ShiftAfter(shift, k),
                          caps |-> IF k = CapsLockDown THEN ~caps ELSE caps,
                          key |-> t_key_code]
<1>1. ~Published(k)
  BY DEF Published
<1>2. k \in ModifiersOf(version) \ ShiftCodes <=> k = CapsLockDown
  BY DEF ModifiersOf, ShiftCodes, Modifiers, CapsLockDown
<1> QED
  BY <1>1, <1>2 DEF Typed, Now

\* What a code that is no modifier does to the keys.
LEMMA TypedOther ==
  ASSUME NEW k, k \notin ModifiersOf(version)
  PROVE  Typed(Now, k) = [shift |-> shift, caps |-> caps,
                          key |-> IF Published(k) THEN PressCode(k) ELSE t_key_code]
<1>1. ShiftAfter(shift, k) = shift
  BY DEF ModifiersOf, Modifiers, ShiftAfter, CapsLockDown,
         LeftShiftDown, LeftShiftUp, RightShiftDown, RightShiftUp
<1> QED
  BY <1>1 DEF Typed, Now

\* Nothing is typed and nothing is shown.
LEMMA ShownInit == Init => ShownInv
<1> SUFFICES ASSUME Init PROVE ShownInv
  OBVIOUS
<1>1. WindowInv
  BY WindowInit
<1>2. Shapes /\ OnItsWay
  BY ConstantsAssumption DEF Init, Shapes, OnItsWay, NoCall, NoHandler, Bytes0
<1>3. Expected /\ Shows
  BY DEF Init, Expected, Shows, AfterCall, Now, NoCall
<1> QED
  BY <1>1, <1>2, <1>3 DEF ShownInv

(* The byte on its way, and the shapes.                                     *)
LEMMA WayStep ==
  ASSUME Shapes, OnItsWay, WindowInv, [Next]_vars
  PROVE  Shapes' /\ OnItsWay'
<1> USE ConstantsAssumption DEF Shapes, OnItsWay, module, history, keys, Bytes0, NoHandler, NoCall
<1>1. CASE UNCHANGED vars
  BY <1>1 DEF vars
<1>2. ASSUME NEW c \in Cpus, NEW k \in Codes, Interrupt(c, k)
      PROVE  Shapes' /\ OnItsWay'
  <2>1. CASE version = "lab_ipq"
    BY <1>2, <2>1 DEF Interrupt
  <2>2. CASE version = "lab_10"
    <3>1. handler' = [at |-> "schedule", cpu |-> c, code |-> k] /\ Sent(k)
      BY <1>2, <2>2 DEF Interrupt
    <3>2. handler' \in [at : {"data", "schedule"}, cpu : Cpus, code : Codes]
      BY <3>1
    <3> QED
      BY <1>2, <2>2, <3>1, <3>2 DEF Interrupt, Sent, WindowInv, PlaceKnows
  <2> QED
    BY <2>1, <2>2
<1>3. CASE NoTasklet
  BY <1>3 DEF NoTasklet
<1>4. CASE StoreData
  <2>1. handler \in [at : {"data", "schedule"}, cpu : Cpus, code : Codes]
    BY <1>4 DEF StoreData
  <2>2. /\ handler' \in [at : {"data", "schedule"}, cpu : Cpus, code : Codes]
        /\ handler'.at = "schedule" /\ handler.at # "schedule" /\ handler.code \in Codes
    BY <1>4, <2>1 DEF StoreData
  <2> QED
    BY <1>4, <2>1, <2>2 DEF StoreData, Sent
<1>5. CASE tasklet_schedule
  <2>1. handler.cpu \in Cpus /\ handler.at = "schedule" /\ handler'.at # "schedule"
    BY <1>5 DEF tasklet_schedule
  <2>2. handler' = NoHandler
    BY <1>5 DEF tasklet_schedule
  <2>3. UNCHANGED <<version, pc, tasklet, data, call, fresh>>
    BY <1>5 DEF tasklet_schedule
  <2>4. CASE sched = Nowhere
    <3>1. sched' \in Cpus /\ lost' = lost
      BY <1>5, <2>1, <2>4 DEF tasklet_schedule, Nowhere, Killed
    <3> QED
      BY <2>1, <2>2, <2>3, <2>4, <3>1, <1>5 DEF WindowInv, PlaceKnows, Nowhere, Killed
  <2>5. CASE sched # Nowhere
    <3>1. sched' = sched /\ lost' = (lost \/ sched = Killed)
      BY <1>5, <2>5 DEF tasklet_schedule
    <3> QED
      BY <2>1, <2>2, <2>3, <2>5, <3>1
  <2> QED
    BY <2>4, <2>5
<1>6. CASE HandlerFaults
  BY <1>6 DEF HandlerFaults, Crash
<1>7. ASSUME NEW c \in Cpus, Start(c)
      PROVE  Shapes' /\ OnItsWay'
  BY <1>7 DEF Start
<1>8. ASSUME NEW c \in Cpus, StartFaults(c)
      PROVE  Shapes' /\ OnItsWay'
  BY <1>8 DEF StartFaults, Crash
<1>9. CASE ReadData
  <2>1. call \in [at : {"data", "switch", "name"}, cpu : Cpus, code : Bytes0]
    BY <1>9 DEF ReadData, At
  <2>2. /\ call' \in [at : {"data", "switch", "name"}, cpu : Cpus, code : Bytes0]
        /\ call'.at = "switch" /\ call.at = "data"
    BY <1>9, <2>1 DEF ReadData, At
  <2> QED
    BY <1>9, <2>1, <2>2 DEF ReadData
<1>10. CASE Modify \/ Ignore \/ SetCode \/ SetName
  BY <1>10 DEF Modify, Ignore, SetCode, SetName, At
<1>11. CASE my_init
  BY <1>11 DEF my_init, RequestIrq, RequestIrqFails, Kmalloc, KmallocFails, tasklet_init,
               Module, WindowInv, PlaceKnows
<1>12. CASE RemoveProc
  BY <1>12 DEF RemoveProc, Module
<1>13. CASE Unload
  BY <1>13 DEF Unload, KillBegins, KillEnds, Kfree, FreeIrq, Module, WindowInv, PlaceKnows
<1> QED
  BY <1>1, <1>2, <1>3, <1>4, <1>5, <1>6, <1>7, <1>8, <1>9, <1>10, <1>11, <1>12, <1>13
     DEF Next, interrupt_handler, Softirq, my_tasklet_fun

(* A new byte adds its effect to what is expected, and reading it moves that*)
(* effect to the call.                                                      *)
LEMMA ExpectedInterrupt ==
  ASSUME ShownInv, NEW k, Sent(k), UNCHANGED <<version, tasklet, call, keys>>
  PROVE  Expected'
<1> SUFFICES ASSUME ~lost' PROVE typed' = Typed(AfterCall, k)'
  BY DEF Expected, Sent
<1>1. ~lost /\ ~fresh /\ tasklet = "ready"
  BY DEF Sent
<1>2. typed = AfterCall
  BY <1>1 DEF ShownInv, Expected
<1>3. typed' = Typed(AfterCall, k)
  BY <1>1, <1>2 DEF Sent
<1> QED
  BY <1>3 DEF Typed, AfterCall, Now, keys, Published, ModifiersOf

\* What was typed stays what is shown once all that is on its way has had
\* its effect.
LEMMA ExpectedStep ==
  ASSUME ShownInv, [Next]_vars
  PROVE  Expected'
<1> USE DEF module, history, keys
<1> DEFINE Same == UNCHANGED <<version, data, call, keys, fresh, typed, lost>>
<1>1. ASSUME Same
      PROVE  Expected'
  BY <1>1 DEF ShownInv, Expected, AfterCall, Now, Typed, Published, ModifiersOf
<1>2. ASSUME NEW c \in Cpus, NEW k \in Codes, Interrupt(c, k)
      PROVE  Expected'
  <2>1. CASE UNCHANGED <<data, history>>
    BY <1>1, <1>2, <2>1 DEF Interrupt
  <2>2. CASE Sent(k)
    BY <1>2, <2>2, ExpectedInterrupt DEF Interrupt
  <2> QED
    BY <1>2, <2>1, <2>2 DEF Interrupt
<1>3. CASE NoTasklet
  BY <1>3 DEF NoTasklet, Expected
<1>4. CASE StoreData
  BY <1>4, ExpectedInterrupt DEF StoreData
<1>5. CASE tasklet_schedule
  <2>1. UNCHANGED <<version, data, call, keys, fresh, typed>>
    BY <1>5 DEF tasklet_schedule
  <2>2. ~lost' => ~lost
    BY <1>5 DEF tasklet_schedule
  <2> QED
    BY <2>1, <2>2 DEF ShownInv, Expected, AfterCall, Now, Typed, Published, ModifiersOf
<1>6. CASE HandlerFaults
  BY <1>1, <1>6 DEF HandlerFaults, Crash
<1>7. ASSUME NEW c \in Cpus, Start(c)
      PROVE  Expected'
  <2>1. UNCHANGED <<version, data, keys, fresh, typed, lost>> /\ AfterCall' = Now /\ AfterCall = Now
    BY <1>7 DEF Start, AfterCall, Now, NoCall
  <2> QED
    BY <2>1 DEF ShownInv, Expected, Now, Typed, Published, ModifiersOf
<1>8. ASSUME NEW c \in Cpus, StartFaults(c)
      PROVE  Expected'
  BY <1>1, <1>8 DEF StartFaults, Crash
<1>9. CASE ReadData
  <2> SUFFICES ASSUME ~lost' PROVE typed' = AfterCall'
    BY <1>9 DEF ReadData, Expected
  <2>1. ~lost /\ fresh /\ AfterCall = Now
    BY <1>9 DEF ReadData, At, ShownInv, OnItsWay, AfterCall
  <2>2. typed = Typed(Now, data)
    BY <2>1 DEF ShownInv, Expected
  <2>3. call'.at = "switch" /\ call'.code = data
    BY <1>9 DEF ReadData, At, ShownInv, Shapes, NoCall
  <2>4. AfterCall' = Typed(Now, data)
    BY <1>9, <2>3 DEF ReadData, AfterCall, Now, Typed, Published, ModifiersOf
  <2> QED
    BY <1>9, <2>2, <2>4 DEF ReadData
<1>10. ASSUME AfterCall' = AfterCall, UNCHANGED <<version, data, fresh, typed, lost>>
       PROVE  Expected'
  BY <1>10 DEF ShownInv, Expected, Typed, Published, ModifiersOf
<1>11. CASE Modify
  <2>1. AfterCall' = Now' /\ UNCHANGED <<version, data, fresh, typed, lost>>
    BY <1>11 DEF Modify, AfterCall, NoCall
  <2>2. AfterCall = Typed(Now, call.code)
    BY <1>11 DEF Modify, At, AfterCall
  <2>3. Now' = [shift |-> ShiftAfter(shift, call.code),
                caps |-> IF call.code = CapsLockDown THEN ~caps ELSE caps,
                key |-> t_key_code]
    BY <1>11 DEF Modify, Now
  <2> QED
    BY <1>10, <1>11, <2>1, <2>2, <2>3, TypedModifier DEF Modify
<1>12. CASE Ignore
  <2>1. AfterCall' = Now' /\ Now' = Now /\ UNCHANGED <<version, data, fresh, typed, lost>>
    BY <1>12 DEF Ignore, AfterCall, NoCall, Now
  <2>2. AfterCall = Typed(Now, call.code)
    BY <1>12 DEF Ignore, At, AfterCall
  <2> QED
    BY <1>10, <1>12, <2>1, <2>2, TypedOther DEF Ignore, Now
<1>13. CASE SetCode
  <2>1. AfterCall' = Now' /\ UNCHANGED <<version, data, fresh, typed, lost>>
    BY <1>13 DEF SetCode, AfterCall, At, ShownInv, Shapes, NoCall
  <2>2. AfterCall = Typed(Now, call.code)
    BY <1>13 DEF SetCode, At, AfterCall
  <2>3. Now' = [shift |-> shift, caps |-> caps, key |-> PressCode(call.code)]
    BY <1>13 DEF SetCode, Now
  <2>4. call.code \notin ModifiersOf(version) /\ Published(call.code)
    BY <1>13 DEF SetCode, Published
  <2> QED
    BY <1>10, <2>1, <2>2, <2>3, <2>4, TypedOther
<1>14. CASE SetName
  <2>1. AfterCall' = Now /\ AfterCall = Now /\ UNCHANGED <<version, data, fresh, typed, lost>>
    BY <1>14 DEF SetName, AfterCall, At, NoCall, Now
  <2> QED
    BY <1>10, <2>1
<1>15. CASE my_init \/ RemoveProc \/ Unload
  <2>1. UNCHANGED <<version, call, keys, fresh, typed, lost>>
    BY <1>15 DEF my_init, RequestIrq, RequestIrqFails, Kmalloc, KmallocFails, tasklet_init,
                 RemoveProc, Unload, KillBegins, KillEnds, Kfree, FreeIrq, Module
  <2>2. data' = data \/ (pc = "tasklet_init" /\ tasklet = "raw")
    BY <1>15 DEF my_init, RequestIrq, RequestIrqFails, Kmalloc, KmallocFails, tasklet_init,
                 RemoveProc, Unload, KillBegins, KillEnds, Kfree, FreeIrq, Module,
                 ShownInv, WindowInv, PlaceKnows
  <2>3. data' = data \/ lost \/ ~fresh
    BY <2>2 DEF ShownInv, OnItsWay
  <2>4. CASE data' = data
    BY <1>1, <2>1, <2>4
  <2>5. CASE lost
    BY <2>1, <2>5 DEF Expected
  <2>6. CASE ~fresh
    BY <2>1, <2>6 DEF ShownInv, Expected, AfterCall, Now, Typed, Published, ModifiersOf
  <2> QED
    BY <2>3, <2>4, <2>5, <2>6
<1>16. CASE UNCHANGED vars
  BY <1>1, <1>16 DEF vars
<1> QED
  BY <1>2, <1>3, <1>4, <1>5, <1>6, <1>7, <1>8, <1>9, <1>11, <1>12, <1>13, <1>14, <1>15, <1>16
     DEF Next, interrupt_handler, Softirq, my_tasklet_fun

(* The code and the name are published together, seen from between calls.   *)
LEMMA ShowsStep ==
  ASSUME ShownInv, [Next]_vars
  PROVE  Shows'
<1> USE DEF module, history, keys
<1>1. ASSUME UNCHANGED <<call, t_key_code, t_key_name>>
      PROVE  Shows'
  BY <1>1 DEF ShownInv, Shows
<1>2. ASSUME UNCHANGED <<t_key_code, t_key_name>>, call.at # "name", call'.at # "name"
      PROVE  Shows'
  BY <1>2 DEF ShownInv, Shows
<1>3. ASSUME NEW c \in Cpus, NEW k \in Codes, Interrupt(c, k)
      PROVE  Shows'
  BY <1>1, <1>3 DEF Interrupt
<1>4. CASE interrupt_handler
  BY <1>1, <1>4 DEF interrupt_handler, NoTasklet, StoreData, tasklet_schedule, HandlerFaults, Crash
<1>5. ASSUME NEW c \in Cpus, Start(c) \/ StartFaults(c)
      PROVE  Shows'
  BY <1>1, <1>2, <1>5 DEF Start, StartFaults, Crash, NoCall
<1>6. CASE ReadData \/ Modify \/ Ignore
  <2>1. CASE ReadData
    BY <1>2, <2>1 DEF ReadData, At, NoCall, ShownInv, Shapes
  <2>2. CASE Modify \/ Ignore
    BY <1>2, <2>2 DEF Modify, Ignore, At, NoCall
  <2> QED
    BY <1>6, <2>1, <2>2
<1>7. CASE SetCode
  <2>1. call'.at = "name" /\ call'.code = call.code
    BY <1>7 DEF SetCode, At, ShownInv, Shapes, NoCall
  <2> QED
    BY <1>7, <2>1 DEF SetCode, Shows
<1>8. CASE SetName
  <2>1. t_key_code = PressCode(call.code) /\ t_key_code' = t_key_code
    BY <1>8 DEF SetName, At, ShownInv, Shows
  <2>2. t_key_name' = Name(t_key_code, should_use_uppercase)
    BY <1>8, <2>1 DEF SetName
  <2> QED
    BY <1>8, <2>1, <2>2 DEF SetName, Shows, Name, NoCall
<1>9. CASE my_init \/ RemoveProc \/ Unload
  BY <1>1, <1>9 DEF my_init, RequestIrq, RequestIrqFails, Kmalloc, KmallocFails, tasklet_init,
               RemoveProc, Unload, KillBegins, KillEnds, Kfree, FreeIrq, Module
<1>10. CASE UNCHANGED vars
  BY <1>1, <1>10 DEF vars
<1> QED
  BY <1>3, <1>4, <1>5, <1>6, <1>7, <1>8, <1>9, <1>10 DEF Next, Softirq, my_tasklet_fun

(* For any number of CPUs and any sequence of scancodes: if each was read   *)
(* before the next came, then whenever nothing is under way the Shift keys, *)
(* CapsLock and the shown key are what was typed.                           *)
THEOREM TypedIsShown == Spec => []ExactWhenNoneLost
<1>1. Init => ShownInv
  BY ShownInit
<1>2. ShownInv /\ [Next]_vars => ShownInv'
  BY WindowStep, WayStep, ExpectedStep, ShowsStep DEF ShownInv
<1>3. ShownInv => ExactWhenNoneLost
  <2> SUFFICES ASSUME ShownInv, AtRest, ~lost
               PROVE  /\ shift = typed.shift /\ caps = typed.caps
                      /\ t_key_code = typed.key
                      /\ typed.key < Named => t_key_name[1] = typed.key
    BY DEF ExactWhenNoneLost
  <2>1. ~fresh
    BY ConstantsAssumption DEF ShownInv, OnItsWay, AtRest, NoHandler, NoCall
  <2>2. typed = Now
    BY <2>1 DEF ShownInv, Expected, AfterCall, AtRest, NoCall
  <2> QED
    BY <2>2 DEF Now, ShownInv, Shows, AtRest, NoCall
<1> QED
  BY <1>1, <1>2, <1>3, PTL DEF Spec
=============================================================================
