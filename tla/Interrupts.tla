----------------------------- MODULE Interrupts -----------------------------
(***************************************************************************)
(* Interrupts on the Nios II as the hardware abstraction layer manages     *)
(* them with the processor's internal controller: the registers STATUS     *)
(* (its PIE bit) and IENABLE, the copy of IENABLE in alt_irq_active, the   *)
(* table of handlers (alt_irq_handler.c), registering, enabling and        *)
(* disabling (alt_iic.c, alt_iic_isr_register.c, alt_legacy_irq.h) and the *)
(* dispatcher with its way in and out (alt_irq_entry.S,                    *)
(* alt_exception_entry.S).                                                 *)
(*                                                                         *)
(* The thread's calls go access by access and an interrupt may be taken    *)
(* between any two while PIE is set.  Handlers run with PIE clear, so what *)
(* one does is a step.  Devices and their handlers are external: a device  *)
(* holds its line until its handler has run and then may let it go.        *)
(***************************************************************************)
EXTENDS Integers, Sequences

CONSTANTS
    Irq,        \* interrupt numbers: 0 .. ALT_NIRQ - 1
    Driver,     \* drivers, each with a handler and the context it expects
    NoDriver,   \* NULL
    MaxNest     \* bound: critical sections the program nests

ASSUME InterruptsAssumption ==
    /\ Irq \subseteq Nat
    /\ NoDriver \notin Driver
    /\ MaxNest \in Nat

VARIABLES
    lines,          \* interrupt inputs that are high
    PIE,            \* interrupts enabled in STATUS
    IENABLE,        \* the controller's register
    alt_irq_active, \* its copy in memory
    alt_irq,        \* the table: handler and context of each interrupt
    irqpc,          \* where the thread is
    request,        \* the call it is in: what to do with which interrupt
    contexts,       \* what alt_irq_disable_all has returned, innermost first
    loadedActive,   \* alt_irq_active as read for the change
    dispatch,       \* where the dispatcher is, "off" when not running
    active,         \* its local: the pending interrupts it has read
    enabled         \* history: what has been asked of alt_ic_irq_enable and disable

irqTables   == <<IENABLE, alt_irq_active, alt_irq>>
irqThread   == <<irqpc, request, contexts, loadedActive>>
irqDispatch == <<dispatch, active>>
irqVars == <<lines, PIE, irqTables, irqThread, irqDispatch, enabled>>

NoEntry   == [handler |-> NoDriver, context |-> NoDriver]
NoRequest == [op |-> "none", irq |-> 0, driver |-> NoDriver, registers |-> FALSE]

\* After a reset of the processor: the loader fills the tables anew and
\* nothing is assumed of IENABLE.
AfterReset ==
    /\ PIE' = FALSE
    /\ IENABLE' \in SUBSET Irq
    /\ alt_irq_active' = {}
    /\ alt_irq' = [i \in Irq |-> NoEntry]
    /\ irqpc' = "reset" /\ request' = NoRequest /\ contexts' = <<>> /\ loadedActive' = {}
    /\ dispatch' = "off" /\ active' = {}
    /\ enabled' = {}

InterruptInit ==
    /\ lines = {}
    /\ PIE = FALSE
    /\ IENABLE \in SUBSET Irq
    /\ alt_irq_active = {}
    /\ alt_irq = [i \in Irq |-> NoEntry]
    /\ irqpc = "reset" /\ request = NoRequest /\ contexts = <<>> /\ loadedActive = {}
    /\ dispatch = "off" /\ active = {}
    /\ enabled = {}

Restarts == AfterReset /\ UNCHANGED lines

-----------------------------------------------------------------------------
(* The thread. *)

At(s) == irqpc = s /\ dispatch = "off"

\* alt_irq_init
IrqInit ==
    /\ At("reset")
    /\ IENABLE' = {}
    /\ PIE' = TRUE
    /\ irqpc' = "idle"
    /\ UNCHANGED <<lines, alt_irq_active, alt_irq, request, contexts,
                   loadedActive, irqDispatch, enabled>>

DisableAll == contexts' = <<PIE>> \o contexts /\ PIE' = FALSE
EnableAll  == contexts' = Tail(contexts) /\ PIE' = Head(contexts)

\* Critical sections of the program and of other drivers.
EntersSection ==
    /\ At("idle") /\ Len(contexts) < MaxNest
    /\ DisableAll
    /\ UNCHANGED <<lines, irqTables, irqpc, request, loadedActive, irqDispatch, enabled>>

LeavesSection ==
    /\ At("idle") /\ contexts # <<>>
    /\ EnableAll
    /\ UNCHANGED <<lines, irqTables, irqpc, request, loadedActive, irqDispatch, enabled>>

\* alt_ic_isr_register of a handler, or of NULL to disable the interrupt; an
\* irq of ALT_NIRQ or more is refused without effect.
CallsRegister ==
    /\ At("idle")
    /\ \E i \in Irq, d \in Driver \cup {NoDriver} :
          request' = [op |-> IF d = NoDriver THEN "disable" ELSE "enable", irq |-> i,
                       driver |-> d, registers |-> TRUE]
    /\ irqpc' = "register"
    /\ UNCHANGED <<lines, PIE, irqTables, contexts, loadedActive, irqDispatch, enabled>>

\* alt_ic_irq_enable and alt_ic_irq_disable; an interrupt is enabled only with
\* a handler for it.
CallsMask ==
    /\ At("idle")
    /\ \E op \in {"enable", "disable"}, i \in Irq :
          /\ op = "enable" => alt_irq[i].handler # NoDriver
          /\ request' = [op |-> op, irq |-> i, driver |-> NoDriver, registers |-> FALSE]
    /\ irqpc' = "mask"
    /\ UNCHANGED <<lines, PIE, irqTables, contexts, loadedActive, irqDispatch, enabled>>

\* Variant: the table is written with interrupts enabled.
RegisterDisablesNothing ==
    /\ At("register")
    /\ contexts' = <<PIE>> \o contexts
    /\ irqpc' = "handler"
    /\ UNCHANGED <<lines, PIE, irqTables, request, loadedActive, irqDispatch, enabled>>

RegisterDisables ==
    /\ At("register")
    /\ DisableAll
    /\ irqpc' = "handler"
    /\ UNCHANGED <<lines, irqTables, request, loadedActive, irqDispatch, enabled>>

StoresHandler ==
    /\ At("handler")
    /\ alt_irq' = [alt_irq EXCEPT ![request.irq].handler = request.driver]
    /\ irqpc' = "context"
    /\ UNCHANGED <<lines, PIE, IENABLE, alt_irq_active, request, contexts,
                   loadedActive, irqDispatch, enabled>>

StoresContext ==
    /\ At("context")
    /\ alt_irq' = [alt_irq EXCEPT ![request.irq].context = request.driver]
    /\ irqpc' = "mask"
    /\ UNCHANGED <<lines, PIE, IENABLE, alt_irq_active, request, contexts,
                   loadedActive, irqDispatch, enabled>>

-----------------------------------------------------------------------------
(* alt_irq_enable and alt_irq_disable of alt_legacy_irq.h, called directly *)
(* or, in a critical section already, from alt_iic_isr_register.           *)

Changed(set, op, i) == IF op = "enable" THEN set \cup {i} ELSE set \ {i}

\* Variant: the copy is changed with interrupts enabled.
MaskDisablesNothing ==
    /\ At("mask")
    /\ contexts' = <<PIE>> \o contexts
    /\ irqpc' = "load"
    /\ UNCHANGED <<lines, PIE, irqTables, request, loadedActive, irqDispatch, enabled>>

MaskDisables ==
    /\ At("mask")
    /\ DisableAll
    /\ irqpc' = "load"
    /\ UNCHANGED <<lines, irqTables, request, loadedActive, irqDispatch, enabled>>

MaskLoads ==
    /\ At("load")
    /\ loadedActive' = alt_irq_active
    /\ irqpc' = "store"
    /\ UNCHANGED <<lines, PIE, irqTables, request, contexts, irqDispatch, enabled>>

MaskStores ==
    /\ At("store")
    /\ alt_irq_active' = Changed(loadedActive, request.op, request.irq)
    /\ enabled' = Changed(enabled, request.op, request.irq)
    /\ irqpc' = "write"
    /\ UNCHANGED <<lines, PIE, IENABLE, alt_irq, request, contexts, loadedActive, irqDispatch>>

MaskWrites ==
    /\ At("write")
    /\ IENABLE' = alt_irq_active
    /\ irqpc' = "restore"
    /\ UNCHANGED <<lines, PIE, alt_irq_active, alt_irq, request, contexts,
                   loadedActive, irqDispatch, enabled>>

Finished == irqpc' = "idle" /\ request' = NoRequest /\ loadedActive' = {}

MaskRestores ==
    /\ At("restore")
    /\ EnableAll
    /\ IF request.registers THEN irqpc' = "registered" /\ UNCHANGED <<request, loadedActive>> ELSE Finished
    /\ UNCHANGED <<lines, irqTables, irqDispatch, enabled>>

RegisterRestores ==
    /\ At("registered")
    /\ EnableAll
    /\ Finished
    /\ UNCHANGED <<lines, irqTables, irqDispatch, enabled>>

-----------------------------------------------------------------------------
(* The dispatcher. *)

ipending == lines \cap IENABLE

\* A device asks for service.
DeviceAsks ==
    /\ \E i \in Irq \ lines : lines' = lines \cup {i}
    /\ UNCHANGED <<PIE, irqTables, irqThread, irqDispatch, enabled>>

\* The processor takes the interrupt: ESTATUS keeps PIE, which was set.
TakesInterrupt ==
    /\ PIE /\ dispatch = "off" /\ ipending # {}
    /\ PIE' = FALSE
    /\ dispatch' = "test"
    /\ UNCHANGED <<lines, irqTables, irqThread, active, enabled>>

\* alt_irq_entry.S: without a pending interrupt it was another exception.
TestsPending ==
    /\ dispatch = "test"
    /\ dispatch' = IF ipending = {} THEN "unknown" ELSE "read"
    /\ UNCHANGED <<lines, PIE, irqTables, irqThread, active, enabled>>

\* alt_irq_handler reads what is pending, and returns when nothing is: the
\* way out restores STATUS.
ReadsPending ==
    /\ dispatch \in {"read", "again"}
    /\ IF dispatch = "again" /\ ipending = {}
         THEN dispatch' = "off" /\ active' = {} /\ PIE' = TRUE
         ELSE dispatch' = "call" /\ active' = ipending /\ UNCHANGED PIE
    /\ UNCHANGED <<lines, irqTables, irqThread, enabled>>

\* The loop over the bits stops at the first one set.
First(set) == CHOOSE i \in set : \A j \in set : i <= j

\* What a handler may do with the interrupts: nothing, or enable or disable one
\* that has a handler; its critical section leaves PIE as it is, clear.
HandlerMasks ==
    \/ UNCHANGED <<irqTables, enabled>>
    \/ \E op \in {"enable", "disable"}, i \in Irq :
          /\ op = "enable" => alt_irq[i].handler # NoDriver
          /\ alt_irq_active' = Changed(alt_irq_active, op, i)
          /\ IENABLE' = alt_irq_active'
          /\ enabled' = Changed(enabled, op, i)
          /\ UNCHANGED alt_irq

\* The device lets its line go, or has more to be served at once.
CallsHandler ==
    /\ dispatch = "call"
    /\ active # {} /\ alt_irq[First(active)].handler # NoDriver
    /\ lines' \in {lines, lines \ {First(active)}}
    /\ HandlerMasks
    /\ dispatch' = "again"
    /\ active' = {}
    /\ UNCHANGED <<PIE, irqThread>>

InterruptNext ==
    \/ Restarts \/ IrqInit
    \/ EntersSection \/ LeavesSection
    \/ CallsRegister \/ RegisterDisables \/ StoresHandler \/ StoresContext
    \/ CallsMask \/ MaskDisables \/ MaskLoads \/ MaskStores \/ MaskWrites
    \/ MaskRestores \/ RegisterRestores
    \/ DeviceAsks \/ TakesInterrupt \/ TestsPending \/ ReadsPending \/ CallsHandler

InterruptSpec == InterruptInit /\ [][InterruptNext]_irqVars

-----------------------------------------------------------------------------
(* Properties. *)

IrqSteps == {"reset", "idle", "register", "handler", "context", "mask", "load", "store",
             "write", "restore", "registered"}

TableEntry == [handler : Driver \cup {NoDriver}, context : Driver \cup {NoDriver}]

InterruptTypeOK ==
    /\ lines \subseteq Irq /\ PIE \in BOOLEAN
    /\ IENABLE \subseteq Irq /\ alt_irq_active \subseteq Irq
    /\ alt_irq \in [Irq -> TableEntry]
    /\ irqpc \in IrqSteps /\ contexts \in Seq(BOOLEAN) /\ loadedActive \subseteq Irq
    /\ dispatch \in {"off", "test", "read", "call", "again", "unknown"}
    /\ active \subseteq Irq /\ enabled \subseteq Irq

\* The dispatcher never calls an empty entry, or a handler with a context not
\* its own, and never runs along the table without a pending interrupt to find
\* in it, at whatever moment between two accesses the interrupt comes.
HandlersAreCalledWhole ==
    /\ dispatch # "unknown"
    /\ dispatch = "call" =>
         /\ active # {}
         /\ alt_irq[First(active)].handler # NoDriver
         /\ alt_irq[First(active)].context = alt_irq[First(active)].handler

\* Outside of critical sections interrupts are on, and exactly those are
\* enabled that were asked for: no change by the thread undoes one that an
\* interrupt routine has made meanwhile, and nested sections restore what
\* they found.
EnablesAreKept ==
    irqpc = "idle" /\ dispatch = "off" =>
        /\ IENABLE = enabled /\ alt_irq_active = enabled
        /\ PIE = (contexts = <<>>)

=============================================================================
