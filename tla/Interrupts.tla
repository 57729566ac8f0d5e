----------------------------- MODULE Interrupts -----------------------------
(* Interrupt delivery: the two 8259 chips as pic_init sets them up (fully      *)
(* nested, slave on line 2 of the master), the processor's acknowledge cycles, *)
(* c_irq_handler of drivers/idt.c, and the order in which the kernel registers *)
(* its handlers and unmasks their lines.  Handlers run with interrupts off.    *)
EXTENDS Integers, Sequences, FiniteSetsExt

CONSTANTS
  Devices,    \* lines that interrupt: the timer 0, the keyboard 1, the mouse 12
  Noisy,      \* lines on which a request may come and go without a device
  MaxRaised,  \* bound on the requests of each device
  MaxNoise    \* bound on the noise

Irqs == 0 .. 15
Cascade == 2

\* The kernel uses three lines.  A request for the slave does not go away again: a spurious
\* interrupt of the slave (15) is one that c_irq_handler leaves line 2 in service for.
ASSUME DevicesAssumption == {0, 1, 12} \subseteq Devices /\ Devices \subseteq Irqs \ {Cascade}
ASSUME NoiseAssumption == Noisy \subseteq (0 .. 7) \ {Cascade}

VARIABLES
  boot,           \* the next boot step
  handlers,       \* irq_handlers: the lines that have one
  imr, irr, isr,  \* both chips: lines masked, requesting, in service
  cpu,            \* what the processor is at, and the vector it took
  waiting,        \* devices that wait to be served: the byte they hold was not read
  raised, noise   \* counters of the environment

pic == <<imr, irr, isr>>
environment == <<waiting, raised, noise>>
picVars == <<boot, handlers, pic, cpu, environment>>

Main == [at |-> "main", irq |-> 0]

\* From k_main after pic_init: pit_init, sti, and the end of ps2_init, where the
\* controller is told to interrupt last.
Boot == << [do |-> "register", irq |-> 0], [do |-> "unmask", irq |-> 0], [do |-> "sti", irq |-> 0],
           [do |-> "register", irq |-> 1], [do |-> "unmask", irq |-> 1],
           [do |-> "register", irq |-> 12], [do |-> "unmask", irq |-> 12],
           [do |-> "config", irq |-> 0] >>
RegistersLast(n) == Boot[<<1, 2, 3, 8, 5, 7, 4, 6>>[n]]              \* mutant
BootStep(n) == Boot[n]
Done(step) == \E n \in 1 .. boot - 1 : BootStep(n).do = step

PicInit ==
  /\ boot = 1 /\ handlers = {}
  /\ imr = Irqs \ {Cascade} /\ irr = {} /\ isr = {}
  /\ cpu = Main
  /\ waiting = {} /\ raised = [l \in Devices |-> 0] /\ noise = 0

-----------------------------------------------------------------------------
(* The kernel's start, in the main thread *)

\* pic_unmask: read the mask of the line's chip, write it back without the line.
Kernel ==
  /\ cpu = Main /\ boot <= Len(Boot)
  /\ boot' = boot + 1
  /\ LET s == BootStep(boot) IN
     /\ handlers' = IF s.do = "register" THEN handlers \cup {s.irq} ELSE handlers
     /\ imr' = IF s.do = "unmask" THEN imr \ {s.irq} ELSE imr
  /\ UNCHANGED <<irr, isr, cpu, environment>>

-----------------------------------------------------------------------------
(* The devices.  A line is latched by its edge; a PS/2 device raises it again  *)
(* only after its byte was read, and not before the controller lets it.        *)

Raise(l) ==
  /\ raised[l] < MaxRaised /\ l \notin waiting
  /\ l # 0 => Done("config")
  /\ raised' = [raised EXCEPT ![l] = @ + 1]
  /\ waiting' = waiting \cup {l} /\ irr' = irr \cup {l}
  /\ UNCHANGED <<boot, handlers, imr, isr, cpu, noise>>

NoiseOn(l) ==
  /\ noise < MaxNoise /\ l \notin irr
  /\ noise' = noise + 1
  /\ irr' = irr \cup {l}
  /\ UNCHANGED <<boot, handlers, imr, isr, cpu, waiting, raised>>

NoiseOff(l) ==
  /\ l \in irr /\ l \notin waiting
  /\ irr' = irr \ {l}
  /\ UNCHANGED <<boot, handlers, imr, isr, cpu, environment>>

-----------------------------------------------------------------------------
(* The chips and the acknowledge cycles *)

OnMaster == 0 .. 7
OnSlave == 8 .. 15
\* Requests of a chip that come before everything it has in service.
Passing(requests, chip) ==
  {l \in (requests \cap chip) \ imr : \A s \in isr \cap chip : l < s}
SlaveInt == Passing(irr, OnSlave)
MasterInt == Passing((irr \ {Cascade}) \cup (IF SlaveInt # {} THEN {Cascade} ELSE {}), OnMaster)

Accept ==
  /\ cpu = Main /\ Done("sti") /\ MasterInt # {}
  /\ cpu' = [Main EXCEPT !.at = "acknowledge"]
  /\ UNCHANGED <<boot, handlers, pic, environment>>

\* A request that is gone by now leaves the chip its lowest line to name: a spurious
\* interrupt, which it does not put in service.
Acknowledge ==
  /\ cpu.at = "acknowledge"
  /\ IF MasterInt = {}
       THEN cpu' = [at |-> "handler", irq |-> 7] /\ UNCHANGED <<irr, isr>>
       ELSE LET l == Min(MasterInt) IN
            /\ isr' = isr \cup {l} /\ irr' = irr \ {l}
            /\ cpu' = [at |-> IF l = Cascade THEN "cascade" ELSE "handler", irq |-> l]
  /\ UNCHANGED <<boot, handlers, imr, environment>>

AcknowledgeSlave ==
  /\ cpu.at = "cascade"
  /\ IF SlaveInt = {}
       THEN cpu' = [at |-> "handler", irq |-> 15] /\ UNCHANGED <<irr, isr>>
       ELSE LET l == Min(SlaveInt) IN
            /\ isr' = isr \cup {l} /\ irr' = irr \ {l}
            /\ cpu' = [at |-> "handler", irq |-> l]
  /\ UNCHANGED <<boot, handlers, imr, environment>>

-----------------------------------------------------------------------------
(* c_irq_handler *)

\* The chip ends the service it gives most priority.
EndOne(chip) == IF isr \cap chip = {} THEN {} ELSE {Min(isr \cap chip)}
MasterOnly(irq) == EndOne(OnMaster)                                  \* mutant
pic_send_eoi(irq) == EndOne(OnMaster) \cup (IF irq >= 8 THEN EndOne(OnSlave) ELSE {})

pic_is_in_service(irq) == irq \in isr

\* A handler reads its device; with none the byte stays where it is.
IrqHandler ==
  /\ cpu.at = "handler"
  /\ IF pic_is_in_service(cpu.irq)
       THEN /\ waiting' = IF cpu.irq \in handlers THEN waiting \ {cpu.irq} ELSE waiting
            /\ isr' = isr \ pic_send_eoi(cpu.irq)
       ELSE UNCHANGED <<waiting, isr>>
  /\ cpu' = Main
  /\ UNCHANGED <<boot, handlers, imr, irr, raised, noise>>

Processor == Accept \/ Acknowledge \/ AcknowledgeSlave \/ IrqHandler
PicNext ==
  \/ Kernel \/ Processor
  \/ \E l \in Devices : Raise(l)
  \/ \E l \in Noisy : NoiseOn(l) \/ NoiseOff(l)
PicSpec == PicInit /\ [][PicNext]_picVars
\* The processor runs: it takes interrupts when it may, and goes on with the boot.
PicFairSpec == PicSpec /\ WF_picVars(Processor) /\ WF_picVars(Kernel)
-----------------------------------------------------------------------------
(* Properties *)

PicTypeOK ==
  /\ boot \in 1 .. Len(Boot) + 1 /\ handlers \subseteq Devices
  /\ imr \subseteq Irqs /\ irr \subseteq Irqs \ {Cascade} /\ isr \subseteq Irqs
  /\ cpu \in [at : {"main", "acknowledge", "cascade", "handler"}, irq : Irqs]
  /\ waiting \subseteq Devices

\* Handlers do not nest, and when one returns nothing stays in service: the interrupted
\* code always finds the chips open, also after a spurious interrupt of the master.  The
\* variables keep their types.
NothingStaysInService ==
  /\ PicTypeOK
  /\ cpu.at \in {"main", "acknowledge"} => isr = {}
  /\ cpu.at = "handler" => isr \subseteq {cpu.irq, Cascade} /\ (Cascade \in isr <=> cpu.irq >= 8)

\* A device on an unmasked line is served: pic_unmask "allows hardware to trigger irq".
UnmaskedIsServed == \A l \in Devices : (l \in waiting /\ l \notin imr) ~> l \notin waiting
=============================================================================
