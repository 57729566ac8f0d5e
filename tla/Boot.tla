-------------------------------- MODULE Boot --------------------------------
(* k_main of kernel/kernel.c: text mode, the check of the boot loader, the     *)
(* timer, then the PS/2 controller and the disks, both polled with interrupts  *)
(* on; and reading from the disks once the shell runs.  Descriptor tables and  *)
(* heap come first and have nothing to wait for.                               *)
EXTENDS Storage

CONSTANTS Left, Glyphs, Answers

\* What is in a register of the adapter is a byte.
ASSUME AdapterAssumption == Left \subseteq 0 .. 255 /\ Glyphs \in Nat

VARIABLES
  stage,                                                       \* where k_main is
  interrupts,                                                  \* sti, and the timer running
  regs, port, glyphs, vga_pc, vga_i, saved, segment,           \* Vga
  controller, second, pc, i, config, valid_ports, type, handlers, unmasked   \* Ps2Init

V == INSTANCE Vga
K == INSTANCE Ps2Init

vgaVars == <<regs, port, glyphs, vga_pc, vga_i, saved, segment>>
ps2Vars == <<controller, second, pc, i, config, valid_ports, type, handlers, unmasked>>
bootVars == <<stage, interrupts, vgaVars, ps2Vars, vars>>

\* What is connected matters from the time it is looked at.
Unknown == [kind |-> "none", sectors |-> 0, gpt |-> FALSE, entry_lba |-> 1, entries |-> <<>>]
BootInit ==
  /\ stage = "vga" /\ interrupts = FALSE
  /\ V!VgaInit
  /\ controller = {} /\ second = "port" /\ pc = "off" /\ i = 1
  /\ config = {} /\ valid_ports = {} /\ type = [p \in K!Ports |-> "none"]
  /\ handlers = {} /\ unmasked = {}
  /\ drive = [slot \in Slots |-> Unknown] /\ Unprobed

\* Nothing looks at the registers again, nor at what ps2_init had: it is forgotten here.
ForgetVga ==
  /\ regs' = [k \in {"none"} |-> 0] /\ port' = [takes |-> "value", index |-> 32] /\ glyphs' = {}
  /\ vga_pc' = "gone" /\ vga_i' = 0 /\ saved' = <<>> /\ segment' = 0
ForgetPs2 ==
  /\ controller' = {} /\ second' = "port" /\ pc' = "gone" /\ i' = 1
  /\ config' = {} /\ valid_ports' = {} /\ type' = [p \in K!Ports |-> "none"]
  /\ handlers' = {} /\ unmasked' = {}

VgaStep ==
  /\ stage = "vga" /\ V!VgaNext
  /\ UNCHANGED <<stage, interrupts, ps2Vars, vars>>

\* The magic number is not that of a multiboot loader: panic.
WrongMagic ==
  /\ stage = "vga" /\ vga_pc = "done"
  /\ stage' = "panic" /\ ForgetVga
  /\ UNCHANGED <<interrupts, ps2Vars, vars>>

\* pmm_init, pic_init, pit_init and sti; the firmware may have left the controller, whose
\* lines are masked, in any state.
StaysOff == interrupts' = FALSE                                      \* mutant
Sti == interrupts' = TRUE
StartTimer ==
  /\ stage = "vga" /\ vga_pc = "done"
  /\ stage' = "ps2" /\ Sti /\ ForgetVga
  /\ controller' \in SUBSET K!Bits /\ second' \in {"port", "stopped", "running"}
  /\ pc' = "disable" /\ i' = 1 /\ config' = {} /\ valid_ports' = {1}
  /\ UNCHANGED <<type, handlers, unmasked, vars>>

Ps2Step ==
  /\ stage = "ps2" /\ K!Next
  /\ UNCHANGED <<stage, interrupts, vgaVars, vars>>

StartStorage ==
  /\ stage = "ps2" /\ pc = "done"
  /\ stage' = "storage" /\ ForgetPs2
  /\ drive' \in [Slots -> Drives]
  /\ UNCHANGED <<interrupts, vgaVars, probing, command>>

StorageStep ==
  /\ stage = "storage" /\ Next
  /\ UNCHANGED <<stage, interrupts, vgaVars, ps2Vars>>

BootNext == VgaStep \/ WrongMagic \/ StartTimer \/ Ps2Step \/ StartStorage \/ StorageStep

\* No step waits for another program: the processor goes on.
BootSpec == BootInit /\ [][BootNext]_bootVars /\ WF_bootVars(BootNext)
-----------------------------------------------------------------------------
(* Properties, of the modules and of all of them together *)
TextModeReady == V!TextModeReady
PortsReady == stage = "ps2" => K!PortsReady

\* k_main gets to the shell, or to a panic: whatever waits for a timeout comes after the
\* interrupts without which time stands still.
BootEnds == <>(stage = "panic" \/ at.in \in {"panic", "done"})
=============================================================================
