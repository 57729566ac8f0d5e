---------------------------- MODULE KernelProofs ----------------------------
(* What the rest of the kernel stands on.  Interrupts: nothing stays in        *)
(* service of the 8259 pair once the handlers have returned, whichever devices *)
(* interrupt, and whatever noise there is on the master.  The heap: its        *)
(* invariants for an arena of any size, any sizes asked for and any data       *)
(* written by clients.                                                         *)
EXTENDS Kmalloc, Interrupts, WellFoundedInduction, TLAPS

-----------------------------------------------------------------------------
(* Interrupts *)

\* In the acknowledge cycles: the slave still has the request for which the master named
\* line 2, since a request for the slave does not go away.
Cascaded == cpu.at = "cascade" => isr = {Cascade} /\ SlaveInt # {}

\* What a handler finds in service: a line of the slave together with line 2, a line of the
\* master, or after a spurious interrupt nothing.
Serving ==
  cpu.at = "handler" =>
    /\ cpu.irq # Cascade
    /\ cpu.irq < 8 => isr \subseteq {cpu.irq}
    /\ cpu.irq >= 8 => isr = {Cascade, cpu.irq}

PicInv == NothingStaysInService /\ Cascaded /\ Serving

-----------------------------------------------------------------------------
\* The lines of a chip have a least one, which is the one Min chooses.
LEMMA MinOfLines ==
  ASSUME NEW S, S \subseteq Irqs, S # {}
  PROVE  Min(S) \in S
<1>1. PICK x \in S : TRUE
  OBVIOUS
<1>2. \E m \in S : \A y \in S : m <= y
  BY <1>1 DEF Irqs
<1> QED
  BY <1>2 DEF Min

\* What a chip asks for is one of its lines, with nothing of its own in service before it.
LEMMA PassingLines ==
  ASSUME NEW requests, NEW chip
  PROVE  Passing(requests, chip) \subseteq chip
BY DEF Passing

\* The end of interrupt ends exactly what a handler has in service.
LEMMA EndsService ==
  ASSUME PicInv, cpu.at = "handler", pic_is_in_service(cpu.irq)
  PROVE  isr \ pic_send_eoi(cpu.irq) = {}
<1> USE DEF OnMaster, OnSlave, Cascade, Irqs
<1>1. cpu.irq \in Irqs /\ isr \subseteq Irqs /\ cpu.irq \in isr
  BY DEF PicInv, NothingStaysInService, PicTypeOK, pic_is_in_service
<1>2. CASE cpu.irq < 8
  <2>0. isr \subseteq {cpu.irq} /\ cpu.irq \in OnMaster
    BY <1>1, <1>2 DEF PicInv, Serving
  <2>1. isr = {cpu.irq} /\ isr \cap OnMaster = {cpu.irq}
    BY <1>1, <2>0
  <2>2. Min({cpu.irq}) = cpu.irq
    BY <1>1, MinOfLines
  <2> QED
    BY <1>2, <2>1, <2>2 DEF pic_send_eoi, EndOne
<1>3. CASE cpu.irq >= 8
  <2>1. isr = {2, cpu.irq} /\ isr \cap OnMaster = {2} /\ isr \cap OnSlave = {cpu.irq}
    BY <1>1, <1>3 DEF PicInv, Serving
  <2>2. Min({2}) = 2 /\ Min({cpu.irq}) = cpu.irq
    BY <1>1, MinOfLines
  <2>3. EndOne(OnMaster) = {2} /\ EndOne(OnSlave) = {cpu.irq}
    BY <2>1, <2>2 DEF EndOne
  <2> QED
    BY <1>3, <2>1, <2>3 DEF pic_send_eoi
<1> QED
  BY <1>1, <1>2, <1>3

-----------------------------------------------------------------------------
\* Before the kernel lets anything in, nothing is in service.
LEMMA PicInitInv == PicInit => PicInv
BY DEF PicInit, PicInv, NothingStaysInService, Cascaded, Serving, PicTypeOK, Main, Boot, Irqs

\* The steps of the kernel and of the environment leave the service bits and the processor
\* alone, and take no request of the slave away.
LEMMA PicQuietStep ==
  ASSUME PicInv, PicTypeOK', UNCHANGED <<isr, cpu>>,
         cpu.at = "cascade" => imr' = imr /\ irr \cap OnSlave \subseteq irr'
  PROVE  PicInv'
<1>1. Cascaded'
  BY DEF PicInv, Cascaded, SlaveInt, Passing
<1>2. (cpu.at \in {"main", "acknowledge"} => isr = {})'
  BY DEF PicInv, NothingStaysInService
<1>3. Serving' /\ (cpu.at = "handler" => isr \subseteq {cpu.irq, Cascade} /\ (Cascade \in isr <=> cpu.irq >= 8))'
  BY DEF PicInv, NothingStaysInService, Serving
<1> QED
  BY <1>1, <1>2, <1>3 DEF PicInv, NothingStaysInService

\* One step of the boot: the lines that are registered and unmasked are the kernel's three.
LEMMA KernelStep == ASSUME PicInv, Kernel PROVE PicInv'
<1>1. boot \in 1 .. 8 /\ boot' = boot + 1 /\ BootStep(boot).irq \in {0, 1, 12}
  BY DEF Kernel, PicInv, NothingStaysInService, PicTypeOK, BootStep, Boot
<1>2. PicTypeOK'
  <2>1. handlers' \subseteq Devices
    BY <1>1, DevicesAssumption DEF Kernel, PicInv, NothingStaysInService, PicTypeOK
  <2>2. boot' \in 1 .. Len(Boot) + 1
    BY <1>1 DEF Boot
  <2>3. imr' \subseteq Irqs
    BY DEF Kernel, PicInv, NothingStaysInService, PicTypeOK
  <2> QED
    BY <2>1, <2>2, <2>3 DEF Kernel, PicInv, NothingStaysInService, PicTypeOK, environment
<1>3. cpu.at # "cascade"
  BY DEF Kernel, Main
<1> QED
  BY <1>2, <1>3, PicQuietStep DEF Kernel

\* Requests come from the devices, and as noise on the master, where they may go away.
LEMMA EnvironmentStep ==
  ASSUME PicInv, (\E l \in Devices : Raise(l)) \/ (\E l \in Noisy : NoiseOn(l) \/ NoiseOff(l))
  PROVE  PicInv'
<1>1. ASSUME NEW l \in Devices, Raise(l) PROVE PicInv'
  <2>1. PicTypeOK'
    BY <1>1, DevicesAssumption DEF Raise, PicInv, NothingStaysInService, PicTypeOK
  <2> QED
    BY <1>1, <2>1, PicQuietStep DEF Raise
<1>2. ASSUME NEW l \in Noisy, NoiseOn(l) PROVE PicInv'
  <2>1. PicTypeOK'
    BY <1>2, NoiseAssumption DEF NoiseOn, PicInv, NothingStaysInService, PicTypeOK, Irqs
  <2> QED
    BY <1>2, <2>1, PicQuietStep DEF NoiseOn
<1>3. ASSUME NEW l \in Noisy, NoiseOff(l) PROVE PicInv'
  <2>1. PicTypeOK'
    BY <1>3 DEF NoiseOff, environment, PicInv, NothingStaysInService, PicTypeOK
  <2>2. irr \cap OnSlave \subseteq irr'
    BY <1>3, NoiseAssumption DEF NoiseOff, OnSlave
  <2> QED
    BY <1>3, <2>1, <2>2, PicQuietStep DEF NoiseOff
<1> QED
  BY <1>1, <1>2, <1>3

LEMMA AcceptStep == ASSUME PicInv, Accept PROVE PicInv'
BY DEF Accept, Main, environment, pic, PicInv, NothingStaysInService, PicTypeOK, Cascaded, Serving, Irqs

\* The master names line 2 only while the slave has a request; and nothing else may be in
\* service then.
LEMMA AcknowledgeStep == ASSUME PicInv, Acknowledge PROVE PicInv'
<1> USE DEF OnMaster, OnSlave, Cascade, Irqs
<1>0. PicTypeOK /\ isr = {}
  BY DEF PicInv, NothingStaysInService, Acknowledge
<1>1. CASE MasterInt = {}
  <2>1. cpu' = [at |-> "handler", irq |-> 7] /\ isr' = {} /\ irr' = irr
    BY <1>0, <1>1 DEF Acknowledge
  <2> QED
    BY <1>0, <2>1 DEF Acknowledge, environment, PicInv, NothingStaysInService, PicTypeOK, Cascaded, Serving
<1>2. CASE MasterInt # {}
  <2> DEFINE l == Min(MasterInt)
  <2>1. l \in MasterInt /\ l \in 0 .. 7
    BY <1>2, PassingLines, MinOfLines DEF MasterInt
  <2>2. l = 2 => SlaveInt # {}
    BY <2>1 DEF MasterInt, Passing
  <2>3. isr' = {l} /\ irr' = irr \ {l} /\ cpu' = [at |-> IF l = 2 THEN "cascade" ELSE "handler", irq |-> l]
        /\ UNCHANGED <<boot, handlers, imr, waiting>>
    BY <1>0, <1>2 DEF Acknowledge, environment
  <2> HIDE DEF l
  <2>4. PicTypeOK'
    BY <1>0, <2>1, <2>3 DEF PicTypeOK
  <2>5. CASE l = 2
    <3>1. SlaveInt'  # {}
      BY <1>0, <2>2, <2>3, <2>5 DEF SlaveInt, Passing
    <3> QED
      BY <2>3, <2>4, <2>5, <3>1 DEF PicInv, NothingStaysInService, Cascaded, Serving
  <2>6. CASE l # 2
    BY <2>1, <2>3, <2>4, <2>6 DEF PicInv, NothingStaysInService, Cascaded, Serving
  <2> QED
    BY <2>5, <2>6
<1> QED
  BY <1>1, <1>2

\* The slave still has its request, and names it: no spurious interrupt 15.
LEMMA AcknowledgeSlaveStep == ASSUME PicInv, AcknowledgeSlave PROVE PicInv'
<1> USE DEF OnSlave, Cascade, Irqs
<1>0. PicTypeOK /\ isr = {2} /\ SlaveInt # {}
  BY DEF PicInv, NothingStaysInService, Cascaded, AcknowledgeSlave
<1> DEFINE l == Min(SlaveInt)
<1>1. l \in 8 .. 15
  BY <1>0, PassingLines, MinOfLines DEF SlaveInt
<1>2. isr' = {2, l} /\ irr' = irr \ {l} /\ cpu' = [at |-> "handler", irq |-> l]
      /\ UNCHANGED <<boot, handlers, imr, waiting>>
  BY <1>0 DEF AcknowledgeSlave, environment
<1> HIDE DEF l
<1>3. PicTypeOK'
  BY <1>0, <1>1, <1>2 DEF PicTypeOK
<1> QED
  BY <1>1, <1>2, <1>3 DEF PicInv, NothingStaysInService, Cascaded, Serving

\* c_irq_handler: with its line in service it ends it; without, nothing was.
LEMMA IrqHandlerStep == ASSUME PicInv, IrqHandler PROVE PicInv'
<1> USE DEF Irqs, Cascade
<1>1. isr' = {}
  <2>1. CASE pic_is_in_service(cpu.irq)
    BY <2>1, EndsService DEF IrqHandler
  <2>2. CASE ~pic_is_in_service(cpu.irq)
    BY <2>2 DEF IrqHandler, PicInv, NothingStaysInService, PicTypeOK, Serving, pic_is_in_service
  <2> QED
    BY <2>1, <2>2
<1>2. waiting' \subseteq waiting /\ cpu' = Main /\ UNCHANGED <<boot, handlers, imr, irr>>
  BY DEF IrqHandler
<1> QED
  BY <1>1, <1>2 DEF PicInv, NothingStaysInService, PicTypeOK, Cascaded, Serving, Main

-----------------------------------------------------------------------------
\* The interrupted code always finds the chips open: c_irq_handler ends the service of what
\* it was called for and of nothing else, and a spurious interrupt of the master needs none.
THEOREM ChipsStayOpen == PicSpec => []NothingStaysInService
<1>1. PicInv /\ [PicNext]_picVars => PicInv'
  <2> SUFFICES ASSUME PicInv, [PicNext]_picVars PROVE PicInv'
    OBVIOUS
  <2>1. CASE Kernel
    BY <2>1, KernelStep
  <2>2. CASE Processor
    BY <2>2, AcceptStep, AcknowledgeStep, AcknowledgeSlaveStep, IrqHandlerStep DEF Processor
  <2>3. CASE (\E l \in Devices : Raise(l)) \/ (\E l \in Noisy : NoiseOn(l) \/ NoiseOff(l))
    BY <2>3, EnvironmentStep
  <2>4. CASE UNCHANGED picVars
    <3>1. PicTypeOK'
      BY <2>4 DEF picVars, pic, environment, PicInv, NothingStaysInService, PicTypeOK
    <3> QED
      BY <2>4, <3>1, PicQuietStep DEF picVars, pic
  <2> QED
    BY <2>1, <2>2, <2>3, <2>4 DEF PicNext
<1>2. PicInv => NothingStaysInService
  BY DEF PicInv
<1> QED
  BY <1>1, <1>2, PicInitInv, PTL DEF PicSpec

-----------------------------------------------------------------------------
(* The heap *)

\* The inductive invariant.  Tiled says where headers can be, so that a client's
\* writes miss them; BlocksMarked and BlocksFit bound those writes; Scanned says
\* what kmalloc's loop has established of the nodes behind it.
IInv == TypeOK /\ Tiled /\ BlocksMarked /\ BlocksFit /\ NeverPanics /\ Scanned

USE UnitsAssumption, RequestsAssumption, ScribbleAssumption
    DEF NULL, Following

\* Addr as arithmetic; elsewhere it stays the opaque domain of the arena's functions.
LEMMA AddrRange == \A a : a \in Addr <=> a \in Nat /\ a < Units
BY DEF Addr

\* Rounding up to 16 bytes: enough for the request, and no more than a unit over.
LEMMA UnitsForBounds ==
  ASSUME NEW bytes \in Nat
  PROVE  /\ UnitsFor(bytes) \in Nat
         /\ bytes <= 16 * UnitsFor(bytes)
         /\ 16 * UnitsFor(bytes) <= bytes + 15
         /\ bytes # 0 => UnitsFor(bytes) >= 1
BY DEF UnitsFor

\* A data area that holds a request holds its rounded size.
LEMMA UnitsForFits ==
  ASSUME NEW bytes \in Nat, NEW size \in Nat, bytes <= 16 * size
  PROVE  UnitsFor(bytes) <= size
BY UnitsForBounds

LEMMA InitIInv == Init => IInv
<1> SUFFICES ASSUME Init PROVE IInv OBVIOUS
<1>1. 0 \in Addr /\ Units - 1 \in Nat BY AddrRange
<1>2. TypeOK BY <1>1 DEF Init, TypeOK
<1>3. Tiled
  <2>1. nodes = {0} /\ data_size[0] = Units - 1 BY <1>1 DEF Init
  <2> QED BY <1>1, <2>1, AddrRange DEF Tiled
<1>4. BlocksMarked BY DEF Init, BlocksMarked
<1>5. BlocksFit BY DEF Init, BlocksFit
<1>6. NeverPanics /\ Scanned BY DEF Init, NeverPanics, Scanned
<1> QED BY <1>2, <1>3, <1>4, <1>5, <1>6 DEF IInv

\* What a node's header says of where it ends and what follows.
LEMMA NodeFacts ==
  ASSUME TypeOK, Tiled, NEW n \in nodes
  PROVE  /\ n \in Addr /\ n \in Nat /\ data_size[n] \in Nat /\ data_size[n] >= 1
         /\ Following(n) = n + 1 + data_size[n] /\ Following(n) <= Units
         /\ ~IsLast(n) => Following(n) \in nodes
         /\ IsLast(n) => Following(n) = Units
         /\ \A m \in nodes : m > n => m >= Following(n)
<1>1. n \in Addr /\ n \in Nat /\ data_size[n] \in Nat BY AddrRange DEF TypeOK
<1>2. /\ data_size[n] >= 1
      /\ Following(n) = Units \/ Following(n) \in nodes
      /\ \A m \in nodes : m > n => m >= Following(n)
  BY DEF Tiled
<1>3. Following(n) = n + 1 + data_size[n] BY DEF Following
<1>4. nodes \subseteq 0 .. Units - 1 BY DEF TypeOK, Addr
<1>5. Following(n) \in nodes => Following(n) < Units BY <1>1, <1>4
<1>6. Following(n) <= Units BY <1>1, <1>2, <1>4
<1>7. IsLast(n) <=> Following(n) >= Units BY DEF IsLast
<1> QED BY <1>1, <1>2, <1>3, <1>5, <1>6, <1>7

LEMMA MergeStep ==
  ASSUME IInv, Merge
  PROVE  IInv'
<1> DEFINE next == Following(node)
<1> USE DEF IInv
<1>1. /\ node \in nodes /\ next \in nodes /\ node < next /\ free[node] /\ free[next]
      /\ Valid(asked)
  BY NodeFacts DEF Merge, Mergeable, Scanned
<1>2. /\ data_size' = [data_size EXCEPT ![node] = data_size[node] + data_size[next] + 1]
      /\ nodes' = nodes \ {next}
      /\ free' = free /\ pc' = pc /\ node' = node /\ asked' = asked
      /\ ret' = ret /\ owned' = owned /\ pc = "search"
  BY <1>1 DEF Merge, MergedSize
<1>3. /\ node \in Addr /\ data_size[node] \in Nat /\ next \in Addr /\ data_size[next] \in Nat
      /\ node \in Nat /\ next \in Nat /\ next = node + 1 + data_size[node] /\ Following(next) = next + 1 + data_size[next]
  BY <1>1, NodeFacts, AddrRange
<1> HIDE DEF next
<1>4. TypeOK'
  <2>1. data_size[node] + data_size[next] + 1 \in Nat BY <1>3
  <2> QED BY <1>2, <2>1 DEF TypeOK
<1>5. Following(node)' = Following(next)
  BY <1>2, <1>3 DEF Following, TypeOK
<1>6. ASSUME NEW m \in nodes, m # node
      PROVE  data_size'[m] = data_size[m] /\ Following(m)' = Following(m)
  <2>1. data_size'[m] = data_size[m] BY <1>2, <1>6 DEF TypeOK
  <2> QED BY <2>1
<1>7. Tiled'
  <2>1. 0 \in nodes' BY <1>1, <1>2, <1>3 DEF Tiled
  <2>2. ASSUME NEW a \in Addr PROVE \E n \in nodes' : n <= a /\ a < Following(n)'
    <3>1. PICK n \in nodes : n <= a /\ a < Following(n) BY DEF Tiled
    <3>2. CASE n = node \/ n = next
      BY <1>1, <1>2, <1>3, <1>5, <3>1, <3>2 DEF TypeOK
    <3>3. CASE n # node /\ n # next
      BY <1>2, <1>6, <3>1, <3>3
    <3> QED BY <3>2, <3>3
  <2>3. ASSUME NEW n \in nodes'
        PROVE  /\ data_size'[n] >= 1
               /\ Following(n)' = Units \/ Following(n)' \in nodes'
               /\ \A m \in nodes' : m > n => m >= Following(n)'
    <3>1. CASE n = node
      <4>1. Following(next) = Units \/ Following(next) \in nodes BY <1>1 DEF Tiled
      <4>2. Following(next) # next BY <1>3
      <4>3. ASSUME NEW m \in nodes', m > node PROVE m >= Following(next)
        <5>1. m \in nodes /\ m # next BY <1>2
        <5>2. m \in Nat /\ m > node BY <4>3, <5>1, NodeFacts
        <5>3. m >= next BY <1>1, <1>3, <5>1, <5>2, NodeFacts
        <5> QED BY <1>1, <1>3, <5>1, <5>2, <5>3, NodeFacts
      <4>4. data_size'[node] >= 1 BY <1>2, <1>3 DEF TypeOK
      <4> QED BY <1>2, <1>5, <3>1, <4>1, <4>2, <4>3, <4>4
    <3>2. CASE n # node
      <4>1. n \in nodes /\ n # next BY <1>2
      <4>2. Following(n) # next
        <5>1. CASE n < node BY <1>1, <1>3, <4>1, <5>1, NodeFacts
        <5>2. CASE n > node BY <1>1, <1>3, <4>1, <5>2, NodeFacts
        <5> QED BY <1>3, <3>2, <4>1, <5>1, <5>2, NodeFacts
      <4> QED BY <1>2, <1>6, <3>2, <4>1, <4>2, NodeFacts DEF Tiled
    <3> QED BY <3>1, <3>2
  <2> QED BY <2>1, <2>2, <2>3 DEF Tiled
<1>8. BlocksMarked'
  BY <1>1, <1>2 DEF BlocksMarked, TypeOK
<1>9. BlocksFit'
  BY <1>1, <1>2, <1>3 DEF BlocksFit, BlocksMarked, TypeOK
<1>10. NeverPanics' BY <1>2 DEF NeverPanics
<1>11. Scanned'
  <2>1. ASSUME NEW n \in nodes', n < node, free[n]
        PROVE  data_size'[n] < Want /\ ~free[Following(n)']
    BY <1>1, <1>2, <1>3, <1>6, <2>1 DEF Scanned
  <2> QED BY <1>1, <1>2, <1>3, <2>1 DEF Scanned, Valid, Want
<1> QED BY <1>4, <1>7, <1>8, <1>9, <1>10, <1>11

\* What the size wanted is, while kmalloc searches.
LEMMA WantFacts ==
  ASSUME TypeOK, Scanned, pc = "search"
  PROVE  Want \in Nat /\ Want >= 1 /\ asked <= 16 * Want /\ asked \in Nat /\ asked # 0
<1>1. asked \in Nat /\ asked # 0 BY DEF TypeOK, Scanned, Valid
<1> QED BY <1>1, UnitsForBounds DEF Want

LEMMA TakeStep ==
  ASSUME IInv, Take
  PROVE  IInv'
<1> USE DEF IInv
<1>1. PICK k \in nodes : k = node /\ pc = "search" /\ free[k] BY DEF Take, Fits, Scanned
<1>2. PICK w \in Nat : w = Want /\ w >= 1 /\ asked <= 16 * w /\ data_size[k] >= w
  BY <1>1, WantFacts DEF Take, Fits
<1>3. /\ k \in Addr /\ k \in Nat /\ k < Units
      /\ data_size[k] \in Nat /\ data_size[k] >= 1
      /\ Following(k) <= Units
  BY <1>1, NodeFacts, AddrRange
<1>4. /\ owned' = [owned EXCEPT ![k] = asked]
      /\ pc' = "idle" /\ node' = 0 /\ asked' = 0 /\ ret' = k + 1
  BY <1>1 DEF Take, Return
<1>5. asked \in 1 .. 16 * Units - 1 BY <1>1, WantFacts DEF TypeOK
<1>6. k + 1 \in Addr /\ 0 \in Addr BY <1>3, AddrRange
<1>7. /\ owned' \in [Addr -> 0 .. 16 * Units - 1] /\ pc' \in {"idle", "search", "panic"}
      /\ node' \in Addr /\ asked' \in 0 .. 16 * Units - 1 /\ ret' \in Addr
  BY <1>3, <1>4, <1>5, <1>6 DEF TypeOK
<1>8. NeverPanics' /\ Scanned' BY <1>4 DEF NeverPanics, Scanned
<1>9. CASE Splits(node)
  <2>1. PICK rest \in Nat : rest = k + 1 + w BY <1>2, <1>3
  <2>2. PICK left \in Nat : left = data_size[k] - w - 1 /\ left >= 1
    BY <1>1, <1>2, <1>3, <1>9 DEF Splits
  <2>3. /\ data_size' = [data_size EXCEPT ![k] = w, ![rest] = left]
        /\ free' = [free EXCEPT ![k] = FALSE, ![rest] = TRUE]
        /\ nodes' = nodes \cup {rest}
    BY <1>1, <1>2, <1>9, <2>1, <2>2 DEF Take, Left, Marked
  <2>4. rest \in Addr /\ rest # k /\ k < rest /\ rest < Following(k)
    BY <1>2, <1>3, <2>1, <2>2, AddrRange
  <2>5. rest \notin nodes BY <1>1, <2>4, NodeFacts
  <2>6. TypeOK' BY <1>3, <1>7, <2>3, <2>4 DEF TypeOK
  <2>7. data_size'[k] = w /\ data_size'[rest] = left BY <1>3, <2>3, <2>4 DEF TypeOK
  <2>8. Following(k)' = rest /\ Following(rest)' = Following(k)
    <3>1. k + 1 + data_size'[k] = rest BY <1>3, <2>1, <2>7
    <3>2. rest + 1 + data_size'[rest] = k + 1 + data_size[k] BY <1>2, <1>3, <2>1, <2>2, <2>7
    <3> QED BY <3>1, <3>2
  <2>9. ASSUME NEW m \in nodes, m # k
        PROVE  data_size'[m] = data_size[m] /\ Following(m)' = Following(m)
    <3>1. data_size'[m] = data_size[m] BY <2>3, <2>5, <2>9 DEF TypeOK
    <3> QED BY <3>1
  <2>10. Tiled'
    <3>1. 0 \in nodes' BY <2>3 DEF Tiled
    <3>2. ASSUME NEW a \in Addr PROVE \E n \in nodes' : n <= a /\ a < Following(n)'
      <4>1. PICK n \in nodes : n <= a /\ a < Following(n) BY DEF Tiled
      <4>2. CASE n # k BY <2>3, <2>9, <4>1, <4>2
      <4>3. CASE n = k /\ a < rest BY <1>1, <2>3, <2>8, <4>1, <4>3
      <4>4. CASE n = k /\ a >= rest BY <2>3, <2>8, <4>1, <4>4
      <4>5. a \in Nat BY AddrRange
      <4> QED BY <4>2, <4>3, <4>4, <4>5
    <3>3. ASSUME NEW n \in nodes'
          PROVE  /\ data_size'[n] >= 1
                 /\ Following(n)' = Units \/ Following(n)' \in nodes'
                 /\ \A m \in nodes' : m > n => m >= Following(n)'
      <4>1. CASE n = k
        <5>1. ASSUME NEW m \in nodes', m > k PROVE m >= rest
          BY <1>1, <2>3, <2>4, <5>1, NodeFacts
        <5> HIDE DEF Following
        <5> QED BY <1>2, <2>3, <2>7, <2>8, <4>1, <5>1
      <4>2. CASE n = rest
        <5>1. Following(k) = Units \/ Following(k) \in nodes BY <1>1 DEF Tiled
        <5>2. ASSUME NEW m \in nodes', m > rest PROVE m >= Following(k)
          BY <1>1, <1>3, <2>3, <2>4, <5>2, NodeFacts
        <5> HIDE DEF Following
        <5> QED BY <2>2, <2>3, <2>7, <2>8, <4>2, <5>1, <5>2
      <4>3. CASE n # k /\ n # rest
        <5>1. n \in nodes /\ data_size'[n] = data_size[n] /\ Following(n)' = Following(n)
          BY <2>3, <2>9, <4>3
        <5>2. rest > n => rest >= Following(n)
          BY <1>1, <1>3, <2>4, <4>3, <5>1, NodeFacts
        <5> HIDE DEF Following
        <5> QED BY <2>3, <5>1, <5>2 DEF Tiled
      <4> QED BY <4>1, <4>2, <4>3
    <3> QED BY <3>1, <3>2, <3>3 DEF Tiled
  <2>11. BlocksMarked'
    <3>1. ASSUME NEW n \in Addr PROVE owned'[n] # 0 <=> n \in nodes' /\ ~free'[n]
      BY <1>1, <1>3, <1>4, <1>5, <2>3, <2>4, <2>5 DEF BlocksMarked, TypeOK
    <3> QED BY <3>1 DEF BlocksMarked
  <2>12. BlocksFit'
    <3>1. owned[rest] = 0 BY <2>4, <2>5 DEF BlocksMarked
    <3>2. ASSUME NEW n \in Addr, owned'[n] # 0 PROVE owned'[n] <= 16 * data_size'[n]
      BY <1>2, <1>3, <1>4, <2>3, <2>4, <2>7, <3>1, <3>2 DEF BlocksFit, TypeOK
    <3> QED BY <3>2 DEF BlocksFit
  <2> QED BY <1>8, <2>6, <2>10, <2>11, <2>12
<1>10. CASE ~Splits(node)
  <2>1. data_size' = data_size /\ nodes' = nodes /\ free' = [free EXCEPT ![k] = FALSE]
    BY <1>1, <1>10 DEF Take, Marked
  <2>2. TypeOK' BY <1>3, <1>7, <2>1 DEF TypeOK
  <2>3. Tiled' BY <2>1 DEF Tiled
  <2>4. BlocksMarked' BY <1>1, <1>3, <1>4, <1>5, <2>1 DEF BlocksMarked, TypeOK
  <2>5. BlocksFit'
    <3>1. asked <= 16 * data_size[k] BY <1>2, <1>3, <1>5
    <3> QED BY <1>3, <1>4, <2>1, <3>1 DEF BlocksFit, TypeOK
  <2> QED BY <1>8, <2>2, <2>3, <2>4, <2>5
<1> QED BY <1>9, <1>10

LEMMA AdvanceStep ==
  ASSUME IInv, Advance
  PROVE  IInv'
<1> USE DEF IInv
<1>1. PICK k \in nodes : k = node /\ pc = "search" BY DEF Advance, Scanned
<1>2. /\ Following(k) \in nodes /\ Following(k) \in Addr /\ Following(k) > k
      /\ data_size[k] \in Nat /\ k \in Nat
      /\ \A m \in nodes : m > k => m >= Following(k)
  BY <1>1, NodeFacts DEF Advance, TypeOK
<1>3. /\ node' = Following(k)
      /\ data_size' = data_size /\ free' = free /\ pc' = pc /\ asked' = asked
      /\ ret' = ret /\ owned' = owned /\ nodes' = nodes
  BY <1>1 DEF Advance, memory
<1>4. TypeOK' /\ Tiled' /\ BlocksMarked' /\ BlocksFit' /\ NeverPanics'
  BY <1>2, <1>3 DEF TypeOK, Tiled, BlocksMarked, BlocksFit, NeverPanics
<1>5. Scanned'
  <2>1. ASSUME NEW n \in nodes, n < Following(k), free[n]
        PROVE  data_size[n] < Want /\ ~free[Following(n)]
    <3>1. n \in Nat /\ data_size[n] \in Nat /\ Want \in Nat BY <1>1, NodeFacts, WantFacts
    <3>2. CASE n < k BY <1>1, <2>1, <3>2 DEF Scanned
    <3>3. CASE n = k BY <1>1, <2>1, <3>1, <3>3 DEF Advance, Fits, Mergeable
    <3>4. ~(n > k) BY <1>2, <2>1, <3>1
    <3> QED BY <1>2, <3>1, <3>2, <3>3, <3>4
  <2>2. Want' = Want /\ Valid(asked)' BY <1>1, <1>3 DEF Want, Scanned, Valid
  <2> QED BY <1>2, <1>3, <2>1, <2>2 DEF Scanned
<1> QED BY <1>4, <1>5

\* kmalloc's other turns and calls leave the arena as it is.
LEMMA QuietStep ==
  ASSUME IInv, UNCHANGED <<memory, owned, nodes>>, TypeOK', NeverPanics', Scanned'
  PROVE  IInv'
BY DEF IInv, Tiled, BlocksMarked, BlocksFit, memory

LEMMA CallStep ==
  ASSUME IInv, NEW bytes \in Requests, KmallocReject(bytes) \/ KmallocEnter(bytes)
  PROVE  IInv'
<1> USE DEF IInv
<1>1. 0 \in Addr BY AddrRange
<1>2. UNCHANGED <<memory, owned, nodes>> BY DEF KmallocReject, KmallocEnter
<1>3. CASE KmallocReject(bytes)
  <2>1. TypeOK' /\ NeverPanics' /\ Scanned'
    BY <1>1, <1>3 DEF KmallocReject, TypeOK, NeverPanics, Scanned, memory
  <2> QED BY <1>2, <2>1, QuietStep
<1>4. CASE KmallocEnter(bytes)
  <2>1. bytes \in 0 .. 16 * Units - 1 BY <1>4 DEF KmallocEnter, Valid
  <2>2. TypeOK' /\ NeverPanics' BY <1>1, <1>4, <2>1 DEF KmallocEnter, TypeOK, NeverPanics, memory
  <2>3. \A n \in nodes : ~(n < 0) BY NodeFacts
  <2>4. Scanned'
    BY <1>4, <2>3 DEF KmallocEnter, Scanned, Valid, Tiled, memory
  <2> QED BY <1>2, <2>2, <2>4, QuietStep
<1> QED BY <1>3, <1>4

LEMMA GiveUpStep ==
  ASSUME IInv, GiveUp
  PROVE  IInv'
<1>1. UNCHANGED <<memory, owned, nodes>> BY DEF GiveUp
<1>2. 0 \in Addr BY AddrRange
<1>3. TypeOK' /\ NeverPanics' /\ Scanned'
  BY <1>2 DEF IInv, GiveUp, Return, TypeOK, NeverPanics, Scanned, memory
<1> QED BY <1>1, <1>3, QuietStep

\* The block a client holds is the data of a node marked used.
LEMMA HeldBlock ==
  ASSUME IInv, NEW n \in Addr, owned[n] # 0
  PROVE  n \in nodes /\ ~free[n] /\ UnitsFor(owned[n]) <= data_size[n]
<1>1. n \in nodes /\ ~free[n] BY DEF IInv, BlocksMarked
<1>2. owned[n] \in Nat /\ data_size[n] \in Nat /\ owned[n] <= 16 * data_size[n]
  BY DEF IInv, TypeOK, BlocksFit
<1> QED BY <1>1, <1>2, UnitsForFits

LEMMA KfreeStep ==
  ASSUME IInv, NEW n \in Addr, Kfree(n)
  PROVE  IInv'
<1> USE DEF IInv
<1>1. owned[n] # 0 /\ n \in nodes /\ ~free[n] /\ pc = "idle" BY HeldBlock DEF Kfree
<1>2. /\ free' = [free EXCEPT ![n] = TRUE] /\ owned' = [owned EXCEPT ![n] = 0]
      /\ data_size' = data_size /\ nodes' = nodes /\ pc' = pc
      /\ node' = node /\ asked' = asked /\ ret' = ret
  BY <1>1 DEF Kfree
<1>3. TypeOK'
  <2>1. 0 \in 0 .. 16 * Units - 1 OBVIOUS
  <2> QED BY <1>2, <2>1 DEF TypeOK
<1>4. Tiled' BY <1>2 DEF Tiled
<1>5. BlocksMarked' BY <1>1, <1>2 DEF BlocksMarked, TypeOK
<1>6. BlocksFit' BY <1>2 DEF BlocksFit, TypeOK
<1>7. NeverPanics' /\ Scanned' BY <1>1, <1>2 DEF NeverPanics, Scanned
<1> QED BY <1>3, <1>4, <1>5, <1>6, <1>7

\* A client's write falls between its block's header and the next one.
LEMMA ClientWriteStep ==
  ASSUME IInv, NEW n \in Addr, ClientWrite(n)
  PROVE  IInv'
<1> USE DEF IInv
<1>1. owned[n] # 0 /\ n \in nodes /\ UnitsFor(owned[n]) <= data_size[n]
  BY HeldBlock DEF ClientWrite
<1>2. PICK u \in n + 1 .. n + UnitsFor(owned[n]), s \in Scribble, f \in BOOLEAN :
        data_size' = [data_size EXCEPT ![u] = s] /\ free' = [free EXCEPT ![u] = f]
  BY DEF ClientWrite
<1>3. /\ pc' = pc /\ node' = node /\ asked' = asked /\ ret' = ret /\ owned' = owned
      /\ nodes' = nodes /\ pc = "idle"
  BY DEF ClientWrite
<1>4. u \in Nat /\ n < u /\ u < Following(n) /\ u < Units
  <2>1. PICK k \in Nat : k = UnitsFor(owned[n]) BY UnitsForBounds DEF TypeOK
  <2>2. u \in n + 1 .. n + k /\ k <= data_size[n] BY <1>1, <1>2, <2>1
  <2> QED BY <1>1, <2>2, NodeFacts
<1>5. u \in Addr BY <1>4, AddrRange
<1>6. u \notin nodes BY <1>1, <1>4, NodeFacts
<1>7. TypeOK' BY <1>2, <1>3, <1>5 DEF TypeOK
<1>8. ASSUME NEW m \in nodes
      PROVE  data_size'[m] = data_size[m] /\ free'[m] = free[m] /\ Following(m)' = Following(m)
  <2>1. data_size'[m] = data_size[m] /\ free'[m] = free[m] BY <1>2, <1>6 DEF TypeOK
  <2> QED BY <2>1
<1>9. Tiled' BY <1>3, <1>8 DEF Tiled
<1>10. BlocksMarked' BY <1>3, <1>8 DEF BlocksMarked
<1>11. BlocksFit' BY <1>3, <1>8 DEF BlocksFit, BlocksMarked
<1>12. NeverPanics' /\ Scanned' BY <1>3 DEF NeverPanics, Scanned
<1> QED BY <1>7, <1>9, <1>10, <1>11, <1>12

LEMMA NextIInv == IInv /\ [Next]_vars => IInv'
<1> SUFFICES ASSUME IInv, [Next]_vars PROVE IInv' OBVIOUS
<1>1. CASE UNCHANGED vars
  BY <1>1 DEF vars, memory, IInv, TypeOK, Tiled, BlocksMarked, BlocksFit, NeverPanics, Scanned,
     Valid, Want
<1>2. ASSUME NEW bytes \in Requests, KmallocReject(bytes) \/ KmallocEnter(bytes) PROVE IInv'
  BY <1>2, CallStep
<1>3. CASE GiveUp BY <1>3, GiveUpStep
<1>4. CASE Merge BY <1>4, MergeStep
<1>5. CASE Advance BY <1>5, AdvanceStep
<1>6. CASE Take BY <1>6, TakeStep
<1>7. ASSUME NEW n \in Addr, Kfree(n) PROVE IInv' BY <1>7, KfreeStep
<1>8. ASSUME NEW n \in Addr, ClientWrite(n) PROVE IInv' BY <1>8, ClientWriteStep
<1> QED BY <1>1, <1>2, <1>3, <1>4, <1>5, <1>6, <1>7, <1>8 DEF Next, Search

\* The inductive invariant holds of every heap.
THEOREM HeapInvariant == Spec => []IInv
BY InitIInv, NextIInv, PTL DEF Spec

\* The types of kmalloc.c's state.
THEOREM TypeCorrect == Spec => []TypeOK
<1>1. IInv => TypeOK BY DEF IInv
<1> QED BY <1>1, HeapInvariant, PTL

\* A client holds a block exactly when its node is marked used, and the block has
\* the bytes it asked for: kmalloc hands nothing out twice and kfree loses nothing.
THEOREM BlocksAlwaysSound == Spec => []BlocksSound
<1>1. IInv => BlocksSound BY DEF IInv, BlocksSound
<1> QED BY <1>1, HeapInvariant, PTL

-----------------------------------------------------------------------------
(* The walk over the headers *)

LEMMA Smallest ==
  ASSUME NEW S, S \subseteq Nat, S # {}
  PROVE  \E n \in S : \A m \in S : n <= m
<1>1. PICK n \in S : \A m \in S : ~(<<m, n>> \in OpToRel(<, Nat))
  BY NatLessThanWellFounded, WFMin
<1>2. \A m \in S : ~(m < n) BY <1>1, Zenon DEF OpToRel
<1> QED BY <1>2

\* f is the walk of Reached, as far as m steps.
After(S) == S \cup {Following(n) : n \in {m \in S : ~IsLast(m)}}
Walks(f, m) == f = [k \in 0 .. m |-> IF k = 0 THEN {0} ELSE After(f[k - 1])]

LEMMA WalkExists == \A m \in Nat : \E f : Walks(f, m)
<1> DEFINE Bad == {m \in Nat : ~ \E f : Walks(f, m)}
<1>1. SUFFICES ASSUME Bad # {} PROVE FALSE OBVIOUS
<1>2. PICK m \in Bad : \A k \in Bad : m <= k
  <2>1. Bad \subseteq Nat OBVIOUS
  <2> HIDE DEF Bad
  <2> QED BY <1>1, <2>1, Smallest
<1>3. m \in Nat /\ ~ \E f : Walks(f, m) OBVIOUS
<1>4. CASE m = 0
  <2>1. Walks([k \in 0 .. 0 |-> {0}], 0) BY DEF Walks
  <2> QED BY <1>3, <1>4, <2>1
<1>5. CASE m # 0
  <2>1. m - 1 \in Nat /\ m - 1 \notin Bad BY <1>2, <1>3, <1>5
  <2>2. PICK f : Walks(f, m - 1) BY <2>1
  <2> DEFINE g == [k \in 0 .. m |-> IF k = m THEN After(f[m - 1]) ELSE f[k]]
  <2>3. \A k \in 0 .. m - 1 : f[k] = IF k = 0 THEN {0} ELSE After(f[k - 1])
    BY <2>2, Zenon DEF Walks
  <2>4. g[m] = After(f[m - 1]) /\ \A k \in 0 .. m - 1 : g[k] = f[k] BY <1>3, <1>5
  <2>5. g = [k \in 0 .. m |-> g[k]] OBVIOUS
  <2> HIDE DEF g
  <2>6. ASSUME NEW k \in 0 .. m PROVE g[k] = IF k = 0 THEN {0} ELSE After(g[k - 1])
    <3>1. CASE k = m
      <4>1. g[m - 1] = f[m - 1] BY <1>3, <1>5, <2>4
      <4> QED BY <1>5, <2>4, <3>1, <4>1
    <3>2. CASE k \in 0 .. m - 1
      <4>1. k # 0 => k - 1 \in 0 .. m - 1 BY <1>3, <3>2
      <4> QED BY <2>3, <2>4, <3>2, <4>1
    <3> QED BY <1>3, <3>1, <3>2
  <2>7. Walks(g, m) BY <2>5, <2>6 DEF Walks
  <2> QED BY <1>3, <2>7
<1> QED BY <1>4, <1>5

\* A node at address k is reached in k steps at most.
LEMMA WalkReaches ==
  ASSUME TypeOK, Tiled, NEW f, Walks(f, Units)
  PROVE  f[Units] = nodes
<1> DEFINE Good(k) == f[k] \subseteq nodes /\ \A n \in nodes : n <= k => n \in f[k]
           Bad == {k \in 0 .. Units : ~Good(k)}
<1>1. \A k \in 0 .. Units : f[k] = IF k = 0 THEN {0} ELSE After(f[k - 1]) BY Zenon DEF Walks
<1>2. ASSUME Bad # {} PROVE FALSE
  <2>1. PICK k \in Bad : \A j \in Bad : k <= j
    <3>1. Bad \subseteq Nat OBVIOUS
    <3> HIDE DEF Bad
    <3> QED BY <1>2, <3>1, Smallest
  <2>2. CASE k = 0
    <3>1. f[0] = {0} BY <1>1
    <3>2. 0 \in nodes /\ \A n \in nodes : n \in Nat BY NodeFacts DEF Tiled
    <3> QED BY <2>2, <3>1, <3>2
  <2>3. CASE k # 0
    <3>1. k - 1 \in 0 .. Units /\ k - 1 \notin Bad BY <2>1, <2>3
    <3>2. f[k - 1] \subseteq nodes /\ \A n \in nodes : n <= k - 1 => n \in f[k - 1] BY <3>1
    <3>3. f[k] = After(f[k - 1]) BY <1>1, <2>3
    <3>4. f[k] \subseteq nodes BY <3>2, <3>3, NodeFacts DEF After
    <3>5. ASSUME NEW n \in nodes, n <= k PROVE n \in f[k]
      <4>1. CASE n = 0
        BY <2>3, <3>2, <3>3, <4>1 DEF After
      <4>2. CASE n # 0
        <5>1. n \in Nat /\ n < Units BY NodeFacts, AddrRange
        <5>2. n - 1 \in Addr BY <4>2, <5>1, AddrRange
        <5>3. PICK m \in nodes : m <= n - 1 /\ n - 1 < Following(m) BY <5>2 DEF Tiled
        <5>4. m \in Nat /\ Following(m) \in Nat /\ (n > m => n >= Following(m)) BY NodeFacts
        <5>5. n = Following(m) BY <5>1, <5>3, <5>4
        <5>6. m \in f[k - 1] BY <3>2, <3>5, <5>1, <5>3, <5>4
        <5>7. ~IsLast(m) BY <5>1, <5>5 DEF IsLast
        <5> HIDE DEF Following
        <5> QED BY <3>3, <5>5, <5>6, <5>7 DEF After
      <4> QED BY <4>1, <4>2
    <3> QED BY <3>4, <3>5
  <2> QED BY <2>2, <2>3
<1>3. Good(Units) BY <1>2
<1>4. \A n \in nodes : n \in Nat /\ n < Units BY NodeFacts, AddrRange
<1> QED BY <1>3, <1>4

LEMMA AllReached == TypeOK /\ Tiled => Reached = nodes
<1> SUFFICES ASSUME TypeOK, Tiled PROVE Reached = nodes OBVIOUS
<1>1. PICK f : Walks(f, Units) BY WalkExists
<1> DEFINE walk == CHOOSE g : g = [k \in 0 .. Units |->
                     IF k = 0 THEN {0} ELSE g[k - 1] \cup {Following(n) : n \in {m \in g[k - 1] : ~IsLast(m)}}]
<1>2. Walks(walk, Units) BY <1>1, Zenon DEF Walks, After
<1>3. Reached = walk[Units] BY DEF Reached
<1> HIDE DEF walk
<1> QED BY <1>2, <1>3, WalkReaches

\* The headers tile the arena, and walking from one to the next finds them all: clients
\* cannot break the list that is kept between their blocks, nor stale headers mislead it.
THEOREM ArenaStaysIntact == Spec => []ArenaIntact
<1>1. IInv => ArenaIntact BY AllReached DEF IInv, ArenaIntact
<1> QED BY <1>1, HeapInvariant, PTL

\* A client that frees what it holds never meets kfree's panic.
THEOREM NoPanic == Spec => []NeverPanics
<1>1. IInv => NeverPanics BY DEF IInv
<1> QED BY <1>1, HeapInvariant, PTL

\* When kmalloc gives up at the last node, every run long enough meets a held block:
\* behind it free nodes are too small and no two are neighbours.
LEMMA GiveUpMeansNoRoom ==
  ASSUME IInv, GiveUp
  PROVE  NoRoomFor(Want)
<1> USE DEF IInv
<1>1. PICK k \in nodes : k = node /\ pc = "search" BY DEF GiveUp, Scanned
<1>2. PICK w \in Nat : w = Want BY <1>1, WantFacts
<1>3. /\ k \in Nat /\ data_size[k] \in Nat /\ Following(k) = Units
      /\ \A m \in nodes : m > k => m >= Units
  BY <1>1, NodeFacts DEF GiveUp
<1>4. SUFFICES ASSUME NEW a \in Addr, a + w \in Addr
               PROVE  \E n \in Addr : owned[n] # 0 /\ n <= a + w /\ a <= n + data_size[n]
  BY <1>2 DEF NoRoomFor
<1>5. a \in Nat /\ a + w < Units BY <1>4, AddrRange
<1>6. PICK n \in nodes : n <= a /\ a < Following(n) BY DEF Tiled
<1>7. n \in Addr /\ n \in Nat /\ n < Units /\ data_size[n] \in Nat
  BY NodeFacts, AddrRange
<1>8. CASE ~free[n]
  BY <1>2, <1>5, <1>6, <1>7, <1>8 DEF BlocksMarked
<1>9. CASE free[n] /\ n = k
  <2>1. data_size[k] < w BY <1>1, <1>2, <1>3, <1>9 DEF GiveUp, Fits
  <2> QED BY <1>2, <1>3, <1>5, <1>6, <1>9, <2>1
<1>10. CASE free[n] /\ n < k
  <2>1. data_size[n] < w /\ ~free[Following(n)] BY <1>1, <1>2, <1>7, <1>10 DEF Scanned
  <2>2. Following(n) <= k BY <1>1, <1>10, NodeFacts
  <2>3. PICK m \in nodes : m = Following(n)
    BY <1>3, <1>7, <2>2 DEF Tiled
  <2>4. m \in Addr /\ m \in Nat /\ data_size[m] \in Nat BY NodeFacts
  <2>5. owned[m] # 0 BY <2>1, <2>3, <2>4 DEF BlocksMarked
  <2>6. m <= a + w /\ a <= m + data_size[m] BY <1>2, <1>5, <1>6, <1>7, <2>1, <2>3, <2>4
  <2> QED BY <2>4, <2>5, <2>6
<1>11. ~(n > k) BY <1>3, <1>7
<1> QED BY <1>3, <1>7, <1>8, <1>9, <1>10, <1>11

\* kmalloc answers NULL to a valid request only when the arena has no room for it.
THEOREM FailsOnlyWhenItMust == Spec => FailsOnlyWhenFull
<1>1. ASSUME IInv, [Next]_vars, pc = "search", pc' = "idle", ret' = NULL
      PROVE  NoRoomFor(Want)
  <2>1. CASE GiveUp BY <1>1, <2>1, GiveUpMeansNoRoom
  <2>2. ~Take
    <3>1. node \in Nat BY <1>1, AddrRange DEF IInv, TypeOK
    <3> QED BY <1>1, <3>1 DEF Take, Return
  <2> QED BY <1>1, <2>1, <2>2 DEF Next, Search, vars, Merge, Advance, KmallocReject,
                                   KmallocEnter, Kfree, ClientWrite
<1>2. IInv /\ [Next]_vars => [pc = "search" /\ pc' = "idle" /\ ret' = NULL => NoRoomFor(Want)]_vars
  BY <1>1
<1> QED BY <1>2, HeapInvariant, PTL DEF Spec, FailsOnlyWhenFull

-----------------------------------------------------------------------------
(* The allocator implements Heap. *)

\* Heap and the mapping round a block's bytes to the same units.
LEMMA SpanIsUnits ==
  ASSUME NEW at \in Nat, NEW bytes \in Nat, bytes # 0
  PROVE  at + 1 .. at + 1 + (bytes - 1) \div 16 = at + 1 .. at + UnitsFor(bytes)
<1>1. (bytes - 1) \div 16 + 1 = (bytes + 15) \div 16 BY SMT
<1> QED BY <1>1 DEF UnitsFor

LEMMA HeldIsUnits ==
  ASSUME NEW own \in [Addr -> 0 .. 16 * Units - 1]
  PROVE  UNION {b.at .. b.at + (b.bytes - 1) \div 16 : b \in Blocks(own)} = UnitsOf(own)
<1> DEFINE Span(n) == n + 1 .. n + 1 + (own[n] - 1) \div 16
<1>1. ASSUME NEW n \in Addr, own[n] # 0
      PROVE  Span(n) = n + 1 .. n + UnitsFor(own[n])
  <2>1. n \in Nat /\ own[n] \in Nat BY AddrRange
  <2> QED BY <1>1, <2>1, SpanIsUnits
<1>2. ASSUME NEW u
      PROVE  u \in UNION {b.at .. b.at + (b.bytes - 1) \div 16 : b \in Blocks(own)}
             <=> \E n \in Addr : own[n] # 0 /\ u \in Span(n)
  <2>1. u \in UNION {b.at .. b.at + (b.bytes - 1) \div 16 : b \in Blocks(own)}
        <=> \E b \in Blocks(own) : u \in b.at .. b.at + (b.bytes - 1) \div 16
    OBVIOUS
  <2>2. ASSUME NEW n \in Addr
        PROVE  /\ [at |-> n + 1, bytes |-> own[n]].at = n + 1
               /\ [at |-> n + 1, bytes |-> own[n]].bytes = own[n]
    OBVIOUS
  <2>3. (\E b \in Blocks(own) : u \in b.at .. b.at + (b.bytes - 1) \div 16)
        <=> \E n \in Addr : own[n] # 0 /\ u \in Span(n)
    BY <2>2, Zenon DEF Blocks
  <2> QED BY <2>1, <2>3
<1>3. ASSUME NEW u
      PROVE  u \in UnitsOf(own) <=> \E n \in Addr : own[n] # 0 /\ u \in n + 1 .. n + UnitsFor(own[n])
  BY DEF UnitsOf
<1> HIDE DEF Span
<1> QED BY <1>1, <1>2, <1>3

LEMMA InUnitsOf ==
  ASSUME NEW own, NEW u
  PROVE  u \in UnitsOf(own) <=> \E n \in Addr : own[n] # 0 /\ u \in n + 1 .. n + UnitsFor(own[n])
BY DEF UnitsOf

\* A held unit is data of the block's node, never a header.
LEMMA HeldUnit ==
  ASSUME IInv, NEW n \in Addr, owned[n] # 0, NEW u \in n + 1 .. n + UnitsFor(owned[n])
  PROVE  /\ u \in Addr /\ u \in Nat /\ n < u /\ u < Following(n)
         /\ n \in nodes /\ u \notin nodes
<1>1. n \in nodes /\ UnitsFor(owned[n]) <= data_size[n] BY HeldBlock
<1>2. PICK k \in Nat : k = UnitsFor(owned[n]) BY UnitsForBounds DEF IInv, TypeOK
<1>3. u \in n + 1 .. n + k /\ k <= data_size[n] BY <1>1, <1>2
<1>4. u \in Nat /\ n < u /\ u < Following(n) /\ u < Units BY <1>1, <1>3, NodeFacts DEF IInv
<1> QED BY <1>1, <1>4, NodeFacts, AddrRange DEF IInv

LEMMA HeldNotHeader ==
  ASSUME IInv, NEW u \in UnitsOf(owned)
  PROVE  u \in Addr /\ u \notin nodes
BY InUnitsOf, HeldUnit

\* A unit inside a node that no client holds is not held.
LEMMA FreeNodeNotHeld ==
  ASSUME IInv, NEW k \in nodes, free[k], NEW u \in Nat, k <= u, u < Following(k)
  PROVE  u \notin UnitsOf(owned)
<1> SUFFICES ASSUME u \in UnitsOf(owned) PROVE FALSE OBVIOUS
<1>1. PICK n \in Addr : owned[n] # 0 /\ u \in n + 1 .. n + UnitsFor(owned[n]) BY InUnitsOf
<1>2. n < u /\ u < Following(n) /\ n \in nodes BY <1>1, HeldUnit
<1>3. ~free[n] BY <1>1, HeldBlock
<1>4. k \in Nat /\ n \in Nat /\ n # k /\ data_size[k] \in Nat /\ data_size[n] \in Nat
  BY <1>2, <1>3, NodeFacts DEF IInv
<1>5. CASE n < k BY <1>2, <1>4, <1>5, NodeFacts DEF IInv
<1>6. CASE n > k BY <1>2, <1>4, <1>6, NodeFacts DEF IInv
<1> QED BY <1>4, <1>5, <1>6

\* A step that changes no held unit changes nothing Heap speaks of.
LEMMA StutterStep ==
  ASSUME owned' = owned,
         \A u \in UnitsOf(owned) : data_size'[u] = data_size[u] /\ free'[u] = free[u]
  PROVE  UNCHANGED <<Blocks(owned), [u \in UnitsOf(owned) |-> <<data_size[u], free[u]>>]>>
<1>1. Blocks(owned)' = Blocks(owned) /\ UnitsOf(owned)' = UnitsOf(owned) BY DEF Blocks, UnitsOf
<1> QED BY <1>1

LEMMA KfreeIsFree ==
  ASSUME IInv, NEW n \in Addr, Kfree(n)
  PROVE  Abstract!Free
<1> DEFINE b == [at |-> n + 1, bytes |-> owned[n]]
<1>1. owned[n] # 0 /\ n \in nodes /\ ~free[n] BY HeldBlock DEF Kfree
<1>2. /\ free' = [free EXCEPT ![n] = TRUE] /\ owned' = [owned EXCEPT ![n] = 0]
      /\ data_size' = data_size
  BY <1>1 DEF Kfree
<1>3. b \in Blocks(owned) BY <1>1 DEF Blocks
<1>4. \A m \in Addr : m \in Nat BY AddrRange
<1>5. \A m \in Addr : owned'[m] = IF m = n THEN 0 ELSE owned[m] BY <1>2 DEF IInv, TypeOK
<1>6. Blocks(owned)' = Blocks(owned) \ {b}
  <2>1. ASSUME NEW c PROVE c \in Blocks(owned') <=> c \in Blocks(owned) /\ c # b
    <3>1. \A m \in Addr : m # n => [at |-> m + 1, bytes |-> owned[m]] # b BY <1>4
    <3> HIDE DEF b
    <3> QED BY <1>5, <3>1 DEF Blocks, b
  <2> QED BY <2>1
<1>7. UnitsOf(owned') \subseteq UnitsOf(owned) BY <1>5, InUnitsOf
<1>8. \A u \in UnitsOf(owned') : free'[u] = free[u]
  BY <1>1, <1>2, <1>7, HeldNotHeader DEF IInv, TypeOK
<1>9. (Abstract!Held)' = UnitsOf(owned')
  <2>1. owned' \in [Addr -> 0 .. 16 * Units - 1] BY KfreeStep DEF IInv, TypeOK
  <2> QED BY <2>1, HeldIsUnits DEF Abstract!Held, Abstract!Span
<1>10. [u \in UnitsOf(owned') |-> <<data_size'[u], free'[u]>>]
       = [u \in UnitsOf(owned') |-> [v \in UnitsOf(owned) |-> <<data_size[v], free[v]>>][u]]
  <2>1. ASSUME NEW u \in UnitsOf(owned')
        PROVE  <<data_size'[u], free'[u]>>
               = [v \in UnitsOf(owned) |-> <<data_size[v], free[v]>>][u]
    <3>1. u \in UnitsOf(owned) BY <1>7
    <3>2. [v \in UnitsOf(owned) |-> <<data_size[v], free[v]>>][u] = <<data_size[u], free[u]>>
      BY <3>1
    <3> QED BY <1>2, <1>8, <3>2
  <2> QED BY <2>1, Zenon
<1> HIDE DEF b
<1> QED BY <1>3, <1>6, <1>9, <1>10 DEF Abstract!Free

LEMMA MappedHeld ==
  ASSUME IInv
  PROVE  Abstract!Held = UnitsOf(owned)
BY HeldIsUnits DEF IInv, TypeOK, Abstract!Held, Abstract!Span

LEMMA ClientWriteIsWrite ==
  ASSUME IInv, NEW n \in Addr, ClientWrite(n)
  PROVE  Abstract!Write
<1> DEFINE store == [u \in UnitsOf(owned) |-> <<data_size[u], free[u]>>]
<1>1. PICK u \in n + 1 .. n + UnitsFor(owned[n]), s \in Scribble, f \in BOOLEAN :
        data_size' = [data_size EXCEPT ![u] = s] /\ free' = [free EXCEPT ![u] = f]
  BY DEF ClientWrite
<1>2. owned' = owned /\ owned[n] # 0 BY DEF ClientWrite
<1>3. u \in UnitsOf(owned) BY <1>1, <1>2, InUnitsOf
<1>4. UnitsOf(owned') = UnitsOf(owned) /\ Blocks(owned') = Blocks(owned) BY <1>2
<1>5. store' = [v \in UnitsOf(owned) |-> <<data_size'[v], free'[v]>>] BY <1>4
<1>6. DOMAIN store' = UnitsOf(owned) BY <1>5
<1>7. store'[u] \in Nat \X BOOLEAN
  <2>1. data_size'[u] = s /\ free'[u] = f BY <1>1, <1>3, HeldNotHeader DEF IInv, TypeOK
  <2> QED BY <1>3, <1>5, <2>1
<1>8. ASSUME NEW v \in UnitsOf(owned) \ {u} PROVE store'[v] = store[v]
  <2>1. data_size'[v] = data_size[v] /\ free'[v] = free[v]
    BY <1>1, HeldNotHeader DEF IInv, TypeOK
  <2> QED BY <1>5, <2>1
<1> HIDE DEF store
<1> QED BY <1>3, <1>4, <1>6, <1>7, <1>8, MappedHeld DEF Abstract!Write, store

\* The node taken was free, so its units were nobody's; the block is cut from them.
LEMMA TakeIsAlloc ==
  ASSUME IInv, IInv', Take
  PROVE  Abstract!Alloc
<1> DEFINE store == [u \in UnitsOf(owned) |-> <<data_size[u], free[u]>>]
<1>1. PICK k \in nodes : k = node /\ pc = "search" /\ free[k]
  BY DEF IInv, Take, Fits, Scanned
<1>2. PICK w \in Nat : w = UnitsFor(asked) /\ w = Want /\ w >= 1 /\ data_size[k] >= w
  BY <1>1, WantFacts DEF IInv, Take, Fits, Want
<1>3. /\ k \in Addr /\ k \in Nat /\ data_size[k] \in Nat /\ Following(k) <= Units
  BY <1>1, NodeFacts, AddrRange DEF IInv
<1>4. asked \in Nat /\ asked # 0 /\ asked < 16 * Units BY <1>1, WantFacts DEF IInv, TypeOK
<1> DEFINE b == [at |-> k + 1, bytes |-> asked]
<1>5. owned' = [owned EXCEPT ![k] = asked] BY <1>1 DEF Take
<1>6. owned[k] = 0 BY <1>1, <1>3 DEF IInv, BlocksMarked
<1>7. \A m \in Addr : owned'[m] = IF m = k THEN asked ELSE owned[m] BY <1>5 DEF IInv, TypeOK
<1>8. Blocks(owned') = Blocks(owned) \cup {b}
  <2>1. ASSUME NEW c PROVE c \in Blocks(owned') <=> c \in Blocks(owned) \/ c = b
    BY <1>3, <1>4, <1>6, <1>7 DEF Blocks
  <2> QED BY <2>1
<1>9. Abstract!Span(b) = k + 1 .. k + w
  <2>1. b.at = k + 1 /\ b.bytes = asked OBVIOUS
  <2>2. Abstract!Span(b) = b.at .. b.at + (b.bytes - 1) \div 16 BY DEF Abstract!Span
  <2>3. Abstract!Span(b) = k + 1 .. k + 1 + (asked - 1) \div 16 BY <2>1, <2>2
  <2>4. k + 1 .. k + 1 + (asked - 1) \div 16 = k + 1 .. k + UnitsFor(asked)
    BY <1>3, <1>4, SpanIsUnits
  <2> QED BY <1>2, <2>3, <2>4
<1>10. k + 1 .. k + w \subseteq 1 .. Units - 1 BY <1>2, <1>3
<1>11. (k + 1 .. k + w) \cap UnitsOf(owned) = {}
  <2>1. ASSUME NEW u \in k + 1 .. k + w PROVE u \notin UnitsOf(owned)
    <3>1. u \in Nat /\ k <= u /\ u < Following(k) BY <1>2, <1>3
    <3> QED BY <1>1, <3>1, FreeNodeNotHeld
  <2> QED BY <2>1
<1>12. Abstract!Held = UnitsOf(owned) /\ (Abstract!Held)' = UnitsOf(owned')
  <2>1. (Abstract!Held)' = UnitsOf(owned')
    BY HeldIsUnits DEF IInv, TypeOK, Abstract!Held, Abstract!Span
  <2> QED BY <2>1, MappedHeld
<1>13. UnitsOf(owned) \subseteq UnitsOf(owned') BY <1>6, <1>7, InUnitsOf
<1>14. store' = [u \in UnitsOf(owned') |-> <<data_size'[u], free'[u]>>] OBVIOUS
<1>15. ASSUME NEW u \in UnitsOf(owned) PROVE store'[u] = store[u]
  <2>1. u \in Addr /\ u \notin nodes BY HeldNotHeader
  <2>2. u # k BY <1>1, <2>1
  <2>3. Splits(k) => u # k + 1 + w
    <3>1. SUFFICES ASSUME Splits(k), u = k + 1 + w PROVE FALSE OBVIOUS
    <3>2. u \in Nat /\ k <= u /\ u < Following(k) BY <1>2, <1>3, <3>1 DEF Splits
    <3> QED BY <1>1, <3>2, FreeNodeNotHeld
  <2>4. data_size'[u] = data_size[u] /\ free'[u] = free[u]
    <3>1. CASE Splits(k)
      BY <1>1, <1>2, <2>1, <2>2, <2>3, <3>1 DEF IInv, TypeOK, Take, Marked
    <3>2. CASE ~Splits(k) BY <1>1, <2>1, <2>2, <3>2 DEF IInv, TypeOK, Take, Marked
    <3> QED BY <3>1, <3>2
  <2> QED BY <1>13, <1>14, <2>4
<1>16. ASSUME NEW u \in UnitsOf(owned') PROVE store'[u] \in Nat \X BOOLEAN
  <2>1. PICK n \in Addr : owned'[n] # 0 /\ u \in n + 1 .. n + UnitsFor(owned'[n]) BY InUnitsOf
  <2>2. u \in Addr
    <3>1. CASE n = k
      <4>1. u \in k + 1 .. k + w BY <1>2, <1>3, <1>7, <2>1, <3>1
      <4> QED BY <1>10, <4>1, AddrRange
    <3>2. CASE n # k BY <1>7, <2>1, <3>2, HeldUnit
    <3> QED BY <3>1, <3>2
  <2>3. data_size'[u] \in Nat /\ free'[u] \in BOOLEAN BY <2>2 DEF IInv, TypeOK
  <2> QED BY <1>14, <2>3
<1>17. DOMAIN store' = UnitsOf(owned') BY <1>14
<1>18. k + 1 \in 1 .. Units - 1 /\ asked \in Requests \ {0}
  BY <1>1, <1>2, <1>3, <1>4 DEF IInv, Scanned
<1> HIDE DEF store
<1> QED
  BY <1>8, <1>9, <1>10, <1>11, <1>12, <1>15, <1>16, <1>17, <1>18 DEF Abstract!Alloc, store

LEMMA InitIsInit == Init => Abstract!Init
<1> SUFFICES ASSUME Init PROVE Abstract!Init OBVIOUS
<1>1. \A n \in Addr : owned[n] = 0 BY DEF Init
<1>2. Blocks(owned) = {} BY <1>1 DEF Blocks
<1>3. UnitsOf(owned) = {} BY <1>1, InUnitsOf
<1> QED BY <1>2, <1>3 DEF Abstract!Init

LEMMA StepIsStep ==
  ASSUME IInv, IInv', [Next]_vars
  PROVE  [Abstract!Next]_<<Blocks(owned), [u \in UnitsOf(owned) |-> <<data_size[u], free[u]>>]>>
<1>1. ASSUME UNCHANGED <<memory, owned>>
      PROVE  UNCHANGED <<Blocks(owned), [u \in UnitsOf(owned) |-> <<data_size[u], free[u]>>]>>
  BY <1>1, StutterStep DEF memory
<1>2. CASE UNCHANGED vars BY <1>1, <1>2 DEF vars
<1>3. ASSUME NEW bytes \in Requests, KmallocReject(bytes) \/ KmallocEnter(bytes)
      PROVE  UNCHANGED <<memory, owned>>
  BY <1>3 DEF KmallocReject, KmallocEnter
<1>4. CASE GiveUp \/ Advance BY <1>1, <1>4 DEF GiveUp, Advance
<1>5. CASE Merge
  <2>1. node \in nodes BY <1>5 DEF IInv, Merge, Scanned
  <2>2. \A u \in UnitsOf(owned) : data_size'[u] = data_size[u] /\ free'[u] = free[u]
    BY <1>5, <2>1, HeldNotHeader DEF Merge, IInv, TypeOK
  <2>3. owned' = owned BY <1>5 DEF Merge
  <2> QED BY <2>2, <2>3, StutterStep
<1>6. CASE Take BY <1>6, TakeIsAlloc DEF Abstract!Next
<1>7. ASSUME NEW n \in Addr, Kfree(n) PROVE Abstract!Next
  BY <1>7, KfreeIsFree DEF Abstract!Next
<1>8. ASSUME NEW n \in Addr, ClientWrite(n) PROVE Abstract!Next
  BY <1>8, ClientWriteIsWrite DEF Abstract!Next
<1> QED BY <1>1, <1>2, <1>3, <1>4, <1>5, <1>6, <1>7, <1>8 DEF Next, Search

\* Callers may reason with Heap alone: kmalloc.c implements it.
THEOREM KmallocImplementsHeap == Spec => ImplementsHeap
BY InitIsInit, StepIsStep, HeapInvariant, PTL DEF Spec, ImplementsHeap, Abstract!Spec
=============================================================================
