------------------------------ MODULE Rk818Irq ------------------------------
(***************************************************************************)
(* The interrupt controller of the RK818 (rk818.c): rk818_irq_init sets it *)
(* up at probe, rk818_irq is the thread of its one interrupt line, and its *)
(* irq_chip is called by the drivers that use its interrupts.  Every I2C   *)
(* transfer is a step, taken without io_lock, and may fail; interrupts     *)
(* fire between any two.  External: the chip, whose status bits are        *)
(* cleared by writing ones, the irq core, and the drivers.                 *)
(***************************************************************************)
EXTENDS Integers, FiniteSets

CONSTANTS
  Irqs,        \* RK818_IRQ numbers that can fire; those below 8 are in the first registers
  Masks,       \* what the mask registers may hold after rk818_pre_init
  Shift,       \* linux interrupt of RK818_IRQ 0 less chip_irq
  MaxEvents,   \* bound: interrupts that fire, and calls of the drivers
  MaxFaults    \* bound: transfers and requests that fail

ASSUME IrqAssumption ==
  /\ Irqs \subseteq 0..15 /\ Masks \subseteq SUBSET Irqs
  /\ Shift \in 0..16 /\ MaxEvents \in Nat /\ MaxFaults \in Nat

VARIABLES
  chip,      \* sts and msk: the status and the mask registers, both as one set
  at,        \* next step of rk818_irq_init or rk818_irq
  reg,       \* the byte reg, a set of bits: a local of either function, not initialized
  irq_sts, irq_mask,    \* locals of rk818_irq
  todo,      \* interrupts whose nested handler is still to be called
  type,      \* trigger of the line: none, low or high
  mask,      \* chip->irq_mask
  lock,      \* owner of chip->irq_lock: an interrupt and what is done to it, or Free
  enabled,   \* interrupts with a driver that has not disabled them
  owed,      \* interrupts that fired and whose handler was not called since
  again,     \* those that fired between their handler's call and their clearing
  quiet,     \* whether nothing fired or failed since rk818_irq_init began
  events, faults

vars == <<chip, at, reg, irq_sts, irq_mask, todo, type, mask, lock, enabled, owed, again, quiet, events, faults>>
locals == <<irq_sts, irq_mask, todo>>
ghosts == <<owed, again, quiet>>

Free == <<-1, "free">>
Bits == {i % 8 : i \in Irqs}                      \* of a byte, the ones that matter
Half(n) == {i \in Irqs : i \div 8 = n}
Byte(s, n) == {i % 8 : i \in s \cap Half(n)}      \* (s >> 8n) & 0xff
Word(b, n) == {i \in Half(n) : i % 8 \in b}       \* b << 8n

\* Asserted is low; the mask keeps a bit off the line, not out of the status.
LineLow == chip.sts \ chip.msk # {}

Init ==
  /\ \E m \in Masks, s \in SUBSET Irqs : chip = [sts |-> s, msk |-> m]
  /\ reg = {} /\ at = "clear1" /\ type = "none"
  /\ irq_sts = {} /\ irq_mask = {} /\ todo = {}
  /\ mask = {} /\ lock = Free /\ enabled = {}
  /\ owed = {} /\ again = {} /\ quiet = TRUE /\ events = 0 /\ faults = 0

-----------------------------------------------------------------------------
(* Transfers.                                                               *)

Fault == faults < MaxFaults /\ faults' = faults + 1
\* rk818_i2c_read returns zero and leaves the byte alone when the transfer fails:
\* before the first one of a function that is whatever the stack held.
i2c_read(s, n) ==
  \/ reg' = Byte(s, n) /\ UNCHANGED <<faults, quiet>>
  \/ Fault /\ quiet' = FALSE /\ reg' \in IF at \in {"clear1", "sts1"} THEN SUBSET Bits ELSE {reg}
\* rk818_i2c_write of ones to a status register; its result is ignored.
i2c_clear(b, n) ==
  \/ chip' = [chip EXCEPT !.sts = @ \ Word(b, n)] /\ UNCHANGED <<faults, quiet>>
  \/ Fault /\ quiet' = FALSE /\ UNCHANGED chip

-----------------------------------------------------------------------------
(* rk818_irq_init.                                                          *)

\* Clear unattended interrupts: read a status register and write it back.  The
\* RTC's own status is treated likewise and is not part of the model.
Clear(from, step, n, to) ==
  \/ at = from /\ i2c_read(chip.sts, n) /\ at' = step /\ UNCHANGED chip
  \/ at = step /\ i2c_clear(reg, n) /\ at' = to /\ UNCHANGED reg
ClearUnattendedFirst ==          \* mutant: only the first register is cleared
  /\ \/ Clear("clear1", "write1", 0, "gpio")
     \/ Clear("clear2", "write2", 1, "gpio")
  /\ UNCHANGED <<locals, type, mask, lock, enabled, owed, again, events>>
ClearUnattended ==
  /\ \/ Clear("clear1", "write1", 0, "clear2")
     \/ Clear("clear2", "write2", 1, "gpio")
  /\ UNCHANGED <<locals, type, mask, lock, enabled, owed, again, events>>

\* The level the pin has now is taken for the idle one.  A request of the pin
\* that fails returns IRQ_NONE, which is zero.
ReadPin ==
  /\ at = "gpio" /\ mask' = 0..23
  /\ \/ type' = (IF LineLow THEN "high" ELSE "low") /\ at' = "request" /\ UNCHANGED <<faults, quiet>>
     \/ Fault /\ at' = "none" /\ quiet' = FALSE /\ UNCHANGED type
  /\ UNCHANGED <<chip, reg, locals, lock, enabled, owed, again, events>>
\* irq_domain_add_linear, devm_request_threaded_irq and irq_set_irq_type.
RequestLine ==
  /\ at = "request"
  /\ \/ at' = "idle" /\ UNCHANGED <<faults, quiet>>
     \/ Fault /\ at' = "none" /\ quiet' = FALSE
  /\ UNCHANGED <<chip, reg, locals, type, mask, lock, enabled, owed, again, events>>

-----------------------------------------------------------------------------
(* rk818_irq, which holds the wake lock.  The line stays masked until it    *)
(* returns (IRQF_ONESHOT).                                                  *)

Trigger ==
  /\ at = "idle" /\ type = IF LineLow THEN "low" ELSE "high"
  /\ at' = "sts1"
  /\ UNCHANGED <<chip, reg, locals, type, mask, lock, enabled, ghosts, events, faults>>

ReadNoShift ==                   \* mutant: the second status is not shifted
  /\ \/ at = "sts1" /\ i2c_read(chip.sts, 0) /\ at' = "sts2"
        /\ irq_sts' = Word(reg', 0) /\ UNCHANGED irq_mask
     \/ at = "sts2" /\ i2c_read(chip.sts, 1) /\ at' = "msk1"
        /\ irq_sts' = irq_sts \cup Word(reg', 0) /\ UNCHANGED irq_mask
     \/ at = "msk1" /\ i2c_read(chip.msk, 0) /\ at' = "msk2"
        /\ irq_mask' = Word(reg', 0) /\ UNCHANGED irq_sts
     \/ at = "msk2" /\ i2c_read(chip.msk, 1) /\ at' = "which"
        /\ irq_mask' = irq_mask \cup Word(reg', 1) /\ UNCHANGED irq_sts
  /\ UNCHANGED <<chip, todo, type, mask, lock, enabled, owed, again, events>>
Read ==
  /\ \/ at = "sts1" /\ i2c_read(chip.sts, 0) /\ at' = "sts2"
        /\ irq_sts' = Word(reg', 0) /\ UNCHANGED irq_mask
     \/ at = "sts2" /\ i2c_read(chip.sts, 1) /\ at' = "msk1"
        /\ irq_sts' = irq_sts \cup Word(reg', 1) /\ UNCHANGED irq_mask
     \/ at = "msk1" /\ i2c_read(chip.msk, 0) /\ at' = "msk2"
        /\ irq_mask' = Word(reg', 0) /\ UNCHANGED irq_sts
     \/ at = "msk2" /\ i2c_read(chip.msk, 1) /\ at' = "which"
        /\ irq_mask' = irq_mask \cup Word(reg', 1) /\ UNCHANGED irq_sts
  /\ UNCHANGED <<chip, todo, type, mask, lock, enabled, owed, again, events>>

\* Nothing that is not masked: IRQ_NONE.
WhichAll ==                      \* mutant: the mask is read and not applied
  /\ at = "which" /\ irq_sts' = irq_sts /\ todo' = irq_sts'
  /\ at' = IF irq_sts' = {} THEN "idle" ELSE "handle"
  /\ UNCHANGED <<chip, reg, irq_mask, type, mask, lock, enabled, ghosts, events, faults>>
Which ==
  /\ at = "which" /\ irq_sts' = irq_sts \ irq_mask /\ todo' = irq_sts'
  /\ at' = IF irq_sts' = {} THEN "idle" ELSE "handle"
  /\ UNCHANGED <<chip, reg, irq_mask, type, mask, lock, enabled, ghosts, events, faults>>

\* handle_nested_irq, lowest first.  The core only notes an interrupt that has
\* no driver or is disabled, and never sends it again.
Nested ==
  /\ at = "handle" /\ todo # {}
  /\ LET i == CHOOSE i \in todo : \A j \in todo : i <= j IN
       /\ todo' = todo \ {i}
       /\ owed' = IF i \in enabled THEN owed \ {i} ELSE owed
       /\ again' = IF i \in enabled THEN again \ {i} ELSE again
  /\ UNCHANGED <<chip, at, reg, irq_sts, irq_mask, type, mask, lock, enabled, quiet, events, faults>>

\* The bits that were seen are written back, one register after the other.
AckAll ==                        \* mutant: all bits of the register are cleared
  /\ \/ at = "handle" /\ todo = {} /\ i2c_clear(Bits, 0) /\ reg' = Byte(irq_sts, 0) /\ at' = "ack2"
     \/ at = "ack2" /\ i2c_clear(Bits, 1) /\ reg' = Byte(irq_sts, 1) /\ at' = "idle"
  /\ UNCHANGED <<locals, type, mask, lock, enabled, owed, again, events>>
Ack ==
  /\ \/ at = "handle" /\ todo = {} /\ i2c_clear(Byte(irq_sts, 0), 0) /\ reg' = Byte(irq_sts, 0) /\ at' = "ack2"
     \/ at = "ack2" /\ i2c_clear(Byte(irq_sts, 1), 1) /\ reg' = Byte(irq_sts, 1) /\ at' = "idle"
  /\ UNCHANGED <<locals, type, mask, lock, enabled, owed, again, events>>

-----------------------------------------------------------------------------
(* The irq_chip, called by the core for the drivers.                        *)

Ready == at \notin {"clear1", "write1", "clear2", "write2", "gpio", "request", "none"}

\* request_threaded_irq or enable_irq, free_irq or disable_irq: under irq_lock.
\* A driver that disables an interrupt gives up what was owed to it.
irq_lock(i, what) ==
  /\ Ready /\ events < MaxEvents /\ lock = Free
  /\ (what = "enable") = (i \notin enabled)
  /\ lock' = <<i, what>> /\ events' = events + 1
  /\ UNCHANGED <<chip, at, reg, locals, type, mask, enabled, ghosts, faults>>

\* rk818_irq_enable and rk818_irq_disable: the bit is the linux number less
\* chip_irq, which is not the number the chip knows.
irq_to_rk818_irq(i) == i + Shift
irq_enable ==
  /\ lock[2] = "enable" /\ lock' = <<lock[1], "sync">>
  /\ mask' = mask \ {irq_to_rk818_irq(lock[1])} /\ enabled' = enabled \cup {lock[1]}
  /\ UNCHANGED <<chip, at, reg, locals, type, ghosts, events, faults>>
irq_disable ==
  /\ lock[2] = "disable" /\ lock' = <<lock[1], "sync">>
  /\ mask' = mask \cup {irq_to_rk818_irq(lock[1])} /\ enabled' = enabled \ {lock[1]}
  /\ owed' = owed \ {lock[1]} /\ again' = again \ {lock[1]}
  /\ UNCHANGED <<chip, at, reg, locals, type, quiet, events, faults>>

\* rk818_irq_sync_unlock reads the mask registers and writes nothing.
irq_sync_unlock ==
  /\ lock[2] = "sync" /\ lock' = Free
  /\ UNCHANGED <<chip, at, reg, locals, type, mask, enabled, ghosts, events, faults>>

-----------------------------------------------------------------------------
(* An interrupt fires.                                                      *)

\* Its driver was called, and the write that clears it is still to come.
Called(i) == \/ at = "handle" /\ i \in irq_sts \ todo
             \/ at = "ack2" /\ i \in irq_sts \cap Half(1)
Fire(i) ==
  /\ events < MaxEvents /\ events' = events + 1 /\ quiet' = FALSE
  /\ chip' = [chip EXCEPT !.sts = @ \cup {i}]
  /\ owed' = IF i \in enabled \ chip.msk THEN owed \cup {i} ELSE owed
  /\ again' = IF i \in enabled \ chip.msk /\ Called(i) THEN again \cup {i} ELSE again
  /\ UNCHANGED <<at, reg, locals, type, mask, lock, enabled, faults>>

rk818_irq_init == ClearUnattended \/ ReadPin \/ RequestLine
rk818_irq == Trigger \/ Read \/ Which \/ Nested \/ Ack

Next ==
  \/ rk818_irq_init \/ rk818_irq
  \/ irq_enable \/ irq_disable \/ irq_sync_unlock
  \/ \E i \in Irqs : Fire(i) \/ \E what \in {"enable", "disable"} : irq_lock(i, what)

\* The thread of a line that is triggered runs, and i2c_transfer returns.
Spec == Init /\ [][Next]_vars /\ WF_vars(rk818_irq_init) /\ WF_vars(rk818_irq)

-----------------------------------------------------------------------------
(* Properties.                                                              *)

\* Bytes, the two words and the trigger keep their ranges: the word that is
\* handled never has a bit that the mask has (rk818_irq), and no driver is
\* called before rk818_irq_init has requested the line.
TypeOK ==
  /\ chip.sts \subseteq Irqs /\ chip.msk \in Masks /\ reg \subseteq Bits
  /\ todo \subseteq irq_sts /\ (at \in {"handle", "ack2"} => irq_sts \cap irq_mask = {})
  /\ type \in {"none", "low", "high"} /\ (~Ready => enabled = {} /\ lock = Free)
  /\ mask \subseteq 0..31 /\ again \subseteq owed /\ owed \subseteq enabled

\* If nothing fires and nothing fails while rk818_irq_init runs, the line is
\* taken for what it is, active low, whatever was pending before: unattended
\* interrupts are cleared before the pin is read.  One that fires in between
\* turns the trigger round for good.
ActiveLow == quiet /\ type # "none" => type = "low" /\ chip.sts = {}

\* Writing the status back clears no interrupt that was not handled: one whose
\* driver was not called since it fired is still pending in the chip or about to
\* be called, however many others fire between the transfers of rk818_irq and
\* whichever of them fail.  The exception is an interrupt that fires again
\* between the call of its driver and the write.
NoneCleared == owed \ again \subseteq chip.sts \cup todo

\* Every interrupt of an enabled driver reaches it, through failed transfers and
\* other interrupts, if the trigger is right; again is the exception.
Reaches == \A i \in Irqs : i \in owed /\ type = "low" ~> i \notin owed \/ i \in again
=============================================================================
