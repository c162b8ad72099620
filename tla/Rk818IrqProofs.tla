---------------------------- MODULE Rk818IrqProofs ----------------------------
(***************************************************************************)
(* Proofs about Rk818Irq, for any interrupts, masks, failures and number   *)
(* of events.                                                              *)
(***************************************************************************)
EXTENDS Rk818Irq, TLAPS

Steps == {"clear1", "write1", "clear2", "write2", "gpio", "request", "none",
          "idle", "sts1", "sts2", "msk1", "msk2", "which", "handle", "ack2"}

\* The types that TypeOK leaves open.
Shapes ==
  /\ chip \in [sts : SUBSET Irqs, msk : Masks] /\ at \in Steps
  /\ irq_sts \subseteq Irqs /\ lock \in (Irqs \X {"enable", "disable", "sync"}) \cup {Free}
  /\ (at # "handle" => todo = {}) /\ quiet \in BOOLEAN

\* How far rk818_irq_init has come while nothing disturbs it, and that the
\* trigger is only chosen at its end.
Clearing ==
  /\ at \in {"clear1", "write1", "clear2", "write2", "gpio"} => type = "none"
  /\ quiet =>
       /\ at = "write1" => reg = Byte(chip.sts, 0)
       /\ at \in {"clear2", "write2", "gpio"} => chip.sts \cap Half(0) = {}
       /\ at = "write2" => reg = Byte(chip.sts, 1)
       /\ at = "gpio" => chip.sts = {}

\* A driver that was called is owed nothing until the write that clears its
\* interrupt, unless the interrupt fired again.
CalledOwedAgain ==
  /\ at = "handle" => (irq_sts \ todo) \cap owed \subseteq again
  /\ at = "ack2" => irq_sts \cap Half(1) \cap owed \subseteq again

IrqInv == TypeOK /\ Shapes /\ ActiveLow /\ Clearing /\ NoneCleared /\ CalledOwedAgain

(***************************************************************************)
(* Bytes and words: writing back what was read clears exactly that.        *)
(***************************************************************************)

LEMMA Numbers ==
  /\ Irqs \subseteq 0..15 /\ Masks \subseteq SUBSET Irqs /\ Shift \in 0..16
  BY IrqAssumption

LEMMA Halves ==
  /\ Half(0) \cup Half(1) = Irqs /\ Half(0) \cap Half(1) = {} /\ Half(0) \subseteq Irqs /\ Half(1) \subseteq Irqs
  /\ \A i \in Irqs : i \div 8 \in {0, 1} /\ i % 8 \in 0..7 /\ i = 8 * (i \div 8) + (i % 8)
<1>1. \A i \in 0..15 : i \div 8 \in {0, 1} /\ i % 8 \in 0..7 /\ i = 8 * (i \div 8) + (i % 8)
  OBVIOUS
<1>2. \A i \in Irqs : i \div 8 \in {0, 1} /\ i % 8 \in 0..7 /\ i = 8 * (i \div 8) + (i % 8)
  BY <1>1, Numbers
<1>3. Half(0) \subseteq Irqs /\ Half(1) \subseteq Irqs /\ \A i \in Irqs : i \in Half(0) \/ i \in Half(1)
  BY <1>2 DEF Half
<1>4. \A i \in Irqs : ~(i \in Half(0) /\ i \in Half(1))
  BY <1>2 DEF Half
<1>5. Half(0) \cup Half(1) = Irqs /\ Half(0) \cap Half(1) = {}
  BY <1>3, <1>4
<1> QED
  BY <1>2, <1>3, <1>5

LEMMA ByteInBits == \A s, n : Byte(s, n) \subseteq Bits
  BY DEF Byte, Bits, Half

LEMMA WordInHalf == \A b, n : Word(b, n) \subseteq Half(n)
  BY DEF Word

LEMMA WordOfByte ==
  ASSUME NEW s, NEW n \in {0, 1}
  PROVE  Word(Byte(s, n), n) = s \cap Half(n)
<1>1. ASSUME NEW i \in Half(n), i % 8 \in Byte(s, n) PROVE i \in s
  <2>1. PICK j \in s \cap Half(n) : i % 8 = j % 8
    BY <1>1 DEF Byte
  <2>2. i \in Irqs /\ j \in Irqs /\ i \div 8 = j \div 8
    BY <2>1 DEF Half
  <2>3. i = j
    BY <2>1, <2>2, Halves
  <2> QED
    BY <2>1, <2>3
<1>2. ASSUME NEW i \in s \cap Half(n) PROVE i % 8 \in Byte(s, n)
  BY DEF Byte
<1> QED
  BY <1>1, <1>2 DEF Word

(***************************************************************************)
(* The steps.                                                              *)
(***************************************************************************)

LEMMA InitInv == Init => IrqInv
<1> SUFFICES ASSUME Init PROVE IrqInv
  OBVIOUS
<1>1. PICK m \in Masks, b \in SUBSET Irqs : chip = [sts |-> b, msk |-> m]
  BY DEF Init
<1>2. Shapes
  BY <1>1 DEF Init, Shapes, Steps
<1>3. TypeOK
  BY <1>1 DEF Init, TypeOK, Ready
<1> QED
  BY <1>2, <1>3 DEF Init, IrqInv, ActiveLow, Clearing, NoneCleared, CalledOwedAgain

\* A transfer that reads, and one that clears.
LEMMA ReadByte ==
  ASSUME IrqInv, NEW s, NEW n, i2c_read(s, n)
  PROVE  reg' \subseteq Bits /\ (quiet' => reg' = Byte(s, n) /\ quiet) /\ quiet' \in BOOLEAN
<1>1. CASE reg' = Byte(s, n) /\ UNCHANGED <<faults, quiet>>
  <2>1. reg' \subseteq Bits
    BY <1>1, ByteInBits
  <2> QED
    BY <1>1, <2>1, Zenon DEF IrqInv, Shapes
<1>2. CASE quiet' = FALSE /\ reg' \in IF at \in {"clear1", "sts1"} THEN SUBSET Bits ELSE {reg}
  BY <1>2 DEF IrqInv, TypeOK
<1> QED
  BY <1>1, <1>2 DEF i2c_read

LEMMA ClearBits ==
  ASSUME IrqInv, NEW b, NEW n, i2c_clear(b, n)
  PROVE  /\ chip' \in [sts : SUBSET Irqs, msk : Masks]
         /\ chip'.sts \in {chip.sts, chip.sts \ Word(b, n)} /\ chip'.msk = chip.msk
         /\ (quiet' => chip'.sts = chip.sts \ Word(b, n) /\ quiet) /\ quiet' \in BOOLEAN
<1>1. CASE chip' = [chip EXCEPT !.sts = @ \ Word(b, n)] /\ UNCHANGED <<faults, quiet>>
  <2>1. /\ chip' \in [sts : SUBSET Irqs, msk : Masks]
        /\ chip'.sts = chip.sts \ Word(b, n) /\ chip'.msk = chip.msk
    BY <1>1 DEF IrqInv, Shapes
  <2> QED
    BY <1>1, <2>1, Zenon DEF IrqInv, Shapes
<1>2. CASE quiet' = FALSE /\ UNCHANGED chip
  BY <1>2 DEF IrqInv, Shapes
<1> QED
  BY <1>1, <1>2 DEF i2c_clear

LEMMA ClearUnattendedInv == IrqInv /\ ClearUnattended => IrqInv'
<1> SUFFICES ASSUME IrqInv, ClearUnattended PROVE IrqInv'
  OBVIOUS
<1> USE DEF ClearUnattended, Clear, locals
<1>1. /\ UNCHANGED <<irq_sts, irq_mask, todo, type, mask, lock, enabled, owed, again>>
      /\ ~Ready /\ ~Ready' /\ owed = {} /\ type = "none"
  BY DEF IrqInv, TypeOK, Ready, Clearing
<1>2. CASE at = "clear1" /\ i2c_read(chip.sts, 0) /\ at' = "write1" /\ UNCHANGED chip
  BY <1>1, <1>2, ReadByte DEF IrqInv, TypeOK, Shapes, ActiveLow, Clearing, NoneCleared, CalledOwedAgain, Steps
<1>3. CASE at = "write1" /\ i2c_clear(reg, 0) /\ at' = "clear2" /\ UNCHANGED reg
  <2>1. quiet' => chip'.sts \cap Half(0) = {}
    BY <1>3, ClearBits, WordOfByte DEF IrqInv, Clearing
  <2> QED
    BY <1>1, <1>3, <2>1, ClearBits DEF IrqInv, TypeOK, Shapes, ActiveLow, Clearing, NoneCleared, CalledOwedAgain, Steps
<1>4. CASE at = "clear2" /\ i2c_read(chip.sts, 1) /\ at' = "write2" /\ UNCHANGED chip
  BY <1>1, <1>4, ReadByte DEF IrqInv, TypeOK, Shapes, ActiveLow, Clearing, NoneCleared, CalledOwedAgain, Steps
<1>5. CASE at = "write2" /\ i2c_clear(reg, 1) /\ at' = "gpio" /\ UNCHANGED reg
  <2>1. quiet' => chip'.sts = {}
    BY <1>5, ClearBits, WordOfByte, Halves DEF IrqInv, Clearing, Shapes
  <2> QED
    BY <1>1, <1>5, <2>1, ClearBits DEF IrqInv, TypeOK, Shapes, ActiveLow, Clearing, NoneCleared, CalledOwedAgain, Steps
<1> QED
  BY <1>2, <1>3, <1>4, <1>5

LEMMA ReadPinInv == IrqInv /\ ReadPin => IrqInv'
<1> SUFFICES ASSUME IrqInv, ReadPin PROVE IrqInv'
  OBVIOUS
<1>1. quiet' => quiet /\ chip.sts = {} /\ type' = "low" /\ at' = "request"
  BY DEF IrqInv, Clearing, ReadPin, LineLow, Fault, Shapes
<1>2. quiet' \in BOOLEAN
  BY Zenon DEF IrqInv, Shapes, ReadPin
<1>3. /\ UNCHANGED <<chip, reg, irq_sts, irq_mask, todo, lock, enabled, owed, again>> /\ mask' = 0..23
      /\ type' \in {"none", "low", "high"} /\ at' \in {"request", "none"} /\ at = "gpio"
  BY DEF IrqInv, TypeOK, ReadPin, locals
<1>4. TypeOK' /\ Shapes'
  BY <1>2, <1>3 DEF IrqInv, TypeOK, Shapes, Ready, Steps
<1> QED
  BY <1>1, <1>3, <1>4 DEF IrqInv, ActiveLow, Clearing, NoneCleared, CalledOwedAgain

LEMMA RequestLineInv == IrqInv /\ RequestLine => IrqInv'
<1> SUFFICES ASSUME IrqInv, RequestLine PROVE IrqInv'
  OBVIOUS
<1>0. quiet \in BOOLEAN /\ (UNCHANGED quiet \/ quiet' = FALSE)
  BY DEF IrqInv, Shapes, RequestLine
<1>1. quiet' \in BOOLEAN /\ (quiet' => quiet)
  <2>1. CASE UNCHANGED quiet
    BY <1>0, <2>1, Zenon
  <2>2. CASE quiet' = FALSE
    BY <2>2
  <2> QED
    BY <1>0, <2>1, <2>2
<1>2. /\ UNCHANGED <<chip, reg, irq_sts, irq_mask, todo, type, mask, lock, enabled, owed, again>>
      /\ at = "request" /\ at' \in {"idle", "none"}
  BY DEF RequestLine, locals
<1> QED
  BY <1>1, <1>2 DEF IrqInv, TypeOK, Shapes, ActiveLow, Clearing, NoneCleared, CalledOwedAgain, Ready, Steps

LEMMA TriggerInv == IrqInv /\ Trigger => IrqInv'
  BY DEF IrqInv, TypeOK, Shapes, ActiveLow, Clearing, NoneCleared, CalledOwedAgain, Trigger, Ready, Steps, locals, ghosts

LEMMA ReadInv == IrqInv /\ Read => IrqInv'
<1> SUFFICES ASSUME IrqInv, Read PROVE IrqInv'
  OBVIOUS
<1>1. /\ UNCHANGED <<chip, todo, type, mask, lock, enabled, owed, again>> /\ at \in {"sts1", "sts2", "msk1", "msk2"}
      /\ at' \in {"sts2", "msk1", "msk2", "which"} /\ reg' \subseteq Bits /\ (quiet' => quiet) /\ quiet' \in BOOLEAN
  BY ReadByte DEF Read
<1>2. irq_sts' \subseteq Irqs
  BY WordInHalf, Halves DEF Read, IrqInv, Shapes
<1>3. todo = {}
  BY <1>1 DEF IrqInv, Shapes
<1> QED
  BY <1>1, <1>2, <1>3
  DEF IrqInv, TypeOK, Shapes, ActiveLow, Clearing, NoneCleared, CalledOwedAgain, Ready, Steps

LEMMA WhichInv == IrqInv /\ Which => IrqInv'
  BY DEF IrqInv, TypeOK, Shapes, ActiveLow, Clearing, NoneCleared, CalledOwedAgain, Which, Ready, Steps, ghosts

LEMMA NestedInv == IrqInv /\ Nested => IrqInv'
<1> SUFFICES ASSUME IrqInv, Nested PROVE IrqInv'
  OBVIOUS
<1>1. PICK i : /\ todo' = todo \ {i}
               /\ owed' = IF i \in enabled THEN owed \ {i} ELSE owed
               /\ again' = IF i \in enabled THEN again \ {i} ELSE again
  BY DEF Nested
<1>2. i \notin owed'
  BY <1>1 DEF IrqInv, TypeOK
<1>3. /\ at = "handle" /\ UNCHANGED <<chip, at, reg, irq_sts, irq_mask, type, mask, lock, enabled, quiet>>
  BY DEF Nested
<1>4. TypeOK' /\ Shapes'
  BY <1>1, <1>3 DEF IrqInv, TypeOK, Shapes, Ready
<1> QED
  BY <1>1, <1>2, <1>3, <1>4 DEF IrqInv, ActiveLow, Clearing, NoneCleared, CalledOwedAgain

LEMMA AckInv == IrqInv /\ Ack => IrqInv'
<1> SUFFICES ASSUME IrqInv, Ack PROVE IrqInv'
  OBVIOUS
<1>1. /\ UNCHANGED <<irq_sts, irq_mask, todo, type, mask, lock, enabled, owed, again>> /\ todo = {}
  BY DEF Ack, locals, IrqInv, Shapes
<1>2. CASE at = "handle" /\ todo = {} /\ i2c_clear(Byte(irq_sts, 0), 0) /\ reg' = Byte(irq_sts, 0) /\ at' = "ack2"
  <2>1. /\ chip'.sts \in {chip.sts, chip.sts \ (irq_sts \cap Half(0))} /\ chip'.msk = chip.msk
        /\ chip' \in [sts : SUBSET Irqs, msk : Masks] /\ (quiet' => quiet) /\ quiet' \in BOOLEAN
    BY <1>2, ClearBits, WordOfByte
  <2>2. NoneCleared'
    BY <1>1, <1>2, <2>1 DEF IrqInv, NoneCleared, CalledOwedAgain
  <2>3. CalledOwedAgain' /\ ActiveLow'
    BY <1>1, <1>2, <2>1 DEF IrqInv, CalledOwedAgain, ActiveLow
  <2> QED
    BY <1>1, <1>2, <2>1, <2>2, <2>3, ByteInBits DEF IrqInv, TypeOK, Shapes, Clearing, Ready, Steps
<1>3. CASE at = "ack2" /\ i2c_clear(Byte(irq_sts, 1), 1) /\ reg' = Byte(irq_sts, 1) /\ at' = "idle"
  <2>1. /\ chip'.sts \in {chip.sts, chip.sts \ (irq_sts \cap Half(1))} /\ chip'.msk = chip.msk
        /\ chip' \in [sts : SUBSET Irqs, msk : Masks] /\ (quiet' => quiet) /\ quiet' \in BOOLEAN
    BY <1>3, ClearBits, WordOfByte
  <2>2. NoneCleared'
    BY <1>1, <1>3, <2>1 DEF IrqInv, NoneCleared, CalledOwedAgain
  <2>3. CalledOwedAgain' /\ ActiveLow'
    BY <1>1, <1>3, <2>1 DEF IrqInv, CalledOwedAgain, ActiveLow
  <2> QED
    BY <1>1, <1>3, <2>1, <2>2, <2>3, ByteInBits DEF IrqInv, TypeOK, Shapes, Clearing, Ready, Steps
<1> QED
  BY <1>2, <1>3 DEF Ack

LEMMA LockInv ==
  ASSUME IrqInv, NEW i \in Irqs, NEW what \in {"enable", "disable"}, irq_lock(i, what)
  PROVE  IrqInv'
  BY DEF IrqInv, TypeOK, Shapes, ActiveLow, Clearing, NoneCleared, CalledOwedAgain, irq_lock, Ready, Steps, locals, ghosts

LEMMA SyncInv == IrqInv /\ irq_sync_unlock => IrqInv'
  BY DEF IrqInv, TypeOK, Shapes, ActiveLow, Clearing, NoneCleared, CalledOwedAgain, irq_sync_unlock, Ready, Steps,
     locals, ghosts

LEMMA EnableInv == IrqInv /\ irq_enable => IrqInv'
<1> SUFFICES ASSUME IrqInv, irq_enable PROVE IrqInv'
  OBVIOUS
<1>1. lock[1] \in Irqs /\ Ready
  BY DEF IrqInv, Shapes, TypeOK, irq_enable, Free
<1> QED
  BY <1>1 DEF IrqInv, TypeOK, Shapes, ActiveLow, Clearing, NoneCleared, CalledOwedAgain, irq_enable, Ready, Steps,
     locals, ghosts

LEMMA DisableInv == IrqInv /\ irq_disable => IrqInv'
<1> SUFFICES ASSUME IrqInv, irq_disable PROVE IrqInv'
  OBVIOUS
<1>1. lock[1] \in Irqs /\ Ready
  BY DEF IrqInv, Shapes, TypeOK, irq_disable, Free
<1>2. irq_to_rk818_irq(lock[1]) \in 0..31
  <2>1. lock[1] \in 0..15 /\ Shift \in 0..16
    BY <1>1, Numbers
  <2> QED
    BY <2>1 DEF irq_to_rk818_irq
<1> QED
  BY <1>1, <1>2 DEF IrqInv, TypeOK, Shapes, ActiveLow, Clearing, NoneCleared, CalledOwedAgain, irq_disable, Ready,
     Steps, locals

LEMMA FireInv == ASSUME IrqInv, NEW i \in Irqs, Fire(i) PROVE IrqInv'
<1>1. /\ chip' = [chip EXCEPT !.sts = @ \cup {i}] /\ quiet' = FALSE
      /\ UNCHANGED <<at, reg, irq_sts, irq_mask, todo, type, mask, lock, enabled>>
  BY DEF Fire, locals
<1>2. chip'.sts = chip.sts \cup {i} /\ chip'.msk = chip.msk /\ chip' \in [sts : SUBSET Irqs, msk : Masks]
  BY <1>1 DEF IrqInv, Shapes
<1>3. TypeOK' /\ Shapes'
  BY <1>1, <1>2 DEF IrqInv, TypeOK, Shapes, Fire, Ready, Called
<1>4. NoneCleared' /\ CalledOwedAgain'
  BY <1>1, <1>2 DEF IrqInv, NoneCleared, CalledOwedAgain, Fire, Called
<1> QED
  BY <1>1, <1>3, <1>4 DEF IrqInv, ActiveLow, Clearing

LEMMA StepInv == IrqInv /\ [Next]_vars => IrqInv'
<1> SUFFICES ASSUME IrqInv, [Next]_vars PROVE IrqInv'
  OBVIOUS
<1>1. CASE UNCHANGED vars
  BY <1>1 DEF IrqInv, TypeOK, Shapes, ActiveLow, Clearing, NoneCleared, CalledOwedAgain, Ready, vars
<1>2. CASE rk818_irq_init
  BY <1>2, ClearUnattendedInv, ReadPinInv, RequestLineInv DEF rk818_irq_init
<1>3. CASE rk818_irq
  BY <1>3, TriggerInv, ReadInv, WhichInv, NestedInv, AckInv DEF rk818_irq
<1> QED
  BY <1>1, <1>2, <1>3, EnableInv, DisableInv, SyncInv, LockInv, FireInv DEF Next

(***************************************************************************)
(* The theorems.                                                           *)
(***************************************************************************)

\* The two words, the byte and the trigger keep their ranges, and no driver is
\* called before rk818_irq_init is through.
THEOREM TypeCorrect == Spec => []TypeOK
<1>1. IrqInv => TypeOK
  BY DEF IrqInv
<1> QED
  BY <1>1, InitInv, StepInv, PTL DEF Spec

\* Undisturbed, rk818_irq_init finds the polarity of the line, whatever was
\* pending before it.
THEOREM PolarityFound == Spec => []ActiveLow
<1>1. IrqInv => ActiveLow
  BY DEF IrqInv
<1> QED
  BY <1>1, InitInv, StepInv, PTL DEF Spec

\* rk818_irq clears no interrupt whose driver was not called since it fired,
\* but for those that fire again before they are cleared.
THEOREM NothingLost == Spec => []NoneCleared
<1>1. IrqInv => NoneCleared
  BY DEF IrqInv
<1> QED
  BY <1>1, InitInv, StepInv, PTL DEF Spec
=============================================================================
