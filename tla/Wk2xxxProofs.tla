---------------------------- MODULE Wk2xxxProofs ----------------------------
(***************************************************************************)
(* Proofs about Wk2xxx: the types, that the mutex makes the transfers of   *)
(* any number of ports exclusive, that txbuf never overflows, that         *)
(* characters stay in order, and that a port on its own loses none.        *)
(***************************************************************************)
EXTENDS Wk2xxx, TLAPS, SequenceTheorems

(***************************************************************************)
(* Exclusion.                                                              *)
(***************************************************************************)

\* Whoever transfers owns the mutex.
OwnerTransfers == \A p \in Ports : acc[p] = "xfer" => lock = p

\* No work item runs while wk2xxx_probe tests the chip.
QuietProbe ==
  drv = "probe" => \A p \in Ports : /\ port[p] = "absent" /\ ~queued[p]
                                    /\ pc[p] = "idle" /\ acc[p] = "call"

LockInv ==
  /\ drv \in {"probe", "ports", "up", "down", "failed", "stuck"}
  /\ acc \in [Ports -> {"call", "xfer", "high"}]
  /\ OwnerTransfers /\ QuietProbe

\* What a step does to the mutex and to the accesses: nobody takes the mutex
\* while another port transfers.
LEMMA LockInductive == LockInv /\ [Next]_vars => LockInv'
<1> SUFFICES ASSUME LockInv, [Next]_vars PROVE LockInv'
  OBVIOUS
<1> USE DEF LockInv, OwnerTransfers, QuietProbe
<1>1. CASE ProbeTest
  BY <1>1 DEF ProbeTest
<1>2. CASE UNCHANGED vars
  BY <1>2 DEF vars, work, life
<1>3. ASSUME NEW p \in Ports, wk2xxx_probe(p) \/ wk2xxx_remove(p) PROVE LockInv'
  BY <1>3 DEF wk2xxx_probe, wk2xxx_remove, work
<1>4. ASSUME NEW p \in Ports, Begin(p) PROVE LockInv'
  <2>1. \A q \in Ports : acc[q] # "xfer"
    BY <1>4, WkAssumption DEF Begin, CanLock, None
  <2>2. drv' # "probe"
    BY <1>4 DEF Begin, life
  <2> QED
    BY <2>1, <2>2, <1>4 DEF Begin, life
<1>5. ASSUME NEW p \in Ports, Finish(p) PROVE LockInv'
  <2>1. \A q \in Ports : acc[q] = "xfer" => q = p
    BY <1>5 DEF Finish
  <2>2. drv' # "probe"
    BY <1>5 DEF Finish, life
  <2> QED
    BY <2>1, <2>2, <1>5 DEF Finish, life
<1>6. ASSUME NEW p \in Ports, Return(p) \/ SpiError(p) PROVE LockInv'
  BY <1>6 DEF Return, SpiError, life
<1>7. ASSUME NEW p \in Ports, StartWork(p) PROVE LockInv'
  BY <1>7 DEF StartWork, life
<1>8. ASSUME NEW p \in Ports, Write(p) \/ SendXChar(p) \/ TtyStart(p) PROVE LockInv'
  <2>1. drv # "probe" /\ UNCHANGED <<drv, acc, lock>>
    BY <1>8 DEF Write, SendXChar, TtyStart, Usable, life, work
  <2> QED
    BY <2>1
<1>9. ASSUME NEW p \in Ports, TtyStop(p) \/ Drain(p) PROVE LockInv'
  BY <1>9 DEF TtyStop, Drain, work, life
<1> QED
  BY <1>1, <1>2, <1>3, <1>4, <1>5, <1>6, <1>7, <1>8, <1>9 DEF Next

\* wk2xxx_read_reg and wk2xxx_write_reg of all ports: two transfers never
\* overlap, whatever fails.
THEOREM TransfersExclusive == Spec => []Exclusive
<1>1. Init => LockInv
  BY DEF Init, LockInv, OwnerTransfers, QuietProbe
<1>2. LockInv => Exclusive
  BY DEF LockInv, OwnerTransfers, Exclusive
<1> QED
  BY <1>1, <1>2, LockInductive, PTL DEF Spec

(***************************************************************************)
(* Types.                                                                  *)
(***************************************************************************)

\* wk2xxx_tx_chars is at a write of FDAT only when it has a character.
HasChar == \A p \in Ports : pc[p] = "fdat" => txbuf[p] # <<>>
TypeInv == TypeOK /\ HasChar

\* Zero is a register's value.
LEMMA ZeroType == 0 \in 0..(Depth - 1)
BY WkAssumption

\* Setting a bit of a register leaves a register.
LEMMA SetBitType == \A d \in 0..(Depth - 1) : SetBit(d) \in 0..(Depth - 1)
BY WkAssumption DEF SetBit

\* wk2xxx_tx_chars takes no more than the ring holds.
LEMMA TakenType ==
  ASSUME TypeOK, NEW p \in Ports, NEW d \in 0..(Depth - 1)
  PROVE  Taken(p, d) \in 0..Len(xmit[p])
<1>1. xmit[p] \in Seq(Nat) /\ full[p] \in BOOLEAN
  BY DEF TypeOK, CoreTypes, WorkTypes
<1>2. Len(xmit[p]) \in Nat /\ Room(p, d) \in Int
  BY <1>1, WkAssumption DEF Room
<1> QED
  BY <1>2 DEF Taken

\* The two parts of a sequence that is cut after n.
LEMMA SplitTypes ==
  ASSUME NEW q \in Seq(Nat), NEW n \in 0..Len(q)
  PROVE  /\ SubSeq(q, 1, n) \in Seq(Nat) /\ SubSeq(q, n + 1, Len(q)) \in Seq(Nat)
         /\ Len(SubSeq(q, 1, n)) = n
<1>1. Len(q) \in Nat /\ n \in Int /\ n + 1 \in Int /\ Len(q) \in Int /\ n >= 0
  OBVIOUS
<1>2. \A i \in 1..Len(q) : q[i] \in Nat
  BY ElementOfSeq
<1>3. \A i \in 1..n : q[i] \in Nat
  BY <1>1, <1>2
<1>4. \A i \in (n + 1)..Len(q) : q[i] \in Nat
  BY <1>1, <1>2
<1>5. SubSeq(q, 1, n) \in Seq(Nat) /\ Len(SubSeq(q, 1, n)) = IF 1 <= n THEN n - 1 + 1 ELSE 0
  BY <1>1, <1>3, SubSeqProperties
<1>6. SubSeq(q, n + 1, Len(q)) \in Seq(Nat)
  BY <1>1, <1>4, SubSeqProperties
<1> QED
  BY <1>1, <1>5, <1>6

\* Between two accesses, the locals and the ring keep their types.
LEMMA AfterTypes ==
  ASSUME TypeInv, NEW p \in Ports, NEW d \in 0..(Depth - 1), After(p, d)
  PROVE  /\ pc' \in [Ports -> Labels]
         /\ val' \in [Ports -> 0..(Depth - 1)] /\ val_bak' \in [Ports -> 0..(Depth - 1)]
         /\ again' \in [Ports -> BOOLEAN] /\ full' \in [Ports -> BOOLEAN]
         /\ txbuf' \in [Ports -> Seq(Nat)] /\ xmit' \in [Ports -> Seq(Nat)]
         /\ x_char' \in [Ports -> BOOLEAN] /\ stopped' \in [Ports -> BOOLEAN]
         /\ HasChar'
<1> USE DEF TypeInv, TypeOK, WorkTypes, CoreTypes, Go, Set, Labels, Reads, Writes
<1>1. CASE pc[p] \in DOMAIN Straight /\ Go(p, Straight[pc[p]]) /\ UNCHANGED <<local, core>>
  BY <1>1 DEF Straight, local, core, HasChar
<1>2. CASE EnableTx(p, d) /\ UNCHANGED <<again, full, txbuf, core>>
  <2>1. PICK v \in 0..(Depth - 1), b \in 0..(Depth - 1), l \in {"gena", "config"} :
          val' = [val EXCEPT ![p] = v] /\ pc' = [pc EXCEPT ![p] = l]
            /\ (val_bak' = [val_bak EXCEPT ![p] = b] \/ UNCHANGED val_bak)
    <3>1. CASE pc[p] = "sier_r"
      BY <1>2, <3>1, SetBitType DEF EnableTx
    <3>2. CASE pc[p] = "sier_c"
      BY <1>2, <3>2, ZeroType DEF EnableTx
    <3> QED
      BY <1>2, <3>1, <3>2 DEF EnableTx
  <2>2. UNCHANGED <<again, full, txbuf, xmit, x_char, stopped>>
    BY <1>2 DEF core
  <2>3. HasChar'
    BY <2>1, <2>2 DEF HasChar
  <2>4. val_bak' \in [Ports -> 0..(Depth - 1)]
    BY <2>1
  <2> QED
    BY <2>1, <2>2, <2>3, <2>4
<1>3. CASE /\ pc[p] = "sifr" /\ again' = Set(again, p, d # 0) /\ Go(p, "page")
           /\ UNCHANGED <<val, val_bak, full, txbuf, core>>
  BY <1>3 DEF core, HasChar
<1>4. CASE TxTests(p) /\ UNCHANGED <<local, core>>
  BY <1>4 DEF TxTests, local, core, HasChar
<1>5. CASE /\ pc[p] = "xchar" /\ x_char' = Set(x_char, p, FALSE) /\ Go(p, "out")
           /\ UNCHANGED <<local, xmit, stopped>>
  BY <1>5 DEF local, HasChar
<1>6. CASE /\ pc[p] = "fsr" /\ full' = Set(full, p, d # 0) /\ Go(p, "tfcnt")
           /\ UNCHANGED <<val, val_bak, again, txbuf, core>>
  BY <1>6 DEF core, HasChar
<1>7. CASE TakeChars(p, d) /\ UNCHANGED <<val, val_bak, again, x_char, stopped>>
  <2> DEFINE n == Taken(p, d)
             s == SubSeq(xmit[p], 1, n)
             t == SubSeq(xmit[p], n + 1, Len(xmit[p]))
  <2>1. n \in 0..Len(xmit[p]) /\ xmit[p] \in Seq(Nat)
    BY TakenType
  <2>2. s \in Seq(Nat) /\ t \in Seq(Nat) /\ Len(s) = n
    BY <2>1, SplitTypes
  <2>3. n # 0 => s # <<>>
    BY <2>2
  <2>4. /\ txbuf' = [txbuf EXCEPT ![p] = s] /\ xmit' = [xmit EXCEPT ![p] = t]
        /\ pc' = [pc EXCEPT ![p] = IF n = 0 THEN "out" ELSE "fdat"]
        /\ full' = [full EXCEPT ![p] = FALSE]
    BY <1>7 DEF TakeChars
  <2> HIDE DEF n, s, t
  <2> QED
    BY <1>7, <2>2, <2>3, <2>4 DEF HasChar
<1>8. CASE /\ pc[p] = "fdat" /\ txbuf' = Set(txbuf, p, Tail(txbuf[p]))
           /\ Go(p, IF Len(txbuf[p]) = 1 THEN "out" ELSE "fdat")
           /\ UNCHANGED <<val, val_bak, again, full, core>>
  <2>1. txbuf[p] \in Seq(Nat) /\ txbuf[p] # <<>>
    BY <1>8 DEF HasChar
  <2>2. Tail(txbuf[p]) \in Seq(Nat) /\ Len(Tail(txbuf[p])) = Len(txbuf[p]) - 1
    BY <2>1
  <2>3. Len(txbuf[p]) # 1 => Tail(txbuf[p]) # <<>>
    <3>1. Len(txbuf[p]) \in Nat
      BY <2>1
    <3>2. Tail(txbuf[p]) = <<>> => Len(Tail(txbuf[p])) = 0
      BY EmptySeq
    <3> QED
      BY <3>1, <3>2, <2>2
  <2> QED
    BY <1>8, <2>2, <2>3 DEF core, HasChar
<1>9. CASE /\ pc[p] = "out" /\ Go(p, IF again[p] THEN "page" ELSE "last")
           /\ UNCHANGED <<local, core>>
  BY <1>9 DEF local, core, HasChar
<1>10. CASE /\ pc[p] = "last" /\ Go(p, "idle")
            /\ again' = Set(again, p, FALSE)
            /\ UNCHANGED <<val, val_bak, full, txbuf, core>>
  BY <1>10 DEF core, HasChar
<1> QED
  BY <1>1, <1>2, <1>3, <1>4, <1>5, <1>6, <1>7, <1>8, <1>9, <1>10 DEF After

\* What a transfer does to the chip keeps the FIFO within its size.
LEMMA EffectTypes ==
  ASSUME TypeInv, NEW p \in Ports, Effect(p)
  PROVE  /\ sier' \in [Ports -> 0..(Depth - 1)] /\ fifo' \in [Ports -> Seq(Nat)]
         /\ \A q \in Ports : Len(fifo'[q]) <= Depth
<1> USE DEF TypeInv, TypeOK, WorkTypes, ChipTypes
<1>1. sier' \in [Ports -> 0..(Depth - 1)]
  BY DEF Effect
<1>2. ASSUME NEW c \in Nat
      PROVE  Push(p, c) \in [Ports -> Seq(Nat)] /\ \A q \in Ports : Len(Push(p, c)[q]) <= Depth
  <2>1. CASE FifoFull(p)
    BY <2>1 DEF Push
  <2>2. CASE ~FifoFull(p)
    <3>1. fifo[p] \in Seq(Nat) /\ Len(fifo[p]) <= Depth
      OBVIOUS
    <3>2. Len(fifo[p]) \in Nat
      BY <3>1
    <3>3. Len(fifo[p]) < Depth
      BY <2>2, <3>1, <3>2, WkAssumption DEF FifoFull
    <3> DEFINE a == Append(fifo[p], c)
    <3>4. a \in Seq(Nat) /\ Len(a) = Len(fifo[p]) + 1
      BY <3>1
    <3>5. Len(a) <= Depth
      BY <3>2, <3>3, <3>4, WkAssumption
    <3>6. Push(p, c) = [fifo EXCEPT ![p] = a]
      BY <2>2 DEF Push
    <3> HIDE DEF a
    <3> QED
      BY <3>4, <3>5, <3>6
  <2> QED
    BY <2>1, <2>2
<1>3. ASSUME pc[p] = "fdat" PROVE Head(txbuf[p]) \in Nat
  <2>1. txbuf[p] \in Seq(Nat) /\ txbuf[p] # <<>>
    BY <1>3 DEF HasChar
  <2> QED
    BY <2>1, HeadTailProperties
<1>4. XChar \in Nat
  BY DEF XChar
<1> QED
  BY <1>1, <1>2, <1>3, <1>4 DEF Effect

\* What a user writes is a sequence of characters.
LEMMA NewCharsType == \A w \in Nat, k \in Nat : [i \in 1..k |-> w + i] \in Seq(Nat)
<1> SUFFICES ASSUME NEW w \in Nat, NEW k \in Nat PROVE [i \in 1..k |-> w + i] \in Seq(Nat)
  OBVIOUS
<1>1. \A i \in 1..k : w + i \in Nat
  OBVIOUS
<1>2. [i \in 1..k |-> w + i] \in [1..k -> Nat]
  BY <1>1
<1> QED
  BY <1>2, SeqDef

\* TFCNT is a register.
LEMMA ModType == \A n \in Nat : n % Depth \in 0..(Depth - 1)
BY WkAssumption

\* wk2xxx_start_tx only marks the work item.
LEMMA StartTxTypes ==
  ASSUME TypeInv, NEW p \in Ports, wk2xxx_start_tx(p)
  PROVE  queued' \in [Ports -> BOOLEAN]
BY DEF TypeInv, TypeOK, CoreTypes, wk2xxx_start_tx

\* Every step keeps the types.
LEMMA TypeInductive == TypeInv /\ [Next]_vars => TypeInv'
<1> SUFFICES ASSUME TypeInv, [Next]_vars PROVE TypeInv'
  OBVIOUS
<1> USE DEF TypeInv, TypeOK, LifeTypes, WorkTypes, CoreTypes, ChipTypes
<1>1. CASE ProbeTest
  BY <1>1 DEF ProbeTest, local, core, chip, users, HasChar
<1>2. CASE UNCHANGED vars
  BY <1>2 DEF vars, life, work, local, core, chip, users, HasChar
<1>3. ASSUME NEW p \in Ports, wk2xxx_probe(p) \/ wk2xxx_remove(p) PROVE TypeInv'
  BY <1>3 DEF wk2xxx_probe, wk2xxx_remove, work, local, core, chip, users, HasChar
<1>4. ASSUME NEW p \in Ports, Begin(p) PROVE TypeInv'
  BY <1>4 DEF Begin, life, local, core, chip, users, HasChar
<1>5. ASSUME NEW p \in Ports, Finish(p) PROVE TypeInv'
  <2>1. /\ sier' \in [Ports -> 0..(Depth - 1)] /\ fifo' \in [Ports -> Seq(Nat)]
        /\ \A q \in Ports : Len(fifo'[q]) <= Depth
    <3>1. CASE Effect(p)
      BY <3>1, EffectTypes
    <3>2. CASE UNCHANGED <<sier, fifo>>
      BY <3>2
    <3> QED
      BY <1>5, <3>1, <3>2 DEF Finish
  <2>2. data' \in [Ports -> 0..(Depth - 1)]
    <3>1. Answers(p) \subseteq 0..(Depth - 1)
      <4>1. sier[p] \in 0..(Depth - 1) /\ Len(fifo[p]) \in Nat
        OBVIOUS
      <4>2. Len(fifo[p]) % Depth \in 0..(Depth - 1)
        BY <4>1, ModType
      <4>3. 0 \in 0..(Depth - 1) /\ 1 \in 0..(Depth - 1)
        BY WkAssumption
      <4> QED
        BY <4>1, <4>2, <4>3 DEF Answers
    <3> QED
      BY <1>5, <3>1 DEF Finish
  <2> QED
    BY <1>5, <2>1, <2>2 DEF Finish, life, local, core, users, HasChar
<1>6. ASSUME NEW p \in Ports, Return(p) PROVE TypeInv'
  <2>1. data[p] \in 0..(Depth - 1) /\ After(p, data[p])
    BY <1>6 DEF Return
  <2>2. hit' \in [Ports -> BOOLEAN]
    BY <1>6 DEF Return, Deselect
  <2>3. acc' \in [Ports -> {"call", "xfer", "high"}] /\ data' \in [Ports -> 0..(Depth - 1)]
    BY <1>6, ZeroType DEF Return
  <2>4. UNCHANGED <<drv, port, lock, queued, sier, fifo, wire, written, xsent, stops>>
    BY <1>6 DEF Return, life, chip, users
  <2> QED
    BY <2>1, <2>2, <2>3, <2>4, AfterTypes
<1>7. ASSUME NEW p \in Ports, SpiError(p) PROVE TypeInv'
  <2>1. PICK d \in 0..(Depth - 1) : After(p, d)
    BY <1>7 DEF SpiError
  <2>2. acc' \in [Ports -> {"call", "xfer", "high"}]
    BY <1>7 DEF SpiError
  <2>3. UNCHANGED <<drv, port, lock, hit, data, queued, sier, fifo, wire, written, xsent,
                    stops>>
    BY <1>7 DEF SpiError, life, chip, users
  <2> QED
    BY <2>1, <2>2, <2>3, AfterTypes
<1>8. ASSUME NEW p \in Ports, StartWork(p) PROVE TypeInv'
  BY <1>8 DEF StartWork, Go, Labels, Reads, life, local, core, chip, users, HasChar
<1>9. ASSUME NEW p \in Ports, Write(p) PROVE TypeInv'
  <2>1. PICK k \in 1..(MaxChars[p] - written[p]) :
          /\ xmit' = [xmit EXCEPT ![p] = @ \o [i \in 1..k |-> written[p] + i]]
          /\ written' = [written EXCEPT ![p] = @ + k]
    BY <1>9 DEF Write
  <2> DEFINE new == [i \in 1..k |-> written[p] + i]
  <2>2. written[p] \in Nat /\ xmit[p] \in Seq(Nat) /\ k \in Nat
    BY WkAssumption
  <2>3. new \in Seq(Nat)
    BY <2>2, NewCharsType
  <2>4. xmit[p] \o new \in Seq(Nat) /\ xmit' = [xmit EXCEPT ![p] = xmit[p] \o new]
    BY <2>1, <2>2, <2>3, ConcatProperties
  <2>5. written' \in [Ports -> Nat]
    BY <2>1, <2>2
  <2>6. queued' \in [Ports -> BOOLEAN]
    BY <1>9, StartTxTypes DEF Write
  <2> HIDE DEF new
  <2> QED
    BY <1>9, <2>4, <2>5, <2>6 DEF Write, life, work, local, chip, HasChar
<1>10. ASSUME NEW p \in Ports, SendXChar(p) \/ TtyStart(p) PROVE TypeInv'
  <2>1. queued' \in [Ports -> BOOLEAN]
    BY <1>10, StartTxTypes DEF SendXChar, TtyStart
  <2>2. CASE SendXChar(p)
    <3>1. UNCHANGED <<drv, port, lock, pc, acc, hit, data, val, val_bak, again, full, txbuf, xmit,
                      stopped, sier, fifo, wire, written, stops>>
      BY <2>2 DEF SendXChar, life, work, local, chip
    <3>2. xsent' \in [Ports -> Nat] /\ x_char' \in [Ports -> BOOLEAN]
      BY <2>2 DEF SendXChar
    <3> QED
      BY <2>1, <3>1, <3>2 DEF HasChar
  <2>3. CASE TtyStart(p)
    <3>1. UNCHANGED <<drv, port, lock, pc, acc, hit, data, val, val_bak, again, full, txbuf, xmit,
                      x_char, sier, fifo, wire, written, xsent, stops>>
      BY <2>3 DEF TtyStart, life, work, local, chip, users
    <3>2. stopped' \in [Ports -> BOOLEAN]
      BY <2>3 DEF TtyStart
    <3> QED
      BY <2>1, <3>1, <3>2 DEF HasChar
  <2> QED
    BY <1>10, <2>2, <2>3
<1>11. ASSUME NEW p \in Ports, TtyStop(p) PROVE TypeInv'
  <2>1. UNCHANGED <<drv, port, lock, pc, acc, hit, data, val, val_bak, again, full, txbuf,
                    queued, xmit, x_char, sier, fifo, wire, written, xsent>>
    BY <1>11 DEF TtyStop, work, local, chip, life
  <2>2. stops' \in [Ports -> Nat] /\ stopped' \in [Ports -> BOOLEAN]
    BY <1>11 DEF TtyStop
  <2> QED
    BY <2>1, <2>2 DEF HasChar
<1>12. ASSUME NEW p \in Ports, Drain(p) PROVE TypeInv'
  <2>1. fifo[p] \in Seq(Nat) /\ fifo[p] # <<>> /\ wire[p] \in Seq(Nat) /\ Len(fifo[p]) <= Depth
    BY <1>12 DEF Drain
  <2> DEFINE t == Tail(fifo[p])
             w == Append(wire[p], Head(fifo[p]))
  <2>2. t \in Seq(Nat) /\ Len(t) = Len(fifo[p]) - 1 /\ Head(fifo[p]) \in Nat
    BY <2>1, HeadTailProperties
  <2>3. Len(fifo[p]) \in Nat /\ Len(t) <= Depth
    BY <2>1, <2>2, WkAssumption
  <2>4. w \in Seq(Nat)
    BY <2>1, <2>2
  <2>5. wire' = [wire EXCEPT ![p] = w] /\ fifo' = [fifo EXCEPT ![p] = t]
    BY <1>12 DEF Drain
  <2>6. UNCHANGED <<drv, port, lock, pc, acc, hit, data, val, val_bak, again, full, txbuf,
                    queued, xmit, x_char, stopped, sier, written, xsent, stops>>
    BY <1>12 DEF Drain, life, work, local, core, users
  <2> HIDE DEF t, w
  <2>7. /\ wire' \in [Ports -> Seq(Nat)] /\ fifo' \in [Ports -> Seq(Nat)]
        /\ \A q \in Ports : Len(fifo'[q]) <= Depth
    BY <2>2, <2>3, <2>4, <2>5
  <2> QED
    BY <2>6, <2>7 DEF HasChar
<1> QED
  BY <1>1, <1>2, <1>3, <1>4, <1>5, <1>6, <1>7, <1>8, <1>9, <1>10, <1>11, <1>12 DEF Next

\* Initially the types hold.
LEMMA TypeInit == Init => TypeInv
<1> SUFFICES ASSUME Init PROVE TypeInv
  OBVIOUS
<1>1. 0 \in 0..(Depth - 1) /\ <<>> \in Seq(Nat) /\ Len(<<>>) <= Depth
  BY WkAssumption, EmptySeq
<1>2. LifeTypes /\ CoreTypes /\ HasChar
  BY <1>1 DEF Init, LifeTypes, CoreTypes, HasChar
<1>3. WorkTypes
  BY <1>1 DEF Init, WorkTypes, Labels
<1>4. ChipTypes
  BY <1>1 DEF Init, ChipTypes
<1> QED
  BY <1>2, <1>3, <1>4 DEF TypeInv, TypeOK

\* The driver's state keeps its types and a FIFO its size, for any number of
\* ports and any FIFO: no FDAT write is attempted without a character.
THEOREM TypeCorrect == Spec => []TypeOK
<1>1. Init => TypeInv
  BY TypeInit
<1>2. TypeInv => TypeOK
  BY DEF TypeInv
<1> QED
  BY <1>1, <1>2, TypeInductive, PTL DEF Spec

(***************************************************************************)
(* The array txbuf.                                                        *)
(***************************************************************************)

\* At most 255 characters are taken, whatever was read.
LEMMA TakenFits ==
  ASSUME TypeOK, NEW p \in Ports, NEW d \in 0..(Depth - 1)
  PROVE  Taken(p, d) <= Depth - 1
<1>1. Room(p, d) \in Int /\ Room(p, d) <= Depth - 1 /\ Depth \in Nat /\ Depth >= 2
  BY WkAssumption DEF Room
<1>2. xmit[p] \in Seq(Nat)
  BY DEF TypeOK, CoreTypes
<1>3. Len(xmit[p]) \in Nat
  BY <1>2
<1> QED
  BY <1>1, <1>3 DEF Taken

\* Only the loop that fills txbuf makes it longer.
LEMMA AfterFits ==
  ASSUME TypeInv, TxbufFits, NEW p \in Ports, NEW d \in 0..(Depth - 1), After(p, d)
  PROVE  TxbufFits'
<1>1. CASE TakeChars(p, d)
  <2> DEFINE n == Taken(p, d)
             s == SubSeq(xmit[p], 1, n)
  <2>1. n \in 0..Len(xmit[p]) /\ n <= Depth - 1 /\ xmit[p] \in Seq(Nat)
    BY TakenType, TakenFits DEF TypeInv, TypeOK, CoreTypes
  <2>2. Len(s) = n
    <3> HIDE DEF n
    <3> QED
      BY <2>1, SubSeqProperties
  <2>3. txbuf' = [txbuf EXCEPT ![p] = s]
    BY <1>1 DEF TakeChars, Set
  <2> HIDE DEF n, s
  <2> QED
    BY <2>1, <2>2, <2>3 DEF TxbufFits, TypeInv, TypeOK, WorkTypes
<1>2. CASE pc[p] = "fdat" /\ txbuf' = Set(txbuf, p, Tail(txbuf[p]))
  <2> DEFINE t == Tail(txbuf[p])
  <2>1. txbuf[p] \in Seq(Nat) /\ txbuf[p] # <<>>
    BY <1>2 DEF TypeInv, TypeOK, WorkTypes, HasChar
  <2>2. Len(t) = Len(txbuf[p]) - 1 /\ Len(txbuf[p]) \in Nat
    BY <2>1, HeadTailProperties
  <2>3. Len(t) <= Depth - 1
    BY <2>2, WkAssumption DEF TxbufFits
  <2>4. txbuf' = [txbuf EXCEPT ![p] = t]
    BY <1>2 DEF Set
  <2> HIDE DEF t
  <2> QED
    BY <2>3, <2>4 DEF TxbufFits, TypeInv, TypeOK, WorkTypes
<1>3. CASE UNCHANGED txbuf
  BY <1>3 DEF TxbufFits
<1> QED
  BY <1>1, <1>2, <1>3 DEF After, local

\* Every step keeps txbuf within its array.
LEMMA FitsInductive == TypeInv /\ TxbufFits /\ [Next]_vars => TxbufFits'
<1> SUFFICES ASSUME TypeInv, TxbufFits, [Next]_vars PROVE TxbufFits'
  OBVIOUS
<1>1. ASSUME NEW p \in Ports, Return(p) PROVE TxbufFits'
  <2>1. data[p] \in 0..(Depth - 1) /\ After(p, data[p])
    BY <1>1 DEF Return, TypeInv, TypeOK, WorkTypes
  <2> QED
    BY <2>1, AfterFits
<1>2. ASSUME NEW p \in Ports, SpiError(p) PROVE TxbufFits'
  BY <1>2, AfterFits DEF SpiError
<1>3. CASE UNCHANGED txbuf
  BY <1>3 DEF TxbufFits
<1> QED
  BY <1>1, <1>2, <1>3 DEF Next, vars, local, ProbeTest, wk2xxx_probe, wk2xxx_remove, StartWork, Begin,
     Finish, Write, SendXChar, TtyStop, TtyStart, Drain

\* wk2xxx_tx_chars writes within txbuf[255], for any number of ports, any FIFO
\* and any value the chip, or a failed transfer, gives it.
THEOREM TxbufNeverOverflows == Spec => []TxbufFits
<1>1. Init => TxbufFits
  BY WkAssumption, EmptySeq DEF Init, TxbufFits
<1>2. Init => TypeInv
  BY TypeInit
<1> QED
  BY <1>1, <1>2, TypeInductive, FitsInductive, PTL DEF Spec

(***************************************************************************)
(* The order of the characters.                                            *)
(***************************************************************************)

\* No character of s is, or comes after, one of t.
Below(s, t) ==
  \A i \in 1..Len(s), j \in 1..Len(t) : s[i] # XChar /\ t[j] # XChar => s[i] < t[j]

\* Every character of s was written before the w-th.
UpTo(s, w) == \A i \in 1..Len(s) : s[i] <= w

\* The line a, the FIFO b, what wk2xxx_tx_chars holds c, and the ring d.
Ordered(a, b, c, d, w) ==
  /\ Rising(a) /\ Rising(b) /\ Rising(c) /\ Rising(d)
  /\ Below(a, b) /\ Below(a, c) /\ Below(a, d) /\ Below(b, c) /\ Below(b, d) /\ Below(c, d)
  /\ UpTo(a, w) /\ UpTo(b, w) /\ UpTo(c, w) /\ UpTo(d, w)

\* Each port holds its characters in order, and none that was not written.
PortOrdered(p) == Ordered(wire[p], fifo[p], Waiting(p), xmit[p], written[p])
OrderInv == \A p \in Ports : PortOrdered(p)

\* Two sequences in order, one after the other, are in order.
LEMMA ConcatOrder ==
  ASSUME NEW s \in Seq(Nat), NEW t \in Seq(Nat), Rising(s), Rising(t), Below(s, t)
  PROVE  s \o t \in Seq(Nat) /\ Rising(s \o t)
<1> DEFINE c == s \o t
<1>1. c \in Seq(Nat) /\ Len(c) = Len(s) + Len(t) /\ Len(s) \in Nat /\ Len(t) \in Nat
  BY ConcatProperties
<1>2. \A i \in 1..Len(c) : \/ i \in 1..Len(s) /\ c[i] = s[i]
                           \/ i > Len(s) /\ i - Len(s) \in 1..Len(t) /\ c[i] = t[i - Len(s)]
  <2>1. \A i \in 1..(Len(s) + Len(t)) : c[i] = IF i <= Len(s) THEN s[i] ELSE t[i - Len(s)]
    BY ConcatProperties
  <2> QED
    BY <1>1, <2>1
<1> HIDE DEF c
<1>3. ASSUME NEW i \in 1..Len(c), NEW j \in 1..Len(c), i < j, c[i] # XChar, c[j] # XChar
      PROVE  c[i] < c[j]
  <2>1. CASE i \in 1..Len(s) /\ c[i] = s[i] /\ j \in 1..Len(s) /\ c[j] = s[j]
    BY <1>3, <2>1 DEF Rising
  <2>2. CASE i \in 1..Len(s) /\ c[i] = s[i] /\ j - Len(s) \in 1..Len(t) /\ c[j] = t[j - Len(s)]
    BY <1>3, <2>2 DEF Below
  <2>3. CASE /\ i - Len(s) \in 1..Len(t) /\ c[i] = t[i - Len(s)]
             /\ j - Len(s) \in 1..Len(t) /\ c[j] = t[j - Len(s)]
    <3>1. i - Len(s) < j - Len(s)
      BY <1>1, <1>3
    <3> QED
      BY <1>3, <2>3, <3>1 DEF Rising
  <2>4. ~(i > Len(s) /\ j \in 1..Len(s))
    BY <1>1, <1>3
  <2> QED
    BY <1>2, <2>1, <2>2, <2>3, <2>4
<1> QED
  BY <1>1, <1>3 DEF Rising, c

\* What comes before, or after, both parts does so for the whole.
LEMMA ConcatBelow ==
  ASSUME NEW s \in Seq(Nat), NEW t \in Seq(Nat), NEW u \in Seq(Nat)
  PROVE  /\ Below(s, u) /\ Below(t, u) => Below(s \o t, u)
         /\ Below(u, s) /\ Below(u, t) => Below(u, s \o t)
         /\ \A w \in Nat : UpTo(s, w) /\ UpTo(t, w) => UpTo(s \o t, w)
<1> DEFINE c == s \o t
<1>1. c \in Seq(Nat) /\ Len(c) = Len(s) + Len(t) /\ Len(s) \in Nat /\ Len(t) \in Nat
  BY ConcatProperties
<1>2. \A i \in 1..Len(c) : \/ i \in 1..Len(s) /\ c[i] = s[i]
                           \/ i - Len(s) \in 1..Len(t) /\ c[i] = t[i - Len(s)]
  <2>1. \A i \in 1..(Len(s) + Len(t)) : c[i] = IF i <= Len(s) THEN s[i] ELSE t[i - Len(s)]
    BY ConcatProperties
  <2> QED
    BY <1>1, <2>1
<1> HIDE DEF c
<1>3. Below(s, u) /\ Below(t, u) => Below(c, u)
  BY <1>2 DEF Below
<1>4. Below(u, s) /\ Below(u, t) => Below(u, c)
  BY <1>2 DEF Below
<1>5. \A w \in Nat : UpTo(s, w) /\ UpTo(t, w) => UpTo(c, w)
  BY <1>2 DEF UpTo
<1> QED
  BY <1>3, <1>4, <1>5 DEF c

\* A stretch of a sequence in order.
LEMMA PartOrder ==
  ASSUME NEW s \in Seq(Nat), NEW t \in Seq(Nat), NEW k \in Nat, Len(t) + k <= Len(s),
         \A i \in 1..Len(t) : t[i] = s[i + k]
  PROVE  /\ Rising(s) => Rising(t)
         /\ \A u \in Seq(Nat) : /\ Below(s, u) => Below(t, u)
                                /\ Below(u, s) => Below(u, t)
         /\ \A w \in Nat : UpTo(s, w) => UpTo(t, w)
<1>1. Len(s) \in Nat /\ Len(t) \in Nat
  OBVIOUS
<1>2. \A i \in 1..Len(t) : i + k \in 1..Len(s)
  BY <1>1
<1>3. ASSUME Rising(s), NEW i \in 1..Len(t), NEW j \in 1..Len(t), i < j, t[i] # XChar, t[j] # XChar
      PROVE  t[i] < t[j]
  <2>1. t[i] = s[i + k] /\ t[j] = s[j + k] /\ i + k < j + k
    BY <1>3
  <2> QED
    BY <1>2, <1>3, <2>1 DEF Rising
<1>4. ASSUME NEW u \in Seq(Nat) PROVE (Below(s, u) => Below(t, u)) /\ (Below(u, s) => Below(u, t))
  BY <1>1, <1>2 DEF Below
<1>5. ASSUME NEW w \in Nat PROVE UpTo(s, w) => UpTo(t, w)
  BY <1>1, <1>2 DEF UpTo
<1> QED
  BY <1>3, <1>4, <1>5 DEF Rising

\* The parts of a sequence that is cut after n: both are in order, and the
\* first comes before the second.
LEMMA CutOrder ==
  ASSUME NEW q \in Seq(Nat), NEW n \in 0..Len(q), Rising(q), NEW w \in Nat, UpTo(q, w)
  PROVE  LET s == SubSeq(q, 1, n)
             t == SubSeq(q, n + 1, Len(q))
         IN  /\ Rising(s) /\ Rising(t) /\ Below(s, t) /\ UpTo(s, w) /\ UpTo(t, w)
             /\ \A u \in Seq(Nat) : Below(u, q) => Below(u, s) /\ Below(u, t)
<1> DEFINE s == SubSeq(q, 1, n)
           t == SubSeq(q, n + 1, Len(q))
<1>1. s \in Seq(Nat) /\ t \in Seq(Nat) /\ Len(s) = n
  BY SplitTypes
<1>2. Len(q) \in Nat /\ n \in Int /\ n + 1 \in Int /\ Len(q) \in Int /\ n >= 0 /\ n <= Len(q) /\ n \in Nat
  OBVIOUS
<1>3. \A i \in 1..n : q[i] \in Nat
  BY <1>2, ElementOfSeq
<1>4. \A i \in (n + 1)..Len(q) : q[i] \in Nat
  BY <1>2, ElementOfSeq
<1>5. \A i \in 1..Len(s) : s[i] = q[i + 0]
  <2>1. \A i \in 1..(n - 1 + 1) : SubSeq(q, 1, n)[i] = q[1 + i - 1]
    BY <1>2, <1>3, SubSeqProperties
  <2> QED
    BY <2>1, <1>1, <1>2
<1>6. Len(t) = Len(q) - n /\ \A i \in 1..Len(t) : t[i] = q[i + n]
  <2>1. /\ Len(t) = IF n + 1 <= Len(q) THEN Len(q) - (n + 1) + 1 ELSE 0
        /\ \A i \in 1..(Len(q) - (n + 1) + 1) : t[i] = q[(n + 1) + i - 1]
    BY <1>2, <1>4, SubSeqProperties
  <2> HIDE DEF s, t
  <2>2. Len(q) - (n + 1) + 1 = Len(q) - n /\ \A i \in Nat : (n + 1) + i - 1 = i + n
    BY <1>2
  <2>3. Len(t) = Len(q) - n
    <3>1. CASE n + 1 <= Len(q)
      BY <2>1, <2>2, <3>1
    <3>2. CASE ~(n + 1 <= Len(q))
      <4>1. n = Len(q) BY <1>2, <3>2
      <4> QED BY <2>1, <3>2, <4>1, <1>2
    <3> QED BY <3>1, <3>2
  <2>4. ASSUME NEW i \in 1..Len(t) PROVE t[i] = q[i + n]
    <3>1. i \in 1..(Len(q) - (n + 1) + 1) /\ i \in Nat
      BY <2>2, <2>3, <1>2
    <3>2. t[i] = q[(n + 1) + i - 1]
      BY <2>1, <3>1
    <3> QED
      BY <2>2, <3>1, <3>2
  <2> QED
    BY <2>3, <2>4
<1> HIDE DEF s, t
<1>7. Rising(s) /\ UpTo(s, w) /\ \A u \in Seq(Nat) : Below(u, q) => Below(u, s)
  <2>1. Len(s) + 0 <= Len(q) /\ 0 \in Nat
    BY <1>1, <1>2
  <2> QED
    BY <1>1, <1>5, <2>1, PartOrder
<1>8. Rising(t) /\ UpTo(t, w) /\ \A u \in Seq(Nat) : Below(u, q) => Below(u, t)
  <2>1. Len(t) + n <= Len(q)
    BY <1>6, <1>2
  <2> QED
    BY <1>1, <1>2, <1>6, <2>1, PartOrder
<1>9. Below(s, t)
  <2> SUFFICES ASSUME NEW i \in 1..Len(s), NEW j \in 1..Len(t), s[i] # XChar, t[j] # XChar
               PROVE  s[i] < t[j]
    BY DEF Below
  <2>1. i \in 1..n /\ j \in 1..(Len(q) - n)
    BY <1>1, <1>6
  <2>2. i \in 1..Len(q) /\ j + n \in 1..Len(q) /\ i < j + n /\ i + 0 = i
    BY <1>2, <2>1
  <2>3. s[i] = q[i]
    BY <1>5, <2>2
  <2>4. t[j] = q[j + n]
    BY <1>6
  <2> QED
    BY <2>2, <2>3, <2>4 DEF Rising
<1> QED
  BY <1>7, <1>8, <1>9 DEF s, t

\* A sequence without its first element.
LEMMA TailOrder ==
  ASSUME NEW s \in Seq(Nat), s # <<>>
  PROVE  /\ Tail(s) \in Seq(Nat)
         /\ Rising(s) => Rising(Tail(s))
         /\ \A u \in Seq(Nat) : /\ Below(s, u) => Below(Tail(s), u)
                                /\ Below(u, s) => Below(u, Tail(s))
         /\ \A w \in Nat : UpTo(s, w) => UpTo(Tail(s), w)
<1> DEFINE t == Tail(s)
<1>1. t \in Seq(Nat) /\ Len(t) = Len(s) - 1 /\ \A i \in 1..Len(t) : t[i] = s[i + 1]
  BY HeadTailProperties
<1>2. Len(s) \in Nat /\ 1 \in Nat /\ Len(t) + 1 <= Len(s)
  BY <1>1
<1> HIDE DEF t
<1>3. /\ Rising(s) => Rising(t)
      /\ \A u \in Seq(Nat) : (Below(s, u) => Below(t, u)) /\ (Below(u, s) => Below(u, t))
      /\ \A w \in Nat : UpTo(s, w) => UpTo(t, w)
  BY <1>1, <1>2, PartOrder
<1> QED
  BY <1>1, <1>3 DEF t

\* A sequence with one more element.
LEMMA AppendOrder ==
  ASSUME NEW s \in Seq(Nat), NEW e \in Nat
  PROVE  /\ Rising(s) /\ (e = XChar \/ Below(s, <<e>>)) => Rising(Append(s, e))
         /\ \A u \in Seq(Nat) : /\ Below(s, u) /\ (e = XChar \/ Below(<<e>>, u)) => Below(Append(s, e), u)
                                /\ Below(u, s) /\ (e = XChar \/ Below(u, <<e>>)) => Below(u, Append(s, e))
         /\ \A w \in Nat : UpTo(s, w) /\ e <= w => UpTo(Append(s, e), w)
<1> DEFINE a == Append(s, e)
           o == <<e>>
<1>1. /\ a \in Seq(Nat) /\ Len(a) = Len(s) + 1 /\ a[Len(s) + 1] = e
      /\ \A i \in 1..Len(s) : a[i] = s[i]
  BY AppendProperties
<1>2. Len(s) \in Nat /\ Len(o) = 1 /\ o[1] = e /\ 1 \in 1..Len(o)
  OBVIOUS
<1> HIDE DEF a, o
<1>3. \A i \in 1..Len(a) : i \in 1..Len(s) \/ i = Len(s) + 1
  BY <1>1, <1>2
<1>4. ASSUME Rising(s), e = XChar \/ Below(s, o) PROVE Rising(a)
  <2> SUFFICES ASSUME NEW i \in 1..Len(a), NEW j \in 1..Len(a), i < j, a[i] # XChar, a[j] # XChar
               PROVE  a[i] < a[j]
    BY DEF Rising
  <2>1. i \in 1..Len(s) /\ a[i] = s[i]
    BY <1>1, <1>2
  <2>2. CASE j \in 1..Len(s)
    BY <1>1, <1>4, <2>1, <2>2 DEF Rising
  <2>3. CASE j = Len(s) + 1
    BY <1>1, <1>2, <1>4, <2>1, <2>3 DEF Below
  <2> QED
    BY <1>3, <2>2, <2>3
<1>5. ASSUME NEW u \in Seq(Nat)
      PROVE  /\ Below(s, u) /\ (e = XChar \/ Below(o, u)) => Below(a, u)
             /\ Below(u, s) /\ (e = XChar \/ Below(u, o)) => Below(u, a)
  BY <1>1, <1>2, <1>3 DEF Below
<1>6. ASSUME NEW w \in Nat PROVE UpTo(s, w) /\ e <= w => UpTo(a, w)
  BY <1>1, <1>3 DEF UpTo
<1> QED
  BY <1>4, <1>5, <1>6 DEF a, o

\* The first element of a sequence in order comes before the others, and where
\* the sequence does.
LEMMA HeadOrder ==
  ASSUME NEW s \in Seq(Nat), s # <<>>
  PROVE  /\ Head(s) \in Nat /\ (Rising(s) => Below(<<Head(s)>>, Tail(s)))
         /\ \A u \in Seq(Nat) : /\ Below(s, u) => Below(<<Head(s)>>, u)
                                /\ Below(u, s) => Below(u, <<Head(s)>>)
         /\ \A w \in Nat : UpTo(s, w) => Head(s) <= w
<1> DEFINE t == Tail(s)
           o == <<Head(s)>>
<1>1. t \in Seq(Nat) /\ Len(t) = Len(s) - 1 /\ \A i \in 1..Len(t) : t[i] = s[i + 1]
  BY HeadTailProperties
<1>2. Len(s) \in Nat /\ Len(s) # 0
  BY EmptySeq
<1>3. Head(s) = s[1] /\ 1 \in 1..Len(s) /\ s[1] \in Nat
  BY <1>2
<1>4. Len(o) = 1 /\ o[1] = s[1]
  BY <1>3
<1> HIDE DEF t, o
<1>5. ASSUME Rising(s) PROVE Below(o, t)
  <2> SUFFICES ASSUME NEW i \in 1..Len(o), NEW j \in 1..Len(t), o[i] # XChar, t[j] # XChar
               PROVE  o[i] < t[j]
    BY DEF Below
  <2>1. o[i] = s[1] /\ t[j] = s[j + 1] /\ j + 1 \in 1..Len(s) /\ 1 < j + 1
    BY <1>1, <1>2, <1>4
  <2> QED
    BY <2>1, <1>3, <1>5 DEF Rising
<1>6. ASSUME NEW u \in Seq(Nat)
      PROVE  (Below(s, u) => Below(o, u)) /\ (Below(u, s) => Below(u, o))
  BY <1>3, <1>4 DEF Below
<1>7. ASSUME NEW w \in Nat PROVE UpTo(s, w) => s[1] <= w
  BY <1>3 DEF UpTo
<1> QED
  BY <1>3, <1>5, <1>6, <1>7 DEF t, o

\* The chip puts the first character of the FIFO on the line.
LEMMA OrderDrain ==
  ASSUME NEW a \in Seq(Nat), NEW b \in Seq(Nat), NEW c \in Seq(Nat), NEW d \in Seq(Nat),
         NEW w \in Nat, Ordered(a, b, c, d, w), b # <<>>
  PROVE  Ordered(Append(a, Head(b)), Tail(b), c, d, w)
<1> USE DEF Ordered
<1>1. /\ Head(b) \in Nat /\ Head(b) <= w /\ Below(<<Head(b)>>, Tail(b)) /\ Below(a, <<Head(b)>>)
      /\ Below(<<Head(b)>>, c) /\ Below(<<Head(b)>>, d)
  BY HeadOrder
<1>2. /\ Tail(b) \in Seq(Nat) /\ Rising(Tail(b)) /\ Below(a, Tail(b)) /\ Below(Tail(b), c)
      /\ Below(Tail(b), d) /\ UpTo(Tail(b), w)
  BY TailOrder
<1>3. /\ Rising(Append(a, Head(b))) /\ Below(Append(a, Head(b)), Tail(b))
      /\ Below(Append(a, Head(b)), c) /\ Below(Append(a, Head(b)), d)
      /\ UpTo(Append(a, Head(b)), w)
  BY <1>1, <1>2, AppendOrder
<1> QED
  BY <1>2, <1>3

\* The next character is dropped.
LEMMA OrderDrop ==
  ASSUME NEW a \in Seq(Nat), NEW b \in Seq(Nat), NEW c \in Seq(Nat), NEW d \in Seq(Nat),
         NEW w \in Nat, Ordered(a, b, c, d, w), c # <<>>
  PROVE  Ordered(a, b, Tail(c), d, w)
BY TailOrder DEF Ordered

\* The next character is put into the FIFO.
LEMMA OrderPush ==
  ASSUME NEW a \in Seq(Nat), NEW b \in Seq(Nat), NEW c \in Seq(Nat), NEW d \in Seq(Nat),
         NEW w \in Nat, Ordered(a, b, c, d, w), c # <<>>
  PROVE  Ordered(a, Append(b, Head(c)), Tail(c), d, w)
<1> USE DEF Ordered
<1>1. /\ Head(c) \in Nat /\ Head(c) <= w /\ Below(<<Head(c)>>, Tail(c)) /\ Below(a, <<Head(c)>>)
      /\ Below(b, <<Head(c)>>) /\ Below(<<Head(c)>>, d)
  BY HeadOrder
<1>2. /\ Tail(c) \in Seq(Nat) /\ Rising(Tail(c)) /\ Below(a, Tail(c)) /\ Below(b, Tail(c))
      /\ Below(Tail(c), d) /\ UpTo(Tail(c), w)
  BY TailOrder
<1>3. /\ Rising(Append(b, Head(c))) /\ Below(Append(b, Head(c)), Tail(c))
      /\ Below(a, Append(b, Head(c))) /\ Below(Append(b, Head(c)), d)
      /\ UpTo(Append(b, Head(c)), w)
  BY <1>1, <1>2, AppendOrder
<1> QED
  BY <1>2, <1>3

\* An XON or XOFF character is put into the FIFO.
LEMMA OrderXChar ==
  ASSUME NEW a \in Seq(Nat), NEW b \in Seq(Nat), NEW c \in Seq(Nat), NEW d \in Seq(Nat),
         NEW w \in Nat, Ordered(a, b, c, d, w)
  PROVE  Ordered(a, Append(b, XChar), c, d, w)
<1>1. XChar \in Nat /\ XChar <= w
  BY DEF XChar
<1> QED
  BY <1>1, AppendOrder DEF Ordered

\* wk2xxx_tx_chars takes the first n characters of the ring.
LEMMA OrderTake ==
  ASSUME NEW a \in Seq(Nat), NEW b \in Seq(Nat), NEW c \in Seq(Nat), NEW d \in Seq(Nat),
         NEW w \in Nat, Ordered(a, b, c, d, w), NEW n \in 0..Len(d)
  PROVE  Ordered(a, b, SubSeq(d, 1, n), SubSeq(d, n + 1, Len(d)), w)
BY CutOrder DEF Ordered

\* A user writes k more characters.
LEMMA OrderWrite ==
  ASSUME NEW a \in Seq(Nat), NEW b \in Seq(Nat), NEW c \in Seq(Nat), NEW d \in Seq(Nat),
         NEW w \in Nat, Ordered(a, b, c, d, w), NEW k \in Nat
  PROVE  Ordered(a, b, c, d \o [i \in 1..k |-> w + i], w + k)
<1> DEFINE new == [i \in 1..k |-> w + i]
<1>1. new \in Seq(Nat)
  BY NewCharsType
<1>2. Len(new) = k /\ \A i \in 1..k : new[i] = w + i
  OBVIOUS
<1> HIDE DEF new
<1>3. Rising(new) /\ UpTo(new, w + k)
  BY <1>2 DEF Rising, UpTo
<1>4. ASSUME NEW s \in Seq(Nat), UpTo(s, w) PROVE Below(s, new) /\ UpTo(s, w + k)
  <2>1. ASSUME NEW i \in 1..Len(s) PROVE s[i] <= w /\ s[i] \in Nat
    BY <1>4, ElementOfSeq DEF UpTo
  <2>2. Below(s, new)
    BY <1>2, <2>1 DEF Below
  <2>3. UpTo(s, w + k)
    BY <2>1 DEF UpTo
  <2> QED
    BY <2>2, <2>3
<1>5. /\ Below(a, new) /\ Below(b, new) /\ Below(c, new) /\ Below(d, new)
      /\ UpTo(a, w + k) /\ UpTo(b, w + k) /\ UpTo(c, w + k) /\ UpTo(d, w + k)
  BY <1>4 DEF Ordered
<1>6. w + k \in Nat
  OBVIOUS
<1>7. Rising(d \o new)
  BY <1>1, <1>3, <1>5, ConcatOrder DEF Ordered
<1>8. /\ Below(a, d \o new) /\ Below(b, d \o new) /\ Below(c, d \o new) /\ UpTo(d \o new, w + k)
  BY <1>1, <1>3, <1>5, <1>6, ConcatBelow DEF Ordered
<1>9. Ordered(a, b, c, d \o new, w + k)
  BY <1>5, <1>7, <1>8 DEF Ordered
<1> QED
  BY <1>9 DEF new

\* What a port holds, as sequences.
LEMMA HeldTypes ==
  ASSUME TypeInv, NEW p \in Ports
  PROVE  /\ wire[p] \in Seq(Nat) /\ fifo[p] \in Seq(Nat) /\ Waiting(p) \in Seq(Nat)
         /\ xmit[p] \in Seq(Nat) /\ written[p] \in Nat /\ txbuf[p] \in Seq(Nat)
         /\ Len(fifo[p]) \in Nat /\ Len(xmit[p]) \in Nat /\ Len(txbuf[p]) \in Nat
<1>1. /\ wire[p] \in Seq(Nat) /\ fifo[p] \in Seq(Nat)
      /\ xmit[p] \in Seq(Nat) /\ written[p] \in Nat /\ txbuf[p] \in Seq(Nat)
  BY DEF TypeInv, TypeOK, WorkTypes, CoreTypes, ChipTypes
<1>2. pc[p] = "fdat" => txbuf[p] # <<>>
  BY DEF TypeInv, HasChar
<1>3. Waiting(p) \in Seq(Nat)
  BY <1>1, <1>2, HeadTailProperties DEF Waiting
<1>4. \A s \in Seq(Nat) : Len(s) \in Nat
  OBVIOUS
<1> QED
  BY <1>1, <1>3, <1>4

\* A step that leaves a port's characters where they are.
LEMMA OrderKept ==
  ASSUME NEW p \in Ports, PortOrdered(p), wire'[p] = wire[p], fifo'[p] = fifo[p],
         Waiting(p)' = Waiting(p), xmit'[p] = xmit[p], written'[p] = written[p]
  PROVE  PortOrdered(p)'
BY DEF PortOrdered

\* A port that takes no part in a step.
LEMMA OrderOther ==
  ASSUME NEW p \in Ports, PortOrdered(p), wire'[p] = wire[p], fifo'[p] = fifo[p],
         txbuf'[p] = txbuf[p], pc'[p] = pc[p], acc'[p] = acc[p], xmit'[p] = xmit[p],
         written'[p] = written[p]
  PROVE  PortOrdered(p)'
<1>1. Waiting(p)' = Waiting(p)
  BY DEF Waiting
<1> QED
  BY <1>1, OrderKept

\* Between two accesses: an access that returned left the next character
\* behind already; one that failed did not.
LEMMA AfterOrder ==
  ASSUME TypeInv, OrderInv, NEW p \in Ports, NEW d \in 0..(Depth - 1), After(p, d),
         acc[p] \in {"xfer", "high"}, acc' = [acc EXCEPT ![p] = "call"],
         UNCHANGED <<fifo, wire, written>>
  PROVE  OrderInv'
<1> USE DEF TypeInv, TypeOK, WorkTypes, CoreTypes, Go, Set
<1>0. /\ wire[p] \in Seq(Nat) /\ fifo[p] \in Seq(Nat) /\ Waiting(p) \in Seq(Nat)
      /\ xmit[p] \in Seq(Nat) /\ written[p] \in Nat /\ txbuf[p] \in Seq(Nat)
      /\ Ordered(wire[p], fifo[p], Waiting(p), xmit[p], written[p])
  BY HeldTypes DEF OrderInv, PortOrdered
<1>1. acc'[p] = "call" /\ Waiting(p)' = txbuf'[p] /\ \A q \in Ports \ {p} : acc'[q] = acc[q]
  BY DEF Waiting
<1>2. \A q \in Ports \ {p} : pc'[q] = pc[q] /\ txbuf'[q] = txbuf[q] /\ xmit'[q] = xmit[q]
  BY DEF After, EnableTx, TxTests, TakeChars, local, core
<1>3. \A q \in Ports \ {p} : PortOrdered(q)'
  BY <1>1, <1>2, OrderOther DEF OrderInv
<1>4. PortOrdered(p)'
  <2>1. CASE TakeChars(p, d)
    <3> DEFINE n == Taken(p, d)
               s == SubSeq(xmit[p], 1, n)
               t == SubSeq(xmit[p], n + 1, Len(xmit[p]))
    <3>1. n \in 0..Len(xmit[p])
      BY TakenType
    <3>2. txbuf'[p] = s /\ xmit'[p] = t
      BY <2>1 DEF TakeChars
    <3> HIDE DEF n
    <3>3. Ordered(wire[p], fifo[p], s, t, written[p])
      BY <1>0, <3>1, OrderTake
    <3> HIDE DEF s, t
    <3> QED
      BY <1>1, <3>2, <3>3 DEF PortOrdered
  <2>2. CASE pc[p] = "fdat" /\ txbuf' = Set(txbuf, p, Tail(txbuf[p])) /\ UNCHANGED xmit
    <3>1. txbuf'[p] = Tail(txbuf[p]) /\ xmit'[p] = xmit[p] /\ txbuf[p] # <<>>
      BY <2>2 DEF HasChar
    <3>2. CASE acc[p] = "high"
      <4>1. Waiting(p) = Tail(txbuf[p])
        BY <2>2, <3>2 DEF Waiting
      <4> QED
        BY <1>0, <1>1, <3>1, <4>1 DEF PortOrdered
    <3>3. CASE acc[p] = "xfer"
      <4>1. Waiting(p) = txbuf[p]
        BY <3>3 DEF Waiting
      <4>2. Ordered(wire[p], fifo[p], Tail(txbuf[p]), xmit[p], written[p])
        BY <1>0, <3>1, <4>1, OrderDrop
      <4> QED
        BY <1>1, <3>1, <4>2 DEF PortOrdered
    <3> QED
      BY <3>2, <3>3
  <2>3. CASE pc[p] # "fdat" /\ UNCHANGED <<txbuf, xmit>>
    <3>1. Waiting(p) = txbuf[p]
      BY <2>3 DEF Waiting
    <3> QED
      BY <1>0, <1>1, <2>3, <3>1 DEF PortOrdered
  <2> QED
    BY <2>1, <2>2, <2>3 DEF After, EnableTx, TxTests, Straight, local, core
<1> QED
  BY <1>3, <1>4 DEF OrderInv

\* A transfer ends: the character went into the FIFO, or it is lost.
LEMMA FinishOrder ==
  ASSUME TypeInv, OrderInv, NEW p \in Ports, Finish(p)
  PROVE  OrderInv'
<1> USE DEF TypeInv, TypeOK, WorkTypes, CoreTypes, ChipTypes
<1>0. /\ wire[p] \in Seq(Nat) /\ fifo[p] \in Seq(Nat) /\ Waiting(p) \in Seq(Nat)
      /\ xmit[p] \in Seq(Nat) /\ written[p] \in Nat /\ txbuf[p] \in Seq(Nat)
      /\ Ordered(wire[p], fifo[p], Waiting(p), xmit[p], written[p])
  BY HeldTypes DEF OrderInv, PortOrdered
<1>1. /\ acc[p] = "xfer" /\ acc' = [acc EXCEPT ![p] = "high"]
      /\ Effect(p) \/ UNCHANGED <<sier, fifo>>
      /\ UNCHANGED <<pc, txbuf, xmit, wire, written>>
  BY DEF Finish, local, core, users
<1>2. \A q \in Ports \ {p} : fifo'[q] = fifo[q] /\ acc'[q] = acc[q]
  BY <1>1 DEF Effect, Push
<1>3. \A q \in Ports \ {p} : PortOrdered(q)'
  BY <1>1, <1>2, OrderOther DEF OrderInv
<1>4. Waiting(p) = txbuf[p] /\ acc'[p] = "high"
  BY <1>1 DEF Waiting
<1>5. PortOrdered(p)'
  <2>1. CASE pc[p] = "fdat"
    <3>1. Waiting(p)' = Tail(txbuf[p]) /\ txbuf[p] # <<>>
      BY <1>1, <1>4, <2>1 DEF Waiting, HasChar
    <3>2. fifo'[p] \in {fifo[p], Append(fifo[p], Head(txbuf[p]))}
      BY <1>1, <2>1 DEF Effect, Push
    <3>3. /\ Ordered(wire[p], fifo[p], Tail(txbuf[p]), xmit[p], written[p])
          /\ Ordered(wire[p], Append(fifo[p], Head(txbuf[p])), Tail(txbuf[p]), xmit[p], written[p])
      BY <1>0, <1>4, <3>1, OrderDrop, OrderPush
    <3>4. CASE fifo'[p] = fifo[p]
      BY <1>1, <3>1, <3>3, <3>4 DEF PortOrdered
    <3>5. CASE fifo'[p] = Append(fifo[p], Head(txbuf[p]))
      BY <1>1, <3>1, <3>3, <3>5 DEF PortOrdered
    <3> QED
      BY <3>2, <3>4, <3>5
  <2>2. CASE pc[p] # "fdat"
    <3>1. Waiting(p)' = Waiting(p)
      BY <1>1, <2>2 DEF Waiting
    <3>2. fifo'[p] \in {fifo[p], Append(fifo[p], XChar)}
      BY <1>1, <2>2 DEF Effect, Push
    <3>3. Ordered(wire[p], Append(fifo[p], XChar), Waiting(p), xmit[p], written[p])
      BY <1>0, OrderXChar
    <3>4. CASE fifo'[p] = fifo[p]
      BY <1>0, <1>1, <3>1, <3>4 DEF PortOrdered
    <3>5. CASE fifo'[p] = Append(fifo[p], XChar)
      BY <1>1, <3>1, <3>3, <3>5 DEF PortOrdered
    <3> QED
      BY <3>2, <3>4, <3>5
  <2> QED
    BY <2>1, <2>2
<1> QED
  BY <1>3, <1>5 DEF OrderInv

\* Every step keeps the characters in order.
LEMMA OrderInductive == TypeInv /\ OrderInv /\ [Next]_vars => OrderInv'
<1> SUFFICES ASSUME TypeInv, OrderInv, [Next]_vars PROVE OrderInv'
  OBVIOUS
<1> USE DEF TypeInv, TypeOK, WorkTypes, CoreTypes, ChipTypes
<1>1. CASE UNCHANGED <<wire, fifo, txbuf, pc, acc, xmit, written>>
  BY <1>1, OrderOther DEF OrderInv
<1>2. ASSUME NEW p \in Ports, Begin(p) \/ StartWork(p) PROVE OrderInv'
  <2>1. UNCHANGED <<wire, fifo, txbuf, xmit, written>>
    BY <1>2 DEF Begin, StartWork, local, core, chip, users
  <2>2. ASSUME NEW q \in Ports PROVE Waiting(q)' = Waiting(q)
    <3>1. \/ ~(pc[q] = "fdat" /\ acc[q] = "high") /\ ~(pc'[q] = "fdat" /\ acc'[q] = "high")
          \/ pc'[q] = pc[q] /\ acc'[q] = acc[q]
      <4>1. CASE Begin(p)
        BY <4>1 DEF Begin
      <4>2. CASE StartWork(p)
        BY <4>2 DEF StartWork, Go
      <4> QED
        BY <1>2, <4>1, <4>2
    <3> QED
      BY <2>1, <3>1 DEF Waiting
  <2> QED
    BY <2>1, <2>2, OrderKept DEF OrderInv
<1>3. ASSUME NEW p \in Ports, Finish(p) PROVE OrderInv'
  BY <1>3, FinishOrder
<1>4. ASSUME NEW p \in Ports, Return(p) PROVE OrderInv'
  <2>1. data[p] \in 0..(Depth - 1) /\ After(p, data[p]) /\ acc[p] \in {"xfer", "high"}
    BY <1>4 DEF Return
  <2>2. acc' = [acc EXCEPT ![p] = "call"] /\ UNCHANGED <<fifo, wire, written>>
    BY <1>4 DEF Return, chip, users
  <2> QED
    BY <2>1, <2>2, AfterOrder
<1>5. ASSUME NEW p \in Ports, SpiError(p) PROVE OrderInv'
  <2>1. PICK d \in 0..(Depth - 1) : After(p, d)
    BY <1>5 DEF SpiError
  <2>2. acc' = [acc EXCEPT ![p] = "call"] /\ UNCHANGED <<fifo, wire, written>>
          /\ acc[p] \in {"xfer", "high"}
    BY <1>5 DEF SpiError, chip, users
  <2> QED
    BY <2>1, <2>2, AfterOrder
<1>6. ASSUME NEW p \in Ports, Write(p) PROVE OrderInv'
  <2>1. PICK k \in 1..(MaxChars[p] - written[p]) :
          /\ xmit' = [xmit EXCEPT ![p] = @ \o [i \in 1..k |-> written[p] + i]]
          /\ written' = [written EXCEPT ![p] = @ + k]
    BY <1>6 DEF Write
  <2> DEFINE x == xmit[p] \o [i \in 1..k |-> written[p] + i]
  <2>2. k \in Nat
    BY HeldTypes, WkAssumption
  <2>3. Ordered(wire[p], fifo[p], Waiting(p), x, written[p] + k)
    BY <2>2, HeldTypes, OrderWrite DEF OrderInv, PortOrdered
  <2>4. xmit'[p] = x /\ written'[p] = written[p] + k
          /\ \A q \in Ports \ {p} : xmit'[q] = xmit[q] /\ written'[q] = written[q]
    BY <2>1
  <2>5. UNCHANGED <<wire, fifo, txbuf, pc, acc>>
    BY <1>6 DEF Write, work, local, chip
  <2>6. \A q \in Ports \ {p} : PortOrdered(q)'
    BY <2>4, <2>5, OrderOther DEF OrderInv
  <2>7. Waiting(p)' = Waiting(p)
    BY <2>5 DEF Waiting
  <2> HIDE DEF x
  <2>8. PortOrdered(p)'
    BY <2>3, <2>4, <2>5, <2>7 DEF PortOrdered
  <2> QED
    BY <2>6, <2>8 DEF OrderInv
<1>7. ASSUME NEW p \in Ports, Drain(p) PROVE OrderInv'
  <2>1. Ordered(Append(wire[p], Head(fifo[p])), Tail(fifo[p]), Waiting(p), xmit[p], written[p])
    BY <1>7, HeldTypes, OrderDrain DEF Drain, OrderInv, PortOrdered
  <2>2. /\ wire'[p] = Append(wire[p], Head(fifo[p])) /\ fifo'[p] = Tail(fifo[p])
        /\ \A q \in Ports \ {p} : wire'[q] = wire[q] /\ fifo'[q] = fifo[q]
    BY <1>7 DEF Drain
  <2>3. UNCHANGED <<txbuf, pc, acc, xmit, written>>
    BY <1>7 DEF Drain, work, local, core, users
  <2>4. \A q \in Ports \ {p} : PortOrdered(q)'
    BY <2>2, <2>3, OrderOther DEF OrderInv
  <2>5. Waiting(p)' = Waiting(p)
    BY <2>3 DEF Waiting
  <2>6. PortOrdered(p)'
    BY <2>1, <2>2, <2>3, <2>5 DEF PortOrdered
  <2> QED
    BY <2>4, <2>6 DEF OrderInv
<1> QED
  BY <1>1, <1>2, <1>3, <1>4, <1>5, <1>6, <1>7 DEF Next, vars, life, work, local, core, chip, users, ProbeTest,
     wk2xxx_probe, wk2xxx_remove, SendXChar, TtyStop, TtyStart

\* What a port holds, read in one piece, is in order.
LEMMA OrderRead == TypeInv /\ OrderInv => InOrder
<1> SUFFICES ASSUME TypeInv, OrderInv, NEW p \in Ports PROVE Rising(Held(p))
  BY DEF InOrder
<1> DEFINE a == wire[p]
           b == fifo[p]
           c == Waiting(p)
           d == xmit[p]
<1>1. /\ a \in Seq(Nat) /\ b \in Seq(Nat) /\ c \in Seq(Nat) /\ d \in Seq(Nat)
      /\ Ordered(a, b, c, d, written[p])
  BY HeldTypes DEF OrderInv, PortOrdered
<1>2. Held(p) = a \o b \o c \o d
  BY DEF Held
<1> HIDE DEF a, b, c, d
<1>3. a \o b \in Seq(Nat) /\ Rising(a \o b)
  BY <1>1, ConcatOrder DEF Ordered
<1>4. Below(a \o b, c) /\ Below(a \o b, d)
  BY <1>1, ConcatBelow DEF Ordered
<1>5. a \o b \o c \in Seq(Nat) /\ Rising(a \o b \o c)
  BY <1>1, <1>3, <1>4, ConcatOrder DEF Ordered
<1>6. Below(a \o b \o c, d)
  BY <1>1, <1>3, <1>4, ConcatBelow DEF Ordered
<1> QED
  BY <1>1, <1>2, <1>5, <1>6, ConcatOrder DEF Ordered

\* The work items of any number of ports, whatever the chip answers, whatever
\* fails and wherever the chip is deselected: no character of a port is sent
\* twice and none overtakes another.
THEOREM CharsInOrder == Spec => []InOrder
<1>1. Init => OrderInv
  <2> SUFFICES ASSUME Init, NEW p \in Ports PROVE PortOrdered(p)
    BY DEF OrderInv
  <2>1. wire[p] = <<>> /\ fifo[p] = <<>> /\ Waiting(p) = <<>> /\ xmit[p] = <<>>
    BY DEF Init, Waiting
  <2> QED
    BY <2>1 DEF PortOrdered, Ordered, Rising, Below, UpTo
<1> QED
  BY <1>1, TypeInit, TypeInductive, OrderInductive, OrderRead, PTL DEF Spec

(***************************************************************************)
(* Nothing is left behind.                                                 *)
(***************************************************************************)

\* One port in use, no SPI error, no XON/XOFF, and fewer characters than the
\* FIFO has room for.
Undisturbed ==
  /\ ~SpiFails /\ \A p, q \in Ports : p = q
  /\ \A p \in Ports : MaxX[p] = 0 /\ MaxChars[p] < Depth

\* Nobody deselects the chip, and there is no XON/XOFF.
Plain(p) == ~hit[p] /\ ~x_char[p] /\ xsent[p] = 0 /\ pc[p] # "xchar"

\* wk2xxx_tx_chars keeps no characters.
Passed(p) == pc[p] # "fdat" => txbuf[p] = <<>>

\* There are no more characters than were written.
Few(p) ==
  /\ Len(fifo[p]) + Len(Waiting(p)) + Len(xmit[p]) <= written[p]
  /\ written[p] <= MaxChars[p]

\* What was read of FSR and TFCNT leaves room for the ring.
RoomForAll(p) ==
  /\ pc[p] = "fsr" /\ acc[p] = "high" => data[p] = 0
  /\ pc[p] = "tfcnt" => ~full[p]
  /\ pc[p] = "tfcnt" /\ acc[p] = "high" => data[p] + Len(xmit[p]) <= written[p]

\* Somebody will look at the ring: the work item before it looked, one that is
\* queued, or uart_start.
Looks == {"sier_r", "gena", "sier_w", "sier_c", "config", "sifr", "page", "fsr", "tfcnt"}
Seen(p) == xmit[p] # <<>> => queued[p] \/ stopped[p] \/ pc[p] \in Looks

\* No character is lost.
Conserved(p) ==
  1..written[p] \subseteq In(wire[p]) \cup In(fifo[p]) \cup In(Waiting(p)) \cup In(xmit[p])

PortInv(p) == Plain(p) /\ Passed(p) /\ Few(p) /\ RoomForAll(p) /\ Seen(p) /\ Conserved(p)
SendInv    == \A p \in Ports : PortInv(p)

\* The elements of sequences that are made of others.
LEMMA InParts ==
  ASSUME NEW s \in Seq(Nat), NEW t \in Seq(Nat), NEW e \in Nat
  PROVE  /\ In(Append(s, e)) = In(s) \cup {e} /\ In(s \o t) = In(s) \cup In(t)
         /\ s # <<>> => In(s) = {Head(s)} \cup In(Tail(s))
<1>1. In(Append(s, e)) = In(s) \cup {e}
  <2> DEFINE a == Append(s, e)
  <2>1. Len(a) = Len(s) + 1 /\ a[Len(s) + 1] = e /\ \A i \in 1..Len(s) : a[i] = s[i]
    BY AppendProperties
  <2>2. Len(s) \in Nat
    OBVIOUS
  <2> HIDE DEF a
  <2>3. \A i \in 1..Len(a) : i \in 1..Len(s) \/ i = Len(s) + 1
    BY <2>1, <2>2
  <2>4. Len(s) + 1 \in 1..Len(a) /\ \A i \in 1..Len(s) : i \in 1..Len(a)
    BY <2>1, <2>2
  <2>5. In(a) \subseteq In(s) \cup {e}
    BY <2>1, <2>3 DEF In
  <2>6. In(s) \cup {e} \subseteq In(a)
    BY <2>1, <2>4 DEF In
  <2> QED
    BY <2>5, <2>6 DEF a
<1>2. In(s \o t) = In(s) \cup In(t)
  <2> DEFINE c == s \o t
  <2>1. Len(c) = Len(s) + Len(t) /\ Len(s) \in Nat /\ Len(t) \in Nat
    BY ConcatProperties
  <2>2. \A i \in 1..(Len(s) + Len(t)) : c[i] = IF i <= Len(s) THEN s[i] ELSE t[i - Len(s)]
    BY ConcatProperties
  <2> HIDE DEF c
  <2>3. \A i \in 1..Len(c) : \/ i \in 1..Len(s) /\ c[i] = s[i]
                             \/ i - Len(s) \in 1..Len(t) /\ c[i] = t[i - Len(s)]
    BY <2>1, <2>2
  <2>4. \A i \in 1..Len(s) : i \in 1..Len(c) /\ c[i] = s[i]
    BY <2>1, <2>2
  <2>5. \A i \in 1..Len(t) : i + Len(s) \in 1..Len(c) /\ c[i + Len(s)] = t[i]
    BY <2>1, <2>2
  <2>6. In(c) \subseteq In(s) \cup In(t)
    BY <2>3 DEF In
  <2>7. In(s) \subseteq In(c)
    BY <2>4 DEF In
  <2>8. In(t) \subseteq In(c)
    BY <2>5 DEF In
  <2> QED
    BY <2>6, <2>7, <2>8 DEF c
<1>3. ASSUME s # <<>> PROVE In(s) = {Head(s)} \cup In(Tail(s))
  <2> DEFINE u == Tail(s)
  <2>1. Len(u) = Len(s) - 1 /\ \A i \in 1..Len(u) : u[i] = s[i + 1]
    BY <1>3, HeadTailProperties
  <2>2. Len(s) \in Nat /\ Len(s) # 0 /\ Head(s) = s[1]
    BY <1>3, EmptySeq
  <2> HIDE DEF u
  <2>3. \A i \in 1..Len(s) : i = 1 \/ (i - 1 \in 1..Len(u) /\ u[i - 1] = s[i])
    BY <2>1, <2>2
  <2>4. 1 \in 1..Len(s) /\ \A i \in 1..Len(u) : i + 1 \in 1..Len(s) /\ u[i] = s[i + 1]
    BY <2>1, <2>2
  <2>5. In(s) \subseteq {s[1]} \cup In(u)
    BY <2>3 DEF In
  <2>6. {s[1]} \cup In(u) \subseteq In(s)
    BY <2>4 DEF In
  <2> QED
    BY <2>2, <2>5, <2>6 DEF u
<1> QED
  BY <1>1, <1>2, <1>3

\* What a user writes.
LEMMA InNew ==
  ASSUME NEW w \in Nat, NEW k \in Nat
  PROVE  LET new == [i \in 1..k |-> w + i]
         IN  new \in Seq(Nat) /\ Len(new) = k /\ 1..(w + k) \subseteq (1..w) \cup In(new)
<1> DEFINE new == [i \in 1..k |-> w + i]
<1>1. new \in Seq(Nat)
  BY NewCharsType
<1>2. Len(new) = k /\ \A i \in 1..k : new[i] = w + i
  OBVIOUS
<1> HIDE DEF new
<1>3. \A c \in 1..(w + k) : c \in 1..w \/ (c - w \in 1..k /\ c = w + (c - w))
  OBVIOUS
<1>4. ASSUME NEW c \in 1..(w + k), c \notin 1..w PROVE c \in In(new)
  <2>1. c - w \in 1..k /\ new[c - w] = c
    BY <1>2, <1>3, <1>4
  <2> QED
    BY <1>2, <2>1 DEF In
<1> QED
  BY <1>1, <1>2, <1>4 DEF new

\* The ring fits into the FIFO: wk2xxx_tx_chars takes all of it.
LEMMA TakesAll ==
  ASSUME TypeInv, Undisturbed, NEW p \in Ports, Few(p), NEW d \in 0..(Depth - 1),
         d + Len(xmit[p]) <= written[p], ~full[p]
  PROVE  Taken(p, d) = Len(xmit[p])
<1>1. Len(xmit[p]) \in Nat /\ written[p] \in Nat
  BY HeldTypes
<1>2. written[p] <= Depth - 1 /\ Depth \in Nat /\ MaxChars[p] \in Nat
  BY <1>1, WkAssumption DEF Few, Undisturbed
<1>3. Room(p, d) = Depth - 1 - d
  BY <1>2 DEF Room
<1> QED
  BY <1>1, <1>2, <1>3 DEF Taken

\* The work item goes on after an access.
LEMMA ReturnSends ==
  ASSUME TypeInv, Undisturbed, NEW p \in Ports, PortInv(p), Return(p)
  PROVE  PortInv(p)'
<1> USE DEF TypeInv, TypeOK, WorkTypes, CoreTypes, ChipTypes, Go, Set
<1> DEFINE d == data[p]
<1>1. /\ acc[p] = "high" /\ After(p, d) /\ UNCHANGED <<queued, fifo, wire, written, xsent>>
      /\ d \in 0..(Depth - 1) /\ acc'[p] = "call" /\ hit'[p] = (hit[p] \/ acc[p] = "xfer")
  BY DEF Return, Deselect, chip, users
<1>2. ~hit'[p] /\ Waiting(p)' = txbuf'[p] /\ xsent'[p] = 0
  BY <1>1 DEF Waiting, PortInv, Plain
<1>3. /\ fifo[p] \in Seq(Nat) /\ xmit[p] \in Seq(Nat) /\ txbuf[p] \in Seq(Nat) /\ written[p] \in Nat
      /\ Len(fifo[p]) \in Nat /\ Len(xmit[p]) \in Nat /\ Len(txbuf[p]) \in Nat
  BY HeldTypes
<1> HIDE DEF d
<1>4. CASE TakeChars(p, d) /\ UNCHANGED <<val, val_bak, again, x_char, stopped>>
  <2>1. pc[p] = "tfcnt" /\ txbuf[p] = <<>> /\ Waiting(p) = <<>>
    BY <1>4 DEF TakeChars, PortInv, Passed, Waiting
  <2>2. Taken(p, d) = Len(xmit[p])
    BY <1>1, <2>1, TakesAll DEF PortInv, RoomForAll, d
  <2> DEFINE n == Len(xmit[p])
  <2>3. SubSeq(xmit[p], 1, n) = xmit[p]
    <3>1. \A i \in 1..n : xmit[p][i] \in Nat
      BY <1>3, ElementOfSeq
    <3> QED
      BY <1>3, <3>1
  <2>4. SubSeq(xmit[p], n + 1, n) = <<>>
    BY <1>3
  <2>5. txbuf'[p] = xmit[p] /\ xmit'[p] = <<>> /\ pc'[p] = (IF n = 0 THEN "out" ELSE "fdat")
    BY <1>4, <2>2, <2>3, <2>4 DEF TakeChars
  <2>6. n = 0 => xmit[p] = <<>>
    BY <1>3, EmptySeq
  <2>7. In(<<>>) = {}
    BY DEF In
  <2>8. Few(p)'
    <3>1. Len(Waiting(p)) = 0 /\ Len(xmit'[p]) = 0 /\ Len(Waiting(p)') = n
      BY <1>2, <2>1, <2>5
    <3> QED
      BY <1>1, <1>3, <3>1 DEF PortInv, Few
  <2>9. Conserved(p)'
    BY <1>1, <1>2, <2>1, <2>5, <2>7 DEF PortInv, Conserved
  <2>10. Passed(p)' /\ RoomForAll(p)' /\ Seen(p)' /\ Plain(p)'
    BY <1>2, <1>4, <2>5, <2>6 DEF PortInv, Passed, RoomForAll, Seen, Plain
  <2> QED
    BY <2>8, <2>9, <2>10 DEF PortInv
<1>5. CASE /\ pc[p] = "fdat" /\ txbuf' = Set(txbuf, p, Tail(txbuf[p]))
           /\ Go(p, IF Len(txbuf[p]) = 1 THEN "out" ELSE "fdat")
           /\ UNCHANGED <<val, val_bak, again, full, core>>
  <2>1. txbuf[p] # <<>> /\ Waiting(p) = Tail(txbuf[p]) /\ txbuf'[p] = Tail(txbuf[p])
    BY <1>1, <1>5 DEF HasChar, Waiting
  <2>2. Waiting(p)' = Waiting(p) /\ UNCHANGED <<xmit, x_char, stopped>>
    BY <1>2, <1>5, <2>1 DEF core
  <2>3. pc'[p] = IF Len(txbuf[p]) = 1 THEN "out" ELSE "fdat"
    BY <1>5
  <2>4. Len(txbuf[p]) = 1 => Tail(txbuf[p]) = <<>>
    <3>1. Tail(txbuf[p]) \in Seq(Nat) /\ Len(Tail(txbuf[p])) = Len(txbuf[p]) - 1
      BY <1>3, <2>1, HeadTailProperties
    <3> DEFINE u == Tail(txbuf[p])
    <3>2. u # <<>> => Len(u) # 0
      BY <3>1, EmptySeq
    <3>3. Len(txbuf[p]) = 1 => Len(u) = 0
      BY <3>1
    <3> HIDE DEF u
    <3>4. Len(txbuf[p]) = 1 => u = <<>>
      BY <3>2, <3>3
    <3> QED
      BY <3>4 DEF u
  <2>5. Passed(p)'
    BY <2>1, <2>3, <2>4 DEF Passed
  <2>6. Few(p)' /\ Conserved(p)'
    BY <1>1, <2>2 DEF PortInv, Few, Conserved
  <2>7. RoomForAll(p)' /\ Seen(p)' /\ Plain(p)'
    BY <1>1, <1>2, <1>5, <2>2, <2>3 DEF PortInv, RoomForAll, Seen, Plain, Looks
  <2> QED
    BY <2>5, <2>6, <2>7 DEF PortInv
<1>6. CASE /\ pc[p] # "fdat" /\ UNCHANGED <<txbuf, xmit, x_char, stopped>>
           /\ pc'[p] \notin {"fdat", "xchar"}
           /\ pc'[p] = "tfcnt" => ~full'[p]
           /\ pc[p] \in Looks => pc'[p] \in Looks \/ xmit[p] = <<>> \/ stopped[p]
  <2>1. Waiting(p) = txbuf[p] /\ Waiting(p)' = Waiting(p)
    BY <1>2, <1>6 DEF Waiting
  <2>2. Few(p)' /\ Conserved(p)'
    BY <1>1, <1>6, <2>1 DEF PortInv, Few, Conserved
  <2>3. Passed(p)' /\ RoomForAll(p)' /\ Plain(p)'
    BY <1>1, <1>2, <1>6 DEF PortInv, Passed, RoomForAll, Plain
  <2>4. Seen(p)'
    BY <1>1, <1>6 DEF PortInv, Seen
  <2> QED
    BY <2>2, <2>3, <2>4 DEF PortInv
<1>7. CASE pc[p] \in DOMAIN Straight /\ Go(p, Straight[pc[p]]) /\ UNCHANGED <<local, core>>
  BY <1>6, <1>7 DEF Straight, local, core, Looks
<1>8. CASE EnableTx(p, d) /\ UNCHANGED <<again, full, txbuf, core>>
  BY <1>6, <1>8 DEF EnableTx, core, Looks
<1>9. CASE /\ pc[p] = "sifr" /\ again' = Set(again, p, d # 0) /\ Go(p, "page")
           /\ UNCHANGED <<val, val_bak, full, txbuf, core>>
  BY <1>6, <1>9 DEF core, Looks
<1>10. CASE TxTests(p) /\ UNCHANGED <<local, core>>
  <2>1. ~x_char[p]
    BY DEF PortInv, Plain
  <2>2. pc[p] = "page" /\ pc'[p] = IF xmit[p] = <<>> \/ stopped[p] THEN "out" ELSE "fsr"
    BY <1>10, <2>1 DEF TxTests
  <2> QED
    BY <1>6, <1>10, <2>2 DEF local, core, Looks
<1>11. CASE pc[p] = "xchar"
  BY <1>11 DEF PortInv, Plain
<1>12. CASE /\ pc[p] = "fsr" /\ full' = Set(full, p, d # 0) /\ Go(p, "tfcnt")
            /\ UNCHANGED <<val, val_bak, again, txbuf, core>>
  <2>1. d = 0
    BY <1>1, <1>12 DEF PortInv, RoomForAll, d
  <2> QED
    BY <1>6, <1>12, <2>1 DEF core, Looks
<1>13. CASE /\ pc[p] = "out" /\ Go(p, IF again[p] THEN "page" ELSE "last")
            /\ UNCHANGED <<local, core>>
  BY <1>6, <1>13 DEF local, core, Looks
<1>14. CASE /\ pc[p] = "last" /\ Go(p, "idle")
            /\ again' = Set(again, p, FALSE)
            /\ UNCHANGED <<val, val_bak, full, txbuf, core>>
  BY <1>6, <1>14 DEF core, Looks
<1> QED
  BY <1>1, <1>4, <1>5, <1>7, <1>8, <1>9, <1>10, <1>11, <1>12, <1>13, <1>14 DEF After

\* TFCNT holds the length of a FIFO that is not full.
LEMMA SmallMod == \A n \in Nat : n < Depth => n % Depth = n
BY WkAssumption

\* With fewer characters than the FIFO is deep, the FIFO is never full, and
\* nothing that a port holds is more than what was written to it.
LEMMA FewFit ==
  ASSUME TypeInv, Undisturbed, NEW p \in Ports, PortInv(p), Waiting(p) = txbuf[p]
  PROVE  /\ Len(fifo[p]) + Len(txbuf[p]) + Len(xmit[p]) <= written[p] /\ written[p] < Depth
         /\ Len(fifo[p]) < Depth /\ ~FifoFull(p)
<1>1. /\ Len(fifo[p]) \in Nat /\ Len(xmit[p]) \in Nat /\ Len(txbuf[p]) \in Nat
      /\ written[p] \in Nat /\ fifo[p] \in Seq(Nat) /\ Depth \in Nat /\ MaxChars[p] \in Nat
  BY HeldTypes, WkAssumption
<1>2. Few(p) /\ MaxChars[p] < Depth
  BY DEF PortInv, Undisturbed
<1>3. Len(fifo[p]) + Len(txbuf[p]) + Len(xmit[p]) <= written[p] /\ written[p] <= MaxChars[p]
  BY <1>1, <1>2 DEF Few
<1>4. written[p] < Depth /\ Len(fifo[p]) < Depth
  <2>1. \A a, b, c, w, m, D \in Nat :
          a + b + c <= w /\ w <= m /\ m < D => w < D /\ a < D
    OBVIOUS
  <2> QED
    BY <1>1, <1>2, <1>3, <2>1
<1>5. ~FifoFull(p)
  BY <1>1, <1>4 DEF FifoFull
<1> QED
  BY <1>3, <1>4, <1>5

\* A transfer ends, on a chip that nobody deselects.
LEMMA FinishSends ==
  ASSUME TypeInv, Undisturbed, NEW p \in Ports, PortInv(p), Finish(p)
  PROVE  PortInv(p)'
<1> USE DEF TypeInv, TypeOK, WorkTypes, CoreTypes, ChipTypes
<1>1. /\ acc[p] = "xfer" /\ acc'[p] = "high" /\ Effect(p) /\ data'[p] \in Answers(p)
      /\ UNCHANGED <<pc, hit, full, txbuf, queued, xmit, x_char, stopped, wire, written, xsent>>
  BY DEF Finish, local, core, users, PortInv, Plain
<1>2. /\ fifo[p] \in Seq(Nat) /\ xmit[p] \in Seq(Nat) /\ txbuf[p] \in Seq(Nat) /\ written[p] \in Nat
      /\ Len(fifo[p]) \in Nat /\ Len(xmit[p]) \in Nat /\ Len(txbuf[p]) \in Nat
  BY HeldTypes
<1>3. Waiting(p) = txbuf[p]
  BY <1>1 DEF Waiting
<1>4. Len(fifo[p]) + Len(txbuf[p]) + Len(xmit[p]) <= written[p] /\ written[p] < Depth
  BY <1>3, FewFit
<1>5. Plain(p)' /\ Passed(p)' /\ Seen(p)'
  BY <1>1 DEF PortInv, Plain, Passed, Seen
<1>6. RoomForAll(p)'
  <2>1. ~hit[p] /\ ~FifoFull(p)
    BY <1>3, FewFit DEF PortInv, Plain
  <2>2. pc[p] = "fsr" => data'[p] = 0
    BY <1>1, <2>1 DEF Answers
  <2>3. pc[p] = "tfcnt" => data'[p] = Len(fifo[p])
    <3>1. Len(fifo[p]) < Depth
      BY <1>3, FewFit
    <3>2. Len(fifo[p]) % Depth = Len(fifo[p])
      BY <1>2, <3>1, SmallMod
    <3> QED
      BY <1>1, <2>1, <3>2 DEF Answers
  <2> QED
    BY <1>1, <1>2, <1>4, <2>2, <2>3 DEF PortInv, RoomForAll
<1>7. CASE pc[p] = "fdat"
  <2>1. txbuf[p] # <<>> /\ Waiting(p)' = Tail(txbuf[p])
    BY <1>1, <1>7 DEF HasChar, Waiting
  <2>2. Head(txbuf[p]) \in Nat /\ Len(Tail(txbuf[p])) = Len(txbuf[p]) - 1
    BY <1>2, <2>1, HeadTailProperties
  <2>3. fifo'[p] = Append(fifo[p], Head(txbuf[p]))
    <3>1. ~FifoFull(p)
      BY <1>3, FewFit
    <3> QED
      BY <1>1, <1>7, <3>1 DEF Effect, Push
  <2>4. Len(fifo'[p]) = Len(fifo[p]) + 1
    BY <1>2, <2>2, <2>3
  <2>5. Few(p)'
    BY <1>1, <1>2, <1>4, <2>1, <2>2, <2>4 DEF PortInv, Few
  <2>6. In(fifo'[p]) \cup In(Tail(txbuf[p])) = In(fifo[p]) \cup In(txbuf[p])
    <3>1. In(Append(fifo[p], Head(txbuf[p]))) = In(fifo[p]) \cup {Head(txbuf[p])}
      <4> DEFINE h == Head(txbuf[p])
                 s == fifo[p]
      <4>1. h \in Nat /\ s \in Seq(Nat)
        BY <1>2, <2>2
      <4> HIDE DEF h, s
      <4>2. In(Append(s, h)) = In(s) \cup {h}
        BY <4>1, InParts
      <4> QED
        BY <4>2 DEF h, s
    <3>2. In(txbuf[p]) = {Head(txbuf[p])} \cup In(Tail(txbuf[p]))
      BY <1>2, <2>1, <2>2, InParts
    <3> QED
      BY <2>3, <3>1, <3>2
  <2>7. Conserved(p)'
    BY <1>1, <1>3, <2>1, <2>6 DEF PortInv, Conserved
  <2> QED
    BY <1>5, <1>6, <2>5, <2>7 DEF PortInv
<1>8. CASE pc[p] # "fdat"
  <2>1. fifo'[p] = fifo[p] /\ Waiting(p)' = Waiting(p)
    BY <1>1, <1>8 DEF Effect, Waiting, PortInv, Plain
  <2>2. Few(p)' /\ Conserved(p)'
    BY <1>1, <2>1 DEF PortInv, Few, Conserved
  <2> QED
    BY <1>5, <1>6, <2>2 DEF PortInv
<1> QED
  BY <1>7, <1>8

\* Steps that move no character.
LEMMA QuietSends ==
  ASSUME NEW p \in Ports, PortInv(p), UNCHANGED <<fifo, wire, written, xmit, txbuf, xsent, x_char, full>>,
         ~hit'[p], pc'[p] \notin {"fdat", "xchar"} \/ pc'[p] = pc[p],
         pc'[p] \notin {"fsr", "tfcnt"} \/ (pc'[p] = pc[p] /\ data'[p] = data[p]),
         acc'[p] = acc[p] \/ (acc[p] # "high" /\ acc'[p] # "high"),
         pc[p] # "fdat" \/ pc'[p] = pc[p],
         Seen(p)'
  PROVE  PortInv(p)'
<1>1. Waiting(p)' = Waiting(p)
  BY DEF Waiting
<1>2. Few(p)' /\ Conserved(p)'
  BY <1>1 DEF PortInv, Few, Conserved
<1>3. Plain(p)' /\ Passed(p)' /\ RoomForAll(p)'
  BY DEF PortInv, Plain, Passed, RoomForAll
<1> QED
  BY <1>2, <1>3 DEF PortInv

\* A user writes: the work item will run, and the FIFO has room for it all.
LEMMA WriteSends ==
  ASSUME TypeInv, Undisturbed, NEW p \in Ports, PortInv(p), Write(p)
  PROVE  PortInv(p)'
<1>1. PICK k \in 1..(MaxChars[p] - written[p]) :
        /\ xmit' = [xmit EXCEPT ![p] = @ \o [i \in 1..k |-> written[p] + i]]
        /\ written' = [written EXCEPT ![p] = @ + k]
  BY DEF Write
<1>0. xmit \in [Ports -> Seq(Nat)] /\ written \in [Ports -> Nat] /\ queued \in [Ports -> BOOLEAN]
        /\ data[p] \in 0..(Depth - 1)
  BY DEF TypeInv, TypeOK, WorkTypes, CoreTypes, ChipTypes
<1> DEFINE new == [i \in 1..k |-> written[p] + i]
<1>2. /\ k \in Nat /\ written[p] \in Nat /\ xmit[p] \in Seq(Nat) /\ Len(xmit[p]) \in Nat
      /\ Len(fifo[p]) \in Nat /\ MaxChars[p] \in Nat /\ k <= MaxChars[p] - written[p]
  BY HeldTypes, WkAssumption
<1>3. new \in Seq(Nat) /\ Len(new) = k /\ 1..(written[p] + k) \subseteq (1..written[p]) \cup In(new)
  BY <1>2, InNew
<1>4. xmit'[p] = xmit[p] \o new /\ written'[p] = written[p] + k
  BY <1>0, <1>1
<1> HIDE DEF new
<1>5. UNCHANGED <<pc, acc, hit, data, local, x_char, stopped, chip, xsent>> /\ queued'[p]
  BY <1>0 DEF Write, work, wk2xxx_start_tx
<1>6. Waiting(p)' = Waiting(p) /\ Waiting(p) \in Seq(Nat)
  BY <1>5, HeldTypes DEF Waiting, local
<1>7. Len(xmit'[p]) = Len(xmit[p]) + k
  BY <1>2, <1>3, <1>4, ConcatProperties
<1>8. Few(p)'
  <2>1. Len(Waiting(p)) \in Nat
    BY <1>6
  <2>2. /\ Len(fifo[p]) + Len(Waiting(p)) + Len(xmit[p]) <= written[p]
        /\ Len(fifo'[p]) = Len(fifo[p]) /\ Len(Waiting(p)') = Len(Waiting(p))
    BY <1>5, <1>6 DEF PortInv, Few, chip
  <2>3. Len(fifo'[p]) + Len(Waiting(p)') + Len(xmit'[p]) <= written'[p]
    <3>1. \A a, b, c, w, n \in Nat : a + b + c <= w => a + b + (c + n) <= w + n
      OBVIOUS
    <3>2. Len(fifo[p]) + Len(Waiting(p)) + (Len(xmit[p]) + k) <= written[p] + k
      BY <1>2, <2>1, <2>2, <3>1
    <3> QED
      BY <1>4, <1>7, <2>2, <3>2
  <2>4. written'[p] <= MaxChars[p]
    BY <1>2, <1>4
  <2> QED
    BY <2>3, <2>4 DEF Few
<1>9. Conserved(p)'
  <2>1. In(xmit'[p]) = In(xmit[p]) \cup In(new)
    <3>1. In(xmit[p] \o new) = In(xmit[p]) \cup In(new)
      BY <1>2, <1>3, InParts
    <3> QED
      BY <1>4, <3>1
  <2> QED
    BY <1>3, <1>4, <1>5, <1>6, <2>1 DEF PortInv, Conserved, chip
<1>10. RoomForAll(p)'
  <2>1. data[p] \in Nat
    BY <1>0, WkAssumption
  <2> QED
    BY <1>2, <1>4, <1>5, <1>7, <2>1 DEF PortInv, RoomForAll, local
<1>11. Plain(p)' /\ Passed(p)' /\ Seen(p)'
  BY <1>5 DEF PortInv, Plain, Passed, Seen, local
<1> QED
  BY <1>8, <1>9, <1>10, <1>11 DEF PortInv

\* The chip sends a character.
LEMMA DrainSends ==
  ASSUME TypeInv, NEW p \in Ports, PortInv(p), Drain(p)
  PROVE  PortInv(p)'
<1>1. /\ wire'[p] = Append(wire[p], Head(fifo[p])) /\ fifo'[p] = Tail(fifo[p]) /\ fifo[p] # <<>>
      /\ UNCHANGED <<work, local, queued, core, users>>
  <2>1. wire \in [Ports -> Seq(Nat)] /\ fifo \in [Ports -> Seq(Nat)]
    BY DEF TypeInv, TypeOK, ChipTypes
  <2> QED
    BY <2>1 DEF Drain
<1>2. /\ wire[p] \in Seq(Nat) /\ fifo[p] \in Seq(Nat) /\ Len(fifo[p]) \in Nat /\ written[p] \in Nat
      /\ Len(xmit[p]) \in Nat /\ Waiting(p) \in Seq(Nat)
  BY HeldTypes
<1>3. Head(fifo[p]) \in Nat /\ Len(Tail(fifo[p])) = Len(fifo[p]) - 1
  BY <1>1, <1>2, HeadTailProperties
<1>4. Waiting(p)' = Waiting(p) /\ Len(Waiting(p)) \in Nat
  BY <1>1, <1>2 DEF Waiting, work, local
<1>5. Few(p)'
  <2>1. /\ Len(fifo[p]) + Len(Waiting(p)) + Len(xmit[p]) <= written[p] /\ written[p] <= MaxChars[p]
        /\ Len(fifo'[p]) = Len(fifo[p]) - 1 /\ Len(Waiting(p)') = Len(Waiting(p))
        /\ UNCHANGED <<xmit, written>>
    BY <1>1, <1>3, <1>4 DEF PortInv, Few, core, users
  <2>2. Len(fifo'[p]) + Len(Waiting(p)') + Len(xmit'[p]) <= written'[p]
    <3>1. \A a, b, c, w \in Nat : a + b + c <= w => (a - 1) + b + c <= w
      OBVIOUS
    <3>2. (Len(fifo[p]) - 1) + Len(Waiting(p)) + Len(xmit[p]) <= written[p]
      BY <1>2, <1>4, <2>1, <3>1
    <3> QED
      BY <2>1, <3>2
  <2> QED
    BY <2>1, <2>2 DEF Few
<1>6. Conserved(p)'
  <2>1. In(Append(wire[p], Head(fifo[p]))) = In(wire[p]) \cup {Head(fifo[p])}
    <3> DEFINE h == Head(fifo[p])
               s == wire[p]
    <3>1. h \in Nat /\ s \in Seq(Nat)
      BY <1>2, <1>3
    <3> HIDE DEF h, s
    <3>2. In(Append(s, h)) = In(s) \cup {h}
      BY <3>1, InParts
    <3> QED
      BY <3>2 DEF h, s
  <2>2. In(fifo[p]) = {Head(fifo[p])} \cup In(Tail(fifo[p]))
    BY <1>1, <1>2, <1>3, InParts
  <2> QED
    BY <1>1, <1>4, <2>1, <2>2 DEF PortInv, Conserved, core, users
<1>7. Plain(p)' /\ Passed(p)' /\ RoomForAll(p)' /\ Seen(p)'
  BY <1>1 DEF PortInv, Plain, Passed, RoomForAll, Seen, work, local, core, users
<1> QED
  BY <1>5, <1>6, <1>7 DEF PortInv

\* Every step keeps what an undisturbed port holds.
LEMMA SendInductive == Undisturbed /\ TypeInv /\ SendInv /\ [Next]_vars => SendInv'
<1> SUFFICES ASSUME Undisturbed, TypeInv, SendInv, [Next]_vars PROVE SendInv'
  OBVIOUS
<1> USE DEF TypeInv, TypeOK, WorkTypes, CoreTypes, ChipTypes
<1>0. ASSUME NEW p \in Ports PROVE PortInv(p) /\ (PortInv(p)' => SendInv')
  BY DEF SendInv, Undisturbed
<1>1. CASE UNCHANGED <<work, local, queued, core, chip, users>>
  <2>1. ASSUME NEW p \in Ports PROVE PortInv(p)'
    <3>1. Seen(p)'
      BY <1>0, <1>1 DEF work, core, PortInv, Seen
    <3>2. ~hit'[p]
      BY <1>0, <1>1 DEF work, PortInv, Plain
    <3> QED
      BY <1>0, <1>1, <3>1, <3>2, QuietSends DEF work, local, core, chip, users
  <2> QED
    BY <2>1 DEF SendInv
<1>2. CASE ProbeTest
  <2>1. ASSUME NEW p \in Ports PROVE PortInv(p)'
    <3>1. Seen(p)'
      BY <1>0, <1>2 DEF ProbeTest, core, PortInv, Seen
    <3>2. ~hit'[p]
      BY <1>0, <1>2 DEF ProbeTest, PortInv, Plain
    <3> QED
      BY <1>0, <1>2, <3>1, <3>2, QuietSends DEF ProbeTest, local, core, chip, users
  <2> QED
    BY <2>1 DEF SendInv
<1>3. ASSUME NEW p \in Ports, Begin(p) PROVE SendInv'
  <2>1. /\ acc[p] # "high" /\ acc'[p] # "high" /\ ~hit'[p]
        /\ UNCHANGED <<pc, data, local, queued, core, chip, users>>
    BY <1>3 DEF Begin
  <2>2. Seen(p)'
    BY <1>0, <2>1 DEF core, PortInv, Seen
  <2> QED
    BY <1>0, <2>1, <2>2, QuietSends DEF local, core, chip, users
<1>4. ASSUME NEW p \in Ports, StartWork(p) PROVE SendInv'
  <2>1. /\ pc[p] = "idle" /\ pc'[p] = "sier_r" /\ UNCHANGED <<acc, hit, data, local, core, chip, users>>
    BY <1>4 DEF StartWork, Go
  <2>2. Seen(p)' /\ ~hit'[p]
    BY <1>0, <2>1 DEF PortInv, Plain, Seen, Looks
  <2> QED
    BY <1>0, <2>1, <2>2, QuietSends DEF local, core, chip, users
<1>5. ASSUME NEW p \in Ports, Finish(p) PROVE SendInv'
  BY <1>0, <1>5, FinishSends
<1>6. ASSUME NEW p \in Ports, Return(p) PROVE SendInv'
  BY <1>0, <1>6, ReturnSends
<1>7. ASSUME NEW p \in Ports, SpiError(p) \/ SendXChar(p) PROVE SendInv'
  <2>1. ~SpiFails /\ MaxX[p] = 0 /\ xsent[p] = 0
    BY <1>0 DEF Undisturbed, PortInv, Plain
  <2> QED
    BY <1>7, <2>1 DEF SpiError, SendXChar
<1>8. ASSUME NEW p \in Ports, TtyStop(p) \/ TtyStart(p) PROVE SendInv'
  <2>1. UNCHANGED <<work, local, xmit, x_char, chip, written, xsent>>
    BY <1>8 DEF TtyStop, TtyStart, users
  <2>2. Seen(p)'
    <3>1. stopped'[p] \/ queued'[p]
      BY <1>8 DEF TtyStop, TtyStart, wk2xxx_start_tx
    <3> QED
      BY <3>1 DEF Seen
  <2>3. ~hit'[p]
    BY <1>0, <2>1 DEF work, PortInv, Plain
  <2> QED
    BY <1>0, <2>1, <2>2, <2>3, QuietSends DEF work, local, chip
<1>9. ASSUME NEW p \in Ports, Write(p) PROVE SendInv'
  BY <1>0, <1>9, WriteSends
<1>10. ASSUME NEW p \in Ports, Drain(p) PROVE SendInv'
  BY <1>0, <1>10, DrainSends
<1> QED
  BY <1>1, <1>2, <1>3, <1>4, <1>5, <1>6, <1>7, <1>8, <1>9, <1>10 DEF Next, vars, wk2xxx_probe, wk2xxx_remove

\* One port on its own, with less to send than its FIFO holds: whenever the
\* users write and flow control stops and starts the port, and however fast the
\* line drains, wk2xxx_work leaves nothing in the ring and loses nothing.
THEOREM NothingLeft == Undisturbed => (Spec => []SentWhenIdle)
<1> SUFFICES ASSUME Undisturbed PROVE Spec => []SentWhenIdle
  OBVIOUS
<1>1. ASSUME Init PROVE SendInv
  <2> SUFFICES ASSUME NEW p \in Ports PROVE PortInv(p)
    BY DEF SendInv
  <2>1. /\ wire[p] = <<>> /\ fifo[p] = <<>> /\ Waiting(p) = <<>> /\ xmit[p] = <<>> /\ txbuf[p] = <<>>
        /\ pc[p] = "idle" /\ ~hit[p] /\ ~x_char[p] /\ xsent[p] = 0 /\ written[p] = 0
    BY <1>1 DEF Init, Waiting
  <2>2. Few(p)
    BY <2>1, WkAssumption DEF Few
  <2> QED
    BY <2>1, <2>2 DEF PortInv, Plain, Passed, RoomForAll, Seen, Conserved
<1>2. SendInv => SentWhenIdle
  <2> SUFFICES ASSUME SendInv, NEW p \in Ports, pc[p] = "idle", ~queued[p], ~stopped[p]
               PROVE  xmit[p] = <<>> /\ 1..written[p] \subseteq In(wire[p]) \cup In(fifo[p])
    BY DEF SentWhenIdle
  <2>1. xmit[p] = <<>> /\ Waiting(p) = <<>>
    BY DEF SendInv, PortInv, Seen, Looks, Passed, Waiting
  <2>2. In(<<>>) = {}
    BY DEF In
  <2> QED
    BY <2>1, <2>2 DEF SendInv, PortInv, Conserved
<1>3. TypeInv /\ SendInv /\ [Next]_vars => SendInv'
  BY SendInductive
<1> QED
  BY <1>1, <1>2, <1>3, TypeInit, TypeInductive, PTL DEF Spec
=============================================================================
