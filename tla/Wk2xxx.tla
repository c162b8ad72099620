------------------------------- MODULE Wk2xxx -------------------------------
(***************************************************************************)
(* The driver of the WK2xxx SPI-to-UART chip                               *)
(* (rk3288/debug/spi/spi2uart.c).  Every sub-port has a work item on a     *)
(* work queue of its own; all of them talk to the chip over one SPI bus,   *)
(* under a global mutex, and drive the chip-select pin by hand.            *)
(***************************************************************************)
EXTENDS Integers, Sequences, FiniteSets

CONSTANTS
  Ports,       \* the sub-ports, numbered like wk2xxxs[]
  Depth,       \* 256: size of a transmit FIFO, and number of values of a register
  SpiFails,    \* may spi_sync fail?
  MaxChars,    \* bound, per port: characters written
  MaxX,        \* bound, per port: XON/XOFF characters sent
  MaxStops     \* bound, per port: how often flow control stops it

ASSUME WkAssumption ==
  /\ Ports \subseteq Nat /\ Depth \in Nat \ {0, 1} /\ Depth % 2 = 0
  /\ SpiFails \in BOOLEAN /\ MaxChars \in [Ports -> Nat]
  /\ MaxX \in [Ports -> Nat] /\ MaxStops \in [Ports -> Nat]

None  == -1        \* nobody owns the mutex
Probe == -2        \* wk2xxx_probe owns it
XChar == 0         \* an XON/XOFF character; data characters are 1, 2, ...

\* The register accesses of wk2xxx_work and wk2xxx_tx_chars; "config" and
\* "last" stand for the accesses whose results are only printed.
Reads  == {"sier_r", "sier_c", "sifr", "fsr", "tfcnt", "out", "last"}
Writes == {"gena", "sier_w", "config", "page", "xchar", "fdat"}
Labels == Reads \cup Writes \cup {"idle"}

VARIABLES
  drv,      \* wk2xxx_probe and wk2xxx_remove
  port,     \* what exists of a port
  lock,     \* owner of wk2xxxs_reg_lock
  pc, acc,  \* the work item: the register access it is at, and how far that is
  hit,      \* was the chip deselected during the transfer?
  data,     \* what the access read
  val, val_bak, again, full, txbuf,   \* locals of wk2xxx_work and wk2xxx_tx_chars
  queued,   \* the work item is pending
  xmit, x_char, stopped,     \* the serial core's state of the port
  sier, fifo, wire,          \* the chip: SIER, transmit FIFO, and line
  written, xsent, stops      \* what the users did

local == <<val, val_bak, again, full, txbuf>>
core  == <<xmit, x_char, stopped>>
chip  == <<sier, fifo, wire>>
users == <<written, xsent, stops>>
life  == <<drv, port>>
work  == <<lock, pc, acc, hit, data>>
vars  == <<life, work, local, queued, core, chip, users>>

Init ==
  /\ drv = "probe" /\ port = [p \in Ports |-> "absent"]
  /\ lock = None /\ pc = [p \in Ports |-> "idle"] /\ acc = [p \in Ports |-> "call"]
  /\ hit = [p \in Ports |-> FALSE] /\ data = [p \in Ports |-> 0]
  /\ val = [p \in Ports |-> 0] /\ val_bak = [p \in Ports |-> 0] /\ again = [p \in Ports |-> FALSE]
  /\ full = [p \in Ports |-> FALSE] /\ txbuf = [p \in Ports |-> <<>>]
  /\ queued = [p \in Ports |-> FALSE]
  /\ xmit = [p \in Ports |-> <<>>] /\ x_char = [p \in Ports |-> FALSE]
  /\ stopped = [p \in Ports |-> FALSE]
  /\ sier = [p \in Ports |-> 0] /\ fifo = [p \in Ports |-> <<>>]
  /\ wire = [p \in Ports |-> <<>>]
  /\ written = [p \in Ports |-> 0] /\ xsent = [p \in Ports |-> 0]
  /\ stops = [p \in Ports |-> 0]

-----------------------------------------------------------------------------
(* wk2xxx_probe and wk2xxx_remove.                                          *)

\* Ten reads and writes of GENA, then uart_register_driver.  An SPI error
\* leaves the mutex locked and the next access, if there is one, waits for it.
ProbeTest ==
  /\ drv = "probe"
  /\ \/ drv' \in {"ports", "failed"} /\ UNCHANGED lock
     \/ SpiFails /\ drv' \in {"ports", "failed", "stuck"} /\ lock' = Probe
  /\ UNCHANGED <<port, pc, acc, hit, data, local, queued, core, chip, users>>

Before(p, s) == \A q \in Ports : q < p => port[q] = s

\* uart_add_one_port, then create_workqueue, INIT_WORK and request_irq.  An
\* error return leaves behind what exists.
wk2xxx_probe(p) ==
  /\ drv = "ports" /\ Before(p, "ready")
  /\ \/ port[p] = "absent" /\ port' = [port EXCEPT ![p] = "added"] /\ UNCHANGED drv
     \/ /\ port[p] = "added" /\ port' = [port EXCEPT ![p] = "ready"]
        /\ drv' = IF \A q \in Ports : q <= p THEN "up" ELSE "ports"
     \/ port[p] \in {"absent", "added"} /\ drv' = "failed" /\ UNCHANGED port
  /\ UNCHANGED <<work, local, queued, core, chip, users>>

\* uart_remove_one_port, then destroy_workqueue, which waits for the work item.
wk2xxx_remove(p) ==
  /\ drv \in {"up", "down"} /\ drv' = "down" /\ Before(p, "removed")
  /\ \/ port[p] = "ready" /\ port' = [port EXCEPT ![p] = "closing"]
     \/ /\ port[p] = "closing" /\ pc[p] = "idle" /\ ~queued[p]
        /\ port' = [port EXCEPT ![p] = "removed"]
  /\ UNCHANGED <<work, local, queued, core, chip, users>>

-----------------------------------------------------------------------------
(* wk2xxx_read_reg and wk2xxx_write_reg: take the mutex, select the chip,   *)
(* transfer, release the mutex, deselect the chip.                          *)

\* mutex_lock and chip_select_enable(CS_LOW).
CanLockAny == TRUE        \* mutant: the mutex is not taken
CanLock    == lock = None
Begin(p) ==
  /\ pc[p] # "idle" /\ acc[p] = "call" /\ CanLock
  /\ lock' = p /\ acc' = [acc EXCEPT ![p] = "xfer"] /\ hit' = [hit EXCEPT ![p] = FALSE]
  /\ UNCHANGED <<life, pc, data, local, queued, core, chip, users>>

\* What a read of the chip returns.  SIFR's receive bits depend on the line;
\* a transfer cut short returns anything.
FifoFull(p) == Len(fifo[p]) = Depth
Answers(p) ==
  IF hit[p] \/ pc[p] = "sifr" THEN 0..(Depth - 1)
  ELSE CASE pc[p] \in {"sier_r", "sier_c"} -> {sier[p]}
         [] pc[p] = "fsr"                  -> {IF FifoFull(p) THEN 1 ELSE 0}
         [] pc[p] = "tfcnt"                -> {Len(fifo[p]) % Depth}
         [] OTHER                          -> {0}

\* A FIFO that is full drops what is written to it.
Push(p, c) == IF FifoFull(p) THEN fifo ELSE [fifo EXCEPT ![p] = Append(@, c)]
Effect(p) ==
  /\ sier' = IF pc[p] = "sier_w" THEN [sier EXCEPT ![p] = val[p]] ELSE sier
  /\ fifo' = CASE pc[p] = "fdat"  -> Push(p, Head(txbuf[p]))
               [] pc[p] = "xchar" -> Push(p, XChar)
               [] OTHER           -> fifo

\* The transfer is over: the chip obeyed, and the mutex is released.
Finish(p) ==
  /\ acc[p] = "xfer" /\ acc' = [acc EXCEPT ![p] = "high"] /\ lock' = None
  /\ \E d \in Answers(p) : data' = [data EXCEPT ![p] = d]
  /\ Effect(p) \/ (hit[p] /\ UNCHANGED <<sier, fifo>>)
  /\ UNCHANGED <<life, pc, hit, local, queued, core, wire, users>>

\* chip_select_enable(CS_HIGH), after the mutex was released: whoever is
\* transferring by now has its chip taken away.
Deselect == hit' = [q \in Ports |-> hit[q] \/ acc[q] = "xfer"]

-----------------------------------------------------------------------------
(* What wk2xxx_work and wk2xxx_tx_chars do between two register accesses.   *)

Go(p, l)      == pc' = [pc EXCEPT ![p] = l]
Set(f, p, v)  == [f EXCEPT ![p] = v]
Straight      == [gena |-> "sier_w", sier_w |-> "sier_c", config |-> "sifr"]

\* SIER is written until it reads back, from the value read back.  Its lowest
\* bit stands for TFTRIG_IEN.  A local that is not used again is zero.
AddBit(d) == d + 1          \* mutant: the bit is added, not set
SetBit(d) == IF d % 2 = 1 THEN d ELSE d + 1
EnableTx(p, d) ==
  \/ /\ pc[p] = "sier_r" /\ val' = Set(val, p, SetBit(d)) /\ Go(p, "gena")
     /\ val_bak' = Set(val_bak, p, SetBit(d))
  \/ /\ pc[p] = "sier_c" /\ d # val_bak[p] /\ val' = Set(val, p, d)
     /\ UNCHANGED val_bak /\ Go(p, "gena")
  \/ /\ pc[p] = "sier_c" /\ d = val_bak[p] /\ val' = Set(val, p, 0)
     /\ val_bak' = Set(val_bak, p, 0) /\ Go(p, "config")

\* wk2xxx_tx_chars, at its two tests.
TxTests(p) ==
  /\ pc[p] = "page"
  /\ Go(p, CASE x_char[p] -> "xchar"
             [] ~x_char[p] /\ (xmit[p] = <<>> \/ stopped[p]) -> "out"
             [] OTHER -> "fsr")

\* How many characters fit, from FSR and TFCNT.  The loop that takes them
\* runs at least once.
RoomLong(p, tfcnt) ==         \* mutant: counts to 256
  IF tfcnt = 0 THEN (IF full[p] THEN 0 ELSE Depth) ELSE Depth - tfcnt
RoomSwapped(p, tfcnt) ==      \* mutant: the branches of TFULL are swapped
  IF tfcnt = 0 THEN (IF full[p] THEN Depth - 1 ELSE 0) ELSE Depth - 1 - tfcnt
Room(p, tfcnt) ==
  IF tfcnt = 0 THEN (IF full[p] THEN 0 ELSE Depth - 1) ELSE Depth - 1 - tfcnt
Taken(p, tfcnt) ==
  LET room == Room(p, tfcnt)
      most == IF room > 1 THEN room ELSE 1
  IN  IF Len(xmit[p]) < most THEN Len(xmit[p]) ELSE most
TakeCharsKept(p, d) ==        \* mutant: the tail of the ring does not move
  /\ pc[p] = "tfcnt" /\ UNCHANGED xmit
  /\ txbuf' = Set(txbuf, p, SubSeq(xmit[p], 1, Taken(p, d)))
  /\ full' = Set(full, p, FALSE) /\ Go(p, IF Taken(p, d) = 0 THEN "out" ELSE "fdat")
TakeChars(p, d) ==
  /\ pc[p] = "tfcnt"
  /\ txbuf' = Set(txbuf, p, SubSeq(xmit[p], 1, Taken(p, d)))
  /\ xmit' = Set(xmit, p, SubSeq(xmit[p], Taken(p, d) + 1, Len(xmit[p])))
  /\ full' = Set(full, p, FALSE) /\ Go(p, IF Taken(p, d) = 0 THEN "out" ELSE "fdat")

After(p, d) ==
  \/ /\ pc[p] \in DOMAIN Straight /\ Go(p, Straight[pc[p]])
     /\ UNCHANGED <<local, core>>
  \/ EnableTx(p, d) /\ UNCHANGED <<again, full, txbuf, core>>
  \/ /\ pc[p] = "sifr" /\ again' = Set(again, p, d # 0) /\ Go(p, "page")
     /\ UNCHANGED <<val, val_bak, full, txbuf, core>>
  \/ TxTests(p) /\ UNCHANGED <<local, core>>
  \/ /\ pc[p] = "xchar" /\ x_char' = Set(x_char, p, FALSE) /\ Go(p, "out")
     /\ UNCHANGED <<local, xmit, stopped>>
  \/ /\ pc[p] = "fsr" /\ full' = Set(full, p, d # 0) /\ Go(p, "tfcnt")
     /\ UNCHANGED <<val, val_bak, again, txbuf, core>>
  \/ TakeChars(p, d) /\ UNCHANGED <<val, val_bak, again, x_char, stopped>>
  \/ /\ pc[p] = "fdat" /\ txbuf' = Set(txbuf, p, Tail(txbuf[p]))
     /\ Go(p, IF Len(txbuf[p]) = 1 THEN "out" ELSE "fdat")
     /\ UNCHANGED <<val, val_bak, again, full, core>>
  \/ /\ pc[p] = "out" /\ Go(p, IF again[p] THEN "page" ELSE "last")
     /\ UNCHANGED <<local, core>>
  \/ /\ pc[p] = "last" /\ Go(p, "idle")
     /\ again' = Set(again, p, FALSE) /\ UNCHANGED <<val, val_bak, full, txbuf, core>>

\* The access returns and the work item goes on.
Return(p) ==
  /\ acc[p] = "high" /\ acc' = [acc EXCEPT ![p] = "call"]
  /\ Deselect /\ After(p, data[p]) /\ data' = [data EXCEPT ![p] = 0]
  /\ UNCHANGED <<life, lock, queued, chip, users>>

\* An SPI error returns at once, with the mutex locked and nothing read; the
\* callers do not look at the status.
SpiError(p) ==
  /\ SpiFails /\ acc[p] = "xfer" /\ acc' = [acc EXCEPT ![p] = "call"]
  /\ \E d \in 0..(Depth - 1) : After(p, d)
  /\ UNCHANGED <<life, lock, hit, data, queued, chip, users>>

\* The work queue runs wk2xxx_work.
StartWork(p) ==
  /\ pc[p] = "idle" /\ queued[p]
  /\ queued' = [queued EXCEPT ![p] = FALSE] /\ Go(p, "sier_r")
  /\ UNCHANGED <<life, lock, acc, hit, data, local, core, chip, users>>

-----------------------------------------------------------------------------
(* The users of the ports, through the serial core.                         *)

\* Ports are used once wk2xxx_probe is done.
Usable(p) == drv \in {"up", "down"} /\ port[p] = "ready"

\* queue_work: a work item that runs may be queued again.
wk2xxx_start_tx_idle(p) ==    \* mutant: a running work item is not queued again
  queued' = IF pc[p] = "idle" THEN [queued EXCEPT ![p] = TRUE] ELSE queued
wk2xxx_start_tx(p) == queued' = [queued EXCEPT ![p] = TRUE]

\* uart_write: characters into the ring, then start_tx.
Write(p) ==
  /\ Usable(p)
  /\ \E k \in 1..(MaxChars[p] - written[p]) :
       /\ xmit' = [xmit EXCEPT ![p] = @ \o [i \in 1..k |-> written[p] + i]]
       /\ written' = [written EXCEPT ![p] = @ + k]
  /\ wk2xxx_start_tx(p)
  /\ UNCHANGED <<life, work, local, x_char, stopped, chip, xsent, stops>>

\* uart_send_xchar.
SendXChar(p) ==
  /\ Usable(p) /\ xsent[p] < MaxX[p] /\ xsent' = [xsent EXCEPT ![p] = @ + 1]
  /\ x_char' = [x_char EXCEPT ![p] = TRUE]
  /\ wk2xxx_start_tx(p)
  /\ UNCHANGED <<life, work, local, xmit, stopped, chip, written, stops>>

\* Flow control: uart_stop and uart_start.
TtyStop(p) ==
  /\ Usable(p) /\ ~stopped[p] /\ stops[p] < MaxStops[p]
  /\ stops' = [stops EXCEPT ![p] = @ + 1] /\ stopped' = [stopped EXCEPT ![p] = TRUE]
  /\ UNCHANGED <<life, work, local, queued, xmit, x_char, chip, written, xsent>>

TtyStart(p) ==
  /\ Usable(p) /\ stopped[p] /\ stopped' = [stopped EXCEPT ![p] = FALSE]
  /\ wk2xxx_start_tx(p)
  /\ UNCHANGED <<life, work, local, xmit, x_char, chip, users>>

\* The chip sends a character.
Drain(p) ==
  /\ fifo[p] # <<>>
  /\ wire' = [wire EXCEPT ![p] = Append(@, Head(fifo[p]))]
  /\ fifo' = [fifo EXCEPT ![p] = Tail(@)]
  /\ UNCHANGED <<life, work, local, queued, core, sier, users>>

Next ==
  \/ ProbeTest
  \/ \E p \in Ports :
       \/ wk2xxx_probe(p) \/ wk2xxx_remove(p)
       \/ StartWork(p) \/ Begin(p) \/ Finish(p) \/ Return(p) \/ SpiError(p)
       \/ Write(p) \/ SendXChar(p) \/ TtyStop(p) \/ TtyStart(p) \/ Drain(p)

Spec == Init /\ [][Next]_vars

\* Work items run, mutexes are handed on, the line drains, and flow control
\* lets a stopped port go on.
FairSpec ==
  /\ Spec
  /\ \A p \in Ports : /\ WF_vars(StartWork(p) \/ Finish(p) \/ Return(p)) /\ SF_vars(Begin(p))
                      /\ WF_vars(TtyStart(p)) /\ WF_vars(Drain(p))

-----------------------------------------------------------------------------
(* Properties.                                                              *)

LifeTypes ==
  /\ drv \in {"probe", "ports", "up", "down", "failed", "stuck"}
  /\ port \in [Ports -> {"absent", "added", "ready", "closing", "removed"}]
WorkTypes ==
  /\ lock \in Ports \cup {None, Probe}
  /\ pc \in [Ports -> Labels] /\ acc \in [Ports -> {"call", "xfer", "high"}]
  /\ hit \in [Ports -> BOOLEAN] /\ data \in [Ports -> 0..(Depth - 1)]
  /\ val \in [Ports -> 0..(Depth - 1)] /\ val_bak \in [Ports -> 0..(Depth - 1)]
  /\ again \in [Ports -> BOOLEAN]
  /\ full \in [Ports -> BOOLEAN] /\ txbuf \in [Ports -> Seq(Nat)]
CoreTypes ==
  /\ queued \in [Ports -> BOOLEAN] /\ xmit \in [Ports -> Seq(Nat)]
  /\ x_char \in [Ports -> BOOLEAN] /\ stopped \in [Ports -> BOOLEAN]
ChipTypes ==
  /\ sier \in [Ports -> 0..(Depth - 1)]
  /\ fifo \in [Ports -> Seq(Nat)] /\ \A p \in Ports : Len(fifo[p]) <= Depth
  /\ wire \in [Ports -> Seq(Nat)]
  /\ written \in [Ports -> Nat] /\ xsent \in [Ports -> Nat] /\ stops \in [Ports -> Nat]

\* Every variable of the model keeps its type, and a FIFO its size.
TypeOK == LifeTypes /\ WorkTypes /\ CoreTypes /\ ChipTypes

\* Only the owner of wk2xxxs_reg_lock transfers, so two transfers of the work
\* items never overlap, even after an SPI error kept the mutex locked.
Exclusive ==
  \A p \in Ports : acc[p] = "xfer" =>
    lock = p /\ \A q \in Ports : acc[q] = "xfer" => q = p

\* What the line, the FIFO, wk2xxx_tx_chars and the ring hold of a port, in
\* this order, are characters in the order they were written: none is sent
\* twice and none overtakes another.
Waiting(p) == IF pc[p] = "fdat" /\ acc[p] = "high" THEN Tail(txbuf[p]) ELSE txbuf[p]
Held(p)    == wire[p] \o fifo[p] \o Waiting(p) \o xmit[p]
Rising(s)  == \A i, j \in 1..Len(s) : i < j /\ s[i] # XChar /\ s[j] # XChar => s[i] < s[j]
InOrder    == \A p \in Ports : Rising(Held(p))

\* Whatever FSR and TFCNT say, even if an SPI error or a deselected chip made
\* them up, wk2xxx_tx_chars never takes more characters than txbuf[255] has room for.
TxbufFits == \A p \in Ports : Len(txbuf[p]) <= Depth - 1

\* "echo 1 > /dev/ttysWK<0|1|2|3>": what is written to an open port is sent.
EveryCharSent ==
  \A p \in Ports : \A c \in 1..MaxChars[p] :
    (written[p] >= c) ~> (port[p] # "ready" \/ \E i \in DOMAIN wire[p] : wire[p][i] = c)

\* The elements of a sequence.
In(s) == {s[i] : i \in 1..Len(s)}

\* The same as an invariant: when the work item of a port is done, nothing is
\* left in the ring and every character is on the line or in the FIFO.
SentWhenIdle ==
  \A p \in Ports :
    port[p] = "ready" /\ pc[p] = "idle" /\ ~queued[p] /\ ~stopped[p] =>
      xmit[p] = <<>> /\ 1..written[p] \subseteq In(wire[p]) \cup In(fifo[p])
=============================================================================
