------------------------------ MODULE RockUsb ------------------------------
(***************************************************************************)
(* The RK3399 boot loader's "rockusb" download mode                        *)
(* (rk3399/debug/usb/cmd_rockusb.c, built with CONFIG_RK_DWC3_UDC): a USB  *)
(* device that executes the storage commands of a flashing tool.  A        *)
(* command is a CBW, an optional data stage, and a CSW.  do_rockusb polls: *)
(* the handlers of the USB controller only run inside                      *)
(* dwc3_uboot_handle_interrupt, at the top of its loop, while the          *)
(* controller moves data between the host and the buffers all the time.    *)
(*                                                                         *)
(* Sizes are counted in blocks of the command's block_length (528 bytes    *)
(* for the physical commands, 512 for the logical ones).                   *)
(***************************************************************************)
EXTENDS Integers, Sequences, FiniteSets

CONSTANTS
  Cmds,           \* what the host may ask: a set of [cmnd, lba, n, sub]
  BufMax,         \* RKUSB_BUFFER_BLOCK_MAX
  Word,           \* 2^32: addresses and counters are uint32_t
  Lbas,           \* the block addresses the storage has
  VendorSysLba,   \* 0xFFFFFF00: first address of the vendor system data
  UnlockLba,      \* 0xFFFFF000: address of the secure-boot unlock data
  VendorLbas,     \* 0xFFF00000 .. 0xFFF0FFFF: vendor storage identifiers
  StorageFails,   \* may a call of the storage driver fail?
  Flag,           \* do_rockusb's flag: entered by pressing the recovery key
  Faults,         \* the bus events and transfer errors that may happen
  MaxCmds,        \* bound: number of commands the host issues
  MaxFaults       \* bound: number of bus events and transfer errors

ReadCmds  == {"READ_10", "LBA_READ_10"}
WriteCmds == {"WRITE_10", "LBA_WRITE_10"}
InfoCmds  == {"READ_FLASH_ID", "TEST_BAD_BLOCK", "READ_FLASH_INFO", "GET_CHIP_VER"}
EraseCmds == {"ERASE_10", "ERASE_10_FORCE"}
PlainCmds == {"TEST_UNIT_READY", "ERASE_SYS_DISK", "LOW_FORMAT",
              "SET_RESET_FLAG", "RESET"}
KnownCmds == ReadCmds \cup WriteCmds \cup InfoCmds \cup EraseCmds \cup PlainCmds
Cmnds     == KnownCmds \cup {"UNKNOWN"}

Request == [cmnd : Cmnds, lba : Nat, n : Nat, sub : Nat]

AbortEvents == {"clear_in", "clear_out", "clear_both", "reset"}
ErrorEvents == {"rx_err", "tx_err"}
ControlEvents == {"address", "configured"} \cup AbortEvents

ASSUME ConstantsAssumption ==
  /\ Cmds \subseteq Request
  /\ BufMax \in Nat \ {0} /\ Word \in Nat \ {0}
  /\ Lbas \subseteq Nat
  /\ VendorSysLba \in Nat /\ UnlockLba \in Nat /\ VendorLbas \subseteq Nat
  /\ \A l \in Lbas : l < VendorSysLba /\ l # UnlockLba /\ l \notin VendorLbas
  /\ UnlockLba < VendorSysLba /\ UnlockLba \notin VendorLbas
  /\ StorageFails \in BOOLEAN /\ Flag \in BOOLEAN
  /\ Faults \subseteq AbortEvents \cup ErrorEvents
  /\ MaxCmds \in Nat /\ MaxFaults \in Nat

CSW_GOOD == 0
CSW_FAIL == 1

\* A block of data is named by the command that wrote it (0: it was there
\* before) and its position in that command's data.
Val    == Nat \X Nat
Opaque == <<0, 0>>      \* erased, unreadable, or an answer that is not media data

Cbw    == [cmnd : Cmnds, tag : Nat, lba : Nat, n : Nat, sub : Nat]
NoCbw  == [cmnd |-> "UNKNOWN", tag |-> 0, lba |-> 0, n |-> 0, sub |-> 0]

Bufs   == {0, 1}
NULL   == 2
Spaces == {"PBA", "LBA"}
Space(cmnd) == IF cmnd \in {"READ_10", "WRITE_10"} \cup EraseCmds THEN "PBA" ELSE "LBA"

Pcs      == {"start", "intr", "idle", "response", "media", "csw", "check", "reset", "exit"}
Statuses == {"IDLE", "CMD", "RXDATA", "TXDATA", "CSW", "RXDATA_PREPARE", "TXDATA_PREPARE"}
Phases   == {"detached", "addressed", "ready", "in", "out", "status", "broken"}

\* What a DMA buffer holds.
TxContent == [kind : {"none", "data", "csw"}, tag : Nat, st : {CSW_GOOD, CSW_FAIL},
              blocks : Seq(Val)]
RxContent == [kind : {"none", "data", "cbw"}, cbw : Cbw, blocks : Seq(Val)]
NoTx == [kind |-> "none", tag |-> 0, st |-> CSW_GOOD, blocks |-> <<>>]
DataTx(s) == [kind |-> "data", tag |-> 0, st |-> CSW_GOOD, blocks |-> s]
NoRx == [kind |-> "none", cbw |-> NoCbw, blocks |-> <<>>]

\* A request on a bulk endpoint; the 31 bytes of a CBW are no full block.
Req        == [buf : Bufs, len : Nat]
EventTypes == {"rx", "tx"} \cup ControlEvents \cup ErrorEvents
Event      == [type : EventTypes, n : Nat, buf : Bufs]
Ev(t)      == [type |-> t, n |-> 0, buf |-> 0]

VARIABLES
  pc,           \* where do_rockusb's loop is
  status,       \* usbcmd.status
  configured,   \* usbcmd.configured
  cbw,          \* usbcmd.cbw; usbcmd.cmnd is its cmnd
  csw_st,       \* usbcmd.csw.Status
  d_size, d_bytes, u_size, u_bytes, lba,
  pre_read,     \* usbcmd.pre_read
  rx_giveback, tx_status,  \* usbcmd.rx_giveback, usbcmd.tx_giveback.status
  rxbuf_num, txbuf_num,
  rx_buffer, tx_buffer,    \* what the four DMA buffers hold
  wr,           \* rkusb_handle_datarx's rxdata_buf and rxdata_blocks
  reset_flag,   \* usbcmd.reset_flag
  lowformat,    \* FW_SorageLowFormatEn
  locked,       \* SecureBootLock
  loader_flag,  \* ISetLoaderFlag
  media,        \* the storage, per address space
  out_reqs, in_reqs,       \* requests queued on the two bulk endpoints
  events,       \* controller events not yet handled
  h_phase, h_cbw, h_got, h_sent, h_csw,  \* the host
  faults

cmdv   == <<cbw, csw_st>>
flags  == <<reset_flag, lowformat>>
upv    == <<u_bytes, pre_read>>
xfer   == <<d_size, d_bytes, u_size, lba, upv>>
boot   == <<locked, loader_flag>>
rxside == <<rx_giveback, rxbuf_num, out_reqs>>
txside == <<tx_status, txbuf_num, in_reqs>>
hostv  == <<h_phase, h_cbw, h_got, h_sent, h_csw>>
vars   == <<pc, status, configured, cmdv, flags, xfer, rxside, txside, rx_buffer,
            tx_buffer, wr, boot, media, events, hostv, faults>>

Init ==
  /\ pc = "start" /\ status = "IDLE" /\ configured = FALSE
  /\ cbw = NoCbw /\ csw_st = CSW_GOOD
  /\ d_size = 0 /\ d_bytes = 0 /\ u_size = 0 /\ u_bytes = 0 /\ lba = 0
  /\ pre_read = [buf |-> NULL, lba |-> 0, blocks |-> 0]
  /\ rx_giveback = [status |-> "ZERO", actual |-> 0, buf |-> NULL]
  /\ tx_status = "ZERO"
  /\ rxbuf_num = 0 /\ txbuf_num = 0
  /\ rx_buffer = [b \in Bufs |-> NoRx] /\ tx_buffer = [b \in Bufs |-> NoTx]
  /\ wr = [buf |-> NULL, blocks |-> 0]
  /\ reset_flag = 0 /\ lowformat = FALSE /\ locked \in BOOLEAN /\ loader_flag = "none"
  /\ media = [s \in Spaces |-> [l \in Lbas |-> <<0, l + 1>>]]
  /\ out_reqs = <<>> /\ in_reqs = <<>> /\ events = <<>>
  /\ h_phase = "detached" /\ h_cbw = NoCbw /\ h_got = <<>> /\ h_sent = 0
  /\ h_csw = [tag |-> 0, st |-> CSW_GOOD]
  /\ faults = 0

-----------------------------------------------------------------------------
Least(a, b)   == IF a < b THEN a ELSE b

FlipStuck(b)  == b         \* mutant: the buffers are not swapped
FlipOver(b)   == b + 1     \* mutant: no "% 2"
\* The other buffer of a pair: (num + 1) % 2.
Flip(b)       == 1 - b

AddNothing(a, b) == a      \* mutant: the address is not advanced
\* Addition of uint32_t.
Add(a, b)     == (a + b) % Word

\* How many blocks the next transfer of a stage with `rem' blocks left has.
Chunk(rem)    == Least(rem, BufMax)

\* What the storage driver delivers for k blocks at l (zeroes when it fails:
\* the buffer was cleared first), and the media after it stored k blocks of s.
BlockAt(s, i) == IF i \in DOMAIN s THEN s[i] ELSE Opaque
StorageRead(sp, l, k) ==
  [i \in 1..k |-> IF l + i - 1 \in Lbas THEN media[sp][l + i - 1] ELSE Opaque]
StorageWrite(sp, l, k, s) ==
  [media EXCEPT ![sp] = [x \in Lbas |->
     IF x >= l /\ x < l + k THEN BlockAt(s, x - l + 1) ELSE media[sp][x]]]
Failing == IF StorageFails THEN BOOLEAN ELSE {FALSE}

-----------------------------------------------------------------------------
(* The two bulk endpoints.  Every caller flips the buffer number next.      *)

\* A request on an endpoint that is not configured is refused, unnoticed.
Queue(on, reqs, r) == IF on THEN Append(reqs, r) ELSE reqs

rkusb_write_bulk_ep(k) ==
  /\ tx_status' = "IN_PROGRESS"
  /\ in_reqs' = Queue(configured, in_reqs, [buf |-> txbuf_num, len |-> k])
  /\ txbuf_num' = Flip(txbuf_num)

\* Mutant: the length of the previous transfer is kept.
rkusb_read_bulk_epStale(on, reqs, k, b) ==
  /\ rx_giveback' = [rx_giveback EXCEPT !.status = "READY"]
  /\ out_reqs' = Queue(on, reqs, [buf |-> b, len |-> k])
  /\ rxbuf_num' = Flip(b)
rkusb_read_bulk_ep(on, reqs, k, b) ==
  /\ rx_giveback' = [status |-> "READY", actual |-> 0, buf |-> NULL]
  /\ out_reqs' = Queue(on, reqs, [buf |-> b, len |-> k])
  /\ rxbuf_num' = Flip(b)

(* The callbacks of the controller, run by dwc3_uboot_handle_interrupt.     *)

dwc3_rx_handler(e) ==
  /\ e.type \in {"rx", "rx_err"}
  /\ rx_giveback' = IF e.type = "rx"
                    THEN [status |-> "OK", actual |-> e.n, buf |-> e.buf]
                    ELSE [rx_giveback EXCEPT !.status = "ERROR"]
  /\ UNCHANGED <<status, configured, rxbuf_num, out_reqs, txside>>

dwc3_tx_handler(e) ==
  /\ e.type \in {"tx", "tx_err"}
  /\ tx_status' = IF e.type = "tx" THEN "OK" ELSE "ERROR"
  /\ UNCHANGED <<status, configured, txbuf_num, in_reqs, rxside>>

StatusKept(e)  == status    \* mutant: the command goes on after a CLEAR_FEATURE
StatusAfter(e) == IF e.type \in {"reset", "configured"} THEN status ELSE "IDLE"

\* The controller drops the requests of the endpoints a reset disables or whose
\* halt is cleared; the host waits for a control request to be handled.
rkusb_event_handler_for_dwc3(e) ==
  /\ e.type \in ControlEvents
  /\ configured' = (e.type = "configured" \/ (configured /\ e.type # "reset"))
  /\ status' = StatusAfter(e)
  /\ IF e.type \in {"configured", "clear_in", "clear_both"}
     THEN tx_status' = "OK" /\ txbuf_num' = 0
     ELSE UNCHANGED <<tx_status, txbuf_num>>
  /\ in_reqs' = IF e.type \in {"address", "clear_out"} THEN in_reqs ELSE <<>>
  /\ IF e.type \in {"configured", "clear_out", "clear_both"}
     THEN rkusb_read_bulk_ep(TRUE, <<>>, 0, 0)
     ELSE /\ out_reqs' = IF e.type = "reset" THEN <<>> ELSE out_reqs
          /\ UNCHANGED <<rx_giveback, rxbuf_num>>

\* rk_dwc3_connect: the device shows up on the bus, or do_rockusb gives up.
Connect ==
  /\ pc = "start" /\ pc' \in {"intr", "exit"}
  /\ UNCHANGED <<status, configured, cmdv, flags, xfer, rxside, txside, rx_buffer,
                 tx_buffer, wr, boot, media, events, hostv, faults>>

HandleEvent ==
  /\ pc = "intr" /\ events # <<>>
  /\ events' = Tail(events)
  /\ \/ dwc3_rx_handler(Head(events))
     \/ dwc3_tx_handler(Head(events))
     \/ rkusb_event_handler_for_dwc3(Head(events))
  /\ UNCHANGED <<pc, cmdv, flags, xfer, rx_buffer, tx_buffer, wr, boot, media,
                 hostv, faults>>

EndInterrupt ==
  /\ pc = "intr" /\ events = <<>> /\ pc' = "idle"
  /\ UNCHANGED <<status, configured, cmdv, flags, xfer, rxside, txside, rx_buffer,
                 tx_buffer, wr, boot, media, events, hostv, faults>>

-----------------------------------------------------------------------------
(* do_rockusb_cmd: the FW_ functions, each given the CBW just copied.       *)

FW_TestUnitReady(c) ==
  /\ c.cmnd = "TEST_UNIT_READY"
  /\ \E valid \in BOOLEAN :      \* FW_StorageGetValid
       /\ csw_st' = IF ~valid \/ c.sub = 253 \/ (locked /\ c.sub \notin {249, 250})
                    THEN CSW_FAIL ELSE CSW_GOOD
       /\ lowformat' = (lowformat \/ (valid /\ c.sub = 253))
       /\ reset_flag' = IF valid /\ c.sub = 250 THEN 16 ELSE reset_flag
  /\ status' = "CSW"
  /\ UNCHANGED <<xfer, rx_giveback, tx_buffer, media>>

\* FW_ReadID, FW_TestBadBlock, FW_GetFlashInfo and FW_GetChipVer.
FW_Info(c) ==
  /\ c.cmnd \in InfoCmds
  /\ tx_buffer' = [tx_buffer EXCEPT ![txbuf_num] = DataTx(<<Opaque>>)]
  /\ csw_st' = CSW_GOOD /\ status' = "TXDATA"
  /\ UNCHANGED <<xfer, rx_giveback, flags, media>>

\* FW_Read10 and FW_LBARead10.
FW_Read(c) ==
  /\ c.cmnd \in ReadCmds
  /\ u_size' = c.n /\ u_bytes' = 0 /\ lba' = c.lba
  /\ status' = "TXDATA_PREPARE"
  /\ UNCHANGED <<csw_st, d_size, d_bytes, pre_read, rx_giveback, tx_buffer, flags, media>>

\* FW_Write10 and FW_LBAWrite10.
FW_Write(c) ==
  /\ c.cmnd \in WriteCmds
  /\ d_size' = c.n /\ d_bytes' = 0 /\ lba' = c.lba
  /\ pre_read' = IF \/ Add(c.lba, c.n) < pre_read.lba
                    \/ c.lba > Add(pre_read.lba, pre_read.blocks)
                 THEN pre_read ELSE [pre_read EXCEPT !.lba = 0, !.blocks = 0]
  /\ rx_giveback' = [rx_giveback EXCEPT !.actual = 0]
  /\ status' = "RXDATA_PREPARE"
  /\ UNCHANGED <<csw_st, u_size, u_bytes, tx_buffer, flags, media>>

\* FW_Erase10 and FW_Erase10Force.
FW_Erase(c) ==
  /\ c.cmnd \in EraseCmds
  /\ \E fail \in Failing :
       IF locked
       THEN csw_st' = CSW_GOOD /\ UNCHANGED media
       ELSE /\ csw_st' = IF fail THEN CSW_FAIL ELSE CSW_GOOD
            /\ media' = IF fail THEN media ELSE StorageWrite("PBA", c.lba, c.n, <<>>)
  /\ status' = "CSW"
  /\ UNCHANGED <<xfer, rx_giveback, tx_buffer, flags>>

\* FW_LowFormatSysDisk, FW_LowFormat, FW_SetResetFlag and FW_Reset.
FW_Simple(c) ==
  /\ c.cmnd \in {"ERASE_SYS_DISK", "LOW_FORMAT", "SET_RESET_FLAG", "RESET"}
  /\ lowformat' = (lowformat \/ c.cmnd = "LOW_FORMAT")
  /\ reset_flag' = CASE c.cmnd = "SET_RESET_FLAG" -> 1
                     [] c.cmnd = "RESET" -> IF c.sub = 0 THEN 255 ELSE c.sub
                     [] OTHER -> reset_flag
  /\ csw_st' = CSW_GOOD /\ status' = "CSW"
  /\ UNCHANGED <<xfer, rx_giveback, tx_buffer, media>>

\* "Unknow command": nothing happens and the status stays RKUSB_STATUS_CMD.
FW_Unknown(c) ==
  /\ c.cmnd = "UNKNOWN" /\ status' = "CMD"
  /\ UNCHANGED <<csw_st, xfer, rx_giveback, tx_buffer, flags, media>>

\* The CBW that the buffer holds.  Its signature is not looked at: data bytes
\* are any command.
CopiedCbws ==
  LET r == rx_buffer[rx_giveback.buf]
  IN  IF r.kind = "cbw" THEN {r.cbw}
      ELSE {[cmnd |-> c.cmnd, tag |-> 0, lba |-> c.lba, n |-> c.n, sub |-> c.sub] :
              c \in Cmds}

NewCommand == status = "IDLE" /\ rx_giveback.actual > 0

do_rockusb_cmd ==
  /\ pc = "idle" /\ NewCommand /\ pc' = "response"
  /\ \E c \in CopiedCbws :
       /\ cbw' = c
       /\ \/ FW_TestUnitReady(c) \/ FW_Info(c) \/ FW_Read(c) \/ FW_Write(c)
          \/ FW_Erase(c) \/ FW_Simple(c) \/ FW_Unknown(c)
  /\ UNCHANGED <<configured, rxbuf_num, out_reqs, txside, rx_buffer, wr, boot, events,
                 hostv, faults>>

NoCommand ==
  /\ pc = "idle" /\ ~NewCommand /\ pc' = "response"
  /\ UNCHANGED <<status, configured, cmdv, flags, xfer, rxside, txside, rx_buffer,
                 tx_buffer, wr, boot, media, events, hostv, faults>>

-----------------------------------------------------------------------------
(* rkusb_handle_response                                                    *)

\* rkusb_send_csw: queue the CSW and ask for the next CBW, or -EBUSY.
CanSendBusy == tx_status = "IN_PROGRESS"     \* mutant: the test is inverted
CanSend     == tx_status = "OK"
rkusb_send_csw(st) ==
  IF CanSend
  THEN /\ tx_buffer' = [tx_buffer EXCEPT ![txbuf_num] =
                          [kind |-> "csw", tag |-> cbw.tag, st |-> st, blocks |-> <<>>]]
       /\ rkusb_write_bulk_ep(1)
       /\ rkusb_read_bulk_ep(configured, out_reqs, 0, rxbuf_num)
       /\ status' = "IDLE"
  ELSE UNCHANGED <<tx_buffer, txside, rxside, status>>

\* The answer of an FW_Info command.
HandleTxData ==
  /\ pc = "response" /\ status = "TXDATA" /\ pc' = "csw"
  /\ rkusb_write_bulk_ep(1)
  /\ csw_st' = CSW_GOOD /\ status' = "CSW"
  /\ UNCHANGED <<configured, cbw, flags, xfer, rxside, rx_buffer, tx_buffer, wr, boot,
                 media, events, hostv, faults>>

\* rkusb_handle_datarx up to the write: account for what arrived, and ask for
\* more, or send the CSW, before it is stored.
RxReady == status = "RXDATA_PREPARE" \/ (status = "RXDATA" /\ rx_giveback.status = "OK")
rkusb_handle_datarx ==
  /\ pc = "response" /\ RxReady
  /\ LET got  == Add(d_bytes, rx_giveback.actual)
         data == rx_giveback.actual > 0 /\ rx_buffer[rx_giveback.buf].kind = "data"
     IN /\ d_bytes' = got
        /\ wr' = IF data THEN [buf |-> rx_giveback.buf, blocks |-> rx_giveback.actual]
                 ELSE [buf |-> NULL, blocks |-> 0]
        /\ pc' = IF data THEN "media" ELSE "csw"
        /\ IF got < d_size
           THEN /\ rkusb_read_bulk_ep(configured, out_reqs, Chunk(d_size - got),
                                      rxbuf_num)
                /\ status' = "RXDATA"
                /\ UNCHANGED <<csw_st, txside, tx_buffer>>
           ELSE csw_st' = CSW_GOOD /\ rkusb_send_csw(CSW_GOOD)
  /\ UNCHANGED <<configured, cbw, d_size, flags, lba, u_size, upv, rx_buffer, boot, media,
                 events, hostv, faults>>

\* Where the next blocks go once wr is stored.
NextLbaFull == Add(lba, BufMax)     \* mutant: as if every transfer filled its buffer
NextLba     == Add(lba, wr.blocks)

\* The rest of rkusb_handle_datarx.  A failed write is only logged.
StoreData ==
  LET data == rx_buffer[wr.buf].blocks
      Store(sp) == \E fail \in Failing :
                     media' = IF fail THEN media ELSE StorageWrite(sp, lba, wr.blocks, data)
  IN \/ /\ cbw.cmnd = "WRITE_10"
        /\ loader_flag' = "SYS_LOADER_ERR_FLAG" /\ UNCHANGED locked
        /\ IF locked THEN UNCHANGED <<media, lba>>
           ELSE Store("PBA") /\ lba' = NextLba
     \/ /\ cbw.cmnd = "LBA_WRITE_10"
        /\ UNCHANGED loader_flag
        /\ CASE lba >= VendorSysLba \/ lba \in VendorLbas ->
                  lba' = NextLba /\ UNCHANGED <<media, locked>>
             [] lba = UnlockLba ->      \* SecureBootUnlock accepts the data or not
                  locked' \in {locked, FALSE} /\ UNCHANGED <<media, lba>>
             [] OTHER ->
                  /\ UNCHANGED locked
                  /\ IF locked THEN UNCHANGED <<media, lba>>
                     ELSE Store("LBA") /\ lba' = NextLba
     \/ cbw.cmnd \notin WriteCmds /\ UNCHANGED <<media, lba, boot>>

MediaWrite ==
  /\ pc = "media" /\ pc' = "csw" /\ wr' = [buf |-> NULL, blocks |-> 0]
  /\ StoreData
  /\ UNCHANGED <<status, configured, cmdv, flags, d_size, d_bytes, u_size, upv, rxside,
                 txside, rx_buffer, tx_buffer, events, hostv, faults>>

\* rkusb_handle_datatx, once from `start': send the block prefetched last time,
\* then prefetch the next one into the other buffer.
TxReadyAny == status = "TXDATA_PREPARE"       \* mutant: does not wait for the transfer
TxReady == status = "TXDATA_PREPARE" /\ (u_bytes = 0 \/ tx_status = "OK")
PreHit(k) == k > 0 /\ pre_read.blocks >= k /\ pre_read.lba = lba
rkusb_handle_datatx ==
  /\ pc = "response" /\ TxReady
  /\ LET k    == Chunk(u_size - u_bytes)
         hit  == PreHit(k)
         sent == IF hit THEN u_bytes + k ELSE u_bytes
         at   == IF hit THEN Add(lba, k) ELSE lba
         left == IF hit THEN pre_read.blocks - k ELSE pre_read.blocks
         buf  == IF hit THEN Flip(txbuf_num) ELSE txbuf_num
         done == sent = u_size
         pref == ~done /\ (sent = 0 \/ k = BufMax)
     IN /\ u_bytes' = sent /\ lba' = at
        /\ IF hit THEN rkusb_write_bulk_ep(k) ELSE UNCHANGED txside
        /\ pre_read' = CASE done -> [pre_read EXCEPT !.lba = 0, !.blocks = 0]
                         [] pref -> [buf |-> buf, lba |-> at, blocks |-> k]
                         [] OTHER -> [pre_read EXCEPT !.blocks = left]
        /\ IF pref
           THEN \E fail \in Failing :
                  tx_buffer' = [tx_buffer EXCEPT ![buf] =
                    DataTx(IF fail THEN [i \in 1..k |-> Opaque]
                           ELSE StorageRead(Space(cbw.cmnd), at, k))]
           ELSE UNCHANGED tx_buffer
        /\ pc' = IF sent = 0 THEN "response" ELSE "csw"
        /\ IF sent # 0 /\ done THEN status' = "CSW" /\ csw_st' = CSW_GOOD
           ELSE UNCHANGED <<status, csw_st>>
  /\ UNCHANGED <<configured, cbw, flags, d_size, d_bytes, u_size, rxside, rx_buffer, wr,
                 boot, media, events, hostv, faults>>

NoResponse ==
  /\ pc = "response" /\ status # "TXDATA" /\ ~RxReady /\ ~TxReady /\ pc' = "csw"
  /\ UNCHANGED <<status, configured, cmdv, flags, xfer, rxside, txside, rx_buffer,
                 tx_buffer, wr, boot, media, events, hostv, faults>>

SendCsw ==
  /\ pc = "csw" /\ pc' = "check"
  /\ IF status = "CSW" THEN rkusb_send_csw(csw_st)
     ELSE UNCHANGED <<tx_buffer, txside, rxside, status>>
  /\ UNCHANGED <<configured, cmdv, flags, xfer, rx_buffer, wr, boot, media, events,
                 hostv, faults>>

-----------------------------------------------------------------------------
(* rkusb_reset_check, rkusb_lowformat_check and rkusb_timeout_check.        *)

Reboot ==
  /\ pc = "check" /\ reset_flag \in {1, 3, 255}
  /\ pc' = "reset" /\ reset_flag' = 0      \* reset_cpu
  /\ loader_flag' = CASE reset_flag = 3 -> "0xEF08A53C"
                      [] reset_flag = 1 -> "SYS_LOADER_REBOOT_FLAG"
                      [] OTHER -> loader_flag
  /\ UNCHANGED <<status, configured, cmdv, lowformat, xfer, rxside, txside, rx_buffer,
                 tx_buffer, wr, locked, media, events, hostv, faults>>

NextRound ==
  /\ pc = "check" /\ reset_flag \notin {1, 3, 255}
  /\ reset_flag' = IF reset_flag = 16 THEN 0 ELSE reset_flag
  /\ locked' = (locked \/ reset_flag = 16)       \* SecureBootLockLoader
  /\ lowformat' = FALSE                          \* FW_SorageLowFormat
  /\ media' = IF lowformat THEN [s \in Spaces |-> [l \in Lbas |-> Opaque]] ELSE media
  /\ \/ pc' = "intr"
     \/ Flag /\ ~configured /\ pc' = "exit"      \* ten seconds without a host
  /\ UNCHANGED <<status, configured, cmdv, xfer, rxside, txside, rx_buffer, tx_buffer, wr,
                 loader_flag, events, hostv, faults>>

Device ==
  \/ Connect \/ HandleEvent \/ EndInterrupt
  \/ do_rockusb_cmd \/ NoCommand
  \/ HandleTxData \/ rkusb_handle_datarx \/ MediaWrite \/ rkusb_handle_datatx \/ NoResponse
  \/ SendCsw \/ Reboot \/ NextRound

-----------------------------------------------------------------------------
(* The host and the controller, modelled from what the code expects.        *)

OnBus == /\ pc \notin {"start", "reset", "exit"}
         /\ \A i \in DOMAIN events : events[i].type \notin ControlEvents
devv  == <<pc, status, configured, cmdv, flags, xfer, rx_giveback, rxbuf_num, tx_status,
           txbuf_num, tx_buffer, wr, boot, media>>

\* SET_ADDRESS, then SET_CONFIGURATION.
Enumerate ==
  /\ OnBus
  /\ \/ h_phase = "detached" /\ h_phase' = "addressed"
        /\ events' = Append(events, Ev("address"))
     \/ h_phase = "addressed" /\ h_phase' = "ready"
        /\ events' = Append(events, Ev("configured"))
  /\ UNCHANGED <<devv, out_reqs, in_reqs, rx_buffer, h_cbw, h_got, h_sent, h_csw, faults>>

\* How many transfers of the data stage the host expects to read.
Expected(c) == IF c.cmnd \in InfoCmds THEN 1 ELSE IF c.cmnd \in ReadCmds THEN c.n ELSE 0

HostSendCbw(c) ==
  /\ OnBus /\ h_phase = "ready" /\ out_reqs # <<>> /\ h_cbw.tag < MaxCmds
  /\ LET r == Head(out_reqs)
         w == [cmnd |-> c.cmnd, tag |-> h_cbw.tag + 1, lba |-> c.lba, n |-> c.n,
               sub |-> c.sub]
     IN /\ rx_buffer' = [rx_buffer EXCEPT ![r.buf] =
                           [kind |-> "cbw", cbw |-> w, blocks |-> <<>>]]
        /\ events' = Append(events, [type |-> "rx", n |-> 1, buf |-> r.buf])
        /\ h_cbw' = w
        /\ h_phase' = CASE Expected(w) > 0 -> "in"
                        [] w.cmnd \in WriteCmds /\ w.n > 0 -> "out"
                        [] OTHER -> "status"
  /\ out_reqs' = Tail(out_reqs)
  /\ h_got' = <<>> /\ h_sent' = 0
  /\ UNCHANGED <<devv, in_reqs, h_csw, faults>>

HostDataOut ==
  /\ OnBus /\ h_phase = "out" /\ out_reqs # <<>>
  /\ LET r == Head(out_reqs)
     IN \E k \in 1..Least(r.len, h_cbw.n - h_sent) :
          /\ rx_buffer' = [rx_buffer EXCEPT ![r.buf] =
               [kind |-> "data", cbw |-> NoCbw,
                blocks |-> [i \in 1..k |-> <<h_cbw.tag, h_sent + i>>]]]
          /\ events' = Append(events, [type |-> "rx", n |-> k, buf |-> r.buf])
          /\ h_sent' = h_sent + k
          /\ h_phase' = IF h_sent + k = h_cbw.n THEN "status" ELSE "out"
  /\ out_reqs' = Tail(out_reqs)
  /\ UNCHANGED <<devv, in_reqs, h_cbw, h_got, h_csw, faults>>

\* An IN transfer completes.  The controller reads the buffer only now.
HostIn ==
  /\ OnBus /\ h_phase \in {"in", "status"} /\ in_reqs # <<>>
  /\ LET r == Head(in_reqs)
         t == tx_buffer[r.buf]
         got == h_got \o [i \in 1..r.len |-> BlockAt(t.blocks, i)]
     IN IF t.kind = "csw"
        THEN /\ h_csw' = [tag |-> t.tag, st |-> t.st]
             /\ h_phase' = IF t.tag = h_cbw.tag THEN "ready" ELSE "broken"
             /\ UNCHANGED h_got
        ELSE /\ h_phase' = CASE h_phase = "status" \/ Len(got) > Expected(h_cbw) -> "broken"
                             [] h_phase # "status" /\ Len(got) = Expected(h_cbw) -> "status"
                             [] OTHER -> "in"
             /\ h_got' = IF h_phase = "in" THEN got ELSE h_got
             /\ UNCHANGED h_csw
  /\ in_reqs' = Tail(in_reqs)
  /\ events' = Append(events, Ev("tx"))
  /\ UNCHANGED <<devv, out_reqs, rx_buffer, h_cbw, h_sent, faults>>

HostStep == Enumerate \/ HostDataOut \/ HostIn \/ \E c \in Cmds : HostSendCbw(c)

\* The host gives up the command: CLEAR_FEATURE(HALT) on an endpoint, or a bus
\* reset.
Abort(t) ==
  /\ OnBus /\ t \in Faults
  /\ h_phase \notin IF t = "reset" THEN {"detached"} ELSE {"detached", "addressed"}
  /\ events' = Append(events, Ev(t))
  /\ h_phase' = IF t = "reset" THEN "detached" ELSE "ready"
  /\ UNCHANGED <<devv, in_reqs, out_reqs, rx_buffer, h_cbw, h_got, h_sent, h_csw>>

\* A transfer ends with an error.
TransferError ==
  /\ OnBus /\ h_phase \in {"in", "out", "status"}
  /\ \/ /\ "rx_err" \in Faults /\ out_reqs # <<>>
        /\ events' = Append(events, Ev("rx_err"))
        /\ out_reqs' = Tail(out_reqs) /\ UNCHANGED in_reqs
     \/ /\ "tx_err" \in Faults /\ in_reqs # <<>>
        /\ events' = Append(events, Ev("tx_err"))
        /\ in_reqs' = Tail(in_reqs) /\ UNCHANGED out_reqs
  /\ UNCHANGED <<devv, rx_buffer, hostv>>

BusFault ==
  /\ faults < MaxFaults /\ faults' = faults + 1
  /\ TransferError \/ \E t \in AbortEvents : Abort(t)

Next == Device \/ HostStep \/ BusFault

Spec == Init /\ [][Next]_vars

\* The loop runs forever and the host finishes what it began; nobody makes the
\* host send another command.
FairSpec ==
  Spec /\ WF_vars(Device) /\ WF_vars(HostDataOut) /\ WF_vars(HostIn)

-----------------------------------------------------------------------------
(* Properties.                                                              *)

LoopTypes ==
  /\ pc \in Pcs /\ status \in Statuses /\ configured \in BOOLEAN
  /\ reset_flag \in Nat /\ lowformat \in BOOLEAN /\ locked \in BOOLEAN
  /\ loader_flag \in {"none", "SYS_LOADER_ERR_FLAG", "SYS_LOADER_REBOOT_FLAG", "0xEF08A53C"}
  /\ faults \in Nat
CmdTypes ==
  /\ cbw \in Cbw /\ csw_st \in {CSW_GOOD, CSW_FAIL}
  /\ d_size \in Nat /\ d_bytes \in Nat /\ u_size \in Nat /\ u_bytes \in Nat /\ lba \in Nat
  /\ pre_read \in [buf : Bufs \cup {NULL}, lba : Nat, blocks : Nat]
  /\ wr \in [buf : Bufs \cup {NULL}, blocks : Nat]
BufferTypes ==
  /\ rxbuf_num \in Bufs /\ txbuf_num \in Bufs
  /\ rx_buffer \in [Bufs -> RxContent] /\ tx_buffer \in [Bufs -> TxContent]
  /\ media \in [Spaces -> [Lbas -> Val]]
ChannelTypes ==
  /\ rx_giveback \in [status : {"ZERO", "READY", "OK", "ERROR"}, actual : Nat,
                      buf : Bufs \cup {NULL}]
  /\ tx_status \in {"ZERO", "IN_PROGRESS", "OK", "ERROR"}
  /\ out_reqs \in Seq(Req) /\ in_reqs \in Seq(Req) /\ events \in Seq(Event)
HostTypes ==
  /\ h_phase \in Phases /\ h_cbw \in Cbw /\ h_got \in Seq(Val) /\ h_sent \in Nat
  /\ h_csw \in [tag : Nat, st : {CSW_GOOD, CSW_FAIL}]

\* Every variable of the model keeps its type.
TypeOK == LoopTypes /\ CmdTypes /\ BufferTypes /\ ChannelTypes /\ HostTypes

InRange(c)  == \A i \in 1..c.n : c.lba + i - 1 \in Lbas
Answered(c) == h_phase = "ready" /\ h_csw.tag = c.tag

\* The host never meets a CSW of another command, or data where it waits for
\* a CSW: the data stage and the CSW of rkusb_handle_response and
\* rkusb_send_csw leave in the order of the command.
NoPhaseError == h_phase # "broken"

\* What a read command delivers is, block by block, what the media holds at
\* the addresses asked for, and a good CSW means it delivered all of them:
\* the prefetch of rkusb_handle_datatx never serves the wrong buffer.
ReadReturnsMedia ==
  h_cbw.cmnd \in ReadCmds /\ InRange(h_cbw) /\ h_phase # "detached" =>
    /\ \A i \in DOMAIN h_got : h_got[i] = media[Space(h_cbw.cmnd)][h_cbw.lba + i - 1]
    /\ Answered(h_cbw) /\ h_csw.st = CSW_GOOD => Len(h_got) = h_cbw.n

\* Once the loop is back at its top, a write answered with a good CSW is on
\* the media, every block at its address, although rkusb_handle_datarx sends
\* that CSW before it stores the last blocks.
WriteIsStored ==
  /\ pc = "intr" /\ Answered(h_cbw) /\ h_csw.st = CSW_GOOD /\ ~locked
  /\ h_cbw.cmnd \in WriteCmds /\ InRange(h_cbw)
  => \A i \in 1..h_cbw.n :
       media[Space(h_cbw.cmnd)][h_cbw.lba + i - 1] = <<h_cbw.tag, i>>

\* The device only resets the CPU once the CSW of the command that asked for
\* it is on its way or received (rkusb_reset_check runs after rkusb_send_csw).
ResetAfterAnswer ==
  pc = "reset" =>
    \/ h_csw.tag = cbw.tag
    \/ \E i \in DOMAIN in_reqs : LET t == tx_buffer[in_reqs[i].buf]
                                 IN  t.kind = "csw" /\ t.tag = cbw.tag

\* A buffer queued on the IN endpoint is not touched until the controller has
\* sent it: neither the prefetch nor a CSW overwrites it.
TxBufferStable ==
  [][\A i \in DOMAIN in_reqs :
       tx_buffer'[in_reqs[i].buf] = tx_buffer[in_reqs[i].buf]]_vars

\* The data rkusb_handle_datarx is about to store is not overwritten by the
\* transfer it has just asked for.
RxBufferStable ==
  [][pc = "media" => rx_buffer'[wr.buf] = rx_buffer[wr.buf]]_vars

\* At most one OUT transfer is about: requested, or completed and not yet
\* handled, or handed back to the driver, which then asks for the next one
\* into the other buffer.
IsRx(e) == e.type \in {"rx", "rx_err"}
OneReceive ==
  /\ Len(out_reqs) <= 1
  /\ out_reqs # <<>> => /\ rx_giveback.status = "READY"
                        /\ Head(out_reqs).buf = Flip(rxbuf_num)
  /\ \A i \in DOMAIN events : IsRx(events[i]) =>
       /\ rx_giveback.status = "READY" /\ out_reqs = <<>>
       /\ events[i].type = "rx" => events[i].buf = Flip(rxbuf_num)
       /\ \A j \in DOMAIN events : IsRx(events[j]) => i = j
  /\ rx_giveback.actual > 0 => rx_giveback.status = "OK" /\ rx_giveback.buf = Flip(rxbuf_num)

\* No CBW is executed twice: tags grow from one do_rockusb_cmd to the next.
NoReexecution ==
  [][pc = "idle" /\ NewCommand /\ pc' = "response" => cbw'.tag > cbw.tag]_vars

\* The media only changes at the addresses the current command names, in its
\* own address space, or when a low-level format was asked for.
ChangesOwnRange ==
  [][\A s \in Spaces, l \in Lbas :
       media'[s][l] # media[s][l] =>
         \/ lowformat
         \/ /\ cbw'.cmnd \in WriteCmds \cup EraseCmds /\ s = Space(cbw'.cmnd)
            /\ cbw'.lba <= l /\ l < cbw'.lba + cbw'.n]_vars

\* "Every CBW has its CSW": the host gets the CSW of every command it sent,
\* unless the command made the device reset first.
EveryCbwAnswered ==
  \A t \in 1..MaxCmds : h_cbw.tag = t ~> (h_csw.tag = t \/ pc = "reset")

\* The host never waits forever: a command ends with its CSW, or the host
\* aborts it with CLEAR_FEATURE and the next command works again.
HostGetsReady == h_phase \in {"in", "out", "status"} ~> h_phase = "ready"
=============================================================================
