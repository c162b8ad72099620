--------------------------- MODULE RockUsbProofs ---------------------------
(***************************************************************************)
(* Theorems about RockUsb, for every set of commands, every buffer and     *)
(* address size and every number of commands and faults.                   *)
(***************************************************************************)
EXTENDS RockUsb, TLAPS

\* What the types alone do not say, and their preservation needs: a giveback
\* with data and a pending write name a buffer, and an upload does not pass
\* its end.
Wellformed ==
  /\ rx_giveback.actual > 0 => rx_giveback.buf \in Bufs
  /\ pc = "media" => wr.buf \in Bufs
  /\ u_bytes <= u_size

TypeInv == TypeOK /\ Wellformed

USE DEF CSW_GOOD, CSW_FAIL, NULL, Bufs

\* The initial state has the types.
LEMMA InitTypes == Init => TypeInv
<1> SUFFICES ASSUME Init PROVE TypeInv
  OBVIOUS
<1>1. NoCbw \in Cbw
  BY DEF NoCbw, Cbw, Cmnds
<1>2. NoRx \in RxContent /\ NoTx \in TxContent
  BY <1>1 DEF NoRx, NoTx, RxContent, TxContent
<1>3. media \in [Spaces -> [Lbas -> Val]]
  BY ConstantsAssumption DEF Init, Val
<1>4. LoopTypes
  BY DEF Init, LoopTypes, Pcs, Statuses
<1>5. CmdTypes
  BY <1>1 DEF Init, CmdTypes
<1>6. BufferTypes
  BY <1>2, <1>3 DEF Init, BufferTypes
<1>7. ChannelTypes
  BY DEF Init, ChannelTypes
<1>8. HostTypes
  BY <1>1 DEF Init, HostTypes, Phases
<1>9. Wellformed
  BY DEF Init, Wellformed
<1> QED
  BY <1>4, <1>5, <1>6, <1>7, <1>8, <1>9 DEF TypeInv, TypeOK

\* Sums of uint32_t are naturals.
LEMMA AddType == \A a, b \in Nat : Add(a, b) \in Nat
  BY ConstantsAssumption DEF Add

LEMMA FlipType == \A b \in Bufs : Flip(b) \in Bufs
  BY DEF Flip

LEMMA ChunkType == \A k \in Nat : Chunk(k) \in Nat /\ Chunk(k) <= k
  BY ConstantsAssumption DEF Chunk, Least

\* The storage driver reads and writes blocks.
LEMMA BlockAtType == \A s \in Seq(Val), i \in Nat : BlockAt(s, i) \in Val
  BY DEF BlockAt, Val, Opaque

LEMMA ReadType ==
  ASSUME TypeOK, NEW sp \in Spaces, NEW l \in Nat, NEW k \in Nat
  PROVE  StorageRead(sp, l, k) \in Seq(Val)
<1>1. \A i \in 1..k : (IF l + i - 1 \in Lbas THEN media[sp][l + i - 1] ELSE Opaque) \in Val
  BY DEF TypeOK, BufferTypes, Val, Opaque
<1> QED
  BY <1>1 DEF StorageRead

LEMMA WriteType ==
  ASSUME TypeOK, NEW sp \in Spaces, NEW l \in Nat, NEW k \in Nat, NEW s \in Seq(Val)
  PROVE  StorageWrite(sp, l, k, s) \in [Spaces -> [Lbas -> Val]]
<1>1. \A x \in Lbas :
        (IF x >= l /\ x < l + k THEN BlockAt(s, x - l + 1) ELSE media[sp][x]) \in Val
  BY BlockAtType, ConstantsAssumption DEF TypeOK, BufferTypes
<1> QED
  BY <1>1 DEF StorageWrite, TypeOK, BufferTypes

\* A step that changes no variable of a group keeps its types.
LEMMA Kept ==
  /\ TypeInv /\ UNCHANGED <<cbw, csw_st, d_size, d_bytes, u_size, u_bytes, lba, pre_read, wr>>
       => CmdTypes'
  /\ TypeInv /\ UNCHANGED <<rxbuf_num, txbuf_num, rx_buffer, tx_buffer, media>> => BufferTypes'
  /\ TypeInv /\ UNCHANGED <<rx_giveback, tx_status, out_reqs, in_reqs, events>> => ChannelTypes'
  /\ TypeInv /\ UNCHANGED hostv => HostTypes'
  /\ TypeInv /\ UNCHANGED <<pc, status, configured, flags, boot, faults>> => LoopTypes'
  BY DEF TypeInv, TypeOK, LoopTypes, CmdTypes, BufferTypes, ChannelTypes, HostTypes,
         hostv, flags, boot

\* The loop's steps that leave the data alone.
LEMMA QuietTypes ==
  TypeInv /\ (Connect \/ EndInterrupt \/ NoCommand \/ NoResponse) => TypeInv'
<1> SUFFICES ASSUME TypeInv, Connect \/ EndInterrupt \/ NoCommand \/ NoResponse PROVE TypeInv'
  OBVIOUS
<1> USE DEF Connect, EndInterrupt, NoCommand, NoResponse
<1>1. CmdTypes' /\ BufferTypes' /\ ChannelTypes' /\ HostTypes'
  BY Kept DEF cmdv, xfer, upv, rxside, txside
<1>2. LoopTypes'
  BY DEF TypeInv, TypeOK, LoopTypes, Pcs, flags, boot
<1>3. Wellformed'
  BY DEF TypeInv, Wellformed, xfer, upv, rxside
<1> QED
  BY <1>1, <1>2, <1>3 DEF TypeInv, TypeOK

\* Queueing on an endpoint.
LEMMA QueueType ==
  ASSUME NEW on \in BOOLEAN, NEW q \in Seq(Req), NEW b \in Bufs, NEW k \in Nat
  PROVE  Queue(on, q, [buf |-> b, len |-> k]) \in Seq(Req)
<1>1. [buf |-> b, len |-> k] \in Req
  BY DEF Req
<1> QED
  BY <1>1 DEF Queue

LEMMA FirstRequest == <<>> \in Seq(Req) /\ Queue(TRUE, <<>>, [buf |-> 0, len |-> 0]) \in Seq(Req)
<1>1. <<>> \in Seq(Req)
  OBVIOUS
<1> QED
  BY <1>1, QueueType

\* The callbacks of the controller.
LEMMA EventTypesKept == TypeInv /\ HandleEvent => TypeInv'
<1> SUFFICES ASSUME TypeInv, HandleEvent PROVE TypeInv'
  OBVIOUS
<1> DEFINE e == Head(events)
<1>1. e \in Event /\ events' \in Seq(Event)
  BY DEF HandleEvent, TypeInv, TypeOK, ChannelTypes
<1>2. CmdTypes' /\ HostTypes'
  BY Kept DEF HandleEvent, cmdv, xfer, upv
<1>3. CASE dwc3_rx_handler(e)
  <2>1. LoopTypes' /\ BufferTypes'
    BY <1>3, Kept DEF HandleEvent, dwc3_rx_handler, txside
  <2>2. ChannelTypes' /\ Wellformed'
    BY <1>1, <1>3 DEF HandleEvent, dwc3_rx_handler, txside, TypeInv, TypeOK, ChannelTypes,
       Wellformed, Event, xfer, upv
  <2> QED
    BY <1>2, <2>1, <2>2 DEF TypeInv, TypeOK
<1>4. CASE dwc3_tx_handler(e)
  <2>1. LoopTypes' /\ BufferTypes'
    BY <1>4, Kept DEF HandleEvent, dwc3_tx_handler, rxside
  <2>2. ChannelTypes' /\ Wellformed'
    BY <1>1, <1>4 DEF HandleEvent, dwc3_tx_handler, rxside, TypeInv, TypeOK, ChannelTypes,
       Wellformed, xfer, upv
  <2> QED
    BY <1>2, <2>1, <2>2 DEF TypeInv, TypeOK
<1>5. CASE rkusb_event_handler_for_dwc3(e)
  <2> USE <1>5 DEF HandleEvent, rkusb_event_handler_for_dwc3, StatusAfter
  <2>1. LoopTypes'
    BY DEF TypeInv, TypeOK, LoopTypes, Statuses, flags, boot
  <2>2. <<>> \in Seq(Req) /\ Queue(TRUE, <<>>, [buf |-> 0, len |-> 0]) \in Seq(Req)
    BY FirstRequest
  <2>3. Flip(0) \in Bufs
    BY FlipType
  <2>4. BufferTypes'
    BY <2>3 DEF TypeInv, TypeOK, BufferTypes, rkusb_read_bulk_ep
  <2>5. out_reqs' \in Seq(Req) /\ in_reqs' \in Seq(Req)
    BY <2>2 DEF TypeInv, TypeOK, ChannelTypes, rkusb_read_bulk_ep
  <2>6. rx_giveback' = rx_giveback
          \/ rx_giveback' = [status |-> "READY", actual |-> 0, buf |-> NULL]
    BY DEF rkusb_read_bulk_ep
  <2>7. ChannelTypes' /\ Wellformed'
    BY <1>1, <2>5, <2>6 DEF TypeInv, TypeOK, ChannelTypes, Wellformed, xfer, upv
  <2> QED
    BY <1>2, <2>1, <2>4, <2>7 DEF TypeInv, TypeOK
<1> QED
  BY <1>3, <1>4, <1>5 DEF HandleEvent

\* Queueing the CSW.
LEMMA SendCswTypes ==
  ASSUME TypeInv, NEW st \in {CSW_GOOD, CSW_FAIL}, rkusb_send_csw(st)
  PROVE  /\ status' \in Statuses
         /\ rxbuf_num' \in Bufs /\ txbuf_num' \in Bufs
         /\ tx_buffer' \in [Bufs -> TxContent]
         /\ tx_status' \in {"ZERO", "IN_PROGRESS", "OK", "ERROR"}
         /\ out_reqs' \in Seq(Req) /\ in_reqs' \in Seq(Req)
         /\ \/ UNCHANGED rx_giveback
            \/ rx_giveback' = [status |-> "READY", actual |-> 0, buf |-> NULL]
<1> USE DEF TypeInv, TypeOK, LoopTypes, BufferTypes, ChannelTypes, Statuses
<1>1. CASE CanSend
  <2>1. [kind |-> "csw", tag |-> cbw.tag, st |-> st, blocks |-> <<>>] \in TxContent
    BY DEF CmdTypes, Cbw, TxContent
  <2>2. /\ Queue(configured, in_reqs, [buf |-> txbuf_num, len |-> 1]) \in Seq(Req)
        /\ Queue(configured, out_reqs, [buf |-> rxbuf_num, len |-> 0]) \in Seq(Req)
    BY QueueType
  <2>3. Flip(txbuf_num) \in Bufs /\ Flip(rxbuf_num) \in Bufs
    BY FlipType
  <2> QED
    BY <1>1, <2>1, <2>2, <2>3 DEF rkusb_send_csw, rkusb_write_bulk_ep, rkusb_read_bulk_ep
<1>2. CASE ~CanSend
  BY <1>2 DEF rkusb_send_csw, txside, rxside
<1> QED
  BY <1>1, <1>2

LEMMA CswTypes == TypeInv /\ SendCsw => TypeInv'
<1> SUFFICES ASSUME TypeInv, SendCsw PROVE TypeInv'
  OBVIOUS
<1>1. CmdTypes' /\ HostTypes'
  BY Kept DEF SendCsw, cmdv, xfer, upv
<1>2. CASE status = "CSW"
  <2>1. csw_st \in {CSW_GOOD, CSW_FAIL} /\ rkusb_send_csw(csw_st)
    BY <1>2 DEF SendCsw, TypeInv, TypeOK, CmdTypes
  <2> HIDE DEF rkusb_send_csw
  <2>2. LoopTypes' /\ BufferTypes' /\ ChannelTypes' /\ Wellformed'
    BY <2>1, SendCswTypes DEF SendCsw, TypeInv, TypeOK, LoopTypes, BufferTypes, ChannelTypes,
       Wellformed, Pcs, flags, boot, xfer, upv
  <2> QED
    BY <1>1, <2>2 DEF TypeInv, TypeOK
<1>3. CASE status # "CSW"
  <2>1. BufferTypes' /\ ChannelTypes'
    BY <1>3, Kept DEF SendCsw, rxside, txside
  <2>2. LoopTypes' /\ Wellformed'
    BY <1>3 DEF SendCsw, TypeInv, TypeOK, LoopTypes, Wellformed, Pcs, flags, boot, xfer, upv,
       rxside
  <2> QED
    BY <1>1, <2>1, <2>2 DEF TypeInv, TypeOK
<1> QED
  BY <1>2, <1>3

\* A buffer that holds blocks.
LEMMA DataContent == \A s \in Seq(Val) : DataTx(s) \in TxContent
  BY DEF DataTx, TxContent

\* The FW_ functions: what each command may leave behind.
LEMMA CommandTypes == TypeInv /\ do_rockusb_cmd => TypeInv'
<1> SUFFICES ASSUME TypeInv, do_rockusb_cmd PROVE TypeInv'
  OBVIOUS
<1>0. rx_giveback.buf \in Bufs /\ rx_giveback.actual \in Nat
  BY DEF do_rockusb_cmd, NewCommand, TypeInv, TypeOK, ChannelTypes, Wellformed
<1>1. PICK c \in CopiedCbws :
        /\ cbw' = c
        /\ \/ FW_TestUnitReady(c) \/ FW_Info(c) \/ FW_Read(c) \/ FW_Write(c)
           \/ FW_Erase(c) \/ FW_Simple(c) \/ FW_Unknown(c)
  BY DEF do_rockusb_cmd
<1>2. c \in Cbw
  <2>1. rx_buffer[rx_giveback.buf] \in RxContent
    BY <1>0 DEF TypeInv, TypeOK, BufferTypes
  <2>2. rx_buffer[rx_giveback.buf].cbw \in Cbw
    BY <2>1 DEF RxContent
  <2> QED
    BY <1>1, <2>2, ConstantsAssumption DEF CopiedCbws, Request, Cbw
<1>3. /\ pc' = "response"
      /\ UNCHANGED <<configured, rxbuf_num, out_reqs, tx_status, txbuf_num, in_reqs, rx_buffer,
                     wr, locked, loader_flag, events, hostv, faults>>
  BY DEF do_rockusb_cmd, txside, boot
<1>4. HostTypes'
  BY <1>3, Kept
<1>5. c.lba \in Nat /\ c.n \in Nat /\ c.sub \in Nat
  BY <1>2 DEF Cbw
<1> HIDE DEF do_rockusb_cmd
<1>6. /\ status' \in Statuses /\ csw_st' \in {CSW_GOOD, CSW_FAIL}
      /\ lowformat' \in BOOLEAN /\ reset_flag' \in Nat
  <2> USE <1>5 DEF TypeInv, TypeOK, LoopTypes, CmdTypes, Statuses, flags
  <2>1. CASE FW_TestUnitReady(c)
    BY <2>1 DEF FW_TestUnitReady
  <2>2. CASE FW_Info(c) \/ FW_Read(c) \/ FW_Write(c) \/ FW_Erase(c) \/ FW_Unknown(c)
    BY <2>2 DEF FW_Info, FW_Read, FW_Write, FW_Erase, FW_Unknown
  <2>3. CASE FW_Simple(c)
    BY <2>3 DEF FW_Simple
  <2> QED
    BY <1>1, <2>1, <2>2, <2>3
<1>7. /\ d_size' \in Nat /\ d_bytes' \in Nat /\ u_size' \in Nat /\ u_bytes' \in Nat
      /\ lba' \in Nat /\ pre_read' \in [buf : Bufs \cup {NULL}, lba : Nat, blocks : Nat]
      /\ u_bytes' <= u_size'
  <2> USE <1>5 DEF TypeInv, TypeOK, CmdTypes, Wellformed, xfer, upv
  <2>1. CASE FW_Read(c)
    BY <2>1 DEF FW_Read
  <2>2. CASE FW_Write(c)
    BY <2>2 DEF FW_Write
  <2>3. CASE FW_TestUnitReady(c) \/ FW_Info(c) \/ FW_Erase(c) \/ FW_Simple(c) \/ FW_Unknown(c)
    BY <2>3 DEF FW_TestUnitReady, FW_Info, FW_Erase, FW_Simple, FW_Unknown
  <2> QED
    BY <1>1, <2>1, <2>2, <2>3
<1>8. /\ tx_buffer' \in [Bufs -> TxContent]
      /\ media' \in [Spaces -> [Lbas -> Val]]
  <2>1. tx_buffer \in [Bufs -> TxContent] /\ media \in [Spaces -> [Lbas -> Val]]
        /\ txbuf_num \in Bufs
    BY DEF TypeInv, TypeOK, BufferTypes
  <2>2. CASE FW_Info(c)
    <3>1. DataTx(<<Opaque>>) \in TxContent
      <4>1. Opaque \in Val
        BY DEF Opaque, Val
      <4>2. <<Opaque>> \in Seq(Val)
        BY <4>1
      <4> QED
        BY <4>2, DataContent
    <3> QED
      BY <2>1, <2>2, <3>1 DEF FW_Info
  <2>3. CASE FW_Erase(c)
    <3>1. <<>> \in Seq(Val) /\ "PBA" \in Spaces
      BY DEF Spaces
    <3>2. StorageWrite("PBA", c.lba, c.n, <<>>) \in [Spaces -> [Lbas -> Val]]
      BY <1>5, <3>1, WriteType DEF TypeInv
    <3> QED
      BY <2>1, <2>3, <3>2 DEF FW_Erase
  <2>4. CASE FW_TestUnitReady(c) \/ FW_Read(c) \/ FW_Write(c) \/ FW_Simple(c) \/ FW_Unknown(c)
    BY <2>1, <2>4 DEF FW_TestUnitReady, FW_Read, FW_Write, FW_Simple, FW_Unknown
  <2> QED
    BY <1>1, <2>2, <2>3, <2>4
<1>9. UNCHANGED rx_giveback \/ rx_giveback' = [rx_giveback EXCEPT !.actual = 0]
  BY <1>1 DEF FW_TestUnitReady, FW_Info, FW_Read, FW_Write, FW_Erase, FW_Simple, FW_Unknown
<1>10. LoopTypes'
  BY <1>3, <1>6 DEF TypeInv, TypeOK, LoopTypes, Pcs
<1>11. CmdTypes'
  BY <1>1, <1>2, <1>3, <1>6, <1>7 DEF TypeInv, TypeOK, CmdTypes
<1>12. BufferTypes'
  BY <1>3, <1>8 DEF TypeInv, TypeOK, BufferTypes
<1>13. ChannelTypes'
  BY <1>3, <1>9 DEF TypeInv, TypeOK, ChannelTypes
<1>14. Wellformed'
  BY <1>3, <1>7, <1>9 DEF TypeInv, TypeOK, ChannelTypes, Wellformed
<1> QED
  BY <1>4, <1>10, <1>11, <1>12, <1>13, <1>14 DEF TypeInv, TypeOK

LEMMA TxDataTypes == TypeInv /\ HandleTxData => TypeInv'
<1> SUFFICES ASSUME TypeInv, HandleTxData PROVE TypeInv'
  OBVIOUS
<1> USE DEF HandleTxData
<1>1. HostTypes'
  BY Kept
<1>2. LoopTypes' /\ CmdTypes' /\ Wellformed'
  BY DEF TypeInv, TypeOK, LoopTypes, CmdTypes, Wellformed, Pcs, Statuses, flags, boot, xfer,
     upv, rxside
<1>3. /\ Queue(configured, in_reqs, [buf |-> txbuf_num, len |-> 1]) \in Seq(Req)
      /\ Flip(txbuf_num) \in Bufs
  BY QueueType, FlipType DEF TypeInv, TypeOK, LoopTypes, BufferTypes, ChannelTypes
<1>4. BufferTypes' /\ ChannelTypes'
  BY <1>3 DEF TypeInv, TypeOK, BufferTypes, ChannelTypes, rkusb_write_bulk_ep, rxside
<1> QED
  BY <1>1, <1>2, <1>4 DEF TypeInv, TypeOK

LEMMA DatarxTypes == TypeInv /\ rkusb_handle_datarx => TypeInv'
<1> SUFFICES ASSUME TypeInv, rkusb_handle_datarx PROVE TypeInv'
  OBVIOUS
<1> DEFINE got  == Add(d_bytes, rx_giveback.actual)
           data == rx_giveback.actual > 0 /\ rx_buffer[rx_giveback.buf].kind = "data"
<1>1. got \in Nat /\ rx_giveback.actual \in Nat /\ rx_giveback.buf \in Bufs \cup {NULL}
  BY AddType DEF TypeInv, TypeOK, CmdTypes, ChannelTypes
<1>2. /\ d_bytes' = got
      /\ wr' = IF data THEN [buf |-> rx_giveback.buf, blocks |-> rx_giveback.actual]
               ELSE [buf |-> NULL, blocks |-> 0]
      /\ pc' = IF data THEN "media" ELSE "csw"
      /\ UNCHANGED <<configured, cbw, d_size, flags, lba, u_size, upv, rx_buffer, boot, media,
                     events, hostv, faults>>
  BY DEF rkusb_handle_datarx
<1>3. /\ csw_st' \in {CSW_GOOD, CSW_FAIL} /\ status' \in Statuses
      /\ rxbuf_num' \in Bufs /\ txbuf_num' \in Bufs
      /\ tx_buffer' \in [Bufs -> TxContent]
      /\ tx_status' \in {"ZERO", "IN_PROGRESS", "OK", "ERROR"}
      /\ out_reqs' \in Seq(Req) /\ in_reqs' \in Seq(Req)
      /\ \/ UNCHANGED rx_giveback
         \/ rx_giveback' = [status |-> "READY", actual |-> 0, buf |-> NULL]
  <2>1. CASE got < d_size
    <3>1. d_size - got \in Nat /\ Chunk(d_size - got) \in Nat
      BY <1>1, <2>1, ChunkType DEF TypeInv, TypeOK, CmdTypes
    <3>2. Queue(configured, out_reqs, [buf |-> rxbuf_num, len |-> Chunk(d_size - got)]) \in Seq(Req)
      BY <3>1, QueueType DEF TypeInv, TypeOK, LoopTypes, BufferTypes, ChannelTypes
    <3>3. /\ rkusb_read_bulk_ep(configured, out_reqs, Chunk(d_size - got), rxbuf_num)
          /\ status' = "RXDATA"
          /\ UNCHANGED <<csw_st, txside, tx_buffer>>
      BY <2>1 DEF rkusb_handle_datarx
    <3>4. Flip(rxbuf_num) \in Bufs
      BY FlipType DEF TypeInv, TypeOK, BufferTypes
    <3> QED
      BY <3>2, <3>3, <3>4 DEF rkusb_read_bulk_ep, TypeInv, TypeOK, CmdTypes, BufferTypes,
         ChannelTypes, Statuses, txside
  <2>2. CASE ~(got < d_size)
    <3>1. csw_st' = CSW_GOOD /\ rkusb_send_csw(CSW_GOOD)
      BY <2>2 DEF rkusb_handle_datarx
    <3> QED
      BY <3>1, SendCswTypes
  <2> QED
    BY <2>1, <2>2
<1> HIDE DEF got
<1>4. LoopTypes' /\ HostTypes'
  BY <1>2, <1>3, Kept DEF TypeInv, TypeOK, LoopTypes, Pcs, flags, boot
<1>5. CmdTypes'
  BY <1>1, <1>2, <1>3 DEF TypeInv, TypeOK, CmdTypes, upv
<1>6. BufferTypes' /\ ChannelTypes'
  BY <1>2, <1>3 DEF TypeInv, TypeOK, BufferTypes, ChannelTypes
<1>7. Wellformed'
  BY <1>2, <1>3 DEF TypeInv, Wellformed, upv
<1> QED
  BY <1>4, <1>5, <1>6, <1>7 DEF TypeInv, TypeOK

LEMMA MediaTypes == TypeInv /\ MediaWrite => TypeInv'
<1> SUFFICES ASSUME TypeInv, MediaWrite PROVE TypeInv'
  OBVIOUS
<1>1. wr.buf \in Bufs /\ wr.blocks \in Nat /\ lba \in Nat
  BY DEF MediaWrite, TypeInv, TypeOK, CmdTypes, Wellformed
<1>2. rx_buffer[wr.buf].blocks \in Seq(Val)
  <2>1. rx_buffer[wr.buf] \in RxContent
    BY <1>1 DEF TypeInv, TypeOK, BufferTypes
  <2> QED
    BY <2>1 DEF RxContent
<1>3. /\ StorageWrite("PBA", lba, wr.blocks, rx_buffer[wr.buf].blocks) \in [Spaces -> [Lbas -> Val]]
      /\ StorageWrite("LBA", lba, wr.blocks, rx_buffer[wr.buf].blocks) \in [Spaces -> [Lbas -> Val]]
  <2>1. "PBA" \in Spaces /\ "LBA" \in Spaces
    BY DEF Spaces
  <2> QED
    BY <1>1, <1>2, <2>1, WriteType DEF TypeInv
<1>4. NextLba \in Nat
  BY <1>1, AddType DEF NextLba
<1>5. /\ media' \in [Spaces -> [Lbas -> Val]] /\ lba' \in Nat /\ locked' \in BOOLEAN
      /\ loader_flag' \in {"none", "SYS_LOADER_ERR_FLAG", "SYS_LOADER_REBOOT_FLAG", "0xEF08A53C"}
  <2> USE <1>1, <1>3, <1>4 DEF TypeInv, TypeOK, LoopTypes, BufferTypes
  <2>1. CASE cbw.cmnd = "WRITE_10"
    BY <2>1 DEF MediaWrite, StoreData, WriteCmds
  <2>2. CASE cbw.cmnd = "LBA_WRITE_10"
    BY <2>2 DEF MediaWrite, StoreData, WriteCmds
  <2>3. CASE cbw.cmnd \notin WriteCmds
    BY <2>3 DEF MediaWrite, StoreData, WriteCmds, boot
  <2> QED
    BY <2>1, <2>2, <2>3 DEF WriteCmds
<1>6. /\ pc' = "csw" /\ wr' = [buf |-> NULL, blocks |-> 0]
      /\ UNCHANGED <<status, configured, cmdv, flags, d_size, d_bytes, u_size, upv, rxside,
                     txside, rx_buffer, tx_buffer, events, hostv, faults>>
  BY DEF MediaWrite
<1>7. LoopTypes'
  BY <1>5, <1>6 DEF TypeInv, TypeOK, LoopTypes, Pcs, flags
<1>8. CmdTypes'
  BY <1>5, <1>6 DEF TypeInv, TypeOK, CmdTypes, cmdv, upv
<1>9. BufferTypes'
  BY <1>5, <1>6 DEF TypeInv, TypeOK, BufferTypes, rxside, txside
<1>10. ChannelTypes' /\ HostTypes'
  BY <1>6, Kept DEF rxside, txside
<1>11. Wellformed'
  BY <1>6 DEF TypeInv, Wellformed, rxside, upv
<1> QED
  BY <1>7, <1>8, <1>9, <1>10, <1>11 DEF TypeInv, TypeOK

LEMMA DatatxTypes == TypeInv /\ rkusb_handle_datatx => TypeInv'
<1> SUFFICES ASSUME TypeInv, rkusb_handle_datatx PROVE TypeInv'
  OBVIOUS
<1> DEFINE k    == Chunk(u_size - u_bytes)
           hit  == PreHit(k)
           sent == IF hit THEN u_bytes + k ELSE u_bytes
           at   == IF hit THEN Add(lba, k) ELSE lba
           left == IF hit THEN pre_read.blocks - k ELSE pre_read.blocks
           buf  == IF hit THEN Flip(txbuf_num) ELSE txbuf_num
           done == sent = u_size
           pref == ~done /\ (sent = 0 \/ k = BufMax)
<1>1. /\ u_bytes' = sent /\ lba' = at
      /\ IF hit THEN rkusb_write_bulk_ep(k) ELSE UNCHANGED txside
      /\ pre_read' = CASE done -> [pre_read EXCEPT !.lba = 0, !.blocks = 0]
                       [] pref -> [buf |-> buf, lba |-> at, blocks |-> k]
                       [] OTHER -> [pre_read EXCEPT !.blocks = left]
      /\ IF pref
         THEN \E fail \in Failing :
                tx_buffer' = [tx_buffer EXCEPT ![buf] =
                  DataTx(IF fail THEN [i \in 1..k |-> Opaque]
                         ELSE StorageRead(Space(cbw.cmnd), at, k))]
         ELSE UNCHANGED tx_buffer
      /\ pc' = IF sent = 0 THEN "response" ELSE "csw"
      /\ IF sent # 0 /\ done THEN status' = "CSW" /\ csw_st' = CSW_GOOD
         ELSE UNCHANGED <<status, csw_st>>
      /\ UNCHANGED <<configured, cbw, flags, d_size, d_bytes, u_size, rxside, rx_buffer, wr,
                     boot, media, events, hostv, faults>>
  BY DEF rkusb_handle_datatx
<1>2. k \in Nat /\ k <= u_size - u_bytes /\ u_bytes \in Nat /\ u_size \in Nat
  <2>1. u_size - u_bytes \in Nat /\ u_bytes \in Nat /\ u_size \in Nat
    BY DEF TypeInv, TypeOK, CmdTypes, Wellformed
  <2> QED
    BY <2>1, ChunkType
<1> HIDE DEF k
<1>3. sent \in Nat /\ sent <= u_size
  BY <1>2
<1>4. at \in Nat /\ left \in Nat
  <2>1. lba \in Nat /\ pre_read.blocks \in Nat
    BY DEF TypeInv, TypeOK, CmdTypes
  <2>2. Add(lba, k) \in Nat
    BY <1>2, <2>1, AddType
  <2> QED
    BY <1>2, <2>1, <2>2 DEF PreHit
<1>5. buf \in Bufs /\ Flip(txbuf_num) \in Bufs
  BY FlipType DEF TypeInv, TypeOK, BufferTypes
<1>6. tx_buffer' \in [Bufs -> TxContent]
  <2>1. /\ StorageRead(Space(cbw.cmnd), at, k) \in Seq(Val)
        /\ [i \in 1..k |-> Opaque] \in Seq(Val)
    <3>1. Space(cbw.cmnd) \in Spaces
      BY DEF Space, Spaces
    <3>2. Opaque \in Val
      BY DEF Opaque, Val
    <3> HIDE DEF at
    <3> QED
      BY <1>2, <1>4, <3>1, <3>2, ReadType DEF TypeInv
  <2>2. tx_buffer \in [Bufs -> TxContent]
    BY DEF TypeInv, TypeOK, BufferTypes
  <2> HIDE DEF at, buf, pref
  <2> QED
    BY <1>1, <1>5, <2>1, <2>2, DataContent
<1>7. Queue(configured, in_reqs, [buf |-> txbuf_num, len |-> k]) \in Seq(Req)
  BY <1>2, QueueType DEF TypeInv, TypeOK, LoopTypes, BufferTypes, ChannelTypes
<1>8. pre_read' \in [buf : Bufs \cup {NULL}, lba : Nat, blocks : Nat]
  <2>1. pre_read \in [buf : Bufs \cup {NULL}, lba : Nat, blocks : Nat]
    BY DEF TypeInv, TypeOK, CmdTypes
  <2> HIDE DEF at, buf, pref, done, left
  <2> QED
    BY <1>1, <1>2, <1>4, <1>5, <2>1
<1>9. txbuf_num' \in Bufs /\ in_reqs' \in Seq(Req)
      /\ tx_status' \in {"ZERO", "IN_PROGRESS", "OK", "ERROR"}
  <2> HIDE DEF hit
  <2> QED
    BY <1>1, <1>5, <1>7 DEF TypeInv, TypeOK, BufferTypes, ChannelTypes, rkusb_write_bulk_ep,
       txside
<1> HIDE DEF at, buf, pref, done, left, sent
<1>10. LoopTypes' /\ HostTypes'
  BY <1>1, Kept DEF TypeInv, TypeOK, LoopTypes, Pcs, Statuses, flags, boot
<1>11. CmdTypes'
  BY <1>1, <1>3, <1>4, <1>8 DEF TypeInv, TypeOK, CmdTypes
<1>12. BufferTypes' /\ ChannelTypes'
  BY <1>1, <1>6, <1>9 DEF TypeInv, TypeOK, BufferTypes, ChannelTypes, rxside
<1>13. Wellformed'
  BY <1>1, <1>3 DEF TypeInv, Wellformed, rxside
<1> QED
  BY <1>10, <1>11, <1>12, <1>13 DEF TypeInv, TypeOK

LEMMA CheckTypes == TypeInv /\ (Reboot \/ NextRound) => TypeInv'
<1> SUFFICES ASSUME TypeInv, Reboot \/ NextRound PROVE TypeInv'
  OBVIOUS
<1> USE DEF Reboot, NextRound
<1>1. CmdTypes' /\ ChannelTypes' /\ HostTypes'
  BY Kept DEF cmdv, xfer, upv, rxside, txside
<1>2. LoopTypes'
  <2>1. pc' \in Pcs /\ reset_flag' \in Nat
    BY DEF TypeInv, TypeOK, LoopTypes, Pcs
  <2>2. loader_flag' \in {"none", "SYS_LOADER_ERR_FLAG", "SYS_LOADER_REBOOT_FLAG", "0xEF08A53C"}
    BY DEF TypeInv, TypeOK, LoopTypes
  <2>3. lowformat' \in BOOLEAN /\ locked' \in BOOLEAN
    BY DEF TypeInv, TypeOK, LoopTypes
  <2>4. UNCHANGED <<status, configured, faults>>
    OBVIOUS
  <2> QED
    BY <2>1, <2>2, <2>3, <2>4 DEF TypeInv, TypeOK, LoopTypes
<1>3. [s \in Spaces |-> [l \in Lbas |-> Opaque]] \in [Spaces -> [Lbas -> Val]]
  BY DEF Val, Opaque
<1>4. BufferTypes'
  BY <1>3 DEF TypeInv, TypeOK, BufferTypes, rxside, txside
<1>5. Wellformed'
  BY DEF TypeInv, Wellformed, xfer, upv, rxside
<1> QED
  BY <1>1, <1>2, <1>4, <1>5 DEF TypeInv, TypeOK

\* The host's steps and the faults touch the channels and the host only.
LEMMA EventAppended ==
  ASSUME TypeInv, NEW t \in EventTypes, NEW k \in Nat, NEW b \in Bufs
  PROVE  Append(events, [type |-> t, n |-> k, buf |-> b]) \in Seq(Event)
<1>1. [type |-> t, n |-> k, buf |-> b] \in Event
  BY DEF Event
<1> QED
  BY <1>1 DEF TypeInv, TypeOK, ChannelTypes

LEMMA DeviceKept ==
  /\ TypeInv /\ UNCHANGED <<devv, faults>> => CmdTypes' /\ LoopTypes'
  /\ TypeInv /\ UNCHANGED devv => CmdTypes' /\ Wellformed' /\ rx_giveback' = rx_giveback
                                  /\ tx_status' = tx_status /\ rxbuf_num' = rxbuf_num
                                  /\ txbuf_num' = txbuf_num /\ tx_buffer' = tx_buffer
                                  /\ media' = media
  /\ TypeInv /\ UNCHANGED <<devv, rx_buffer>> => BufferTypes'
<1> USE DEF devv, cmdv, flags, xfer, upv, boot
<1>1. ASSUME TypeInv, UNCHANGED devv
      PROVE  CmdTypes' /\ Wellformed'
  BY <1>1, Kept DEF TypeInv, Wellformed
<1>2. ASSUME TypeInv, UNCHANGED <<devv, faults>>
      PROVE  LoopTypes'
  BY <1>2, Kept
<1>3. ASSUME TypeInv, UNCHANGED <<devv, rx_buffer>>
      PROVE  BufferTypes'
  BY <1>3, Kept
<1> QED
  BY <1>1, <1>2, <1>3

LEMMA EnumerateTypes == TypeInv /\ Enumerate => TypeInv'
<1> SUFFICES ASSUME TypeInv, Enumerate PROVE TypeInv'
  OBVIOUS
<1>1. UNCHANGED <<devv, out_reqs, in_reqs, rx_buffer, h_cbw, h_got, h_sent, h_csw, faults>>
  BY DEF Enumerate
<1>2. CmdTypes' /\ LoopTypes' /\ BufferTypes' /\ Wellformed'
  BY <1>1, DeviceKept
<1>3. events' \in Seq(Event)
  <2>1. Ev("address") = [type |-> "address", n |-> 0, buf |-> 0]
        /\ Ev("configured") = [type |-> "configured", n |-> 0, buf |-> 0]
    BY DEF Ev
  <2>2. "address" \in EventTypes /\ "configured" \in EventTypes
    BY DEF EventTypes, ControlEvents
  <2> QED
    BY <2>1, <2>2, EventAppended DEF Enumerate
<1>4. ChannelTypes'
  BY <1>1, <1>3, DeviceKept DEF TypeInv, TypeOK, ChannelTypes
<1>5. HostTypes'
  BY <1>1 DEF Enumerate, TypeInv, TypeOK, HostTypes, Phases
<1> QED
  BY <1>2, <1>4, <1>5 DEF TypeInv, TypeOK

LEMMA SendCbwTypes == ASSUME TypeInv, NEW c \in Cmds, HostSendCbw(c) PROVE TypeInv'
<1> DEFINE r == Head(out_reqs)
           w == [cmnd |-> c.cmnd, tag |-> h_cbw.tag + 1, lba |-> c.lba, n |-> c.n,
                 sub |-> c.sub]
<1>1. /\ rx_buffer' = [rx_buffer EXCEPT ![r.buf] =
                          [kind |-> "cbw", cbw |-> w, blocks |-> <<>>]]
      /\ events' = Append(events, [type |-> "rx", n |-> 1, buf |-> r.buf])
      /\ h_cbw' = w
      /\ h_phase' \in Phases
      /\ out_reqs' = Tail(out_reqs) /\ out_reqs # <<>>
      /\ h_got' = <<>> /\ h_sent' = 0
      /\ UNCHANGED <<devv, in_reqs, h_csw, faults>>
  BY DEF HostSendCbw, Phases
<1>2. r \in Req /\ out_reqs' \in Seq(Req)
  BY <1>1 DEF TypeInv, TypeOK, ChannelTypes
<1>3. w \in Cbw
  BY ConstantsAssumption DEF Request, Cbw, TypeInv, TypeOK, HostTypes
<1>4. [kind |-> "cbw", cbw |-> w, blocks |-> <<>>] \in RxContent
  BY <1>3 DEF RxContent
<1>5. r.buf \in Bufs
  BY <1>2 DEF Req
<1> HIDE DEF r, w
<1>6. BufferTypes'
  BY <1>1, <1>4, <1>5, DeviceKept DEF TypeInv, TypeOK, BufferTypes
<1>7. events' \in Seq(Event)
  <2>1. "rx" \in EventTypes
    BY DEF EventTypes
  <2> QED
    BY <1>1, <1>5, <2>1, EventAppended
<1>8. ChannelTypes'
  BY <1>1, <1>2, <1>7, DeviceKept DEF TypeInv, TypeOK, ChannelTypes
<1>9. HostTypes'
  BY <1>1, <1>3 DEF TypeInv, TypeOK, HostTypes
<1> QED
  BY <1>1, <1>6, <1>8, <1>9, DeviceKept DEF TypeInv, TypeOK

LEMMA DataOutTypes == TypeInv /\ HostDataOut => TypeInv'
<1> SUFFICES ASSUME TypeInv, HostDataOut PROVE TypeInv'
  OBVIOUS
<1> DEFINE r == Head(out_reqs)
<1>1. PICK k \in 1..Least(r.len, h_cbw.n - h_sent) :
        /\ rx_buffer' = [rx_buffer EXCEPT ![r.buf] =
             [kind |-> "data", cbw |-> NoCbw,
              blocks |-> [i \in 1..k |-> <<h_cbw.tag, h_sent + i>>]]]
        /\ events' = Append(events, [type |-> "rx", n |-> k, buf |-> r.buf])
        /\ h_sent' = h_sent + k
        /\ h_phase' = IF h_sent + k = h_cbw.n THEN "status" ELSE "out"
  BY DEF HostDataOut
<1>2. /\ out_reqs' = Tail(out_reqs) /\ out_reqs # <<>>
      /\ UNCHANGED <<devv, in_reqs, h_cbw, h_got, h_csw, faults>>
  BY DEF HostDataOut
<1>3. r \in Req /\ out_reqs' \in Seq(Req)
  BY <1>2 DEF TypeInv, TypeOK, ChannelTypes
<1>4. r.buf \in Bufs /\ r.len \in Nat
  BY <1>3 DEF Req
<1>5. h_cbw.n \in Nat /\ h_cbw.tag \in Nat /\ h_sent \in Nat
  BY DEF TypeInv, TypeOK, HostTypes, Cbw
<1>6. k \in Nat
  BY <1>1, <1>4, <1>5 DEF Least
<1>7. [kind |-> "data", cbw |-> NoCbw,
       blocks |-> [i \in 1..k |-> <<h_cbw.tag, h_sent + i>>]] \in RxContent
  <2>1. NoCbw \in Cbw
    BY DEF NoCbw, Cbw, Cmnds
  <2>2. \A i \in 1..k : <<h_cbw.tag, h_sent + i>> \in Val
    BY <1>5, <1>6 DEF Val
  <2>3. [i \in 1..k |-> <<h_cbw.tag, h_sent + i>>] \in Seq(Val)
    BY <1>6, <2>2
  <2> QED
    BY <2>1, <2>3 DEF RxContent
<1> HIDE DEF r
<1>8. BufferTypes'
  BY <1>1, <1>2, <1>4, <1>7, DeviceKept DEF TypeInv, TypeOK, BufferTypes
<1>9. events' \in Seq(Event)
  <2>1. "rx" \in EventTypes
    BY DEF EventTypes
  <2> QED
    BY <1>1, <1>4, <1>6, <2>1, EventAppended
<1>10. ChannelTypes'
  BY <1>2, <1>3, <1>9, DeviceKept DEF TypeInv, TypeOK, ChannelTypes
<1>11. HostTypes'
  BY <1>1, <1>2, <1>5, <1>6 DEF TypeInv, TypeOK, HostTypes, Phases
<1> QED
  BY <1>2, <1>8, <1>10, <1>11, DeviceKept DEF TypeInv, TypeOK

LEMMA HostInTypes == TypeInv /\ HostIn => TypeInv'
<1> SUFFICES ASSUME TypeInv, HostIn PROVE TypeInv'
  OBVIOUS
<1> DEFINE r == Head(in_reqs)
           t == tx_buffer[r.buf]
           got == h_got \o [i \in 1..r.len |-> BlockAt(t.blocks, i)]
<1>1. /\ \/ h_csw' = [tag |-> t.tag, st |-> t.st] /\ UNCHANGED h_got
         \/ h_got' \in {got, h_got} /\ UNCHANGED h_csw
      /\ h_phase' \in Phases
      /\ in_reqs' = Tail(in_reqs) /\ in_reqs # <<>>
      /\ events' = Append(events, Ev("tx"))
      /\ UNCHANGED <<devv, out_reqs, rx_buffer, h_cbw, h_sent, faults>>
  BY DEF HostIn, Phases
<1>2. r \in Req /\ in_reqs' \in Seq(Req)
  BY <1>1 DEF TypeInv, TypeOK, ChannelTypes
<1>3. r.buf \in Bufs /\ r.len \in Nat
  BY <1>2 DEF Req
<1>4. t \in TxContent
  BY <1>3 DEF TypeInv, TypeOK, BufferTypes
<1>5. t.blocks \in Seq(Val) /\ t.tag \in Nat /\ t.st \in {CSW_GOOD, CSW_FAIL}
  BY <1>4 DEF TxContent
<1> HIDE DEF r, t
<1>6. got \in Seq(Val)
  <2>1. \A i \in 1..r.len : BlockAt(t.blocks, i) \in Val
    BY <1>3, <1>5, BlockAtType
  <2>2. [i \in 1..r.len |-> BlockAt(t.blocks, i)] \in Seq(Val)
    BY <1>3, <2>1
  <2>3. h_got \in Seq(Val)
    BY DEF TypeInv, TypeOK, HostTypes
  <2> QED
    BY <2>2, <2>3
<1>7. events' \in Seq(Event)
  <2>1. Ev("tx") = [type |-> "tx", n |-> 0, buf |-> 0] /\ "tx" \in EventTypes
    BY DEF Ev, EventTypes
  <2> QED
    BY <1>1, <2>1, EventAppended
<1> HIDE DEF got
<1>8. ChannelTypes'
  BY <1>1, <1>2, <1>7, DeviceKept DEF TypeInv, TypeOK, ChannelTypes
<1>9. HostTypes'
  BY <1>1, <1>5, <1>6 DEF TypeInv, TypeOK, HostTypes
<1> QED
  BY <1>1, <1>8, <1>9, DeviceKept DEF TypeInv, TypeOK

LEMMA FaultTypes == TypeInv /\ BusFault => TypeInv'
<1> SUFFICES ASSUME TypeInv, BusFault PROVE TypeInv'
  OBVIOUS
<1>1. faults' \in Nat /\ UNCHANGED <<devv, rx_buffer, h_cbw, h_got, h_sent, h_csw>>
  BY DEF BusFault, TransferError, Abort, hostv, TypeInv, TypeOK, LoopTypes
<1>2. LoopTypes' /\ CmdTypes' /\ BufferTypes' /\ Wellformed'
  <2>1. LoopTypes'
    BY <1>1 DEF devv, flags, boot, TypeInv, TypeOK, LoopTypes
  <2> QED
    BY <1>1, <2>1, DeviceKept
<1>3. h_phase' \in Phases
  BY DEF BusFault, TransferError, Abort, hostv, TypeInv, TypeOK, HostTypes, Phases
<1>4. \E t \in AbortEvents \cup ErrorEvents : events' = Append(events, Ev(t))
  BY DEF BusFault, TransferError, Abort, ErrorEvents
<1>5. events' \in Seq(Event)
  <2>1. \A t \in AbortEvents \cup ErrorEvents :
          t \in EventTypes /\ Ev(t) = [type |-> t, n |-> 0, buf |-> 0]
    BY DEF Ev, EventTypes, ControlEvents
  <2> QED
    BY <1>4, <2>1, EventAppended
<1>6. out_reqs' \in Seq(Req) /\ in_reqs' \in Seq(Req)
  <2>1. /\ out_reqs' = out_reqs \/ (out_reqs # <<>> /\ out_reqs' = Tail(out_reqs))
        /\ in_reqs' = in_reqs \/ (in_reqs # <<>> /\ in_reqs' = Tail(in_reqs))
    BY DEF BusFault, TransferError, Abort
  <2>2. /\ out_reqs \in Seq(Req) /\ in_reqs \in Seq(Req)
        /\ \A q \in Seq(Req) : q # <<>> => Tail(q) \in Seq(Req)
    BY DEF TypeInv, TypeOK, ChannelTypes
  <2> QED
    BY <2>1, <2>2
<1>7. ChannelTypes'
  BY <1>1, <1>5, <1>6, DeviceKept DEF TypeInv, TypeOK, ChannelTypes
<1>8. HostTypes'
  BY <1>1, <1>3 DEF TypeInv, TypeOK, HostTypes
<1> QED
  BY <1>2, <1>7, <1>8 DEF TypeInv, TypeOK

LEMMA StepTypes == TypeInv /\ [Next]_vars => TypeInv'
<1> SUFFICES ASSUME TypeInv, [Next]_vars PROVE TypeInv'
  OBVIOUS
<1>1. CASE UNCHANGED vars
  BY <1>1, Kept DEF vars, cmdv, xfer, upv, rxside, txside, TypeInv, TypeOK, Wellformed
<1>2. CASE Device
  BY <1>2, QuietTypes, EventTypesKept, CommandTypes, TxDataTypes, DatarxTypes, MediaTypes,
     DatatxTypes, CswTypes, CheckTypes DEF Device
<1>3. CASE HostStep
  BY <1>3, EnumerateTypes, SendCbwTypes, DataOutTypes, HostInTypes DEF HostStep
<1>4. CASE BusFault
  BY <1>4, FaultTypes
<1> QED
  BY <1>1, <1>2, <1>3, <1>4 DEF Next

\* Type correctness of the download mode under every bus fault: in particular
\* the giveback that is parsed or stored always names a buffer, and an upload
\* never runs past its size.
THEOREM TypeCorrect == Spec => [](TypeOK /\ Wellformed)
<1>1. Init => TypeInv
  BY InitTypes
<1>2. TypeInv /\ [Next]_vars => TypeInv'
  BY StepTypes
<1> QED
  BY <1>1, <1>2, PTL DEF Spec, TypeInv

-----------------------------------------------------------------------------
(* The receive side, when the bus is not reset.                             *)

\* The driver only owns a requested transfer while it waits for a command or
\* for data, and what it stores is not in the buffer it asked for last.
Waiting ==
  /\ rx_giveback.status = "READY" => status \in {"IDLE", "RXDATA"}
  /\ pc = "media" => /\ wr.buf \in Bufs
                     /\ rx_giveback.status = "READY" => wr.buf = rxbuf_num

\* Nothing comes after a control request before it is handled.
ControlLast ==
  \A i \in DOMAIN events : events[i].type \in ControlEvents => i = Len(events)

\* The device is configured once, and nothing is received before.
Enumeration ==
  IF configured
  THEN /\ h_phase \notin {"detached", "addressed"}
       /\ \A i \in DOMAIN events : events[i].type \notin {"address", "configured", "reset"}
  ELSE /\ status = "IDLE" /\ rx_giveback.actual = 0 /\ rx_giveback.status = "ZERO"
       /\ out_reqs = <<>> /\ in_reqs = <<>>
       /\ \A i \in DOMAIN events : events[i].type \in {"address", "configured"}
       /\ h_phase \notin {"detached", "addressed"}
            <=> \E i \in DOMAIN events : events[i].type = "configured"

RxInv == OneReceive /\ Waiting /\ ControlLast /\ Enumeration

LEMMA InitRx == Init => RxInv
  BY DEF Init, RxInv, OneReceive, Waiting, ControlLast, Enumeration, IsRx

\* The two buffers of a pair differ.
LEMMA FlipFacts == \A b \in Bufs : Flip(b) # b /\ Flip(Flip(b)) = b
  BY DEF Flip

\* Sequences without a first or a second element.
LEMMA NoElements == \A q \in Seq(Event) : (\A i \in DOMAIN q : FALSE) => q = <<>>
<1> SUFFICES ASSUME NEW q \in Seq(Event), \A i \in DOMAIN q : FALSE PROVE q = <<>>
  OBVIOUS
<1>1. DOMAIN q = 1..Len(q) /\ Len(q) \in Nat
  OBVIOUS
<1>2. Len(q) = 0
  BY <1>1
<1> QED
  BY <1>2

LEMMA NoSecondRequest == \A q \in Seq(Req) : q # <<>> /\ Len(q) <= 1 => Tail(q) = <<>>
<1> SUFFICES ASSUME NEW q \in Seq(Req), q # <<>>, Len(q) <= 1 PROVE Tail(q) = <<>>
  OBVIOUS
<1>1. Tail(q) \in Seq(Req) /\ Len(Tail(q)) = Len(q) - 1 /\ Len(q) \in Nat /\ Len(q) # 0
  OBVIOUS
<1>2. Len(Tail(q)) = 0
  BY <1>1
<1> QED
  BY <1>1, <1>2

\* A step of the loop that neither handles an event nor asks for a transfer.
LEMMA RxQuiet ==
  ASSUME TypeInv, RxInv,
         UNCHANGED <<configured, rxbuf_num, out_reqs, events, h_phase>>,
         rx_giveback' = rx_giveback \/ rx_giveback' = [rx_giveback EXCEPT !.actual = 0],
         in_reqs' = in_reqs \/ configured,
         status' = status \/ (configured /\ rx_giveback.status # "READY"),
         pc' # "media"
  PROVE  RxInv'
<1>1. /\ rx_giveback'.status = rx_giveback.status
      /\ rx_giveback'.actual = 0 \/ rx_giveback'.actual = rx_giveback.actual
      /\ rx_giveback'.buf = rx_giveback.buf
  BY DEF TypeInv, TypeOK, ChannelTypes
<1>2. OneReceive'
  BY <1>1 DEF RxInv, OneReceive
<1>3. Waiting' /\ ControlLast' /\ Enumeration'
  BY <1>1 DEF RxInv, Waiting, ControlLast, Enumeration
<1> QED
  BY <1>2, <1>3 DEF RxInv

\* Asking for the next transfer while none is about.
LEMMA RxPosted ==
  ASSUME TypeInv, RxInv, NEW k \in Nat,
         rx_giveback.status # "READY", configured,
         rkusb_read_bulk_ep(configured, out_reqs, k, rxbuf_num),
         UNCHANGED <<configured, events, h_phase>>,
         status' \in {"IDLE", "RXDATA"},
         pc' = "media" => wr'.buf \in Bufs /\ wr'.buf = Flip(rxbuf_num)
  PROVE  RxInv'
<1>1. out_reqs = <<>> /\ \A i \in DOMAIN events : ~IsRx(events[i])
  BY DEF RxInv, OneReceive
<1>2. /\ out_reqs' = <<[buf |-> rxbuf_num, len |-> k]>>
      /\ rx_giveback' = [status |-> "READY", actual |-> 0, buf |-> NULL]
      /\ rxbuf_num' = Flip(rxbuf_num)
  BY <1>1 DEF rkusb_read_bulk_ep, Queue
<1>3. rxbuf_num = Flip(rxbuf_num') /\ rxbuf_num \in Bufs
  BY <1>2, FlipFacts DEF TypeInv, TypeOK, BufferTypes
<1>4. OneReceive'
  BY <1>1, <1>2, <1>3 DEF OneReceive, IsRx
<1>5. Waiting' /\ ControlLast' /\ Enumeration'
  BY <1>2 DEF RxInv, Waiting, ControlLast, Enumeration
<1> QED
  BY <1>4, <1>5 DEF RxInv

\* Queueing the CSW asks for the next CBW, or does nothing.
LEMMA RxCsw ==
  ASSUME TypeInv, RxInv, NEW st, rkusb_send_csw(st), rx_giveback.status # "READY",
         status # "IDLE",
         UNCHANGED <<configured, events, h_phase>>,
         pc' = "media" => wr'.buf \in Bufs /\ wr'.buf = Flip(rxbuf_num)
  PROVE  RxInv'
<1>0. configured
  BY DEF RxInv, Enumeration
<1>1. CASE CanSend
  <2>1. rkusb_read_bulk_ep(configured, out_reqs, 0, rxbuf_num) /\ status' = "IDLE"
    BY <1>1 DEF rkusb_send_csw
  <2> QED
    BY <1>0, <2>1, RxPosted
<1>2. CASE ~CanSend
  <2>1. UNCHANGED <<rx_giveback, rxbuf_num, out_reqs, in_reqs, status>>
    BY <1>2 DEF rkusb_send_csw, txside, rxside
  <2>2. OneReceive'
    BY <2>1 DEF RxInv, OneReceive
  <2>3. Waiting' /\ ControlLast' /\ Enumeration'
    BY <2>1 DEF RxInv, Waiting, ControlLast, Enumeration
  <2> QED
    BY <2>2, <2>3 DEF RxInv
<1> QED
  BY <1>1, <1>2

LEMMA RxEvent ==
  ASSUME TypeInv, RxInv, HandleEvent
  PROVE  RxInv'
<1> DEFINE e == Head(events)
<1>1. /\ events \in Seq(Event) /\ events # <<>> /\ events' = Tail(events)
      /\ UNCHANGED <<pc, wr, h_phase>> /\ pc = "intr"
  BY DEF HandleEvent, TypeInv, TypeOK, ChannelTypes, hostv
<1>2. /\ e = events[1] /\ 1 \in DOMAIN events /\ Len(events') = Len(events) - 1
      /\ DOMAIN events' = 1..(Len(events) - 1) /\ Len(events) \in Nat
      /\ \A i \in DOMAIN events' : i + 1 \in DOMAIN events /\ events'[i] = events[i + 1]
  BY <1>1
<1>3. ControlLast'
  BY <1>1, <1>2 DEF RxInv, ControlLast
<1>4. CASE dwc3_rx_handler(e)
  <2> USE DEF dwc3_rx_handler
  <2>1. IsRx(e)
    BY <1>4 DEF IsRx
  <2>2. /\ rx_giveback.status = "READY" /\ out_reqs = <<>>
        /\ e.type = "rx" => e.buf = Flip(rxbuf_num)
        /\ \A i \in DOMAIN events' : ~IsRx(events'[i])
    <3>1. \A j \in DOMAIN events : IsRx(events[j]) => j = 1
      BY <1>2, <2>1 DEF RxInv, OneReceive
    <3> QED
      BY <1>2, <2>1, <3>1 DEF RxInv, OneReceive
  <2>3. rx_giveback.actual = 0
    BY <2>2 DEF RxInv, OneReceive, TypeInv, TypeOK, ChannelTypes
  <2>4. OneReceive'
    BY <1>4, <2>2, <2>3 DEF OneReceive, TypeInv, TypeOK, ChannelTypes
  <2>5. Waiting'
    BY <1>1, <1>4 DEF Waiting, TypeInv, TypeOK, ChannelTypes
  <2>6. configured
    BY <2>2 DEF RxInv, Enumeration
  <2>7. Enumeration'
    BY <1>1, <1>2, <1>4, <2>6 DEF RxInv, Enumeration
  <2> QED
    BY <1>3, <2>4, <2>5, <2>7 DEF RxInv
<1>5. CASE dwc3_tx_handler(e)
  <2> USE DEF dwc3_tx_handler, rxside
  <2>1. OneReceive'
    BY <1>2, <1>5 DEF RxInv, OneReceive
  <2>2. Waiting'
    BY <1>1, <1>5 DEF RxInv, Waiting
  <2>3. configured
    BY <1>2, <1>5 DEF RxInv, Enumeration
  <2>4. Enumeration'
    BY <1>1, <1>2, <1>5, <2>3 DEF RxInv, Enumeration
  <2> QED
    BY <1>3, <2>1, <2>2, <2>4 DEF RxInv
<1>6. CASE rkusb_event_handler_for_dwc3(e)
  <2> USE DEF rkusb_event_handler_for_dwc3, StatusAfter
  <2>1. Len(events) = 1 /\ events' = <<>>
    BY <1>1, <1>2, <1>6 DEF RxInv, ControlLast
  <2>2. e.type # "reset"
    BY <1>2 DEF RxInv, Enumeration
  <2>3. CASE e.type = "address"
    <3>1. ~configured
      BY <1>2, <2>3 DEF RxInv, Enumeration
    <3>2. h_phase \in {"detached", "addressed"}
      <4>1. \A i \in DOMAIN events : i = 1
        BY <1>2, <2>1
      <4> QED
        BY <1>2, <2>3, <3>1, <4>1 DEF RxInv, Enumeration
    <3>3. UNCHANGED <<rx_giveback, rxbuf_num, out_reqs, in_reqs>> /\ status' = "IDLE"
      BY <1>6, <2>3
    <3>5. ~configured'
      BY <1>6, <2>3, <3>1
    <3>4. OneReceive' /\ Waiting' /\ Enumeration'
      BY <1>1, <2>1, <3>1, <3>2, <3>3, <3>5 DEF RxInv, OneReceive, Waiting, Enumeration
    <3> QED
      BY <1>3, <3>4 DEF RxInv
  <2>4. CASE e.type \in {"configured", "clear_out", "clear_both"}
    <3>1. h_phase \notin {"detached", "addressed"}
      BY <1>2, <2>4 DEF RxInv, Enumeration
    <3>2. configured'
      BY <1>2, <1>6, <2>2, <2>4 DEF RxInv, Enumeration
    <3>3. /\ out_reqs' = <<[buf |-> 0, len |-> 0]>>
          /\ rx_giveback' = [status |-> "READY", actual |-> 0, buf |-> NULL]
          /\ rxbuf_num' = Flip(0)
      BY <1>6, <2>4 DEF rkusb_read_bulk_ep, Queue
    <3>4. status' \in {"IDLE", "RXDATA"}
      BY <1>2, <1>6, <2>4 DEF RxInv, Enumeration
    <3>5. OneReceive'
      BY <2>1, <3>3, FlipFacts DEF OneReceive
    <3>6. Waiting' /\ Enumeration'
      BY <1>1, <2>1, <3>1, <3>2, <3>4 DEF Waiting, Enumeration
    <3> QED
      BY <1>3, <3>5, <3>6 DEF RxInv
  <2>5. CASE e.type = "clear_in"
    <3>1. configured /\ h_phase \notin {"detached", "addressed"}
      BY <1>2, <2>5 DEF RxInv, Enumeration
    <3>2. UNCHANGED <<rx_giveback, rxbuf_num, out_reqs>> /\ configured' /\ status' = "IDLE"
      BY <1>6, <2>5, <3>1
    <3>3. OneReceive' /\ Waiting' /\ Enumeration'
      BY <1>1, <2>1, <3>1, <3>2 DEF RxInv, OneReceive, Waiting, Enumeration
    <3> QED
      BY <1>3, <3>3 DEF RxInv
  <2> QED
    BY <1>6, <2>2, <2>3, <2>4, <2>5 DEF ControlEvents, AbortEvents
<1> QED
  BY <1>4, <1>5, <1>6 DEF HandleEvent

\* The steps of the loop that leave the receive side alone.
LEMMA RxLoop ==
  ASSUME TypeInv, RxInv,
         \/ Connect \/ EndInterrupt \/ NoCommand \/ NoResponse \/ MediaWrite
         \/ Reboot \/ NextRound
  PROVE  RxInv'
<1>1. /\ UNCHANGED <<configured, rx_giveback, rxbuf_num, out_reqs, in_reqs, events, h_phase,
                     status>>
      /\ pc' # "media"
  BY DEF Connect, EndInterrupt, NoCommand, NoResponse, MediaWrite, Reboot, NextRound, rxside,
     txside, hostv
<1> QED
  BY <1>1, RxQuiet

\* A command is only executed when its CBW has been handed over.
LEMMA RxCommand ==
  ASSUME TypeInv, RxInv, do_rockusb_cmd
  PROVE  RxInv'
<1>1. configured /\ rx_giveback.status = "OK"
  BY DEF RxInv, OneReceive, Enumeration, do_rockusb_cmd, NewCommand, TypeInv, TypeOK, ChannelTypes
<1>2. /\ UNCHANGED <<configured, rxbuf_num, out_reqs, in_reqs, events, h_phase>>
      /\ pc' # "media"
  BY DEF do_rockusb_cmd, txside, hostv
<1>3. rx_giveback' = rx_giveback \/ rx_giveback' = [rx_giveback EXCEPT !.actual = 0]
  BY DEF do_rockusb_cmd, FW_TestUnitReady, FW_Info, FW_Read, FW_Write, FW_Erase, FW_Simple,
     FW_Unknown
<1> QED
  BY <1>1, <1>2, <1>3, RxQuiet

\* Nothing is being received while the data stage of a read runs.
LEMMA RxUpload ==
  ASSUME TypeInv, RxInv, HandleTxData \/ rkusb_handle_datatx
  PROVE  RxInv'
<1>1. configured /\ rx_giveback.status # "READY"
  BY DEF RxInv, Waiting, Enumeration, HandleTxData, rkusb_handle_datatx, TxReady
<1>2. UNCHANGED <<configured, rx_giveback, rxbuf_num, out_reqs, events, h_phase>>
  BY DEF HandleTxData, rkusb_handle_datatx, rxside, hostv
<1>3. pc' # "media"
  BY DEF HandleTxData, rkusb_handle_datatx
<1> QED
  BY <1>1, <1>2, <1>3, RxQuiet

\* What is stored next lies in the buffer that is not asked for.
LEMMA RxDatarx ==
  ASSUME TypeInv, RxInv, rkusb_handle_datarx
  PROVE  RxInv'
<1> DEFINE got == Add(d_bytes, rx_giveback.actual)
<1>1. configured /\ rx_giveback.status # "READY" /\ status # "IDLE"
  BY DEF RxInv, Waiting, Enumeration, rkusb_handle_datarx, RxReady
<1>2. UNCHANGED <<configured, events, h_phase>>
  BY DEF rkusb_handle_datarx, hostv
<1>3. pc' = "media" => wr'.buf \in Bufs /\ wr'.buf = Flip(rxbuf_num)
  <2> SUFFICES ASSUME pc' = "media" PROVE wr'.buf \in Bufs /\ wr'.buf = Flip(rxbuf_num)
    OBVIOUS
  <2>1. rx_giveback.actual > 0 /\ wr'.buf = rx_giveback.buf
    BY DEF rkusb_handle_datarx
  <2> QED
    BY <2>1, FlipType DEF RxInv, OneReceive, TypeInv, TypeOK, BufferTypes
<1>4. CASE got < d_size
  <2>1. /\ rkusb_read_bulk_ep(configured, out_reqs, Chunk(d_size - got), rxbuf_num)
        /\ status' = "RXDATA"
    BY <1>4 DEF rkusb_handle_datarx
  <2>2. Chunk(d_size - got) \in Nat
    <3>1. d_size \in Nat /\ d_bytes \in Nat /\ rx_giveback.actual \in Nat
      BY DEF TypeInv, TypeOK, CmdTypes, ChannelTypes
    <3>2. got \in Nat
      BY <3>1, AddType
    <3> HIDE DEF got
    <3>3. d_size - got \in Nat
      BY <1>4, <3>1, <3>2
    <3> QED
      BY <3>3, ChunkType
  <2> QED
    BY <1>1, <1>2, <1>3, <2>1, <2>2, RxPosted
<1>5. CASE ~(got < d_size)
  <2>1. rkusb_send_csw(CSW_GOOD)
    BY <1>5 DEF rkusb_handle_datarx
  <2> QED
    BY <1>1, <1>2, <1>3, <2>1, RxCsw
<1> QED
  BY <1>4, <1>5

LEMMA RxSendCsw ==
  ASSUME TypeInv, RxInv, SendCsw
  PROVE  RxInv'
<1>1. UNCHANGED <<configured, events, h_phase>> /\ pc' = "check"
  BY DEF SendCsw, hostv
<1>2. CASE status = "CSW"
  <2>1. rx_giveback.status # "READY"
    BY <1>2 DEF RxInv, Waiting
  <2>2. rkusb_send_csw(csw_st)
    BY <1>2 DEF SendCsw
  <2> QED
    BY <1>1, <1>2, <2>1, <2>2, RxCsw
<1>3. CASE status # "CSW"
  <2>1. UNCHANGED <<rx_giveback, rxbuf_num, out_reqs, in_reqs, status>>
    BY <1>3 DEF SendCsw, txside, rxside
  <2> QED
    BY <1>1, <2>1, RxQuiet
<1> QED
  BY <1>2, <1>3

\* A transfer ends or a control request arrives on a configured device.
LEMMA RxBus ==
  ASSUME TypeInv, RxInv, OnBus, configured, NEW e \in Event,
         events' = Append(events, e),
         UNCHANGED <<pc, status, configured, rx_giveback, rxbuf_num, wr>>,
         h_phase' \notin {"detached", "addressed"},
         e.type \notin {"address", "configured", "reset"},
         \/ ~IsRx(e) /\ out_reqs' = out_reqs
         \/ /\ IsRx(e) /\ out_reqs # <<>> /\ out_reqs' = Tail(out_reqs)
            /\ e.type = "rx" => e.buf = Head(out_reqs).buf
  PROVE  RxInv'
<1>1. /\ events \in Seq(Event) /\ Len(events') = Len(events) + 1
      /\ DOMAIN events = 1..Len(events) /\ DOMAIN events' = 1..(Len(events) + 1)
      /\ Len(events) \in Nat
      /\ \A i \in DOMAIN events : events'[i] = events[i]
      /\ events'[Len(events) + 1] = e
  BY DEF TypeInv, TypeOK, ChannelTypes
<1>2. ControlLast'
  BY <1>1 DEF ControlLast, OnBus
<1>3. Waiting' /\ Enumeration'
  BY <1>1 DEF RxInv, Waiting, Enumeration
<1>4. OneReceive'
  <2>1. CASE ~IsRx(e) /\ out_reqs' = out_reqs
    <3>1. \A i \in DOMAIN events' : IsRx(events'[i]) => i \in DOMAIN events /\ IsRx(events[i])
      BY <1>1, <2>1
    <3> QED
      BY <1>1, <2>1, <3>1 DEF RxInv, OneReceive
  <2>2. CASE /\ IsRx(e) /\ out_reqs # <<>> /\ out_reqs' = Tail(out_reqs)
             /\ e.type = "rx" => e.buf = Head(out_reqs).buf
    <3>1. \A i \in DOMAIN events : ~IsRx(events[i])
      BY <2>2 DEF RxInv, OneReceive
    <3>2. \A i \in DOMAIN events' : IsRx(events'[i]) => i = Len(events) + 1
      BY <1>1, <3>1
    <3>3. out_reqs' = <<>>
      BY <2>2, NoSecondRequest DEF RxInv, OneReceive, TypeInv, TypeOK, ChannelTypes
    <3>4. rx_giveback.status = "READY" /\ Head(out_reqs).buf = Flip(rxbuf_num)
      BY <2>2 DEF RxInv, OneReceive
    <3> QED
      BY <1>1, <2>2, <3>2, <3>3, <3>4 DEF RxInv, OneReceive
  <2> QED
    BY <2>1, <2>2
<1> QED
  BY <1>2, <1>3, <1>4 DEF RxInv

LEMMA RxEnumerate ==
  ASSUME TypeInv, RxInv, Enumerate
  PROVE  RxInv'
<1>1. UNCHANGED <<pc, status, configured, rx_giveback, rxbuf_num, wr, out_reqs, in_reqs>>
  BY DEF Enumerate, devv
<1>2. ~configured /\ events = <<>>
  <2>1. ~configured
    BY DEF RxInv, Enumeration, Enumerate
  <2>2. \A i \in DOMAIN events : FALSE
    BY <2>1 DEF RxInv, Enumeration, Enumerate, OnBus, ControlEvents
  <2>3. events \in Seq(Event)
    BY DEF TypeInv, TypeOK, ChannelTypes
  <2> QED
    BY <2>1, <2>2, <2>3, NoElements
<1>3. \/ h_phase' = "addressed" /\ events' = <<Ev("address")>>
      \/ h_phase' = "ready" /\ events' = <<Ev("configured")>>
  BY <1>2 DEF Enumerate
<1>4. DOMAIN events' = {1} /\ Len(events') = 1
      /\ \/ h_phase' = "addressed" /\ events'[1].type = "address"
         \/ h_phase' = "ready" /\ events'[1].type = "configured"
  BY <1>3 DEF Ev
<1>5. OneReceive'
  BY <1>1, <1>4 DEF RxInv, OneReceive, IsRx
<1>6. Waiting' /\ ControlLast' /\ Enumeration'
  BY <1>1, <1>2, <1>4 DEF RxInv, Waiting, ControlLast, Enumeration
<1> QED
  BY <1>5, <1>6 DEF RxInv

LEMMA RxHost ==
  ASSUME TypeInv, RxInv, HostStep
  PROVE  RxInv'
<1>1. CASE Enumerate
  BY <1>1, RxEnumerate
<1>2. ASSUME NEW c \in Cmds, HostSendCbw(c) PROVE RxInv'
  <2> DEFINE e == [type |-> "rx", n |-> 1, buf |-> Head(out_reqs).buf]
  <2>1. out_reqs # <<>> /\ configured /\ Head(out_reqs) \in Req
    BY <1>2 DEF HostSendCbw, RxInv, Enumeration, TypeInv, TypeOK, ChannelTypes
  <2>2. e \in Event
    BY <2>1 DEF Event, EventTypes, Req
  <2>3. /\ UNCHANGED <<pc, status, configured, rx_giveback, rxbuf_num, wr>>
        /\ OnBus /\ events' = Append(events, e) /\ out_reqs' = Tail(out_reqs)
        /\ h_phase' \notin {"detached", "addressed"}
    BY <1>2 DEF HostSendCbw, devv
  <2> QED
    BY <2>1, <2>2, <2>3, RxBus DEF IsRx
<1>3. CASE HostDataOut
  <2>1. out_reqs # <<>> /\ configured /\ Head(out_reqs) \in Req
    BY <1>3 DEF HostDataOut, RxInv, Enumeration, TypeInv, TypeOK, ChannelTypes
  <2>2. PICK k \in 1..Least(Head(out_reqs).len, h_cbw.n - h_sent) :
          /\ events' = Append(events, [type |-> "rx", n |-> k, buf |-> Head(out_reqs).buf])
          /\ h_phase' = IF h_sent + k = h_cbw.n THEN "status" ELSE "out"
    BY <1>3 DEF HostDataOut
  <2> DEFINE e == [type |-> "rx", n |-> k, buf |-> Head(out_reqs).buf]
  <2>3. e \in Event
    BY <2>1, <2>2 DEF Event, EventTypes, Req
  <2>4. /\ UNCHANGED <<pc, status, configured, rx_giveback, rxbuf_num, wr>>
        /\ OnBus /\ out_reqs' = Tail(out_reqs) /\ h_phase' \notin {"detached", "addressed"}
    BY <1>3, <2>2 DEF HostDataOut, devv
  <2> QED
    BY <2>1, <2>2, <2>3, <2>4, RxBus DEF IsRx
<1>4. CASE HostIn
  <2>1. configured
    BY <1>4 DEF HostIn, RxInv, Enumeration
  <2>2. Ev("tx") \in Event /\ ~IsRx(Ev("tx"))
        /\ Ev("tx").type \notin {"address", "configured", "reset"}
    BY DEF Event, Ev, EventTypes, Bufs, IsRx
  <2>3. /\ UNCHANGED <<pc, status, configured, rx_giveback, rxbuf_num, wr>>
        /\ OnBus /\ events' = Append(events, Ev("tx")) /\ out_reqs' = out_reqs
    BY <1>4 DEF HostIn, devv
  <2>4. h_phase' \notin {"detached", "addressed"}
    BY <1>4 DEF HostIn
  <2> QED
    BY <2>1, <2>2, <2>3, <2>4, RxBus
<1> QED
  BY <1>1, <1>2, <1>3, <1>4 DEF HostStep

LEMMA RxFault ==
  ASSUME "reset" \notin Faults, TypeInv, RxInv, BusFault
  PROVE  RxInv'
<1>1. CASE TransferError
  <2>1. configured /\ h_phase' = h_phase /\ OnBus
        /\ UNCHANGED <<pc, status, configured, rx_giveback, rxbuf_num, wr>>
    BY <1>1 DEF TransferError, RxInv, Enumeration, devv, hostv
  <2>2. /\ Ev("rx_err") \in Event /\ Ev("tx_err") \in Event
        /\ Ev("rx_err").type = "rx_err" /\ Ev("tx_err").type = "tx_err"
    BY DEF Event, Ev, EventTypes, ErrorEvents, Bufs
  <2>3. h_phase' \notin {"detached", "addressed"}
    BY <1>1, <2>1 DEF TransferError
  <2>4. \/ /\ events' = Append(events, Ev("rx_err")) /\ out_reqs # <<>>
           /\ out_reqs' = Tail(out_reqs)
        \/ events' = Append(events, Ev("tx_err")) /\ out_reqs' = out_reqs
    BY <1>1 DEF TransferError
  <2>5. CASE /\ events' = Append(events, Ev("rx_err")) /\ out_reqs # <<>>
             /\ out_reqs' = Tail(out_reqs)
    BY <2>1, <2>2, <2>3, <2>5, RxBus DEF IsRx
  <2>6. CASE events' = Append(events, Ev("tx_err")) /\ out_reqs' = out_reqs
    BY <2>1, <2>2, <2>3, <2>6, RxBus DEF IsRx
  <2> QED
    BY <2>4, <2>5, <2>6
<1>2. ASSUME NEW t \in AbortEvents, Abort(t) PROVE RxInv'
  <2>1. t # "reset" /\ h_phase \notin {"detached", "addressed"} /\ OnBus
    BY <1>2 DEF Abort
  <2>2. configured
    BY <2>1 DEF RxInv, Enumeration, OnBus, ControlEvents
  <2>3. Ev(t) \in Event /\ Ev(t).type = t /\ ~IsRx(Ev(t))
    BY DEF Event, Ev, EventTypes, ControlEvents, AbortEvents, Bufs, IsRx
  <2>4. /\ UNCHANGED <<pc, status, configured, rx_giveback, rxbuf_num, wr, out_reqs>>
        /\ events' = Append(events, Ev(t)) /\ h_phase' = "ready"
    BY <1>2, <2>1 DEF Abort, devv
  <2>5. t \notin {"address", "configured", "reset"}
    BY <2>1 DEF AbortEvents
  <2> QED
    BY <2>1, <2>2, <2>3, <2>4, <2>5, RxBus
<1> QED
  BY <1>1, <1>2 DEF BusFault

LEMMA StepRx ==
  ASSUME "reset" \notin Faults, TypeInv, RxInv, [Next]_vars
  PROVE  RxInv'
<1>1. CASE UNCHANGED vars
  <2>1. UNCHANGED <<pc, status, configured, rx_giveback, rxbuf_num, out_reqs, in_reqs, events,
                    wr, h_phase>>
    BY <1>1 DEF vars, rxside, txside, hostv
  <2>2. OneReceive' /\ ControlLast'
    BY <2>1 DEF RxInv, OneReceive, ControlLast
  <2>3. Waiting' /\ Enumeration'
    BY <2>1 DEF RxInv, Waiting, Enumeration
  <2> QED
    BY <2>2, <2>3 DEF RxInv
<1>2. CASE Device
  BY <1>2, RxLoop, RxEvent, RxCommand, RxUpload, RxDatarx, RxSendCsw DEF Device
<1>3. CASE HostStep
  BY <1>3, RxHost
<1>4. CASE BusFault
  BY <1>4, RxFault
<1> QED
  BY <1>1, <1>2, <1>3, <1>4 DEF Next

\* While data is being stored its buffer is out of the controller's reach.
LEMMA StoreUndisturbed ==
  ASSUME TypeInv, RxInv, [Next]_vars, pc = "media"
  PROVE  rx_buffer'[wr.buf] = rx_buffer[wr.buf]
<1>1. \/ rx_buffer' = rx_buffer
      \/ /\ out_reqs # <<>>
         /\ \E x : rx_buffer' = [rx_buffer EXCEPT ![Head(out_reqs).buf] = x]
  BY DEF Next, vars, Device, Connect, HandleEvent, EndInterrupt, do_rockusb_cmd, NoCommand,
     HandleTxData, rkusb_handle_datarx, MediaWrite, rkusb_handle_datatx, NoResponse, SendCsw,
     Reboot, NextRound, HostStep, Enumerate, HostSendCbw, HostDataOut, HostIn, BusFault,
     TransferError, Abort
<1>2. CASE out_reqs # <<>>
  <2>1. wr.buf = rxbuf_num /\ wr.buf \in Bufs /\ Head(out_reqs).buf = Flip(rxbuf_num)
    BY <1>2 DEF RxInv, OneReceive, Waiting
  <2>2. Head(out_reqs).buf # wr.buf
    BY <2>1, FlipFacts
  <2> QED
    BY <1>1, <2>1, <2>2 DEF TypeInv, TypeOK, BufferTypes
<1> QED
  BY <1>1, <1>2

\* As long as the bus is not reset, whatever endpoint halts and transfer errors
\* happen, at most one OUT transfer is about and it goes to the buffer the
\* driver will look at next.
THEOREM OneReceiveAtATime == "reset" \notin Faults => (Spec => []OneReceive)
<1> SUFFICES ASSUME "reset" \notin Faults PROVE Spec => []OneReceive
  OBVIOUS
<1>1. Init => TypeInv /\ RxInv
  BY InitTypes, InitRx
<1>2. (TypeInv /\ RxInv) /\ [Next]_vars => (TypeInv /\ RxInv)'
  BY StepTypes, StepRx
<1>3. RxInv => OneReceive
  BY DEF RxInv
<1> QED
  BY <1>1, <1>2, <1>3, PTL DEF Spec

\* ... and the data rkusb_handle_datarx stores is not overwritten by the
\* transfer it asked for before.
THEOREM ReceiveBufferSafe == "reset" \notin Faults => (Spec => RxBufferStable)
<1> SUFFICES ASSUME "reset" \notin Faults PROVE Spec => RxBufferStable
  OBVIOUS
<1>1. Init => TypeInv /\ RxInv
  BY InitTypes, InitRx
<1>2. (TypeInv /\ RxInv) /\ [Next]_vars => (TypeInv /\ RxInv)'
  BY StepTypes, StepRx
<1>3. (TypeInv /\ RxInv) /\ [Next]_vars
        => [pc = "media" => rx_buffer'[wr.buf] = rx_buffer[wr.buf]]_vars
  BY StoreUndisturbed
<1> QED
  BY <1>1, <1>2, <1>3, PTL DEF Spec, RxBufferStable
=============================================================================
