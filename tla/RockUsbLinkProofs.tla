------------------------- MODULE RockUsbLinkProofs -------------------------
(***************************************************************************)
(* Theorems about both directions of the link of RockUsb together: the     *)
(* transmit buffers, the order of answer and next command, the reset and   *)
(* the addresses a command writes, as long as the host gives a command up  *)
(* only by clearing both endpoints; and, on a bus without aborts, the      *)
(* stages of a command and the data it reads and writes.  They hold for    *)
(* every set of commands, every buffer size and every number of commands   *)
(* and faults.                                                             *)
(***************************************************************************)
EXTENDS RockUsbProofs

USE DEF CSW_GOOD, CSW_FAIL, NULL, Bufs

\* The host never resets the bus and never clears one endpoint alone.
ClearsBoth == Faults \cap {"reset", "clear_in", "clear_out"} = {}

OtherEvents == {"reset", "clear_in", "clear_out"}
NoOther     == \A i \in DOMAIN events : events[i].type \notin OtherEvents

\* At most one IN transfer is about: requested, or completed and not yet
\* handled; it is the one of the buffer the driver does not look at.
IsTx(e) == e.type \in {"tx", "tx_err"}
OneSend ==
  /\ Len(in_reqs) <= 1
  /\ in_reqs # <<>> => tx_status = "IN_PROGRESS" /\ Head(in_reqs).buf = Flip(txbuf_num)
  /\ \A i \in DOMAIN events : IsTx(events[i]) =>
       /\ in_reqs = <<>> /\ tx_status = "IN_PROGRESS"
       /\ \A j \in DOMAIN events : IsTx(events[j]) => i = j

\* The driver learns that its answer was sent before it learns of what the
\* host sent next.
AnswerFirst ==
  \A j \in DOMAIN events : events[j].type = "rx" =>
    /\ in_reqs = <<>>
    /\ tx_status = "OK" \/ \E i \in DOMAIN events : i < j /\ events[i].type = "tx"

\* Outside the data stage of a read and the wait for the CSW, a driver that has
\* something to do has nothing to send.
TxFree ==
  \/ tx_status = "OK"
  \/ status = "CSW"
  \/ status = "TXDATA_PREPARE" /\ u_bytes > 0
  \/ status = "IDLE" /\ rx_giveback.actual = 0

\* A host that is ready for the next command has a driver that waits for it.
Aborted == \E i \in DOMAIN events : events[i].type = "clear_both"
Sent    == tx_status = "OK" \/ \E i \in DOMAIN events : events[i].type = "tx"
HostReady ==
  h_phase = "ready" /\ configured /\ ~Aborted =>
    /\ status = "IDLE" /\ rx_giveback.actual = 0 /\ in_reqs = <<>> /\ Sent
    /\ \A i \in DOMAIN events : events[i].type # "rx"

\* The CSWs that lie in the buffers are those of earlier commands until the
\* current one is answered.
Tags ==
  /\ cbw.tag <= h_cbw.tag
  /\ \A b \in Bufs : tx_buffer[b].kind = "csw" =>
       tx_buffer[b].tag <= cbw.tag /\ (status # "IDLE" => tx_buffer[b].tag < cbw.tag)

\* What reaches a driver that waits for a command is a CBW it has not seen.
NewCbw(b) ==
  rx_buffer[b].kind = "cbw" /\ rx_buffer[b].cbw.tag > cbw.tag /\ rx_buffer[b].cbw.tag <= h_cbw.tag
Fresh ==
  /\ out_reqs # <<>> /\ Head(out_reqs).len > 0 => status = "RXDATA"
  /\ status = "IDLE" =>
       /\ rx_giveback.actual > 0 => NewCbw(rx_giveback.buf)
       /\ \A i \in DOMAIN events : events[i].type = "rx" => NewCbw(events[i].buf)

LinkInv == NoOther /\ OneSend /\ AnswerFirst /\ TxFree /\ HostReady /\ Tags /\ Fresh
Inv     == TypeInv /\ RxInv /\ LinkInv

LEMMA InitLink == Init => LinkInv
<1> SUFFICES ASSUME Init PROVE LinkInv
  OBVIOUS
<1>1. /\ events = <<>> /\ in_reqs = <<>> /\ out_reqs = <<>> /\ status = "IDLE" /\ ~configured
      /\ rx_giveback.actual = 0 /\ cbw.tag = 0 /\ h_cbw.tag = 0
      /\ \A b \in Bufs : tx_buffer[b].kind = "none"
  BY DEF Init, NoCbw, NoTx
<1> QED
  BY <1>1 DEF LinkInv, NoOther, OneSend, AnswerFirst, TxFree, HostReady, Tags, Fresh

\* A step that touches nothing of the link.
LEMMA LinkQuiet ==
  ASSUME LinkInv,
         UNCHANGED <<status, configured, cbw, tx_status, txbuf_num, in_reqs, out_reqs, rx_giveback,
                     events, h_phase, h_cbw, rx_buffer, tx_buffer, u_bytes>>
  PROVE  LinkInv'
<1>1. NoOther' /\ OneSend' /\ AnswerFirst' /\ TxFree'
  BY DEF LinkInv, NoOther, OneSend, AnswerFirst, TxFree
<1>2. HostReady' /\ Tags' /\ Fresh'
  BY DEF LinkInv, HostReady, Aborted, Sent, Tags, Fresh, NewCbw
<1> QED
  BY <1>1, <1>2 DEF LinkInv

\* A driver that may send has nothing on its way.
LEMMA NothingSent ==
  ASSUME TypeInv, LinkInv, tx_status = "OK"
  PROVE  in_reqs = <<>> /\ \A i \in DOMAIN events : ~IsTx(events[i])
BY DEF LinkInv, OneSend

\* A driver that has not asked for a transfer has none on its way.
LEMMA NothingReceived ==
  ASSUME TypeInv, RxInv, rx_giveback.status # "READY"
  PROVE  out_reqs = <<>> /\ \A i \in DOMAIN events : events[i].type # "rx"
BY DEF RxInv, OneReceive, IsRx

\* The buffer that is queued, when none is.
LEMMA Queued ==
  ASSUME TypeInv, configured, in_reqs = <<>>, NEW k \in Nat, rkusb_write_bulk_ep(k)
  PROVE  /\ in_reqs' = <<[buf |-> txbuf_num, len |-> k]>>
         /\ Len(in_reqs') = 1 /\ in_reqs' # <<>> /\ Head(in_reqs').buf = txbuf_num
         /\ tx_status' = "IN_PROGRESS" /\ txbuf_num = Flip(txbuf_num')
<1> DEFINE r == [buf |-> txbuf_num, len |-> k]
<1>1. in_reqs' = Append(<<>>, r) /\ txbuf_num' = Flip(txbuf_num) /\ tx_status' = "IN_PROGRESS"
  BY DEF rkusb_write_bulk_ep, Queue
<1>2. r \in Req /\ txbuf_num \in Bufs /\ r.buf = txbuf_num
  BY DEF TypeInv, TypeOK, BufferTypes, Req
<1>3. txbuf_num = Flip(txbuf_num')
  BY <1>1, <1>2, FlipFacts
<1> HIDE DEF r
<1>4. Append(<<>>, r) = <<r>> /\ Len(<<r>>) = 1 /\ <<r>> # <<>> /\ Head(<<r>>) = r
  BY <1>2
<1>5. in_reqs' = <<r>> /\ Len(in_reqs') = 1 /\ in_reqs' # <<>> /\ Head(in_reqs').buf = txbuf_num
  BY <1>1, <1>2, <1>4
<1> QED
  BY <1>1, <1>3, <1>5 DEF r

\* The steps of the loop that leave the link alone.
LEMMA LinkLoop ==
  ASSUME LinkInv,
         \/ Connect \/ EndInterrupt \/ NoCommand \/ NoResponse \/ MediaWrite
         \/ Reboot \/ NextRound \/ UNCHANGED vars
  PROVE  LinkInv'
<1>1. UNCHANGED <<status, configured, cbw, tx_status, txbuf_num, in_reqs, out_reqs, rx_giveback,
                  events, h_phase, h_cbw, rx_buffer, tx_buffer, u_bytes>>
  BY DEF Connect, EndInterrupt, NoCommand, NoResponse, MediaWrite, Reboot, NextRound, rxside,
     txside, hostv, cmdv, upv, xfer, vars
<1> QED
  BY <1>1, LinkQuiet

\* A command starts with nothing to send, and no other CBW can be about.
LEMMA AtCommand ==
  ASSUME Inv, NewCommand
  PROVE  /\ tx_status = "OK" /\ configured /\ rx_giveback.status = "OK" /\ status = "IDLE"
         /\ rx_giveback.buf \in Bufs
         /\ NewCbw(rx_giveback.buf) /\ CopiedCbws = {rx_buffer[rx_giveback.buf].cbw}
<1>1. rx_giveback.actual \in Nat /\ rx_giveback.actual > 0 /\ status = "IDLE"
  BY DEF NewCommand, Inv, TypeInv, TypeOK, ChannelTypes
<1>2. tx_status = "OK"
  BY <1>1 DEF Inv, LinkInv, TxFree
<1>3. configured /\ rx_giveback.status = "OK"
  BY <1>1 DEF Inv, RxInv, Enumeration, OneReceive
<1>4. NewCbw(rx_giveback.buf)
  BY <1>1 DEF Inv, LinkInv, Fresh
<1>5. rx_giveback.buf \in Bufs
  BY <1>1 DEF Inv, TypeInv, Wellformed
<1> QED
  BY <1>1, <1>2, <1>3, <1>4, <1>5 DEF NewCbw, CopiedCbws

LEMMA LinkCommand ==
  ASSUME Inv, do_rockusb_cmd
  PROVE  LinkInv'
<1>1. NewCommand
  BY DEF do_rockusb_cmd
<1>2. /\ tx_status = "OK" /\ configured /\ rx_giveback.status = "OK" /\ status = "IDLE"
      /\ NewCbw(rx_giveback.buf) /\ rx_giveback.buf \in Bufs
      /\ CopiedCbws = {rx_buffer[rx_giveback.buf].cbw}
  BY <1>1, AtCommand
<1>3. /\ in_reqs = <<>> /\ out_reqs = <<>>
      /\ \A i \in DOMAIN events : ~IsTx(events[i]) /\ events[i].type # "rx"
  BY <1>2, NothingSent, NothingReceived DEF Inv
<1>4. UNCHANGED <<configured, out_reqs, in_reqs, tx_status, txbuf_num, rx_buffer, events, h_phase, h_cbw>>
  BY DEF do_rockusb_cmd, txside, hostv
<1>5. PICK c \in CopiedCbws :
        /\ cbw' = c
        /\ \/ FW_TestUnitReady(c) \/ FW_Info(c) \/ FW_Read(c) \/ FW_Write(c)
           \/ FW_Erase(c) \/ FW_Simple(c) \/ FW_Unknown(c)
  BY DEF do_rockusb_cmd
<1>6. cbw'.tag > cbw.tag /\ cbw'.tag <= h_cbw.tag
  BY <1>2, <1>5 DEF NewCbw
<1>7. status' # "IDLE"
  BY <1>5 DEF FW_TestUnitReady, FW_Info, FW_Read, FW_Write, FW_Erase, FW_Simple, FW_Unknown
<1>8. tx_buffer' = tx_buffer \/ tx_buffer' = [tx_buffer EXCEPT ![txbuf_num] = DataTx(<<Opaque>>)]
  BY <1>5 DEF FW_TestUnitReady, FW_Info, FW_Read, FW_Write, FW_Erase, FW_Simple, FW_Unknown
<1>9. \A b \in Bufs : tx_buffer'[b] = tx_buffer[b] \/ tx_buffer'[b].kind = "data"
  BY <1>8 DEF DataTx, Inv, TypeInv, TypeOK, BufferTypes
<1>10. \A b \in Bufs : tx_buffer'[b].kind = "csw" => tx_buffer'[b].tag < cbw'.tag
  <2>1. cbw.tag \in Nat /\ cbw'.tag \in Nat /\ \A b \in Bufs : tx_buffer[b].tag \in Nat
    <3>1. rx_buffer[rx_giveback.buf].cbw \in Cbw /\ cbw' = rx_buffer[rx_giveback.buf].cbw
      BY <1>2, <1>5 DEF Inv, TypeInv, TypeOK, BufferTypes, RxContent
    <3> QED
      BY <3>1 DEF Inv, TypeInv, TypeOK, BufferTypes, CmdTypes, Cbw, TxContent
  <2> SUFFICES ASSUME NEW b \in Bufs, tx_buffer'[b].kind = "csw"
               PROVE  tx_buffer'[b].tag < cbw'.tag
    OBVIOUS
  <2>2. tx_buffer'[b] = tx_buffer[b]
    BY <1>9
  <2>3. tx_buffer[b].tag <= cbw.tag
    BY <2>2 DEF Inv, LinkInv, Tags
  <2> QED
    BY <1>6, <2>1, <2>2, <2>3
<1>11. Tags'
  <2>1. \A b \in Bufs : tx_buffer'[b].kind = "csw" => tx_buffer'[b].tag <= cbw'.tag
    <3>1. cbw'.tag \in Nat /\ \A b \in Bufs : tx_buffer'[b].kind = "csw" => tx_buffer'[b].tag \in Nat
      <4>1. rx_buffer[rx_giveback.buf].cbw \in Cbw /\ cbw' = rx_buffer[rx_giveback.buf].cbw
        BY <1>2, <1>5 DEF Inv, TypeInv, TypeOK, BufferTypes, RxContent
      <4> QED
        BY <1>9, <4>1 DEF Inv, TypeInv, TypeOK, BufferTypes, Cbw, TxContent
    <3> QED
      BY <1>10, <3>1
  <2> QED
    BY <1>4, <1>6, <1>10, <2>1 DEF Tags
<1>12. HostReady'
  <2>1. ~(h_phase = "ready" /\ configured /\ ~Aborted)
    BY <1>1 DEF Inv, LinkInv, HostReady, NewCommand, TypeInv, TypeOK, ChannelTypes
  <2> QED
    BY <1>4, <2>1 DEF HostReady, Aborted
<1>13. NoOther' /\ OneSend' /\ AnswerFirst' /\ TxFree'
  BY <1>2, <1>3, <1>4 DEF Inv, LinkInv, NoOther, OneSend, AnswerFirst, TxFree
<1>14. Fresh'
  BY <1>3, <1>4, <1>7 DEF Fresh
<1> QED
  BY <1>11, <1>12, <1>13, <1>14 DEF LinkInv

\* Sending a buffer of the data stage.
LEMMA LinkSend ==
  ASSUME Inv, configured, tx_status = "OK", status # "IDLE", rx_giveback.status # "READY",
         NEW k \in Nat, rkusb_write_bulk_ep(k),
         UNCHANGED <<configured, cbw, out_reqs, rx_giveback, events, h_phase, h_cbw, rx_buffer>>,
         \A b \in Bufs : tx_buffer'[b] = tx_buffer[b] \/ tx_buffer'[b].kind = "data",
         status' = "CSW" \/ (status' = "TXDATA_PREPARE" /\ u_bytes' > 0)
  PROVE  LinkInv'
<1>1. /\ in_reqs = <<>> /\ out_reqs = <<>>
      /\ \A i \in DOMAIN events : ~IsTx(events[i]) /\ events[i].type # "rx"
  BY NothingSent, NothingReceived DEF Inv
<1>2. /\ Len(in_reqs') = 1 /\ Head(in_reqs').buf = txbuf_num
      /\ tx_status' = "IN_PROGRESS" /\ txbuf_num = Flip(txbuf_num')
  BY <1>1, Queued DEF Inv
<1>3. NoOther' /\ OneSend' /\ AnswerFirst' /\ TxFree'
  BY <1>1, <1>2 DEF Inv, LinkInv, NoOther, OneSend, AnswerFirst, TxFree
<1>4. HostReady'
  <2>1. ~(h_phase = "ready" /\ configured /\ ~Aborted)
    BY DEF Inv, LinkInv, HostReady
  <2> QED
    BY <2>1 DEF HostReady, Aborted
<1>5. Tags'
  BY DEF Inv, LinkInv, Tags
<1>6. Fresh'
  BY <1>1 DEF Fresh
<1> QED
  BY <1>3, <1>4, <1>5, <1>6 DEF LinkInv

LEMMA LinkTxData ==
  ASSUME Inv, HandleTxData
  PROVE  LinkInv'
<1>1. status = "TXDATA" /\ status' = "CSW" /\ rkusb_write_bulk_ep(1) /\ tx_buffer' = tx_buffer
      /\ UNCHANGED <<configured, cbw, out_reqs, rx_giveback, events, h_phase, h_cbw, rx_buffer>>
  BY DEF HandleTxData, rxside, hostv
<1>2. configured /\ tx_status = "OK" /\ rx_giveback.status # "READY"
  BY <1>1 DEF Inv, RxInv, Enumeration, Waiting, LinkInv, TxFree
<1> QED
  BY <1>1, <1>2, LinkSend

\* rkusb_handle_datatx sends only when the transfer before is done, and
\* prefetches only into the other buffer.
LEMMA LinkDatatx ==
  ASSUME Inv, rkusb_handle_datatx
  PROVE  LinkInv'
<1> DEFINE k    == Chunk(u_size - u_bytes)
           hit  == PreHit(k)
           sent == IF hit THEN u_bytes + k ELSE u_bytes
<1>1. /\ status = "TXDATA_PREPARE" /\ TxReady
      /\ UNCHANGED <<configured, cbw, out_reqs, rx_giveback, events, h_phase, h_cbw, rx_buffer>>
      /\ u_bytes' = sent
      /\ status' = "TXDATA_PREPARE" \/ (status' = "CSW" /\ sent # 0)
      /\ IF hit THEN rkusb_write_bulk_ep(k) ELSE UNCHANGED txside
  BY DEF rkusb_handle_datatx, TxReady, rxside, hostv
<1>2. u_bytes \in Nat /\ u_size \in Nat /\ u_bytes <= u_size /\ k \in Nat
  <2>1. u_bytes \in Nat /\ u_size \in Nat /\ u_bytes <= u_size
    BY DEF Inv, TypeInv, Wellformed, TypeOK, CmdTypes
  <2>2. u_size - u_bytes \in Nat
    BY <2>1
  <2> QED
    BY <2>1, <2>2, ChunkType
<1>3. tx_status = "OK"
  BY <1>1, <1>2 DEF Inv, LinkInv, TxFree, TxReady
<1>4. configured /\ rx_giveback.status # "READY"
  BY <1>1 DEF Inv, RxInv, Enumeration, Waiting
<1>5. \A b \in Bufs : tx_buffer'[b] = tx_buffer[b] \/ tx_buffer'[b].kind = "data"
  <2>1. tx_buffer' = tx_buffer \/ \E b, s : tx_buffer' = [tx_buffer EXCEPT ![b] = DataTx(s)]
    BY DEF rkusb_handle_datatx
  <2> QED
    BY <2>1 DEF DataTx, Inv, TypeInv, TypeOK, BufferTypes
<1>6. CASE hit
  <2>1. sent > 0
    BY <1>2, <1>6 DEF PreHit
  <2>2. status' = "CSW" \/ (status' = "TXDATA_PREPARE" /\ u_bytes' > 0)
    BY <1>1, <2>1
  <2>3. rkusb_write_bulk_ep(k)
    BY <1>1, <1>6
  <2> HIDE DEF k
  <2> QED
    BY <1>1, <1>2, <1>3, <1>4, <1>5, <2>2, <2>3, LinkSend
<1>7. CASE ~hit
  <2>1. UNCHANGED <<tx_status, txbuf_num, in_reqs>> /\ status' # "IDLE"
    BY <1>1, <1>7 DEF txside
  <2>2. NoOther' /\ OneSend' /\ AnswerFirst' /\ TxFree'
    BY <1>1, <1>3, <2>1 DEF Inv, LinkInv, NoOther, OneSend, AnswerFirst, TxFree
  <2>3. HostReady'
    <3>1. ~(h_phase = "ready" /\ configured /\ ~Aborted)
      BY <1>1 DEF Inv, LinkInv, HostReady
    <3> QED
      BY <1>1, <3>1 DEF HostReady, Aborted
  <2>4. Tags'
    BY <1>1, <1>5 DEF Inv, LinkInv, Tags
  <2>5. out_reqs = <<>>
    BY <1>4, NothingReceived DEF Inv
  <2>6. Fresh'
    BY <1>1, <2>1, <2>5 DEF Fresh
  <2> QED
    BY <2>2, <2>3, <2>4, <2>6 DEF LinkInv
<1> QED
  BY <1>6, <1>7

\* Queueing the CSW: the next CBW may only come after it.
LEMMA LinkCsw ==
  ASSUME Inv, NEW st \in {CSW_GOOD, CSW_FAIL}, rkusb_send_csw(st), status # "IDLE",
         rx_giveback.status # "READY",
         UNCHANGED <<configured, cbw, events, h_phase, h_cbw, rx_buffer, u_bytes>>
  PROVE  LinkInv'
<1>1. CASE CanSend
  <2>1. configured /\ tx_status = "OK"
    BY <1>1 DEF CanSend, Inv, RxInv, Enumeration
  <2>2. /\ in_reqs = <<>> /\ out_reqs = <<>>
        /\ \A i \in DOMAIN events : ~IsTx(events[i]) /\ events[i].type # "rx"
    BY <2>1, NothingSent, NothingReceived DEF Inv
  <2>3. /\ tx_buffer' = [tx_buffer EXCEPT ![txbuf_num] =
                           [kind |-> "csw", tag |-> cbw.tag, st |-> st, blocks |-> <<>>]]
        /\ rkusb_write_bulk_ep(1)
        /\ rkusb_read_bulk_ep(configured, out_reqs, 0, rxbuf_num)
        /\ status' = "IDLE"
    BY <1>1 DEF rkusb_send_csw
  <2>4. /\ Len(in_reqs') = 1 /\ Head(in_reqs').buf = txbuf_num
        /\ tx_status' = "IN_PROGRESS" /\ txbuf_num = Flip(txbuf_num')
    BY <2>1, <2>2, <2>3, Queued DEF Inv
  <2>5. rx_giveback'.actual = 0 /\ Head(out_reqs').len = 0
    <3> DEFINE r == [buf |-> rxbuf_num, len |-> 0]
    <3>1. rx_giveback'.actual = 0 /\ out_reqs' = Append(<<>>, r)
      BY <2>1, <2>2, <2>3 DEF rkusb_read_bulk_ep, Queue
    <3>2. r.len = 0
      OBVIOUS
    <3> HIDE DEF r
    <3>3. Head(out_reqs') = r
      BY <3>1
    <3> QED
      BY <3>1, <3>2, <3>3
  <2>6. NoOther' /\ OneSend' /\ AnswerFirst' /\ TxFree'
    BY <2>2, <2>3, <2>4, <2>5 DEF Inv, LinkInv, NoOther, OneSend, AnswerFirst, TxFree
  <2>7. HostReady'
    <3>1. ~(h_phase = "ready" /\ configured /\ ~Aborted)
      BY DEF Inv, LinkInv, HostReady
    <3> QED
      BY <3>1 DEF HostReady, Aborted
  <2>8. cbw.tag \in Nat
    BY DEF Inv, TypeInv, TypeOK, CmdTypes, Cbw
  <2>9. \A b \in Bufs : \/ tx_buffer'[b] = tx_buffer[b]
                        \/ tx_buffer'[b].tag = cbw.tag
    BY <2>3 DEF Inv, TypeInv, TypeOK, BufferTypes
  <2>10. Tags'
    BY <2>3, <2>8, <2>9 DEF Inv, LinkInv, Tags
  <2>11. Fresh'
    BY <2>2, <2>5 DEF Fresh
  <2> QED
    BY <2>6, <2>7, <2>10, <2>11 DEF LinkInv
<1>2. CASE ~CanSend
  <2>1. UNCHANGED <<tx_buffer, tx_status, txbuf_num, in_reqs, rx_giveback, out_reqs, status>>
    BY <1>2 DEF rkusb_send_csw, txside, rxside
  <2> QED
    BY <2>1, LinkQuiet DEF Inv
<1> QED
  BY <1>1, <1>2

LEMMA LinkDatarx ==
  ASSUME Inv, rkusb_handle_datarx
  PROVE  LinkInv'
<1> DEFINE got == Add(d_bytes, rx_giveback.actual)
<1>1. /\ status # "IDLE" /\ rx_giveback.status # "READY" /\ tx_status = "OK" /\ configured
      /\ UNCHANGED <<configured, cbw, events, h_phase, h_cbw, rx_buffer, u_bytes>>
  BY DEF Inv, RxInv, Waiting, Enumeration, LinkInv, TxFree, rkusb_handle_datarx, RxReady, hostv, upv
<1>2. CASE got < d_size
  <2>1. /\ rkusb_read_bulk_ep(configured, out_reqs, Chunk(d_size - got), rxbuf_num)
        /\ status' = "RXDATA" /\ UNCHANGED <<tx_status, txbuf_num, in_reqs, tx_buffer>>
    BY <1>2 DEF rkusb_handle_datarx, txside
  <2>2. \A i \in DOMAIN events : events[i].type # "rx"
    BY <1>1, NothingReceived DEF Inv
  <2>3. NoOther' /\ OneSend' /\ AnswerFirst' /\ TxFree'
    BY <1>1, <2>1, <2>2 DEF Inv, LinkInv, NoOther, OneSend, AnswerFirst, TxFree
  <2>4. HostReady'
    <3>1. ~(h_phase = "ready" /\ configured /\ ~Aborted)
      BY <1>1 DEF Inv, LinkInv, HostReady
    <3> QED
      BY <1>1, <3>1 DEF HostReady, Aborted
  <2>5. Tags' /\ Fresh'
    BY <1>1, <2>1 DEF Inv, LinkInv, Tags, Fresh
  <2> QED
    BY <2>3, <2>4, <2>5 DEF LinkInv
<1>3. CASE ~(got < d_size)
  <2>1. rkusb_send_csw(CSW_GOOD)
    BY <1>3 DEF rkusb_handle_datarx
  <2> QED
    BY <1>1, <2>1, LinkCsw
<1> QED
  BY <1>2, <1>3

LEMMA LinkSendCsw ==
  ASSUME Inv, SendCsw
  PROVE  LinkInv'
<1>1. UNCHANGED <<configured, cbw, events, h_phase, h_cbw, rx_buffer, u_bytes>>
  BY DEF SendCsw, hostv, xfer, upv, cmdv
<1>2. CASE status = "CSW"
  <2>1. rx_giveback.status # "READY" /\ csw_st \in {CSW_GOOD, CSW_FAIL}
    BY <1>2 DEF Inv, RxInv, Waiting, TypeInv, TypeOK, CmdTypes
  <2>2. rkusb_send_csw(csw_st)
    BY <1>2 DEF SendCsw
  <2> QED
    BY <1>1, <1>2, <2>1, <2>2, LinkCsw
<1>3. CASE status # "CSW"
  <2>1. UNCHANGED <<tx_buffer, tx_status, txbuf_num, in_reqs, rx_giveback, out_reqs, status>>
    BY <1>3 DEF SendCsw, txside, rxside
  <2> QED
    BY <1>1, <2>1, LinkQuiet DEF Inv
<1> QED
  BY <1>2, <1>3

LEMMA LinkEvent ==
  ASSUME Inv, HandleEvent
  PROVE  LinkInv'
<1> DEFINE e == Head(events)
<1>1. /\ events \in Seq(Event) /\ events # <<>> /\ events' = Tail(events)
      /\ UNCHANGED <<cbw, u_bytes, rx_buffer, tx_buffer, h_phase, h_cbw>>
  BY DEF HandleEvent, Inv, TypeInv, TypeOK, ChannelTypes, hostv, cmdv, xfer, upv
<1>2. /\ e = events[1] /\ 1 \in DOMAIN events /\ Len(events) \in Nat
      /\ DOMAIN events = 1..Len(events) /\ DOMAIN events' = 1..(Len(events) - 1)
      /\ \A i \in DOMAIN events' : i + 1 \in DOMAIN events /\ events'[i] = events[i + 1]
      /\ \A i \in DOMAIN events : i # 1 => i - 1 \in DOMAIN events' /\ events'[i - 1] = events[i]
  BY <1>1
<1>3. NoOther'
  BY <1>2 DEF Inv, LinkInv, NoOther
<1> HIDE DEF e
<1>4. CASE dwc3_rx_handler(e)
  <2>1. /\ e.type \in {"rx", "rx_err"}
        /\ UNCHANGED <<status, configured, out_reqs, tx_status, txbuf_num, in_reqs>>
        /\ \/ e.type = "rx" /\ rx_giveback' = [status |-> "OK", actual |-> e.n, buf |-> e.buf]
           \/ e.type = "rx_err" /\ rx_giveback' = [rx_giveback EXCEPT !.status = "ERROR"]
    BY <1>4 DEF dwc3_rx_handler, txside
  <2>2. \A i \in DOMAIN events' : events'[i].type # "rx"
    BY <1>2, <2>1 DEF Inv, RxInv, OneReceive, IsRx
  <2>3. OneSend'
    BY <1>2, <2>1 DEF Inv, LinkInv, OneSend
  <2>4. AnswerFirst'
    BY <2>2 DEF AnswerFirst
  <2>5. e.type = "rx" => tx_status = "OK"
    BY <1>2 DEF Inv, LinkInv, AnswerFirst
  <2>6. e.type = "rx_err" => rx_giveback'.actual = rx_giveback.actual /\ rx_giveback'.buf = rx_giveback.buf
    BY <2>1 DEF Inv, TypeInv, TypeOK, ChannelTypes
  <2>7. TxFree'
    BY <1>1, <2>1, <2>5, <2>6 DEF Inv, LinkInv, TxFree
  <2>8. Tags'
    BY <1>1, <2>1 DEF Inv, LinkInv, Tags
  <2>9. Fresh'
    BY <1>1, <1>2, <2>1, <2>2, <2>6 DEF Inv, LinkInv, Fresh, NewCbw
  <2>10. HostReady'
    <3> SUFFICES ASSUME h_phase = "ready", configured, ~Aborted'
                 PROVE  HostReady'
      BY <1>1, <2>1 DEF HostReady
    <3>1. ~Aborted
      BY <1>2, <2>1 DEF Aborted
    <3>2. e.type # "rx" /\ status = "IDLE" /\ rx_giveback.actual = 0 /\ in_reqs = <<>> /\ Sent
      BY <1>2, <3>1 DEF Inv, LinkInv, HostReady
    <3>3. Sent'
      BY <1>2, <2>1, <3>2 DEF Sent
    <3> QED
      BY <2>1, <2>2, <2>6, <3>2, <3>3 DEF HostReady
  <2> QED
    BY <1>3, <2>3, <2>4, <2>7, <2>8, <2>9, <2>10 DEF LinkInv
<1>5. CASE dwc3_tx_handler(e)
  <2>1. /\ IsTx(e) /\ tx_status' = IF e.type = "tx" THEN "OK" ELSE "ERROR"
        /\ UNCHANGED <<status, configured, txbuf_num, in_reqs, rx_giveback, out_reqs>>
    BY <1>5 DEF dwc3_tx_handler, rxside, IsTx
  <2>2. /\ in_reqs = <<>> /\ tx_status = "IN_PROGRESS"
        /\ \A i \in DOMAIN events : IsTx(events[i]) => i = 1
    BY <1>2, <2>1 DEF Inv, LinkInv, OneSend
  <2>3. \A i \in DOMAIN events' : ~IsTx(events'[i])
    BY <1>2, <2>2
  <2>4. OneSend'
    BY <2>1, <2>2, <2>3 DEF OneSend
  <2>5. AnswerFirst'
    <3> SUFFICES ASSUME NEW j \in DOMAIN events', events'[j].type = "rx"
                 PROVE  in_reqs' = <<>> /\ tx_status' = "OK"
      BY DEF AnswerFirst
    <3>1. j + 1 \in DOMAIN events /\ events[j + 1].type = "rx"
      BY <1>2
    <3>2. PICK i \in DOMAIN events : events[i].type = "tx"
      BY <2>2, <3>1 DEF Inv, LinkInv, AnswerFirst
    <3> QED
      BY <1>2, <2>1, <2>2, <3>2 DEF IsTx
  <2>6. TxFree' /\ Tags'
    BY <1>1, <2>1, <2>2 DEF Inv, LinkInv, TxFree, Tags
  <2>7. Fresh'
    BY <1>1, <1>2, <2>1 DEF Inv, LinkInv, Fresh, NewCbw
  <2>8. HostReady'
    <3> SUFFICES ASSUME h_phase = "ready", configured, ~Aborted'
                 PROVE  HostReady'
      BY <1>1, <2>1 DEF HostReady
    <3>1. ~Aborted
      BY <1>2, <2>1 DEF Aborted, IsTx
    <3>2. /\ status = "IDLE" /\ rx_giveback.actual = 0 /\ Sent
          /\ \A i \in DOMAIN events : events[i].type # "rx"
      BY <3>1 DEF Inv, LinkInv, HostReady
    <3>3. PICK i \in DOMAIN events : events[i].type = "tx"
      BY <2>2, <3>2 DEF Sent
    <3>4. tx_status' = "OK"
      BY <1>2, <2>1, <2>2, <3>3 DEF IsTx
    <3> QED
      BY <1>2, <2>1, <2>2, <3>2, <3>4 DEF HostReady, Sent
  <2> QED
    BY <1>3, <2>4, <2>5, <2>6, <2>7, <2>8 DEF LinkInv
<1>6. CASE rkusb_event_handler_for_dwc3(e)
  <2>1. e.type \in {"address", "configured", "clear_both"}
    BY <1>2, <1>6 DEF Inv, LinkInv, NoOther, OtherEvents, rkusb_event_handler_for_dwc3, ControlEvents,
       AbortEvents
  <2>2. Len(events) = 1
    BY <1>2, <2>1 DEF Inv, RxInv, ControlLast, ControlEvents, AbortEvents
  <2>3. DOMAIN events' = {}
    BY <1>2, <2>2
  <2>4. CASE e.type = "address"
    <3>1. ~configured /\ status = "IDLE"
      BY <1>2, <2>4 DEF Inv, RxInv, Enumeration
    <3>2. /\ UNCHANGED <<tx_status, txbuf_num, in_reqs, rx_giveback, out_reqs>> /\ status' = "IDLE"
          /\ ~configured'
      BY <1>6, <2>4, <3>1 DEF rkusb_event_handler_for_dwc3, StatusAfter
    <3>3. OneSend' /\ AnswerFirst' /\ TxFree' /\ HostReady'
      BY <2>3, <3>1, <3>2 DEF Inv, LinkInv, OneSend, AnswerFirst, TxFree, HostReady
    <3>4. Tags' /\ Fresh'
      BY <1>1, <2>3, <3>1, <3>2 DEF Inv, LinkInv, Tags, Fresh, NewCbw
    <3> QED
      BY <1>3, <3>3, <3>4 DEF LinkInv
  <2>5. CASE e.type \in {"configured", "clear_both"}
    <3>1. status' = "IDLE"
      BY <1>2, <1>6, <2>5 DEF Inv, RxInv, Enumeration, rkusb_event_handler_for_dwc3, StatusAfter
    <3>2. tx_status' = "OK" /\ in_reqs' = <<>> /\ rkusb_read_bulk_ep(TRUE, <<>>, 0, 0)
      BY <1>6, <2>5 DEF rkusb_event_handler_for_dwc3
    <3>3. rx_giveback'.actual = 0 /\ Head(out_reqs').len = 0
      BY <3>2 DEF rkusb_read_bulk_ep, Queue
    <3>4. OneSend' /\ AnswerFirst' /\ TxFree' /\ HostReady'
      BY <2>3, <3>1, <3>2, <3>3 DEF OneSend, AnswerFirst, TxFree, HostReady, Sent
    <3>5. Tags' /\ Fresh'
      BY <1>1, <2>3, <3>1, <3>3 DEF Inv, LinkInv, Tags, Fresh
    <3> QED
      BY <1>3, <3>4, <3>5 DEF LinkInv
  <2> QED
    BY <2>1, <2>4, <2>5
<1> QED
  BY <1>4, <1>5, <1>6 DEF HandleEvent, e

\* What appending an event changes.
LEMMA AppendedEvent ==
  ASSUME TypeInv, NEW e \in Event, events' = Append(events, e)
  PROVE  /\ Len(events) \in Nat /\ DOMAIN events = 1..Len(events)
         /\ DOMAIN events' = 1..(Len(events) + 1)
         /\ \A i \in DOMAIN events : i \in DOMAIN events' /\ events'[i] = events[i]
         /\ events'[Len(events) + 1] = e /\ Len(events) + 1 \in DOMAIN events'
         /\ \A i \in DOMAIN events' : i \in DOMAIN events \/ i = Len(events) + 1
BY DEF TypeInv, TypeOK, ChannelTypes

LEMMA LinkEnumerate ==
  ASSUME Inv, Enumerate
  PROVE  LinkInv'
<1>1. /\ UNCHANGED <<status, configured, cbw, tx_status, txbuf_num, in_reqs, out_reqs, rx_giveback,
                     h_cbw, rx_buffer, tx_buffer, u_bytes>>
      /\ \E t \in {"address", "configured"} : events' = Append(events, Ev(t))
  BY DEF Enumerate, devv, cmdv, xfer, upv
<1>2. PICK t \in {"address", "configured"} : events' = Append(events, Ev(t))
  BY <1>1
<1>3. ~configured
  BY DEF Inv, RxInv, Enumeration, Enumerate
<1>4. Ev(t) \in Event /\ Ev(t).type = t
  BY DEF Event, Ev, EventTypes, ControlEvents
<1>5. /\ Len(events) \in Nat /\ DOMAIN events = 1..Len(events)
      /\ \A i \in DOMAIN events' : (i \in DOMAIN events /\ events'[i] = events[i]) \/ events'[i].type = t
  BY <1>2, <1>4, AppendedEvent DEF Inv
<1>6. NoOther'
  BY <1>5 DEF Inv, LinkInv, NoOther, OtherEvents
<1>7. \A i \in DOMAIN events : events[i].type \in {"address", "configured"}
  BY <1>3 DEF Inv, RxInv, Enumeration
<1>8. \A i \in DOMAIN events' : events'[i].type \in {"address", "configured"}
  BY <1>5, <1>7
<1>9. OneSend' /\ AnswerFirst' /\ TxFree' /\ HostReady'
  BY <1>1, <1>3, <1>8 DEF Inv, LinkInv, OneSend, AnswerFirst, TxFree, HostReady, IsTx
<1>10. Tags' /\ Fresh'
  BY <1>1, <1>8 DEF Inv, LinkInv, Tags, Fresh, NewCbw
<1> QED
  BY <1>6, <1>9, <1>10 DEF LinkInv

\* The host sends a CBW only to a driver that waits for it.
LEMMA LinkSendCbw ==
  ASSUME Inv, NEW c \in Cmds, HostSendCbw(c)
  PROVE  LinkInv'
<1> DEFINE b == Head(out_reqs).buf
           e == [type |-> "rx", n |-> 1, buf |-> b]
           w == [cmnd |-> c.cmnd, tag |-> h_cbw.tag + 1, lba |-> c.lba, n |-> c.n, sub |-> c.sub]
<1>1. /\ OnBus /\ h_phase = "ready" /\ out_reqs # <<>> /\ out_reqs' = Tail(out_reqs)
      /\ UNCHANGED <<status, configured, cbw, tx_status, txbuf_num, in_reqs, rx_giveback,
                     tx_buffer, u_bytes>>
      /\ h_phase' \in {"in", "out", "status"} /\ h_cbw' = w
      /\ events' = Append(events, e)
      /\ rx_buffer' = [rx_buffer EXCEPT ![b] = [kind |-> "cbw", cbw |-> w, blocks |-> <<>>]]
  BY DEF HostSendCbw, devv, cmdv, xfer, upv
<1>2. b \in Bufs /\ out_reqs' = <<>>
  <2>1. Head(out_reqs) \in Req
    BY <1>1 DEF Inv, TypeInv, TypeOK, ChannelTypes
  <2>2. out_reqs' = <<>>
    BY <1>1, NoSecondRequest DEF Inv, RxInv, OneReceive, TypeInv, TypeOK, ChannelTypes
  <2> QED
    BY <2>1, <2>2 DEF Req
<1>3. h_cbw.tag \in Nat /\ cbw.tag \in Nat /\ w.tag = h_cbw.tag + 1
  BY DEF Inv, TypeInv, TypeOK, HostTypes, CmdTypes, Cbw
<1>4. e \in Event /\ e.type = "rx" /\ e.buf = b
  BY <1>2 DEF Event, EventTypes
<1>5. rx_buffer'[b].kind = "cbw" /\ rx_buffer'[b].cbw = w
  BY <1>1, <1>2 DEF Inv, TypeInv, TypeOK, BufferTypes
<1> HIDE DEF b, e, w
<1>6. configured /\ ~Aborted
  BY <1>1 DEF Inv, RxInv, Enumeration, Aborted, OnBus, ControlEvents, AbortEvents
<1>7. /\ status = "IDLE" /\ rx_giveback.actual = 0 /\ in_reqs = <<>> /\ Sent
      /\ \A i \in DOMAIN events : events[i].type # "rx"
  BY <1>1, <1>6 DEF Inv, LinkInv, HostReady
<1>8. /\ Len(events) \in Nat /\ DOMAIN events = 1..Len(events)
      /\ DOMAIN events' = 1..(Len(events) + 1)
      /\ \A i \in DOMAIN events : i \in DOMAIN events' /\ events'[i] = events[i]
      /\ events'[Len(events) + 1] = e
      /\ \A i \in DOMAIN events' : i \in DOMAIN events \/ i = Len(events) + 1
  BY <1>1, <1>4, AppendedEvent DEF Inv
<1>9. NoOther' /\ TxFree' /\ HostReady'
  BY <1>1, <1>4, <1>7, <1>8 DEF Inv, LinkInv, NoOther, OtherEvents, TxFree, HostReady
<1>10. OneSend'
  <2>1. \A i \in DOMAIN events' : IsTx(events'[i]) => i \in DOMAIN events /\ IsTx(events[i])
    BY <1>4, <1>8 DEF IsTx
  <2> QED
    BY <1>1, <1>7, <1>8, <2>1 DEF Inv, LinkInv, OneSend
<1>11. AnswerFirst'
  <2>1. \A j \in DOMAIN events' : events'[j].type = "rx" => j = Len(events) + 1
    BY <1>7, <1>8
  <2>2. tx_status' = "OK" \/ \E i \in DOMAIN events' : i < Len(events) + 1 /\ events'[i].type = "tx"
    BY <1>1, <1>7, <1>8 DEF Sent
  <2> QED
    BY <1>1, <1>7, <2>1, <2>2 DEF AnswerFirst
<1>12. Tags'
  BY <1>1, <1>3 DEF Inv, LinkInv, Tags
<1>13. /\ rx_buffer'[b].kind = "cbw" /\ rx_buffer'[b].cbw.tag > cbw'.tag
       /\ rx_buffer'[b].cbw.tag <= h_cbw'.tag
  <2>1. cbw.tag <= h_cbw.tag
    BY DEF Inv, LinkInv, Tags
  <2> QED
    BY <1>1, <1>3, <1>5, <2>1
<1>14. Fresh'
  <2>1. \A i \in DOMAIN events' : events'[i].type = "rx" => events'[i].buf = b
    BY <1>4, <1>7, <1>8
  <2>2. ~(rx_giveback'.actual > 0)
    BY <1>1, <1>7
  <2> QED
    BY <1>2, <1>13, <2>1, <2>2 DEF Fresh, NewCbw
<1> QED
  BY <1>9, <1>10, <1>11, <1>12, <1>14 DEF LinkInv

\* The host sends data only to a driver that waits for it.
LEMMA LinkDataOut ==
  ASSUME Inv, HostDataOut
  PROVE  LinkInv'
<1>1. /\ OnBus /\ out_reqs # <<>> /\ out_reqs' = Tail(out_reqs)
      /\ UNCHANGED <<status, configured, cbw, tx_status, txbuf_num, in_reqs, rx_giveback,
                     tx_buffer, u_bytes, h_cbw>>
      /\ h_phase' \in {"out", "status"}
  BY DEF HostDataOut, devv, cmdv, xfer, upv
<1>2. Head(out_reqs) \in Req /\ out_reqs' = <<>>
  <2>1. out_reqs' = <<>>
    BY <1>1, NoSecondRequest DEF Inv, RxInv, OneReceive, TypeInv, TypeOK, ChannelTypes
  <2> QED
    BY <1>1, <2>1 DEF Inv, TypeInv, TypeOK, ChannelTypes
<1>3. PICK k \in 1..Least(Head(out_reqs).len, h_cbw.n - h_sent) :
        events' = Append(events, [type |-> "rx", n |-> k, buf |-> Head(out_reqs).buf])
  BY DEF HostDataOut
<1> DEFINE e == [type |-> "rx", n |-> k, buf |-> Head(out_reqs).buf]
<1>4. e \in Event /\ e.type = "rx"
  BY <1>2, <1>3 DEF Event, EventTypes, Req
<1>5. status = "RXDATA"
  <2>1. Head(out_reqs).len \in Nat /\ h_cbw.n - h_sent \in Int
    BY <1>2 DEF Req, Inv, TypeInv, TypeOK, HostTypes, Cbw
  <2>2. Head(out_reqs).len > 0
    BY <1>3, <2>1 DEF Least
  <2> QED
    BY <1>1, <2>2 DEF Inv, LinkInv, Fresh
<1>6. tx_status = "OK"
  BY <1>5 DEF Inv, LinkInv, TxFree
<1>7. in_reqs = <<>> /\ \A i \in DOMAIN events : ~IsTx(events[i])
  BY <1>6, NothingSent DEF Inv
<1> HIDE DEF e
<1>8. /\ Len(events) \in Nat /\ DOMAIN events = 1..Len(events)
      /\ DOMAIN events' = 1..(Len(events) + 1)
      /\ \A i \in DOMAIN events : i \in DOMAIN events' /\ events'[i] = events[i]
      /\ events'[Len(events) + 1] = e
      /\ \A i \in DOMAIN events' : i \in DOMAIN events \/ i = Len(events) + 1
  BY <1>3, <1>4, AppendedEvent DEF Inv, e
<1>9. \A i \in DOMAIN events' : ~IsTx(events'[i])
  BY <1>4, <1>7, <1>8 DEF IsTx
<1>10. OneSend'
  BY <1>1, <1>7, <1>9 DEF OneSend
<1>11. NoOther' /\ AnswerFirst' /\ TxFree' /\ HostReady'
  BY <1>1, <1>4, <1>6, <1>7, <1>8 DEF Inv, LinkInv, NoOther, OtherEvents, AnswerFirst, TxFree, HostReady
<1>12. Tags' /\ Fresh'
  BY <1>1, <1>2, <1>5 DEF Inv, LinkInv, Tags, Fresh
<1> QED
  BY <1>10, <1>11, <1>12 DEF LinkInv

\* An IN transfer is over, with or without error.
LEMMA LinkSent ==
  ASSUME Inv, OnBus, in_reqs # <<>>, in_reqs' = Tail(in_reqs), NEW e \in Event, IsTx(e),
         events' = Append(events, e),
         UNCHANGED <<status, configured, cbw, tx_status, txbuf_num, out_reqs, rx_giveback,
                     rx_buffer, tx_buffer, u_bytes, h_cbw>>,
         h_phase' = "ready" =>
           /\ e.type = "tx" /\ tx_buffer[Head(in_reqs).buf].kind = "csw"
           /\ tx_buffer[Head(in_reqs).buf].tag = h_cbw.tag
  PROVE  LinkInv'
<1>1. in_reqs' = <<>> /\ tx_status = "IN_PROGRESS" /\ Head(in_reqs) \in Req
  BY NoSecondRequest DEF Inv, LinkInv, OneSend, TypeInv, TypeOK, ChannelTypes
<1>2. \A i \in DOMAIN events : ~IsTx(events[i]) /\ events[i].type # "rx"
  BY DEF Inv, LinkInv, OneSend, AnswerFirst
<1>3. /\ Len(events) \in Nat /\ DOMAIN events = 1..Len(events)
      /\ DOMAIN events' = 1..(Len(events) + 1)
      /\ \A i \in DOMAIN events : i \in DOMAIN events' /\ events'[i] = events[i]
      /\ events'[Len(events) + 1] = e /\ Len(events) + 1 \in DOMAIN events'
      /\ \A i \in DOMAIN events' : i \in DOMAIN events \/ i = Len(events) + 1
  BY AppendedEvent DEF Inv
<1>4. \A i \in DOMAIN events' : /\ IsTx(events'[i]) => i = Len(events) + 1
                                /\ events'[i].type # "rx"
  BY <1>2, <1>3 DEF IsTx
<1>5. OneSend' /\ AnswerFirst'
  BY <1>1, <1>4 DEF OneSend, AnswerFirst
<1>6. NoOther' /\ TxFree' /\ Tags'
  BY <1>3 DEF Inv, LinkInv, NoOther, OtherEvents, TxFree, Tags, IsTx
<1>7. Fresh'
  BY <1>4 DEF Inv, LinkInv, Fresh, NewCbw
<1>8. HostReady'
  <2> SUFFICES ASSUME h_phase' = "ready"
               PROVE  /\ status = "IDLE" /\ rx_giveback.actual = 0 /\ Sent'
    BY <1>1, <1>4 DEF HostReady
  <2>1. status = "IDLE"
    <3>1. Head(in_reqs).buf \in Bufs /\ cbw.tag \in Nat /\ h_cbw.tag \in Nat
      BY <1>1 DEF Req, Inv, TypeInv, TypeOK, CmdTypes, HostTypes, Cbw
    <3>2. status # "IDLE" => h_cbw.tag < cbw.tag
      BY <3>1 DEF Inv, LinkInv, Tags
    <3> QED
      BY <3>1, <3>2 DEF Inv, LinkInv, Tags
  <2>2. rx_giveback.actual = 0
    BY <1>1, <2>1 DEF Inv, LinkInv, TxFree
  <2>3. Sent'
    BY <1>3 DEF Sent
  <2> QED
    BY <2>1, <2>2, <2>3
<1> QED
  BY <1>5, <1>6, <1>7, <1>8 DEF LinkInv

LEMMA LinkHostIn ==
  ASSUME Inv, HostIn
  PROVE  LinkInv'
<1>1. /\ OnBus /\ in_reqs # <<>> /\ in_reqs' = Tail(in_reqs) /\ events' = Append(events, Ev("tx"))
      /\ UNCHANGED <<status, configured, cbw, tx_status, txbuf_num, out_reqs, rx_giveback,
                     rx_buffer, tx_buffer, u_bytes, h_cbw>>
  BY DEF HostIn, devv, cmdv, xfer, upv
<1>2. h_phase' = "ready" => /\ tx_buffer[Head(in_reqs).buf].kind = "csw"
                            /\ tx_buffer[Head(in_reqs).buf].tag = h_cbw.tag
  BY DEF HostIn
<1>3. Ev("tx") \in Event /\ IsTx(Ev("tx")) /\ Ev("tx").type = "tx"
  BY DEF Event, Ev, EventTypes, IsTx
<1> QED
  BY <1>1, <1>2, <1>3, LinkSent

\* An event that is no transfer of data.
LEMMA LinkOtherEvent ==
  ASSUME Inv, NEW e \in Event, e.type \in {"rx_err", "clear_both"},
         events' = Append(events, e), out_reqs' \in {out_reqs, <<>>},
         UNCHANGED <<status, configured, cbw, tx_status, txbuf_num, in_reqs, rx_giveback,
                     rx_buffer, tx_buffer, u_bytes, h_cbw>>,
         h_phase' # "ready" \/ e.type = "clear_both"
  PROVE  LinkInv'
<1>1. /\ Len(events) \in Nat /\ DOMAIN events = 1..Len(events)
      /\ \A i \in DOMAIN events : i \in DOMAIN events' /\ events'[i] = events[i]
      /\ events'[Len(events) + 1] = e /\ Len(events) + 1 \in DOMAIN events'
      /\ \A i \in DOMAIN events' : i \in DOMAIN events \/ i = Len(events) + 1
  BY AppendedEvent DEF Inv
<1>2. \A i \in DOMAIN events' : IsTx(events'[i]) \/ events'[i].type \in {"rx"} \cup OtherEvents
                                  => i \in DOMAIN events /\ events'[i] = events[i]
  BY <1>1 DEF IsTx, OtherEvents
<1>3. NoOther' /\ OneSend' /\ TxFree' /\ Tags'
  BY <1>1, <1>2 DEF Inv, LinkInv, NoOther, OneSend, TxFree, Tags
<1>4. AnswerFirst'
  BY <1>1, <1>2 DEF Inv, LinkInv, AnswerFirst
<1>5. Fresh'
  BY <1>1, <1>2 DEF Inv, LinkInv, Fresh, NewCbw
<1>6. HostReady'
  BY <1>1 DEF HostReady, Aborted
<1> QED
  BY <1>3, <1>4, <1>5, <1>6 DEF LinkInv

LEMMA LinkFault ==
  ASSUME ClearsBoth, Inv, BusFault
  PROVE  LinkInv'
<1>1. CASE TransferError
  <2>1. /\ OnBus /\ h_phase' = h_phase /\ h_phase # "ready"
        /\ UNCHANGED <<status, configured, cbw, tx_status, txbuf_num, rx_giveback, rx_buffer,
                       tx_buffer, u_bytes, h_cbw>>
        /\ \/ /\ out_reqs # <<>> /\ events' = Append(events, Ev("rx_err"))
              /\ out_reqs' = Tail(out_reqs) /\ UNCHANGED in_reqs
           \/ /\ in_reqs # <<>> /\ events' = Append(events, Ev("tx_err"))
              /\ in_reqs' = Tail(in_reqs) /\ UNCHANGED out_reqs
    BY <1>1 DEF TransferError, devv, hostv, cmdv, xfer, upv
  <2>2. /\ Ev("rx_err") \in Event /\ Ev("tx_err") \in Event
        /\ Ev("rx_err").type = "rx_err" /\ IsTx(Ev("tx_err"))
    BY DEF Event, Ev, EventTypes, ErrorEvents, IsTx
  <2>3. CASE /\ out_reqs # <<>> /\ events' = Append(events, Ev("rx_err"))
             /\ out_reqs' = Tail(out_reqs) /\ UNCHANGED in_reqs
    <3>1. out_reqs' = <<>>
      BY <2>3, NoSecondRequest DEF Inv, RxInv, OneReceive, TypeInv, TypeOK, ChannelTypes
    <3> QED
      BY <2>1, <2>2, <2>3, <3>1, LinkOtherEvent
  <2>4. CASE /\ in_reqs # <<>> /\ events' = Append(events, Ev("tx_err"))
             /\ in_reqs' = Tail(in_reqs) /\ UNCHANGED out_reqs
    BY <2>1, <2>2, <2>4, LinkSent
  <2> QED
    BY <2>1, <2>3, <2>4
<1>2. ASSUME NEW t \in AbortEvents, Abort(t) PROVE LinkInv'
  <2>1. t = "clear_both"
    BY <1>2 DEF Abort, AbortEvents, ClearsBoth
  <2>2. Ev(t) \in Event /\ Ev(t).type = "clear_both"
    BY <2>1 DEF Event, Ev, EventTypes, ControlEvents, AbortEvents
  <2>3. /\ UNCHANGED <<status, configured, cbw, tx_status, txbuf_num, in_reqs, out_reqs, rx_giveback,
                       rx_buffer, tx_buffer, u_bytes, h_cbw>>
        /\ events' = Append(events, Ev(t))
    BY <1>2 DEF Abort, devv, cmdv, xfer, upv
  <2> QED
    BY <2>2, <2>3, LinkOtherEvent
<1> QED
  BY <1>1, <1>2 DEF BusFault

LEMMA StepInv ==
  ASSUME ClearsBoth, Inv, [Next]_vars
  PROVE  Inv'
<1>1. "reset" \notin Faults
  BY DEF ClearsBoth
<1>2. TypeInv' /\ RxInv'
  BY <1>1, StepTypes, StepRx DEF Inv
<1>3. LinkInv'
  <2>1. CASE UNCHANGED vars
    BY <2>1, LinkLoop DEF Inv
  <2>2. CASE Device
    <3>1. LinkInv
      BY DEF Inv
    <3> QED
      BY <2>2, <3>1, LinkLoop, LinkEvent, LinkCommand, LinkTxData, LinkDatatx, LinkDatarx, LinkSendCsw
      DEF Device
  <2>3. CASE HostStep
    BY <2>3, LinkEnumerate, LinkSendCbw, LinkDataOut, LinkHostIn DEF HostStep
  <2>4. CASE BusFault
    BY <2>4, LinkFault
  <2> QED
    BY <2>1, <2>2, <2>3, <2>4 DEF Next
<1> QED
  BY <1>2, <1>3 DEF Inv

LEMMA InitInv == Init => Inv
BY InitTypes, InitRx, InitLink DEF Inv

\* If the host gives up a command only by clearing both endpoints, whatever
\* transfers fail, neither the prefetch of rkusb_handle_datatx nor an answer or
\* a CSW overwrites a buffer that the controller has yet to send.
THEOREM TransmitBufferSafe == ClearsBoth => (Spec => TxBufferStable)
<1> SUFFICES ASSUME ClearsBoth PROVE Spec => TxBufferStable
  OBVIOUS
<1> DEFINE Untouched == \A i \in DOMAIN in_reqs :
                          tx_buffer'[in_reqs[i].buf] = tx_buffer[in_reqs[i].buf]
<1>1. Inv /\ [Next]_vars => Inv'
  BY StepInv
<1>2. Inv /\ [Next]_vars => [Untouched]_vars
  <2> SUFFICES ASSUME Inv, Next, NEW i \in DOMAIN in_reqs
               PROVE  tx_buffer' = tx_buffer
    OBVIOUS
  <2>1. in_reqs # <<>> /\ tx_status = "IN_PROGRESS"
    BY DEF Inv, LinkInv, OneSend
  <2>2. ~CanSend /\ ~NewCommand
    BY <2>1, AtCommand DEF CanSend
  <2>3. ~rkusb_handle_datatx
    <3>1. ~TxReady
      BY <2>1 DEF TxReady, Inv, LinkInv, TxFree, TypeInv, TypeOK, CmdTypes
    <3> QED
      BY <3>1 DEF rkusb_handle_datatx
  <2>4. CASE Device
    BY <2>2, <2>3, <2>4 DEF Device, Connect, HandleEvent, EndInterrupt, do_rockusb_cmd, NoCommand,
       HandleTxData, rkusb_handle_datarx, MediaWrite, NoResponse, SendCsw, Reboot, NextRound,
       rkusb_send_csw
  <2>5. CASE HostStep \/ BusFault
    BY <2>5 DEF HostStep, Enumerate, HostSendCbw, HostDataOut, HostIn, BusFault, TransferError,
       Abort, devv
  <2> QED
    BY <2>4, <2>5 DEF Next
<1> QED
  BY <1>1, <1>2, InitInv, PTL DEF Spec, TxBufferStable

\* Under the same condition every CBW is executed at most once, also when the
\* host gave the one before up.
THEOREM CommandsOnce == ClearsBoth => (Spec => NoReexecution)
<1> SUFFICES ASSUME ClearsBoth PROVE Spec => NoReexecution
  OBVIOUS
<1> DEFINE Newer == pc = "idle" /\ NewCommand /\ pc' = "response" => cbw'.tag > cbw.tag
<1>1. Inv /\ [Next]_vars => Inv'
  BY StepInv
<1>2. Inv /\ [Next]_vars => [Newer]_vars
  <2> SUFFICES ASSUME Inv, Next, pc = "idle", NewCommand, pc' = "response"
               PROVE  cbw'.tag > cbw.tag
    OBVIOUS
  <2>1. do_rockusb_cmd
    BY DEF Next, Device, Connect, HandleEvent, EndInterrupt, NoCommand, HandleTxData,
       rkusb_handle_datarx, MediaWrite, rkusb_handle_datatx, NoResponse, SendCsw, Reboot, NextRound,
       HostStep, Enumerate, HostSendCbw, HostDataOut, HostIn, BusFault, TransferError, Abort, devv
  <2>2. cbw' \in CopiedCbws
    BY <2>1 DEF do_rockusb_cmd
  <2> QED
    BY <2>2, AtCommand DEF NewCbw
<1> QED
  BY <1>1, <1>2, InitInv, PTL DEF Spec, NoReexecution

-----------------------------------------------------------------------------
(* The reset of the CPU.                                                    *)

\* The answer to the current command is all that is on its way, or arrived.
Answer ==
  \/ h_csw.tag = cbw.tag /\ in_reqs = <<>>
  \/ /\ in_reqs # <<>> /\ tx_buffer[Head(in_reqs).buf].kind = "csw"
     /\ tx_buffer[Head(in_reqs).buf].tag = cbw.tag

\* From the command that asks for the reset to rkusb_reset_check.
Resets == {1, 3, 255}
ResetInv ==
  /\ reset_flag \in Resets => \/ pc \in {"response", "csw"} /\ status = "CSW" /\ tx_status = "OK"
                              \/ pc = "check" /\ Answer
  /\ pc = "reset" => Answer

LEMMA ResetQuiet ==
  ASSUME ResetInv,
         UNCHANGED <<h_csw, cbw, in_reqs, tx_buffer, reset_flag, status, tx_status>>,
         pc' = pc \/ (reset_flag \in Resets => pc = "response" /\ status = "CSW" /\ pc' = "csw"),
         pc' = "reset" => pc = "reset"
  PROVE  ResetInv'
BY DEF ResetInv, Answer

LEMMA ResetSendCsw ==
  ASSUME Inv, ResetInv, SendCsw
  PROVE  ResetInv'
<1>1. pc = "csw" /\ pc' = "check" /\ UNCHANGED <<cbw, reset_flag, configured>>
  BY DEF SendCsw, cmdv, flags
<1>2. CASE reset_flag \in Resets
  <2>1. status = "CSW" /\ tx_status = "OK"
    BY <1>1, <1>2 DEF ResetInv
  <2>2. configured /\ in_reqs = <<>> /\ txbuf_num \in Bufs
    BY <2>1, NothingSent DEF Inv, RxInv, Enumeration, TypeInv, TypeOK, BufferTypes
  <2>3. /\ tx_buffer' = [tx_buffer EXCEPT ![txbuf_num] =
                           [kind |-> "csw", tag |-> cbw.tag, st |-> csw_st, blocks |-> <<>>]]
        /\ rkusb_write_bulk_ep(1)
    BY <2>1 DEF SendCsw, rkusb_send_csw, CanSend
  <2>4. in_reqs' # <<>> /\ Head(in_reqs').buf = txbuf_num
    BY <2>2, <2>3, Queued DEF Inv
  <2>5. tx_buffer'[txbuf_num].kind = "csw" /\ tx_buffer'[txbuf_num].tag = cbw.tag
    BY <2>2, <2>3 DEF Inv, TypeInv, TypeOK, BufferTypes
  <2>6. Answer'
    BY <1>1, <2>4, <2>5 DEF Answer
  <2> QED
    BY <1>1, <2>6 DEF ResetInv
<1>3. CASE reset_flag \notin Resets
  BY <1>1, <1>3 DEF ResetInv
<1> QED
  BY <1>2, <1>3

LEMMA ResetDevice ==
  ASSUME Inv, ResetInv, Device
  PROVE  ResetInv'
<1>1. CASE Connect \/ EndInterrupt \/ NoCommand
  <2>1. /\ UNCHANGED <<h_csw, cbw, in_reqs, tx_buffer, reset_flag, status, tx_status>>
        /\ pc \in {"start", "intr", "idle"} /\ pc' # "reset"
    BY <1>1 DEF Connect, EndInterrupt, NoCommand, hostv, cmdv, txside, flags
  <2>2. reset_flag \notin Resets
    BY <2>1 DEF ResetInv
  <2> QED
    BY <2>1, <2>2, ResetQuiet
<1>2. CASE HandleEvent
  <2>1. pc = "intr" /\ UNCHANGED <<pc, reset_flag>>
    BY <1>2 DEF HandleEvent, flags
  <2> QED
    BY <2>1 DEF ResetInv
<1>3. CASE do_rockusb_cmd
  <2>1. pc = "idle" /\ pc' = "response" /\ tx_status' = "OK"
    BY <1>3, AtCommand DEF do_rockusb_cmd, txside
  <2>2. reset_flag \notin Resets
    BY <2>1 DEF ResetInv
  <2>3. reset_flag' \in Resets => status' = "CSW"
    <3>1. \E c : \/ FW_TestUnitReady(c) \/ FW_Info(c) \/ FW_Read(c) \/ FW_Write(c)
                 \/ FW_Erase(c) \/ FW_Simple(c) \/ FW_Unknown(c)
      BY <1>3 DEF do_rockusb_cmd
    <3> QED
      BY <2>2, <3>1 DEF FW_TestUnitReady, FW_Info, FW_Read, FW_Write, FW_Erase, FW_Simple, FW_Unknown,
         flags
  <2> QED
    BY <2>1, <2>3 DEF ResetInv
<1>4. CASE HandleTxData \/ rkusb_handle_datarx \/ MediaWrite \/ rkusb_handle_datatx
  <2>1. /\ pc = "media" \/ (pc = "response" /\ status # "CSW")
        /\ pc' # "reset" /\ UNCHANGED reset_flag
    BY <1>4 DEF HandleTxData, rkusb_handle_datarx, MediaWrite, rkusb_handle_datatx, RxReady, TxReady,
       flags
  <2> QED
    BY <2>1 DEF ResetInv
<1>5. CASE NoResponse
  <2>1. /\ UNCHANGED <<h_csw, cbw, in_reqs, tx_buffer, reset_flag, status, tx_status>>
        /\ pc = "response" /\ pc' = "csw"
    BY <1>5 DEF NoResponse, hostv, cmdv, txside, flags
  <2>2. reset_flag \in Resets => status = "CSW"
    BY <2>1 DEF ResetInv
  <2> QED
    BY <2>1, <2>2, ResetQuiet
<1>6. CASE SendCsw
  BY <1>6, ResetSendCsw
<1>7. CASE Reboot
  <2>1. /\ UNCHANGED <<h_csw, cbw, in_reqs, tx_buffer>> /\ reset_flag' = 0
        /\ pc = "check" /\ reset_flag \in Resets
    BY <1>7 DEF Reboot, hostv, cmdv, txside, Resets
  <2>2. Answer
    BY <2>1 DEF ResetInv
  <2> QED
    BY <2>1, <2>2 DEF ResetInv, Answer, Resets
<1>8. CASE NextRound
  <2>1. reset_flag' \notin Resets /\ pc' # "reset"
    BY <1>8 DEF NextRound, Resets
  <2> QED
    BY <2>1 DEF ResetInv
<1> QED
  BY <1>1, <1>2, <1>3, <1>4, <1>5, <1>6, <1>7, <1>8 DEF Device

LEMMA ResetHost ==
  ASSUME "tx_err" \notin Faults, Inv, ResetInv, HostStep \/ BusFault
  PROVE  ResetInv'
<1>1. UNCHANGED <<pc, cbw, tx_buffer, reset_flag, status, tx_status>>
  BY DEF HostStep, Enumerate, HostSendCbw, HostDataOut, HostIn, BusFault, TransferError, Abort, devv,
     cmdv, flags
<1>2. CASE HostIn
  <2>1. /\ pc # "reset" /\ in_reqs # <<>> /\ in_reqs' = Tail(in_reqs)
        /\ tx_buffer[Head(in_reqs).buf].kind = "csw"
             => h_csw'.tag = tx_buffer[Head(in_reqs).buf].tag
    BY <1>2 DEF HostIn, OnBus
  <2>2. in_reqs' = <<>>
    BY <2>1, NoSecondRequest DEF Inv, LinkInv, OneSend, TypeInv, TypeOK, ChannelTypes
  <2>3. Answer => Answer'
    BY <1>1, <2>1, <2>2 DEF Answer
  <2> QED
    BY <1>1, <2>1, <2>3 DEF ResetInv
<1>3. CASE ~HostIn
  <2>1. UNCHANGED <<h_csw, in_reqs>>
    BY <1>3 DEF HostStep, Enumerate, HostSendCbw, HostDataOut, BusFault, TransferError, Abort, hostv
  <2> QED
    BY <1>1, <2>1, ResetQuiet
<1> QED
  BY <1>2, <1>3

\* If the host gives up only by clearing both endpoints and no IN transfer
\* fails, the CSW of the command that asks for a reset is on its way or
\* received when rkusb_reset_check resets the CPU.
THEOREM ResetAnswered ==
  ClearsBoth /\ "tx_err" \notin Faults => (Spec => []ResetAfterAnswer)
<1> SUFFICES ASSUME ClearsBoth, "tx_err" \notin Faults PROVE Spec => []ResetAfterAnswer
  OBVIOUS
<1>1. Init => Inv /\ ResetInv
  BY InitInv DEF Init, ResetInv, Resets
<1>2. (Inv /\ ResetInv) /\ [Next]_vars => (Inv /\ ResetInv)'
  <2> SUFFICES ASSUME Inv, ResetInv, [Next]_vars PROVE ResetInv'
    BY StepInv
  <2>1. CASE UNCHANGED vars
    <3>1. UNCHANGED <<pc, h_csw, cbw, in_reqs, tx_buffer, reset_flag, status, tx_status>>
      BY <2>1 DEF vars, hostv, cmdv, txside, flags
    <3> QED
      BY <3>1, ResetQuiet
  <2> QED
    BY <2>1, ResetDevice, ResetHost DEF Next
<1>3. Inv /\ ResetInv => ResetAfterAnswer
  <2> SUFFICES ASSUME Inv, Answer PROVE ResetAfterAnswer
    BY DEF ResetInv, ResetAfterAnswer
  <2>1. in_reqs # <<>> => 1 \in DOMAIN in_reqs /\ in_reqs[1] = Head(in_reqs)
    BY DEF Inv, TypeInv, TypeOK, ChannelTypes
  <2> QED
    BY <2>1 DEF Answer, ResetAfterAnswer
<1> QED
  BY <1>1, <1>2, <1>3, PTL DEF Spec

-----------------------------------------------------------------------------
(* The addresses a command writes.                                          *)

\* No command's addresses pass the end of uint32_t.
Fits(c)      == c.lba + c.n < Word
AddressesFit == \A c \in Cmds : Fits(c)

\* Every CBW fits; the data stage asks for no more than the command has, and
\* has written no further than it received.
CbwsFit == Fits(cbw) /\ \A b \in Bufs : Fits(rx_buffer[b].cbw)
Preparing ==
  status = "RXDATA_PREPARE" =>
    /\ cbw.cmnd \in WriteCmds /\ d_size = cbw.n
    /\ d_bytes = 0 /\ rx_giveback.actual = 0 /\ lba = cbw.lba
Pending == IF pc = "media" THEN wr.blocks ELSE 0
Counted ==
  status = "RXDATA" =>
    /\ cbw.cmnd \in WriteCmds /\ d_size = cbw.n
    /\ d_bytes + rx_giveback.actual <= d_size
    /\ out_reqs # <<>> => d_bytes + Head(out_reqs).len <= d_size
    /\ \A i \in DOMAIN events : events[i].type = "rx" => d_bytes + events[i].n <= d_size
    /\ cbw.lba <= lba /\ lba + Pending <= cbw.lba + d_bytes
Storing ==
  pc = "media" => /\ cbw.cmnd \in WriteCmds /\ status # "RXDATA_PREPARE"
                  /\ cbw.lba <= lba /\ lba + wr.blocks <= cbw.lba + cbw.n
RangeInv == CbwsFit /\ Preparing /\ Counted /\ Storing

LEMMA RangeNumbers ==
  ASSUME TypeInv
  PROVE  /\ cbw.lba \in Nat /\ cbw.n \in Nat /\ d_size \in Nat /\ d_bytes \in Nat /\ lba \in Nat
         /\ wr.blocks \in Nat /\ rx_giveback.actual \in Nat /\ Pending \in Nat
         /\ Word \in Nat \ {0} /\ BufMax \in Nat \ {0}
BY ConstantsAssumption DEF TypeInv, TypeOK, CmdTypes, ChannelTypes, Cbw, Pending

LEMMA InitRange == Init => RangeInv
<1> SUFFICES ASSUME Init PROVE RangeInv
  OBVIOUS
<1>1. cbw.lba = 0 /\ cbw.n = 0 /\ \A b \in Bufs : rx_buffer[b].cbw.lba = 0 /\ rx_buffer[b].cbw.n = 0
  BY DEF Init, NoCbw, NoRx
<1>2. status = "IDLE" /\ pc = "start"
  BY DEF Init
<1> QED
  BY <1>1, <1>2, ConstantsAssumption DEF RangeInv, CbwsFit, Fits, Preparing, Counted, Storing

\* A step that leaves the download alone.
LEMMA RangeQuiet ==
  ASSUME RangeInv, UNCHANGED <<cbw, rx_buffer>>,
         \/ status' \notin {"RXDATA", "RXDATA_PREPARE"}
         \/ UNCHANGED <<status, d_size, d_bytes, lba, rx_giveback, out_reqs, events>>,
         pc' # "media",
         UNCHANGED pc \/ pc # "media"
  PROVE  RangeInv'
<1>1. CbwsFit' /\ Preparing' /\ Storing'
  BY DEF RangeInv, CbwsFit, Fits, Preparing, Storing
<1>2. Counted'
  BY DEF RangeInv, Counted, Pending
<1> QED
  BY <1>1, <1>2 DEF RangeInv

LEMMA RangeCommand ==
  ASSUME Inv, RangeInv, do_rockusb_cmd
  PROVE  RangeInv'
<1>1. PICK c \in CopiedCbws :
        /\ cbw' = c
        /\ \/ FW_TestUnitReady(c) \/ FW_Info(c) \/ FW_Read(c) \/ FW_Write(c)
           \/ FW_Erase(c) \/ FW_Simple(c) \/ FW_Unknown(c)
  BY DEF do_rockusb_cmd
<1>2. Fits(c)
  BY AtCommand DEF do_rockusb_cmd, RangeInv, CbwsFit
<1>3. UNCHANGED rx_buffer /\ pc' # "media"
  BY DEF do_rockusb_cmd
<1>4. CASE FW_Write(c)
  <2>1. /\ c.cmnd \in WriteCmds /\ d_size' = c.n /\ d_bytes' = 0 /\ lba' = c.lba
        /\ status' = "RXDATA_PREPARE" /\ rx_giveback' = [rx_giveback EXCEPT !.actual = 0]
    BY <1>4 DEF FW_Write
  <2>2. rx_giveback'.actual = 0
    BY <2>1 DEF Inv, TypeInv, TypeOK, ChannelTypes
  <2> QED
    BY <1>1, <1>2, <1>3, <2>1, <2>2 DEF RangeInv, CbwsFit, Preparing, Counted, Storing
<1>5. CASE ~FW_Write(c)
  <2>1. status' \notin {"RXDATA", "RXDATA_PREPARE"}
    BY <1>1, <1>5 DEF FW_TestUnitReady, FW_Info, FW_Read, FW_Erase, FW_Simple, FW_Unknown
  <2> QED
    BY <1>1, <1>2, <1>3, <2>1 DEF RangeInv, CbwsFit, Preparing, Counted, Storing
<1> QED
  BY <1>4, <1>5

LEMMA RangeDatarx ==
  ASSUME Inv, RangeInv, rkusb_handle_datarx
  PROVE  RangeInv'
<1> DEFINE got  == Add(d_bytes, rx_giveback.actual)
           data == rx_giveback.actual > 0 /\ rx_buffer[rx_giveback.buf].kind = "data"
<1>1. /\ pc = "response" /\ UNCHANGED <<cbw, d_size, lba, rx_buffer, events>> /\ d_bytes' = got
      /\ pc' = IF data THEN "media" ELSE "csw"
      /\ data => wr'.blocks = rx_giveback.actual
      /\ status \in {"RXDATA", "RXDATA_PREPARE"}
  BY DEF rkusb_handle_datarx, RxReady
<1>2. rx_giveback.status # "READY" /\ tx_status = "OK" /\ configured
  BY DEF Inv, RxInv, Waiting, Enumeration, LinkInv, TxFree, rkusb_handle_datarx, RxReady
<1>3. out_reqs = <<>> /\ \A i \in DOMAIN events : events[i].type # "rx"
  BY <1>2, NothingReceived DEF Inv
<1>4. /\ cbw.cmnd \in WriteCmds /\ d_size = cbw.n /\ d_bytes + rx_giveback.actual <= d_size
      /\ cbw.lba <= lba /\ lba <= cbw.lba + d_bytes
  <2>1. CASE status = "RXDATA_PREPARE"
    BY <2>1, RangeNumbers DEF Inv, RangeInv, Preparing
  <2>2. CASE status = "RXDATA"
    <3>1. Pending = 0
      BY <1>1 DEF Pending
    <3>2. /\ cbw.cmnd \in WriteCmds /\ d_size = cbw.n /\ d_bytes + rx_giveback.actual <= d_size
          /\ cbw.lba <= lba /\ lba + Pending <= cbw.lba + d_bytes
      BY <2>2 DEF RangeInv, Counted
    <3> QED
      BY <3>1, <3>2, RangeNumbers DEF Inv
  <2> QED
    BY <1>1, <2>1, <2>2
<1>5. got = d_bytes + rx_giveback.actual /\ got \in Nat
  <2>1. d_bytes + rx_giveback.actual < Word /\ d_bytes + rx_giveback.actual \in Nat
    BY <1>4, RangeNumbers DEF Inv, RangeInv, CbwsFit, Fits
  <2> QED
    BY <2>1, RangeNumbers DEF Add, Inv
<1> HIDE DEF got
<1>6. Storing'
  <2> SUFFICES ASSUME data
               PROVE  cbw'.cmnd \in WriteCmds /\ cbw'.lba <= lba' /\ lba' + wr'.blocks <= cbw'.lba + cbw'.n
    <3>1. status' # "RXDATA_PREPARE"
      BY <1>2 DEF rkusb_handle_datarx, rkusb_send_csw, CanSend
    <3> QED
      BY <1>1, <3>1 DEF Storing
  <2> QED
    BY <1>1, <1>4, <1>5, RangeNumbers DEF Inv
<1>7. Pending' = IF data THEN rx_giveback.actual ELSE 0
  BY <1>1 DEF Pending
<1>8. CbwsFit'
  BY <1>1 DEF RangeInv, CbwsFit, Fits
<1>9. CASE got < d_size
  <2>1. /\ rkusb_read_bulk_ep(configured, out_reqs, Chunk(d_size - got), rxbuf_num)
        /\ status' = "RXDATA"
    BY <1>9 DEF rkusb_handle_datarx, got
  <2>2. Chunk(d_size - got) \in Nat /\ Chunk(d_size - got) <= d_size - got
    <3>1. d_size - got \in Nat
      BY <1>5, <1>9, RangeNumbers DEF Inv
    <3> QED
      BY <3>1, ChunkType
  <2>3. rx_giveback'.actual = 0 /\ Head(out_reqs').len = Chunk(d_size - got)
    <3> DEFINE r == [buf |-> rxbuf_num, len |-> Chunk(d_size - got)]
    <3>1. rx_giveback'.actual = 0 /\ out_reqs' = Append(<<>>, r)
      BY <1>2, <1>3, <2>1 DEF rkusb_read_bulk_ep, Queue
    <3>2. r.len = Chunk(d_size - got)
      OBVIOUS
    <3> HIDE DEF r
    <3>3. Head(out_reqs') = r
      BY <3>1
    <3> QED
      BY <3>1, <3>2, <3>3
  <2>4. lba' + Pending' <= cbw'.lba + d_bytes'
    BY <1>1, <1>4, <1>5, <1>7, RangeNumbers DEF Inv
  <2>5. d_bytes' + rx_giveback'.actual <= d_size' /\ d_bytes' + Head(out_reqs').len <= d_size'
    BY <1>1, <1>5, <1>9, <2>2, <2>3, RangeNumbers DEF Inv
  <2>6. Counted'
    BY <1>1, <1>3, <1>4, <2>4, <2>5 DEF Counted
  <2>7. Preparing'
    BY <2>1 DEF Preparing
  <2> QED
    BY <1>6, <1>8, <2>6, <2>7 DEF RangeInv
<1>10. CASE ~(got < d_size)
  <2>1. status' = "IDLE"
    BY <1>2, <1>10 DEF rkusb_handle_datarx, rkusb_send_csw, CanSend, got
  <2> QED
    BY <1>6, <1>8, <2>1 DEF RangeInv, Preparing, Counted
<1> QED
  BY <1>9, <1>10

\* MediaWrite goes on behind what it stored, or not at all.
LEMMA NextAddress ==
  ASSUME Inv, RangeInv, pc = "media"
  PROVE  NextLba = lba + wr.blocks
<1>1. lba + wr.blocks <= cbw.lba + cbw.n /\ cbw.lba + cbw.n < Word
  BY DEF RangeInv, Storing, CbwsFit, Fits
<1>2. lba + wr.blocks \in Nat /\ lba + wr.blocks < Word
  BY <1>1, RangeNumbers DEF Inv
<1> QED
  BY <1>2, RangeNumbers DEF Inv, NextLba, Add

LEMMA RangeMedia ==
  ASSUME Inv, RangeInv, MediaWrite
  PROVE  RangeInv'
<1>1. /\ pc = "media" /\ pc' = "csw"
      /\ UNCHANGED <<status, cbw, d_size, d_bytes, rx_giveback, out_reqs, events, rx_buffer>>
      /\ lba' = lba \/ lba' = NextLba
  BY DEF MediaWrite, StoreData, rxside, cmdv
<1>2. lba' \in Nat /\ lba <= lba' /\ lba' <= lba + wr.blocks
  BY <1>1, NextAddress, RangeNumbers DEF Inv
<1>3. Pending = wr.blocks /\ Pending' = 0
  BY <1>1 DEF Pending
<1>4. Preparing'
  <2>1. status # "RXDATA_PREPARE"
    BY <1>1 DEF RangeInv, Storing
  <2> QED
    BY <1>1, <2>1 DEF Preparing
<1>5. Counted'
  <2> SUFFICES ASSUME status = "RXDATA" PROVE Counted'
    BY <1>1 DEF Counted
  <2>1. cbw.lba <= lba' /\ lba' + Pending' <= cbw.lba + d_bytes
    BY <1>2, <1>3, RangeNumbers DEF Inv, RangeInv, Counted
  <2> QED
    BY <1>1, <2>1 DEF RangeInv, Counted
<1>6. CbwsFit' /\ Storing'
  BY <1>1 DEF RangeInv, CbwsFit, Fits, Storing
<1> QED
  BY <1>4, <1>5, <1>6 DEF RangeInv

LEMMA RangeEvent ==
  ASSUME Inv, RangeInv, HandleEvent
  PROVE  RangeInv'
<1> DEFINE e == Head(events)
<1>1. /\ events \in Seq(Event) /\ events # <<>> /\ events' = Tail(events) /\ pc = "intr"
      /\ UNCHANGED <<pc, cbw, d_size, d_bytes, lba, rx_buffer>>
  BY DEF HandleEvent, Inv, TypeInv, TypeOK, ChannelTypes, cmdv, xfer
<1>2. /\ e = events[1] /\ 1 \in DOMAIN events
      /\ \A i \in DOMAIN events' : i + 1 \in DOMAIN events /\ events'[i] = events[i + 1]
  BY <1>1
<1> HIDE DEF e
<1>3. Pending = 0 /\ Pending' = 0
  BY <1>1 DEF Pending
<1>4. CASE dwc3_rx_handler(e)
  <2>1. /\ UNCHANGED <<status, out_reqs>>
        /\ \/ e.type = "rx" /\ rx_giveback' = [status |-> "OK", actual |-> e.n, buf |-> e.buf]
           \/ e.type = "rx_err" /\ rx_giveback' = [rx_giveback EXCEPT !.status = "ERROR"]
    BY <1>4 DEF dwc3_rx_handler
  <2>2. status = "RXDATA_PREPARE" => e.type # "rx"
    BY <1>2 DEF Inv, RxInv, OneReceive, Waiting, IsRx
  <2>3. e.type = "rx_err" => rx_giveback'.actual = rx_giveback.actual
    BY <2>1 DEF Inv, TypeInv, TypeOK, ChannelTypes
  <2>4. Preparing'
    BY <1>1, <2>1, <2>2, <2>3 DEF RangeInv, Preparing
  <2>5. Counted'
    BY <1>1, <1>2, <1>3, <2>1, <2>3 DEF RangeInv, Counted
  <2>6. CbwsFit' /\ Storing'
    BY <1>1 DEF RangeInv, CbwsFit, Fits, Storing
  <2> QED
    BY <2>4, <2>5, <2>6 DEF RangeInv
<1>5. CASE dwc3_tx_handler(e)
  <2>1. UNCHANGED <<status, rx_giveback, out_reqs>>
    BY <1>5 DEF dwc3_tx_handler, rxside
  <2>2. Preparing' /\ Counted'
    BY <1>1, <1>2, <1>3, <2>1 DEF RangeInv, Preparing, Counted
  <2>3. CbwsFit' /\ Storing'
    BY <1>1 DEF RangeInv, CbwsFit, Fits, Storing
  <2> QED
    BY <2>2, <2>3 DEF RangeInv
<1>6. CASE rkusb_event_handler_for_dwc3(e)
  <2>1. e.type \in {"address", "configured", "clear_both"}
    BY <1>2, <1>6 DEF Inv, LinkInv, NoOther, OtherEvents, rkusb_event_handler_for_dwc3, ControlEvents,
       AbortEvents
  <2>2. status' = "IDLE"
    BY <1>2, <1>6, <2>1 DEF Inv, RxInv, Enumeration, rkusb_event_handler_for_dwc3, StatusAfter
  <2> QED
    BY <1>1, <2>2, RangeQuiet
<1> QED
  BY <1>4, <1>5, <1>6 DEF HandleEvent, e

\* The other steps of the loop.
LEMMA RangeLoop ==
  ASSUME Inv, RangeInv,
         \/ Connect \/ EndInterrupt \/ NoCommand \/ NoResponse \/ Reboot \/ NextRound
         \/ HandleTxData \/ rkusb_handle_datatx \/ SendCsw
  PROVE  RangeInv'
<1>1. UNCHANGED <<cbw, rx_buffer>> /\ pc # "media" /\ pc' # "media"
  BY DEF Connect, EndInterrupt, NoCommand, NoResponse, Reboot, NextRound, HandleTxData,
     rkusb_handle_datatx, SendCsw, cmdv
<1>2. CASE HandleTxData \/ rkusb_handle_datatx
  <2>1. status' \notin {"RXDATA", "RXDATA_PREPARE"}
    BY <1>2 DEF HandleTxData, rkusb_handle_datatx, TxReady
  <2> QED
    BY <1>1, <2>1, RangeQuiet
<1>3. CASE SendCsw
  <2>1. \/ status' = "CSW" \/ status' = "IDLE"
        \/ UNCHANGED <<status, d_size, d_bytes, lba, rx_giveback, out_reqs, events>>
    BY <1>3 DEF SendCsw, rkusb_send_csw, txside, rxside, xfer
  <2> QED
    BY <1>1, <2>1, RangeQuiet
<1>4. CASE Connect \/ EndInterrupt \/ NoCommand \/ NoResponse \/ Reboot \/ NextRound
  <2>1. UNCHANGED <<status, d_size, d_bytes, lba, rx_giveback, out_reqs, events>>
    BY <1>4 DEF Connect, EndInterrupt, NoCommand, NoResponse, Reboot, NextRound, xfer, rxside
  <2> QED
    BY <1>1, <2>1, RangeQuiet
<1> QED
  BY <1>2, <1>3, <1>4

\* A step of the host that sends no data to a driver that expects some.
LEMMA RangeBus ==
  ASSUME Inv, RangeInv, NEW e \in Event,
         events' = Append(events, e) \/ events' = events,
         e.type = "rx" => status = "IDLE" \/ d_bytes + e.n <= d_size,
         out_reqs' = out_reqs \/ out_reqs' = <<>>,
         UNCHANGED <<pc, status, cbw, d_size, d_bytes, lba, wr, rx_giveback>>, CbwsFit'
  PROVE  RangeInv'
<1>1. Preparing' /\ Storing'
  BY DEF RangeInv, Preparing, Storing
<1>2. \A i \in DOMAIN events' : (i \in DOMAIN events /\ events'[i] = events[i]) \/ events'[i] = e
  BY AppendedEvent DEF Inv
<1>3. Pending' = Pending
  BY DEF Pending
<1>4. Counted'
  BY <1>2, <1>3 DEF RangeInv, Counted
<1> QED
  BY <1>1, <1>4 DEF RangeInv

LEMMA RangeHost ==
  ASSUME AddressesFit, Inv, RangeInv, HostStep \/ BusFault
  PROVE  RangeInv'
<1>1. UNCHANGED <<pc, status, cbw, d_size, d_bytes, lba, wr, rx_giveback>>
  BY DEF HostStep, Enumerate, HostSendCbw, HostDataOut, HostIn, BusFault, TransferError, Abort, devv,
     cmdv, xfer
<1>2. \A t \in EventTypes : Ev(t) \in Event /\ Ev(t).type = t
  BY DEF Event, Ev
<1>3. out_reqs # <<>> => Head(out_reqs) \in Req /\ Tail(out_reqs) = <<>>
  BY NoSecondRequest DEF Inv, RxInv, OneReceive, TypeInv, TypeOK, ChannelTypes
<1>4. ASSUME NEW c \in Cmds, HostSendCbw(c) PROVE RangeInv'
  <2> DEFINE b == Head(out_reqs).buf
             e == [type |-> "rx", n |-> 1, buf |-> b]
             w == [cmnd |-> c.cmnd, tag |-> h_cbw.tag + 1, lba |-> c.lba, n |-> c.n, sub |-> c.sub]
  <2>1. /\ OnBus /\ h_phase = "ready" /\ out_reqs # <<>> /\ out_reqs' = Tail(out_reqs)
        /\ events' = Append(events, e)
        /\ rx_buffer' = [rx_buffer EXCEPT ![b] = [kind |-> "cbw", cbw |-> w, blocks |-> <<>>]]
    BY <1>4 DEF HostSendCbw
  <2>2. e \in Event /\ b \in Bufs
    BY <1>3, <2>1 DEF Event, EventTypes, Req
  <2>3. \A x \in Bufs : rx_buffer'[x].cbw \in {rx_buffer[x].cbw, w}
    BY <2>1, <2>2 DEF Inv, TypeInv, TypeOK, BufferTypes
  <2>4. w.lba = c.lba /\ w.n = c.n
    OBVIOUS
  <2> HIDE DEF b, e, w
  <2>5. Fits(w)
    BY <2>4 DEF AddressesFit, Fits
  <2>6. \A x \in Bufs : Fits(rx_buffer'[x].cbw)
    BY <2>3, <2>5 DEF RangeInv, CbwsFit
  <2>7. CbwsFit'
    BY <1>1, <2>6 DEF RangeInv, CbwsFit, Fits
  <2>8. status = "IDLE"
    BY <2>1 DEF Inv, RxInv, Enumeration, LinkInv, HostReady, Aborted, OnBus, ControlEvents, AbortEvents
  <2> QED
    BY <1>1, <1>3, <2>1, <2>2, <2>7, <2>8, RangeBus
<1>5. CASE HostDataOut
  <2>1. out_reqs # <<>> /\ out_reqs' = Tail(out_reqs)
    BY <1>5 DEF HostDataOut
  <2>2. PICK k \in 1..Least(Head(out_reqs).len, h_cbw.n - h_sent) :
          /\ rx_buffer' = [rx_buffer EXCEPT ![Head(out_reqs).buf] =
               [kind |-> "data", cbw |-> NoCbw,
                blocks |-> [i \in 1..k |-> <<h_cbw.tag, h_sent + i>>]]]
          /\ events' = Append(events, [type |-> "rx", n |-> k, buf |-> Head(out_reqs).buf])
    BY <1>5 DEF HostDataOut
  <2> DEFINE e == [type |-> "rx", n |-> k, buf |-> Head(out_reqs).buf]
  <2>3. Head(out_reqs).len \in Nat /\ h_cbw.n - h_sent \in Int /\ Head(out_reqs).buf \in Bufs
    BY <1>3, <2>1 DEF Req, Inv, TypeInv, TypeOK, HostTypes, Cbw
  <2>4. k \in Nat /\ k > 0 /\ k <= Head(out_reqs).len
    BY <2>2, <2>3 DEF Least
  <2>5. e \in Event /\ e.n = k
    BY <2>3, <2>4 DEF Event, EventTypes
  <2>6. status = "RXDATA"
    BY <2>1, <2>3, <2>4 DEF Inv, LinkInv, Fresh
  <2>7. d_bytes + Head(out_reqs).len <= d_size
    BY <2>1, <2>6 DEF RangeInv, Counted
  <2>8. d_bytes + k <= d_size
    BY <2>3, <2>4, <2>7, RangeNumbers DEF Inv
  <2>9. \A x \in Bufs : rx_buffer'[x].cbw \in {rx_buffer[x].cbw, NoCbw}
    BY <2>2, <2>3 DEF Inv, TypeInv, TypeOK, BufferTypes
  <2>10. Fits(NoCbw)
    BY ConstantsAssumption DEF Fits, NoCbw
  <2>11. CbwsFit'
    <3>1. \A x \in Bufs : Fits(rx_buffer'[x].cbw)
      BY <2>9, <2>10 DEF RangeInv, CbwsFit
    <3> QED
      BY <1>1, <3>1 DEF RangeInv, CbwsFit, Fits
  <2> HIDE DEF e
  <2> QED
    BY <1>1, <1>3, <2>1, <2>2, <2>5, <2>8, <2>11, RangeBus DEF e
<1>6. CASE Enumerate \/ HostIn \/ BusFault
  <2>1. /\ rx_buffer' = rx_buffer
        /\ out_reqs' = out_reqs \/ (out_reqs # <<>> /\ out_reqs' = Tail(out_reqs))
        /\ \E t \in EventTypes : t # "rx" /\ events' = Append(events, Ev(t))
    BY <1>6 DEF Enumerate, HostIn, BusFault, TransferError, Abort, EventTypes, ControlEvents, AbortEvents,
       ErrorEvents
  <2>2. CbwsFit'
    BY <1>1, <2>1 DEF RangeInv, CbwsFit, Fits
  <2> QED
    BY <1>1, <1>2, <1>3, <2>1, <2>2, RangeBus
<1> QED
  BY <1>4, <1>5, <1>6 DEF HostStep

LEMMA StepRange ==
  ASSUME AddressesFit, Inv, RangeInv, [Next]_vars
  PROVE  RangeInv'
<1>1. CASE UNCHANGED vars
  <2>1. UNCHANGED <<pc, status, cbw, d_size, d_bytes, lba, wr, rx_giveback, out_reqs, events, rx_buffer>>
    BY <1>1 DEF vars, cmdv, xfer, rxside
  <2>2. CbwsFit' /\ Preparing' /\ Counted' /\ Storing'
    BY <2>1 DEF RangeInv, CbwsFit, Fits, Preparing, Counted, Pending, Storing
  <2> QED
    BY <2>2 DEF RangeInv
<1>2. CASE Device
  BY <1>2, RangeLoop, RangeEvent, RangeCommand, RangeDatarx, RangeMedia DEF Device
<1>3. CASE HostStep \/ BusFault
  BY <1>3, RangeHost
<1> QED
  BY <1>1, <1>2, <1>3 DEF Next

\* What storing k blocks at l can change.
LEMMA StoredRange ==
  ASSUME TypeInv, NEW s \in Spaces, NEW l \in Nat, NEW k \in Nat, NEW d,
         NEW t \in Spaces, NEW x \in Lbas,
         StorageWrite(s, l, k, d)[t][x] # media[t][x]
  PROVE  t = s /\ l <= x /\ x < l + k
BY DEF StorageWrite, TypeInv, TypeOK, BufferTypes

\* If the host gives up only by clearing both endpoints and no command's
\* addresses pass the end of uint32_t, the media changes only at the addresses
\* the current command names, in its own address space, or when a low-level
\* format was asked for: rkusb_handle_datarx stores nothing twice at advancing
\* addresses and nothing of an aborted command under the next one.
THEOREM OwnRange == ClearsBoth /\ AddressesFit => (Spec => ChangesOwnRange)
<1> SUFFICES ASSUME ClearsBoth, AddressesFit PROVE Spec => ChangesOwnRange
  OBVIOUS
<1> DEFINE Own(s, l) ==
             media'[s][l] # media[s][l] =>
               \/ lowformat
               \/ /\ cbw'.cmnd \in WriteCmds \cup EraseCmds /\ s = Space(cbw'.cmnd)
                  /\ cbw'.lba <= l /\ l < cbw'.lba + cbw'.n
<1>1. Init => Inv /\ RangeInv
  BY InitInv, InitRange
<1>2. (Inv /\ RangeInv) /\ [Next]_vars => (Inv /\ RangeInv)'
  BY StepInv, StepRange
<1>3. (Inv /\ RangeInv) /\ [Next]_vars => [\A s \in Spaces, l \in Lbas : Own(s, l)]_vars
  <2> SUFFICES ASSUME Inv, RangeInv, Next, NEW s \in Spaces, NEW l \in Lbas,
                      media'[s][l] # media[s][l], ~lowformat
               PROVE  /\ cbw'.cmnd \in WriteCmds \cup EraseCmds /\ s = Space(cbw'.cmnd)
                      /\ cbw'.lba <= l /\ l < cbw'.lba + cbw'.n
    OBVIOUS
  <2>1. do_rockusb_cmd \/ MediaWrite
    BY DEF Next, Device, Connect, HandleEvent, EndInterrupt, NoCommand, HandleTxData,
       rkusb_handle_datarx, rkusb_handle_datatx, NoResponse, SendCsw, Reboot, NextRound,
       HostStep, Enumerate, HostSendCbw, HostDataOut, HostIn, BusFault, TransferError, Abort, devv
  <2>2. CASE do_rockusb_cmd
    <3>1. PICK c \in CopiedCbws :
            /\ cbw' = c
            /\ \/ FW_TestUnitReady(c) \/ FW_Info(c) \/ FW_Read(c) \/ FW_Write(c)
               \/ FW_Erase(c) \/ FW_Simple(c) \/ FW_Unknown(c)
      BY <2>2 DEF do_rockusb_cmd
    <3>2. FW_Erase(c)
      BY <3>1 DEF FW_TestUnitReady, FW_Info, FW_Read, FW_Write, FW_Simple, FW_Unknown
    <3>3. c.cmnd \in EraseCmds /\ media' = StorageWrite("PBA", c.lba, c.n, <<>>)
      BY <3>2 DEF FW_Erase
    <3>4. c.lba \in Nat /\ c.n \in Nat
      <4>1. NewCommand
        BY <2>2 DEF do_rockusb_cmd
      <4>2. c = rx_buffer[rx_giveback.buf].cbw /\ rx_giveback.buf \in Bufs
        BY <3>1, <4>1, AtCommand
      <4> QED
        BY <4>2 DEF Inv, TypeInv, TypeOK, BufferTypes, RxContent, Cbw
    <3>5. s = "PBA" /\ c.lba <= l /\ l < c.lba + c.n
      BY <3>3, <3>4, StoredRange DEF Inv, Spaces
    <3> QED
      BY <3>1, <3>3, <3>5 DEF Space
  <2>3. CASE MediaWrite
    <3>1. pc = "media" /\ cbw' = cbw /\ StoreData
      BY <2>3 DEF MediaWrite, cmdv
    <3>2. /\ cbw.cmnd \in WriteCmds
          /\ cbw.lba <= lba /\ lba + wr.blocks <= cbw.lba + cbw.n
      BY <3>1 DEF RangeInv, Storing
    <3>3. media' = StorageWrite(Space(cbw.cmnd), lba, wr.blocks, rx_buffer[wr.buf].blocks)
      BY <3>1, <3>2 DEF StoreData, Space, WriteCmds, EraseCmds
    <3>4. Space(cbw.cmnd) \in Spaces
      BY DEF Space, Spaces
    <3>5. s = Space(cbw.cmnd) /\ lba <= l /\ l < lba + wr.blocks
      BY <3>3, <3>4, StoredRange, RangeNumbers DEF Inv
    <3>6. l \in Nat
      BY ConstantsAssumption
    <3> QED
      BY <3>1, <3>2, <3>5, <3>6, RangeNumbers DEF Inv
  <2> QED
    BY <2>1, <2>2, <2>3
<1> QED
  BY <1>1, <1>2, <1>3, PTL DEF Spec, ChangesOwnRange

-----------------------------------------------------------------------------
(* The stages of a command, on a bus without aborts.                        *)

\* The host gives no command up; transfers may still fail.
NoAborts == Faults \cap AbortEvents = {}
NoAbort  == \A i \in DOMAIN events : events[i].type \notin AbortEvents

\* The driver serves the host's last command once it has seen it, and nothing
\* of that command's data has arrived before.
Copied(b) == rx_buffer[b].cbw = h_cbw
Serving ==
  /\ status # "IDLE" \/ in_reqs # <<>> \/ h_got # <<>> => cbw = h_cbw
  /\ status = "IDLE" =>
       /\ rx_giveback.actual > 0 => Copied(rx_giveback.buf)
       /\ \A i \in DOMAIN events : events[i].type = "rx" => Copied(events[i].buf)

\* The host reads data until it has all that it expects.
HostStage ==
  /\ h_phase # "broken" /\ Len(h_got) <= Expected(h_cbw)
  /\ h_phase = "in" <=> Len(h_got) < Expected(h_cbw)

\* How much of the data stage the driver has sent.
Uploaded ==
  CASE status = "TXDATA"         -> 0
    [] status = "TXDATA_PREPARE" -> u_bytes
    [] OTHER                     -> Expected(cbw)

\* What is on its way: data the host still expects, or the CSW.  The host has
\* got what was sent before, unless a transfer failed.
Failed == tx_status = "ERROR" \/ \E i \in DOMAIN events : events[i].type = "tx_err"
Upload ==
  /\ in_reqs # <<>> =>
       LET r == Head(in_reqs)
           t == tx_buffer[r.buf]
       IN  IF t.kind = "csw" THEN t.tag = cbw.tag /\ Len(h_got) = Expected(cbw)
           ELSE r.len > 0 /\ Len(h_got) + r.len = Uploaded
  /\ in_reqs = <<>> /\ status # "IDLE" /\ ~Failed => Len(h_got) = Uploaded

\* A prefetched block lies in the buffer that is sent next, and is of this
\* command.
Prefetched ==
  /\ status = "TXDATA" => cbw.cmnd \in InfoCmds /\ tx_buffer[txbuf_num].kind = "data"
  /\ status = "TXDATA_PREPARE" =>
       cbw.cmnd \in ReadCmds /\ u_size = cbw.n /\ (cbw.n > 0 => u_bytes < u_size)
  /\ pre_read.blocks > 0 => /\ status = "TXDATA_PREPARE" /\ pre_read.buf = txbuf_num
                            /\ tx_buffer[txbuf_num].kind = "data"

StageInv == NoAbort /\ Serving /\ HostStage /\ Upload /\ Prefetched

LEMMA StageNumbers ==
  ASSUME TypeInv
  PROVE  /\ Len(h_got) \in Nat /\ u_bytes \in Nat /\ u_size \in Nat /\ u_bytes <= u_size
         /\ Expected(cbw) \in Nat /\ Expected(h_cbw) \in Nat /\ cbw.n \in Nat /\ h_cbw.n \in Nat
         /\ cbw.tag \in Nat /\ h_cbw.tag \in Nat /\ pre_read.blocks \in Nat
         /\ h_got \in Seq(Val)
BY DEF TypeInv, TypeOK, Wellformed, CmdTypes, HostTypes, Cbw, Expected

LEMMA InitStage == Init => StageInv
<1> SUFFICES ASSUME Init PROVE StageInv
  OBVIOUS
<1>1. /\ events = <<>> /\ in_reqs = <<>> /\ status = "IDLE" /\ rx_giveback.actual = 0
      /\ cbw = NoCbw /\ h_cbw = NoCbw /\ h_got = <<>> /\ h_phase = "detached" /\ pre_read.blocks = 0
  BY DEF Init
<1>2. Len(h_got) = 0 /\ Expected(NoCbw) = 0
  BY <1>1 DEF Expected, NoCbw, InfoCmds, ReadCmds
<1>3. NoAbort /\ Serving /\ HostStage
  BY <1>1, <1>2 DEF NoAbort, Serving, HostStage
<1>4. Upload /\ Prefetched
  BY <1>1 DEF Upload, Prefetched
<1> QED
  BY <1>3, <1>4 DEF StageInv

\* A step that touches none of it.
LEMMA StageQuiet ==
  ASSUME StageInv,
         UNCHANGED <<status, cbw, in_reqs, tx_status, h_phase, h_cbw, h_got, rx_giveback, rx_buffer,
                     events, tx_buffer, txbuf_num, u_bytes, u_size, pre_read>>
  PROVE  StageInv'
<1>1. Expected(cbw)' = Expected(cbw) /\ Expected(h_cbw)' = Expected(h_cbw)
  BY DEF Expected
<1>2. Uploaded' = Uploaded /\ (Failed' <=> Failed)
  BY <1>1 DEF Uploaded, Failed
<1>3. NoAbort' /\ Serving' /\ HostStage'
  BY <1>1 DEF StageInv, NoAbort, Serving, Copied, HostStage
<1>4. Upload'
  BY <1>1, <1>2 DEF StageInv, Upload
<1>5. Prefetched'
  BY DEF StageInv, Prefetched
<1> QED
  BY <1>3, <1>4, <1>5 DEF StageInv

LEMMA StageLoop ==
  ASSUME StageInv,
         \/ Connect \/ EndInterrupt \/ NoCommand \/ NoResponse \/ MediaWrite
         \/ Reboot \/ NextRound \/ UNCHANGED vars
  PROVE  StageInv'
<1>1. UNCHANGED <<status, cbw, in_reqs, tx_status, h_phase, h_cbw, h_got, rx_giveback, rx_buffer,
                  events, tx_buffer, txbuf_num, u_bytes, u_size, pre_read>>
  BY DEF Connect, EndInterrupt, NoCommand, NoResponse, MediaWrite, Reboot, NextRound, rxside,
     txside, hostv, cmdv, upv, xfer, vars
<1> QED
  BY <1>1, StageQuiet

\* do_rockusb_cmd copies the host's last command, of which nothing was sent.
LEMMA CommandServed ==
  ASSUME Inv, StageInv, do_rockusb_cmd
  PROVE  /\ cbw' = h_cbw /\ h_got = <<>> /\ Len(h_got) = 0 /\ in_reqs = <<>> /\ status = "IDLE"
         /\ pre_read.blocks = 0 /\ cbw' \in CopiedCbws /\ cbw # h_cbw
         /\ \A i \in DOMAIN events : events[i].type # "rx"
<1>1. NewCommand
  BY DEF do_rockusb_cmd
<1>2. /\ tx_status = "OK" /\ rx_giveback.status = "OK" /\ status = "IDLE"
      /\ rx_giveback.actual > 0 /\ rx_giveback.buf \in Bufs
      /\ NewCbw(rx_giveback.buf) /\ CopiedCbws = {rx_buffer[rx_giveback.buf].cbw}
  BY <1>1, AtCommand DEF NewCommand
<1>3. cbw' = rx_buffer[rx_giveback.buf].cbw /\ cbw' \in CopiedCbws
  BY <1>2 DEF do_rockusb_cmd
<1>4. cbw' = h_cbw
  BY <1>2, <1>3 DEF StageInv, Serving, Copied
<1>5. h_cbw.tag > cbw.tag
  BY <1>2, <1>3, <1>4 DEF NewCbw
<1>6. cbw # h_cbw
  BY <1>5, StageNumbers DEF Inv
<1>7. h_got = <<>> /\ in_reqs = <<>>
  BY <1>6 DEF StageInv, Serving
<1>8. pre_read.blocks = 0
  BY <1>2, StageNumbers DEF Inv, StageInv, Prefetched
<1>9. \A i \in DOMAIN events : events[i].type # "rx"
  BY <1>2, NothingReceived DEF Inv
<1>10. Len(h_got) = 0
  BY <1>7
<1> QED
  BY <1>2, <1>3, <1>4, <1>6, <1>7, <1>8, <1>9, <1>10

LEMMA StageCommand ==
  ASSUME Inv, StageInv, do_rockusb_cmd
  PROVE  StageInv'
<1>1. /\ cbw' = h_cbw /\ h_got = <<>> /\ Len(h_got) = 0 /\ in_reqs = <<>> /\ status = "IDLE"
      /\ pre_read.blocks = 0 /\ \A i \in DOMAIN events : events[i].type # "rx"
  BY CommandServed
<1>2. UNCHANGED <<in_reqs, tx_status, txbuf_num, rx_buffer, events, h_phase, h_cbw, h_got>>
  BY DEF do_rockusb_cmd, txside, hostv
<1> DEFINE c == cbw'
<1>3. \/ FW_TestUnitReady(c) \/ FW_Info(c) \/ FW_Read(c) \/ FW_Write(c)
      \/ FW_Erase(c) \/ FW_Simple(c) \/ FW_Unknown(c)
  BY DEF do_rockusb_cmd
<1> HIDE DEF c
<1>4. status' # "IDLE" /\ (pre_read' = pre_read \/ pre_read' = [pre_read EXCEPT !.lba = 0, !.blocks = 0])
  BY <1>3 DEF FW_TestUnitReady, FW_Info, FW_Read, FW_Write, FW_Erase, FW_Simple, FW_Unknown, xfer, upv
<1>5. pre_read'.blocks = 0
  BY <1>1, <1>4 DEF Inv, TypeInv, TypeOK, CmdTypes
<1>6. NoAbort' /\ Serving' /\ HostStage'
  BY <1>1, <1>2, <1>4 DEF StageInv, NoAbort, Serving, HostStage, Expected
<1>7. Uploaded' = 0
  <2>1. CASE FW_Info(c)
    BY <2>1 DEF FW_Info, Uploaded
  <2>2. CASE FW_Read(c)
    BY <2>2 DEF FW_Read, Uploaded
  <2>3. CASE \/ FW_TestUnitReady(c) \/ FW_Write(c) \/ FW_Erase(c) \/ FW_Simple(c) \/ FW_Unknown(c)
    <3>1. c.cmnd \notin InfoCmds \cup ReadCmds /\ status' \notin {"TXDATA", "TXDATA_PREPARE"}
      BY <2>3 DEF FW_TestUnitReady, FW_Write, FW_Erase, FW_Simple, FW_Unknown, InfoCmds, ReadCmds,
         WriteCmds, EraseCmds
    <3> QED
      BY <3>1 DEF Uploaded, Expected, c
  <2> QED
    BY <1>3, <2>1, <2>2, <2>3
<1>8. Upload'
  BY <1>1, <1>2, <1>7 DEF Upload
<1>9. status' = "TXDATA" => c.cmnd \in InfoCmds /\ tx_buffer'[txbuf_num].kind = "data"
  <2> SUFFICES ASSUME status' = "TXDATA" PROVE c.cmnd \in InfoCmds /\ tx_buffer'[txbuf_num].kind = "data"
    OBVIOUS
  <2>1. FW_Info(c)
    BY <1>3 DEF FW_TestUnitReady, FW_Read, FW_Write, FW_Erase, FW_Simple, FW_Unknown
  <2> QED
    BY <2>1 DEF FW_Info, DataTx, Inv, TypeInv, TypeOK, BufferTypes
<1>10. status' = "TXDATA_PREPARE" => c.cmnd \in ReadCmds /\ u_size' = c.n /\ u_bytes' = 0
  BY <1>3 DEF FW_TestUnitReady, FW_Info, FW_Read, FW_Write, FW_Erase, FW_Simple, FW_Unknown
<1>11. Prefetched'
  BY <1>2, <1>5, <1>9, <1>10 DEF Prefetched, c
<1> QED
  BY <1>6, <1>8, <1>11 DEF StageInv

\* A driver that may send has had everything it sent received.
LEMMA AllReceived ==
  ASSUME Inv, StageInv, tx_status = "OK", status # "IDLE"
  PROVE  in_reqs = <<>> /\ ~Failed /\ Len(h_got) = Uploaded /\ cbw = h_cbw
<1>1. in_reqs = <<>> /\ \A i \in DOMAIN events : ~IsTx(events[i])
  BY NothingSent DEF Inv
<1>2. ~Failed
  BY <1>1 DEF Failed, IsTx
<1> QED
  BY <1>1, <1>2 DEF StageInv, Upload, Serving

\* The answer of an FW_Info command is all its data stage.
LEMMA StageTxData ==
  ASSUME Inv, StageInv, HandleTxData
  PROVE  StageInv'
<1>1. /\ status = "TXDATA" /\ status' = "CSW" /\ rkusb_write_bulk_ep(1)
      /\ UNCHANGED <<cbw, rx_giveback, rx_buffer, tx_buffer, events, h_phase, h_cbw, h_got, u_bytes,
                     u_size, pre_read>>
  BY DEF HandleTxData, rxside, hostv, xfer, upv
<1>2. configured /\ tx_status = "OK"
  BY <1>1 DEF Inv, RxInv, Enumeration, LinkInv, TxFree
<1>3. in_reqs = <<>> /\ Len(h_got) = Uploaded /\ cbw = h_cbw
  BY <1>1, <1>2, AllReceived
<1>4. in_reqs' = <<[buf |-> txbuf_num, len |-> 1]>> /\ in_reqs' # <<>> /\ Head(in_reqs').buf = txbuf_num
  BY <1>1, <1>2, <1>3, Queued DEF Inv
<1>5. Head(in_reqs').len = 1
  BY <1>4
<1>6. cbw.cmnd \in InfoCmds /\ tx_buffer[txbuf_num].kind = "data" /\ pre_read.blocks = 0
  BY <1>1, StageNumbers DEF Inv, StageInv, Prefetched
<1>7. Uploaded = 0 /\ Uploaded' = 1
  BY <1>1, <1>6 DEF Uploaded, Expected
<1>8. NoAbort' /\ Serving' /\ HostStage'
  BY <1>1, <1>3 DEF StageInv, NoAbort, Serving, HostStage, Expected
<1>9. Upload'
  BY <1>1, <1>3, <1>4, <1>5, <1>6, <1>7 DEF Upload
<1>10. Prefetched'
  BY <1>1, <1>6 DEF Prefetched
<1> QED
  BY <1>8, <1>9, <1>10 DEF StageInv

\* What rkusb_handle_datatx does, by cases: it prefetches the first block, sends
\* a block and prefetches the next, sends the last block, or has none to send.
Prefetches(b, l, k) ==
  \E fail \in Failing :
    tx_buffer' = [tx_buffer EXCEPT ![b] =
      DataTx(IF fail THEN [i \in 1..k |-> Opaque] ELSE StorageRead(Space(cbw.cmnd), l, k))]
LEMMA DatatxCases ==
  ASSUME Inv, StageInv, rkusb_handle_datatx, NEW k, k = Chunk(u_size - u_bytes)
  PROVE  /\ k \in Nat /\ k <= u_size - u_bytes /\ k <= BufMax /\ configured /\ tx_status = "OK"
         /\ status = "TXDATA_PREPARE"
         /\ \/ /\ PreHit(k) /\ rkusb_write_bulk_ep(k) /\ u_bytes' = u_bytes + k /\ lba' = Add(lba, k)
               /\ \/ /\ u_bytes + k = u_size /\ status' = "CSW" /\ UNCHANGED tx_buffer
                     /\ pre_read' = [pre_read EXCEPT !.lba = 0, !.blocks = 0]
                  \/ /\ u_bytes + k < u_size /\ k = BufMax /\ status' = status
                     /\ pre_read' = [buf |-> Flip(txbuf_num), lba |-> Add(lba, k), blocks |-> k]
                     /\ Prefetches(Flip(txbuf_num), Add(lba, k), k)
            \/ /\ ~PreHit(k) /\ UNCHANGED <<in_reqs, tx_status, txbuf_num, u_bytes, lba, status>>
               /\ \/ pre_read' = [pre_read EXCEPT !.lba = 0, !.blocks = 0] /\ UNCHANGED tx_buffer
                  \/ /\ pre_read' = [buf |-> txbuf_num, lba |-> lba, blocks |-> k]
                     /\ Prefetches(txbuf_num, lba, k)
                  \/ pre_read' = [pre_read EXCEPT !.blocks = pre_read.blocks] /\ UNCHANGED tx_buffer
<1>1. /\ u_bytes \in Nat /\ u_size \in Nat /\ u_bytes <= u_size /\ BufMax \in Nat \ {0}
      /\ u_size - u_bytes \in Nat
  BY StageNumbers, ConstantsAssumption DEF Inv
<1>2. /\ k \in Nat /\ k <= u_size - u_bytes /\ k <= BufMax
      /\ k # BufMax => k = u_size - u_bytes
  BY <1>1 DEF Chunk, Least
<1>3. status = "TXDATA_PREPARE" /\ TxReady
  BY DEF rkusb_handle_datatx, TxReady
<1>4. tx_status = "OK" /\ configured
  BY <1>1, <1>3 DEF Inv, LinkInv, TxFree, TxReady, RxInv, Enumeration
<1>5. CASE PreHit(k)
  <2>1. /\ k > 0 /\ u_bytes + k # 0 /\ u_bytes + k \in Nat
        /\ u_bytes + k = u_size \/ (u_bytes + k < u_size /\ k = BufMax)
        /\ u_bytes + k < u_size => u_bytes + k # u_size
    BY <1>1, <1>2, <1>5 DEF PreHit
  <2>2. rkusb_write_bulk_ep(k) /\ u_bytes' = u_bytes + k /\ lba' = Add(lba, k)
    BY <1>5 DEF rkusb_handle_datatx
  <2>3. CASE u_bytes + k = u_size
    <3>1. /\ status' = "CSW" /\ UNCHANGED tx_buffer
          /\ pre_read' = [pre_read EXCEPT !.lba = 0, !.blocks = 0]
      BY <1>5, <2>1, <2>3 DEF rkusb_handle_datatx
    <3> QED
      BY <1>2, <1>3, <1>4, <1>5, <2>2, <2>3, <3>1
  <2>4. CASE u_bytes + k < u_size /\ k = BufMax
    <3>1. /\ status' = status
          /\ pre_read' = [buf |-> Flip(txbuf_num), lba |-> Add(lba, k), blocks |-> k]
          /\ Prefetches(Flip(txbuf_num), Add(lba, k), k)
      BY <1>5, <2>1, <2>4 DEF rkusb_handle_datatx, Prefetches
    <3> QED
      BY <1>2, <1>3, <1>4, <1>5, <2>2, <2>4, <3>1
  <2> QED
    BY <2>1, <2>3, <2>4
<1>6. CASE ~PreHit(k)
  <2>1. UNCHANGED <<in_reqs, tx_status, txbuf_num, u_bytes, lba>>
    BY <1>6 DEF rkusb_handle_datatx, txside
  <2>2. status' = status
    <3>1. u_bytes = u_size => u_bytes = 0
      BY <1>1, <1>3, StageNumbers DEF Inv, StageInv, Prefetched
    <3> QED
      BY <1>6, <3>1 DEF rkusb_handle_datatx
  <2>3. \/ pre_read' = [pre_read EXCEPT !.lba = 0, !.blocks = 0] /\ UNCHANGED tx_buffer
        \/ /\ pre_read' = [buf |-> txbuf_num, lba |-> lba, blocks |-> k]
           /\ Prefetches(txbuf_num, lba, k)
        \/ pre_read' = [pre_read EXCEPT !.blocks = pre_read.blocks] /\ UNCHANGED tx_buffer
    BY <1>6 DEF rkusb_handle_datatx, Prefetches
  <2> QED
    BY <1>2, <1>3, <1>4, <1>6, <2>1, <2>2, <2>3
<1> QED
  BY <1>5, <1>6

\* A prefetch puts data into its buffer and leaves the other one alone.
LEMMA PrefetchedInto ==
  ASSUME TypeInv, NEW b \in Bufs, NEW l, NEW k, Prefetches(b, l, k)
  PROVE  tx_buffer'[b].kind = "data" /\ tx_buffer'[Flip(b)] = tx_buffer[Flip(b)]
<1>1. Flip(b) # b /\ Flip(b) \in Bufs
  BY FlipFacts, FlipType
<1>2. PICK s : tx_buffer' = [tx_buffer EXCEPT ![b] = DataTx(s)]
  BY DEF Prefetches
<1> QED
  BY <1>1, <1>2 DEF DataTx, TypeInv, TypeOK, BufferTypes

LEMMA StageDatatx ==
  ASSUME Inv, StageInv, rkusb_handle_datatx
  PROVE  StageInv'
<1> DEFINE k == Chunk(u_size - u_bytes)
<1>1. UNCHANGED <<cbw, rx_giveback, rx_buffer, events, h_phase, h_cbw, h_got, u_size>>
  BY DEF rkusb_handle_datatx, rxside, hostv
<1>2. /\ k \in Nat /\ k <= u_size - u_bytes /\ configured /\ tx_status = "OK"
      /\ status = "TXDATA_PREPARE"
      /\ \/ /\ PreHit(k) /\ rkusb_write_bulk_ep(k) /\ u_bytes' = u_bytes + k
            /\ \/ /\ u_bytes + k = u_size /\ status' = "CSW" /\ UNCHANGED tx_buffer
                  /\ pre_read' = [pre_read EXCEPT !.lba = 0, !.blocks = 0]
               \/ /\ u_bytes + k < u_size /\ status' = status
                  /\ pre_read' = [buf |-> Flip(txbuf_num), lba |-> Add(lba, k), blocks |-> k]
                  /\ Prefetches(Flip(txbuf_num), Add(lba, k), k)
         \/ /\ ~PreHit(k) /\ UNCHANGED <<in_reqs, tx_status, txbuf_num, u_bytes, status>>
            /\ \/ pre_read' = [pre_read EXCEPT !.lba = 0, !.blocks = 0] /\ UNCHANGED tx_buffer
               \/ /\ pre_read' = [buf |-> txbuf_num, lba |-> lba, blocks |-> k]
                  /\ Prefetches(txbuf_num, lba, k)
               \/ pre_read' = [pre_read EXCEPT !.blocks = pre_read.blocks] /\ UNCHANGED tx_buffer
  BY DatatxCases
<1> HIDE DEF k
<1>3. /\ in_reqs = <<>> /\ ~Failed /\ Len(h_got) = u_bytes /\ cbw = h_cbw
      /\ cbw.cmnd \in ReadCmds /\ u_size = cbw.n /\ (cbw.n > 0 => u_bytes < u_size)
  BY <1>2, AllReceived DEF Uploaded, StageInv, Prefetched
<1>4. /\ u_bytes \in Nat /\ u_size \in Nat /\ pre_read.blocks \in Nat /\ txbuf_num \in Bufs
      /\ pre_read \in [buf : Bufs \cup {NULL}, lba : Nat, blocks : Nat]
      /\ Flip(txbuf_num) \in Bufs /\ Flip(Flip(txbuf_num)) = txbuf_num
  BY StageNumbers, FlipFacts, FlipType DEF Inv, TypeInv, TypeOK, CmdTypes, BufferTypes
<1>5. Expected(cbw) = u_size /\ cbw.cmnd \notin InfoCmds
  BY <1>3 DEF Expected, ReadCmds, InfoCmds
<1>6. status' \in {"CSW", "TXDATA_PREPARE"}
  BY <1>2
<1>7. NoAbort' /\ Serving' /\ HostStage'
  BY <1>1, <1>3, <1>6 DEF StageInv, NoAbort, Serving, HostStage, Expected
<1>8. CASE PreHit(k)
  <2>1. k > 0 /\ pre_read.blocks > 0
    BY <1>2, <1>4, <1>8 DEF PreHit
  <2>2. pre_read.buf = txbuf_num /\ tx_buffer[txbuf_num].kind = "data"
    BY <2>1 DEF StageInv, Prefetched
  <2>3. /\ in_reqs' = <<[buf |-> txbuf_num, len |-> k]>> /\ in_reqs' # <<>>
        /\ Head(in_reqs').buf = txbuf_num /\ txbuf_num = Flip(txbuf_num')
    BY <1>2, <1>3, <1>8, Queued DEF Inv
  <2>4. Head(in_reqs').len = k /\ txbuf_num' = Flip(txbuf_num)
    BY <1>2, <1>8, <2>3 DEF rkusb_write_bulk_ep
  <2>5. tx_buffer'[txbuf_num].kind = "data"
    BY <1>2, <1>4, <1>8, <2>2, PrefetchedInto DEF Inv
  <2>6. Uploaded' = u_bytes + k
    <3>1. Expected(cbw)' = u_size
      BY <1>1, <1>5 DEF Expected
    <3> QED
      BY <1>2, <1>8, <3>1 DEF Uploaded
  <2>7. Upload'
    BY <1>1, <1>3, <2>1, <2>3, <2>4, <2>5, <2>6 DEF Upload
  <2>8. CASE u_bytes + k = u_size /\ status' = "CSW" /\ pre_read' = [pre_read EXCEPT !.lba = 0, !.blocks = 0]
    <3>1. pre_read'.blocks = 0
      BY <1>4, <2>8
    <3>2. Prefetched'
      BY <2>8, <3>1 DEF Prefetched
    <3> QED
      BY <1>7, <2>7, <3>2 DEF StageInv
  <2>9. CASE /\ u_bytes + k < u_size /\ status' = status
             /\ pre_read' = [buf |-> Flip(txbuf_num), lba |-> Add(lba, k), blocks |-> k]
             /\ Prefetches(Flip(txbuf_num), Add(lba, k), k)
    <3>1. tx_buffer'[Flip(txbuf_num)].kind = "data"
      BY <1>4, <2>9, PrefetchedInto DEF Inv
    <3>2. Prefetched'
      BY <1>1, <1>2, <1>3, <1>8, <2>4, <2>9, <3>1 DEF Prefetched
    <3> QED
      BY <1>7, <2>7, <3>2 DEF StageInv
  <2> QED
    BY <1>2, <1>8, <2>8, <2>9
<1>9. CASE ~PreHit(k)
  <2>1. UNCHANGED <<in_reqs, tx_status, txbuf_num, u_bytes, status>>
    BY <1>2, <1>9
  <2>2. Uploaded' = u_bytes
    BY <1>2, <2>1 DEF Uploaded
  <2>3. Upload'
    BY <1>1, <1>3, <2>1, <2>2 DEF Upload
  <2>4. pre_read'.blocks > 0 => pre_read'.buf = txbuf_num /\ tx_buffer'[txbuf_num].kind = "data"
    <3>1. CASE pre_read' = [pre_read EXCEPT !.lba = 0, !.blocks = 0] /\ UNCHANGED tx_buffer
      BY <1>4, <3>1
    <3>2. CASE /\ pre_read' = [buf |-> txbuf_num, lba |-> lba, blocks |-> k]
               /\ Prefetches(txbuf_num, lba, k)
      BY <1>4, <3>2, PrefetchedInto DEF Inv
    <3>3. CASE pre_read' = [pre_read EXCEPT !.blocks = pre_read.blocks] /\ UNCHANGED tx_buffer
      BY <1>4, <3>3 DEF StageInv, Prefetched
    <3> QED
      BY <1>2, <1>9, <3>1, <3>2, <3>3
  <2>5. Prefetched'
    BY <1>1, <1>2, <1>3, <2>1, <2>4 DEF Prefetched
  <2> QED
    BY <1>7, <2>3, <2>5 DEF StageInv
<1> QED
  BY <1>8, <1>9

\* The CSW follows when the host has read all it expects.
LEMMA StageCsw ==
  ASSUME Inv, StageInv, NEW st \in {CSW_GOOD, CSW_FAIL}, rkusb_send_csw(st),
         status \in {"CSW", "RXDATA", "RXDATA_PREPARE"}, rx_giveback.status # "READY",
         UNCHANGED <<cbw, events, h_phase, h_cbw, h_got, rx_buffer, u_bytes, u_size, pre_read>>
  PROVE  StageInv'
<1>1. CASE CanSend
  <2>1. configured /\ tx_status = "OK"
    BY <1>1 DEF CanSend, Inv, RxInv, Enumeration
  <2>2. in_reqs = <<>> /\ Len(h_got) = Expected(cbw) /\ cbw = h_cbw
    BY <2>1, AllReceived DEF Uploaded
  <2>3. /\ tx_buffer' = [tx_buffer EXCEPT ![txbuf_num] =
                           [kind |-> "csw", tag |-> cbw.tag, st |-> st, blocks |-> <<>>]]
        /\ rkusb_write_bulk_ep(1) /\ rkusb_read_bulk_ep(configured, out_reqs, 0, rxbuf_num)
        /\ status' = "IDLE"
    BY <1>1 DEF rkusb_send_csw
  <2>4. in_reqs' # <<>> /\ Head(in_reqs').buf = txbuf_num
    BY <2>1, <2>2, <2>3, Queued DEF Inv
  <2>5. tx_buffer'[txbuf_num].kind = "csw" /\ tx_buffer'[txbuf_num].tag = cbw.tag
    BY <2>3 DEF Inv, TypeInv, TypeOK, BufferTypes
  <2>6. rx_giveback'.actual = 0 /\ \A i \in DOMAIN events : events[i].type # "rx"
    BY <2>3, NothingReceived DEF Inv, rkusb_read_bulk_ep
  <2>7. pre_read.blocks = 0
    BY StageNumbers DEF Inv, StageInv, Prefetched
  <2>8. NoAbort' /\ Serving' /\ HostStage'
    BY <2>2, <2>6 DEF StageInv, NoAbort, Serving, HostStage, Expected
  <2>9. Upload'
    BY <2>2, <2>4, <2>5 DEF Upload, Expected
  <2>10. Prefetched'
    BY <2>3, <2>7 DEF Prefetched
  <2> QED
    BY <2>8, <2>9, <2>10 DEF StageInv
<1>2. CASE ~CanSend
  <2>1. UNCHANGED <<tx_buffer, tx_status, txbuf_num, in_reqs, rx_giveback, status>>
    BY <1>2 DEF rkusb_send_csw, txside, rxside
  <2> QED
    BY <2>1, StageQuiet
<1> QED
  BY <1>1, <1>2

LEMMA StageSendCsw ==
  ASSUME Inv, StageInv, SendCsw
  PROVE  StageInv'
<1>1. UNCHANGED <<cbw, events, h_phase, h_cbw, h_got, rx_buffer, u_bytes, u_size, pre_read>>
  BY DEF SendCsw, hostv, xfer, upv, cmdv
<1>2. CASE status = "CSW"
  <2>1. rx_giveback.status # "READY" /\ csw_st \in {CSW_GOOD, CSW_FAIL}
    BY <1>2 DEF Inv, RxInv, Waiting, TypeInv, TypeOK, CmdTypes
  <2>2. rkusb_send_csw(csw_st)
    BY <1>2 DEF SendCsw
  <2> QED
    BY <1>1, <1>2, <2>1, <2>2, StageCsw
<1>3. CASE status # "CSW"
  <2>1. UNCHANGED <<tx_buffer, tx_status, txbuf_num, in_reqs, rx_giveback, status>>
    BY <1>3 DEF SendCsw, txside, rxside
  <2> QED
    BY <1>1, <2>1, StageQuiet
<1> QED
  BY <1>2, <1>3

LEMMA StageDatarx ==
  ASSUME Inv, StageInv, rkusb_handle_datarx
  PROVE  StageInv'
<1>1. /\ status \in {"RXDATA", "RXDATA_PREPARE"} /\ rx_giveback.status # "READY"
      /\ UNCHANGED <<cbw, events, h_phase, h_cbw, h_got, rx_buffer, u_bytes, u_size, pre_read>>
  BY DEF Inv, RxInv, Waiting, rkusb_handle_datarx, RxReady, hostv, upv
<1>2. CASE Add(d_bytes, rx_giveback.actual) < d_size
  <2>1. status' = "RXDATA" /\ UNCHANGED <<tx_status, txbuf_num, in_reqs, tx_buffer>>
    BY <1>2 DEF rkusb_handle_datarx, txside
  <2>2. Expected(cbw)' = Expected(cbw) /\ Expected(h_cbw)' = Expected(h_cbw)
    BY <1>1 DEF Expected
  <2>3. Uploaded' = Uploaded /\ (Failed' <=> Failed)
    BY <1>1, <2>1, <2>2 DEF Uploaded, Failed
  <2>4. NoAbort' /\ Serving' /\ HostStage'
    BY <1>1, <2>1, <2>2 DEF StageInv, NoAbort, Serving, HostStage
  <2>5. Upload' /\ Prefetched'
    BY <1>1, <2>1, <2>2, <2>3 DEF StageInv, Upload, Prefetched
  <2> QED
    BY <2>4, <2>5 DEF StageInv
<1>3. CASE ~(Add(d_bytes, rx_giveback.actual) < d_size)
  <2>1. rkusb_send_csw(CSW_GOOD)
    BY <1>3 DEF rkusb_handle_datarx
  <2> QED
    BY <1>1, <2>1, StageCsw
<1> QED
  BY <1>2, <1>3

\* The first event is taken off the queue.
LEMMA TakenEvent ==
  ASSUME TypeInv, events # <<>>, events' = Tail(events)
  PROVE  /\ Head(events) = events[1] /\ 1 \in DOMAIN events /\ Head(events) \in Event
         /\ \A i \in DOMAIN events' : i + 1 \in DOMAIN events /\ events'[i] = events[i + 1]
         /\ \A i \in DOMAIN events : i # 1 => i - 1 \in DOMAIN events' /\ events'[i - 1] = events[i]
         /\ \A i \in DOMAIN events' : i + 1 # 1
<1>1. events \in Seq(Event)
  BY DEF TypeInv, TypeOK, ChannelTypes
<1> QED
  BY <1>1

LEMMA StageEvent ==
  ASSUME Inv, StageInv, HandleEvent
  PROVE  StageInv'
<1> DEFINE e == Head(events)
<1>1. /\ events # <<>> /\ events' = Tail(events)
      /\ UNCHANGED <<cbw, u_bytes, u_size, pre_read, rx_buffer, tx_buffer, h_phase, h_cbw, h_got>>
  BY DEF HandleEvent, hostv, cmdv, xfer, upv
<1>2. /\ e = events[1] /\ 1 \in DOMAIN events
      /\ \A i \in DOMAIN events' : i + 1 \in DOMAIN events /\ events'[i] = events[i + 1] /\ i + 1 # 1
      /\ \A i \in DOMAIN events : i # 1 => i - 1 \in DOMAIN events' /\ events'[i - 1] = events[i]
  BY <1>1, TakenEvent DEF Inv
<1> HIDE DEF e
<1>3. NoAbort'
  BY <1>2 DEF StageInv, NoAbort
<1>4. Expected(cbw)' = Expected(cbw) /\ Expected(h_cbw)' = Expected(h_cbw)
  BY <1>1 DEF Expected
<1>5. HostStage'
  BY <1>1, <1>4 DEF StageInv, HostStage
<1>6. CASE dwc3_rx_handler(e)
  <2>1. /\ e.type \in {"rx", "rx_err"}
        /\ UNCHANGED <<status, tx_status, txbuf_num, in_reqs>>
        /\ \/ e.type = "rx" /\ rx_giveback' = [status |-> "OK", actual |-> e.n, buf |-> e.buf]
           \/ e.type = "rx_err" /\ rx_giveback' = [rx_giveback EXCEPT !.status = "ERROR"]
    BY <1>6 DEF dwc3_rx_handler, txside
  <2>2. e.type = "rx_err" => rx_giveback'.actual = rx_giveback.actual /\ rx_giveback'.buf = rx_giveback.buf
    BY <2>1 DEF Inv, TypeInv, TypeOK, ChannelTypes
  <2>3. e.type = "rx" => rx_giveback'.buf = e.buf
    BY <2>1
  <2>4. Serving'
    BY <1>1, <1>2, <2>1, <2>2, <2>3 DEF StageInv, Serving, Copied
  <2>5. Failed' <=> Failed
    BY <1>2, <2>1 DEF Failed
  <2>6. Upload'
    BY <1>1, <1>4, <2>1, <2>5 DEF StageInv, Upload, Uploaded
  <2>7. Prefetched'
    BY <1>1, <2>1 DEF StageInv, Prefetched
  <2> QED
    BY <1>3, <1>5, <2>4, <2>6, <2>7 DEF StageInv
<1>7. CASE dwc3_tx_handler(e)
  <2>1. /\ e.type \in {"tx", "tx_err"} /\ tx_status' = IF e.type = "tx" THEN "OK" ELSE "ERROR"
        /\ UNCHANGED <<status, txbuf_num, in_reqs, rx_giveback>>
    BY <1>7 DEF dwc3_tx_handler, rxside
  <2>2. tx_status = "IN_PROGRESS" /\ \A i \in DOMAIN events : IsTx(events[i]) => i = 1
    BY <1>2, <2>1 DEF Inv, LinkInv, OneSend, IsTx
  <2>3. Failed => Failed'
    BY <1>2, <2>1, <2>2 DEF Failed, IsTx
  <2>4. Serving'
    BY <1>1, <1>2, <2>1 DEF StageInv, Serving, Copied
  <2>5. Upload'
    BY <1>1, <1>4, <2>1, <2>3 DEF StageInv, Upload, Uploaded
  <2>6. Prefetched'
    BY <1>1, <2>1 DEF StageInv, Prefetched
  <2> QED
    BY <1>3, <1>5, <2>4, <2>5, <2>6 DEF StageInv
<1>8. CASE rkusb_event_handler_for_dwc3(e)
  <2>1. e.type \in {"address", "configured"}
    BY <1>2, <1>8 DEF StageInv, NoAbort, rkusb_event_handler_for_dwc3, ControlEvents
  <2>2. ~configured /\ status = "IDLE" /\ in_reqs = <<>> /\ rx_giveback.actual = 0
    BY <1>2, <2>1 DEF Inv, RxInv, Enumeration
  <2>3. \A i \in DOMAIN events : events[i].type # "rx"
    BY <2>2 DEF Inv, RxInv, Enumeration
  <2>4. status' = "IDLE" /\ in_reqs' = <<>> /\ rx_giveback'.actual = 0
    <3>1. status' = "IDLE" /\ in_reqs' = <<>>
      BY <1>8, <2>1, <2>2 DEF rkusb_event_handler_for_dwc3, StatusAfter
    <3>2. CASE e.type = "configured"
      BY <1>8, <3>1, <3>2 DEF rkusb_event_handler_for_dwc3, rkusb_read_bulk_ep
    <3>3. CASE e.type = "address"
      BY <1>8, <2>2, <3>1, <3>3 DEF rkusb_event_handler_for_dwc3
    <3> QED
      BY <2>1, <3>2, <3>3
  <2>5. pre_read.blocks = 0
    BY <2>2, StageNumbers DEF Inv, StageInv, Prefetched
  <2>6. Serving'
    BY <1>1, <1>2, <2>3, <2>4 DEF StageInv, Serving
  <2>7. Upload' /\ Prefetched'
    BY <1>1, <2>4, <2>5 DEF Upload, Prefetched
  <2> QED
    BY <1>3, <1>5, <2>6, <2>7 DEF StageInv
<1> QED
  BY <1>6, <1>7, <1>8 DEF HandleEvent, e

\* A step of the bus that moves no data and no CBW.
LEMMA StageBus ==
  ASSUME Inv, StageInv, NEW e \in Event, e.type \notin {"rx"} \cup AbortEvents,
         events' = Append(events, e),
         UNCHANGED <<status, cbw, tx_status, h_cbw, h_got, rx_giveback, rx_buffer, tx_buffer,
                     txbuf_num, u_bytes, u_size, pre_read>>,
         h_phase' = h_phase \/ (h_phase # "in" /\ h_phase' \in {"addressed", "ready"}),
         in_reqs' = in_reqs \/ (in_reqs' = <<>> /\ e.type = "tx_err")
  PROVE  StageInv'
<1>1. /\ \A i \in DOMAIN events : i \in DOMAIN events' /\ events'[i] = events[i]
      /\ events'[Len(events) + 1] = e /\ Len(events) + 1 \in DOMAIN events'
      /\ \A i \in DOMAIN events' : i \in DOMAIN events \/ i = Len(events) + 1
  BY AppendedEvent DEF Inv
<1>2. Expected(cbw)' = Expected(cbw) /\ Expected(h_cbw)' = Expected(h_cbw)
  BY DEF Expected
<1>3. Failed => Failed'
  BY <1>1 DEF Failed
<1>4. e.type = "tx_err" => Failed'
  BY <1>1 DEF Failed
<1>5. NoAbort' /\ Serving'
  BY <1>1 DEF StageInv, NoAbort, Serving, Copied
<1>6. HostStage'
  BY <1>2 DEF StageInv, HostStage
<1>7. Upload'
  BY <1>2, <1>3, <1>4 DEF StageInv, Upload, Uploaded
<1>8. Prefetched'
  BY DEF StageInv, Prefetched
<1> QED
  BY <1>5, <1>6, <1>7, <1>8 DEF StageInv

\* The host sends the next CBW: nothing of it is served yet.
LEMMA StageSendCbw ==
  ASSUME Inv, StageInv, NEW c \in Cmds, HostSendCbw(c)
  PROVE  StageInv'
<1> DEFINE b == Head(out_reqs).buf
           e == [type |-> "rx", n |-> 1, buf |-> b]
           w == [cmnd |-> c.cmnd, tag |-> h_cbw.tag + 1, lba |-> c.lba, n |-> c.n, sub |-> c.sub]
<1>1. /\ OnBus /\ h_phase = "ready" /\ out_reqs # <<>>
      /\ UNCHANGED <<status, cbw, tx_status, txbuf_num, in_reqs, rx_giveback, tx_buffer, u_bytes,
                     u_size, pre_read>>
      /\ h_cbw' = w /\ h_got' = <<>>
      /\ h_phase' = CASE Expected(w) > 0 -> "in"
                      [] w.cmnd \in WriteCmds /\ w.n > 0 -> "out"
                      [] OTHER -> "status"
      /\ events' = Append(events, e)
      /\ rx_buffer' = [rx_buffer EXCEPT ![b] = [kind |-> "cbw", cbw |-> w, blocks |-> <<>>]]
  BY DEF HostSendCbw, devv, cmdv, xfer, upv
<1>2. b \in Bufs
  <2>1. Head(out_reqs) \in Req
    BY <1>1 DEF Inv, TypeInv, TypeOK, ChannelTypes
  <2> QED
    BY <2>1 DEF Req
<1>3. e \in Event /\ e.type = "rx" /\ e.buf = b
  BY <1>2 DEF Event, EventTypes
<1>4. rx_buffer'[b].cbw = w
  BY <1>1, <1>2 DEF Inv, TypeInv, TypeOK, BufferTypes
<1>5. Expected(w) \in Nat
  BY ConstantsAssumption DEF Expected, Request
<1> HIDE DEF b, e, w
<1>6. h_phase' = "in" <=> Expected(w) > 0
  <2>1. w.cmnd \in WriteCmds => Expected(w) = 0
    BY DEF Expected, WriteCmds, InfoCmds, ReadCmds
  <2> QED
    BY <1>1, <1>5, <2>1
<1>7. configured /\ ~Aborted
  BY <1>1 DEF Inv, RxInv, Enumeration, Aborted, OnBus, ControlEvents, AbortEvents
<1>8. /\ status = "IDLE" /\ rx_giveback.actual = 0 /\ in_reqs = <<>>
      /\ \A i \in DOMAIN events : events[i].type # "rx"
  BY <1>1, <1>7 DEF Inv, LinkInv, HostReady
<1>9. /\ \A i \in DOMAIN events : i \in DOMAIN events' /\ events'[i] = events[i]
      /\ \A i \in DOMAIN events' : (i \in DOMAIN events /\ events'[i] = events[i]) \/ events'[i] = e
  BY <1>1, <1>3, AppendedEvent DEF Inv
<1>10. NoAbort'
  BY <1>3, <1>9 DEF StageInv, NoAbort, AbortEvents
<1>11. Serving'
  <2>1. \A i \in DOMAIN events' : events'[i].type = "rx" => events'[i].buf = b
    BY <1>3, <1>8, <1>9
  <2> QED
    BY <1>1, <1>4, <1>8, <2>1 DEF Serving, Copied
<1>12. HostStage'
  <2>1. Len(h_got') = 0 /\ Expected(h_cbw)' = Expected(w)
    BY <1>1 DEF Expected
  <2>2. h_phase' # "broken"
    BY <1>1
  <2> QED
    BY <1>5, <1>6, <2>1, <2>2 DEF HostStage
<1>13. Upload' /\ Prefetched'
  BY <1>1, <1>8 DEF StageInv, Upload, Prefetched
<1> QED
  BY <1>10, <1>11, <1>12, <1>13 DEF StageInv

LEMMA StageDataOut ==
  ASSUME Inv, StageInv, HostDataOut
  PROVE  StageInv'
<1>1. /\ out_reqs # <<>> /\ h_phase = "out"
      /\ UNCHANGED <<status, cbw, tx_status, txbuf_num, in_reqs, rx_giveback, tx_buffer, u_bytes,
                     u_size, pre_read, h_cbw, h_got>>
      /\ h_phase' \in {"out", "status"}
  BY DEF HostDataOut, devv, cmdv, xfer, upv
<1>2. Head(out_reqs).len \in Nat /\ Head(out_reqs).buf \in Bufs /\ h_cbw.n - h_sent \in Int
  <2>1. Head(out_reqs) \in Req
    BY <1>1 DEF Inv, TypeInv, TypeOK, ChannelTypes
  <2> QED
    BY <2>1 DEF Req, Inv, TypeInv, TypeOK, HostTypes, Cbw
<1>3. PICK k \in 1..Least(Head(out_reqs).len, h_cbw.n - h_sent) :
        events' = Append(events, [type |-> "rx", n |-> k, buf |-> Head(out_reqs).buf])
  BY DEF HostDataOut
<1> DEFINE e == [type |-> "rx", n |-> k, buf |-> Head(out_reqs).buf]
<1>4. e \in Event /\ e.type = "rx"
  BY <1>2, <1>3 DEF Event, EventTypes
<1>5. status = "RXDATA"
  <2>1. Head(out_reqs).len > 0
    BY <1>2, <1>3 DEF Least
  <2> QED
    BY <1>1, <2>1 DEF Inv, LinkInv, Fresh
<1> HIDE DEF e
<1>6. /\ \A i \in DOMAIN events : i \in DOMAIN events' /\ events'[i] = events[i]
      /\ \A i \in DOMAIN events' : (i \in DOMAIN events /\ events'[i] = events[i]) \/ events'[i] = e
  BY <1>3, <1>4, AppendedEvent DEF Inv, e
<1>7. NoAbort' /\ Serving'
  BY <1>1, <1>4, <1>5, <1>6 DEF StageInv, NoAbort, AbortEvents, Serving
<1>8. Expected(cbw)' = Expected(cbw) /\ Expected(h_cbw)' = Expected(h_cbw)
  BY <1>1 DEF Expected
<1>9. HostStage'
  BY <1>1, <1>8 DEF StageInv, HostStage
<1>10. Failed => Failed'
  BY <1>1, <1>6 DEF Failed
<1>11. Upload'
  BY <1>1, <1>8, <1>10 DEF StageInv, Upload, Uploaded
<1>12. Prefetched'
  BY <1>1 DEF StageInv, Prefetched
<1> QED
  BY <1>7, <1>9, <1>11, <1>12 DEF StageInv

\* The driver never announces more data than the command has.
LEMMA UploadedBound ==
  ASSUME Inv, StageInv
  PROVE  Uploaded \in Nat /\ Uploaded <= Expected(cbw)
<1>1. CASE status = "TXDATA"
  BY <1>1, StageNumbers DEF Uploaded, Inv
<1>2. CASE status = "TXDATA_PREPARE"
  <2>1. cbw.cmnd \in ReadCmds /\ u_size = cbw.n /\ Uploaded = u_bytes
    BY <1>2 DEF StageInv, Prefetched, Uploaded
  <2>2. Expected(cbw) = cbw.n
    BY <2>1 DEF Expected, ReadCmds, InfoCmds
  <2> QED
    BY <2>1, <2>2, StageNumbers DEF Inv
<1>3. CASE status \notin {"TXDATA", "TXDATA_PREPARE"}
  BY <1>3, StageNumbers DEF Uploaded, Inv
<1> QED
  BY <1>1, <1>2, <1>3

\* The blocks the host receives.
Received(r, t) == [i \in 1..r.len |-> BlockAt(t.blocks, i)]
LEMMA ReceivedBlocks ==
  ASSUME TypeInv, in_reqs # <<>>, NEW r, r = Head(in_reqs), NEW t, t = tx_buffer[r.buf]
  PROVE  LET got == h_got \o Received(r, t)
         IN  /\ r.len \in Nat /\ r.buf \in Bufs /\ Len(got) = Len(h_got) + r.len
             /\ \A i \in 1..Len(h_got) : got[i] = h_got[i]
             /\ \A i \in 1..r.len : got[Len(h_got) + i] = BlockAt(t.blocks, i)
<1>1. r \in Req
  BY DEF TypeInv, TypeOK, ChannelTypes
<1>2. r.len \in Nat /\ r.buf \in Bufs
  BY <1>1 DEF Req
<1>3. t.blocks \in Seq(Val)
  BY <1>2 DEF TypeInv, TypeOK, BufferTypes, TxContent
<1>4. \A i \in 1..r.len : BlockAt(t.blocks, i) \in Val
  BY <1>2, <1>3, BlockAtType
<1> DEFINE x == Received(r, t)
<1>5. /\ x \in Seq(Val) /\ Len(x) = r.len
      /\ \A i \in 1..r.len : x[i] = BlockAt(t.blocks, i)
  BY <1>2, <1>4 DEF Received
<1> HIDE DEF x
<1>6. h_got \in Seq(Val) /\ Len(h_got) \in Nat
  BY StageNumbers
<1> DEFINE got == h_got \o x
<1>7. Len(got) = Len(h_got) + r.len
  BY <1>2, <1>5, <1>6
<1>8. \A i \in 1..Len(h_got) : got[i] = h_got[i]
  BY <1>2, <1>5, <1>6
<1>9. ASSUME NEW i \in 1..r.len PROVE got[Len(h_got) + i] = BlockAt(t.blocks, i)
  <2>1. Len(h_got) + i \in 1..(Len(h_got) + Len(x)) /\ Len(h_got) + i > Len(h_got)
        /\ Len(h_got) + i - Len(h_got) = i
    BY <1>2, <1>5, <1>6
  <2>2. got[Len(h_got) + i] = x[i]
    BY <1>2, <1>5, <1>6, <2>1
  <2> QED
    BY <1>5, <2>2
<1> QED
  BY <1>2, <1>7, <1>8, <1>9 DEF x

\* What an IN transfer means to a host that waits for data or for the CSW.
LEMMA HostInCases ==
  ASSUME Inv, StageInv, HostIn, NEW r, r = Head(in_reqs), NEW t, t = tx_buffer[r.buf]
  PROVE  /\ cbw = h_cbw /\ in_reqs' = <<>>
         /\ \/ /\ t.kind = "csw" /\ h_phase' = "ready" /\ h_got' = h_got /\ status = "IDLE"
               /\ Len(h_got) = Expected(h_cbw) /\ h_csw' = [tag |-> t.tag, st |-> t.st]
               /\ t.tag = cbw.tag
            \/ /\ t.kind # "csw" /\ h_phase = "in" /\ h_got' = h_got \o Received(r, t)
               /\ h_csw' = h_csw /\ r.len > 0 /\ Len(h_got) + r.len = Uploaded
               /\ Len(h_got') = Uploaded /\ Uploaded <= Expected(h_cbw)
               /\ h_phase' = IF Len(h_got') = Expected(h_cbw) THEN "status" ELSE "in"
<1>1. in_reqs # <<>> /\ in_reqs' = Tail(in_reqs) /\ h_phase \in {"in", "status"}
  BY DEF HostIn
<1>2. cbw = h_cbw /\ in_reqs' = <<>>
  <2>1. in_reqs' = <<>>
    BY <1>1, NoSecondRequest DEF Inv, LinkInv, OneSend, TypeInv, TypeOK, ChannelTypes
  <2> QED
    BY <1>1, <2>1 DEF StageInv, Serving
<1> DEFINE got == h_got \o Received(r, t)
<1>3. r.len \in Nat /\ r.buf \in Bufs /\ Len(got) = Len(h_got) + r.len
  BY <1>1, ReceivedBlocks DEF Inv
<1>4. CASE t.kind = "csw"
  <2>1. t.tag = cbw.tag /\ Len(h_got) = Expected(h_cbw)
    BY <1>1, <1>2, <1>4 DEF StageInv, Upload
  <2>2. h_csw' = [tag |-> t.tag, st |-> t.st] /\ h_phase' = "ready" /\ h_got' = h_got
    BY <1>2, <1>4, <2>1 DEF HostIn
  <2>3. status = "IDLE"
    <3>1. status # "IDLE" => t.tag < cbw.tag
      BY <1>3, <1>4 DEF Inv, LinkInv, Tags
    <3> QED
      BY <2>1, <3>1, StageNumbers DEF Inv
  <2> QED
    BY <1>2, <1>4, <2>1, <2>2, <2>3
<1>5. CASE t.kind # "csw"
  <2>1. r.len > 0 /\ Len(h_got) + r.len = Uploaded
    BY <1>1, <1>5 DEF StageInv, Upload
  <2>2. Uploaded <= Expected(h_cbw) /\ Uploaded \in Nat
    BY <1>2, UploadedBound
  <2>3. Len(h_got) < Expected(h_cbw)
    BY <1>3, <2>1, <2>2, StageNumbers DEF Inv
  <2>4. h_phase = "in"
    BY <2>3 DEF StageInv, HostStage
  <2>5. Len(got) <= Expected(h_cbw) /\ Len(got) = Uploaded
    BY <1>3, <2>1, <2>2
  <2>6. /\ h_phase' = CASE h_phase = "status" \/ Len(got) > Expected(h_cbw) -> "broken"
                        [] h_phase # "status" /\ Len(got) = Expected(h_cbw) -> "status"
                        [] OTHER -> "in"
        /\ h_got' = IF h_phase = "in" THEN got ELSE h_got
        /\ h_csw' = h_csw
    BY <1>5 DEF HostIn, Received
  <2>7. ~(Len(got) > Expected(h_cbw))
    BY <2>2, <2>5, StageNumbers DEF Inv
  <2>8. h_got' = got /\ h_phase' = IF Len(got) = Expected(h_cbw) THEN "status" ELSE "in"
    BY <2>4, <2>6, <2>7
  <2> QED
    BY <1>2, <1>5, <2>1, <2>2, <2>4, <2>5, <2>6, <2>8
<1> QED
  BY <1>4, <1>5

LEMMA StageHostIn ==
  ASSUME Inv, StageInv, HostIn
  PROVE  StageInv'
<1> DEFINE r == Head(in_reqs)
           t == tx_buffer[r.buf]
<1>1. /\ events' = Append(events, Ev("tx"))
      /\ UNCHANGED <<status, cbw, tx_status, txbuf_num, rx_giveback, rx_buffer, tx_buffer, u_bytes,
                     u_size, pre_read, h_cbw>>
  BY DEF HostIn, devv, cmdv, xfer, upv
<1>2. /\ cbw = h_cbw /\ in_reqs' = <<>>
      /\ \/ /\ h_phase' = "ready" /\ h_got' = h_got /\ status = "IDLE" /\ Len(h_got) = Expected(h_cbw)
         \/ /\ Len(h_got') = Uploaded /\ Uploaded <= Expected(h_cbw)
            /\ h_phase' = IF Len(h_got') = Expected(h_cbw) THEN "status" ELSE "in"
  BY HostInCases
<1>3. Ev("tx") \in Event /\ Ev("tx").type = "tx"
  BY DEF Event, Ev, EventTypes
<1>4. /\ \A i \in DOMAIN events : i \in DOMAIN events' /\ events'[i] = events[i]
      /\ \A i \in DOMAIN events' : (i \in DOMAIN events /\ events'[i] = events[i]) \/ events'[i] = Ev("tx")
  BY <1>1, <1>3, AppendedEvent DEF Inv
<1>5. Expected(cbw)' = Expected(cbw) /\ Expected(h_cbw)' = Expected(h_cbw)
  BY <1>1 DEF Expected
<1>6. Uploaded' = Uploaded
  BY <1>1, <1>5 DEF Uploaded
<1>7. NoAbort' /\ Serving'
  BY <1>1, <1>2, <1>3, <1>4 DEF StageInv, NoAbort, AbortEvents, Serving, Copied
<1>8. HostStage'
  <2>1. Uploaded \in Nat /\ Expected(h_cbw) \in Nat
    BY UploadedBound, StageNumbers DEF Inv
  <2> QED
    BY <1>2, <1>5, <2>1 DEF HostStage
<1>9. Upload'
  BY <1>1, <1>2, <1>6 DEF Upload
<1>10. Prefetched'
  BY <1>1 DEF StageInv, Prefetched
<1> QED
  BY <1>7, <1>8, <1>9, <1>10 DEF StageInv

LEMMA StageFault ==
  ASSUME NoAborts, Inv, StageInv, BusFault
  PROVE  StageInv'
<1>1. TransferError
  BY DEF NoAborts, BusFault, Abort
<1>2. /\ UNCHANGED <<status, cbw, tx_status, h_phase, h_cbw, h_got, rx_giveback, rx_buffer, tx_buffer,
                     txbuf_num, u_bytes, u_size, pre_read>>
      /\ \/ events' = Append(events, Ev("rx_err")) /\ UNCHANGED in_reqs
         \/ /\ in_reqs # <<>> /\ events' = Append(events, Ev("tx_err")) /\ in_reqs' = Tail(in_reqs)
  BY <1>1 DEF TransferError, devv, hostv, cmdv, xfer, upv
<1>3. in_reqs # <<>> => Tail(in_reqs) = <<>>
  BY NoSecondRequest DEF Inv, LinkInv, OneSend, TypeInv, TypeOK, ChannelTypes
<1>4. \A x \in {"rx_err", "tx_err"} : Ev(x) \in Event /\ Ev(x).type = x
  BY DEF Event, Ev, EventTypes, ErrorEvents
<1>5. CASE events' = Append(events, Ev("rx_err")) /\ UNCHANGED in_reqs
  BY <1>2, <1>4, <1>5, StageBus DEF AbortEvents
<1>6. CASE in_reqs # <<>> /\ events' = Append(events, Ev("tx_err")) /\ in_reqs' = Tail(in_reqs)
  BY <1>2, <1>3, <1>4, <1>6, StageBus DEF AbortEvents
<1> QED
  BY <1>2, <1>5, <1>6

LEMMA StageEnumerate ==
  ASSUME Inv, StageInv, Enumerate
  PROVE  StageInv'
<1>1. /\ UNCHANGED <<status, cbw, tx_status, h_cbw, h_got, rx_giveback, rx_buffer, tx_buffer,
                     txbuf_num, u_bytes, u_size, pre_read, in_reqs>>
      /\ h_phase \in {"detached", "addressed"} /\ h_phase' \in {"addressed", "ready"}
      /\ \E x \in {"address", "configured"} : events' = Append(events, Ev(x))
  BY DEF Enumerate, devv, cmdv, xfer, upv
<1>2. \A x \in {"address", "configured"} : Ev(x) \in Event /\ Ev(x).type = x
  BY DEF Event, Ev, EventTypes, ControlEvents
<1> QED
  BY <1>1, <1>2, StageBus DEF AbortEvents

LEMMA StepStage ==
  ASSUME NoAborts, Inv, StageInv, [Next]_vars
  PROVE  StageInv'
<1>1. CASE UNCHANGED vars
  BY <1>1, StageLoop
<1>2. CASE Device
  BY <1>2, StageLoop, StageEvent, StageCommand, StageTxData, StageDatatx, StageDatarx, StageSendCsw
  DEF Device
<1>3. CASE HostStep
  BY <1>3, StageEnumerate, StageSendCbw, StageDataOut, StageHostIn DEF HostStep
<1>4. CASE BusFault
  BY <1>4, StageFault
<1> QED
  BY <1>1, <1>2, <1>3, <1>4 DEF Next

\* As long as the host gives no command up, whatever transfers fail and
\* whatever the storage does, it never meets data where it waits for the CSW,
\* more data than it asked for, or the CSW of another command.
THEOREM PhasesAgree == NoAborts => (Spec => []NoPhaseError)
<1> SUFFICES ASSUME NoAborts PROVE Spec => []NoPhaseError
  OBVIOUS
<1>1. ClearsBoth
  BY DEF NoAborts, ClearsBoth, AbortEvents
<1>2. Init => Inv /\ StageInv
  BY InitInv, InitStage
<1>3. (Inv /\ StageInv) /\ [Next]_vars => (Inv /\ StageInv)'
  BY <1>1, StepInv, StepStage
<1>4. StageInv => NoPhaseError
  BY DEF StageInv, HostStage, NoPhaseError
<1> QED
  BY <1>2, <1>3, <1>4, PTL DEF Spec

-----------------------------------------------------------------------------
(* What a read command delivers.                                            *)

\* The media at the i-th block of a command, and the blocks that are known to
\* be there: the ones the host has, the ones on their way, and the prefetched
\* ones.
Asked(c, i) == media[Space(c.cmnd)][c.lba + i - 1]
Reads(c)    == c.cmnd \in ReadCmds /\ InRange(c)
Got ==
  Reads(h_cbw) => \A i \in 1..Len(h_got) : h_got[i] = Asked(h_cbw, i)
OnTheWay ==
  in_reqs # <<>> /\ Reads(cbw) =>
    LET r == Head(in_reqs)
        t == tx_buffer[r.buf]
    IN  t.kind # "csw" => \A i \in 1..r.len : BlockAt(t.blocks, i) = Asked(cbw, Len(h_got) + i)
Fetched ==
  /\ status = "TXDATA_PREPARE" => lba = cbw.lba + u_bytes
  /\ pre_read.blocks > 0 => \A i \in 1..pre_read.blocks :
       pre_read.lba + i - 1 \in Lbas =>
         BlockAt(tx_buffer[txbuf_num].blocks, i) = media[Space(cbw.cmnd)][pre_read.lba + i - 1]

\* A low-level format waits for the end of the round of its own command.
Formatting ==
  lowformat => cbw.cmnd \notin ReadCmds \cup WriteCmds /\ pc \notin {"start", "intr", "idle"}

ReadInv == Got /\ OnTheWay /\ Fetched /\ Formatting

LEMMA InitRead == Init => ReadInv
<1> SUFFICES ASSUME Init PROVE ReadInv
  OBVIOUS
<1>1. /\ h_got = <<>> /\ in_reqs = <<>> /\ status = "IDLE" /\ pre_read.blocks = 0 /\ ~lowformat
      /\ Len(h_got) = 0
  BY DEF Init
<1> QED
  BY <1>1 DEF ReadInv, Got, OnTheWay, Fetched, Formatting

LEMMA CommandFormat ==
  ASSUME ReadInv, do_rockusb_cmd
  PROVE  Formatting'
<1>1. ~lowformat /\ pc' = "response"
  BY DEF ReadInv, Formatting, do_rockusb_cmd
<1> DEFINE c == cbw'
<1>2. \/ FW_TestUnitReady(c) \/ FW_Info(c) \/ FW_Read(c) \/ FW_Write(c)
      \/ FW_Erase(c) \/ FW_Simple(c) \/ FW_Unknown(c)
  BY DEF do_rockusb_cmd
<1> HIDE DEF c
<1>3. lowformat' => c.cmnd \in {"TEST_UNIT_READY", "LOW_FORMAT"}
  BY <1>1, <1>2 DEF FW_TestUnitReady, FW_Info, FW_Read, FW_Write, FW_Erase, FW_Simple, FW_Unknown, flags
<1> QED
  BY <1>1, <1>3 DEF Formatting, ReadCmds, WriteCmds, c

LEMMA StepFormat ==
  ASSUME ReadInv, [Next]_vars
  PROVE  Formatting'
<1>1. CASE do_rockusb_cmd
  BY <1>1, CommandFormat
<1>2. CASE HostStep \/ BusFault \/ UNCHANGED vars
  <2>1. UNCHANGED <<lowformat, cbw, pc>>
    BY <1>2 DEF HostStep, Enumerate, HostSendCbw, HostDataOut, HostIn, BusFault, TransferError, Abort,
       devv, cmdv, flags, vars
  <2> QED
    BY <2>1 DEF ReadInv, Formatting
<1>3. CASE Device /\ ~do_rockusb_cmd
  <2>1. /\ cbw' = cbw /\ lowformat' \in {lowformat, FALSE}
        /\ lowformat' => pc' \notin {"start", "intr", "idle"} \/ pc \in {"start", "intr", "idle"}
    BY <1>3 DEF Device, Connect, HandleEvent, EndInterrupt, NoCommand, HandleTxData,
       rkusb_handle_datarx, MediaWrite, rkusb_handle_datatx, NoResponse, SendCsw, Reboot, NextRound,
       cmdv, flags
  <2> QED
    BY <2>1 DEF ReadInv, Formatting
<1> QED
  BY <1>1, <1>2, <1>3 DEF Next

\* A step that moves no data.
LEMMA ReadSame ==
  ASSUME ReadInv, Formatting', UNCHANGED <<media, cbw, h_cbw, h_got, tx_buffer, pre_read>>,
         in_reqs' = in_reqs \/ in_reqs' = <<>>,
         UNCHANGED txbuf_num \/ ~(pre_read.blocks > 0),
         status' # "TXDATA_PREPARE" \/ UNCHANGED <<status, lba, u_bytes>>
  PROVE  ReadInv'
<1>1. Reads(h_cbw)' = Reads(h_cbw) /\ Reads(cbw)' = Reads(cbw)
  BY DEF Reads, InRange
<1>2. Got'
  BY <1>1 DEF ReadInv, Got, Asked, Space
<1>3. OnTheWay'
  BY <1>1 DEF ReadInv, OnTheWay, Asked, Space
<1>4. Fetched'
  BY DEF ReadInv, Fetched, Space
<1> QED
  BY <1>2, <1>3, <1>4 DEF ReadInv

\* A step of a command that is no read: the media may change.
LEMMA ReadOther ==
  ASSUME Inv, StageInv, Formatting', cbw.cmnd \notin ReadCmds, UNCHANGED <<cbw, h_cbw, h_got, pre_read>>,
         status' # "TXDATA_PREPARE", status # "TXDATA_PREPARE"
  PROVE  ReadInv'
<1>1. ~Reads(cbw)'
  BY DEF Reads
<1>2. Got'
  <2> SUFFICES ASSUME Reads(h_cbw)' PROVE Len(h_got) = 0
    BY DEF Got
  <2>1. cbw # h_cbw
    BY DEF Reads
  <2>2. h_got = <<>>
    BY <2>1 DEF StageInv, Serving
  <2> QED
    BY <2>2
<1>3. OnTheWay'
  BY <1>1 DEF OnTheWay
<1>4. Fetched'
  BY StageNumbers DEF Inv, StageInv, Prefetched, Fetched
<1> QED
  BY <1>2, <1>3, <1>4 DEF ReadInv

LEMMA ReadCommand ==
  ASSUME Inv, StageInv, ReadInv, do_rockusb_cmd
  PROVE  ReadInv'
<1>1. /\ cbw' = h_cbw /\ h_got = <<>> /\ Len(h_got) = 0 /\ in_reqs = <<>> /\ pre_read.blocks = 0
  BY CommandServed
<1>2. UNCHANGED <<in_reqs, h_got>>
  BY DEF do_rockusb_cmd, txside, hostv
<1> DEFINE c == cbw'
<1>3. \/ FW_TestUnitReady(c) \/ FW_Info(c) \/ FW_Read(c) \/ FW_Write(c)
      \/ FW_Erase(c) \/ FW_Simple(c) \/ FW_Unknown(c)
  BY DEF do_rockusb_cmd
<1> HIDE DEF c
<1>4. pre_read' = pre_read \/ pre_read' = [pre_read EXCEPT !.lba = 0, !.blocks = 0]
  BY <1>3 DEF FW_TestUnitReady, FW_Info, FW_Read, FW_Write, FW_Erase, FW_Simple, FW_Unknown, xfer, upv
<1>5. pre_read'.blocks = 0
  BY <1>1, <1>4 DEF Inv, TypeInv, TypeOK, CmdTypes
<1>6. status' = "TXDATA_PREPARE" => lba' = c.lba /\ u_bytes' = 0
  BY <1>3 DEF FW_TestUnitReady, FW_Info, FW_Read, FW_Write, FW_Erase, FW_Simple, FW_Unknown
<1>7. c.lba \in Nat
  BY <1>1 DEF c, Inv, TypeInv, TypeOK, HostTypes, Cbw
<1>8. Got' /\ OnTheWay'
  BY <1>1, <1>2 DEF Got, OnTheWay
<1>9. Fetched'
  BY <1>5, <1>6, <1>7 DEF Fetched, c
<1>10. Formatting'
  BY CommandFormat
<1> QED
  BY <1>8, <1>9, <1>10 DEF ReadInv

\* What a prefetch that does not fail brings.
LEMMA PrefetchedBlocks ==
  ASSUME TypeInv, ~StorageFails, NEW b \in Bufs, NEW l \in Nat, NEW k \in Nat, Prefetches(b, l, k)
  PROVE  \A i \in 1..k : l + i - 1 \in Lbas =>
           BlockAt(tx_buffer'[b].blocks, i) = media[Space(cbw.cmnd)][l + i - 1]
<1> DEFINE s == StorageRead(Space(cbw.cmnd), l, k)
<1>1. tx_buffer' = [tx_buffer EXCEPT ![b] = DataTx(s)]
  BY DEF Prefetches, Failing
<1>2. tx_buffer'[b].blocks = s
  BY <1>1 DEF DataTx, TypeInv, TypeOK, BufferTypes
<1>3. DOMAIN s = 1..k
  BY DEF StorageRead
<1>4. \A i \in 1..k : l + i - 1 \in Lbas => s[i] = media[Space(cbw.cmnd)][l + i - 1]
  BY DEF StorageRead
<1> HIDE DEF s
<1> QED
  BY <1>2, <1>3, <1>4 DEF BlockAt

\* The address of the upload does not wrap.
LEMMA UploadAddress ==
  ASSUME Inv, RangeInv, StageInv, ReadInv, status = "TXDATA_PREPARE",
         NEW k \in Nat, k <= u_size - u_bytes
  PROVE  /\ lba = cbw.lba + u_bytes /\ Add(lba, k) = lba + k /\ lba + k = cbw.lba + (u_bytes + k)
         /\ lba \in Nat /\ lba + k \in Nat /\ u_bytes + k <= cbw.n
<1>1. /\ cbw.lba \in Nat /\ cbw.n \in Nat /\ u_bytes \in Nat /\ u_size \in Nat /\ Word \in Nat \ {0}
      /\ lba \in Nat
  BY StageNumbers, RangeNumbers DEF Inv
<1>2. u_size = cbw.n /\ lba = cbw.lba + u_bytes /\ cbw.lba + cbw.n < Word
  BY DEF StageInv, Prefetched, ReadInv, Fetched, RangeInv, CbwsFit, Fits
<1>3. lba + k \in Nat /\ lba + k < Word /\ lba + k = cbw.lba + (u_bytes + k) /\ u_bytes + k <= cbw.n
  BY <1>1, <1>2
<1>4. Add(lba, k) = lba + k
  BY <1>1, <1>3 DEF Add
<1> QED
  BY <1>1, <1>2, <1>3, <1>4

LEMMA ReadDatatx ==
  ASSUME ~StorageFails, Inv, RangeInv, StageInv, ReadInv, rkusb_handle_datatx, Formatting'
  PROVE  ReadInv'
<1> DEFINE k == Chunk(u_size - u_bytes)
<1>1. UNCHANGED <<cbw, h_cbw, h_got, media>>
  BY DEF rkusb_handle_datatx, hostv
<1>2. /\ k \in Nat /\ k <= u_size - u_bytes /\ configured /\ tx_status = "OK"
      /\ status = "TXDATA_PREPARE"
      /\ \/ /\ PreHit(k) /\ rkusb_write_bulk_ep(k) /\ u_bytes' = u_bytes + k /\ lba' = Add(lba, k)
            /\ \/ /\ u_bytes + k = u_size /\ status' = "CSW" /\ UNCHANGED tx_buffer
                  /\ pre_read' = [pre_read EXCEPT !.lba = 0, !.blocks = 0]
               \/ /\ u_bytes + k < u_size /\ status' = status
                  /\ pre_read' = [buf |-> Flip(txbuf_num), lba |-> Add(lba, k), blocks |-> k]
                  /\ Prefetches(Flip(txbuf_num), Add(lba, k), k)
         \/ /\ ~PreHit(k) /\ UNCHANGED <<in_reqs, tx_status, txbuf_num, u_bytes, lba, status>>
            /\ \/ pre_read' = [pre_read EXCEPT !.lba = 0, !.blocks = 0] /\ UNCHANGED tx_buffer
               \/ /\ pre_read' = [buf |-> txbuf_num, lba |-> lba, blocks |-> k]
                  /\ Prefetches(txbuf_num, lba, k)
               \/ pre_read' = [pre_read EXCEPT !.blocks = pre_read.blocks] /\ UNCHANGED tx_buffer
  BY DatatxCases
<1> HIDE DEF k
<1>3. /\ in_reqs = <<>> /\ Len(h_got) = u_bytes /\ cbw = h_cbw
  BY <1>2, AllReceived DEF Uploaded
<1>4. /\ u_bytes \in Nat /\ u_size \in Nat /\ pre_read.blocks \in Nat /\ txbuf_num \in Bufs
      /\ pre_read \in [buf : Bufs \cup {NULL}, lba : Nat, blocks : Nat]
      /\ Flip(txbuf_num) \in Bufs /\ Flip(Flip(txbuf_num)) = txbuf_num /\ cbw.lba \in Nat
  BY StageNumbers, RangeNumbers, FlipFacts, FlipType DEF Inv, TypeInv, TypeOK, CmdTypes, BufferTypes
<1>5. /\ lba = cbw.lba + u_bytes /\ Add(lba, k) = lba + k /\ lba + k = cbw.lba + (u_bytes + k)
      /\ lba \in Nat /\ lba + k \in Nat /\ u_bytes + k <= cbw.n
  BY <1>2, UploadAddress
<1>6. Got'
  BY <1>1 DEF ReadInv, Got, Reads, InRange, Asked, Space
<1>7. CASE PreHit(k)
  <2>1. k > 0 /\ pre_read.blocks > 0 /\ k <= pre_read.blocks /\ pre_read.lba = lba
    BY <1>2, <1>4, <1>7 DEF PreHit
  <2>2. tx_buffer[txbuf_num].kind = "data"
    BY <2>1 DEF StageInv, Prefetched
  <2>3. /\ in_reqs' = <<[buf |-> txbuf_num, len |-> k]>> /\ in_reqs' # <<>>
        /\ Head(in_reqs').buf = txbuf_num
    BY <1>2, <1>3, <1>7, Queued DEF Inv
  <2>4. Head(in_reqs').len = k /\ txbuf_num' = Flip(txbuf_num)
    BY <1>2, <1>7, <2>3 DEF rkusb_write_bulk_ep
  <2>5. tx_buffer'[txbuf_num] = tx_buffer[txbuf_num]
    BY <1>2, <1>4, <1>7, PrefetchedInto DEF Inv
  <2>6. ASSUME Reads(cbw), NEW i \in 1..k
        PROVE  BlockAt(tx_buffer[txbuf_num].blocks, i) = Asked(cbw, u_bytes + i)
    <3>1. /\ i \in 1..pre_read.blocks /\ u_bytes + i \in 1..cbw.n
          /\ pre_read.lba + i - 1 = cbw.lba + (u_bytes + i) - 1
      <4>1. \A u, c, kk, p \in Nat, n, j \in Int : j \in 1..kk =>
              (kk <= p /\ u + kk <= n
                => j \in 1..p /\ u + j \in 1..n /\ (c + u) + j - 1 = c + (u + j) - 1)
        OBVIOUS
      <4>2. cbw.n \in Int /\ k \in Nat
        BY <1>2, RangeNumbers DEF Inv, TypeInv, TypeOK, CmdTypes
      <4> QED
        BY <1>4, <1>5, <2>1, <4>1, <4>2
    <3>2. cbw.lba + (u_bytes + i) - 1 \in Lbas
      BY <2>6, <3>1 DEF Reads, InRange
    <3> QED
      BY <2>1, <3>1, <3>2 DEF ReadInv, Fetched, Asked
  <2>7. OnTheWay'
    <3> SUFFICES ASSUME Reads(cbw)', NEW i \in 1..k
                 PROVE  BlockAt(tx_buffer'[txbuf_num].blocks, i) = Asked(cbw, Len(h_got) + i)'
      BY <2>3, <2>4 DEF OnTheWay
    <3>1. Reads(cbw)
      BY <1>1 DEF Reads, InRange
    <3> QED
      BY <1>1, <1>3, <2>5, <2>6, <3>1 DEF Asked, Space
  <2>8. CASE u_bytes + k = u_size /\ status' = "CSW" /\ pre_read' = [pre_read EXCEPT !.lba = 0, !.blocks = 0]
    <3>1. pre_read'.blocks = 0
      BY <1>4, <2>8
    <3>2. Fetched'
      BY <2>8, <3>1 DEF Fetched
    <3> QED
      BY <1>6, <2>7, <3>2 DEF ReadInv
  <2>9. CASE /\ u_bytes + k < u_size /\ status' = status
             /\ pre_read' = [buf |-> Flip(txbuf_num), lba |-> Add(lba, k), blocks |-> k]
             /\ Prefetches(Flip(txbuf_num), Add(lba, k), k)
    <3>1. pre_read'.lba = lba + k /\ pre_read'.blocks = k /\ lba' = lba + k /\ u_bytes' = u_bytes + k
      BY <1>2, <1>5, <1>7, <2>9
    <3>2. \A i \in 1..k : (lba + k) + i - 1 \in Lbas =>
            BlockAt(tx_buffer'[txbuf_num'].blocks, i) = media[Space(cbw.cmnd)][(lba + k) + i - 1]
      BY <1>2, <1>4, <1>5, <2>4, <2>9, PrefetchedBlocks DEF Inv
    <3>3. Fetched'
      BY <1>1, <1>5, <3>1, <3>2 DEF Fetched, Space
    <3> QED
      BY <1>6, <2>7, <3>3 DEF ReadInv
  <2> QED
    BY <1>2, <1>7, <2>8, <2>9
<1>8. CASE ~PreHit(k)
  <2>1. UNCHANGED <<in_reqs, txbuf_num, u_bytes, lba, status>>
    BY <1>2, <1>8
  <2>2. OnTheWay'
    BY <1>3, <2>1 DEF OnTheWay
  <2>3. CASE pre_read' = [pre_read EXCEPT !.lba = 0, !.blocks = 0] /\ UNCHANGED tx_buffer
    <3>1. pre_read'.blocks = 0
      BY <1>4, <2>3
    <3> QED
      BY <1>1, <1>5, <1>6, <2>1, <2>2, <3>1 DEF ReadInv, Fetched
  <2>4. CASE pre_read' = [buf |-> txbuf_num, lba |-> lba, blocks |-> k] /\ Prefetches(txbuf_num, lba, k)
    <3>1. pre_read'.lba = lba /\ pre_read'.blocks = k
      BY <2>4
    <3>2. \A i \in 1..k : lba + i - 1 \in Lbas =>
            BlockAt(tx_buffer'[txbuf_num].blocks, i) = media[Space(cbw.cmnd)][lba + i - 1]
      BY <1>2, <1>4, <1>5, <2>4, PrefetchedBlocks DEF Inv
    <3>3. Fetched'
      BY <1>1, <1>5, <2>1, <3>1, <3>2 DEF Fetched, Space
    <3> QED
      BY <1>6, <2>2, <3>3 DEF ReadInv
  <2>5. CASE pre_read' = [pre_read EXCEPT !.blocks = pre_read.blocks] /\ UNCHANGED tx_buffer
    <3>1. pre_read' = pre_read
      BY <1>4, <2>5
    <3> QED
      BY <1>1, <2>1, <2>5, <3>1, ReadSame
  <2> QED
    BY <1>2, <1>8, <2>3, <2>4, <2>5
<1> QED
  BY <1>7, <1>8

\* The other steps of the loop.
LEMMA ReadDevice ==
  ASSUME ~StorageFails, Inv, RangeInv, StageInv, ReadInv, Device, Formatting'
  PROVE  ReadInv'
<1>1. ~(pre_read.blocks > 0) \/ status = "TXDATA_PREPARE"
  BY DEF StageInv, Prefetched
<1>2. CASE Connect \/ EndInterrupt \/ NoCommand \/ NoResponse \/ Reboot
  <2>1. UNCHANGED <<media, cbw, h_cbw, h_got, tx_buffer, pre_read, in_reqs, txbuf_num, status, lba, u_bytes>>
    BY <1>2 DEF Connect, EndInterrupt, NoCommand, NoResponse, Reboot, cmdv, hostv, xfer, upv, txside
  <2> QED
    BY <2>1, ReadSame
<1>3. CASE HandleEvent
  <2>1. /\ UNCHANGED <<media, cbw, h_cbw, h_got, tx_buffer, pre_read, lba, u_bytes>>
        /\ in_reqs' = in_reqs \/ in_reqs' = <<>>
        /\ UNCHANGED <<status, txbuf_num>> \/ rkusb_event_handler_for_dwc3(Head(events))
    BY <1>3 DEF HandleEvent, cmdv, hostv, xfer, upv, dwc3_rx_handler, dwc3_tx_handler, txside,
       rkusb_event_handler_for_dwc3
  <2>2. ASSUME rkusb_event_handler_for_dwc3(Head(events))
        PROVE  status = "IDLE" /\ status' = "IDLE"
    <3>1. Head(events) = events[1] /\ 1 \in DOMAIN events
      BY <1>3, TakenEvent DEF Inv, HandleEvent
    <3>2. Head(events).type \in {"address", "configured"}
      BY <2>2, <3>1 DEF StageInv, NoAbort, rkusb_event_handler_for_dwc3, ControlEvents
    <3>3. status = "IDLE"
      BY <3>1, <3>2 DEF Inv, RxInv, Enumeration
    <3> QED
      BY <2>2, <3>2, <3>3 DEF rkusb_event_handler_for_dwc3, StatusAfter
  <2> QED
    BY <1>1, <2>1, <2>2, ReadSame
<1>4. CASE MediaWrite
  <2>1. cbw.cmnd \in WriteCmds /\ UNCHANGED <<cbw, h_cbw, h_got, pre_read, status>>
    BY <1>4 DEF MediaWrite, RangeInv, Storing, cmdv, hostv, upv
  <2>2. cbw.cmnd \notin ReadCmds
    BY <2>1 DEF WriteCmds, ReadCmds
  <2>3. status # "TXDATA_PREPARE"
    BY <2>2 DEF StageInv, Prefetched
  <2> QED
    BY <2>1, <2>2, <2>3, ReadOther
<1>5. CASE NextRound
  <2>1. UNCHANGED <<cbw, h_cbw, h_got, tx_buffer, pre_read, in_reqs, txbuf_num, status, lba, u_bytes>>
    BY <1>5 DEF NextRound, cmdv, hostv, xfer, upv, txside
  <2>2. CASE lowformat
    <3>1. cbw.cmnd \notin ReadCmds
      BY <2>2 DEF ReadInv, Formatting
    <3>2. status # "TXDATA_PREPARE"
      BY <3>1 DEF StageInv, Prefetched
    <3> QED
      BY <2>1, <3>1, <3>2, ReadOther
  <2>3. CASE ~lowformat
    <3>1. media' = media
      BY <1>5, <2>3 DEF NextRound
    <3> QED
      BY <2>1, <3>1, ReadSame
  <2> QED
    BY <2>2, <2>3
<1>6. CASE HandleTxData
  <2>1. /\ status = "TXDATA" /\ status' = "CSW" /\ UNCHANGED <<cbw, h_cbw, h_got, pre_read>>
    BY <1>6 DEF HandleTxData, hostv, xfer, upv
  <2>2. cbw.cmnd \notin ReadCmds
    BY <2>1 DEF StageInv, Prefetched, InfoCmds, ReadCmds
  <2> QED
    BY <2>1, <2>2, ReadOther
<1>7. CASE rkusb_handle_datarx
  <2>1. status \in {"RXDATA", "RXDATA_PREPARE"} /\ UNCHANGED <<cbw, h_cbw, h_got, pre_read>>
    BY <1>7 DEF rkusb_handle_datarx, RxReady, hostv, upv
  <2>2. status' # "TXDATA_PREPARE"
    BY <1>7, <2>1 DEF rkusb_handle_datarx, rkusb_send_csw
  <2>3. cbw.cmnd \notin ReadCmds
    BY <2>1 DEF RangeInv, Preparing, Counted, WriteCmds, ReadCmds
  <2> QED
    BY <2>1, <2>2, <2>3, ReadOther
<1>8. CASE SendCsw
  <2>1. UNCHANGED <<media, cbw, h_cbw, h_got, pre_read, lba, u_bytes>>
    BY <1>8 DEF SendCsw, cmdv, hostv, xfer, upv
  <2>2. CASE status = "CSW" /\ CanSend
    <3>1. /\ tx_buffer' = [tx_buffer EXCEPT ![txbuf_num] =
                             [kind |-> "csw", tag |-> cbw.tag, st |-> csw_st, blocks |-> <<>>]]
          /\ rkusb_write_bulk_ep(1) /\ status' = "IDLE"
      BY <1>8, <2>2 DEF SendCsw, rkusb_send_csw
    <3>2. configured /\ in_reqs = <<>>
      BY <2>2, NothingSent DEF CanSend, Inv, RxInv, Enumeration
    <3>3. Head(in_reqs').buf = txbuf_num
      BY <3>1, <3>2, Queued DEF Inv
    <3>4. tx_buffer'[txbuf_num].kind = "csw"
      BY <3>1 DEF Inv, TypeInv, TypeOK, BufferTypes
    <3>5. OnTheWay'
      BY <3>3, <3>4 DEF OnTheWay
    <3>6. Got'
      BY <2>1 DEF ReadInv, Got, Reads, InRange, Asked, Space
    <3>7. Fetched'
      BY <1>1, <2>1, <2>2, <3>1 DEF Fetched
    <3> QED
      BY <3>5, <3>6, <3>7 DEF ReadInv
  <2>3. CASE ~(status = "CSW" /\ CanSend)
    <3>1. UNCHANGED <<tx_buffer, in_reqs, txbuf_num, status>>
      BY <1>8, <2>3 DEF SendCsw, rkusb_send_csw, txside
    <3> QED
      BY <2>1, <3>1, ReadSame
  <2> QED
    BY <2>2, <2>3
<1> QED
  BY <1>2, <1>3, <1>4, <1>5, <1>6, <1>7, <1>8, ReadCommand, ReadDatatx DEF Device

LEMMA ReadHost ==
  ASSUME NoAborts, Inv, StageInv, ReadInv, HostStep \/ BusFault, Formatting'
  PROVE  ReadInv'
<1>1. UNCHANGED <<media, cbw, tx_buffer, pre_read, txbuf_num, status, lba, u_bytes>>
  BY DEF HostStep, Enumerate, HostSendCbw, HostDataOut, HostIn, BusFault, TransferError, Abort, devv,
     cmdv, xfer, upv
<1>2. ASSUME NEW c \in Cmds, HostSendCbw(c) PROVE ReadInv'
  <2>1. h_phase = "ready" /\ OnBus /\ h_got' = <<>> /\ UNCHANGED in_reqs
    BY <1>2 DEF HostSendCbw
  <2>2. Len(h_got') = 0
    BY <2>1
  <2>3. configured /\ ~Aborted
    BY <2>1 DEF Inv, RxInv, Enumeration, Aborted, OnBus, ControlEvents, AbortEvents
  <2>4. in_reqs = <<>>
    BY <2>1, <2>3 DEF Inv, LinkInv, HostReady
  <2>5. Got' /\ OnTheWay'
    BY <2>1, <2>2, <2>4 DEF Got, OnTheWay
  <2>6. Fetched'
    BY <1>1 DEF ReadInv, Fetched, Space
  <2> QED
    BY <2>5, <2>6 DEF ReadInv
<1>3. CASE HostIn
  <2> DEFINE r == Head(in_reqs)
             t == tx_buffer[r.buf]
  <2>1. /\ cbw = h_cbw /\ in_reqs' = <<>> /\ h_cbw' = h_cbw /\ in_reqs # <<>>
        /\ \/ h_got' = h_got
           \/ t.kind # "csw" /\ h_got' = h_got \o Received(r, t) /\ Len(h_got') = Len(h_got) + r.len
    <3>1. h_cbw' = h_cbw /\ in_reqs # <<>>
      BY <1>3 DEF HostIn
    <3> QED
      BY <1>3, <3>1, HostInCases
  <2>2. CASE h_got' = h_got
    BY <1>1, <2>1, <2>2, ReadSame
  <2>3. CASE t.kind # "csw" /\ h_got' = h_got \o Received(r, t) /\ Len(h_got') = Len(h_got) + r.len
    <3>1. /\ r.len \in Nat
          /\ \A i \in 1..Len(h_got) : h_got'[i] = h_got[i]
          /\ \A i \in 1..r.len : h_got'[Len(h_got) + i] = BlockAt(t.blocks, i)
      BY <2>1, <2>3, ReceivedBlocks DEF Inv
    <3>2. OnTheWay'
      BY <2>1 DEF OnTheWay
    <3>3. Fetched'
      BY <1>1 DEF ReadInv, Fetched, Space
    <3>4. Got'
      <4> SUFFICES ASSUME Reads(h_cbw)', NEW i \in 1..Len(h_got')
                   PROVE  h_got'[i] = Asked(h_cbw, i)
        BY <1>1, <2>1 DEF Got, Asked, Space
      <4>1. Reads(h_cbw) /\ Reads(cbw)
        BY <2>1 DEF Reads, InRange
      <4>2. CASE i \in 1..Len(h_got)
        BY <3>1, <4>1, <4>2 DEF ReadInv, Got
      <4>3. CASE i \notin 1..Len(h_got)
        <5> DEFINE j == i - Len(h_got)
        <5>1. j \in 1..r.len /\ Len(h_got) + j = i
          BY <2>3, <3>1, <4>3, StageNumbers DEF Inv
        <5>2. h_got'[Len(h_got) + j] = BlockAt(t.blocks, j)
          BY <3>1, <5>1
        <5>3. BlockAt(t.blocks, j) = Asked(cbw, Len(h_got) + j)
          BY <2>1, <2>3, <4>1, <5>1 DEF ReadInv, OnTheWay
        <5> QED
          BY <2>1, <5>1, <5>2, <5>3
      <4> QED
        BY <4>2, <4>3
    <3> QED
      BY <3>2, <3>3, <3>4 DEF ReadInv
  <2> QED
    BY <2>1, <2>2, <2>3
<1>4. CASE Enumerate \/ HostDataOut \/ BusFault
  <2>1. /\ UNCHANGED <<h_cbw, h_got>>
        /\ in_reqs' = in_reqs \/ (in_reqs # <<>> /\ in_reqs' = Tail(in_reqs))
    BY <1>4 DEF Enumerate, HostDataOut, BusFault, TransferError, Abort, hostv
  <2>2. in_reqs # <<>> => Tail(in_reqs) = <<>>
    BY NoSecondRequest DEF Inv, LinkInv, OneSend, TypeInv, TypeOK, ChannelTypes
  <2> QED
    BY <1>1, <2>1, <2>2, ReadSame
<1> QED
  BY <1>2, <1>3, <1>4 DEF HostStep

LEMMA StepRead ==
  ASSUME NoAborts, ~StorageFails, Inv, RangeInv, StageInv, ReadInv, [Next]_vars
  PROVE  ReadInv'
<1>1. Formatting'
  BY StepFormat
<1>2. CASE UNCHANGED vars
  <2>1. UNCHANGED <<media, cbw, h_cbw, h_got, tx_buffer, pre_read, in_reqs, txbuf_num, status, lba, u_bytes>>
    BY <1>2 DEF vars, cmdv, hostv, xfer, upv, txside
  <2> QED
    BY <1>1, <2>1, ReadSame
<1> QED
  BY <1>1, <1>2, ReadDevice, ReadHost DEF Next

\* As long as the host gives no command up, the storage does not fail and no
\* command's addresses pass the end of uint32_t, a read command delivers, block
\* by block, what the media holds at the addresses asked for, and a good CSW
\* means that it delivered all of them: for every size of the buffers, every
\* length, and whatever other commands came before, the double buffering and
\* the prefetch of rkusb_handle_datatx never send the wrong block.
THEOREM ReadsExact == NoAborts /\ AddressesFit /\ ~StorageFails => (Spec => []ReadReturnsMedia)
<1> SUFFICES ASSUME NoAborts, AddressesFit, ~StorageFails PROVE Spec => []ReadReturnsMedia
  OBVIOUS
<1> DEFINE All == Inv /\ RangeInv /\ StageInv /\ ReadInv
<1>1. ClearsBoth
  BY DEF NoAborts, ClearsBoth, AbortEvents
<1>2. Init => All
  BY InitInv, InitRange, InitStage, InitRead
<1>3. All /\ [Next]_vars => All'
  BY <1>1, StepInv, StepRange, StepStage, StepRead
<1>4. All => ReadReturnsMedia
  <2> SUFFICES ASSUME All, h_cbw.cmnd \in ReadCmds, InRange(h_cbw)
               PROVE  /\ \A i \in DOMAIN h_got : h_got[i] = media[Space(h_cbw.cmnd)][h_cbw.lba + i - 1]
                      /\ Answered(h_cbw) => Len(h_got) = h_cbw.n
    BY DEF ReadReturnsMedia
  <2>1. DOMAIN h_got = 1..Len(h_got)
    BY StageNumbers DEF Inv
  <2>2. \A i \in DOMAIN h_got : h_got[i] = media[Space(h_cbw.cmnd)][h_cbw.lba + i - 1]
    BY <2>1 DEF ReadInv, Got, Reads, Asked
  <2>3. Expected(h_cbw) = h_cbw.n
    BY DEF Expected, ReadCmds, InfoCmds
  <2>4. Answered(h_cbw) => Len(h_got) = h_cbw.n
    BY <2>3, StageNumbers DEF Answered, Inv, StageInv, HostStage
  <2> QED
    BY <2>2, <2>4
<1> HIDE DEF All
<1> QED
  BY <1>2, <1>3, <1>4, PTL DEF Spec

-----------------------------------------------------------------------------
(* What a write command leaves on the media.                                *)

\* Everything the host sent and the driver has not counted lies in the buffer
\* that was received last.
Arrived(b, k) ==
  /\ h_sent = d_bytes + k /\ rx_buffer[b].kind = "data"
  /\ \A i \in 1..k : BlockAt(rx_buffer[b].blocks, i) = <<h_cbw.tag, d_bytes + i>>
Arriving ==
  /\ cbw # h_cbw \/ status = "RXDATA_PREPARE" => h_sent = 0
  /\ status = "RXDATA" =>
       /\ out_reqs # <<>> => h_sent = d_bytes
       /\ rx_giveback.status = "OK" => Arrived(rx_giveback.buf, rx_giveback.actual)
       /\ \A i \in DOMAIN events : events[i].type = "rx" => Arrived(events[i].buf, events[i].n)

\* The blocks that were counted are on the media, but for the ones that
\* rkusb_handle_datarx is about to store.
Stored == d_bytes - Pending
OnMedia ==
  /\ status = "RXDATA" \/ pc = "media" => lba = cbw.lba + Stored
  /\ \A i \in 1..Stored : Asked(cbw, i) = <<cbw.tag, i>>
InHand ==
  pc = "media" =>
    /\ wr.blocks > 0 /\ wr.blocks <= d_bytes
    /\ \A i \in 1..wr.blocks : BlockAt(rx_buffer[wr.buf].blocks, i) = <<cbw.tag, Stored + i>>
Stores ==
  cbw.cmnd \in WriteCmds =>
    /\ status \in {"IDLE", "RXDATA", "RXDATA_PREPARE"}
    /\ status = "IDLE" => d_bytes = cbw.n
    /\ InHand
    /\ ~locked /\ InRange(cbw) /\ status # "RXDATA_PREPARE" => OnMedia

\* A host that waits for nothing has seen the driver take its last command.
AtRest == h_phase \in {"detached", "addressed", "ready"} => cbw = h_cbw

WriteInv == Arriving /\ Stores /\ AtRest

LEMMA InitWrite == Init => WriteInv
<1> SUFFICES ASSUME Init PROVE WriteInv
  OBVIOUS
<1>1. cbw = h_cbw /\ cbw.cmnd = "UNKNOWN" /\ status = "IDLE"
  BY DEF Init, NoCbw
<1> QED
  BY <1>1 DEF WriteInv, Arriving, Stores, AtRest, WriteCmds

\* Nothing arrives.
LEMMA ArrivingSame ==
  ASSUME WriteInv, UNCHANGED <<cbw, h_cbw, h_sent>>,
         \/ status' \notin {"RXDATA", "RXDATA_PREPARE"}
         \/ /\ UNCHANGED <<status, d_bytes, rx_buffer, rx_giveback>>
            /\ out_reqs' = out_reqs \/ out_reqs' = <<>>
            /\ \A i \in DOMAIN events' : events'[i].type = "rx" =>
                 \E j \in DOMAIN events : events'[i] = events[j]
  PROVE  Arriving'
<1>1. CASE status' \notin {"RXDATA", "RXDATA_PREPARE"}
  BY <1>1 DEF WriteInv, Arriving
<1>2. CASE /\ UNCHANGED <<status, d_bytes, rx_buffer, rx_giveback>>
           /\ out_reqs' = out_reqs \/ out_reqs' = <<>>
           /\ \A i \in DOMAIN events' : events'[i].type = "rx" =>
                \E j \in DOMAIN events : events'[i] = events[j]
  <2>1. \A b, k : Arrived(b, k) => Arrived(b, k)'
    BY <1>2 DEF Arrived
  <2>2. status' = "RXDATA" /\ rx_giveback'.status = "OK" => Arrived(rx_giveback.buf, rx_giveback.actual)'
    BY <1>2, <2>1 DEF WriteInv, Arriving
  <2>3. ASSUME status' = "RXDATA", NEW i \in DOMAIN events', events'[i].type = "rx"
        PROVE  Arrived(events[i].buf, events[i].n)'
    <3>1. PICK j \in DOMAIN events : events'[i] = events[j]
      BY <1>2, <2>3
    <3>2. Arrived(events[j].buf, events[j].n)
      BY <1>2, <2>3, <3>1 DEF WriteInv, Arriving
    <3>3. Arrived(events[j].buf, events[j].n) => Arrived(events[i].buf, events[i].n)'
      BY <1>2, <3>1 DEF Arrived
    <3> QED
      BY <3>2, <3>3
  <2> QED
    BY <1>2, <2>2, <2>3 DEF WriteInv, Arriving
<1> QED
  BY <1>1, <1>2

\* Nothing is stored.
LEMMA StoresSame ==
  ASSUME WriteInv, UNCHANGED <<cbw, status, d_bytes, media, lba>>, ~locked' => ~locked,
         \/ pc # "media" /\ pc' # "media"
         \/ UNCHANGED <<pc, wr>> /\ rx_buffer'[wr.buf] = rx_buffer[wr.buf]
  PROVE  Stores'
<1>1. InRange(cbw)' = InRange(cbw)
  BY DEF InRange
<1>2. Stored' = Stored /\ (pc' = "media" <=> pc = "media")
  BY DEF Stored, Pending
<1>3. InHand => InHand'
  BY <1>2 DEF InHand
<1>4. OnMedia => OnMedia'
  BY <1>2 DEF OnMedia, Asked, Space
<1> QED
  BY <1>1, <1>3, <1>4 DEF WriteInv, Stores

\* The steps of the loop that leave the received data alone.
LEMMA WriteLoop ==
  ASSUME Inv, StageInv, ReadInv, WriteInv,
         \/ Connect \/ EndInterrupt \/ NoCommand \/ NoResponse \/ Reboot \/ NextRound
         \/ UNCHANGED vars
  PROVE  WriteInv'
<1>1. UNCHANGED <<cbw, h_cbw, h_sent, h_phase, status, d_bytes, rx_buffer, rx_giveback, out_reqs, events, lba, wr>>
  BY DEF Connect, EndInterrupt, NoCommand, NoResponse, Reboot, NextRound, cmdv, hostv, xfer, rxside, vars
<1>2. Arriving' /\ AtRest'
  <2>1. Arriving'
    BY <1>1, ArrivingSame
  <2> QED
    BY <1>1, <2>1 DEF WriteInv, AtRest
<1>3. Stores'
  <2>1. CASE ~NextRound
    <3>1. UNCHANGED <<media, locked>> /\ ((pc # "media" /\ pc' # "media") \/ pc' = pc)
      BY <2>1 DEF Connect, EndInterrupt, NoCommand, NoResponse, Reboot, boot, vars
    <3> QED
      BY <1>1, <3>1, StoresSame DEF WriteInv
  <2>2. CASE NextRound /\ lowformat
    <3>1. cbw.cmnd \notin WriteCmds
      BY <2>2 DEF ReadInv, Formatting
    <3> QED
      BY <1>1, <3>1 DEF Stores
  <2>3. CASE NextRound /\ ~lowformat
    <3>1. media' = media /\ (~locked' => ~locked) /\ pc # "media" /\ pc' # "media"
      BY <2>3 DEF NextRound
    <3> QED
      BY <1>1, <3>1, StoresSame DEF WriteInv
  <2> QED
    BY <2>1, <2>2, <2>3
<1> QED
  BY <1>2, <1>3 DEF WriteInv

LEMMA WriteCommand ==
  ASSUME Inv, StageInv, WriteInv, do_rockusb_cmd
  PROVE  WriteInv'
<1>1. cbw' = h_cbw /\ cbw # h_cbw /\ UNCHANGED <<h_cbw, h_sent, h_phase>>
  BY CommandServed DEF do_rockusb_cmd, hostv
<1> DEFINE c == cbw'
<1>2. \/ FW_TestUnitReady(c) \/ FW_Info(c) \/ FW_Read(c) \/ FW_Write(c)
      \/ FW_Erase(c) \/ FW_Simple(c) \/ FW_Unknown(c)
  BY DEF do_rockusb_cmd
<1> HIDE DEF c
<1>3. /\ status' \notin {"IDLE", "RXDATA"}
      /\ c.cmnd \in WriteCmds => status' = "RXDATA_PREPARE"
  BY <1>2 DEF FW_TestUnitReady, FW_Info, FW_Read, FW_Write, FW_Erase, FW_Simple, FW_Unknown, InfoCmds,
     ReadCmds, WriteCmds, EraseCmds
<1>4. Arriving'
  BY <1>1, <1>3 DEF WriteInv, Arriving
<1>5. Stores'
  <2>1. pc' # "media"
    BY DEF do_rockusb_cmd
  <2> QED
    BY <1>3, <2>1 DEF Stores, InHand, c
<1> QED
  BY <1>1, <1>4, <1>5 DEF WriteInv, AtRest

\* The steps of commands that are no writes.
LEMMA WriteOther ==
  ASSUME Inv, StageInv, WriteInv, HandleTxData \/ rkusb_handle_datatx \/ SendCsw
  PROVE  WriteInv'
<1>1. UNCHANGED <<cbw, h_cbw, h_sent, h_phase, d_bytes, rx_buffer, events, lba>> \/ status = "TXDATA_PREPARE"
  BY DEF HandleTxData, SendCsw, rkusb_handle_datatx, TxReady, cmdv, hostv, xfer
<1>2. UNCHANGED <<cbw, h_cbw, h_sent, h_phase>>
  BY DEF HandleTxData, SendCsw, rkusb_handle_datatx, cmdv, hostv
<1>3. AtRest'
  BY <1>2 DEF WriteInv, AtRest
<1>4. CASE status \in {"TXDATA", "TXDATA_PREPARE", "CSW"}
  <2>1. cbw.cmnd \notin WriteCmds
    BY <1>4 DEF WriteInv, Stores
  <2>2. status' \in {"TXDATA", "TXDATA_PREPARE", "CSW", "IDLE"}
    BY <1>4 DEF HandleTxData, SendCsw, rkusb_handle_datatx, rkusb_send_csw
  <2>3. Arriving'
    BY <1>2, <2>2, ArrivingSame
  <2> QED
    BY <1>2, <1>3, <2>1, <2>3 DEF WriteInv, Stores
<1>5. CASE status \notin {"TXDATA", "TXDATA_PREPARE", "CSW"}
  <2>1. SendCsw
    BY <1>5 DEF HandleTxData, rkusb_handle_datatx, TxReady
  <2>2. UNCHANGED <<status, rx_giveback, out_reqs, events, rx_buffer, d_bytes, lba, media, locked>>
    BY <1>5, <2>1 DEF SendCsw, rxside, xfer, boot
  <2>3. pc # "media" /\ pc' # "media"
    BY <2>1 DEF SendCsw
  <2>4. Arriving' /\ Stores'
    BY <1>2, <2>2, <2>3, ArrivingSame, StoresSame
  <2> QED
    BY <1>3, <2>4 DEF WriteInv
<1> QED
  BY <1>4, <1>5

LEMMA WriteEvent ==
  ASSUME Inv, StageInv, WriteInv, HandleEvent
  PROVE  WriteInv'
<1> DEFINE e == Head(events)
<1>1. /\ events # <<>> /\ events' = Tail(events) /\ pc # "media" /\ pc' # "media"
      /\ UNCHANGED <<cbw, h_cbw, h_sent, h_phase, d_bytes, rx_buffer, lba, media, locked>>
  BY DEF HandleEvent, cmdv, hostv, xfer, boot
<1>2. /\ e = events[1] /\ 1 \in DOMAIN events
      /\ \A i \in DOMAIN events' : i + 1 \in DOMAIN events /\ events'[i] = events[i + 1]
  BY <1>1, TakenEvent DEF Inv
<1>3. dwc3_rx_handler(e) \/ dwc3_tx_handler(e) \/ rkusb_event_handler_for_dwc3(e)
  BY DEF HandleEvent
<1> HIDE DEF e
<1>4. \A i \in DOMAIN events' : \E j \in DOMAIN events : events'[i] = events[j]
  BY <1>2
<1>5. AtRest'
  BY <1>1 DEF WriteInv, AtRest
<1>6. status' = status
  <2>1. CASE rkusb_event_handler_for_dwc3(e)
    <3>1. e.type \in {"address", "configured"}
      BY <1>2, <2>1 DEF StageInv, NoAbort, rkusb_event_handler_for_dwc3, ControlEvents
    <3>2. status = "IDLE"
      BY <1>2, <3>1 DEF Inv, RxInv, Enumeration
    <3> QED
      BY <2>1, <3>1, <3>2 DEF rkusb_event_handler_for_dwc3, StatusAfter
  <2> QED
    BY <1>3, <2>1 DEF dwc3_rx_handler, dwc3_tx_handler
<1>7. Stores'
  BY <1>1, <1>6, StoresSame
<1>8. Arriving'
  <2>1. CASE status \notin {"RXDATA", "RXDATA_PREPARE"}
    BY <1>1, <1>6, <2>1, ArrivingSame
  <2>2. CASE dwc3_tx_handler(e)
    <3>1. UNCHANGED <<rx_giveback, out_reqs>>
      BY <2>2 DEF dwc3_tx_handler, rxside
    <3> QED
      BY <1>1, <1>4, <1>6, <3>1, ArrivingSame
  <2>3. CASE rkusb_event_handler_for_dwc3(e)
    <3>1. e.type \in {"address", "configured"}
      BY <1>2, <2>3 DEF StageInv, NoAbort, rkusb_event_handler_for_dwc3, ControlEvents
    <3>2. status = "IDLE"
      BY <1>2, <3>1 DEF Inv, RxInv, Enumeration
    <3> QED
      BY <2>1, <3>2
  <2>4. CASE dwc3_rx_handler(e) /\ status \in {"RXDATA", "RXDATA_PREPARE"}
    <3>1. out_reqs' = out_reqs /\ e.type \in {"rx", "rx_err"}
      BY <2>4 DEF dwc3_rx_handler
    <3>2. \A b, k : Arrived(b, k) => Arrived(b, k)'
      BY <1>1 DEF Arrived
    <3>3. ASSUME status = "RXDATA", rx_giveback'.status = "OK"
          PROVE  Arrived(rx_giveback.buf, rx_giveback.actual)'
      <4>1. e.type = "rx" /\ rx_giveback'.actual = e.n /\ rx_giveback'.buf = e.buf
        BY <2>4, <3>1, <3>3 DEF dwc3_rx_handler, Inv, TypeInv, TypeOK, ChannelTypes
      <4>2. Arrived(e.buf, e.n)
        BY <1>2, <3>3, <4>1 DEF WriteInv, Arriving
      <4> QED
        BY <1>1, <4>1, <4>2 DEF Arrived
    <3>4. ASSUME NEW i \in DOMAIN events'
          PROVE  events'[i].type # "rx"
      <4>1. IsRx(events[1]) /\ i + 1 \in DOMAIN events /\ i + 1 # 1
        BY <1>1, <1>2, <3>1, TakenEvent DEF IsRx, Inv
      <4>2. ~IsRx(events[i + 1])
        BY <1>2, <4>1 DEF Inv, RxInv, OneReceive
      <4> QED
        BY <1>2, <4>2 DEF IsRx
    <3> QED
      BY <1>1, <1>6, <3>1, <3>3, <3>4 DEF WriteInv, Arriving
  <2> QED
    BY <1>3, <2>1, <2>2, <2>3, <2>4
<1> QED
  BY <1>5, <1>7, <1>8 DEF WriteInv

\* rkusb_handle_datarx counts what has arrived, and hands it to MediaWrite.
LEMMA WriteDatarx ==
  ASSUME Inv, RangeInv, StageInv, WriteInv, rkusb_handle_datarx
  PROVE  WriteInv'
<1> DEFINE n    == rx_giveback.actual
           data == n > 0 /\ rx_buffer[rx_giveback.buf].kind = "data"
<1>1. /\ pc = "response"
      /\ UNCHANGED <<cbw, h_cbw, h_sent, h_phase, d_size, lba, rx_buffer, events, media, locked>>
      /\ d_bytes' = Add(d_bytes, n) /\ pc' = IF data THEN "media" ELSE "csw"
      /\ data => wr' = [buf |-> rx_giveback.buf, blocks |-> n]
      /\ status = "RXDATA_PREPARE" \/ (status = "RXDATA" /\ rx_giveback.status = "OK")
  BY DEF rkusb_handle_datarx, RxReady, hostv, boot
<1>2. rx_giveback.status # "READY" /\ tx_status = "OK" /\ configured
  BY DEF Inv, RxInv, Waiting, Enumeration, LinkInv, TxFree, rkusb_handle_datarx, RxReady
<1>3. \A i \in DOMAIN events : events[i].type # "rx"
  BY <1>2, NothingReceived DEF Inv
<1>4. /\ d_bytes \in Nat /\ n \in Nat /\ d_size \in Nat /\ cbw.lba \in Nat /\ lba \in Nat
      /\ cbw.n \in Nat /\ Pending = 0 /\ Stored = d_bytes
  BY <1>1, RangeNumbers DEF Inv, Pending, Stored
<1>5. /\ cbw = h_cbw /\ cbw.cmnd \in WriteCmds /\ d_size = cbw.n /\ h_sent = d_bytes + n
      /\ d_bytes + n <= d_size
      /\ n > 0 => status = "RXDATA" /\ Arrived(rx_giveback.buf, n)
  <2>1. cbw = h_cbw
    BY <1>1 DEF StageInv, Serving
  <2>2. CASE status = "RXDATA_PREPARE"
    <3>1. h_sent = 0 /\ d_bytes = 0 /\ n = 0 /\ cbw.cmnd \in WriteCmds /\ d_size = cbw.n
      BY <2>2 DEF WriteInv, Arriving, RangeInv, Preparing
    <3> QED
      BY <1>4, <2>1, <3>1
  <2>3. CASE status = "RXDATA"
    <3>1. Arrived(rx_giveback.buf, n) /\ h_sent = d_bytes + n
      BY <1>1, <2>3 DEF WriteInv, Arriving, Arrived
    <3>2. cbw.cmnd \in WriteCmds /\ d_size = cbw.n /\ d_bytes + n <= d_size
      BY <2>3 DEF RangeInv, Counted
    <3> QED
      BY <2>1, <2>3, <3>1, <3>2
  <2> QED
    BY <1>1, <2>2, <2>3
<1>6. data <=> n > 0
  BY <1>5 DEF Arrived
<1>7. d_bytes' = d_bytes + n
  <2>1. d_bytes + n < Word /\ d_bytes + n \in Nat
    BY <1>4, <1>5, RangeNumbers DEF Inv, RangeInv, CbwsFit, Fits
  <2> QED
    BY <1>1, <2>1, RangeNumbers DEF Add, Inv
<1>8. Pending' = n /\ Stored' = d_bytes
  <2>1. CASE n > 0
    <3>1. pc' = "media" /\ wr'.blocks = n
      BY <1>1, <1>6, <2>1
    <3> QED
      BY <1>4, <1>7, <3>1 DEF Pending, Stored
  <2>2. CASE ~(n > 0)
    <3>1. pc' # "media" /\ n = 0
      BY <1>1, <1>4, <1>6, <2>2
    <3> QED
      BY <1>4, <1>7, <3>1 DEF Pending, Stored
  <2> QED
    BY <2>1, <2>2
<1>9. InHand'
  <2> SUFFICES ASSUME pc' = "media"
               PROVE  /\ wr'.blocks > 0 /\ wr'.blocks <= d_bytes'
                      /\ \A i \in 1..wr'.blocks :
                           BlockAt(rx_buffer'[wr'.buf].blocks, i) = <<cbw'.tag, Stored' + i>>
    BY DEF InHand
  <2>1. n > 0 /\ wr'.buf = rx_giveback.buf /\ wr'.blocks = n
    BY <1>1, <1>6
  <2>2. \A i \in 1..n : BlockAt(rx_buffer[rx_giveback.buf].blocks, i) = <<h_cbw.tag, d_bytes + i>>
    BY <1>5, <2>1 DEF Arrived
  <2> QED
    BY <1>1, <1>4, <1>5, <1>7, <1>8, <2>1, <2>2
<1>10. ASSUME ~locked, InRange(cbw) PROVE OnMedia'
  <2>1. CASE status = "RXDATA_PREPARE"
    <3>1. lba = cbw.lba /\ d_bytes = 0
      BY <2>1 DEF RangeInv, Preparing
    <3>2. lba' = cbw'.lba + Stored' /\ 1..Stored' = {}
      BY <1>1, <1>4, <1>8, <3>1
    <3> QED
      BY <3>2 DEF OnMedia
  <2>2. CASE status = "RXDATA"
    <3>1. OnMedia
      BY <1>5, <1>10, <2>2 DEF WriteInv, Stores
    <3> QED
      BY <1>1, <1>4, <1>8, <2>2, <3>1 DEF OnMedia, Asked, Space
  <2> QED
    BY <1>1, <2>1, <2>2
<1>11. InRange(cbw)' = InRange(cbw)
  BY <1>1 DEF InRange
<1>12. AtRest'
  BY <1>1 DEF WriteInv, AtRest
<1>13. CASE Add(d_bytes, n) < d_size
  <2>1. status' = "RXDATA" /\ rx_giveback'.status = "READY"
    BY <1>13 DEF rkusb_handle_datarx, rkusb_read_bulk_ep
  <2>2. Arriving'
    BY <1>1, <1>3, <1>5, <1>7, <2>1 DEF Arriving
  <2>3. Stores'
    BY <1>1, <1>9, <1>10, <1>11, <2>1 DEF Stores
  <2> QED
    BY <1>12, <2>2, <2>3 DEF WriteInv
<1>14. CASE ~(Add(d_bytes, n) < d_size)
  <2>1. status' = "IDLE"
    BY <1>2, <1>14 DEF rkusb_handle_datarx, rkusb_send_csw, CanSend
  <2>2. Arriving'
    BY <1>1, <1>5, <2>1 DEF Arriving
  <2>3. d_bytes' = cbw'.n
    BY <1>1, <1>4, <1>5, <1>7, <1>14
  <2>4. Stores'
    BY <1>1, <1>9, <1>10, <1>11, <2>1, <2>3 DEF Stores
  <2> QED
    BY <1>12, <2>2, <2>4 DEF WriteInv
<1> QED
  BY <1>13, <1>14

\* What MediaWrite does for a command whose addresses the storage has.
LEMMA StoredAt ==
  ASSUME ~StorageFails, Inv, RangeInv, WriteInv, MediaWrite, InRange(cbw)
  PROVE  /\ locked' = locked
         /\ ~locked => /\ media' = StorageWrite(Space(cbw.cmnd), lba, wr.blocks, rx_buffer[wr.buf].blocks)
                       /\ lba' = lba + wr.blocks
<1>1. /\ pc = "media" /\ cbw.cmnd \in WriteCmds /\ cbw.lba <= lba /\ lba + wr.blocks <= cbw.lba + cbw.n
  BY DEF MediaWrite, RangeInv, Storing
<1>2. wr.blocks > 0 /\ NextLba = lba + wr.blocks
  BY <1>1, NextAddress DEF WriteInv, Stores, InHand
<1>3. lba \in Lbas
  <2> DEFINE i == lba - cbw.lba + 1
  <2>1. i \in 1..cbw.n /\ cbw.lba + i - 1 = lba
    BY <1>1, <1>2, RangeNumbers DEF Inv
  <2> QED
    BY <2>1 DEF InRange
<1>4. ~(lba >= VendorSysLba \/ lba \in VendorLbas) /\ lba # UnlockLba
  BY <1>3, ConstantsAssumption
<1>5. Failing = {FALSE}
  BY DEF Failing
<1>6. CASE cbw.cmnd = "WRITE_10"
  <2>1. /\ UNCHANGED locked
        /\ ~locked => /\ media' = StorageWrite("PBA", lba, wr.blocks, rx_buffer[wr.buf].blocks)
                      /\ lba' = NextLba
    BY <1>5, <1>6 DEF MediaWrite, StoreData, WriteCmds
  <2>2. Space(cbw.cmnd) = "PBA"
    BY <1>6 DEF Space
  <2> QED
    BY <1>2, <2>1, <2>2
<1>7. CASE cbw.cmnd = "LBA_WRITE_10"
  <2>1. /\ UNCHANGED locked
        /\ ~locked => /\ media' = StorageWrite("LBA", lba, wr.blocks, rx_buffer[wr.buf].blocks)
                      /\ lba' = NextLba
    BY <1>4, <1>5, <1>7 DEF MediaWrite, StoreData, WriteCmds
  <2>2. Space(cbw.cmnd) = "LBA"
    BY <1>7 DEF Space, EraseCmds
  <2> QED
    BY <1>2, <2>1, <2>2
<1> QED
  BY <1>1, <1>6, <1>7 DEF WriteCmds

LEMMA WriteMedia ==
  ASSUME ~StorageFails, Inv, RangeInv, WriteInv, MediaWrite
  PROVE  WriteInv'
<1>1. /\ pc = "media" /\ pc' = "csw"
      /\ UNCHANGED <<cbw, h_cbw, h_sent, h_phase, status, d_bytes, rx_giveback, out_reqs, events, rx_buffer>>
  BY DEF MediaWrite, cmdv, hostv, rxside
<1>2. Arriving'
  BY <1>1, ArrivingSame
<1>3. AtRest'
  BY <1>1 DEF WriteInv, AtRest
<1>4. /\ cbw.cmnd \in WriteCmds /\ cbw.lba <= lba /\ lba + wr.blocks <= cbw.lba + cbw.n
      /\ InHand /\ status \in {"IDLE", "RXDATA"}
  BY <1>1 DEF RangeInv, Storing, WriteInv, Stores
<1>5. /\ cbw.lba \in Nat /\ cbw.n \in Nat /\ lba \in Nat /\ wr.blocks \in Nat /\ d_bytes \in Nat
      /\ wr.blocks > 0 /\ wr.blocks <= d_bytes
  BY <1>1, <1>4, RangeNumbers DEF Inv, InHand
<1>6. Stored = d_bytes - wr.blocks /\ Stored' = d_bytes /\ Stored \in Nat
  BY <1>1, <1>5 DEF Stored, Pending
<1>7. ASSUME ~locked', InRange(cbw) PROVE OnMedia'
  <2>1. /\ ~locked /\ lba' = lba + wr.blocks
        /\ media' = StorageWrite(Space(cbw.cmnd), lba, wr.blocks, rx_buffer[wr.buf].blocks)
    BY <1>7, StoredAt
  <2>2. lba = cbw.lba + Stored /\ \A i \in 1..Stored : Asked(cbw, i) = <<cbw.tag, i>>
    BY <1>1, <1>4, <1>7, <2>1 DEF WriteInv, Stores, OnMedia
  <2>3. lba' = cbw.lba + Stored'
    BY <1>5, <1>6, <2>1, <2>2
  <2>4. ASSUME NEW i \in 1..d_bytes PROVE Asked(cbw, i)' = <<cbw.tag, i>>
    <3> DEFINE x == cbw.lba + i - 1
    <3>1. i \in 1..cbw.n /\ i \in Nat
      BY <1>4, <1>5, <1>6, <2>2
    <3>2. x \in Lbas
      BY <1>7, <3>1 DEF InRange
    <3>3. Asked(cbw, i)' = IF x >= lba /\ x < lba + wr.blocks
                           THEN BlockAt(rx_buffer[wr.buf].blocks, x - lba + 1) ELSE Asked(cbw, i)
      <4>1. Space(cbw.cmnd) \in Spaces
        BY DEF Space, Spaces
      <4>2. media \in [Spaces -> [Lbas -> Val]]
        BY DEF Inv, TypeInv, TypeOK, BufferTypes
      <4> QED
        BY <1>1, <2>1, <3>2, <4>1, <4>2 DEF Asked, StorageWrite, Space
    <3>4. CASE i <= Stored
      <4>1. ~(x >= lba) /\ i \in 1..Stored
        BY <1>5, <1>6, <2>2, <3>1, <3>4
      <4> QED
        BY <2>2, <3>3, <4>1
    <3>5. CASE ~(i <= Stored)
      <4> DEFINE j == i - Stored
      <4>1. x >= lba /\ x < lba + wr.blocks /\ x - lba + 1 = j /\ j \in 1..wr.blocks /\ Stored + j = i
        <5>1. lba = cbw.lba + Stored /\ i > Stored /\ i <= Stored + wr.blocks
          BY <1>5, <1>6, <2>2, <3>1, <3>5
        <5>2. x >= lba /\ x < lba + wr.blocks /\ x - lba + 1 = i - Stored
          BY <1>5, <1>6, <3>1, <5>1
        <5>3. i - Stored \in 1..wr.blocks /\ Stored + (i - Stored) = i
          BY <1>5, <1>6, <3>1, <5>1
        <5> QED
          BY <5>2, <5>3
      <4>2. BlockAt(rx_buffer[wr.buf].blocks, j) = <<cbw.tag, Stored + j>>
        BY <1>1, <1>4, <4>1 DEF InHand
      <4> QED
        BY <3>3, <4>1, <4>2
    <3> QED
      BY <3>4, <3>5
  <2> QED
    BY <1>1, <1>6, <2>3, <2>4 DEF OnMedia
<1>8. InRange(cbw)' = InRange(cbw)
  BY <1>1 DEF InRange
<1>9. Stores'
  BY <1>1, <1>4, <1>7, <1>8 DEF WriteInv, Stores, InHand
<1> QED
  BY <1>2, <1>3, <1>9 DEF WriteInv

\* A step of the bus that brings no data.
LEMMA WriteBus ==
  ASSUME Inv, WriteInv, [Next]_vars, NEW e \in Event, e.type # "rx", events' = Append(events, e),
         UNCHANGED <<pc, wr, status, cbw, d_bytes, lba, media, locked, rx_giveback, rx_buffer, h_cbw, h_sent>>,
         out_reqs' = out_reqs \/ (out_reqs # <<>> /\ out_reqs' = Tail(out_reqs)),
         AtRest'
  PROVE  WriteInv'
<1>1. out_reqs' = out_reqs \/ out_reqs' = <<>>
  BY NoSecondRequest DEF Inv, RxInv, OneReceive, TypeInv, TypeOK, ChannelTypes
<1>2. \A i \in DOMAIN events' : events'[i].type = "rx" => \E j \in DOMAIN events : events'[i] = events[j]
  BY AppendedEvent DEF Inv
<1>3. Arriving'
  BY <1>1, <1>2, ArrivingSame
<1>4. Stores'
  BY StoresSame
<1> QED
  BY <1>3, <1>4 DEF WriteInv

LEMMA WriteHost ==
  ASSUME NoAborts, Inv, RangeInv, StageInv, WriteInv, HostStep \/ BusFault
  PROVE  WriteInv'
<1>1. UNCHANGED <<pc, wr, status, cbw, d_bytes, lba, media, locked, rx_giveback>>
  BY DEF HostStep, Enumerate, HostSendCbw, HostDataOut, HostIn, BusFault, TransferError, Abort, devv,
     cmdv, xfer, boot
<1>2. Stores'
  <2>1. pc = "media" => rx_buffer'[wr.buf] = rx_buffer[wr.buf]
    BY StoreUndisturbed DEF Next, Inv
  <2> QED
    BY <1>1, <2>1, StoresSame
<1>3. \A t \in EventTypes : Ev(t) \in Event /\ Ev(t).type = t
  BY DEF Event, Ev
<1>4. out_reqs # <<>> => Head(out_reqs) \in Req /\ Tail(out_reqs) = <<>>
  BY NoSecondRequest DEF Inv, RxInv, OneReceive, TypeInv, TypeOK, ChannelTypes
<1>5. ASSUME NEW c \in Cmds, HostSendCbw(c) PROVE WriteInv'
  <2>1. OnBus /\ h_phase = "ready" /\ h_sent' = 0 /\ h_phase' \in {"in", "out", "status"}
    BY <1>5 DEF HostSendCbw
  <2>2. status = "IDLE"
    BY <2>1 DEF Inv, RxInv, Enumeration, LinkInv, HostReady, Aborted, OnBus, ControlEvents, AbortEvents
  <2>3. Arriving' /\ AtRest'
    BY <1>1, <2>1, <2>2 DEF Arriving, AtRest
  <2> QED
    BY <1>2, <2>3 DEF WriteInv
<1>6. CASE HostDataOut
  <2>1. /\ out_reqs # <<>> /\ out_reqs' = Tail(out_reqs) /\ h_cbw' = h_cbw
        /\ h_phase' \in {"out", "status"}
    BY <1>6 DEF HostDataOut
  <2> DEFINE b == Head(out_reqs).buf
             blocks(k) == [i \in 1..k |-> <<h_cbw.tag, h_sent + i>>]
  <2>2. PICK k \in 1..Least(Head(out_reqs).len, h_cbw.n - h_sent) :
          /\ rx_buffer' = [rx_buffer EXCEPT ![b] =
               [kind |-> "data", cbw |-> NoCbw, blocks |-> blocks(k)]]
          /\ events' = Append(events, [type |-> "rx", n |-> k, buf |-> b])
          /\ h_sent' = h_sent + k
    BY <1>6 DEF HostDataOut
  <2> DEFINE e == [type |-> "rx", n |-> k, buf |-> b]
  <2>3. Head(out_reqs).len \in Nat /\ h_cbw.n - h_sent \in Int /\ b \in Bufs
    BY <1>4, <2>1 DEF Req, Inv, TypeInv, TypeOK, HostTypes, Cbw
  <2>4. k \in Nat /\ k > 0 /\ k <= Head(out_reqs).len
    BY <2>2, <2>3 DEF Least
  <2>5. e \in Event /\ e.n = k /\ e.buf = b /\ e.type = "rx"
    BY <2>3, <2>4 DEF Event, EventTypes
  <2>6. status = "RXDATA" /\ h_sent = d_bytes /\ cbw = h_cbw
    <3>1. status = "RXDATA"
      BY <2>1, <2>3, <2>4 DEF Inv, LinkInv, Fresh
    <3> QED
      BY <2>1, <3>1 DEF WriteInv, Arriving, StageInv, Serving
  <2>7. rx_buffer'[b].kind = "data" /\ rx_buffer'[b].blocks = blocks(k)
    BY <2>2, <2>3 DEF Inv, TypeInv, TypeOK, BufferTypes
  <2>8. \A i \in 1..k : BlockAt(blocks(k), i) = <<h_cbw.tag, d_bytes + i>>
    BY <2>6 DEF BlockAt
  <2>9. rx_giveback.status = "READY" /\ \A i \in DOMAIN events : events[i].type # "rx"
    BY <2>1 DEF Inv, RxInv, OneReceive, IsRx
  <2> HIDE DEF blocks, e, b
  <2>10. \A i \in DOMAIN events' : events'[i].type = "rx" => events'[i] = e
    BY <2>2, <2>5, <2>9, AppendedEvent DEF Inv, e
  <2>11. ASSUME NEW i \in DOMAIN events', events'[i].type = "rx"
         PROVE  Arrived(events[i].buf, events[i].n)'
    BY <1>1, <2>1, <2>2, <2>5, <2>6, <2>7, <2>8, <2>10, <2>11 DEF Arrived
  <2>12. Arriving'
    BY <1>1, <1>4, <2>1, <2>6, <2>9, <2>11 DEF Arriving
  <2>13. AtRest'
    BY <2>1 DEF AtRest
  <2> QED
    BY <1>2, <2>12, <2>13 DEF WriteInv
<1>7. CASE Enumerate \/ HostIn \/ BusFault
  <2>1. /\ UNCHANGED <<rx_buffer, h_cbw, h_sent>>
        /\ out_reqs' = out_reqs \/ (out_reqs # <<>> /\ out_reqs' = Tail(out_reqs))
        /\ \E t \in EventTypes : t # "rx" /\ events' = Append(events, Ev(t))
    BY <1>7 DEF Enumerate, HostIn, BusFault, TransferError, Abort, hostv, EventTypes, ControlEvents,
       AbortEvents, ErrorEvents
  <2>2. AtRest'
    <3>1. CASE HostIn
      BY <1>1, <2>1, <3>1, HostInCases DEF AtRest
    <3>2. CASE Enumerate
      BY <1>1, <2>1, <3>2 DEF Enumerate, WriteInv, AtRest
    <3>3. CASE BusFault
      <4>1. h_phase' = h_phase
        BY <3>3 DEF NoAborts, BusFault, Abort, TransferError, hostv
      <4> QED
        BY <1>1, <2>1, <4>1 DEF WriteInv, AtRest
    <3> QED
      BY <1>7, <3>1, <3>2, <3>3
  <2>3. PICK t \in EventTypes : t # "rx" /\ events' = Append(events, Ev(t))
    BY <2>1
  <2> QED
    BY <1>1, <1>3, <2>1, <2>2, <2>3, WriteBus DEF Next
<1> QED
  BY <1>5, <1>6, <1>7 DEF HostStep

LEMMA StepWrite ==
  ASSUME NoAborts, ~StorageFails, Inv, RangeInv, StageInv, ReadInv, WriteInv, [Next]_vars
  PROVE  WriteInv'
<1>1. CASE UNCHANGED vars
  BY <1>1, WriteLoop
<1>2. CASE Device
  BY <1>2, WriteLoop, WriteCommand, WriteOther, WriteEvent, WriteDatarx, WriteMedia DEF Device
<1> QED
  BY <1>1, <1>2, WriteHost DEF Next

\* Under the same conditions, whatever transfers fail, a write answered with a
\* good CSW is on the media once the loop is back at its top, every block at its
\* address, although rkusb_handle_datarx asks for the next data, or sends the
\* CSW, before it stores what it has: the double buffering loses, repeats and
\* misplaces no block, for every size of the buffers, every length, and every
\* way the host cuts its data into transfers.
THEOREM WritesStored == NoAborts /\ AddressesFit /\ ~StorageFails => (Spec => []WriteIsStored)
<1> SUFFICES ASSUME NoAborts, AddressesFit, ~StorageFails PROVE Spec => []WriteIsStored
  OBVIOUS
<1> DEFINE All == Inv /\ RangeInv /\ StageInv /\ ReadInv /\ WriteInv
<1>1. ClearsBoth
  BY DEF NoAborts, ClearsBoth, AbortEvents
<1>2. Init => All
  BY InitInv, InitRange, InitStage, InitRead, InitWrite
<1>3. All /\ [Next]_vars => All'
  BY <1>1, StepInv, StepRange, StepStage, StepRead, StepWrite
<1>4. All => WriteIsStored
  <2> SUFFICES ASSUME All, pc = "intr", h_phase = "ready", ~locked, h_cbw.cmnd \in WriteCmds,
                      InRange(h_cbw), NEW i \in 1..h_cbw.n
               PROVE  media[Space(h_cbw.cmnd)][h_cbw.lba + i - 1] = <<h_cbw.tag, i>>
    BY DEF WriteIsStored, Answered
  <2>1. cbw = h_cbw
    BY DEF WriteInv, AtRest
  <2>2. status = "IDLE"
    <3>1. ~Aborted
      BY DEF StageInv, NoAbort, Aborted, AbortEvents
    <3> QED
      BY <3>1 DEF Inv, RxInv, Enumeration, LinkInv, HostReady
  <2>3. d_bytes = cbw.n /\ OnMedia
    BY <2>1, <2>2 DEF WriteInv, Stores
  <2>4. Stored = cbw.n
    BY <2>3, RangeNumbers DEF Stored, Pending, Inv
  <2> QED
    BY <2>1, <2>3, <2>4 DEF OnMedia, Asked
<1> HIDE DEF All
<1> QED
  BY <1>2, <1>3, <1>4, PTL DEF Spec
=============================================================================
