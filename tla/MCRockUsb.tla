---------------------------- MODULE MCRockUsb ----------------------------
(***************************************************************************)
(* Instances of RockUsb for TLC.  Two blocks fit in a buffer and addresses *)
(* have six bits, so that the special addresses, a stage of several        *)
(* transfers and the end of the address range are all near.                *)
(***************************************************************************)
EXTENDS RockUsb

Req4(c, l, k, s) == [cmnd |-> c, lba |-> l, n |-> k, sub |-> s]

MCLbas       == 0..7
MCVendorLbas == 40..43

\* Reads and writes of one, two and several transfers, overlapping, at the
\* end of the media, and at the three special ranges of addresses.
DataCmds ==
  {Req4("LBA_READ_10", 1, 4, 0), Req4("LBA_READ_10", 3, 5, 0), Req4("READ_10", 1, 3, 0),
   Req4("LBA_WRITE_10", 2, 3, 0), Req4("LBA_WRITE_10", 1, 4, 0), Req4("WRITE_10", 2, 3, 0),
   Req4("LBA_WRITE_10", 0, 0, 0)}

\* Every command the switch of do_rockusb_cmd knows.
AllCmds ==
  {Req4("TEST_UNIT_READY", 0, 0, s) : s \in {0, 249, 250, 253}} \cup
  {Req4(c, 0, 0, 0) : c \in InfoCmds \cup {"ERASE_SYS_DISK", "LOW_FORMAT"}} \cup
  {Req4(c, 1, 2, 0) : c \in EraseCmds} \cup
  {Req4(c, 1, k, 0) : c \in ReadCmds \cup WriteCmds, k \in {1, 4}} \cup
  {Req4("LBA_WRITE_10", l, 3, 0) : l \in {48, 50, 40}} \cup
  {Req4("SET_RESET_FLAG", 0, 0, 0), Req4("RESET", 0, 0, 0), Req4("RESET", 0, 0, 3),
   Req4("RESET", 0, 0, 5)}

\* Commands enough to see what an abort leaves behind.
FaultCmds ==
  {Req4("LBA_READ_10", 0, 4, 0), Req4("LBA_READ_10", 2, 2, 0),
   Req4("LBA_WRITE_10", 1, 3, 0)}

\* The same, with a read that needs both buffers twice.
RecoverCmds ==
  {Req4("LBA_READ_10", 0, 5, 0), Req4("LBA_READ_10", 2, 2, 0),
   Req4("LBA_WRITE_10", 1, 3, 0)}

\* A write of two transfers, a read, and a command the switch does not know.
StrangeCmds ==
  {Req4("LBA_READ_10", 2, 2, 0), Req4("LBA_WRITE_10", 1, 3, 0), Req4("UNKNOWN", 0, 0, 0)}

NoFaults  == {}
OnlyReset == {"reset"}
AllFaults == AbortEvents \cup ErrorEvents
ClearBoth == {"clear_both"}

\* A smaller address space for the runs in which counters wrap around.
SmallLbas       == 0..3
SmallVendorLbas == {10, 11}
=============================================================================
