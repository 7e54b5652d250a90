------------------------------ MODULE PciScan -------------------------------
(***************************************************************************)
(* ScanAllBus and the register readers of arch/*/pci.cpp: a recursive walk *)
(* over buses, devices and functions that fills the table devices and ends *)
(* at the first error.  The three versions of the file differ in how a     *)
(* register is read, ReadReg; 0xffff for a vendor means nobody is there.   *)
(*                                                                         *)
(* A step of the walk takes the table and returns it with the error.  A    *)
(* function is <<bus, device, function>>.                                  *)
(***************************************************************************)
EXTENDS Integers, Sequences

CONSTANTS
  ReadReg(_, _, _, _),  \* bus, device, function, register
  TableSize             \* devices.size()

NoVendor == 65535

ReadVendorId(b, d, f)   == ReadReg(b, d, f, 0)
ReadClassCode(b, d, f)  == ReadReg(b, d, f, 8)
ReadHeaderType(b, d, f) == ReadReg(b, d, f, 12)
ReadBusNumbers(b, d, f) == ReadReg(b, d, f, 24)

IsSingleFunctionDevice(header_type) == (header_type \div 128) % 2 = 0

Bridge(class) == class[1] = 6 /\ class[2] = 4

WithError(value, error) == [value |-> value, error |-> error]

Tables == {t \in Seq((0..255) \X (0..31) \X (0..7)) : Len(t) <= TableSize}

AddDeviceBug(table, dev) ==   \* stores the entry before it looks for room
  WithError(Append(table, dev), IF Len(table) = TableSize THEN "kFull" ELSE "kSuccess")

AddDevice(table, dev) ==
  IF Len(table) = TableSize THEN WithError(table, "kFull")
  ELSE WithError(Append(table, dev), "kSuccess")

(* Where the walk is: at a function of a device of a bus, or past the last *)
Points == [table : Tables, bus : 0..255, device : 0..32, function : 0..8]

Point(table, b, d, f) == [table |-> table, bus |-> b, device |-> d, function |-> f]

(* A bridge leads to its secondary bus, where the walk goes on. *)
ScanFunction(Walk, table, b, d, f) ==
  LET s == AddDevice(table, <<b, d, f>>)
  IN  IF s.error = "kSuccess" /\ Bridge(ReadClassCode(b, d, f))
      THEN Walk[Point(s.value, (ReadBusNumbers(b, d, f) \div 256) % 256, 0, 0)]
      ELSE s

(* Nobody is there, or nobody besides function 0, or all were asked. *)
DeviceDone(b, d, f) ==
  \/ f = 0 /\ ReadVendorId(b, d, 0) = NoVendor
  \/ f = 1 /\ IsSingleFunctionDevice(ReadHeaderType(b, d, 0))
  \/ f = 8

(* The loops of ScanBus and ScanDevice, from a point on *)
ScanStep(Walk, p) ==
  LET b == p.bus  d == p.device  f == p.function
      s == ScanFunction(Walk, p.table, b, d, f)
  IN  CASE d = 32 -> WithError(p.table, "kSuccess")
        [] d < 32 /\ DeviceDone(b, d, f) -> Walk[Point(p.table, b, d + 1, 0)]
        [] d < 32 /\ ~DeviceDone(b, d, f) /\ ReadVendorId(b, d, f) = NoVendor ->
             Walk[Point(p.table, b, d, f + 1)]
        [] d < 32 /\ ~DeviceDone(b, d, f) /\ ReadVendorId(b, d, f) # NoVendor ->
             IF s.error # "kSuccess" THEN s ELSE Walk[Point(s.value, b, d, f + 1)]

ScanFrom[p \in Points] == ScanStep(ScanFrom, p)

ScanBus(table, b) == ScanFrom[Point(table, b, 0, 0)]

(* Each function of a host bridge with several is the root of a bus, if it *)
(* is there: what the first n of them lead to.                             *)
ScanRoot(s, f) ==
  IF s.error # "kSuccess" \/ ReadVendorId(0, 0, f) = NoVendor THEN s ELSE ScanBus(s.value, f)

ScanRoots[n \in 0..8] ==
  IF n = 0 THEN WithError(<<>>, "kSuccess") ELSE ScanRoot(ScanRoots[n - 1], n - 1)

ScanAllBus ==
  IF IsSingleFunctionDevice(ReadHeaderType(0, 0, 0)) THEN ScanBus(<<>>, 0) ELSE ScanRoots[8]

(* The address in a base address register, as <<upper half, lower half>> *)
ReadBar(b, d, f, i) ==
  LET bar == ReadReg(b, d, f, 16 + 4 * i)
  IN  CASE i >= 6 -> WithError(<<0, 0>>, "kIndexOutOfRange")
        [] i < 6 /\ (bar \div 4) % 2 = 0 -> WithError(<<0, bar>>, "kSuccess")
        [] i = 5 /\ (bar \div 4) % 2 = 1 -> WithError(<<0, 0>>, "kIndexOutOfRange")
        [] i < 5 /\ (bar \div 4) % 2 = 1 ->
             WithError(<<ReadReg(b, d, f, 16 + 4 * i + 4), bar>>, "kSuccess")
=============================================================================
