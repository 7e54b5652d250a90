---------------------------- MODULE MCUsbDevice -----------------------------
(***************************************************************************)
(* USB devices for TLC: their descriptors and the reports they send.       *)
(***************************************************************************)
EXTENDS UsbDevice, TLC

Descriptor(type, n) == [type |-> type, size |-> n, length |-> n]
Configuration   == Descriptor("Configuration", 9)
Hid             == Descriptor("HID", 9)
Other(n)        == Descriptor("Other", n)
If(class, n)    == Descriptor("Interface", 9) @@ [class |-> class, endpoints |-> n]
Ep(number, in)  == Descriptor("Endpoint", 7) @@
                   [number |-> number, in |-> in, transfer |-> "Interrupt"]
Zeroed(d)       == [d EXCEPT !.length = 0]

Keyboard == <<3, 1, 1>>
Mouse    == <<3, 1, 2>>
Storage  == <<8, 6, 80>>

(* A keyboard; one with an endpoint for its lamps; a mouse behind another  *)
(* interface; a keyboard and a mouse in one; a device there is no driver   *)
(* for.                                                                    *)
Devices ==
  { <<Configuration, If(Keyboard, 1), Hid, Ep(1, TRUE)>>,
    <<Configuration, If(Keyboard, 2), Hid, Ep(1, TRUE), Ep(2, FALSE)>>,
    <<Configuration, If(Storage, 2), Ep(1, TRUE), Ep(2, FALSE), If(Mouse, 1), Hid, Ep(3, TRUE)>>,
    <<Configuration, If(Mouse, 1), Hid, Ep(1, TRUE), If(Keyboard, 1), Hid, Ep(2, TRUE)>>,
    <<Configuration, If(Storage, 2), Ep(1, TRUE), Ep(2, FALSE)>> }

(* Longer than the buffer: cut off before the interface, between it and    *)
(* its endpoint, or after both.  A keyboard without an IN endpoint, and    *)
(* one with an endpoint too many.                                          *)
OddDevices ==
  { <<Configuration, Other(250), If(Keyboard, 1), Hid, Ep(1, TRUE)>>,
    <<Configuration, Other(225), If(Keyboard, 1), Hid, Ep(1, TRUE)>>,
    <<Configuration, If(Keyboard, 1), Hid, Ep(1, TRUE), Other(250)>>,
    <<Configuration, If(Keyboard, 1), Hid, Ep(1, FALSE)>>,
    <<Configuration, If(Keyboard, MaxEndpoints + 1), Hid>> \o
      [i \in 1..MaxEndpoints + 1 |-> Ep((i + 1) \div 2, i % 2 = 0)] }

(* Descriptors of length 0: before the interface, the HID descriptor, and  *)
(* an endpoint, which is then counted twice.                               *)
Stalling ==
  { <<Configuration, Zeroed(Other(5)), If(Keyboard, 1), Hid, Ep(1, TRUE)>>,
    <<Configuration, If(Keyboard, 1), Zeroed(Hid), Ep(1, TRUE)>>,
    <<Configuration, If(Keyboard, 2), Hid, Zeroed(Ep(1, TRUE)), Ep(2, FALSE)>> }

MCConfigurations == Devices \cup OddDevices \cup Stalling

(* The left Alt key is held or not: as a modifier it has the code of the A. *)
MCReports(kind) ==
  IF kind = "keyboard"
  THEN {<<alt, 0>> \o keys : alt \in {0, 4}, keys \in {<<0, 0>>, <<4, 0>>, <<5, 4>>}}
  ELSE {<<0, 0, 0>>, <<1, 0, 128>>, <<0, 1, 255>>}
=============================================================================
