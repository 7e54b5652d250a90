----------------------------- MODULE MCBringup ------------------------------
(***************************************************************************)
(* The machines the bring-up is checked on for TLC: what is on the PCI bus,*)
(* how configuration space is reached, the controller's capabilities and   *)
(* scratchpad buffers, and where the pool lies.                            *)
(***************************************************************************)
EXTENDS Bringup, TLC

(* A function of configuration space *)
Fn(vendor, class, header, bar, upper, buses) ==
  [r \in {0, 8, 12, 16, 20, 24} |->
     CASE r = 0 -> vendor [] r = 8 -> class [] r = 12 -> header
       [] r = 16 -> bar [] r = 20 -> upper [] r = 24 -> buses]

Other == 4358
Host   == Fn(Intel, <<6, 0, 0>>, 0, 0, 0, 0)
Hosts  == Fn(Intel, <<6, 0, 0>>, 128, 0, 0, 0)
To(b)  == Fn(Intel, <<6, 4, 0>>, 1, 0, 0, b * 256)
Disk   == Fn(Other, <<1, 6, 1>>, 0, 8192, 0, 0)
Disks  == Fn(Other, <<1, 6, 1>>, 128, 8192, 0, 0)
Xhc    == Fn(Other, XhciClass, 0, 16384 + 4, 7, 0)
IntelX == Fn(Intel, XhciClass, 0, 32768, 0, 0)
IntelE == Fn(Intel, EhciClass, 0, 4096, 0, 0)

Plain  == <<0, 0, 0>> :> Host @@ <<0, 1, 0>> :> Xhc
None   == <<0, 0, 0>> :> Host @@ <<0, 2, 0>> :> Disk
Nested == <<0, 0, 0>> :> Host @@ <<0, 1, 0>> :> To(1) @@ <<1, 0, 0>> :> To(2)
            @@ <<2, 0, 0>> :> Xhc @@ <<2, 3, 0>> :> IntelX @@ <<2, 4, 0>> :> Xhc
            @@ <<0, 7, 0>> :> Disks @@ <<0, 7, 3>> :> IntelE @@ <<0, 31, 0>> :> Xhc
TwoRoots == <<0, 0, 0>> :> Hosts @@ <<0, 0, 2>> :> Host @@ <<0, 1, 0>> :> Disk
              @@ <<2, 5, 0>> :> IntelX
Unset  == <<0, 0, 0>> :> Host @@ <<0, 1, 0>> :> Xhc @@ <<0, 2, 0>> :> To(0)
Crowd(n) ==
  [f \in {<<b, d, 0>> : b \in 0..1, d \in 0..15} \cup {<<0, 16, g>> : g \in 0..n} |->
     CASE f = <<0, 0, 0>>  -> Host
       [] f = <<0, 3, 0>>  -> To(1)
       [] f = <<0, 16, 0>> -> Disks
       [] f = <<1, 15, 0>> -> Xhc
       [] OTHER            -> Disk]
Exact == [f \in {<<0, d, 0>> : d \in 0..31} |-> IF f[2] = 31 THEN IntelX ELSE Host]

Machine(space, access, capabilities, scratchpads, base) ==
  [space |-> space, access |-> access, capabilities |-> capabilities,
   scratchpads |-> scratchpads, base |-> base]

(* Every topology with every version of pci.cpp; and one of them with      *)
(* every place for the pool and number of scratchpad buffers.              *)
MCMachines ==
  {Machine(space, access, <<2, 1>>, 0, 65536) :
     space \in {Plain, None, Nested, TwoRoots, Unset, Crowd(0), Crowd(2), Exact},
     access \in {"ecam", "io", "ports"}}
  \cup {Machine(Plain, "ecam", capabilities, scratchpads, base) :
          capabilities \in {<<>>, <<2>>},
          scratchpads \in {0, 1} \cup 26..32,
          base \in {4096 * k + offset : k \in {0, 15}, offset \in {0, 64, 2048, 4032}}}
=============================================================================
