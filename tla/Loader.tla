------------------------------- MODULE Loader -------------------------------
(***************************************************************************)
(* UefiMain of MikanLoaderPkg/Main.c: the UEFI application that puts the   *)
(* kernel into memory, takes the machine over from the firmware and jumps  *)
(* to the kernel.  A step is one service it asks the firmware for, or one  *)
(* stretch of work of its own between two of them.                         *)
(*                                                                         *)
(* Memory is a function from addresses to cells, PageSize cells to a page. *)
(* The firmware numbers the states of its memory map; all that matters of  *)
(* that key is whether the loader holds the current one (keyFresh).        *)
(***************************************************************************)
EXTENDS Integers, Sequences, FiniteSets, FiniteSetsExt

CONSTANTS
  Elf,           \* the program headers of kernel.elf, in the order of the file
  EntryOffset,   \* where e_entry stands in the ELF header (24 bytes)
  PageSize, Pages,
  MapBuffer,     \* descriptors that fit into memmap_buf
  MaxFailures    \* bound on the services that fail in a behaviour

PixelFormats   == {"RGB", "BGR", "BltOnly"}
ProgramHeaders == [type : STRING, offset : Nat, vaddr : Nat, filesz : Nat, memsz : Nat]

ASSUME LoaderAssumption ==
  /\ PageSize \in Nat \ {0} /\ Pages \in Nat \ {0}
  /\ EntryOffset \in 0..(PageSize - 1)
  /\ MapBuffer \in Nat /\ MaxFailures \in Nat
  /\ Elf \in Seq(ProgramHeaders)
  /\ \A i \in DOMAIN Elf : Elf[i].filesz <= Elf[i].memsz

VARIABLES
  pc,          \* the next thing UefiMain does
  failures,    \* the services that have failed so far
  booted,      \* boot services are there: ExitBootServices has not succeeded
  late,        \* the boot services called although they were gone
  keyFresh,    \* memmap.map_key is the key of the firmware's current map
  descriptors, \* the number of descriptors in the firmware's map
  tries,       \* calls of ExitBootServices so far
  file,        \* kernel_buffer holds the file
  owned,       \* the pages AllocatePages gave to the loader
  used,        \* the pages in use by others
  mem,         \* the cells of memory
  entry,       \* what was read as the entry address
  format       \* PixelFormat of the screen

vars == <<pc, failures, booted, late, keyFresh, descriptors, tries, file,
          owned, used, mem, entry, format>>

firmware == <<booted, late, keyFresh, descriptors, tries>>
image    == <<file, owned, used, mem, entry, format>>

Addresses   == 0..(PageSize * Pages - 1)
PageOf(a)   == a \div PageSize
FileCell(i) == <<"file", i>>
Zero        == <<"zero">>
Junk        == <<"junk">>   \* whatever was in memory before
Loads       == {i \in DOMAIN Elf : Elf[i].type = "LOAD"}
Segment(i)  == Elf[i].vaddr..(Elf[i].vaddr + Elf[i].memsz - 1)

-----------------------------------------------------------------------------
(* The firmware's side of a call *)

(* A service answers, or fails and is noted. *)
Answers(next)      == pc' = next /\ UNCHANGED failures
Fails(call, next)  == /\ Cardinality(failures) < MaxFailures
                      /\ failures' = failures \cup {call}
                      /\ pc' = next

(* Allocating, freeing or opening may change the memory map. *)
MapMayChange ==
  /\ \/ UNCHANGED <<keyFresh, descriptors>>
     \/ /\ keyFresh' = FALSE
        /\ descriptors' \in {descriptors, descriptors + 1}
        /\ descriptors' <= MapBuffer + 1
  /\ UNCHANGED <<booted, late, tries>>

(* if (EFI_ERROR(status)) Halt(); *)
Service(from, to) ==
  /\ pc = from
  /\ Answers(to) \/ Fails(from, "Halt")

(* UefiMain calls the local GetMemoryMap, which hands out the map's key if *)
(* the fixed buffer holds the map.                                         *)
GetMemoryMap(from, to) ==
  /\ pc = from
  /\ IF descriptors > MapBuffer
     THEN pc' = "Halt" /\ failures' = failures \cup {"MapTooLarge"} /\ UNCHANGED keyFresh
     ELSE \/ Answers(to) /\ keyFresh' = TRUE
          \/ Fails(from, "Halt") /\ UNCHANGED keyFresh
  /\ UNCHANGED <<booted, late, descriptors, tries, image>>

FirstMap == GetMemoryMap("FirstMap", "RootImage")

-----------------------------------------------------------------------------
(* OpenRootDir: two protocols, then the volume *)
OpenRootDir ==
  /\ \/ Service("RootImage", "RootFs")
     \/ Service("RootFs", "RootVolume")
     \/ Service("RootVolume", "OpenMemmap")
  /\ MapMayChange
  /\ UNCHANGED image

(* The file the map is saved to is optional: a failed open is ignored. *)
OpenMemmapFile ==
  /\ pc = "OpenMemmap"
  /\ Answers("SaveMemmap") \/ Fails("OpenMemmap", "GopHandles")
  /\ MapMayChange
  /\ UNCHANGED image

(* SaveMemoryMap and the close: the header line, then one line for each    *)
(* descriptor, every Write of which may fail (they all end in Halt).       *)
SaveMemoryMap ==
  /\ \/ Service("SaveMemmap", "CloseMemmap")
     \/ Service("CloseMemmap", "GopHandles")
  /\ MapMayChange
  /\ UNCHANGED image

(* OpenGOP: LocateHandleBuffer allocates, FreePool gives back; and the     *)
(* screen is filled.                                                       *)
OpenGOP ==
  /\ \/ Service("GopHandles", "GopOpen")
     \/ Service("GopOpen", "PciHandles")
  /\ MapMayChange
  /\ UNCHANGED image

(* OpenPCI, in the same way; what it finds is only printed. *)
OpenPCI ==
  /\ \/ Service("PciHandles", "PciOpen")
     \/ Service("PciOpen", "OpenKernel")
  /\ MapMayChange
  /\ UNCHANGED image

-----------------------------------------------------------------------------
(* The kernel file into the pool *)
OpenKernelFile ==
  /\ \/ Service("OpenKernel", "KernelInfo")
     \/ Service("KernelInfo", "AllocPool")
     \/ Service("AllocPool", "ReadKernel")
  /\ MapMayChange
  /\ UNCHANGED image

ReadKernelFile ==
  /\ Service("ReadKernel", "AllocPages")
  /\ file' = (pc' = "AllocPages")
  /\ MapMayChange
  /\ UNCHANGED <<owned, used, mem, entry, format>>

(* CalcLoadAddressRange: kernel_first_addr and kernel_last_addr are the    *)
(* range of the PT_LOAD segments.                                          *)
FirstAddr == Min({Elf[i].vaddr : i \in Loads})
LastAddr  == Max({Elf[i].vaddr + Elf[i].memsz : i \in Loads})

(* What the loader takes for granted and a linker provides: segments that  *)
(* do not overlap, the lowest of which begins with the ELF header.         *)
LinkedKernel ==
  /\ \A i, j \in Loads : i # j => Segment(i) \cap Segment(j) = {}
  /\ \E i \in Loads : /\ Elf[i].vaddr = FirstAddr /\ Elf[i].offset = 0
                      /\ EntryOffset < Elf[i].filesz

NumPagesBug == (LastAddr - FirstAddr) \div PageSize   \* rounded down

NumPages == (LastAddr - FirstAddr + PageSize - 1) \div PageSize

(* AllocateAddress: exactly these pages, or an error. *)
AllocatePages ==
  LET wanted == PageOf(FirstAddr)..(PageOf(FirstAddr) + NumPages - 1)
  IN  /\ pc = "AllocPages"
      /\ IF FirstAddr % PageSize = 0 /\ wanted \subseteq (0..(Pages - 1)) \ used
         THEN \/ Answers("Load") /\ owned' = wanted
              \/ Fails("AllocPages", "Halt") /\ UNCHANGED owned
         ELSE /\ pc' = "Halt" /\ failures' = failures \cup {"NoPages"}
              /\ UNCHANGED owned
      /\ MapMayChange
      /\ UNCHANGED <<file, used, mem, entry, format>>

(* CopyLoadSegments: each segment in turn, its bytes from the file and     *)
(* zeros for the rest.                                                     *)
CopySegmentBug(m, s) ==   \* the bss is left as it is
  [a \in DOMAIN m |->
     IF a \in s.vaddr..(s.vaddr + s.filesz - 1) /\ file
     THEN FileCell(s.offset + a - s.vaddr) ELSE m[a]]

CopySegment(m, s) ==
  [a \in DOMAIN m |->
     CASE a \in s.vaddr..(s.vaddr + s.filesz - 1) ->
            IF file THEN FileCell(s.offset + a - s.vaddr) ELSE Junk
       [] a \in (s.vaddr + s.filesz)..(s.vaddr + s.memsz - 1) -> Zero
       [] OTHER -> m[a]]

Copied[n \in 0..Len(Elf)] ==
  IF n = 0 THEN mem
  ELSE IF n \in Loads THEN CopySegment(Copied[n - 1], Elf[n]) ELSE Copied[n - 1]

CopyLoadSegments ==
  /\ pc = "Load"
  /\ pc' = "FreePool"
  /\ mem' = Copied[Len(Elf)]
  /\ UNCHANGED <<failures, firmware, file, owned, used, entry, format>>

FreeKernelBuffer ==
  /\ Service("FreePool", "Exit")
  /\ file' = (pc' # "Exit")
  /\ MapMayChange
  /\ UNCHANGED <<owned, used, mem, entry, format>>

-----------------------------------------------------------------------------
(* ExitBootServices takes the key of the current map.  Before it looks at  *)
(* the key the first call tells the drivers, which may still allocate; a   *)
(* second call finds everything stopped.                                   *)
ExitBootServices(from, failed) ==
  /\ pc = from
  /\ tries' = tries + 1
  /\ \E changed \in (IF tries = 0 THEN BOOLEAN ELSE {FALSE}) :
       LET fresh == keyFresh /\ ~changed
       IN  /\ keyFresh' = fresh
           /\ descriptors' \in {descriptors} \cup
                {d \in {descriptors + 1} : changed /\ d <= MapBuffer + 1}
           /\ \/ fresh /\ Answers("Entry") /\ booted' = FALSE
              \/ ~fresh /\ pc' = failed /\ UNCHANGED <<failures, booted>>
              \/ Fails(from, failed) /\ UNCHANGED booted
  /\ UNCHANGED <<late, image>>

(* The first try, and the second one with the map of that moment *)
ExitAgainBug == ExitBootServices("ExitAgain", "Remap")   \* tries for ever

RemapBug ==   \* tries again with the old key
  /\ pc = "Remap"
  /\ Answers("ExitAgain")
  /\ UNCHANGED <<firmware, image>>

Exit      == ExitBootServices("Exit", "Remap")
Remap     == GetMemoryMap("Remap", "ExitAgain")
ExitAgain == ExitBootServices("ExitAgain", "Halt")

(* e_entry is read from the ELF header, which the first segment brought to *)
(* the start of the kernel.                                                *)
ReadEntry ==
  /\ pc = "Entry"
  /\ pc' = "Format"
  /\ entry' = mem[FirstAddr + EntryOffset]
  /\ UNCHANGED <<failures, firmware, file, owned, used, mem, format>>

(* The frame buffer's description for the kernel.  A format the kernel     *)
(* does not know is reported with Print, a boot service.                   *)
PassConfig ==
  /\ pc = "Format"
  /\ IF format \in {"RGB", "BGR"}
     THEN pc' = "Kernel" /\ UNCHANGED late
     ELSE pc' = "Halt" /\ late' = IF booted THEN late ELSE late \cup {"Print"}
  /\ UNCHANGED <<failures, booted, keyFresh, descriptors, tries, image>>

-----------------------------------------------------------------------------
Init ==
  /\ pc = "FirstMap" /\ failures = {} /\ late = {}
  /\ booted = TRUE /\ keyFresh = FALSE /\ tries = 0
  /\ descriptors \in 1..MapBuffer
  /\ file = FALSE /\ owned = {}
  /\ used \in SUBSET (0..(Pages - 1))
  /\ mem = [a \in Addresses |-> Junk]
  /\ entry = Junk
  /\ format \in PixelFormats

UefiMain ==
  \/ FirstMap \/ OpenRootDir \/ OpenMemmapFile \/ SaveMemoryMap
  \/ OpenGOP \/ OpenPCI
  \/ OpenKernelFile \/ ReadKernelFile \/ AllocatePages
  \/ CopyLoadSegments \/ FreeKernelBuffer
  \/ Exit \/ Remap \/ ExitAgain \/ ReadEntry \/ PassConfig

(* A timer of the firmware runs between two calls and may allocate, until  *)
(* the first ExitBootServices stops it.                                    *)
Background ==
  /\ booted /\ tries = 0 /\ keyFresh
  /\ keyFresh' = FALSE
  /\ descriptors' \in {descriptors, descriptors + 1}
  /\ descriptors' <= MapBuffer + 1
  /\ UNCHANGED <<pc, failures, booted, late, tries, image>>

Next == UefiMain \/ Background
Spec == Init /\ [][Next]_vars /\ WF_vars(UefiMain)

-----------------------------------------------------------------------------
Places == {"FirstMap", "RootImage", "RootFs", "RootVolume", "OpenMemmap",
           "SaveMemmap", "CloseMemmap", "GopHandles", "GopOpen", "PciHandles",
           "PciOpen", "OpenKernel", "KernelInfo", "AllocPool", "ReadKernel",
           "AllocPages", "Load", "FreePool", "Exit", "Remap", "ExitAgain",
           "Entry", "Format", "Kernel", "Halt"}

(* The variables have their types. *)
TypeOK ==
  /\ pc \in Places
  /\ failures \subseteq Places \cup {"MapTooLarge", "NoPages"}
  /\ booted \in BOOLEAN /\ keyFresh \in BOOLEAN /\ file \in BOOLEAN
  /\ late \subseteq {"Print"}
  /\ descriptors \in 1..(MapBuffer + 1) /\ tries \in 0..2
  /\ owned \subseteq 0..(Pages - 1) /\ used \subseteq 0..(Pages - 1)
  /\ DOMAIN mem = Addresses
  /\ format \in PixelFormats

(* What the kernel finds when it is entered: the firmware is gone, every   *)
(* cell of every segment is the cell of the file or zero, as the program   *)
(* headers say, in pages that belong to the loader; the entry address is   *)
(* the file's; nothing that had to work has failed on the way; and no boot *)
(* service was called after they were gone (PassConfig's message about an  *)
(* unknown format is, but then the loader halts).                          *)
EntersIntactKernel ==
  pc = "Kernel" =>
    /\ ~booted /\ late = {}
    /\ failures \subseteq {"OpenMemmap", "Exit"}
    /\ entry = FileCell(EntryOffset)
    /\ \A i \in Loads : \A k \in 0..(Elf[i].memsz - 1) :
         /\ mem[Elf[i].vaddr + k] = IF k < Elf[i].filesz
                                    THEN FileCell(Elf[i].offset + k) ELSE Zero
         /\ PageOf(Elf[i].vaddr + k) \in owned \ used

(* The loader never writes into a page AllocatePages has not given it:     *)
(* there live the firmware, the loader itself and the file it copies from. *)
WritesOwnPages ==
  [][\A a \in Addresses : mem'[a] # mem[a] => PageOf(a) \in owned]_vars

(* A machine on which everything the loader needs works is always booted:  *)
(* a map that changed after its key was taken is fetched again and the     *)
(* exit retried.  Only a service that failed, a map too large for the      *)
(* buffer or an unknown pixel format keeps the kernel from running.        *)
Boots == <>(pc = "Kernel" \/ (pc = "Halt" /\ (failures # {} \/ format = "BltOnly")))
=============================================================================
