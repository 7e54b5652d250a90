------------------------------ MODULE MCLoader ------------------------------
(***************************************************************************)
(* The loader on a memory of six pages of three cells.  The kernel has the *)
(* program headers lld writes: the headers of the file themselves, a       *)
(* read-only segment that begins with the ELF header, a text segment that  *)
(* does not end at a page, data with a bss that reaches into another page, *)
(* and a stack note with the address zero.                                 *)
(***************************************************************************)
EXTENDS Loader

MCElf ==
  << [type |-> "PHDR",  offset |-> 1, vaddr |-> 4,  filesz |-> 1, memsz |-> 1],
     [type |-> "LOAD",  offset |-> 0, vaddr |-> 3,  filesz |-> 3, memsz |-> 3],
     [type |-> "LOAD",  offset |-> 3, vaddr |-> 6,  filesz |-> 2, memsz |-> 2],
     [type |-> "LOAD",  offset |-> 5, vaddr |-> 11, filesz |-> 1, memsz |-> 3],
     [type |-> "STACK", offset |-> 0, vaddr |-> 0,  filesz |-> 0, memsz |-> 0] >>

ASSUME MCLinkedKernel == LinkedKernel
=============================================================================
