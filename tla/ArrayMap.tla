------------------------------ MODULE ArrayMap ------------------------------
(***************************************************************************)
(* usb::ArrayMap (usb/arraymap.hpp): a map in an array of entries that are *)
(* taken or free.  Every operation uses the first entry that will do, so a *)
(* key may be there twice and a Put to a full table does nothing.          *)
(***************************************************************************)
EXTENDS Naturals, Sequences, SequencesExt

CONSTANT Free   \* a free entry; and the answer of Get when there is none

NoEntries(n) == [i \in 1..n |-> Free]

IndexOfKey(table, key) == SelectInSeq(table, LAMBDA e : e # Free /\ e.key = key)
IndexOfFree(table)     == SelectInSeq(table, LAMBDA e : e = Free)

Get(table, key) ==
  LET i == IndexOfKey(table, key) IN IF i = 0 THEN Free ELSE table[i].value

Put(table, key, value) ==
  LET i == IndexOfFree(table)
  IN  IF i = 0 THEN table ELSE [table EXCEPT ![i] = [key |-> key, value |-> value]]

DeleteBug(table, key) ==   \* forgets to free the entry
  table

Delete(table, key) ==
  LET i == IndexOfKey(table, key) IN IF i = 0 THEN table ELSE [table EXCEPT ![i] = Free]

Taken(table) == {i \in DOMAIN table : table[i] # Free}
=============================================================================
