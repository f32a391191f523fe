--------------------------- MODULE MCPartitionTable ---------------------------
(* Two primary partitions around a chain of three logical ones and an empty link, a GPT with a hole in
   its array, and volumes without any table, on a disk of twenty sectors. *)
EXTENDS PartitionTable

MCLayouts ==
  {[scheme |-> "mbr",
    logicals |-> <<[ebr |-> 5, start |-> 6, count |-> 3], [ebr |-> 9, start |-> 10, count |-> 0],
                   [ebr |-> 10, start |-> 11, count |-> 2], [ebr |-> 13, start |-> 14, count |-> 1]>>,
    slots |-> <<Slot("data", 1, 4), Slot("extended", 5, 10), Slot("data", 15, 4)>>],
   [scheme |-> "gpt",
    entries |-> <<[used |-> TRUE, first |-> 3, last |-> 6], [used |-> FALSE, first |-> 0, last |-> 0],
                  [used |-> TRUE, first |-> 7, last |-> 10]>>]}
===============================================================================
