----------------------------- MODULE MCGateway -----------------------------
(***************************************************************************)
(* Instances of Gateway for TLC.                                           *)
(***************************************************************************)
EXTENDS Gateway

Slaves(starts, sizes, pdus, tables, wides, extras) ==
  [start : starts, size : sizes, pdu : pdus, table : tables, wide : wides,
   callbacks : extras, clientStays : {~e : e \in extras}]

\* Data model addresses (the default): blocks at the start of the table and behind it, for a
\* device that ends there and one that has the last address as well; a block of inputs; a
\* block at the last address.
DataSlaves ==
  Slaves({0, 1}, {1, 2}, {FALSE}, {"registers"}, {TRUE}, {TRUE}) \cup
  Slaves({0}, {2}, {FALSE}, {"coils", "inputs"}, {FALSE}, {TRUE}) \cup
  Slaves({Last}, {1}, {FALSE}, {"coils"}, {TRUE}, {FALSE})
\* A block of two registers from PDU address 1, with PDU addresses.
PduSlave == Slaves({1}, {2}, {TRUE}, {"registers"}, {FALSE}, {FALSE})
\* The slave that setBlock() was not called for.
EmptySlaves == Slaves({0}, {0}, {FALSE, TRUE}, {"coils"}, {TRUE}, {FALSE})

AllSlaves == DataSlaves \cup PduSlave \cup EmptySlaves
=============================================================================
