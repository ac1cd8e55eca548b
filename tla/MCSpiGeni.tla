------------------------------ MODULE MCSpiGeni ------------------------------
(* Instances of SpiGeni for TLC. *)
EXTENDS SpiGeni

MCShapes ==
  {[tx |-> TRUE,  rx |-> FALSE, dma |-> FALSE, len |-> 7],
   [tx |-> TRUE,  rx |-> TRUE,  dma |-> FALSE, len |-> 3],
   [tx |-> TRUE,  rx |-> TRUE,  dma |-> TRUE,  len |-> 8]}

MCDevices ==
  {[cs |-> 0, high |-> FALSE, phase |-> FALSE, hz |-> 1],
   [cs |-> 1, high |-> TRUE,  phase |-> TRUE,  hz |-> 2]}
=============================================================================
