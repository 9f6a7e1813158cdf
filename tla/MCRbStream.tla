----------------------------- MODULE MCRbStream -----------------------------
(***************************************************************************)
(* Ring buffers of up to four pages, packets of one and two pages, aligned *)
(* and unaligned starts, both directions, calls smaller and larger than a  *)
(* packet, and more than one lap around the ring.                          *)
(***************************************************************************)
EXTENDS RbStream

MCPageSizes   == {0, 1, 2}
MCPacketSizes == {1, 2, 4}
MCAddresses   == 2 .. 8
MCSizes       == {0, 1, 3, 5}
=============================================================================
