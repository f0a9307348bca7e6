----------------------------- MODULE MCChecksum -----------------------------
(* A small instance of Checksum for TLC: records of no data, of a chunk,   *)
(* and of more than a chunk.                                               *)
EXTENDS Checksum

MCRecords == {<<23, <<>>>>, <<23, <<1, 2, 0, 255>>>>, <<43605, <<194, 3, 4, 5, 0>>>>}
=============================================================================
