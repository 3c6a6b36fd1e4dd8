--------------------------- MODULE MCByteStreams ---------------------------
(* Every input up to twice the buffer and one byte. *)
EXTENDS ByteStreams
AllInputs == UNION {[1 .. n -> Byte] : n \in 0 .. 2 * BufferSize + 1}
=============================================================================
