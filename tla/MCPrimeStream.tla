--------------------------- MODULE MCPrimeStream ---------------------------
(* uint64_t cut to 4 bits: every base, so the walk wraps past 15, and products
   i * i that wrap. *)
EXTENDS PrimeStream
=============================================================================
