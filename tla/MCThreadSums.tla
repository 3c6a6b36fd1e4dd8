---------------------------- MODULE MCThreadSums ----------------------------
(* Numbers whose sums differ, so that a lost or repeated one shows. *)
EXTENDS ThreadSums
NumbersRead == {<<>>, <<-1>>, <<3, -1, 9>>, <<4, -2, 1, 8>>}
=============================================================================
