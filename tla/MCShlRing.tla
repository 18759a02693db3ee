----------------------------- MODULE MCShlRing -----------------------------
(* TLC's instance of ShlRing: a 3-bit size_t, so that 4 is the last power of *)
(* two, and pieces of up to 4 bytes, so that writes wrap around the end of   *)
(* the buffer, sizes round up to 0 and used + add wraps to 0.                *)
EXTENDS ShlRing, TLC

Bytes == Permutations(Byte)
=============================================================================
