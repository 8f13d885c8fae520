----------------------------- MODULE MCRawClient -----------------------------
(* Three requests under numbers up to two or one string, with room for two *)
(* tombstones: the first one is evicted, and the numbers run out.          *)
EXTENDS RawClient

=============================================================================
