--------------------------- MODULE MCBufferedFile ---------------------------
(* Two handles on one path. *)
EXTENDS BufferedFile, TLC

CONSTANTS h1, h2

MCHandle == {h1, h2}
AllModes == {"wb", "xb", "ab"}

Handles == Permutations(Handle)
=============================================================================
