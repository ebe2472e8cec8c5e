--------------------------- MODULE MCScalarStores ---------------------------
(* Three-byte numbers, with the values at each encoding boundary: 0, 1,    *)
(* RLP's single-byte limit 127/128, the first two-byte value 256 and the   *)
(* largest three-byte value.  One hash besides the zero hash, one          *)
(* commitment, one epoch and one uptime array.                             *)
EXTENDS ScalarStores

CONSTANTS h1, z, c1, u1

MCValues == {0, 1, 127, 128, 256, 256 ^ 3 - 1}

=============================================================================
