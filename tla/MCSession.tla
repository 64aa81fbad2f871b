------------------------------- MODULE MCSession -------------------------------
(***************************************************************************)
(* Small instances of SVPSession for TLC.                                  *)
(***************************************************************************)
EXTENDS SVPSession

\* A VAULT_PUT is 13 bytes longer than its blob, VAULT_DATA 9: one frame, full
\* or not, and two or three, the last full, not full, and of one byte; then a blob
\* larger than MaxBlob.
BlobOf(size) == [i \in 1..size |-> i % Base]
SomeBlobs == {BlobOf(size) : size \in {7, 8, 11, 12, 27, 28, 29}}
SomeName == <<2, 3>>
SomeCodes == {None, 5}
=============================================================================
