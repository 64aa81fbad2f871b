------------------------------- MODULE MCFrames -------------------------------
(***************************************************************************)
(* Small instances of FrameStream for TLC.                                 *)
(***************************************************************************)
EXTENDS FrameStream

\* Vaults of several fragments and of one, the last of them too large.
Uploads == <<2, 1, 2, 5>>
TwoUploads == <<2, 1>>
=============================================================================
