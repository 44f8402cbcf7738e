---------------------------- MODULE MCBlobLayout ----------------------------
(***************************************************************************)
(* Bytes have four values, so that the length of a reference has two       *)
(* digits; sizes are such that a chunk may fit to the byte.                *)
(***************************************************************************)
EXTENDS BlobLayout

=============================================================================
