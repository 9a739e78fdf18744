------------------------------ MODULE MCUploads ------------------------------
(* A small instance of Uploads for TLC.                                      *)
EXTENDS Uploads

=============================================================================
