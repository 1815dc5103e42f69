--------------------------- MODULE MCFileTransfer ---------------------------
(* TLC instances of FileTransfer.                                           *)
EXTENDS FileTransfer
=============================================================================
