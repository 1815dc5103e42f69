--------------------------- MODULE MCDownloadOrder ---------------------------
(* TLC instances of DownloadOrder, over small files.                         *)
EXTENDS DownloadOrder
=============================================================================
