--------------------------- MODULE MCDownloadStore ---------------------------
(* The instance of DownloadStore for TLC; the .cfg gives the bounds. *)
EXTENDS DownloadStore
=============================================================================
