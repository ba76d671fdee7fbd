--------------------------- MODULE MCServerSession ---------------------------
(***************************************************************************)
(* ServerSession with the timer thread and a worker that uploads: both may  *)
(* send, and both may hang up, while chunks and the end of the file arrive. *)
(***************************************************************************)
EXTENDS ServerSession

CONSTANTS timer, uploader

MCCallers == {timer, uploader}
=============================================================================
