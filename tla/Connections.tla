----------------------------- MODULE Connections -----------------------------
(***************************************************************************)
(* The requests that the parts of the backend handle, one on a connection.  *)
(***************************************************************************)
CONSTANT Conns      \* the requests
=============================================================================
