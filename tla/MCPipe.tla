------------------------------- MODULE MCPipe ------------------------------
(* An instance of Pipe for TLC. *)
EXTENDS Pipe

\* Bytes of the ring that no read can get any more are left out.
View == <<Contents, nread, nwrite, readopen, writeopen, freed, lk, holders, killed, pc, left>>
============================================================================
