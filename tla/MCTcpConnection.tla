--------------------------- MODULE MCTcpConnection ---------------------------
(* A send buffer of two units: a response fits it, fills it or exceeds it. *)
(* Requests of two units, which fill a new Buffer and exbuf.               *)
EXTENDS TcpConnection

=============================================================================
