----------------------------- MODULE MCHandshake -----------------------------
(* Two networks, frames that may be read in up to three pieces. *)
EXTENDS Handshake
=============================================================================
