----------------------------- MODULE MCListener -----------------------------
(* Three endpoints, two datagrams that parse and one that does not.        *)
EXTENDS Listener
=============================================================================
