----------------------------- MODULE MCGateway -----------------------------
(* Model checking of Gateway with the one task of the HTTPS server. *)
EXTENDS Gateway

CONSTANTS httpd, b1, b2

MCCallers == {httpd}
MCBlocks  == {b1, b2}

=============================================================================
