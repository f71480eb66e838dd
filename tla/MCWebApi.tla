------------------------------ MODULE MCWebApi ------------------------------
(* Model checking of WebApi with the one caller the firmware has, the task *)
(* of the HTTPS server.                                                    *)
EXTENDS WebApi

CONSTANTS httpd, b1, b2

MCCallers == {httpd}
MCBlocks  == {b1, b2}

=============================================================================
