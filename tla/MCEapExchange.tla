--------------------------- MODULE MCEapExchange ---------------------------
(* Model checking of EapExchange. *)
EXTENDS EapWay, EapUndisturbed

=============================================================================
