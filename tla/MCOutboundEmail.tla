-------------------------- MODULE MCOutboundEmail --------------------------
(* OutboundEmail on small instances.                                       *)
EXTENDS OutboundEmail

CONSTANTS e1, e2, e3, a, b          \* model values
=============================================================================
