------------------------- MODULE MCIngressDeletion -------------------------
(***************************************************************************)
(* Instances of IngressDeletion for TLC, with the values of                *)
(* MCIngressController.                                                    *)
(***************************************************************************)
EXTENDS IngressDeletion, MCIngressController
=============================================================================
