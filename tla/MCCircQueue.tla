----------------------------- MODULE MCCircQueue -----------------------------
(* The data of the pushes, for the model checker: nothing, or two objects,   *)
(* of which only the first is taken when there is space for no more.  Two    *)
(* different objects show the order.                                         *)
EXTENDS CircQueue

CONSTANTS x, y

MCData == {<<>>, <<x, y>>}
==============================================================================
