--------------------------- MODULE MCGatewaySettings ---------------------------
(* GatewaySettings with its bounds given by the .cfg file.                 *)
EXTENDS GatewaySettings

CONSTANTS w1, w2, a, b

(* One window comes with pins of its own.                                  *)
OneLegacy == (w1 :> <<a, b>>) @@ (w2 :> <<>>)
OneMove == {<<b, a, FALSE>>}
=============================================================================
