----------------------------- MODULE MCLiveOrders -----------------------------
(* Two orders of one or two shares are enough for a position bought in two  *)
(* parts, or with a sale of it, and a close order at the end.                 *)
EXTENDS LiveOrders
===============================================================================
