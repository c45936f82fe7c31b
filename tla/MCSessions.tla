----------------------------- MODULE MCSessions -----------------------------
(* Two tabs of the partner application on one account. *)
EXTENDS Sessions, TLC

=============================================================================
