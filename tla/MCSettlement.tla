---------------------------- MODULE MCSettlement ----------------------------
(***************************************************************************)
(* The instances of Settlement that TLC checks.  A .cfg cannot write       *)
(* records, so the kinds of booking are defined here.                      *)
(***************************************************************************)
EXTENDS Settlement

\* A bus booking whose partner has to confirm it: every action can apply.
MCBus == {[mode |-> "request_confirmation", seats |-> "held", guest |-> FALSE]}

\* The same booking, and a room that is confirmed instantly, made without an account.
MCAny == MCBus \union
         {[mode |-> "instant_confirmation", seats |-> "none", guest |-> TRUE]}

=============================================================================
