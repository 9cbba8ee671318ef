---------------------------- MODULE MCCallerAuth ----------------------------
(* An instance of CallerAuth for TLC: one caller registered at first, one   *)
(* that may be registered later.                                            *)
EXTENDS CallerAuth, TLC

MCRegistry == "payment-processor" :> {"ALLOW"}
=============================================================================
