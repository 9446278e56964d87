----------------------------- MODULE MCPublisher -----------------------------
(* Keys for the TLC run of Publisher: three calls use one key one after the  *)
(* other, as a dialog does that is opened again; the fourth has its own.     *)
EXTENDS Publisher, TLC

CONSTANTS c1, c2, c3, c4, k1, k2

SharedKey == c1 :> k1 @@ c2 :> k1 @@ c3 :> k1 @@ c4 :> k2
=============================================================================
