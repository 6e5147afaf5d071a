----------------------------- MODULE MCChannel -----------------------------
(* Channel on a few Sender handles, one Receiver and two descriptors. *)
EXTENDS Channel

CONSTANTS s1, s2, s3

ThreeSenders == {s1, s2, s3}
=============================================================================
