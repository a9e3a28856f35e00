------------------------------ MODULE MCSigma ------------------------------
(* A group of 11 elements; 2 generates it, and 7 squared modulo 23 is 3.      *)
EXTENDS Sigma, TLC

MCMessage  == {0, 1, 7}
MCBlinding == {0, 4, 10}
MCNonce    == {0, 3}
\* 11 reduces to a challenge of 0.
MCDigest   == {1, 5, 11, 12}
=============================================================================
