---------------------------- MODULE MCCryptoFeed ----------------------------
(* The instance of CryptoFeed that TLC checks.                             *)
EXTENDS CryptoFeed
=============================================================================
