------------------------------ MODULE MCCrypto ------------------------------
(***************************************************************************)
(* A small instance of CryptoProvider.                                     *)
(***************************************************************************)
EXTENDS CryptoProvider, TLC

Symmetric ==
    Permutations(Calls) \cup Permutations(Offers) \cup Permutations(Users)
    \cup Permutations(Labels)
=============================================================================
