----------------------------- MODULE MCKeyStores -----------------------------
(* Instances of KeyStores for TLC. *)
EXTENDS KeyStores, TLC

CONSTANTS s1, s2, nss

\* Two PKCS#11 keystores.
MCTokens == (s1 :> "PKCS11") @@ (s2 :> "PKCS11")
=============================================================================
