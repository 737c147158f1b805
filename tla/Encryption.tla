----------------------------- MODULE Encryption -----------------------------
(***************************************************************************)
(* Records at rest, as shared/src/encryption.rs seals and opens them: the  *)
(* key pair is one value, a sealed record remembers which pair it was      *)
(* encapsulated for, and both the KEM and the authenticated cipher refuse  *)
(* any other.                                                              *)
(***************************************************************************)

CONSTANTS
  Keys,       \* key pairs that generate_keypair may return
  Undecrypted \* the error that a failed decryption returns

\* encrypt_with_public_key.
Seal(data, key) == [kem |-> key, body |-> data]

\* Variant: the shared secret is not checked.
OpenAnyway(box, key) == box.body

\* decrypt_with_private_key: with another key the cipher's tag does not match.
Open(box, key) == IF box.kem = key THEN box.body ELSE Undecrypted
=============================================================================
