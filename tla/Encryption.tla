----------------------------- MODULE Encryption -----------------------------
(***************************************************************************)
(* Payload encryption (src/src/encryption.rs) as operators: the static key *)
(* provider, the codec, encrypt_job on the producer's side and what the    *)
(* worker's middleware does to the job it is handed.                       *)
(*                                                                         *)
(* The arguments of a job are the sequence of the keys they are encrypted  *)
(* under, innermost first: <<>> is plaintext.  AES-GCM authenticates, so   *)
(* the wrong key, or arguments that are no ciphertext, are an error and    *)
(* never garbage; base64, JSON and the nonce fail or succeed with it.      *)
(***************************************************************************)
EXTENDS Naturals, Sequences

CONSTANTS
    KeyIds,         \* names of keys
    Keys,           \* key material
    None            \* an absent entry

ASSUME NoneAssumption == None \notin KeyIds \cup Keys

\* StaticKeyProvider::new: the one key is the current one, for ever.
NewProvider(id, key) == [keys |-> [i \in {id} |-> key], current |-> id]

\* add_key is an insertion: it replaces the material of an id in use.
AddKey(p, id, key) ==
    [p EXCEPT !.keys = [i \in DOMAIN p.keys \cup {id} |-> IF i = id THEN key ELSE p.keys[i]]]

GetKey(p, id) == IF id \in DOMAIN p.keys THEN p.keys[id] ELSE None

\* The four entries of a job's metadata that mark it as encrypted: the two
\* canonical ones and the two legacy ones.
NoMeta == [encodings |-> FALSE, keyId |-> None, legacy |-> FALSE, legacyKeyId |-> None]

Encrypt(args, key) == Append(args, key)

Opens(args, key) == args # <<>> /\ args[Len(args)] = key

Decrypt(args, key) == SubSeq(args, 1, Len(args) - 1)

\* encrypt_job: under the provider's current key, whatever the job already is.
EncryptJob(p, j) ==
    [args |-> Encrypt(j.args, GetKey(p, p.current)),
     meta |-> [j.meta EXCEPT !.encodings = TRUE, !.keyId = p.current]]

\* EncryptionMiddleware::handle, up to next.run.
IsEncrypted(meta) == meta.encodings \/ meta.legacy

\* Mutant: the legacy entry wins.
KeyIdLegacyFirst(meta) == IF meta.legacyKeyId # None THEN meta.legacyKeyId ELSE meta.keyId

KeyIdOf(meta) == IF meta.keyId # None THEN meta.keyId ELSE meta.legacyKeyId

\* The id is missing, its key unknown, or the arguments are not what that key opens.
Undecryptable(p, j) ==
    LET key == GetKey(p, KeyIdOf(j.meta)) IN
    IsEncrypted(j.meta) /\ (key = None \/ ~Opens(j.args, key))

\* One layer is taken off and all four markers go; an unmarked job passes as it is.
DecryptJob(p, j) ==
    IF IsEncrypted(j.meta)
    THEN [args |-> Decrypt(j.args, GetKey(p, KeyIdOf(j.meta))), meta |-> NoMeta]
    ELSE j
=============================================================================
