------------------------------- MODULE ZethaCrypt -------------------------------
(***************************************************************************)
(* ZethaCRYPT.hpp: the store of encrypted values ZethaCryptKV, and the      *)
(* records a value can be written as. What crypto_secretbox does is taken   *)
(* from its contract: a box opens to its contents with the key and the      *)
(* nonce it was sealed with, and with no others.                           *)
(***************************************************************************)
EXTENDS Integers, SequencesExt

CONSTANTS
  VaultKeys,    \* keys of entries: sequences of bytes, the empty one among them
  Plains,       \* values, sequences of bytes
  Masters,      \* master keys, valid or not
  ValidMaster,  \* the one that has CRYPT_KEY_BYTES bytes
  Overhead,     \* CRYPT_ZEROBYTES - CRYPT_BOXZEROBYTES
  MaxNonce      \* bound: nonces drawn

ASSUME VaultAssumption ==
  /\ VaultKeys \subseteq Seq(Nat) /\ Plains \subseteq Seq(Nat)
  /\ Overhead \in Nat \ {0} /\ MaxNonce \in Nat

VARIABLES
  master,   \* master_key_
  entries,  \* entries_: sequence of [key, value], value = [nonce, cipher, plain_size]
  drawn,    \* how many nonces were drawn: randombytes never repeats one
  stored    \* history: what callers put and did not erase, key -> value

vaultVars == <<master, entries, drawn, stored>>

VaultInit == master \in Masters /\ entries = <<>> /\ drawn = 0 /\ stored = <<>>

-----------------------------------------------------------------------------
(* Boxes.                                                                  *)

\* crypto_secretbox by its contract, less the zero bytes in front: each byte of
\* the box stands for all that it was made of.
Sealed(plain, key, nonce) ==
  [i \in 1..Len(plain) + Overhead |-> [plain |-> plain, key |-> key, nonce |-> nonce, at |-> i]]

Encrypt(plain, key, nonce) ==
  [nonce |-> nonce, cipher |-> Sealed(plain, key, nonce), plain_size |-> Len(plain)]

\* {} if decrypt reports an error.
Decrypt(value, key) ==
  IF key # ValidMaster THEN {}
  ELSE IF value.cipher = <<>> THEN IF value.plain_size = 0 THEN {<<>>} ELSE {}
  ELSE IF Len(value.cipher) # value.plain_size + Overhead THEN {}
  ELSE LET plain == value.cipher[1].plain
       IN  IF value.cipher = Sealed(plain, key, value.nonce) THEN {plain} ELSE {}

-----------------------------------------------------------------------------
(* The store.                                                              *)

\* find_entry: 0 if there is none. The size is compared first, and nothing
\* else of an empty key.
FindEntry(key) == SelectInSeq(entries, LAMBDA e :
  Len(e.key) = Len(key) /\ \A i \in DOMAIN key : e.key[i] = key[i])

\* An entry of that key is replaced.
PutEntry(entry) ==
  LET i == FindEntry(entry.key)
  IN  IF i = 0 THEN Append(entries, entry) ELSE ReplaceAt(entries, i, entry)

VaultPut(key, plain) ==
  /\ master = ValidMaster
  /\ drawn < MaxNonce
  /\ entries' = PutEntry([key |-> key, value |-> Encrypt(plain, master, drawn + 1)])
  /\ drawn' = drawn + 1
  /\ stored' = [k \in DOMAIN stored \cup {key} |-> IF k = key THEN plain ELSE stored[k]]
  /\ UNCHANGED master

\* get: {} for an error, which an invalid master key is, and a key not found.
VaultGet(key) ==
  IF master # ValidMaster \/ FindEntry(key) = 0 THEN {}
  ELSE Decrypt(entries[FindEntry(key)].value, master)

VaultErase(key) ==
  /\ FindEntry(key) # 0
  /\ entries' = RemoveAt(entries, FindEntry(key))
  /\ stored' = [k \in DOMAIN stored \ {key} |-> stored[k]]
  /\ UNCHANGED <<master, drawn>>

VaultClear == entries' = <<>> /\ stored' = <<>> /\ UNCHANGED <<master, drawn>>

VaultNext == \/ \E key \in VaultKeys : VaultErase(key) \/ \E plain \in Plains : VaultPut(key, plain)
             \/ VaultClear

-----------------------------------------------------------------------------
(* Records. The body is the key and the cipher, one after the other.       *)

\* make_key_id: bytes of the key over and over, each with its place. Nothing
\* reads the id that a record has.
MakeKeyId(key) == [i \in 1..16 |-> IF key = <<>> THEN <<>> ELSE <<key[((i - 1) % Len(key)) + 1], i>>]

SerializeRecord(key, value) ==
  [key_id |-> MakeKeyId(key), key_size |-> Len(key), plain_size |-> value.plain_size, cipher_size |-> Len(value.cipher),
   nonce |-> value.nonce, body |-> key \o value.cipher]

\* MUTANT: a record may be longer than its header says.
SizesFitLoosely(record) ==
  /\ Len(record.body) >= record.key_size + record.cipher_size
  /\ record.cipher_size \in {record.plain_size + Overhead} \cup {n \in {0} : record.plain_size = 0}

SizesFit(record) ==
  /\ Len(record.body) = record.key_size + record.cipher_size
  /\ record.cipher_size \in {record.plain_size + Overhead} \cup {n \in {0} : record.plain_size = 0}

DeserializeRecord(record) ==
  IF ~SizesFit(record) THEN {}
  ELSE {[key   |-> SubSeq(record.body, 1, record.key_size),
         value |-> [nonce |-> record.nonce, plain_size |-> record.plain_size,
                    cipher |-> SubSeq(record.body, record.key_size + 1, record.key_size + record.cipher_size)]]}

\* {} for an error, like all of these.
EncryptRecord(key, plain, master_key, nonce) ==
  {SerializeRecord(key, Encrypt(plain, m, nonce)) : m \in {master_key} \cap {ValidMaster}}

DecryptRecord(record, key, master_key) ==
  UNION {IF r.key = key THEN Decrypt(r.value, master_key) ELSE {} : r \in DeserializeRecord(record)}

-----------------------------------------------------------------------------
\* An entry written as a record is read back under its key, and under no
\* other; a record that lost its end, or has more than its end, or a wrong
\* size in its header, is refused and not read as something else.
RecordReadsBack(e) ==
  LET record == SerializeRecord(e.key, e.value)
  IN  /\ EncryptRecord(e.key, stored[e.key], master, e.value.nonce) = {record}
      /\ \A key \in VaultKeys : DecryptRecord(record, key, master) = IF key = e.key THEN {stored[key]} ELSE {}
      /\ \A n \in 0..Len(record.body) - 1 :
           DeserializeRecord([record EXCEPT !.body = SubSeq(@, 1, n)]) = {}
      /\ DeserializeRecord([record EXCEPT !.body = @ \o @]) = {}
      /\ \A n \in (0..Len(record.body) + 1) \ {record.key_size} :
           DeserializeRecord([record EXCEPT !.key_size = n]) = {}
      /\ \A n \in (0..Len(record.body) + 1) \ {record.cipher_size} :
           DeserializeRecord([record EXCEPT !.cipher_size = n]) = {}

\* The store is a map: every key holds what was last put under it, however
\* many entries were replaced and erased before, and nothing else is found.
VaultReadsBack ==
  /\ \A key \in VaultKeys : VaultGet(key) = {stored[k] : k \in DOMAIN stored \cap {key}}
  /\ Len(entries) = Cardinality(DOMAIN stored)
  /\ master # ValidMaster => entries = <<>>
  /\ \A i \in DOMAIN entries : RecordReadsBack(entries[i])
=============================================================================
