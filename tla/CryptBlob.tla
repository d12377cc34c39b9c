-------------------------------- MODULE CryptBlob --------------------------------
(***************************************************************************)
(* The command-line side of ZethaCRYPT: keys and sealed data as hex.       *)
(* Bytes are sequences of numbers below 256. A result is <<"value", v>> or *)
(* <<"error", code>>.                                                      *)
(***************************************************************************)
EXTENDS Integers, Sequences, SequencesExt, FiniteSetsExt

LOCAL INSTANCE Bitwise

CONSTANTS
  KEY_BYTES, NONCE_BYTES, ZEROBYTES, BOXZEROBYTES,
  KeyByte(_, _, _),   \* the i-th byte of the stream of a key and a nonce
  OneTimeAuth(_, _)   \* the tag of some bytes under a key, ZEROBYTES - BOXZEROBYTES long

ASSUME BlobSizesAssumption ==
  /\ {KEY_BYTES, NONCE_BYTES, ZEROBYTES, BOXZEROBYTES} \subseteq Nat \ {0}
  /\ BOXZEROBYTES < ZEROBYTES

Value_(v) == <<"value", v>>
Error_(code) == <<"error", code>>
IsError(e) == e[1] = "error"

-----------------------------------------------------------------------------
(* Hex.                                                                    *)

HexDigits == <<"0", "1", "2", "3", "4", "5", "6", "7", "8", "9", "a", "b", "c", "d", "e", "f">>
UpperHex  == [c \in {"A", "B", "C", "D", "E", "F"} |->
                CHOOSE n \in 10..15 : <<"A", "B", "C", "D", "E", "F">>[n - 9] = c]
HexValue(c) == IF c \in DOMAIN UpperHex THEN UpperHex[c] ELSE SelectInSeq(HexDigits, LAMBDA d : d = c) - 1

HexToBytes(hex) ==
  IF Len(hex) % 2 # 0 \/ \E i \in DOMAIN hex : HexValue(hex[i]) < 0 THEN {}
  ELSE {[i \in 1..(Len(hex) \div 2) |-> 16 * HexValue(hex[2 * i - 1]) + HexValue(hex[2 * i])]}

BytesToHex(bytes) ==
  [i \in 1..(2 * Len(bytes)) |->
     LET v == bytes[(i + 1) \div 2] IN HexDigits[1 + (IF i % 2 = 1 THEN v \div 16 ELSE v % 16)]]

-----------------------------------------------------------------------------
(* crypto_secretbox of tweetnacl: the message, with zeros in front, is mixed *)
(* with a stream of key and nonce; what falls on the zeros is the key of    *)
(* the tag over the rest, and the tag takes the place of its last bytes.    *)
(* The stream and the tag themselves are parameters.                        *)

CryptoStreamXor(bytes, nonce, key) == [i \in DOMAIN bytes |-> bytes[i] ^^ KeyByte(key, nonce, i)]
Zeros(n) == [i \in 1..n |-> 0]
Beyond(bytes, n) == SubSeq(bytes, n + 1, Len(bytes))

CryptoSecretbox(padded, nonce, key) ==
  LET mixed == CryptoStreamXor(padded, nonce, key)
      rest  == Beyond(mixed, ZEROBYTES)
  IN  IF Len(padded) < ZEROBYTES THEN {}
      ELSE {Zeros(BOXZEROBYTES) \o OneTimeAuth(rest, SubSeq(mixed, 1, ZEROBYTES)) \o rest}

CryptoSecretboxOpen(padded, nonce, key) ==
  LET stream == CryptoStreamXor(Zeros(ZEROBYTES), nonce, key)
      mixed  == CryptoStreamXor(padded, nonce, key)
  IN  IF \/ Len(padded) < ZEROBYTES
         \/ SubSeq(padded, BOXZEROBYTES + 1, ZEROBYTES) # OneTimeAuth(Beyond(padded, ZEROBYTES), stream)
      THEN {} ELSE {Zeros(ZEROBYTES) \o Beyond(mixed, ZEROBYTES)}

-----------------------------------------------------------------------------
(* Keys and blobs.                                                         *)

\* generate_key_hex, for the bytes that were drawn.
GenerateKeyHex(drawnBytes) == BytesToHex(drawnBytes)

ParseHexKey(hex) ==
  LET read == HexToBytes(hex)
  IN  IF read = {} THEN Error_("InvalidArgument")
      ELSE IF \E k \in read : Len(k) # KEY_BYTES THEN Error_("KeySizeMismatch")
      ELSE Value_(CHOOSE k \in read : TRUE)

\* The nonce is drawn anew; it is an argument here.
EncryptBlob(key, data, nonce) ==
  LET sealed == CryptoSecretbox(Zeros(ZEROBYTES) \o data, nonce, key)
  IN  IF Len(key) # KEY_BYTES THEN Error_("KeySizeMismatch")
      ELSE IF sealed = {} THEN Error_("EncryptFailed")
      ELSE Value_([nonce |-> nonce, cipher |-> LET c == CHOOSE c \in sealed : TRUE
                                               IN SubSeq(c, BOXZEROBYTES + 1, Len(c))])

DecryptBlob(key, blob) ==
  LET opened == CryptoSecretboxOpen(Zeros(BOXZEROBYTES) \o blob.cipher, blob.nonce, key)
  IN  IF Len(key) # KEY_BYTES THEN Error_("KeySizeMismatch")
      ELSE IF Len(blob.nonce) # NONCE_BYTES THEN Error_("NonceSizeMismatch")
      ELSE IF opened = {} THEN Error_("AuthenticationFailed")
      ELSE Value_(LET p == CHOOSE p \in opened : TRUE IN SubSeq(p, ZEROBYTES + 1, Len(p)))

EncryptWithHexKey(hex, data, nonce) ==
  LET key == ParseHexKey(hex) IN IF IsError(key) THEN key ELSE EncryptBlob(key[2], data, nonce)
DecryptWithHexKey(hex, blob) ==
  LET key == ParseHexKey(hex) IN IF IsError(key) THEN key ELSE DecryptBlob(key[2], blob)

BlobToHex(blob) == BytesToHex(blob.nonce) \o BytesToHex(blob.cipher)

HexToBlob(hex) ==
  LET read  == HexToBytes(hex)
      bytes == CHOOSE b \in read : TRUE
  IN  IF read = {} THEN Error_("InvalidArgument")
      ELSE IF Len(bytes) < NONCE_BYTES THEN Error_("InvalidArgument")
      ELSE Value_([nonce |-> SubSeq(bytes, 1, NONCE_BYTES), cipher |-> SubSeq(bytes, NONCE_BYTES + 1, Len(bytes))])
=============================================================================
