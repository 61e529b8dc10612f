------------------------------- MODULE DidAuth -------------------------------
(***************************************************************************)
(* A client's DID, the signature of its calls, and the server's check of   *)
(* both: base58btc, did:key and the knock JWS of src/did.go, the signer of *)
(* src/client.go and src/http.go, and verifyAuth of src/server/auth.go.    *)
(*                                                                         *)
(* Bytes are digits of ByteBase (256), characters of the alphabet digits   *)
(* of TextBase (58); Stranger is a character outside it.  An Ed25519       *)
(* signature verifies with the public key of its private key only.         *)
(***************************************************************************)
EXTENDS Integers, SequencesExt

CONSTANTS
    ByteBase, TextBase,
    Multicodec,   \* the bytes 0xed 0x01
    KeyLength,    \* ed25519KeyLength
    MaxBytes,     \* bound on the bytes of a JWK's x
    Calls,        \* calls of the API: [method, path, body]
    ApiKeys,      \* API keys that somebody has configured
    None

ASSUME DidAssumption ==
    /\ ByteBase \in Nat /\ TextBase \in Nat /\ 1 < TextBase /\ TextBase < ByteBase
    /\ Multicodec \in [1 .. 2 -> 0 .. ByteBase - 1] /\ Multicodec[1] > 0
    /\ KeyLength \in 1 .. MaxBytes /\ MaxBytes \in Nat
    /\ Calls \subseteq [method : STRING, path : STRING, body : STRING]
    /\ None \notin Calls /\ None \notin ApiKeys /\ None \notin Seq(Nat)

VARIABLES
    x,          \* the bytes of the JWK's public key
    did,        \* the client's DID, as the text after "did:key:z", or None
    apiKey,     \* the client's API key, or None
    serverKey,  \* Config.APIKey, or None
    sent,       \* the call on its way, with its headers
    info        \* the server's authInfo or refusal, or None before that

didVars == <<x, did, apiKey, serverKey, sent, info>>

Bytes == 0 .. ByteBase - 1
Stranger == TextBase

-----------------------------------------------------------------------------
(* base58btc.  Both directions are the same two loops with the bases       *)
(* swapped.  Digits are little-endian until the end.                       *)

Spill(carry, to) ==
    LET spill[c \in Nat] == IF c = 0 THEN <<>> ELSE <<c % to>> \o spill[c \div to]
    IN  spill[carry]

(* Mutant of Shift: a digit that overflows is left as it is. *)
ShiftNoCarry(digits, carry, from, to) ==
    [i \in DOMAIN digits |-> digits[i] * from] \o Spill(carry, to)

(* digits * from + carry; left[i] is the carry after digit i. *)
Shift(digits, carry, from, to) ==
    LET left[i \in 0 .. Len(digits)] ==
            IF i = 0 THEN carry ELSE (left[i - 1] + digits[i] * from) \div to
    IN  [i \in 1 .. Len(digits) |-> (left[i - 1] + digits[i] * from) % to]
            \o Spill(left[Len(digits)], to)

(* The digits of all of data. *)
Digits(data, from, to) ==
    LET digits[i \in 0 .. Len(data)] ==
            IF i = 0 THEN <<>> ELSE Shift(digits[i - 1], data[i], from, to)
    IN  digits[Len(data)]

LeadingZeros(data) ==
    Cardinality({i \in DOMAIN data : \A j \in 1 .. i : data[j] = 0})

(* Mutant of Convert: zeros in front are lost. *)
ConvertValueOnly(data, from, to) == Reverse(Digits(data, from, to))

Convert(data, from, to) ==
    [i \in 1 .. LeadingZeros(data) |-> 0] \o Reverse(Digits(data, from, to))

Base58btcEncode(data) == Convert(data, ByteBase, TextBase)

Base58btcDecode(text) ==
    IF Stranger \in ToSet(text) THEN None ELSE Convert(text, TextBase, ByteBase)

-----------------------------------------------------------------------------
(* did:key.                                                                *)

DidKeyFromPublicJWK(raw) ==
    IF Len(raw) = KeyLength THEN Base58btcEncode(Multicodec \o raw) ELSE None

(* Mutant of DidKeyToPublicJWK: the key is taken from the end. *)
DidKeyToPublicJWKFromEnd(text) ==
    LET decoded == Base58btcDecode(text)
    IN  IF decoded # None /\ Len(decoded) >= Len(Multicodec) + KeyLength
        THEN SubSeq(decoded, Len(decoded) - KeyLength + 1, Len(decoded))
        ELSE None

DidKeyToPublicJWK(text) ==
    LET decoded == Base58btcDecode(text)
    IN  IF /\ decoded # None
           /\ Len(decoded) = Len(Multicodec) + KeyLength
           /\ SubSeq(decoded, 1, 2) = Multicodec
        THEN SubSeq(decoded, 3, Len(decoded))
        ELSE None

-----------------------------------------------------------------------------
(* The client.                                                             *)

DidInit ==
    /\ x \in UNION {[1 .. n -> Bytes] : n \in 0 .. MaxBytes}
    /\ did = None
    /\ apiKey \in ApiKeys \cup {None}
    /\ serverKey \in ApiKeys \cup {None}
    /\ sent = None
    /\ info = None

(* GenerateIdentity, or LoadIdentity of a file that it has written. *)
Derive ==
    /\ did = None /\ sent = None
    /\ DidKeyFromPublicJWK(x) # None
    /\ did' = DidKeyFromPublicJWK(x)
    /\ UNCHANGED <<x, apiKey, serverKey, sent, info>>

(* The caller gives a key with a DID that was copied by hand: a character  *)
(* is changed, lost or put in front.  Nothing compares the two. *)
Miscopy ==
    /\ did # None /\ sent = None
    /\ did = DidKeyFromPublicJWK(x)
    /\ \E i \in DOMAIN did, c \in 0 .. Stranger :
            did' \in {[did EXCEPT ![i] = c], RemoveAt(did, i), <<c>> \o did}
    /\ UNCHANGED <<x, apiKey, serverKey, sent, info>>

(* SignKnockJWS binds the method, the path without its query, and the hash *)
(* of the body. *)
SignKnockJWS(call) == IF did = None THEN None ELSE call

(* doRequest with the API key and the signer that NewClient has set; it    *)
(* demands one of them. *)
Send(call) ==
    /\ sent = None
    /\ apiKey # None \/ did # None
    /\ sent' = [call |-> call, claims |-> SignKnockJWS(call)]
    /\ UNCHANGED <<x, did, apiKey, serverKey, info>>

(* The headers of one call reach the server with another: a caller, or     *)
(* a proxy, that repeats them. *)
Repeat(call) ==
    /\ sent # None /\ info = None
    /\ call # sent.call
    /\ sent' = [sent EXCEPT !.call = call]
    /\ UNCHANGED <<x, did, apiKey, serverKey, info>>

-----------------------------------------------------------------------------
(* verifyAuth: the API key first, then the signature.                      *)

VerifyKnockJWS == DidKeyToPublicJWK(did) = x

(* A claim that is absent is not compared.  SignKnockJWS writes all three. *)
VerifyJWSPayload(claims, call) ==
    \A part \in {"method", "path", "body"} \cap DOMAIN claims : claims[part] = call[part]

By(method, id) == [method |-> method, did |-> id]

(* Mutant of VerifyAuth: a wrong API key is refused at once. *)
VerifyAuthKeyOnly ==
    CASE apiKey # None /\ apiKey = serverKey -> By("apikey", None)
      [] apiKey = None /\ sent.claims # None /\ VerifyKnockJWS /\ VerifyJWSPayload(sent.claims, sent.call) ->
            By("did", did)
      [] OTHER -> By("401", None)

VerifyAuth ==
    CASE serverKey # None /\ apiKey = serverKey -> By("apikey", None)
      [] apiKey # serverKey \/ serverKey = None ->
            IF sent.claims # None /\ VerifyKnockJWS /\ VerifyJWSPayload(sent.claims, sent.call)
            THEN By("did", did)
            ELSE By("401", None)

Serve ==
    /\ sent # None /\ info = None
    /\ info' = VerifyAuth
    /\ UNCHANGED <<x, did, apiKey, serverKey, sent>>

DidNext ==
    \/ Derive \/ Miscopy \/ Serve
    \/ \E call \in Calls : Send(call) \/ Repeat(call)

DidSpec == DidInit /\ [][DidNext]_didVars

-----------------------------------------------------------------------------
(* The text of a DID is over the alphabet, or a miscopy of it. *)
DidTypeOK ==
    /\ x \in Seq(Bytes)
    /\ did = None \/ did \in Seq(0 .. Stranger)
    /\ apiKey \in ApiKeys \cup {None} /\ serverKey \in ApiKeys \cup {None}
    /\ sent = None \/ (sent.call \in Calls /\ sent.claims \in Calls \cup {None})
    /\ info = None \/ info \in {By("401", None), By("apikey", None), By("did", did)}

(* base58btc loses nothing, for bytes with any zeros in front, and every   *)
(* text that decodes to a key is the one text which that key encodes to:   *)
(* knocks are kept by the text of the DID, so that a key must have one.    *)
OneDidPerKey ==
    /\ Base58btcDecode(Base58btcEncode(x)) = x
    /\ did # None /\ DidKeyToPublicJWK(did) # None =>
            DidKeyFromPublicJWK(DidKeyToPublicJWK(did)) = did

(* A call is served exactly when the client has the server's API key, or   *)
(* signs it with the key that its DID is derived from; it is served under  *)
(* that DID only if it was not served by the API key; and what was signed  *)
(* is what is served.  All claims are the SDK's, none of which is absent.  *)
ServedAsSigned ==
    info # None =>
        LET keyed  == apiKey # None /\ apiKey = serverKey
            signed == did = DidKeyFromPublicJWK(x) /\ did # None /\ sent.claims = sent.call
        IN  /\ (info.method # "401") = (keyed \/ signed)
            /\ info.method # "401" => info.did = IF keyed THEN None ELSE did

=============================================================================
