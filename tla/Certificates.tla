---------------------------- MODULE Certificates ----------------------------
(***************************************************************************)
(* Keys and certificates of DTLS: the objects of OpenSSL and who owns them *)
(* (rtc_base/openssl_key_pair.cc, openssl_certificate.cc,                  *)
(* openssl_identity.cc, ssl_certificate.cc), their texts and dates         *)
(* (ssl_identity.cc, rtc_certificate.cc, rtc_certificate_generator.cc),    *)
(* digests and fingerprints (message_digest.cc, openssl_digest.cc,         *)
(* ssl_fingerprint.cc), and the certificate of the program                 *)
(* (utils/global.cpp).                                                     *)
(*                                                                         *)
(* An EVP_PKEY or an X509 is an object with a number of references; those  *)
(* that OpenSSL itself keeps inside of one are left out.  A PEM text is    *)
(* the sequence of the sections in it.                                     *)
(***************************************************************************)
EXTENDS Clocks, Text, FiniteSets, Bitwise

CONSTANTS
  Objects,      \* bound: objects alive at once, 1 .. n
  Identities,   \* bound: the identities the program holds
  kChunkSize    \* characters in a line of a PEM text

VARIABLES
  pool,         \* object -> its references, none: free
  ids,          \* identity -> << >> or <<[key, chain]>>
  ssl_ctx,          \* what an SSL_CTX refers to: the leaf, the key and the chain
  err,          \* the oldest entry in OpenSSL's queue of errors
  whole         \* the last chain read with an empty queue was all of the text

certVars == <<pool, ids, ssl_ctx, err, whole>>

CertInit ==
  /\ pool = [o \in Objects |-> 0]
  /\ ids = [i \in Identities |-> << >>]
  /\ ssl_ctx = << >> /\ err = "none" /\ whole = TRUE

-----------------------------------------------------------------------------
FreshObject(h) == CHOOSE o \in Objects : h[o] = 0 /\ \A p \in Objects : p < o => h[p] > 0
Roomy(h) == Cardinality({o \in Objects : h[o] = 0}) >= 3

NewObject(h, o) == [h EXCEPT ![o] = 1]
UpRef(h, o) == [h EXCEPT ![o] = @ + 1]
Unref(h, o) == [h EXCEPT ![o] = @ - 1]
FreeAll(h, os) == FoldLeft(Unref, h, os)

(* The oldest error stays the one that ERR_peek_error tells. *)
PushError(e, what) == IF e = "none" THEN what ELSE e

(* A new X509 comes with a reference, OpenSSLCertificate takes its own, and
   then X509_free gives back the first: Generate and FromPEMString. *)
Wrap(h, o) == Unref(UpRef(NewObject(h, o), o), o)

(* KeyParams::IsValid, and what MakeKey has a branch for. *)
IsValid(p) ==
  \/ p.type = "RSA" /\ p.mod_size \in 1024 .. 8192 /\ p.pub_exp > p.mod_size
  \/ p.type = "ECDSA" /\ p.curve = "P256"
MakesKey(p) == p.type = "RSA" \/ (p.type = "ECDSA" /\ p.curve = "P256")

RSAParams(mod, exp) == [type |-> "RSA", mod_size |-> mod, pub_exp |-> exp, curve |-> "none"]
ECParams(curve) == [type |-> "ECDSA", mod_size |-> 0, pub_exp |-> 0, curve |-> curve]
TriedParams == {RSAParams(1024, 65537), RSAParams(512, 65537), RSAParams(2048, 3),
                ECParams("P256"), ECParams("last")}

(* GenerateCertificate, Create, CreateInternal: the key, then the certificate
   over it; when that fails the key goes with its pair.  LogSSLErrors empties
   the queue. *)
GenerateIdentity(i) ==
  \E p \in TriedParams, key_made, cert_made \in BOOLEAN :
    LET k == FreshObject(pool)
        h1 == NewObject(pool, k)
        c == FreshObject(h1)
    IN  /\ IsValid(p) /\ ids[i] = << >>
        /\ key_made => MakesKey(p)
        /\ pool' = CASE key_made /\ cert_made -> Wrap(h1, c)
                     [] OTHER -> Unref(h1, k)
        /\ ids' = IF key_made /\ cert_made THEN [ids EXCEPT ![i] = <<[key |-> k, chain |-> <<c>>]>>]
                  ELSE ids
        /\ err' = IF key_made /\ cert_made THEN err ELSE "none"
        /\ UNCHANGED <<ssl_ctx, whole>>

(* CloneInternal: AddReference on the key, a new OpenSSLCertificate each. *)
Clone(i, j) ==
  /\ ids[i] # << >> /\ ids[j] = << >>
  /\ pool' = FoldLeft(UpRef, UpRef(pool, ids[i][1].key), ids[i][1].chain)
  /\ ids' = [ids EXCEPT ![j] = ids[i]] /\ UNCHANGED <<ssl_ctx, err, whole>>

(* FromPrivateKeyPEMString: a key without parameters is freed. *)
ReadKey(h, e, pem) ==
  LET o == FreshObject(h)
  IN  CASE pem = "key" -> [pool |-> NewObject(h, o), err |-> e, key |-> <<o>>]
        [] pem = "no_params" -> [pool |-> Unref(NewObject(h, o), o), err |-> e, key |-> << >>]
        [] pem = "none" -> [pool |-> h, err |-> PushError(e, "no_start_line"), key |-> << >>]
        [] pem = "junk" -> [pool |-> h, err |-> PushError(e, "bad"), key |-> << >>]

(* The last steps of both CreateFromPEM functions: the key is read after the
   certificates, which go when there is none. *)
Finish(i, r, keyText) ==
  LET k == ReadKey(r.pool, r.err, keyText)
  IN  IF r.fails
      THEN pool' = FreeAll(r.pool, r.certs) /\ err' = r.err /\ UNCHANGED ids
      ELSE /\ err' = k.err
           /\ pool' = IF k.key = << >> THEN FreeAll(k.pool, r.certs) ELSE k.pool
           /\ ids' = IF k.key = << >> THEN ids
                     ELSE [ids EXCEPT ![i] = <<[key |-> k.key[1], chain |-> r.certs]>>]

(* CreateFromPEMStrings, and RTCCertificate::FromPEM of what ToPEM wrote: the
   first section of the text. *)
FromPEM(i, pem, keyText) ==
  /\ ids[i] = << >> /\ UNCHANGED <<ssl_ctx, whole>>
  /\ LET o == FreshObject(pool)
     IN  Finish(i, IF pem # << >> /\ Head(pem) = "cert"
                   THEN [pool |-> Wrap(pool, o), err |-> err, certs |-> <<o>>, fails |-> FALSE]
                   ELSE [pool |-> pool, certs |-> << >>, fails |-> TRUE,
                         err |-> PushError(err, IF pem = << >> THEN "no_start_line" ELSE "bad")],
                keyText)

(* CreateFromPEMChainStrings: the loop ends at the error that the queue tells
   first, which may be one of an earlier call. *)
ReadChain(pem) ==
  LET step(a, section) ==
        LET o == FreshObject(a.pool) IN
        CASE a.stop -> a
          [] ~a.stop /\ section = "cert" ->
               [a EXCEPT !.pool = Wrap(@, o), !.certs = Append(@, o)]
          [] ~a.stop /\ section = "junk" ->
               [a EXCEPT !.stop = TRUE, !.err = PushError(@, "bad")]
      a == FoldLeft(step, [pool |-> pool, err |-> err, certs |-> << >>, stop |-> FALSE], pem)
      e == IF a.stop THEN a.err ELSE PushError(a.err, "no_start_line")
  IN  [pool |-> a.pool, err |-> e, certs |-> a.certs,
       fails |-> e # "no_start_line" \/ a.certs = << >>]

FromPEMChain(i, pem, keyText) ==
  /\ ids[i] = << >> /\ UNCHANGED ssl_ctx
  /\ LET r == ReadChain(pem)
     IN  /\ Finish(i, r, keyText)
         /\ whole' = (err = "none" /\ ~r.fails => Len(r.certs) = Len(pem))

DestroyIdentity(i) ==
  /\ ids[i] # << >> /\ ids' = [ids EXCEPT ![i] = << >>]
  /\ pool' = FreeAll(Unref(pool, ids[i][1].key), ids[i][1].chain)
  /\ UNCHANGED <<ssl_ctx, err, whole>>

(* ConfigureIdentity: each call of OpenSSL may fail, as it does for a key that
   does not belong to the certificate; what was set stays in the context. *)
ConfigureIdentity(i) ==
  /\ ssl_ctx = << >> /\ ids[i] # << >>
  /\ LET id == ids[i][1]
         all == <<id.chain[1], id.key>> \o Tail(id.chain)
     IN  \E n \in 0 .. Len(all) :
           /\ ssl_ctx' = SubSeq(all, 1, n) /\ pool' = FoldLeft(UpRef, pool, SubSeq(all, 1, n))
           /\ err' = IF n = Len(all) THEN err ELSE "none"
           /\ UNCHANGED <<ids, whole>>

FreeContext ==
  /\ ssl_ctx # << >> /\ ssl_ctx' = << >> /\ pool' = FreeAll(pool, ssl_ctx)
  /\ UNCHANGED <<ids, err, whole>>

PemTexts == {<< >>, <<"cert">>, <<"junk">>, <<"cert", "cert">>, <<"cert", "junk">>}
KeyTexts == {"key", "no_params", "none", "junk"}

CertNext ==
  \/ \E i \in Identities :
       \/ Roomy(pool) /\ GenerateIdentity(i)
       \/ Roomy(pool) /\ \E pem \in PemTexts, keyText \in KeyTexts :
                           \/ FromPEM(i, pem, keyText)
                           \/ FromPEMChain(i, pem, keyText)
       \/ \E j \in Identities : Clone(i, j)
       \/ DestroyIdentity(i) \/ ConfigureIdentity(i)
  \/ FreeContext

(* As many references as owners: nothing leaks on any path of failure, and
   nothing that is in use is freed.  A chain that was read with no old error in
   the queue is the whole text. *)
Owners(o) ==
  Cardinality({i \in Identities : ids[i] # << >> /\ ids[i][1].key = o})
    + Cardinality({<<i, n>> \in Identities \X (1 .. 3) :
                     ids[i] # << >> /\ n <= Len(ids[i][1].chain) /\ ids[i][1].chain[n] = o})
    + Cardinality({n \in DOMAIN ssl_ctx : ssl_ctx[n] = o})

CertificatesOwned ==
  /\ \A o \in Objects : pool[o] = Owners(o)
  /\ whole

-----------------------------------------------------------------------------
(* Dates of certificates: digits, and 10 is the letter Z. *)
Zulu == 10

(* ASN1TimeToSec: year, month, day, hour, minute, second, whatever the length;
   only what has exactly the right length is a date.  Days and seconds of the
   day are kept apart. *)
ASN1TimeToSec(s, long_format) ==
  LET At(i) == IF i <= Len(s) THEN s[i] ELSE 0
      y == IF long_format THEN 4 ELSE 2
      Two(n) == 10 * At(y + 2 * n - 1) + At(y + 2 * n)
      year == IF long_format THEN 1000 * s[1] + 100 * s[2] + 10 * s[3] + s[4]
              ELSE 1900 + 10 * s[1] + s[2] + (IF 10 * s[1] + s[2] < 50 THEN 100 ELSE 0)
      shortest == IF long_format THEN 11 ELSE 9
  IN  IF \/ Len(s) < shortest \/ s[Len(s)] # Zulu
         \/ \E i \in 1 .. Len(s) - 1 : s[i] = Zulu
         \/ Len(s) # y + 11
      THEN << >>
      ELSE LET days == TmToDays([year |-> year, month |-> Two(1) - 1, day |-> Two(2)])
               secs == TmToSecondOfDay(Two(3), Two(4), Two(5))
           IN  IF days = -1 \/ secs = -1 THEN << >> ELSE <<days, secs>>

(* What X509_time_adj writes: two digits of the year until 2049. *)
ASN1Time(d, time) ==
  LET Two(v) == <<v \div 10, v % 10>>
      year == IF d.year < 2050 THEN Two(d.year % 100)
              ELSE Two(d.year \div 100) \o Two(d.year % 100)
  IN  year \o Two(d.month + 1) \o Two(d.day) \o Two(time[1]) \o Two(time[2])
           \o Two(time[3]) \o <<Zulu>>

(* CreateWithExpiration over GenerateCertificate's limit of a year, in days:
   the certificate's [not_before, not_after], from a day ago on. *)
kYear == 365
Lifetime(now, expires) ==
  LET l == IF expires < kYear THEN expires ELSE kYear
  IN  IF now - 1 > now + l THEN << >> ELSE <<now - 1, now + l>>
HasExpired(expires, now) == expires <= now

(* _generate_and_check_certificate: a year from now, unless there is one. *)
GenerateAndCheck(cert, now) ==
  IF cert = << >> \/ HasExpired(cert[2], now) THEN Lifetime(now, kYear) ELSE cert

(* The date in a certificate is the one it was made for, in both formats, and a
   text that lost a digit is none.  The program's certificate is good for a
   year, and not a day longer. *)
DatesReadBack ==
  LET secs == <<23, 59, 8>>
      s == ASN1Time(date, secs)
      long == date.year >= 2050
  IN  /\ ASN1TimeToSec(s, long) = <<walked, (23 * 60 + 59) * 60 + 8>>
      /\ ASN1TimeToSec(Tail(s), long) = << >> /\ ASN1TimeToSec(<<0>> \o s, long) = << >>
      /\ ASN1TimeToSec(SubSeq(s, 1, Len(s) - 3) \o <<Zulu>>, long) = << >>
      /\ LET l == GenerateAndCheck(<< >>, walked)
         IN  /\ l = Lifetime(walked, 1000)
             /\ GenerateAndCheck(l, walked + kYear - 1) = l
             /\ GenerateAndCheck(l, walked + kYear)[2] = walked + 2 * kYear

-----------------------------------------------------------------------------
(* PEM texts: Base64 with the header, the trailer and the ends of lines. *)
BeginLine == 70
EndLine == 71

(* DerToPem. *)
DerToPem(der) ==
  LET b == Base64Encode(der)
      chunks == (Len(b) + kChunkSize - 1) \div kChunkSize
      Line(i) == LET last == IF i * kChunkSize < Len(b) THEN i * kChunkSize ELSE Len(b)
                 IN  SubSeq(b, (i - 1) * kChunkSize + 1, last) \o <<White>>
  IN  <<BeginLine, White>> \o FlattenSeq([i \in 1 .. chunks |-> Line(i)]) \o <<EndLine, White>>

(* PemToDer: the trailer is looked for from the start of the text; one before
   the body makes a length that wraps, which is the rest of the text. *)
PemToDer(s) ==
  LET Find(c, from) == SelectInSubSeq(s, from, Len(s), LAMBDA x : x = c)
      header == Find(BeginLine, 1)
      body == IF header = 0 THEN 0 ELSE Find(White, header)
      trailer == Find(EndLine, 1)
  IN  IF header = 0 \/ body = 0 \/ trailer = 0 THEN << >>
      ELSE <<Base64Decode(SubSeq(s, body + 1, IF trailer > body THEN trailer - 1 ELSE Len(s)),
                          "white", "any", "buffer").out>>

(* What is written as PEM reads back, whatever text is before and behind it. *)
PemReadsBack ==
  alphabet = "bytes" =>
    /\ PemToDer(DerToPem(text)) = <<text>>
    /\ PemToDer(<<90, White>> \o DerToPem(text) \o DerToPem(<<1>>)) = <<text>>
    /\ PemToDer(Tail(DerToPem(text))) = << >>

-----------------------------------------------------------------------------
(* GetDigestEVP, GetDigestSize; 0 is an unknown name. *)
Algorithms == {"md5", "sha-1", "sha-224", "sha-256", "sha-384", "sha-512"}
GetDigestSize(alg) ==
  CASE alg = "md5" -> 16 [] alg = "sha-1" -> 20 [] alg = "sha-224" -> 28
    [] alg = "sha-256" -> 32 [] alg = "sha-384" -> 48 [] alg = "sha-512" -> 64 [] OTHER -> 0

IsFips180DigestAlgorithm(alg) == alg \in Algorithms \ {"md5"}

(* GetSignatureDigestAlgorithm: the families of signatures with each digest. *)
GetSignatureDigestAlgorithm(nid) ==
  CASE nid[1] = "rsa" /\ nid[2] = "md5" -> "md5"
    [] nid[1] \in {"rsa", "dsa", "ecdsa"} /\ nid[2] \in {"sha-1", "sha-224", "sha-256"} -> nid[2]
    [] nid[1] \in {"rsa", "ecdsa"} /\ nid[2] \in {"sha-384", "sha-512"} -> nid[2]
    [] OTHER -> ""

(* Stands for a digest: of the right size, and every byte counts. *)
DigestOf(alg, bytes) ==
  LET n == GetDigestSize(alg)
      At(i) == IF bytes = << >> THEN 0 ELSE bytes[(i % Len(bytes)) + 1]
  IN  [i \in 1 .. n |-> FoldLeft(LAMBDA v, k : (v * 31 + At(i + 16 * k)) % 256, Len(bytes),
                                <<0, 1, 2, 3, 4, 5, 6, 7, 8>>)]

(* OpenSSLDigest: what Update gave it; Finish starts over, unless the result
   has no room. *)
DigestFinish(alg, in, out_len) ==
  IF out_len < GetDigestSize(alg) THEN [out |-> << >>, in |-> in]
  ELSE [out |-> DigestOf(alg, in), in |-> << >>]

(* ComputeHmac over a digest that was given in before. *)
kBlockSize == 64
ComputeHmac(alg, in, key, input, out_len) ==
  LET long == DigestFinish(alg, in \o key, kBlockSize)
      hashed == Len(key) > kBlockSize
      k == IF hashed THEN long.out ELSE key
      new_key == [i \in 1 .. kBlockSize |-> IF i <= Len(k) THEN k[i] ELSE 0]
      i_pad == [i \in 1 .. kBlockSize |-> 54 ^^ new_key[i]]
      o_pad == [i \in 1 .. kBlockSize |-> 92 ^^ new_key[i]]
      inner == DigestFinish(alg, (IF hashed THEN long.in ELSE in) \o i_pad \o input,
                            GetDigestSize(alg))
  IN  IF GetDigestSize(alg) > 32 THEN [out |-> << >>, in |-> in]
      ELSE DigestFinish(alg, inner.in \o o_pad \o inner.out, out_len)

(* SSLFingerprint::Create, GetRfc4572Fingerprint, CreateUniqueFromRfc4572. *)
kMaxSize == 64
Fingerprint(alg, cert) ==
  IF GetDigestSize(alg) = 0 \/ kMaxSize < GetDigestSize(alg) THEN << >>
  ELSE <<[algorithm |-> alg, digest |-> DigestOf(alg, cert)]>>
GetRfc4572Fingerprint(f) == HexEncode(f.digest)
FromRfc4572(alg, s) ==
  IF ~IsFips180DigestAlgorithm(alg) \/ s = << >> \/ HexDecode(s, kMaxSize) = << >> THEN << >>
  ELSE <<[algorithm |-> alg, digest |-> HexDecode(s, kMaxSize)]>>

(* SSLCertChain::GetStats over the certificates' signatures: each one linked to
   the next, from the last on. *)
GetStats(chain) ==
  FoldRight(LAMBDA nid, issuer : IF GetSignatureDigestAlgorithm(nid) = "" THEN << >>
                                 ELSE <<nid>> \o issuer,
            chain, << >>)

Signatures == {<<"ecdsa", "sha-256">>, <<"rsa", "md5">>, <<"dsa", "sha-512">>}

(* A fingerprint survives its text for every algorithm but MD5, and no other
   algorithm may stand for it; an HMAC is the one of RFC 2104 for short and long
   keys and leaves the digest as it found it, when there is room for it; the
   statistics of a chain end before the first unknown signature. *)
DigestsRight ==
  /\ \A alg \in Algorithms \cup {"crc"} :
       LET f == Fingerprint(alg, <<1, 2, 3>>)
       IN  /\ f = << >> <=> alg = "crc"
           /\ f # << >> =>
                /\ FromRfc4572(alg, GetRfc4572Fingerprint(f[1])) = IF alg = "md5" THEN << >> ELSE f
                /\ FromRfc4572(alg, Append(GetRfc4572Fingerprint(f[1]), Delimiter)) = << >>
  /\ \A alg \in Algorithms, n \in {0, 3, 64, 65, 130} :
       LET key == [i \in 1 .. n |-> (i * 7) % 256]
           k == IF n > 64 THEN DigestOf(alg, key) ELSE key
           Padded(x) == [i \in 1 .. 64 |-> IF i <= Len(k) THEN k[i] ^^ x ELSE x]
           r == ComputeHmac(alg, << >>, key, <<5, 6>>, 32)
       IN  /\ r.in = << >>
           /\ r.out = IF alg \in {"sha-384", "sha-512"} THEN << >>
                      ELSE DigestOf(alg, Padded(92) \o DigestOf(alg, Padded(54) \o <<5, 6>>))
  /\ \A a, b, c \in Signatures :
       LET chain == <<a, b, c>>
           known == {n \in 0 .. 3 : \A i \in 1 .. n : GetSignatureDigestAlgorithm(chain[i]) # ""}
       IN  GetStats(chain) = SubSeq(chain, 1, CHOOSE n \in known : \A m \in known : m <= n)
=============================================================================
