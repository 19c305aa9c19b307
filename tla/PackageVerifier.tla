---------------------------- MODULE PackageVerifier ----------------------------
(***************************************************************************)
(* verify_package: the keys of /res/keys are loaded, then verify_file      *)
(* looks for a whole-file signature in the comment of the package.         *)
(*                                                                         *)
(* A package is a sequence of cells, one for a byte or for a field of      *)
(* fixed width: the four bytes of the end-of-central-directory marker are  *)
(* the cells of Marker, its other fields but the last are one cell, the    *)
(* comment length one, and the footer's three fields one each.             *)
(*                                                                         *)
(*   content  Marker  rest  comment length  |  ...  signature  footer      *)
(*   \-------- signed ----/                    \----- comment ------/      *)
(*                                                                         *)
(* A hash is the sequence of cells it was computed over.  The library's    *)
(* RSA_verify and ECDSA_verify compare it with what was signed.            *)
(***************************************************************************)
EXTENDS Naturals, Sequences, SequencesExt

CONSTANTS Packages,   \* set of sequences of cells
          KeyFiles,   \* set of sequences of entries [version, id, len, lists, onCurve, next]
          Sigs,       \* the signature values: cell -> [id, hash, text]
          MaxWords,   \* words of an RSA modulus, 8192 / 32 in the code
          OrderBytes, \* bytes of the order of the EC group, 32 for P-256
          Chunk,      \* cells hashed at a time, 16 MiB in the code
          Bad,        \* what a decoder returns when it fails
          Pads, Ders  \* for the properties: comments before the signature, and the blocks
                      \* a signing tool may put a signature value into

ASSUME VerifierAssumption ==
  /\ Packages \subseteq Seq(Nat)
  /\ \A f \in KeyFiles : Len(f) \in Nat /\ DOMAIN f = 1..Len(f)
  /\ Chunk \in Nat \ {0}

VARIABLES file, keyfile,   \* the input
          at,              \* the next step
          certs,           \* loadedKeys
          so_far,          \* cells hashed
          sha,             \* the two digests, by the name of their hash
          sig_der,         \* the signature value found
          key,             \* index of the next key to try
          result,          \* "none", "failure", "success"
          bus              \* setjmp returned a second time

vars == <<file, keyfile, at, certs, so_far, sha, sig_der, key, result, bus>>
input == <<file, keyfile>>

Marker == <<80, 75>>
FF == 255
FOOTER_SIZE == 3
EOCD_HEADER_SIZE == Len(Marker) + 2

-----------------------------------------------------------------------------
(* asn1_decoder: a context is the sequence of the cells left of it.          *)

kTagOctetString == 4
kTagSequence == {48, 176}      \* kMaskTag leaves the class bit out
kTagSet == {49, 177}
Constructed == 160..191
SizeOfSize == 8

(* decode_length: <<the length, the cells after it>>.  The long form gives   *)
(* the number of cells that hold the length, most significant first.         *)
decode_length(c) ==
  LET n == c[1] % 128
      digits == SubSeq(c, 2, n + 1)
  IN CASE c = <<>> -> Bad
       [] c # <<>> /\ c[1] < 128 -> <<c[1], Tail(c)>>
       [] c # <<>> /\ c[1] >= 128 /\ (n >= SizeOfSize \/ Len(c) < n + 1) -> Bad
       [] OTHER -> <<FoldLeft(LAMBDA v, d : v * 256 + d, 0, digits), SubSeq(c, n + 2, Len(c))>>

Tagged(c, tags) == c # Bad /\ c # <<>> /\ Head(c) \in tags

(* asn1_sequence_get, asn1_set_get, asn1_constructed_get: the contents.      *)
Contents(c, tags) ==
  IF ~Tagged(c, tags) THEN Bad
  ELSE LET l == decode_length(Tail(c))
       IN IF l = Bad THEN Bad
          ELSE IF l[1] > Len(l[2]) THEN Bad ELSE SubSeq(l[2], 1, l[1])

(* asn1_octet_string_get: an empty one is refused as well.                   *)
OctetString(c) ==
  LET s == Contents(c, {kTagOctetString}) IN IF s = <<>> THEN Bad ELSE s

(* asn1_sequence_next: what follows the first element, whatever its tag.     *)
AfterFirst(c) ==
  IF c = Bad \/ c = <<>> THEN Bad
  ELSE LET l == decode_length(Tail(c))
       IN IF l = Bad THEN Bad
          ELSE IF l[1] > Len(l[2]) THEN Bad ELSE SubSeq(l[2], l[1] + 1, Len(l[2]))

After(c, n) == FoldLeft(LAMBDA x, i : AfterFirst(x), c, [i \in 1..n |-> i])

(* A mistake: only the certificates are skipped, not the revocations. *)
Mutasn1_constructed_skip_all(c) ==
  IF Tagged(c, Constructed) THEN AfterFirst(c) ELSE c

(* asn1_constructed_skip_all: the optional elements; something must follow.  *)
asn1_constructed_skip_all(c) ==
  LET rest == IF c = Bad THEN Bad
              ELSE FoldLeft(LAMBDA x, i : IF Tagged(x, Constructed) THEN AfterFirst(x) ELSE x,
                            c, [i \in DOMAIN c |-> i])
  IN IF rest = <<>> THEN Bad ELSE rest

(* The signature value of the first signer of a PKCS#7 SignedData.           *)
read_pkcs7(der) ==
  LET content == Contents(AfterFirst(Contents(der, kTagSequence)), Constructed)
      signed_data == After(Contents(content, kTagSequence), 3)
      sig_set == Contents(asn1_constructed_skip_all(signed_data), kTagSet)
  IN OctetString(After(Contents(sig_set, kTagSequence), 4))

-----------------------------------------------------------------------------
(* load_keys.  A key that starts with neither a brace nor a version is read  *)
(* as RSA with no hash, and never used.                                      *)

Hash(version) == CASE version \in {1, 2} -> "sha1"
                   [] version \in {3, 4, 5} -> "sha256"
                   [] OTHER -> "none"
KeyType(version) == IF version = 5 THEN "EC" ELSE "RSA"
KnownVersions == 0..5

(* The numbers of a key: its length, then the modulus and R^2, or the two    *)
(* coordinates.  One number at least is read of the modulus and of R^2; the  *)
(* coordinates have to be those of a point of the curve.                     *)
parse_rsa_key(e) ==
  e.len <= MaxWords /\ \A i \in 1..2 : e.lists[i] = IF e.len = 0 THEN 1 ELSE e.len
parse_ec_key(e) == e.len = OrderBytes /\ (\A i \in 1..2 : e.lists[i] = e.len) /\ e.onCurve
Parses(e) == /\ e.version \in KnownVersions
             /\ IF KeyType(e.version) = "RSA" THEN parse_rsa_key(e) ELSE parse_ec_key(e)

Fail == result' = "failure" /\ at' = "done"
Untouched == UNCHANGED <<input, certs, so_far, sha, sig_der, key, bus>>

(* One key: its version, its numbers, and what follows: a comma, the end, or  *)
(* something else.                                                           *)
load_keys ==
  /\ at = "keys"
  /\ LET n == Len(certs) + 1
         more == n <= Len(keyfile)
         e == keyfile[n]
     IN \/ /\ more => ~Parses(e)
           /\ Fail /\ Untouched
        \/ /\ more /\ Parses(e)
           /\ certs' = Append(certs, [id |-> e.id, hash |-> Hash(e.version), type |-> KeyType(e.version)])
           /\ at' = CASE e.next = "comma" -> "keys" [] e.next = "end" -> "footer" [] OTHER -> "done"
           /\ result' = IF e.next \in {"comma", "end"} THEN result ELSE "failure"
           /\ UNCHANGED <<input, so_far, sha, sig_der, key, bus>>

-----------------------------------------------------------------------------
(* verify_file.                                                              *)

length == Len(file)
footer == [signature_start |-> file[length - 2], ff |-> file[length - 1], comment_size |-> file[length]]
eocd_size == footer.comment_size + EOCD_HEADER_SIZE
eocd == SubSeq(file, length - eocd_size + 1, length)

signed_len == length - eocd_size + EOCD_HEADER_SIZE - 1

MarkerAt(s, i) == i + Len(Marker) - 1 <= Len(s) /\ SubSeq(s, i, i + Len(Marker) - 1) = Marker

FooterOk ==
  /\ length >= FOOTER_SIZE
  /\ footer.ff = FF
  /\ footer.signature_start <= footer.comment_size
  /\ footer.signature_start > FOOTER_SIZE
  /\ length >= eocd_size

(* A mistake: a later marker is not looked for. *)
MutEocdOk == MarkerAt(eocd, 1)

(* The record is where the footer says, and no later marker could be taken   *)
(* for it by the reader of the archive.                                      *)
EocdOk ==
  /\ MarkerAt(eocd, 1)
  /\ \A i \in (Len(Marker) + 1)..Len(eocd) : ~MarkerAt(eocd, i)

ReadFooter ==
  /\ at = "footer"
  /\ \/ FooterOk /\ EocdOk /\ at' = "hash" /\ UNCHANGED result
     \/ ~(FooterOk /\ EocdOk) /\ Fail
  /\ Untouched

Needed == {certs[i].hash : i \in DOMAIN certs}

(* Each digest that some key needs is updated with the next chunk.           *)
HashChunk ==
  /\ at = "hash" /\ so_far < signed_len
  /\ LET size == IF signed_len - so_far < Chunk THEN signed_len - so_far ELSE Chunk
     IN /\ sha' = [h \in DOMAIN sha |->
                     IF h \in Needed THEN sha[h] \o SubSeq(file, so_far + 1, so_far + size) ELSE sha[h]]
        /\ so_far' = so_far + size
  /\ UNCHANGED <<input, at, certs, sig_der, key, result, bus>>

ReadSignature ==
  /\ at = "hash" /\ so_far >= signed_len
  /\ LET start == length - footer.signature_start
         der == read_pkcs7(SubSeq(file, start + 1, length - FOOTER_SIZE))
     IN \/ der = Bad /\ Fail /\ UNCHANGED sig_der
        \/ der # Bad /\ sig_der' = der /\ at' = "try" /\ UNCHANGED result
  /\ UNCHANGED <<input, certs, so_far, sha, key, bus>>

(* RSA_verify and ECDSA_verify.                                              *)
Verifies(cert, hash, signature) ==
  /\ signature[1] \in DOMAIN Sigs /\ Len(signature) = 1
  /\ Sigs[signature[1]] = [id |-> cert.id, hash |-> cert.hash, text |-> hash]

(* One key of the loop.                                                      *)
TryKey ==
  /\ at = "try" /\ key <= Len(certs)
  /\ LET c == certs[key]
         fits == c.hash # "none" /\ (c.type = "EC" => c.hash = "sha256")
     IN IF fits /\ Verifies(c, sha[c.hash], sig_der)
        THEN result' = "success" /\ at' = "done"
        ELSE UNCHANGED <<result, at>>
  /\ key' = key + 1
  /\ UNCHANGED <<input, certs, so_far, sha, sig_der, bus>>

NoKeyLeft == at = "try" /\ key > Len(certs) /\ Fail /\ Untouched

(* The package is mapped: a page that cannot be read raises SIGBUS, and      *)
(* verify_package jumps out of verify_file.                                  *)
sig_bus ==
  /\ at \in {"footer", "hash"} /\ Fail /\ bus' = TRUE
  /\ UNCHANGED <<input, certs, so_far, sha, sig_der, key>>

Done == at = "done" /\ UNCHANGED vars

Init ==
  /\ file \in Packages /\ keyfile \in KeyFiles
  /\ at = "keys" /\ certs = <<>> /\ so_far = 0
  /\ sha = [h \in {"sha1", "sha256"} |-> <<>>]
  /\ sig_der = Bad /\ key = 1 /\ result = "none" /\ bus = FALSE

Next == load_keys \/ ReadFooter \/ HashChunk \/ ReadSignature \/ TryKey \/ NoKeyLeft \/ sig_bus \/ Done
Spec == Init /\ [][Next]_vars

Certs == [id : {keyfile[k].id : k \in DOMAIN keyfile}, hash : {"sha1", "sha256", "none"},
          type : {"EC", "RSA"}]

(* The state is well typed: a digest is of cells, a loaded key has the       *)
(* identity of a key of the file.                                            *)
TypeOK ==
  /\ file \in Packages /\ keyfile \in KeyFiles
  /\ at \in {"keys", "footer", "hash", "try", "done"}
  /\ certs \in Seq(Certs)
  /\ so_far \in Nat /\ key \in Nat \ {0}
  /\ sha \in [{"sha1", "sha256"} -> Seq(Nat)]
  /\ result \in {"none", "failure", "success"} /\ bus \in BOOLEAN

-----------------------------------------------------------------------------
(* The archive reader (libziparchive) takes the last marker of the file for  *)
(* the end of the central directory.                                         *)
ReaderEocd == CHOOSE i \in DOMAIN file : MarkerAt(file, i) /\ \A j \in (i + 1)..length : ~MarkerAt(file, j)

(* What the signing tool appends to a text: the comment length, a comment    *)
(* that ends with the signature block, and the footer.                       *)
Comment(pad, der) == pad \o der \o <<Len(der) + FOOTER_SIZE, FF, Len(pad \o der) + FOOTER_SIZE>>
SignedPackage(text, pad, der) == text \o <<Len(Comment(pad, der))>> \o Comment(pad, der)

(* A package that is accepted is one that the holder of a key of /res/keys   *)
(* signed, up to and including the directory that the archive reader will    *)
(* then use: nothing unsigned is read from it (verifier.cpp, verify_file).   *)
AcceptedWasSigned ==
  result = "success" =>
    \E s \in DOMAIN Sigs, k \in DOMAIN keyfile :
      /\ Sigs[s].id = keyfile[k].id /\ Sigs[s].hash = Hash(keyfile[k].version)
      /\ Sigs[s].text = SubSeq(file, 1, ReaderEocd + EOCD_HEADER_SIZE - 2)

MadeWith(s) ==
  \E pad \in Pads, der \in Ders[s] :
    /\ file = SignedPackage(Sigs[s].text, pad, der)
    /\ \A i \in (Len(Sigs[s].text) - 1)..length : ~MarkerAt(file, i)

KeyFileOk == \A k \in DOMAIN keyfile :
  /\ Parses(keyfile[k])
  /\ keyfile[k].next = IF k = Len(keyfile) THEN "end" ELSE "comma"

(* A package made by the signing tool with one of the keys is accepted,      *)
(* whatever the other keys, the comment before the signature and the form of *)
(* the block, unless a page could not be read or a marker happens to occur   *)
(* in the comment (verifier.cpp, verify_file and read_pkcs7).                *)
SignedIsAccepted ==
  at = "done" /\ ~bus /\ KeyFileOk =>
    \A s \in DOMAIN Sigs :
      MadeWith(s) /\ (\E k \in DOMAIN keyfile : /\ Sigs[s].id = keyfile[k].id
                                                /\ Sigs[s].hash = Hash(keyfile[k].version))
        => result = "success"
=============================================================================
