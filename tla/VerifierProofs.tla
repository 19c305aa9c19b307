---------------------------- MODULE VerifierProofs ----------------------------
(***************************************************************************)
(* Proofs about the two verifiers.                                         *)
(*                                                                         *)
(* PackageVerifier: what verify_package accepts, for every package, every  *)
(* file of keys and every set of signatures.                               *)
(*                                                                         *)
(* BootControl: when update_verifier marks a slot, for every care map and  *)
(* any number of threads, reboots and updates.                             *)
(***************************************************************************)
EXTENDS PackageVerifier, BootControl, SequenceTheorems, TLAPS

(* The two cells of a marker.                                                *)
LEMMA MarkerCells ==
  ASSUME NEW s \in Seq(Nat), NEW i \in Nat \ {0}
  PROVE  MarkerAt(s, i) <=> i + 1 <= Len(s) /\ s[i] = 80 /\ s[i + 1] = 75
<1>1. Len(Marker) = 2 /\ Marker[1] = 80 /\ Marker[2] = 75 /\ Marker \in Seq(Nat)
  BY DEF Marker
<1>2. MarkerAt(s, i) <=> i + 1 <= Len(s) /\ SubSeq(s, i, i + 1) = Marker
  BY <1>1 DEF MarkerAt
<1> SUFFICES ASSUME i + 1 <= Len(s)
             PROVE  SubSeq(s, i, i + 1) = Marker <=> s[i] = 80 /\ s[i + 1] = 75
  BY <1>2
<1> DEFINE t == SubSeq(s, i, i + 1)
<1>3. t \in Seq(Nat) /\ Len(t) = 2 /\ t[1] = s[i] /\ t[2] = s[i + 1]
  BY SubSeqProperties
<1> HIDE DEF t
<1>4. t = Marker <=> t[1] = 80 /\ t[2] = 75
  <2>1. ASSUME t[1] = 80, t[2] = 75 PROVE t = Marker
    <3>1. \A j \in 1..Len(t) : t[j] = Marker[j]
      BY <1>1, <1>3, <2>1
    <3>2. Len(t) = Len(Marker)
      BY <1>1, <1>3
    <3> HIDE DEF Marker
    <3> QED BY <1>1, <1>3, <3>1, <3>2, SeqEqual, Zenon
  <2> QED BY <1>1, <2>1
<1> QED BY <1>3, <1>4 DEF t

(* A marker of a suffix is a marker of the sequence.                         *)
LEMMA MarkerOfSuffix ==
  ASSUME NEW s \in Seq(Nat), NEW d \in Nat, d <= Len(s), NEW i \in Nat \ {0}
  PROVE  MarkerAt(SubSeq(s, d + 1, Len(s)), i) <=> MarkerAt(s, d + i)
<1> DEFINE t == SubSeq(s, d + 1, Len(s))
<1>1. t \in Seq(Nat) /\ Len(t) = Len(s) - d
  OBVIOUS
<1>2. \A j \in 1..Len(t) : t[j] = s[d + j]
  BY <1>1
<1> HIDE DEF t
<1>3. MarkerAt(t, i) <=> i + 1 <= Len(t) /\ t[i] = 80 /\ t[i + 1] = 75
  BY <1>1, MarkerCells
<1>4. MarkerAt(s, d + i) <=> d + i + 1 <= Len(s) /\ s[d + i] = 80 /\ s[d + i + 1] = 75
  BY MarkerCells
<1> QED
  <2>1. CASE i + 1 <= Len(t)
    <3>1. t[i] = s[d + i] /\ t[i + 1] = s[d + (i + 1)]
      BY <1>1, <1>2, <2>1
    <3>2. d + (i + 1) = d + i + 1 /\ d + i + 1 <= Len(s)
      BY <1>1, <2>1
    <3>3. MarkerAt(t, i) <=> MarkerAt(s, d + i)
      BY <1>3, <1>4, <2>1, <3>1, <3>2
    <3> QED BY <3>3 DEF t
  <2>2. CASE ~(i + 1 <= Len(t))
    <3>1. ~(d + i + 1 <= Len(s))
      BY <1>1, <2>2
    <3> QED BY <1>3, <1>4, <2>2, <3>1 DEF t
  <2> QED BY <2>1, <2>2

-----------------------------------------------------------------------------
(* Where the record begins, by the footer.                                   *)
Begin == length - eocd_size + 1

(* A footer that passes puts the record into the file, and the signed part   *)
(* ends two cells after its marker.                                          *)
LEMMA FooterPlaces ==
  ASSUME file \in Seq(Nat), FooterOk
  PROVE  /\ Begin \in 1..length /\ eocd_size \in Nat /\ eocd_size >= 4
         /\ length \in Nat
         /\ signed_len = Begin + EOCD_HEADER_SIZE - 2 /\ signed_len \in 0..length
<1>1. length \in Nat /\ length >= 3
  BY DEF length, FooterOk, FOOTER_SIZE
<1>2. file[length] \in Nat
  BY <1>1 DEF length
<1>3. footer.comment_size = file[length]
  BY DEF footer
<1>4. EOCD_HEADER_SIZE = 4
  BY DEF EOCD_HEADER_SIZE, Marker
<1>5. eocd_size = file[length] + 4 /\ eocd_size <= length
  BY <1>3, <1>4 DEF eocd_size, FooterOk
<1>6. signed_len = length - eocd_size + 3
  BY <1>1, <1>2, <1>4, <1>5 DEF signed_len
<1>7. Begin = length - eocd_size + 1
  BY DEF Begin
<1> HIDE DEF Begin, signed_len, length, eocd_size
<1>8. eocd_size \in Nat /\ eocd_size >= 4 /\ length - eocd_size \in Nat
  BY <1>1, <1>2, <1>5
<1>9. Begin \in 1..length
  BY <1>1, <1>7, <1>8
<1>10. signed_len = Begin + EOCD_HEADER_SIZE - 2
  BY <1>1, <1>4, <1>6, <1>7, <1>8
<1>11. signed_len \in 0..length
  BY <1>1, <1>6, <1>8
<1> QED BY <1>1, <1>8, <1>9, <1>10, <1>11

(* The last marker of a file that passes is that of the record.              *)
LEMMA ReaderAgrees ==
  ASSUME file \in Seq(Nat), FooterOk, EocdOk
  PROVE  ReaderEocd = Begin
<1> DEFINE d == length - eocd_size
<1>1. d \in Nat /\ d <= Len(file) /\ Begin = d + 1 /\ length = Len(file) /\ length \in Nat
      /\ Begin \in 1..length
  BY FooterPlaces DEF Begin, length
<1>2. eocd = SubSeq(file, d + 1, Len(file))
  BY <1>1 DEF eocd
<1>3. Len(eocd) = Len(file) - d /\ eocd \in Seq(Nat)
  BY <1>1, <1>2
<1> HIDE DEF d
<1>4. \A i \in Nat \ {0} : MarkerAt(eocd, i) <=> MarkerAt(file, d + i)
  BY <1>1, <1>2, MarkerOfSuffix
<1>5. MarkerAt(file, Begin)
  BY <1>1, <1>4 DEF EocdOk
<1>6. ASSUME NEW j \in (Begin + 1)..length PROVE ~MarkerAt(file, j)
  <2>1. j - d \in Nat \ {0} /\ d + (j - d) = j /\ j - d >= 2 /\ j - d <= Len(eocd)
    BY <1>1, <1>3
  <2>2. CASE j - d = 2
    <3>1. file[Begin + 1] = 75
      BY <1>1, <1>5, MarkerCells
    <3>2. j = Begin + 1 /\ j \in Nat \ {0}
      BY <1>1, <2>1, <2>2
    <3> QED BY <3>1, <3>2, MarkerCells
  <2>3. CASE j - d >= 3
    <3>1. Len(Marker) + 1 = 3
      BY DEF Marker
    <3>2. ~MarkerAt(eocd, j - d)
      BY <1>3, <2>1, <2>3, <3>1 DEF EocdOk
    <3> QED BY <1>4, <2>1, <3>2
  <2> QED BY <2>1, <2>2, <2>3
<1>7. DOMAIN file = 1..length
  BY <1>1
<1>8. ASSUME NEW i \in DOMAIN file, MarkerAt(file, i), \A j \in (i + 1)..length : ~MarkerAt(file, j)
      PROVE  i = Begin
  <2>1. ~(i < Begin)
    BY <1>1, <1>5, <1>7, <1>8
  <2>2. ~(i > Begin)
    BY <1>1, <1>6, <1>7, <1>8
  <2> QED BY <1>1, <1>7, <2>1, <2>2
<1> QED BY <1>1, <1>5, <1>6, <1>7, <1>8 DEF ReaderEocd

-----------------------------------------------------------------------------
Hashes == {"sha1", "sha256"}
Cert(e) == [id |-> e.id, hash |-> Hash(e.version), type |-> KeyType(e.version)]

(* The keys that are loaded are those of the file, in its order.             *)
KeysLoaded ==
  /\ Len(certs) <= Len(keyfile)
  /\ \A k \in 1..Len(certs) : certs[k] = Cert(keyfile[k])

(* A digest is of the file up to so_far, which does not pass the end of the  *)
(* signed part; a signature is looked for only when it has reached it.       *)
Digested ==
  /\ \A h \in Hashes : sha[h] = IF h \in Needed THEN SubSeq(file, 1, so_far) ELSE <<>>
  /\ at \in {"keys", "footer"} => so_far = 0
  /\ at \in {"hash", "try"} => FooterOk /\ EocdOk /\ so_far <= signed_len
  /\ at = "try" => so_far = signed_len
  /\ at # "done" => result = "none"

IInv == TypeOK /\ KeysLoaded /\ Digested /\ AcceptedWasSigned

LEMMA Input == TypeOK => /\ file \in Seq(Nat) /\ Len(keyfile) \in Nat /\ DOMAIN keyfile = 1..Len(keyfile)
BY VerifierAssumption DEF TypeOK

LEMMA CertIsCert ==
  ASSUME NEW k \in DOMAIN keyfile
  PROVE  Cert(keyfile[k]) \in Certs
BY DEF Cert, Certs, Hash, KeyType

(* AcceptedWasSigned is about the input and the result only.                 *)
LEMMA AcceptedStays ==
  ASSUME AcceptedWasSigned, UNCHANGED input, result' \in {result, "none", "failure"}
  PROVE  AcceptedWasSigned'
BY DEF AcceptedWasSigned, ReaderEocd, length, MarkerAt, input

LEMMA PlacesStay ==
  ASSUME UNCHANGED input
  PROVE  FooterOk' = FooterOk /\ EocdOk' = EocdOk /\ signed_len' = signed_len
BY DEF FooterOk, EocdOk, signed_len, eocd, eocd_size, footer, length, MarkerAt, input

-----------------------------------------------------------------------------
LEMMA LoadStep == IInv /\ load_keys => IInv'
<1> SUFFICES ASSUME IInv, load_keys PROVE IInv'
  OBVIOUS
<1> DEFINE n == Len(certs) + 1
           c == Cert(keyfile[n])
<1>1. UNCHANGED <<input, so_far, sha, sig_der, key, bus>> /\ at = "keys"
  BY DEF load_keys, Untouched
<1>2. CASE Fail /\ Untouched
  <2>1. TypeOK'
    BY <1>2 DEF IInv, TypeOK, Fail, Untouched, input, Certs
  <2>2. KeysLoaded'
    BY <1>2 DEF IInv, KeysLoaded, Untouched, input
  <2>3. Digested'
    BY <1>2 DEF IInv, Digested, Fail, Untouched, input, Needed
  <2>4. AcceptedWasSigned'
    BY <1>1, <1>2, AcceptedStays DEF IInv, Fail
  <2> QED BY <2>1, <2>2, <2>3, <2>4 DEF IInv
<1>3. CASE /\ n <= Len(keyfile) /\ certs' = Append(certs, c)
           /\ at' \in {"keys", "footer", "done"} /\ result' \in {result, "failure"}
           /\ at' # "done" => result' = result
  <2>1. certs \in Seq(Certs) /\ n \in DOMAIN keyfile /\ c \in Certs /\ Certs' = Certs
    <3>1. certs \in Seq(Certs) /\ Len(certs) \in Nat
      BY DEF IInv, TypeOK
    <3>2. n \in DOMAIN keyfile
      BY <1>3, <3>1, Input DEF IInv
    <3>3. c \in Certs
      BY <3>2, CertIsCert
    <3>4. Certs' = Certs
      BY <1>1 DEF Certs, input
    <3> QED BY <3>1, <3>2, <3>3, <3>4
  <2>2. /\ certs' \in Seq(Certs) /\ Len(certs') = n /\ certs'[n] = c
        /\ \A k \in 1..Len(certs) : certs'[k] = certs[k]
    BY <1>3, <2>1
  <2>3. TypeOK'
    BY <1>1, <1>3, <2>1, <2>2 DEF IInv, TypeOK, input
  <2>4. KeysLoaded'
    <3>1. ASSUME NEW k \in 1..Len(certs') PROVE certs'[k] = Cert(keyfile[k])
      <4>1. CASE k = n
        BY <2>2, <4>1
      <4>2. CASE k # n
        <5>1. k \in 1..Len(certs)
          BY <2>1, <2>2, <4>2
        <5> QED BY <2>2, <5>1 DEF IInv, KeysLoaded
      <4> QED BY <4>1, <4>2
    <3> QED BY <1>1, <1>3, <2>2, <3>1 DEF KeysLoaded, input
  <2>5. Digested'
    <3>1. so_far = 0 /\ SubSeq(file, 1, so_far) = <<>>
      BY <1>1, SubSeqEmpty DEF IInv, Digested
    <3>2. \A h \in Hashes : sha[h] = <<>>
      BY <3>1 DEF IInv, Digested
    <3>3. result = "none"
      BY <1>1 DEF IInv, Digested
    <3> QED BY <1>1, <1>3, <3>1, <3>2, <3>3 DEF Digested, input
  <2>6. AcceptedWasSigned'
    BY <1>1, <1>3, AcceptedStays DEF IInv
  <2> QED BY <2>3, <2>4, <2>5, <2>6 DEF IInv
<1> QED BY <1>2, <1>3 DEF load_keys, Cert, Fail

LEMMA FooterStep == IInv /\ ReadFooter => IInv'
<1> SUFFICES ASSUME IInv, ReadFooter PROVE IInv'
  OBVIOUS
<1>1. Untouched /\ at = "footer" /\ UNCHANGED input
  BY DEF ReadFooter, Untouched
<1>2. TypeOK' /\ KeysLoaded'
  BY <1>1 DEF IInv, TypeOK, KeysLoaded, ReadFooter, Fail, Untouched, input, Certs
<1>3. Digested'
  <2>1. CASE FooterOk /\ EocdOk /\ at' = "hash" /\ UNCHANGED result
    <3>1. so_far <= signed_len
      BY <1>1, <2>1, Input, FooterPlaces DEF IInv, Digested
    <3> QED BY <1>1, <2>1, <3>1, PlacesStay DEF IInv, Digested, Untouched, Needed, input
  <2>2. CASE Fail
    BY <1>1, <2>2 DEF IInv, Digested, Fail, Untouched, Needed, input
  <2> QED BY <2>1, <2>2 DEF ReadFooter
<1>4. AcceptedWasSigned'
  BY <1>1, AcceptedStays DEF IInv, ReadFooter, Fail
<1> QED BY <1>2, <1>3, <1>4 DEF IInv

LEMMA ChunkStep == IInv /\ HashChunk => IInv'
<1> SUFFICES ASSUME IInv, HashChunk PROVE IInv'
  OBVIOUS
<1> DEFINE size == IF signed_len - so_far < Chunk THEN signed_len - so_far ELSE Chunk
<1>1. /\ at = "hash" /\ so_far < signed_len /\ so_far' = so_far + size
      /\ sha' = [h \in DOMAIN sha |->
                   IF h \in Needed THEN sha[h] \o SubSeq(file, so_far + 1, so_far + size) ELSE sha[h]]
      /\ UNCHANGED <<input, at, certs, sig_der, key, result, bus>>
  BY DEF HashChunk
<1>2. file \in Seq(Nat) /\ so_far \in Nat /\ signed_len \in 0..Len(file) /\ Len(file) \in Nat
  BY <1>1, Input, FooterPlaces DEF IInv, TypeOK, Digested, length
<1>3. size \in Nat /\ so_far + size <= signed_len /\ so_far + size <= Len(file) /\ so_far + size \in Nat
  BY <1>1, <1>2, VerifierAssumption
<1> HIDE DEF size
<1>4. SubSeq(file, 1, so_far) \o SubSeq(file, so_far + 1, so_far + size) = SubSeq(file, 1, so_far + size)
  BY <1>2, <1>3, ConcatAdjacentSubSeq
<1>5. SubSeq(file, 1, so_far') \in Seq(Nat)
  BY <1>1, <1>2, <1>3
<1>6. DOMAIN sha = Hashes
  BY DEF IInv, TypeOK, Hashes
<1>7. Needed' = Needed
  BY <1>1 DEF Needed
<1>8. \A h \in Hashes : sha'[h] = IF h \in Needed THEN SubSeq(file, 1, so_far') ELSE <<>>
  BY <1>1, <1>4, <1>6 DEF IInv, Digested
<1>9. sha' \in [Hashes -> Seq(Nat)]
  <2>1. DOMAIN sha' = Hashes /\ sha' = [h \in Hashes |-> sha'[h]]
    BY <1>1, <1>6
  <2>2. <<>> \in Seq(Nat)
    OBVIOUS
  <2> QED BY <1>5, <1>8, <2>1, <2>2
<1>10. TypeOK'
  BY <1>1, <1>3, <1>9 DEF IInv, TypeOK, input, Certs, Hashes
<1>11. KeysLoaded'
  BY <1>1 DEF IInv, KeysLoaded, input
<1>12. Digested'
  BY <1>1, <1>3, <1>7, <1>8, PlacesStay DEF IInv, Digested, input
<1>13. AcceptedWasSigned'
  BY <1>1, AcceptedStays DEF IInv
<1> QED BY <1>10, <1>11, <1>12, <1>13 DEF IInv

LEMMA SignatureStep == IInv /\ ReadSignature => IInv'
<1> SUFFICES ASSUME IInv, ReadSignature PROVE IInv'
  OBVIOUS
<1>1. /\ at = "hash" /\ so_far >= signed_len /\ UNCHANGED <<input, certs, so_far, sha, key, bus>>
      /\ Fail \/ (at' = "try" /\ UNCHANGED result)
  BY DEF ReadSignature
<1>2. so_far = signed_len
  BY <1>1, Input, FooterPlaces DEF IInv, TypeOK, Digested, length
<1>3. TypeOK' /\ KeysLoaded'
  BY <1>1 DEF IInv, TypeOK, KeysLoaded, Fail, input, Certs
<1>4. Digested'
  BY <1>1, <1>2, PlacesStay DEF IInv, Digested, Fail, Needed, input
<1>5. AcceptedWasSigned'
  BY <1>1, AcceptedStays DEF IInv, Fail
<1> QED BY <1>3, <1>4, <1>5 DEF IInv

(* The key that fits the signature value has the hash of the digest, and the *)
(* digest is of what the archive reader will see.                            *)
LEMMA TryStep == IInv /\ TryKey => IInv'
<1> SUFFICES ASSUME IInv, TryKey PROVE IInv'
  OBVIOUS
<1> DEFINE c == certs[key]
<1>1. /\ at = "try" /\ key <= Len(certs) /\ key' = key + 1
      /\ UNCHANGED <<input, certs, so_far, sha, sig_der, bus>>
  BY DEF TryKey
<1>2. CASE UNCHANGED <<result, at>>
  <2>1. TypeOK' /\ KeysLoaded'
    BY <1>1, <1>2 DEF IInv, TypeOK, KeysLoaded, input, Certs
  <2>2. Digested'
    BY <1>1, <1>2, PlacesStay DEF IInv, Digested, Needed, input
  <2>3. AcceptedWasSigned'
    BY <1>1, <1>2, AcceptedStays DEF IInv
  <2> QED BY <2>1, <2>2, <2>3 DEF IInv
<1>3. CASE /\ c.hash # "none" /\ Verifies(c, sha[c.hash], sig_der)
           /\ result' = "success" /\ at' = "done"
  <2>1. TypeOK' /\ KeysLoaded'
    BY <1>1, <1>3 DEF IInv, TypeOK, KeysLoaded, input, Certs
  <2>2. Digested'
    BY <1>1, <1>3 DEF IInv, Digested, Needed, input
  <2>3. key \in 1..Len(certs) /\ key \in DOMAIN keyfile
    BY <1>1, Input DEF IInv, TypeOK, KeysLoaded
  <2>4. c = Cert(keyfile[key]) /\ c.hash \in Needed
    BY <2>3 DEF IInv, KeysLoaded, Needed, TypeOK
  <2>5. c.id = keyfile[key].id /\ c.hash = Hash(keyfile[key].version) /\ c.hash \in Hashes
    BY <1>3, <2>4 DEF Cert, Hash, Hashes
  <2>6. sha[c.hash] = SubSeq(file, 1, signed_len)
    BY <1>1, <2>4, <2>5 DEF IInv, Digested
  <2>7. signed_len = ReaderEocd + EOCD_HEADER_SIZE - 2
    BY <1>1, Input, FooterPlaces, ReaderAgrees DEF IInv, Digested
  <2>8. PICK s \in DOMAIN Sigs : Sigs[s] = [id |-> c.id, hash |-> c.hash, text |-> sha[c.hash]]
    BY <1>3 DEF Verifies
  <2>9. /\ Sigs[s].id = keyfile[key].id /\ Sigs[s].hash = Hash(keyfile[key].version)
        /\ Sigs[s].text = SubSeq(file, 1, ReaderEocd + EOCD_HEADER_SIZE - 2)
    BY <2>5, <2>6, <2>7, <2>8
  <2>10. AcceptedWasSigned'
    <3>1. file' = file /\ keyfile' = keyfile /\ ReaderEocd' = ReaderEocd
      BY <1>1 DEF input, ReaderEocd, length, MarkerAt
    <3> QED BY <2>3, <2>9, <3>1 DEF AcceptedWasSigned
  <2> QED BY <2>1, <2>2, <2>10 DEF IInv
<1> QED BY <1>2, <1>3 DEF TryKey

LEMMA OtherStep == IInv /\ (NoKeyLeft \/ sig_bus \/ Done \/ UNCHANGED vars) => IInv'
<1> SUFFICES ASSUME IInv, NoKeyLeft \/ sig_bus \/ Done \/ UNCHANGED vars PROVE IInv'
  OBVIOUS
<1>1. CASE NoKeyLeft \/ sig_bus
  <2>1. UNCHANGED <<input, certs, so_far, sha, key>> /\ Fail /\ bus' \in {bus, TRUE}
    BY <1>1 DEF NoKeyLeft, sig_bus, Untouched
  <2>2. TypeOK'
    <3>1. bus' \in BOOLEAN
      BY <2>1, Zenon DEF IInv, TypeOK
    <3>2. /\ file' = file /\ keyfile' = keyfile /\ certs' = certs /\ so_far' = so_far /\ sha' = sha
          /\ key' = key /\ at' = "done" /\ result' = "failure"
      BY <2>1 DEF Fail, input
    <3> QED BY <3>1, <3>2, Zenon DEF IInv, TypeOK, Certs
  <2>5. KeysLoaded'
    BY <2>1 DEF IInv, KeysLoaded, Fail, input
  <2>3. Digested'
    BY <2>1 DEF IInv, Digested, Fail, Needed, input
  <2>4. AcceptedWasSigned'
    BY <2>1, AcceptedStays DEF IInv, Fail
  <2> QED BY <2>2, <2>3, <2>4, <2>5 DEF IInv
<1>2. CASE Done \/ UNCHANGED vars
  <2>1. UNCHANGED <<input, at, certs, so_far, sha, key, result, bus>>
    BY <1>2 DEF Done, vars, input
  <2>2. TypeOK' /\ KeysLoaded'
    BY <2>1 DEF IInv, TypeOK, KeysLoaded, input, Certs
  <2>3. Digested'
    BY <2>1, PlacesStay DEF IInv, Digested, Needed, input
  <2>4. AcceptedWasSigned'
    BY <2>1, AcceptedStays DEF IInv
  <2> QED BY <2>2, <2>3, <2>4 DEF IInv
<1> QED BY <1>1, <1>2

LEMMA InitIInv == Init => IInv
<1> SUFFICES ASSUME Init PROVE IInv
  OBVIOUS
<1>1. certs \in Seq(Certs) /\ Len(certs) = 0 /\ Needed = {}
  BY DEF Init, Needed
<1>2. TypeOK
  <2>1. sha \in [Hashes -> Seq(Nat)]
    <3>1. <<>> \in Seq(Nat)
      OBVIOUS
    <3> QED BY <3>1 DEF Init, Hashes
  <2>2. bus \in BOOLEAN
    BY Zenon DEF Init
  <2>3. /\ file \in Packages /\ keyfile \in KeyFiles /\ at = "keys" /\ so_far = 0 /\ key = 1
        /\ result = "none"
    BY DEF Init
  <2> QED BY <1>1, <2>1, <2>2, <2>3 DEF TypeOK, Hashes
<1>3. KeysLoaded
  BY <1>1, <1>2, Input DEF KeysLoaded
<1>4. Digested
  BY <1>1 DEF Init, Digested, Hashes
<1>5. AcceptedWasSigned
  BY DEF Init, AcceptedWasSigned
<1> QED BY <1>2, <1>3, <1>4, <1>5 DEF IInv

LEMMA Invariance == Spec => []IInv
<1>1. IInv /\ [Next]_vars => IInv'
  BY LoadStep, FooterStep, ChunkStep, SignatureStep, TryStep, OtherStep DEF Next
<1> QED BY InitIInv, <1>1, PTL DEF Spec

(* The variables of the verifier keep their types: what is hashed are cells, *)
(* and a loaded key is one of the file (verifier.cpp).                       *)
THEOREM TypeCorrect == Spec => []TypeOK
<1>1. IInv => TypeOK
  BY DEF IInv
<1> QED BY Invariance, <1>1, PTL

(* Whatever the package and the keys are: what verify_file accepts was       *)
(* signed by the holder of one of the keys, with the hash of that key, and   *)
(* reaches up to the directory that the archive reader uses.                 *)
THEOREM OnlySignedIsAccepted == Spec => []AcceptedWasSigned
<1>1. IInv => AcceptedWasSigned
  BY DEF IInv
<1> QED BY Invariance, <1>1, PTL

-----------------------------------------------------------------------------
(* BootControl: what update_verifier vouches for.                            *)

USE DEF Slots, kMaxNumSlots

Misc == [ok : BOOLEAN, nb_slot : 0..kMaxNumSlots, slot_info : [Slots -> SlotInfo]]

LEMMA SetPriority ==
  ASSUME NEW x \in SlotInfo, NEW p \in 0..15
  PROVE  [x EXCEPT !.priority = p] \in SlotInfo /\ [x EXCEPT !.priority = p].successful = x.successful
BY DEF SlotInfo

LEMMA SetTries ==
  ASSUME NEW x \in SlotInfo, NEW t \in 0..7
  PROVE  [x EXCEPT !.tries = t] \in SlotInfo /\ [x EXCEPT !.tries = t].successful = x.successful
BY DEF SlotInfo

LEMMA SetCorrupted ==
  ASSUME NEW x \in SlotInfo, NEW b \in BOOLEAN
  PROVE  [x EXCEPT !.corrupted = b] \in SlotInfo /\ [x EXCEPT !.corrupted = b].successful = x.successful
BY DEF SlotInfo

LEMMA SetSuccessful ==
  ASSUME NEW x \in SlotInfo, NEW b \in BOOLEAN
  PROVE  [x EXCEPT !.successful = b] \in SlotInfo /\ [x EXCEPT !.successful = b].successful = b
BY DEF SlotInfo

LEMMA NbSlot == nb_slot \in 0..kMaxNumSlots
<1> DEFINE S == BootPartitions \cup {-1}
           last == Max(S)
<1>1. S \subseteq -1..3
  BY SlotAssumption
<1>2. PICK x \in S : \A y \in S : x >= y
  <2>1. CASE 3 \in S
    BY <1>1, <2>1
  <2>2. CASE 3 \notin S /\ 2 \in S
    BY <1>1, <2>2
  <2>3. CASE 3 \notin S /\ 2 \notin S /\ 1 \in S
    BY <1>1, <2>3
  <2>4. CASE 3 \notin S /\ 2 \notin S /\ 1 \notin S /\ 0 \in S
    BY <1>1, <2>4
  <2>5. CASE 3 \notin S /\ 2 \notin S /\ 1 \notin S /\ 0 \notin S
    BY <1>1, <2>5
  <2> QED BY <2>1, <2>2, <2>3, <2>4, <2>5
<1>3. last \in S
  <2> HIDE DEF S
  <2> QED BY <1>2 DEF Max
<1>4. last \in -1..3
  BY <1>1, <1>3
<1>5. nb_slot = last + 1 \/ nb_slot = kMaxNumSlots
  BY DEF nb_slot
<1>6. last # -1 \/ nb_slot = kMaxNumSlots
  BY DEF nb_slot
<1> HIDE DEF last
<1> QED BY <1>4, <1>5, <1>6

LEMMA DefaultMisc ==
  ASSUME NEW slot \in Slots
  PROVE  /\ InitDefault(slot) \in Misc /\ InitDefault(slot).ok
         /\ \A s \in Slots : InitDefault(slot).slot_info[s].successful <=> s = slot
<1> DEFINE one(s) == [priority   |-> IF s < nb_slot THEN 7 ELSE 0,
                      tries      |-> IF s < nb_slot THEN kDefaultBootAttempts ELSE 0,
                      successful |-> s = slot,
                      corrupted  |-> FALSE]
           info == [s \in Slots |-> one(s)]
<1>1. ASSUME NEW s \in Slots PROVE one(s) \in SlotInfo /\ (one(s).successful <=> s = slot)
  <2> DEFINE good == s = slot
             first == IF s < nb_slot THEN 7 ELSE 0
  <2>1. good \in BOOLEAN /\ first \in 0..7 /\ first \in 0..15
    OBVIOUS
  <2>2. one(s) = [priority |-> first, tries |-> first, successful |-> good, corrupted |-> FALSE]
    BY DEF kDefaultBootAttempts
  <2> HIDE DEF one, first, good
  <2>3. one(s) \in SlotInfo /\ one(s).successful = good
    BY <2>1, <2>2 DEF SlotInfo
  <2> QED BY <2>3 DEF good
<1>2. InitDefault(slot) = [ok |-> TRUE, nb_slot |-> nb_slot, slot_info |-> info]
  BY DEF InitDefault
<1> HIDE DEF one
<1>3. info \in [Slots -> SlotInfo] /\ \A s \in Slots : info[s].successful <=> s = slot
  BY <1>1
<1> HIDE DEF info
<1> QED BY <1>2, <1>3, NbSlot DEF Misc

LEMMA SaveMisc ==
  ASSUME misc \in Misc, NEW info \in [Slots -> SlotInfo], Save(info)
  PROVE  misc' \in Misc /\ misc'.slot_info = info
BY DEF Save, Misc

LEMMA SaveDamage ==
  ASSUME BootTypeOK, NEW info, Save(info)
  PROVE  damage' \in {"none", "damaged", "sealed"}
BY DEF Save, BootTypeOK

(* What a step may do to the marks: it marks the current slot, or no slot    *)
(* that was not marked.                                                      *)
LEMMA MarkMisc ==
  ASSUME misc \in Misc, NEW slot \in Slots, MarkBootSuccessful(slot)
  PROVE  misc' \in Misc /\ \A s \in Slots \ {slot} :
           misc'.slot_info[s].successful = misc.slot_info[s].successful
<1> DEFINE f == [misc.slot_info[slot] EXCEPT !.successful = TRUE, !.tries = 1]
           info == [misc.slot_info EXCEPT ![slot] = f]
<1>0. misc.slot_info[slot] \in SlotInfo /\ misc.slot_info \in [Slots -> SlotInfo]
  BY DEF Misc
<1>1. f \in SlotInfo /\ f.successful = TRUE
  <2> DEFINE y == [misc.slot_info[slot] EXCEPT !.successful = TRUE]
  <2>1. y \in SlotInfo /\ y.successful = TRUE
    BY <1>0, SetSuccessful
  <2>2. f = [y EXCEPT !.tries = 1] /\ 1 \in 0..7
    OBVIOUS
  <2> HIDE DEF y, f
  <2>3. f \in SlotInfo /\ f.successful = y.successful
    BY <2>1, <2>2, SetTries
  <2> QED BY <2>1, <2>3
<1>2. Save(info)
  <2>1. [misc.slot_info EXCEPT ![slot].successful = TRUE, ![slot].tries = 1] = info
    BY <1>0
  <2> QED BY <2>1 DEF MarkBootSuccessful
<1> HIDE DEF f
<1>3. info \in [Slots -> SlotInfo] /\ \A s \in Slots \ {slot} : info[s] = misc.slot_info[s]
  BY <1>0, <1>1
<1> HIDE DEF info
<1> QED BY <1>2, <1>3, SaveMisc

LEMMA ActiveMisc ==
  ASSUME misc \in Misc, NEW slot \in Slots, SetActiveBootSlot(slot)
  PROVE  misc' \in Misc /\ \A s \in Slots :
           misc'.slot_info[s].successful = misc.slot_info[s].successful
<1> DEFINE one(s) ==
             LET info == misc.slot_info[s]
             IN  IF s = slot
                 THEN [info EXCEPT !.priority = kActivePriority, !.tries = kActiveTries,
                                   !.corrupted = @ /\ slot = current_slot]
                 ELSE IF s < num_slots /\ info.priority >= kActivePriority
                 THEN [info EXCEPT !.priority = kActivePriority - 1]
                 ELSE info
<1>1. ASSUME NEW s \in Slots
      PROVE  one(s) \in SlotInfo /\ one(s).successful = misc.slot_info[s].successful
  <2> DEFINE x == misc.slot_info[s]
             c == x.corrupted /\ slot = current_slot
  <2>1. x \in SlotInfo /\ c \in BOOLEAN
    BY DEF Misc, SlotInfo
  <2>2. one(s) = x
        \/ one(s) = [x EXCEPT !.priority = 15, !.tries = 6, !.corrupted = c]
        \/ one(s) = [x EXCEPT !.priority = 14]
    BY DEF kActivePriority, kActiveTries
  <2> HIDE DEF x, c, one
  <2>3. one(s) \in SlotInfo /\ one(s).successful = x.successful
    <3>1. 15 \in 0..15 /\ 14 \in 0..15 /\ 6 \in 0..7
      OBVIOUS
    <3> DEFINE y == [x EXCEPT !.priority = 15]
               z == [y EXCEPT !.tries = 6]
    <3>2. y \in SlotInfo /\ y.successful = x.successful
      BY <2>1, <3>1, SetPriority
    <3> HIDE DEF y
    <3>3. z \in SlotInfo /\ z.successful = x.successful
      BY <3>1, <3>2, SetTries
    <3> HIDE DEF z
    <3>4. CASE one(s) = [z EXCEPT !.corrupted = c]
      BY <2>1, <3>3, <3>4, SetCorrupted
    <3>5. CASE one(s) = [x EXCEPT !.priority = 14]
      BY <2>1, <3>1, <3>5, SetPriority
    <3>6. CASE one(s) = x
      BY <2>1, <3>6
    <3> QED BY <2>2, <3>4, <3>5, <3>6 DEF y, z
  <2> QED BY <2>3 DEF x
<1>2. Save([s \in Slots |-> one(s)])
  BY DEF SetActiveBootSlot
<1> HIDE DEF one
<1>3. [s \in Slots |-> one(s)] \in [Slots -> SlotInfo]
  BY <1>1
<1>4. misc' \in Misc /\ misc'.slot_info = [s \in Slots |-> one(s)]
  BY <1>2, <1>3, SaveMisc
<1> QED BY <1>1, <1>4

LEMMA UnbootableMisc ==
  ASSUME misc \in Misc, NEW slot \in Slots, SetSlotAsUnbootable(slot)
  PROVE  misc' \in Misc /\ \A s \in Slots :
           misc'.slot_info[s].successful => misc.slot_info[s].successful
<1> DEFINE f == [misc.slot_info[slot] EXCEPT !.successful = FALSE, !.tries = 0]
           info == [misc.slot_info EXCEPT ![slot] = f]
<1>0. misc.slot_info[slot] \in SlotInfo /\ misc.slot_info \in [Slots -> SlotInfo]
  BY DEF Misc
<1>1. f \in SlotInfo /\ f.successful = FALSE
  <2> DEFINE y == [misc.slot_info[slot] EXCEPT !.successful = FALSE]
  <2>1. y \in SlotInfo /\ y.successful = FALSE
    BY <1>0, SetSuccessful
  <2>2. f = [y EXCEPT !.tries = 0] /\ 0 \in 0..7
    OBVIOUS
  <2> HIDE DEF y, f
  <2>3. f \in SlotInfo /\ f.successful = y.successful
    BY <2>1, <2>2, SetTries
  <2> QED BY <2>1, <2>3
<1>2. Save(info)
  <2>1. [misc.slot_info EXCEPT ![slot].successful = FALSE, ![slot].tries = 0] = info
    BY <1>0
  <2> QED BY <2>1 DEF SetSlotAsUnbootable
<1> HIDE DEF f
<1>3. info \in [Slots -> SlotInfo] /\ \A s \in Slots : info[s].successful => misc.slot_info[s].successful
  BY <1>0, <1>1
<1> HIDE DEF info
<1> QED BY <1>2, <1>3, SaveMisc

LEMMA BootMisc ==
  ASSUME misc \in Misc, NEW slot \in Slots, Bootable(slot),
         misc' = misc \/ misc' = [misc EXCEPT !.slot_info[slot].tries = @ - 1]
  PROVE  misc' \in Misc /\ \A s \in Slots :
           misc'.slot_info[s].successful = misc.slot_info[s].successful
<1>1. CASE misc' = misc
  BY <1>1
<1>2. CASE misc' = [misc EXCEPT !.slot_info[slot].tries = @ - 1]
  <2> DEFINE f == [misc.slot_info[slot] EXCEPT !.tries = @ - 1]
             info == [misc.slot_info EXCEPT ![slot] = f]
  <2>1. misc.slot_info[slot] \in SlotInfo /\ misc.slot_info[slot].tries # 0
    BY DEF Misc, Bootable, IsSlotBootable
  <2>2. f \in SlotInfo /\ f.successful = misc.slot_info[slot].successful
    BY <2>1 DEF SlotInfo
  <2>3. misc' = [misc EXCEPT !.slot_info = info]
    BY <1>2
  <2> HIDE DEF f
  <2>4. info \in [Slots -> SlotInfo] /\ \A s \in Slots : info[s].successful = misc.slot_info[s].successful
    BY <2>2 DEF Misc
  <2> HIDE DEF info
  <2> QED BY <2>3, <2>4 DEF Misc
<1> QED BY <1>1, <1>2

(* The blocks of the i-th pair of lines, the groups of the present pair, and *)
(* whether a range of it can be read.                                        *)
PairBlocks(i) ==
  {<<care_map.pairs[i].name, b>> : b \in ToSet(BlockNumbers(Parse(care_map.pairs[i].text)))}
Work == Groups(Parse(Line.text))
CanRead(r) == \A k \in ToSet(RangeBlocks(r)) : <<Line.name, k>> \in Blocks \ bad[current_slot]

Usable == CareMaps \ {None, Unreadable}
BootTypes == BootTypeOK /\ care_map \in CareMaps \cup {None}

(* The pairs before the present one were read, and the way to the mark leads *)
(* past the pair that ends the loop.                                         *)
Route ==
  /\ pc = "open" => ~Skips
  /\ pc \in {"pair", "join"} =>
       /\ ~Skips /\ care_map \in Usable /\ pair >= 1
       /\ \A i \in DOMAIN care_map.pairs : i < pair => PairBlocks(i) \subseteq Blocks \ bad[current_slot]
  /\ pc = "join" => pair \in DOMAIN care_map.pairs
  /\ pc = "mark" => Mapped \subseteq Blocks \ bad[current_slot]

(* A range of the present pair was read, or waits in its thread, or that     *)
(* thread has failed.                                                        *)
Threads == [DOMAIN Work -> [left : Seq(Int \X Int), result : {None, "true", "false"}]]
Served(t, j) ==
  \/ CanRead(Work[t][j])
  \/ threads[t].result = None /\ \E i \in DOMAIN threads[t].left : threads[t].left[i] = Work[t][j]
  \/ threads[t].result = "false"
Tasks ==
  pc = "join" => threads \in Threads /\ \A t \in DOMAIN Work : \A j \in DOMAIN Work[t] : Served(t, j)

(* A slot that is being written has no mark that anyone relies on.           *)
Pending == target # None => pc \in {"up", "off"} /\ vouched[target] = {}

(* No block that was to be read before a slot was marked is bad.             *)
Vouched == \A s \in Slots : bad[s] \cap vouched[s] = {}

IBoot == BootTypes /\ Route /\ Tasks /\ Pending /\ Vouched

LEMMA TypesMisc == BootTypes => misc \in Misc
BY DEF BootTypes, BootTypeOK, Misc

LEMMA InitBoot == BootInit => IBoot
<1> SUFFICES ASSUME BootInit PROVE IBoot
  OBVIOUS
<1> DEFINE d == InitDefault(0)
           f == [d.slot_info[0] EXCEPT !.tries = 1]
           info == [d.slot_info EXCEPT ![0] = f]
<1>1. 0 \in Slots /\ 1 \in 0..7
  OBVIOUS
<1>2. d \in Misc
  BY <1>1, DefaultMisc
<1>3. misc = [d EXCEPT !.slot_info = info]
  BY DEF BootInit
<1> HIDE DEF d
<1>4. f \in SlotInfo
  <2>1. d.slot_info[0] \in SlotInfo
    BY <1>2 DEF Misc
  <2> QED BY <1>1, <2>1, SetTries
<1> HIDE DEF f
<1>5. info \in [Slots -> SlotInfo]
  BY <1>2, <1>4 DEF Misc
<1> HIDE DEF info
<1>6. misc \in Misc
  BY <1>2, <1>3, <1>5 DEF Misc
<1>7. BootTypes
  BY <1>6, SlotAssumption DEF BootInit, BootTypes, BootTypeOK, Misc, Places
<1>8. Vouched
  BY DEF BootInit, Vouched
<1> QED BY <1>7, <1>8 DEF BootInit, IBoot, Route, Tasks, Pending

(* The steps outside of the reading.                                         *)
Reads == {"open", "pair", "join", "mark"}

LEMMA CountsStep ==
  ASSUME BootTypes, Fails \/ UNCHANGED errors
  PROVE  errors' \in 0..MaxErrors
BY SlotAssumption DEF Fails, BootTypes, BootTypeOK

LEMMA QuietBoot ==
  ASSUME IBoot, BootTypes', pc' \notin Reads,
         target' # None => target' = target /\ pc' \in {"up", "off"},
         \A s \in Slots : vouched'[s] = {} \/ (vouched'[s] = vouched[s] /\ bad'[s] = bad[s])
  PROVE  IBoot'
<1>1. Vouched'
  BY DEF IBoot, Vouched
<1>2. Pending'
  <2> SUFFICES ASSUME target' # None PROVE vouched'[target'] = {}
    BY DEF Pending
  <2>1. target' = target /\ vouched[target] = {} /\ target \in Slots
    BY DEF IBoot, Pending, BootTypes, BootTypeOK
  <2> QED BY <2>1
<1> QED BY <1>1, <1>2 DEF IBoot, Route, Tasks, Reads

LEMMA LazyInitBoot == ASSUME IBoot, LazyInitialization PROVE IBoot'
<1>1. BootTypes /\ misc \in Misc /\ pc = "init" /\ pc' = "check" /\ current_slot \in Slots
  BY TypesMisc DEF IBoot, LazyInitialization, BootTypes, BootTypeOK
<1>2. UNCHANGED <<bad, care_map, current_slot, verity_mode, pair, threads, target, updates, losses>>
      /\ vouched' = IF misc'.ok = misc.ok THEN vouched ELSE [vouched EXCEPT ![current_slot] = {}]
  BY DEF LazyInitialization
<1>3. target = None
  BY <1>1 DEF IBoot, Pending
<1>4. misc' = misc \/ (~misc.ok /\ misc' = InitDefault(current_slot))
  BY DEF LazyInitialization
<1>5. misc' \in Misc /\ num_slots' \in 0..kMaxNumSlots
  <2>1. misc' \in Misc
    BY <1>1, <1>4, DefaultMisc
  <2>2. misc.nb_slot \in 0..kMaxNumSlots
    BY <1>1 DEF Misc
  <2>3. num_slots' \in {misc.nb_slot, nb_slot, 0}
    BY DEF LazyInitialization
  <2> QED BY <2>1, <2>2, <2>3, NbSlot
<1>6. errors' \in 0..MaxErrors /\ damage' \in {"none", "damaged", "sealed"}
  BY <1>1, CountsStep DEF LazyInitialization, BootTypes, BootTypeOK
<1>7. vouched' \in [Slots -> SUBSET Blocks]
  BY <1>1, <1>2 DEF BootTypes, BootTypeOK
<1>8. BootTypes'
  BY <1>1, <1>2, <1>5, <1>6, <1>7 DEF BootTypes, BootTypeOK, Misc, Places
<1>9. CASE misc' = misc
  BY <1>1, <1>2, <1>3, <1>8, <1>9, QuietBoot DEF Reads
<1>10. CASE ~misc.ok /\ misc' = InitDefault(current_slot)
  <2>1. misc'.ok # misc.ok
    BY <1>1, <1>10, DefaultMisc
  <2>2. \A s \in Slots : vouched'[s] = {} \/ (vouched'[s] = vouched[s] /\ bad'[s] = bad[s])
    BY <1>1, <1>2, <2>1 DEF BootTypes, BootTypeOK
  <2> QED BY <1>1, <1>2, <1>3, <1>8, <2>2, QuietBoot DEF Reads
<1> QED BY <1>4, <1>9, <1>10

LEMMA RepairsBoot == ASSUME IBoot, BootloaderRepairs PROVE IBoot'
<1>1. BootTypes /\ pc = "off" /\ current_slot \in Slots
  BY DEF IBoot, BootloaderRepairs, BootTypes, BootTypeOK
<1>2. UNCHANGED <<bad, care_map, current_slot, num_slots, verity_mode, pc, pair, threads, target,
                  updates, losses, errors>>
      /\ misc' = InitDefault(current_slot) /\ damage' = "none" /\ vouched' = [vouched EXCEPT ![current_slot] = {}]
  BY DEF BootloaderRepairs
<1>3. misc' \in Misc
  BY <1>1, <1>2, DefaultMisc
<1>4. vouched' \in [Slots -> SUBSET Blocks]
      /\ \A s \in Slots : vouched'[s] \in {vouched[s], {}}
  BY <1>1, <1>2 DEF BootTypes, BootTypeOK
<1>5. BootTypes'
  BY <1>1, <1>2, <1>3, <1>4 DEF BootTypes, BootTypeOK, Misc
<1> QED BY <1>1, <1>2, <1>4, <1>5, QuietBoot DEF Reads

LEMMA BootBoot == ASSUME IBoot, Boot PROVE IBoot'
<1>1. BootTypes /\ misc \in Misc /\ UNCHANGED <<bad, care_map, vouched, damage, updates, losses, errors>>
      /\ num_slots' = 0 /\ pair' = 1 /\ target' = None
  BY TypesMisc DEF IBoot, Boot
<1>2. PICK s \in Slots :
        /\ Bootable(s)
        /\ misc' = misc \/ misc' = [misc EXCEPT !.slot_info[s].tries = @ - 1]
        /\ pc' = IF Boots(s) THEN "init" ELSE "off"
        /\ current_slot' = IF Boots(s) THEN s ELSE current_slot
  BY DEF Boot
<1>3. misc' \in Misc /\ \A o \in Slots : misc'.slot_info[o].successful = misc.slot_info[o].successful
  BY <1>1, <1>2, BootMisc
<1>4. pc' \in {"init", "off"} /\ current_slot' \in Slots
  BY <1>1, <1>2 DEF BootTypes, BootTypeOK
<1>5. BootTypes'
  BY <1>1, <1>3, <1>4 DEF BootTypes, BootTypeOK, Misc, Places
<1> QED BY <1>1, <1>3, <1>4, <1>5, QuietBoot DEF Reads

LEMMA UpdateBoot == ASSUME IBoot, BeginUpdate \/ EndUpdate \/ CancelUpdate PROVE IBoot'
<1>1. BootTypes /\ misc \in Misc /\ pc = "up"
      /\ UNCHANGED <<current_slot, num_slots, verity_mode, pc, pair, threads, losses, errors>>
  BY TypesMisc DEF IBoot, BeginUpdate, EndUpdate, CancelUpdate, EngineLeaves
<1>d. damage' \in {"none", "damaged", "sealed"}
  BY <1>1, SaveDamage DEF BootTypes, BeginUpdate, EndUpdate, CancelUpdate, SetSlotAsUnbootable, SetActiveBootSlot
<1>2. bad \in [Slots -> SUBSET Blocks] /\ vouched \in [Slots -> SUBSET Blocks] /\ current_slot \in Slots
  BY <1>1 DEF BootTypes, BootTypeOK
<1>3. CASE BeginUpdate
  <2>1. PICK s \in Slots : /\ SetSlotAsUnbootable(s) /\ target' = s
                           /\ bad' = [bad EXCEPT ![s] = Blocks]
                           /\ vouched' = [vouched EXCEPT ![s] = {}]
    BY <1>3 DEF BeginUpdate
  <2>2. misc' \in Misc /\ \A o \in Slots : misc'.slot_info[o].successful => misc.slot_info[o].successful
    BY <1>1, <2>1, UnbootableMisc
  <2>3. /\ bad' \in [Slots -> SUBSET Blocks] /\ vouched' \in [Slots -> SUBSET Blocks]
        /\ \A o \in Slots : vouched'[o] = {} \/ (vouched'[o] = vouched[o] /\ bad'[o] = bad[o])
        /\ vouched'[s] = {}
    BY <1>2, <2>1
  <2>4. updates' \in 0..MaxUpdates /\ care_map' = care_map
    BY <1>1, <1>3, SlotAssumption DEF BeginUpdate, BootTypes, BootTypeOK
  <2>5. BootTypes'
    BY <1>1, <1>d, <2>1, <2>2, <2>3, <2>4 DEF BootTypes, BootTypeOK, Misc
  <2>6. Vouched'
    BY <2>2, <2>3 DEF IBoot, Vouched
  <2> QED BY <1>1, <2>1, <2>3, <2>5, <2>6 DEF IBoot, Route, Tasks, Pending
<1>4. CASE EndUpdate
  <2>1. target \in Slots /\ vouched[target] = {} /\ target' = None /\ SetActiveBootSlot(target)
        /\ UNCHANGED <<vouched, updates>>
    BY <1>1, <1>4 DEF EndUpdate, IBoot, Pending, BootTypes, BootTypeOK
  <2>2. PICK flaw \in Flaws, map \in CareMaps : bad' = [bad EXCEPT ![target] = flaw] /\ care_map' = map
    BY <1>4 DEF EndUpdate
  <2>3. misc' \in Misc /\ \A o \in Slots : misc'.slot_info[o].successful = misc.slot_info[o].successful
    BY <1>1, <2>1, ActiveMisc
  <2>4. /\ bad' \in [Slots -> SUBSET Blocks]
        /\ \A o \in Slots : vouched'[o] = {} \/ (vouched'[o] = vouched[o] /\ bad'[o] = bad[o])
    BY <1>2, <2>1, <2>2, SlotAssumption
  <2>5. BootTypes'
    BY <1>1, <1>d, <2>1, <2>2, <2>3, <2>4 DEF BootTypes, BootTypeOK, Misc
  <2> QED BY <1>1, <2>1, <2>3, <2>4, <2>5, QuietBoot DEF Reads
<1>5. CASE CancelUpdate
  <2>1. target' = None /\ SetActiveBootSlot(current_slot) /\ UNCHANGED <<bad, care_map, vouched, updates>>
    BY <1>5 DEF CancelUpdate
  <2>2. misc' \in Misc /\ \A o \in Slots : misc'.slot_info[o].successful = misc.slot_info[o].successful
    BY <1>1, <1>2, <2>1, ActiveMisc
  <2>3. BootTypes'
    BY <1>1, <1>d, <2>1, <2>2 DEF BootTypes, BootTypeOK, Misc
  <2> QED BY <1>1, <2>1, <2>2, <2>3, QuietBoot DEF Reads
<1> QED BY <1>3, <1>4, <1>5

LEMMA CorruptMisc ==
  ASSUME misc \in Misc, Corrupt
  PROVE  misc' \in Misc /\ (damage' = damage \/ damage' = "damaged")
<1>1. CASE misc' = [misc EXCEPT !.ok = FALSE] /\ UNCHANGED damage
  BY <1>1 DEF Misc
<1>2. ASSUME NEW d \in Damages, misc' = [misc EXCEPT !.ok = FALSE, !.slot_info[d[1]] = d[2]],
             damage' = "damaged"
      PROVE  misc' \in Misc
  <2> DEFINE info == [misc.slot_info EXCEPT ![d[1]] = d[2]]
  <2>1. d[1] \in Slots /\ d[2] \in SlotInfo
    BY DamageAssumption
  <2>2. info \in [Slots -> SlotInfo]
    BY <2>1 DEF Misc
  <2>3. misc' = [misc EXCEPT !.ok = FALSE, !.slot_info = info]
    BY <1>2
  <2> HIDE DEF info
  <2> QED BY <2>2, <2>3 DEF Misc
<1> QED BY <1>1, <1>2 DEF Corrupt

LEMMA PlainBoot ==
  ASSUME IBoot, GetService \/ CheckSlot \/ RebootDevice \/ UserReboots \/ PowerLoss \/ Corrupt
  PROVE  IBoot'
<1> USE DEF GetService, CheckSlot, RebootDevice, UserReboots, PowerLoss
<1>1. /\ BootTypes /\ misc \in Misc
      /\ UNCHANGED <<bad, care_map, current_slot, num_slots, verity_mode, pair, vouched, target, updates>>
  BY TypesMisc DEF IBoot, Corrupt, Stays
<1>2. misc' \in Misc /\ damage' \in {"none", "damaged", "sealed"}
  <2>1. CASE Corrupt
    BY <1>1, <2>1, CorruptMisc DEF BootTypes, BootTypeOK
  <2>2. CASE UNCHANGED <<misc, damage>>
    BY <1>1, <2>2 DEF BootTypes, BootTypeOK
  <2> QED BY <2>1, <2>2 DEF Stays
<1>3. pc' \in Places \ Reads /\ (target # None => pc' \in {"up", "off"})
  BY DEF IBoot, Pending, Corrupt, Places, Reads
<1>4. errors' \in 0..MaxErrors
  BY <1>1, CountsStep DEF Corrupt
<1>5. losses' \in 0..MaxLosses
  <2>1. losses \in 0..MaxLosses
    BY <1>1 DEF BootTypes, BootTypeOK
  <2>2. losses' = losses \/ (losses < MaxLosses /\ losses' = losses + 1)
    BY DEF Corrupt, Stays
  <2> QED BY <2>1, <2>2, SlotAssumption
<1>6. BootTypes'
  BY <1>1, <1>2, <1>3, <1>4, <1>5 DEF BootTypes, BootTypeOK, Misc
<1> QED BY <1>1, <1>3, <1>6, QuietBoot

LEMMA MarkBoot == ASSUME IBoot, MarkSlot PROVE IBoot'
<1>1. /\ BootTypes /\ misc \in Misc /\ pc = "mark" /\ pc' \in {"up", "reboot"} /\ target = None
      /\ current_slot \in Slots /\ vouched \in [Slots -> SUBSET Blocks]
      /\ UNCHANGED <<bad, care_map, current_slot, num_slots, verity_mode, pair, threads, target,
                     updates, losses>>
  BY TypesMisc DEF IBoot, MarkSlot, Pending, BootTypes, BootTypeOK
<1>2. errors' \in 0..MaxErrors /\ damage' \in {"none", "damaged", "sealed"}
  BY <1>1, CountsStep, SaveDamage DEF MarkSlot, MarkBootSuccessful, BootTypes, BootTypeOK
<1>3. CASE UNCHANGED <<misc, vouched>>
  <2>1. BootTypes'
    BY <1>1, <1>2, <1>3 DEF BootTypes, BootTypeOK, Places
  <2> QED BY <1>1, <1>3, <2>1, QuietBoot DEF Reads
<1>4. CASE MarkBootSuccessful(current_slot) /\ vouched' = [vouched EXCEPT ![current_slot] = Mapped]
  <2>1. misc' \in Misc /\ \A s \in Slots \ {current_slot} :
          misc'.slot_info[s].successful = misc.slot_info[s].successful
    BY <1>1, <1>4, MarkMisc
  <2>2. bad[current_slot] \cap Mapped = {} /\ Mapped \subseteq Blocks
    BY <1>1 DEF IBoot, Route
  <2> HIDE DEF Mapped
  <2>3. /\ vouched'[current_slot] = Mapped
        /\ \A s \in Slots \ {current_slot} : vouched'[s] = vouched[s]
        /\ vouched' \in [Slots -> SUBSET Blocks]
    BY <1>1, <1>4, <2>2
  <2>4. Vouched'
    BY <1>1, <2>1, <2>2, <2>3 DEF IBoot, Vouched
  <2>5. BootTypes'
    BY <1>1, <1>2, <2>1, <2>3 DEF BootTypes, BootTypeOK, Misc, Places
  <2> QED BY <1>1, <2>4, <2>5 DEF IBoot, Route, Tasks, Pending
<1> QED BY <1>3, <1>4 DEF MarkSlot

(* The steps of the reading.                                                 *)
LEMMA ReadingTypes ==
  ASSUME IBoot, Stays, pc \notin {"up", "off"}, pc' \in Places, pair' \in Nat,
         Fails \/ UNCHANGED errors
  PROVE  BootTypes' /\ Pending' /\ Vouched'
<1>1. errors' \in 0..MaxErrors
  BY CountsStep DEF IBoot
<1>2. BootTypes'
  BY <1>1 DEF IBoot, Stays, BootTypes, BootTypeOK
<1> QED BY <1>2 DEF IBoot, Stays, Pending, Vouched

LEMMA ModeBoot == ASSUME IBoot, CheckVerityMode \/ OpenCareMap PROVE IBoot'
<1>1. Stays /\ pc \in {"mode", "open"} /\ UNCHANGED errors /\ pc' \in Places /\ pair' \in Nat
  BY DEF IBoot, CheckVerityMode, OpenCareMap, Places, BootTypes, BootTypeOK
<1>2. BootTypes' /\ Pending' /\ Vouched'
  BY <1>1, ReadingTypes
<1>3. CASE CheckVerityMode
  <2>1. CASE Skips
    <3>1. pc' = "mark" /\ Mapped' = {}
      BY <1>1, <1>3, <2>1 DEF CheckVerityMode, Stays, Skips, Mapped
    <3> QED BY <1>2, <3>1 DEF IBoot, Route, Tasks
  <2>2. CASE ~Skips
    <3>1. pc' \in {"open", "reboot"} /\ ~Skips'
      BY <1>1, <1>3, <2>2 DEF CheckVerityMode, Stays, Skips
    <3> QED BY <1>2, <3>1 DEF IBoot, Route, Tasks
  <2> QED BY <2>1, <2>2
<1>4. CASE OpenCareMap
  <2>1. pc = "open" /\ pair' = 1 /\ ~Skips /\ ~Skips' /\ care_map' = care_map
    BY <1>1, <1>4 DEF OpenCareMap, IBoot, Route, Stays, Skips
  <2>2. CASE care_map = None
    <3>1. pc' = "mark" /\ Mapped' = {}
      BY <1>4, <2>1, <2>2 DEF OpenCareMap, Mapped
    <3> QED BY <1>2, <3>1 DEF IBoot, Route, Tasks
  <2>3. CASE care_map # None /\ care_map # Unreadable
    <3>1. pc' \in {"pair", "reboot"} /\ care_map \in Usable
      BY <1>4, <2>3 DEF OpenCareMap, IBoot, BootTypes, Usable
    <3>2. \A i \in DOMAIN care_map.pairs : ~(i < 1)
      BY <3>1, CareMapAssumption DEF Usable
    <3> QED BY <1>2, <2>1, <3>1, <3>2 DEF IBoot, Route, Tasks
  <2>4. CASE care_map = Unreadable
    <3>1. pc' \in {"mark", "reboot"} /\ (pc' = "mark" => Mapped' = {})
      BY <1>4, <2>1, <2>4 DEF OpenCareMap, Mapped
    <3> QED BY <1>2, <3>1 DEF IBoot, Route, Tasks
  <2> QED BY <2>2, <2>3, <2>4
<1> QED BY <1>3, <1>4

LEMMA PairsRead ==
  ASSUME IBoot, pc \in {"pair", "join"}
  PROVE  /\ ~Skips /\ care_map \in Usable /\ pair \in Nat \ {0} /\ care_map.lines \in Nat
         /\ DOMAIN care_map.pairs = 1..(care_map.lines \div 2)
         /\ \A i \in DOMAIN care_map.pairs : i < pair => PairBlocks(i) \subseteq Blocks \ bad[current_slot]
BY CareMapAssumption DEF IBoot, Route, BootTypes, BootTypeOK, Usable

LEMMA EndBoot == ASSUME IBoot, EndOfCareMap PROVE IBoot'
<1>1. Stays /\ pc = "pair" /\ pc' = "mark" /\ UNCHANGED <<pair, errors>>
      /\ (pair <= care_map.lines \div 2 => Line.name = "/dev/block/")
  BY DEF EndOfCareMap
<1>2. BootTypes' /\ Pending' /\ Vouched'
  BY <1>1, ReadingTypes DEF IBoot, BootTypes, BootTypeOK, Places
<1>3. ASSUME NEW x \in Mapped PROVE x \in Blocks \ bad[current_slot]
  <2>1. ~Skips /\ care_map # None
    BY <1>1, PairsRead DEF Usable
  <2>2. PICK i \in DOMAIN care_map.pairs :
          /\ \A k \in 1..i : care_map.pairs[k].name # "/dev/block/"
          /\ x \in PairBlocks(i)
    BY <1>3, <2>1 DEF Mapped, PairBlocks
  <2>3. i < pair
    <3> SUFFICES ASSUME ~(i < pair) PROVE FALSE
      OBVIOUS
    <3>1. pair \in 1..i /\ pair <= care_map.lines \div 2
      BY <1>1, PairsRead
    <3>2. care_map.pairs[pair].name = "/dev/block/"
      BY <1>1, <3>1 DEF Line
    <3> QED BY <2>2, <3>1, <3>2
  <2> QED BY <1>1, <2>2, <2>3, PairsRead
<1>4. Mapped' = Mapped /\ bad' = bad /\ current_slot' = current_slot
  BY <1>1 DEF Stays, Mapped, Skips
<1> QED BY <1>1, <1>2, <1>3, <1>4 DEF IBoot, Route, Tasks

(* What does not change while the threads read.                              *)
LEMMA SameWork ==
  ASSUME Stays, UNCHANGED pair
  PROVE  /\ Work' = Work /\ Threads' = Threads /\ (\A r : CanRead(r)' <=> CanRead(r))
         /\ (\A i : PairBlocks(i)' = PairBlocks(i)) /\ (Skips' <=> Skips)
         /\ UNCHANGED <<care_map, bad, current_slot>>
BY DEF Stays, Work, Threads, CanRead, PairBlocks, Skips, Line

LEMMA StartBoot == ASSUME SplitCovers, IBoot, ReadBlocks PROVE IBoot'
<1>1. Stays /\ pc = "pair" /\ UNCHANGED pair /\ (Fails \/ UNCHANGED errors) /\ pair <= care_map.lines \div 2
      /\ pc' \in {"join", "reboot"} /\ (pc' = "join" => threads' = Start(Parse(Line.text)))
  BY DEF ReadBlocks
<1>2. BootTypes' /\ Pending' /\ Vouched'
  BY <1>1, ReadingTypes DEF IBoot, BootTypes, BootTypeOK, Places
<1>3. pair \in DOMAIN care_map.pairs /\ care_map \in Usable /\ ~Skips /\ pair >= 1
  BY <1>1, PairsRead
<1>4. Route'
  BY <1>1, <1>3, SameWork, PairsRead DEF Route
<1>5. ASSUME pc' = "join"
      PROVE  threads' \in Threads /\ \A t \in DOMAIN Work : \A j \in DOMAIN Work[t] : Served(t, j)'
  <2>1. threads' = [t \in DOMAIN Work |-> [left |-> Work[t], result |-> None]]
    BY <1>1, <1>5 DEF Start, Work
  <2>2. Work \in Seq(Seq(Int \X Int))
    BY <1>3 DEF SplitCovers, Usable, Work, Line
  <2>3. threads' \in Threads
    <3>1. \A t \in DOMAIN Work : Work[t] \in Seq(Int \X Int)
      BY <2>2
    <3> HIDE DEF Work
    <3> QED BY <2>1, <3>1 DEF Threads
  <2>4. ASSUME NEW t \in DOMAIN Work, NEW j \in DOMAIN Work[t] PROVE Served(t, j)'
    <3>1. threads'[t].left = Work[t] /\ threads'[t].result = None
      BY <2>1
    <3>2. Work' = Work
      BY <1>1, SameWork
    <3> QED BY <3>1, <3>2 DEF Served
  <2> QED BY <2>3, <2>4
<1>6. Tasks'
  <2>1. Work' = Work /\ Threads' = Threads
    BY <1>1, SameWork
  <2> QED BY <1>5, <2>1 DEF Tasks
<1> QED BY <1>2, <1>4, <1>6 DEF IBoot

LEMMA ThreadBoot == ASSUME IBoot, ThreadReads PROVE IBoot'
<1>1. Stays /\ pc = "join" /\ UNCHANGED <<pc, pair>> /\ (Fails \/ UNCHANGED errors)
  BY DEF ThreadReads
<1>2. BootTypes' /\ Pending' /\ Vouched'
  BY <1>1, ReadingTypes DEF IBoot, BootTypes, BootTypeOK, Places
<1>3. Route'
  BY <1>1, SameWork DEF IBoot, Route
<1>4. threads \in Threads /\ \A u \in DOMAIN Work : \A j \in DOMAIN Work[u] : Served(u, j)
  BY <1>1 DEF IBoot, Tasks
<1>5. PICK t \in DOMAIN threads :
        LET left == threads[t].left
            end(r) == threads' = [threads EXCEPT ![t] = [left |-> <<>>, result |-> r]]
        IN  /\ Reading(t)
            /\ \/ left = <<>> /\ end("true")
               \/ /\ left # <<>>
                  /\ {<<Line.name, k>> : k \in ToSet(RangeBlocks(left[1]))}
                       \subseteq Blocks \ bad[current_slot]
                  /\ threads' = [threads EXCEPT ![t].left = Tail(@)]
               \/ end("false")
  BY DEF ThreadReads
<1> DEFINE left == threads[t].left
<1>6. /\ t \in DOMAIN Work /\ threads[t].result = None /\ left \in Seq(Int \X Int)
      /\ threads[t] = [left |-> left, result |-> None]
  BY <1>4, <1>5 DEF Threads, Reading
<1>7. ASSUME NEW j \in DOMAIN Work[t]
      PROVE  CanRead(Work[t][j]) \/ \E i \in DOMAIN left : left[i] = Work[t][j]
  BY <1>4, <1>6, CareMapAssumption DEF Served
<1>8. PICK f \in [left : Seq(Int \X Int), result : {None, "true", "false"}] :
        /\ threads' = [threads EXCEPT ![t] = f]
        /\ \A j \in DOMAIN Work[t] :
             \/ CanRead(Work[t][j])
             \/ f.result = None /\ \E i \in DOMAIN f.left : f.left[i] = Work[t][j]
             \/ f.result = "false"
  <2> DEFINE done(r) == [left |-> <<>>, result |-> r]
  <2>0. <<>> \in Seq(Int \X Int)
    OBVIOUS
  <2>1. CASE left = <<>> /\ threads' = [threads EXCEPT ![t] = done("true")]
    <3>1. \A j \in DOMAIN Work[t] : CanRead(Work[t][j])
      BY <1>7, <2>1
    <3>2. done("true") \in [left : Seq(Int \X Int), result : {None, "true", "false"}]
      BY <2>0
    <3> QED BY <2>1, <3>1, <3>2
  <2>2. CASE threads' = [threads EXCEPT ![t] = done("false")]
    <3>1. done("false") \in [left : Seq(Int \X Int), result : {None, "true", "false"}]
          /\ done("false").result = "false"
      BY <2>0
    <3> QED BY <2>2, <3>1
  <2>3. CASE /\ left # <<>>
             /\ {<<Line.name, k>> : k \in ToSet(RangeBlocks(left[1]))} \subseteq Blocks \ bad[current_slot]
             /\ threads' = [threads EXCEPT ![t].left = Tail(@)]
    <3> DEFINE g == [left |-> Tail(left), result |-> None]
    <3>1. threads' = [threads EXCEPT ![t] = g]
      <4>1. [threads[t] EXCEPT !.left = Tail(left)] = g
        <5> DEFINE x == [left |-> left, result |-> None]
                   y == Tail(left)
        <5> HIDE DEF left, y
        <5>1. [x EXCEPT !.left = y] = [left |-> y, result |-> None]
          OBVIOUS
        <5> HIDE DEF x
        <5>2. threads[t] = x
          BY <1>6 DEF x
        <5> QED BY <5>1, <5>2 DEF y
      <4>2. threads' = [threads EXCEPT ![t] = [threads[t] EXCEPT !.left = Tail(left)]]
        BY <2>3
      <4> HIDE DEF g
      <4> QED BY <4>1, <4>2
    <3>2. /\ Tail(left) \in Seq(Int \X Int) /\ DOMAIN Tail(left) = 1..(Len(left) - 1)
          /\ DOMAIN left = 1..Len(left) /\ Len(left) \in Nat
          /\ \A i \in 1..(Len(left) - 1) : Tail(left)[i] = left[i + 1]
      <4> HIDE DEF left
      <4> QED BY <1>6, <2>3
    <3>3. g \in [left : Seq(Int \X Int), result : {None, "true", "false"}]
          /\ g.left = Tail(left) /\ g.result = None
      BY <3>2
    <3>4. CanRead(left[1])
      BY <2>3 DEF CanRead
    <3> HIDE DEF g, left
    <3>5. ASSUME NEW j \in DOMAIN Work[t]
          PROVE  CanRead(Work[t][j]) \/ \E i \in DOMAIN g.left : g.left[i] = Work[t][j]
      <4>1. CASE CanRead(Work[t][j])
        BY <4>1
      <4>2. CASE \E i \in DOMAIN left : left[i] = Work[t][j]
        <5>1. PICK i \in DOMAIN left : left[i] = Work[t][j]
          BY <4>2
        <5>2. CASE i = 1
          BY <3>4, <5>1, <5>2
        <5>3. CASE i # 1
          <6>1. i - 1 \in 1..(Len(left) - 1) /\ (i - 1) + 1 = i
            BY <3>2, <5>1, <5>3
          <6>2. Tail(left)[i - 1] = Work[t][j] /\ i - 1 \in DOMAIN Tail(left)
            BY <3>2, <5>1, <6>1
          <6> QED BY <3>3, <6>2
        <5> QED BY <5>2, <5>3
      <4> QED BY <1>7, <4>1, <4>2
    <3> QED BY <3>1, <3>3, <3>5
  <2> QED BY <1>5, <2>1, <2>2, <2>3
<1>9. threads' \in Threads /\ threads'[t] = f /\ \A u \in DOMAIN Work \ {t} : threads'[u] = threads[u]
  BY <1>4, <1>6, <1>8 DEF Threads
<1>10. ASSUME NEW u \in DOMAIN Work, NEW j \in DOMAIN Work[u] PROVE Served(u, j)'
  <2>1. Work' = Work /\ (CanRead(Work[u][j])' <=> CanRead(Work[u][j]))
    BY <1>1, SameWork
  <2>2. CASE u = t
    BY <1>8, <1>9, <2>1, <2>2 DEF Served
  <2>3. CASE u # t
    BY <1>4, <1>9, <2>1, <2>3 DEF Served
  <2> QED BY <2>2, <2>3
<1>11. Tasks'
  <2>1. Work' = Work /\ Threads' = Threads
    BY <1>1, SameWork
  <2> QED BY <1>9, <1>10, <2>1 DEF Tasks
<1> QED BY <1>2, <1>3, <1>11 DEF IBoot

LEMMA JoinBoot == ASSUME SplitCovers, IBoot, Join PROVE IBoot'
<1>1. Stays /\ pc = "join" /\ UNCHANGED errors /\ pc' \in {"pair", "reboot"}
      /\ (pc' = "pair" => pair' = pair + 1 /\ \A t \in DOMAIN threads : threads[t].result = "true")
      /\ (pc' = "reboot" => pair' = pair)
  BY DEF Join
<1>2. BootTypes' /\ Pending' /\ Vouched'
  BY <1>1, ReadingTypes DEF IBoot, BootTypes, BootTypeOK, Places
<1>3. /\ pair \in DOMAIN care_map.pairs /\ care_map \in Usable /\ threads \in Threads
      /\ \A t \in DOMAIN Work : \A j \in DOMAIN Work[t] : Served(t, j)
  BY <1>1 DEF IBoot, Route, Tasks
<1>4. ASSUME pc' = "pair" PROVE PairBlocks(pair) \subseteq Blocks \ bad[current_slot]
  <2>1. ASSUME NEW t \in DOMAIN Work, NEW j \in DOMAIN Work[t] PROVE CanRead(Work[t][j])
    <3>1. threads[t].result = "true"
      BY <1>1, <1>3, <1>4 DEF Threads
    <3> QED BY <1>3, <3>1, CareMapAssumption DEF Served
  <2>2. ASSUME NEW b \in ToSet(BlockNumbers(Parse(Line.text)))
        PROVE  <<Line.name, b>> \in Blocks \ bad[current_slot]
    <3>1. PICK t \in DOMAIN Work : \E j \in DOMAIN Work[t] : b \in ToSet(RangeBlocks(Work[t][j]))
      BY <1>3 DEF SplitCovers, Usable, Work, Line
    <3>2. PICK j \in DOMAIN Work[t] : b \in ToSet(RangeBlocks(Work[t][j]))
      BY <3>1
    <3> QED BY <2>1, <3>2 DEF CanRead
  <2> QED BY <2>2 DEF PairBlocks, Line
<1>5. /\ \A i : PairBlocks(i)' = PairBlocks(i)
      /\ (Skips' <=> Skips) /\ UNCHANGED <<care_map, bad, current_slot>>
  BY <1>1 DEF Stays, PairBlocks, Skips
<1>6. Route'
  <2>1. CASE pc' = "reboot"
    BY <2>1 DEF Route
  <2>2. CASE pc' = "pair"
    <3>1. ASSUME NEW i \in DOMAIN care_map.pairs, i < pair + 1
          PROVE  PairBlocks(i) \subseteq Blocks \ bad[current_slot]
      <4>1. i = pair \/ i < pair
        BY <1>1, <3>1, PairsRead
      <4> QED BY <1>1, <1>4, <2>2, <4>1, PairsRead
    <3>2. ~Skips /\ care_map \in Usable /\ pair + 1 >= 1
      BY <1>1, PairsRead
    <3> QED BY <1>1, <1>5, <2>2, <3>1, <3>2 DEF Route
  <2> QED BY <1>1, <2>1, <2>2
<1> QED BY <1>1, <1>2, <1>6 DEF IBoot, Tasks

LEMMA StutterBoot == ASSUME IBoot, UNCHANGED bootVars PROVE IBoot'
<1> USE DEF bootVars
<1>1. Stays /\ UNCHANGED <<pc, pair, threads, errors>>
  BY DEF Stays
<1>2. BootTypes' /\ Pending' /\ Vouched'
  BY DEF IBoot, BootTypes, BootTypeOK, Pending, Vouched
<1>3. Mapped' = Mapped
  BY DEF Mapped, Skips
<1>4. Route'
  <2> HIDE DEF bootVars
  <2> QED BY <1>1, <1>3, SameWork DEF IBoot, Route
<1>5. Tasks'
  <2> HIDE DEF bootVars
  <2> QED BY <1>1, SameWork DEF IBoot, Tasks, Served
<1> QED BY <1>2, <1>4, <1>5 DEF IBoot

LEMMA IBootStep == ASSUME SplitCovers, IBoot, [BootNext]_bootVars PROVE IBoot'
BY LazyInitBoot, RepairsBoot, BootBoot, UpdateBoot, PlainBoot, MarkBoot, ModeBoot, EndBoot, StartBoot,
   ThreadBoot, JoinBoot, StutterBoot DEF BootNext, Verifier, Bootloader, NothingToBoot

(* update_verifier marks a slot only after every block its care map lists    *)
(* could be read: for any slots, care maps, partitions and threads, over any *)
(* number of reboots, power losses and updates.  It rests on one fact about  *)
(* RangeSet::Split, that the groups it makes leave no block out.             *)
THEOREM MarkedWasRead == ASSUME SplitCovers PROVE BootSpec => []MarkedMeansRead
<1>1. IBoot /\ [BootNext]_bootVars => IBoot'
  BY IBootStep
<1>2. IBoot => MarkedMeansRead
  BY DEF IBoot, Vouched, MarkedMeansRead
<1> QED BY <1>1, <1>2, InitBoot, PTL DEF BootSpec

(* The slot metadata keeps to its bits whatever the HAL, the bootloader and  *)
(* the update engine do: priority to four of them, tries_remaining to three. *)
THEOREM BootTypeCorrect == ASSUME SplitCovers PROVE BootSpec => []BootTypeOK
<1>1. IBoot /\ [BootNext]_bootVars => IBoot'
  BY IBootStep
<1>2. IBoot => BootTypeOK
  BY DEF IBoot, BootTypes
<1> QED BY <1>1, <1>2, InitBoot, PTL DEF BootSpec
=============================================================================
