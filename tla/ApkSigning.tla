----------------------------- MODULE ApkSigning -----------------------------
(***************************************************************************)
(* tools/apksign.py, sign_apk and verify_apk: the APK signature scheme v2. *)
(* Signing cuts the old signing block and the directory records of v1      *)
(* signatures out of an APK and puts a new block between the payload and   *)
(* the central directory; verifying digests the three sections around the  *)
(* block and compares with the digest the signer has signed.               *)
(*                                                                         *)
(* An APK is a sequence of units: data, the three units of a block (its    *)
(* size, its pairs, its size with the magic), the entries of the central   *)
(* directory, the end-of-central-directory record and the comment.  A hash *)
(* is what it is taken of, and only the holder of a key signs with it.     *)
(* Offsets and sizes count units.                                          *)
(***************************************************************************)
EXTENDS Integers, Sequences, SequencesExt

CONSTANTS
    Chunk,          \* CHUNK_SIZE
    MaxPayload,     \* bound: units of a payload
    MaxEntries,     \* bound: entries of a central directory
    MaxDamage,      \* bound: changes of the file by others
    EntryNames,     \* names of ZIP members
    V1Names,        \* names of _v1_signature_name
    project, donor, \* the project's key and that of an APK's origin
    Refused         \* an ApkSignError

VARIABLES
    apk,            \* the file
    source,         \* what sign_apk made it of
    signed,         \* what was ever signed: key and sections
    damage          \* changes made by others

vars == <<apk, source, signed, damage>>

SigningAssumption ==
    /\ Chunk \in Nat \ {0} /\ MaxPayload \in Nat /\ MaxEntries \in Nat
    /\ MaxDamage \in Nat /\ V1Names \subseteq EntryNames /\ project # donor

Data  == [kind : {"data"}, value : 1..2]
Entry == [kind : {"entry"}, name : EntryNames]

EndRecord(entries, size, offset, comment) ==
    [kind |-> "eocd", entries |-> entries, size |-> size, offset |-> offset,
     comment |-> comment]

----------------------------------------------------------------------------
(* The parts of the file *)

\* _find_eocd: the place of the last end record, 0 if it is refused.
FindEocd(a) ==
    LET ends == {i \in DOMAIN a : a[i].kind = "eocd"}
        last == CHOOSE i \in ends : \A j \in ends : j <= i
    IN  IF /\ ends # {}
           /\ last + a[last].comment = Len(a)
           /\ a[last].offset + a[last].size = last - 1
        THEN last ELSE 0

\* _signing_block_start: where the block begins, central if there is none,
\* -1 if it is refused.
SigningBlockStart(a, central) ==
    IF central = 0 \/ a[central].kind # "magic" THEN central
    ELSE LET size  == a[central].size
             start == central - size - 1
         IN  IF /\ size \in 1..(central - 1)
                /\ a[start + 1].kind = "size" /\ a[start + 1].size = size
             THEN start ELSE -1

Central(a, end) == SubSeq(a, a[end].offset + 1, end - 1)

\* The units of a section at some of its places, in their order.
UnitsAt(section, places) ==
    FlattenSeq([i \in DOMAIN section |->
                  IF i \in places THEN <<section[i]>> ELSE <<>>])

\* The directory without the records of v1 signatures.
Kept(central) ==
    UnitsAt(central, {i \in DOMAIN central : central[i].name \notin V1Names})

\* Mutant: an old block stays part of the payload.
UnsignedSections_KeepsBlock(a) ==
    LET end     == FindEocd(a)
        start   == a[end].offset
        central == Central(a, end)
        kept    == Kept(central)
    IN  IF \/ end = 0 \/ SigningBlockStart(a, start) = -1
           \/ \E u \in Range(central) : u.kind # "entry"
           \/ ~IsInjective([i \in DOMAIN central |-> central[i].name])
        THEN Refused
        ELSE [payload |-> SubSeq(a, 1, start),
              central |-> kept,
              eocd    |-> <<EndRecord(Len(kept), Len(kept), start, a[end].comment)>>
                            \o SubSeq(a, end + 1, Len(a))]

\* _unsigned_sections: without block and v1 records, the payload where it was.
UnsignedSections(a) ==
    LET end     == FindEocd(a)
        start   == SigningBlockStart(a, a[end].offset)
        central == Central(a, end)
        kept    == Kept(central)
    IN  IF \/ end = 0 \/ start = -1
           \/ \E u \in Range(central) : u.kind # "entry"
           \/ ~IsInjective([i \in DOMAIN central |-> central[i].name])
        THEN Refused
        ELSE [payload |-> SubSeq(a, 1, start),
              central |-> kept,
              eocd    |-> <<EndRecord(Len(kept), Len(kept), start, a[end].comment)>>
                            \o SubSeq(a, end + 1, Len(a))]

\* One section, cut into chunks.
Chunks(section) ==
    [i \in 1..((Len(section) + Chunk - 1) \div Chunk) |->
        SubSeq(section, (i - 1) * Chunk + 1,
               IF i * Chunk < Len(section) THEN i * Chunk ELSE Len(section))]

\* Mutant: the end record is left out.
ChunkedDigest_NoEndRecord(s) == Chunks(s.payload) \o Chunks(s.central)

\* _chunked_digest: the chunks of all sections, one after the other.
ChunkedDigest(s) == Chunks(s.payload) \o Chunks(s.central) \o Chunks(s.eocd)

----------------------------------------------------------------------------
(* sign_apk, verify_apk *)

\* _build_signing_block: one pair with the digest, the certificate and the
\* signature of both.
SigningBlock(digest, key) ==
    LET data == [digest |-> digest, certificate |-> key]
    IN  <<[kind |-> "size", size |-> 2],
          [kind |-> "pair", id |-> "v2", data |-> data, public |-> key,
           signature |-> [key |-> key, of |-> data]],
          [kind |-> "magic", size |-> 2]>>

Signed(a, key) ==
    LET s     == UnsignedSections(a)
        block == SigningBlock(ChunkedDigest(s), key)
    IN  IF s = Refused THEN Refused
        ELSE s.payload \o block \o s.central
               \o [s.eocd EXCEPT ![1].offset = Len(s.payload \o block)]

\* The sections verify_apk digests; the offset is that of the block.
VerifiedSections(a) ==
    LET end   == FindEocd(a)
        start == SigningBlockStart(a, a[end].offset)
    IN  [payload |-> SubSeq(a, 1, start),
         central |-> Central(a, end),
         eocd    |-> [SubSeq(a, end, Len(a)) EXCEPT ![1].offset = start]]

\* _parse_v2: the pairs of the one signer.
V2Pairs(a) ==
    LET end   == FindEocd(a)
        start == SigningBlockStart(a, a[end].offset)
        pairs == SubSeq(a, start + 2, a[end].offset - 1)
    IN  IF end = 0 \/ start = -1 THEN <<>>
        ELSE IF \A u \in Range(pairs) : u.kind = "pair"
        THEN UnitsAt(pairs, {i \in DOMAIN pairs : pairs[i].id = "v2"})
        ELSE <<>>

\* verify_apk: the certificate of the signer.
Verified(a) ==
    LET pairs == V2Pairs(a)
        pair  == pairs[1]
    IN  IF /\ Len(pairs) = 1
           /\ pair.data.certificate = pair.public
           /\ pair.signature = [key |-> pair.public, of |-> pair.data]
           /\ pair.data.digest = ChunkedDigest(VerifiedSections(a))
        THEN pair.data.certificate ELSE Refused

----------------------------------------------------------------------------
(* Behaviors *)

\* A ZIP file as other tools write it.
Archive(payload, central, comment) ==
    payload \o central
      \o <<EndRecord(Len(central), Len(central), Len(payload), Len(comment))>> \o comment

Archives ==
    {Archive(p, c, d) : p \in BoundedSeq(Data, MaxPayload),
                        c \in BoundedSeq(Entry, MaxEntries),
                        d \in BoundedSeq([kind : {"data"}, value : {1}], 1)}

\* The sections of a file that someone has signed.
SignedBy(key, a) == {[key |-> key, sections |-> VerifiedSections(a)]}

\* An APK before its first signing here: unsigned, or signed by its origin.
Init ==
    /\ \E a \in Archives :
          \/ apk = a /\ signed = {}
          \/ /\ Signed(a, donor) # Refused
             /\ apk = Signed(a, donor) /\ signed = SignedBy(donor, apk)
    /\ source = apk /\ damage = 0

\* sign_apk with the project's key, unless it refuses the file; verify_apk of
\* the result changes nothing.
Sign ==
    /\ Signed(apk, project) # Refused
    /\ apk' = Signed(apk, project) /\ source' = apk
    /\ signed' = signed \cup SignedBy(project, apk')
    /\ UNCHANGED damage

\* A unit may become an end record that draws other borders or counts more,
\* a pair of another signer or of another scheme.
Changes(u) ==
    CASE u.kind = "eocd" ->
             {[u EXCEPT !.offset = n, !.size = u.offset + u.size - n] :
                n \in 0..(u.offset + u.size)}
               \cup {[u EXCEPT !.entries = @ + 1]}
      [] u.kind = "pair" ->
             {[u EXCEPT !.public = project, !.data.certificate = project],
              [u EXCEPT !.id = "v3"]}
      [] OTHER -> {}

\* ... or another unit of the file, other data, another entry.
Others(a) == Range(a) \cup Data \cup Entry \cup UNION {Changes(u) : u \in Range(a)}

\* A unit is changed, lost or added.
Damage ==
    /\ damage < MaxDamage /\ damage' = damage + 1
    /\ \/ \E i \in DOMAIN apk, u \in Others(apk) : apk' = [apk EXCEPT ![i] = u]
       \/ \E i \in DOMAIN apk : apk' = RemoveAt(apk, i)
       \/ \E i \in DOMAIN apk, u \in Others(apk) : apk' = InsertAt(apk, i, u)
    /\ apk' # apk
    /\ UNCHANGED <<source, signed>>

Next == Sign \/ Damage

Spec == Init /\ [][Next]_vars

TypeOK ==
    /\ damage \in 0..MaxDamage /\ {s.key : s \in signed} \subseteq {project, donor}
    /\ \A u \in Range(apk) \cup Range(source) :
          u.kind \in {"data", "size", "pair", "magic", "entry", "eocd"}

----------------------------------------------------------------------------
(* Properties *)

\* What sign_apk publishes is accepted by verify_apk as the project's, has
\* the payload and the entries of its source without those of v1, and signing
\* it again changes nothing: a rebuilt tree has the same bytes.
SigningIsStable ==
    UnsignedSections(source) # Refused /\ apk = Signed(source, project) =>
        /\ Verified(apk) = project
        /\ VerifiedSections(apk) = UnsignedSections(source)
        /\ Signed(apk, project) = apk

\* What verify_apk accepts was signed so: no change of the payload, the
\* directory, the end record, the comment or the borders between them, and no
\* exchange of the certificate, goes unnoticed.
AcceptedIsSigned ==
    Verified(apk) # Refused =>
        [key |-> Verified(apk), sections |-> VerifiedSections(apk)] \in signed
==============================================================================
